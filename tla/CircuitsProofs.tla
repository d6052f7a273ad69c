--------------------------- MODULE CircuitsProofs ---------------------------
(***************************************************************************)
(* Proofs about Circuits, for every field large enough, every set of       *)
(* credentials and every minimum age.                                      *)
(***************************************************************************)
EXTENDS Circuits, TLAPS

USE CalendarAssumption

\* The field has room for everything the circuits compute.
LEMMA PrimeIsLarge == Prime \in Nat /\ Prime > 8192
  OBVIOUS

\* The field's representatives near its ends.
LEMMA ReduceIs ==
    ASSUME NEW x \in Int
    PROVE  /\ 0 <= x /\ x < Prime => Reduce(x) = x
           /\ -Prime <= x /\ x < 0 => Reduce(x) = x + Prime
  BY PrimeIsLarge DEF Reduce

\* Comparing months is plain comparison.
LEMMA MonthsCompare ==
    ASSUME NEW a \in 1 .. 12, NEW b \in 1 .. 12, NEW out \in {0, 1}
    PROVE  LessThan(256, a, b, out) <=> out = IF a < b THEN 1 ELSE 0
<1>1. Reduce(a + 256 - b) = a + 256 - b
  BY PrimeIsLarge, ReduceIs
<1>2. QED
  BY <1>1 DEF LessThan

\* Of all field elements the circuit takes the years 1900 to 2099, though
\* neither bound fits its bits for every element.
LEMMA YearsAccepted ==
    ASSUME NEW y \in Field
    PROVE  GreaterEqThan(2048, y, 1900, 1) /\ LessThan(2048, y, 2100, 1) <=> y \in 1900 .. 2099
<1> USE PrimeIsLarge
<1>1. y \in Nat /\ y < Prime
  BY DEF Field
<1>2. CASE y < 52
  <2>1. Reduce(1900 + 2048 - (y + 1)) = 3947 - y
    BY <1>1, <1>2, ReduceIs
  <2>2. QED
    BY <1>1, <1>2, <2>1 DEF GreaterEqThan, LessThan
<1>3. CASE 52 <= y /\ y <= 3947
  <2>1. Reduce(1900 + 2048 - (y + 1)) = 3947 - y
    BY <1>1, <1>3, ReduceIs
  <2>2. Reduce(y + 2048 - 2100) = y - 52
    BY <1>1, <1>3, ReduceIs
  <2>3. QED
    BY <1>1, <1>3, <2>1, <2>2 DEF GreaterEqThan, LessThan
<1>4. CASE 3947 < y
  <2>1. Reduce(y + 2048 - 2100) = y - 52
    BY <1>1, <1>4, ReduceIs
  <2>2. QED
    BY <1>1, <1>4, <2>1 DEF LessThan
<1>5. QED
  BY <1>1, <1>2, <1>3, <1>4

\* An age below zero wraps round, and yet is compared as what it is.
LEMMA AgesCompare ==
    ASSUME NEW t \in Int, -4096 <= t, t <= 255, NEW n \in Nat, n + 8192 < Prime, NEW out \in {0, 1}
    PROVE  GreaterEqThan(256, Reduce(t), n, out) <=>
             t >= n - 256 /\ out = IF t >= n THEN 1 ELSE 0
<1> USE PrimeIsLarge
<1>1. CASE 0 <= t
  <2>1. Reduce(t) = t
    BY <1>1, ReduceIs
  <2>2. Reduce(n + 256 - (t + 1)) = n + 255 - t
    BY <1>1, ReduceIs
  <2>3. QED
    BY <1>1, <2>1, <2>2 DEF GreaterEqThan, LessThan
<1>2. CASE t < 0
  <2>1. Reduce(t) = t + Prime
    BY <1>2, ReduceIs
  <2>2. Reduce(n + 256 - (t + Prime + 1)) = n + 255 - t
    BY <1>2, ReduceIs
  <2>3. QED
    BY <1>2, <2>1, <2>2 DEF GreaterEqThan, LessThan
<1>3. QED
  BY <1>1, <1>2

\* Subtracting twice wraps as subtracting once.
LEMMA ReduceTwice ==
    ASSUME NEW u \in Int, -4000 <= u, u <= 4000, NEW c \in {0, 1}
    PROVE  Reduce(Reduce(u) - c) = Reduce(u - c)
<1> USE PrimeIsLarge
<1>1. CASE u < 0
  <2>1. Reduce(u) = u + Prime /\ Reduce(u - c) = u - c + Prime
    BY <1>1, ReduceIs
  <2>2. Reduce(u + Prime - c) = u + Prime - c
    BY <1>1, ReduceIs
  <2>3. QED
    BY <2>1, <2>2
<1>2. CASE u >= 0
  <2>1. Reduce(u) = u
    BY <1>2, ReduceIs
  <2>2. QED
    BY <2>1
<1>3. QED
  BY <1>1, <1>2

-----------------------------------------------------------------------------
\* The holder's age in years, to the month.
Age == today.year - birth.birthYear - (IF today.month < birth.birthMonth THEN 1 ELSE 0)

\* What the circuit of age proves of the holder.
LEMMA AgeProved ==
    ASSUME TypeOK, NEW n \in Nat, n + 8192 < Prime, NEW out \in {0, 1}
    PROVE  AgeProof(n, out) <=> /\ birth.birthYear \in 1900 .. 2099
                                /\ Age >= n - 256
                                /\ out = IF Age >= n THEN 1 ELSE 0
<1> DEFINE public == [currentYear |-> today.year, currentMonth |-> today.month,
                      minimumAge |-> n, credentialHash |-> Poseidon(birth)]
           notYet == IF today.month < birth.birthMonth THEN 1 ELSE 0
<1>1. /\ birth \in Births /\ birth.birthYear \in Field /\ birth.birthMonth \in 1 .. 12
      /\ today.month \in 1 .. 12 /\ today.year \in Nat /\ today.year <= 2155
  BY DEF TypeOK, BirthInputs
<1>2. AgeProof(n, out) <=> AgeVerification(birth, public, out)
  BY <1>1 DEF AgeProof, AgeVerification, Poseidon
<1>3. AgeVerification(birth, public, out) <=>
        /\ GreaterEqThan(256, Reduce(Reduce(today.year - birth.birthYear) - notYet), n, out)
        /\ birth.birthYear \in 1900 .. 2099
  <2>1. \A c \in {0, 1} : LessThan(256, today.month, birth.birthMonth, c) <=> c = notYet
    BY <1>1, MonthsCompare
  <2>2. GreaterEqThan(2048, birth.birthYear, 1900, 1) /\ LessThan(2048, birth.birthYear, 2100, 1)
          <=> birth.birthYear \in 1900 .. 2099
    BY <1>1, YearsAccepted
  <2>3. notYet \in {0, 1}
    OBVIOUS
  <2> HIDE DEF notYet
  <2>4. QED
    BY <2>1, <2>2, <2>3 DEF AgeVerification
<1>4. ASSUME birth.birthYear \in 1900 .. 2099
      PROVE  /\ Reduce(Reduce(today.year - birth.birthYear) - notYet) = Reduce(Age)
             /\ Age \in Int /\ -4096 <= Age /\ Age <= 255
  <2> DEFINE years == today.year - birth.birthYear
  <2>0. today.year \in Nat /\ today.year <= 2155
    BY <1>1
  <2>1. years \in Int /\ -4000 <= years /\ years <= 255
    BY ONLY <1>4, <2>0
  <2>2. notYet \in {0, 1} /\ Age = years - notYet
    BY DEF Age
  <2> HIDE DEF notYet, years
  <2>3. Age \in Int /\ -4096 <= Age /\ Age <= 255
    BY ONLY <2>1, <2>2
  <2>4. years \in Int /\ -4000 <= years /\ years <= 4000
    BY ONLY <2>1
  <2>5. Reduce(Reduce(years) - notYet) = Reduce(Age)
    BY <2>2, <2>4, ReduceTwice
  <2>6. QED
    BY <2>3, <2>5 DEF years
<1>5. CASE birth.birthYear \in 1900 .. 2099
  <2>1. GreaterEqThan(256, Reduce(Age), n, out) <=>
          Age >= n - 256 /\ out = IF Age >= n THEN 1 ELSE 0
    BY <1>4, <1>5, AgesCompare
  <2>2. Reduce(Reduce(today.year - birth.birthYear) - notYet) = Reduce(Age)
    BY <1>4, <1>5
  <2> HIDE DEF notYet, public
  <2>3. QED
    BY ONLY <1>2, <1>3, <1>5, <2>1, <2>2
<1>6. QED
  BY <1>2, <1>3, <1>5

\* The circuits prove exactly what holds of the credentials, to the month,
\* whatever the field (age_verification.circom, citizenship_verification.circom).
THEOREM ClaimsAreExact == Spec => []ProvableExactly
<1>1. Init => TypeOK
  BY DEF Init, TypeOK
<1>2. TypeOK /\ [Next]_vars => TypeOK'
  BY DEF TypeOK, Next, NewMonth, vars
<1>3. TypeOK => ProvableExactly
  <2> SUFFICES ASSUME TypeOK PROVE ProvableExactly
    OBVIOUS
  <2>1. ASSUME NEW n \in Ages PROVE (AgeProof(n, 1) <=> Reached(n)) /\ (AgeProof(n, 0) => ~Reached(n))
    <3>1. n \in Nat /\ n + 8192 < Prime
      OBVIOUS
    <3>2. Reached(n) <=> birth.birthYear \in 1900 .. 2099 /\ Age >= n
      BY <3>1 DEF Reached, Age, TypeOK, BirthInputs, Field
    <3>3. Age \in Int
      BY DEF Age, TypeOK, BirthInputs, Field
    <3>4. QED
      BY <3>1, <3>2, <3>3, AgeProved
  <2>2. \A c : CitizenProof(c, 1) <=> c = citizen.countryCode
    BY DEF TypeOK, CitizenProof, CitizenshipVerification, Poseidon
  <2>3. QED
    BY <2>1, <2>2 DEF ProvableExactly
<1>4. QED
  BY <1>1, <1>2, <1>3, PTL DEF Spec
=============================================================================
