------------------------------ MODULE Circuits ------------------------------
(***************************************************************************)
(* The two zero-knowledge circuits of packages/zkp/circuits, as the        *)
(* constraints a prover's witness must satisfy, over the integers modulo   *)
(* the field's prime, while the months pass.                               *)
(*                                                                         *)
(* A signal is a field element: a subtraction wraps round, and a           *)
(* comparison of circomlib is defined only where its bits suffice.         *)
(* Poseidon is ideal: it is its inputs.  A holder can prove a claim if     *)
(* some private inputs satisfy the circuit for it.                         *)
(***************************************************************************)
EXTENDS Integers

CONSTANTS
    Prime,      \* the order of the scalar field
    Births,     \* private inputs of credentials of birth
    Citizens,   \* private inputs of credentials of citizenship
    Ages,       \* minimum ages a verifier asks for
    FirstYear, LastYear     \* bounds of the calendar

Field == 0 .. Prime - 1
BirthInputs == [birthYear : Field, birthMonth : 1 .. 12, birthDay : Field, credentialSecret : Field]
CitizenInputs == [nationalIdHash : Field, countryCode : Field, credentialSecret : Field]

\* Credentials hold a month of the calendar; the years are those in which an
\* age fits the eight bits of its comparison.
ASSUME CalendarAssumption ==
    /\ Prime \in Nat /\ Births \subseteq BirthInputs /\ Citizens \subseteq CitizenInputs
    /\ FirstYear \in Nat /\ LastYear \in FirstYear .. 2155
    /\ Ages \subseteq Nat /\ \A n \in 0 .. 255 \cup Ages : n + 8192 < Prime

VARIABLES
    birth,      \* Births: one holder's credential of birth
    citizen,    \* Citizens: and of citizenship
    today       \* [year, month]

vars == <<birth, citizen, today>>

Init == /\ birth \in Births /\ citizen \in Citizens
        /\ today \in [year : {FirstYear}, month : 1 .. 12]

\* A month passes.
NewMonth ==
    /\ today' = IF today.month = 12 THEN [year |-> today.year + 1, month |-> 1]
                ELSE [today EXCEPT !.month = @ + 1]
    /\ today'.year <= LastYear
    /\ UNCHANGED <<birth, citizen>>

Next == NewMonth

Spec == Init /\ [][Next]_vars

-----------------------------------------------------------------------------
(* circomlib. *)

Reduce(x) == x % Prime
Poseidon(inputs) == inputs

\* LessThan(n), with m = 2^n: Num2Bits(n + 1) of a + m - b, and its top bit.
LessThan(m, a, b, out) ==
    LET bits == Reduce(a + m - b) IN
    /\ bits < 2 * m
    /\ out = IF bits < m THEN 1 ELSE 0

GreaterEqThan(m, a, b, out) == LessThan(m, b, a + 1, out)

-----------------------------------------------------------------------------
(* age_verification.circom and citizenship_verification.circom. *)

\* Mutant: the month is not looked at.
AgeVerificationYears(in, public, isValid) ==
    /\ public.credentialHash = Poseidon(in)
    /\ GreaterEqThan(256, Reduce(public.currentYear - in.birthYear), public.minimumAge, isValid)
    /\ GreaterEqThan(2048, in.birthYear, 1900, 1) /\ LessThan(2048, in.birthYear, 2100, 1)

AgeVerification(in, public, isValid) ==
    \E notYet \in {0, 1} :
       LET yearAge == Reduce(public.currentYear - in.birthYear)
           age == Reduce(yearAge - notYet)
       IN
       /\ public.credentialHash = Poseidon(in)
       /\ LessThan(256, public.currentMonth, in.birthMonth, notYet)
       /\ GreaterEqThan(256, age, public.minimumAge, isValid)
       /\ GreaterEqThan(2048, in.birthYear, 1900, 1)
       /\ LessThan(2048, in.birthYear, 2100, 1)

CitizenshipVerification(in, public, isCitizen) ==
    /\ public.credentialHash = Poseidon(in)
    /\ isCitizen = IF in.countryCode = public.expectedCountry THEN 1 ELSE 0

\* There is a proof about the holder's credential with this output.
AgeProof(n, isValid) ==
    LET public == [currentYear |-> today.year, currentMonth |-> today.month,
                   minimumAge |-> n, credentialHash |-> Poseidon(birth)]
    IN  \E in \in Births : AgeVerification(in, public, isValid)

CitizenProof(country, isCitizen) ==
    LET public == [expectedCountry |-> country, credentialHash |-> Poseidon(citizen)]
    IN  \E in \in Citizens : CitizenshipVerification(in, public, isCitizen)

-----------------------------------------------------------------------------
(* Properties. *)

TypeOK == /\ birth \in Births /\ citizen \in Citizens
          /\ today \in [year : FirstYear .. LastYear, month : 1 .. 12]

\* The holder's n-th birthday falls in this month or an earlier one, and the
\* year of birth is one of those the circuit takes.
Reached(n) ==
    /\ birth.birthYear \in 1900 .. 2099
    /\ 12 * (today.year - birth.birthYear) + today.month - birth.birthMonth >= 12 * n

\* age_verification.circom:16 "1 if age >= minimumAge, 0 otherwise": through
\* every wrap of the field and every width of a comparison, a valid proof
\* exists for exactly the ages the holder has reached, to the month, an
\* invalid one for none of those, and of citizenship for one's own country.
ProvableExactly ==
    /\ TypeOK
    /\ \A n \in Ages : /\ AgeProof(n, 1) <=> Reached(n)
                       /\ AgeProof(n, 0) => ~Reached(n)
    /\ \A c \in {in.countryCode : in \in Citizens} :
          CitizenProof(c, 1) <=> c = citizen.countryCode
=============================================================================
