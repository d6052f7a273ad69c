-------------------------- MODULE RateLimiterProofs --------------------------
(***************************************************************************)
(* Proofs about RateLimiter, for every set of clients, limit and window.   *)
(***************************************************************************)
EXTENDS RateLimiter, TLAPS

IInv == Consistent /\ IdleForgotten

LEMMA Initially == Init => IInv
  BY LimitAssumption DEF Init, IInv, Consistent, TypeOK, IdleForgotten

\* The table `allow` works on holds buckets, each as it was or forgotten.
LEMMA TableIsBuckets ==
    ASSUME IInv
    PROVE  /\ Table \in [Clients -> Bucket \cup {None}]
           /\ \A k \in Clients : Table[k] # None => Table[k] = buckets[k]
           /\ \A k \in Clients : Table[k] # None /\ SweepDue => now - buckets[k].updatedAt < Window
  BY LimitAssumption DEF IInv, Consistent, TypeOK, Table, Idle, Bucket

\* What `allow` writes for client k, and that it touches no other bucket.
LEMMA AllowWrites ==
    ASSUME IInv, NEW k \in Clients, Allow(k)
    PROVE  /\ buckets' \in [Clients -> Bucket \cup {None}]
           /\ buckets'[k] # None
           /\ buckets'[k].updatedAt = now /\ buckets'[k].count <= Limit
           /\ now < buckets'[k].resetAt /\ buckets'[k].resetAt <= now + Window
           /\ \A j \in Clients : j # k => buckets'[j] = Table[j]
           /\ ~Over(Table[k]) => buckets'[k].resetAt = Table[k].resetAt
<1> DEFINE b == Table[k]
<1>t. /\ now \in Nat /\ Limit \in Nat \ {0} /\ Window \in Nat \ {0}
      /\ Table \in [Clients -> Bucket \cup {None}]
      /\ b # None => /\ b \in Bucket /\ b.count \in Nat /\ b.count <= Limit
                     /\ b.resetAt \in Nat /\ b.updatedAt \in Nat
                     /\ b.updatedAt <= now /\ b.resetAt <= b.updatedAt + Window
  BY LimitAssumption, TableIsBuckets DEF IInv, Consistent, TypeOK, Bucket
<1>1. CASE Open(k)
  <2> DEFINE new == [count |-> 1, resetAt |-> now + Window, updatedAt |-> now]
  <2>1. new \in Bucket /\ new.count = 1 /\ new.resetAt = now + Window /\ new.updatedAt = now
    BY <1>t DEF Bucket
  <2>2. new # None
    BY <2>1, NoneAssumption
  <2>3. buckets' = [Table EXCEPT ![k] = new]
    BY <1>1 DEF Open
  <2> HIDE DEF new
  <2>4. QED
    BY <1>1, <1>t, <2>1, <2>2, <2>3 DEF Open
<1>2. ASSUME b # None, now < b.resetAt, NEW n \in Nat, n <= Limit,
             buckets' = [Table EXCEPT ![k] = [count |-> n, resetAt |-> b.resetAt, updatedAt |-> now]]
      PROVE  /\ buckets' \in [Clients -> Bucket \cup {None}]
             /\ buckets'[k] # None
             /\ buckets'[k].updatedAt = now /\ buckets'[k].count <= Limit
             /\ now < buckets'[k].resetAt /\ buckets'[k].resetAt <= now + Window
             /\ \A j \in Clients : j # k => buckets'[j] = Table[j]
             /\ buckets'[k].resetAt = Table[k].resetAt
  <2> DEFINE new == [count |-> n, resetAt |-> b.resetAt, updatedAt |-> now]
  <2>1. new \in Bucket /\ new.count = n /\ new.resetAt = b.resetAt /\ new.updatedAt = now
    BY <1>t, <1>2 DEF Bucket
  <2>2. new # None
    BY <2>1, NoneAssumption
  <2>3. b.resetAt <= now + Window
    BY <1>t, <1>2
  <2> HIDE DEF new
  <2>4. buckets' = [Table EXCEPT ![k] = new]
    BY <1>2 DEF new
  <2>5. QED
    BY <1>t, <1>2, <2>1, <2>2, <2>3, <2>4
<1>3. CASE Refuse(k)
  <2>1. b # None /\ now < b.resetAt
    BY <1>3, <1>t DEF Refuse, Over
  <2>2. buckets' = [Table EXCEPT ![k] = [count |-> b.count, resetAt |-> b.resetAt, updatedAt |-> now]]
    <3>1. [b EXCEPT !.updatedAt = now] = [count |-> b.count, resetAt |-> b.resetAt, updatedAt |-> now]
      BY <1>t, <2>1 DEF Bucket
    <3>2. buckets' = [Table EXCEPT ![k] = [b EXCEPT !.updatedAt = now]]
      BY <1>3 DEF Refuse
    <3> HIDE DEF b
    <3>3. QED
      BY <3>1, <3>2
  <2>3. QED
    BY <1>2, <1>t, <2>1, <2>2
<1>4. CASE Count(k)
  <2>1. b # None /\ now < b.resetAt /\ ~(b.count >= Limit)
    BY <1>4, <1>t DEF Count, Over, Full
  <2>2. buckets' = [Table EXCEPT ![k] = [count |-> b.count + 1, resetAt |-> b.resetAt, updatedAt |-> now]]
    BY <1>4 DEF Count, Counted
  <2>3. b.count + 1 \in Nat /\ b.count + 1 <= Limit
    BY <1>t, <2>1
  <2>4. QED
    BY <1>2, <2>1, <2>2, <2>3
<1>5. QED
  BY <1>1, <1>3, <1>4 DEF Allow

LEMMA InvariantInductive == IInv /\ [Next]_vars => IInv'
<1> SUFFICES ASSUME IInv, [Next]_vars PROVE IInv'
  OBVIOUS
<1>1. CASE Tick
  <2>1. now' = now + 1 /\ now \in Nat /\ now' \in 0 .. MaxNow
    BY <1>1, LimitAssumption DEF Tick, IInv, Consistent, TypeOK
  <2>2. UNCHANGED <<buckets, lastSweep, asked, passed>>
    BY <1>1 DEF Tick
  <2>3. TypeOK'
    BY <2>1, <2>2 DEF IInv, Consistent, TypeOK
  <2>4. Consistent'
    BY <2>1, <2>2 DEF IInv, Consistent, TypeOK, Bucket
  <2>5. IdleForgotten'
    BY <2>2 DEF IInv, IdleForgotten
  <2>6. QED
    BY <2>3, <2>4, <2>5 DEF IInv
<1>2. ASSUME NEW k \in Clients, Allow(k)
      PROVE  IInv'
  <2>1. /\ buckets' \in [Clients -> Bucket \cup {None}]
        /\ buckets'[k] # None
        /\ buckets'[k].updatedAt = now /\ buckets'[k].count <= Limit
        /\ now < buckets'[k].resetAt /\ buckets'[k].resetAt <= now + Window
        /\ \A j \in Clients : j # k => buckets'[j] = Table[j]
    BY <1>2, AllowWrites
  <2>2. /\ now' = now /\ asked' = [asked EXCEPT ![k] = now]
        /\ lastSweep' = IF SweepDue THEN now ELSE lastSweep
    BY <1>2 DEF Allow
  <2>t. now \in 0 .. MaxNow /\ now \in Nat /\ Window \in Nat \ {0}
    BY LimitAssumption DEF IInv, Consistent, TypeOK
  <2>3. passed' \in [Clients -> [Instants -> Nat]]
    <3> DEFINE row == [t \in Instants |-> IF t > now THEN passed[k][t] + 1 ELSE passed[k][t]]
    <3>1. passed' = passed \/ passed' = [passed EXCEPT ![k] = row]
      BY <1>2 DEF Allow, Open, Refuse, Count, Grant, IInv, Consistent, TypeOK
    <3>2. passed \in [Clients -> [Instants -> Nat]]
      BY DEF IInv, Consistent, TypeOK
    <3>3. row \in [Instants -> Nat]
      BY <3>2
    <3> HIDE DEF row
    <3>4. QED
      BY <3>1, <3>2, <3>3
  <2>4. TypeOK'
    BY <2>1, <2>2, <2>3, <2>t DEF IInv, Consistent, TypeOK
  <2>5. ASSUME NEW j \in Clients, buckets'[j] # None
        PROVE  /\ buckets'[j].count <= Limit
               /\ buckets'[j].updatedAt <= now'
               /\ buckets'[j].updatedAt < buckets'[j].resetAt
               /\ buckets'[j].resetAt <= buckets'[j].updatedAt + Window
               /\ asked'[j] = buckets'[j].updatedAt
               /\ lastSweep' # None => lastSweep' - buckets'[j].updatedAt < Window
    <3>1. CASE j = k
      BY <2>1, <2>2, <2>t, <3>1 DEF IInv, Consistent, TypeOK
    <3>2. CASE j # k
      <4>1. buckets'[j] = buckets[j] /\ (SweepDue => now - buckets[j].updatedAt < Window)
        BY <2>1, <2>5, <3>2, TableIsBuckets
      <4>2. QED
        BY <2>2, <2>5, <3>2, <4>1 DEF IInv, Consistent, TypeOK, IdleForgotten
    <3>3. QED
      BY <3>1, <3>2
  <2>6. lastSweep' # None => lastSweep' <= now'
    BY <2>2, <2>t DEF IInv, Consistent
  <2>7. QED
    BY <2>4, <2>5, <2>6 DEF IInv, Consistent, IdleForgotten
<1>3. CASE UNCHANGED vars
  BY <1>3 DEF vars, IInv, Consistent, TypeOK, IdleForgotten
<1>4. QED
  BY <1>1, <1>2, <1>3 DEF Next

\* Types, and the shape of every bucket: none counts past the limit or outlasts
\* its last request by more than a window (security.go:89-108).
THEOREM LimiterStaysConsistent == Spec => []Consistent
  BY Initially, InvariantInductive, PTL DEF Spec, IInv

\* The sweep bounds what is kept (security.go:80-87).
THEOREM IdleAreForgotten == Spec => []IdleForgotten
  BY Initially, InvariantInductive, PTL DEF Spec, IInv

\* Waiting out Retry-After is enough (security.go:63, 90).
THEOREM PatienceIsRewarded == Spec => []PatienceRewarded
<1>1. IInv => PatienceRewarded
  <2> SUFFICES ASSUME IInv, NEW k \in Clients, Refused(k)
               PROVE  asked[k] # None /\ now - asked[k] < Window
    BY DEF PatienceRewarded
  <2>1. /\ buckets[k] # None /\ buckets[k] \in Bucket
        /\ ~(now >= buckets[k].resetAt)
    BY TableIsBuckets DEF Refused, Over, IInv, Consistent, TypeOK
  <2>2. /\ asked[k] = buckets[k].updatedAt
        /\ buckets[k].resetAt <= buckets[k].updatedAt + Window
    BY <2>1 DEF IInv, Consistent
  <2>3. now \in Nat /\ Window \in Nat /\ buckets[k].updatedAt \in Nat /\ buckets[k].resetAt \in Nat
    BY <2>1, LimitAssumption DEF IInv, Consistent, TypeOK, Bucket
  <2>4. asked[k] # None
    BY <2>2, <2>3, NoneAssumption
  <2>5. QED
    BY <2>1, <2>2, <2>3, <2>4
<1>2. QED
  BY <1>1, Initially, InvariantInductive, PTL DEF Spec

\* No sweep drops an open window, and no request moves its end
\* (security.go:82, 99-108).
THEOREM OpenWindowsAreKept == Spec => OpenWindowKept
<1>1. ASSUME IInv, [Next]_vars, NEW k \in Clients, buckets[k] # None, now < buckets[k].resetAt
      PROVE  buckets'[k] # None /\ buckets'[k].resetAt = buckets[k].resetAt
  <2>1. /\ buckets[k].resetAt <= buckets[k].updatedAt + Window
        /\ buckets[k] \in Bucket /\ now \in Nat /\ Window \in Nat
    BY <1>1, LimitAssumption DEF IInv, Consistent, TypeOK
  <2>2. ~Idle(buckets[k])
    BY <1>1, <2>1 DEF Idle, Bucket
  <2>3. Table[k] = buckets[k]
    BY <1>1, <2>2 DEF Table
  <2>4. ~Over(Table[k])
    BY <1>1, <2>1, <2>3 DEF Over, Bucket
  <2>5. ASSUME NEW j \in Clients, Allow(j)
        PROVE  buckets'[k] # None /\ buckets'[k].resetAt = buckets[k].resetAt
    BY <1>1, <2>3, <2>4, <2>5, AllowWrites
  <2>6. CASE UNCHANGED buckets
    BY <1>1, <2>6
  <2>7. QED
    BY <1>1, <2>5, <2>6 DEF Next, Tick, vars
<1>2. IInv /\ [Next]_vars =>
        [\A k \in Clients : buckets[k] # None /\ now < buckets[k].resetAt =>
           buckets'[k] # None /\ (buckets'[k].resetAt = buckets[k].resetAt)]_vars
  BY <1>1
<1>3. QED
  BY <1>2, Initially, InvariantInductive, PTL DEF Spec, OpenWindowKept

-----------------------------------------------------------------------------
(* How many requests pass.  Hist says what bucket b, at instant n, remembers *)
(* of the requests p let through so far: those since it was opened are its   *)
(* count, and the Window before that saw fewer than Limit.  Without a bucket *)
(* nothing passed for a Window.                                              *)
Hist(p, b, n) ==
    /\ \A s, t \in Instants : s <= t => p[s] <= p[t]
    /\ \A t \in Instants : t > n => p[t] = p[n + 1]
    /\ b = None => \A t \in Instants : n - t < Window => p[t] = p[n + 1]
    /\ b # None =>
         LET o == b.resetAt - Window IN
         /\ o >= 0 /\ o <= b.updatedAt
         /\ \A t \in Instants : t > b.updatedAt => p[t] = p[n + 1]
         /\ p[n + 1] - p[o] = b.count /\ p[o + 1] >= p[o] + 1
         /\ \A s \in Instants : s <= o /\ o - s < Window => p[o] - p[s] <= Limit - 1

Twice(p) == \A s, t \in Instants : s <= t /\ t <= s + Window => p[t] - p[s] < 2 * Limit

\* A bucket as Consistent allows it at instant n.
Sound(b, n) == b # None => /\ b \in Bucket /\ b.count <= Limit /\ b.updatedAt <= n
                           /\ b.updatedAt < b.resetAt /\ b.resetAt <= b.updatedAt + Window

More(p, n) == [t \in Instants |-> IF t > n THEN p[t] + 1 ELSE p[t]]

\* Time alone adds nothing.
LEMMA HistTick ==
    ASSUME NEW p \in [Instants -> Nat], NEW b, NEW n \in 0 .. MaxNow, Sound(b, n),
           Hist(p, b, n), n < MaxNow
    PROVE  Hist(p, b, n + 1)
<1>1. n + 1 \in Instants /\ n + 2 \in Instants /\ p[n + 2] = p[n + 1]
  BY LimitAssumption DEF Instants, Hist
<1>2. QED
  BY <1>1, LimitAssumption DEF Hist, Sound, Bucket, Instants

\* The sweep takes a bucket whose client asked nothing for a Window.
LEMMA HistSweep ==
    ASSUME NEW p \in [Instants -> Nat], NEW b, NEW n \in 0 .. MaxNow, Sound(b, n),
           Hist(p, b, n), b # None, n - b.updatedAt >= Window
    PROVE  Hist(p, None, n)
  BY LimitAssumption DEF Hist, Sound, Bucket, Instants

\* A refused request only moves the bucket's last use.
LEMMA HistRefuse ==
    ASSUME NEW p \in [Instants -> Nat], NEW b, NEW n \in 0 .. MaxNow, Sound(b, n),
           Hist(p, b, n), b # None, NEW c, c # None,
           c.count = b.count, c.resetAt = b.resetAt, c.updatedAt = n
    PROVE  Hist(p, c, n)
  BY LimitAssumption DEF Hist, Sound, Bucket, Instants

\* When a window can be opened, the last Window saw fewer than Limit requests
\* and this instant none.
LEMMA Room ==
    ASSUME NEW p \in [Instants -> Nat], NEW b, NEW n \in 0 .. MaxNow, Sound(b, n),
           Hist(p, b, n), b # None => n >= b.resetAt
    PROVE  /\ \A s \in Instants : s <= n /\ n - s < Window => p[n + 1] - p[s] <= Limit - 1
           /\ p[n + 1] = p[n]
<1>1. n \in Instants /\ n + 1 \in Instants /\ Limit \in Nat /\ Limit >= 1 /\ Window \in Nat /\ Window >= 1
  BY LimitAssumption DEF Instants
<1>2. CASE b = None
  BY <1>1, <1>2 DEF Hist
<1>3. CASE b # None
  <2> DEFINE o == b.resetAt - Window
  <2>1. /\ o \in 0 .. n /\ o \in Instants /\ o + 1 \in Instants /\ o + Window <= n
        /\ b.updatedAt < n /\ b.count \in Nat /\ b.count <= Limit
    <3>1. /\ b.resetAt \in Nat /\ b.updatedAt \in Nat /\ b.count \in Nat
          /\ b.count <= Limit /\ b.updatedAt <= n /\ b.updatedAt < b.resetAt /\ b.resetAt <= n
      BY <1>3 DEF Sound, Bucket
    <3>2. o >= 0 /\ o <= b.updatedAt
      BY <1>3 DEF Hist
    <3>3. o \in Nat /\ o + Window <= n /\ b.updatedAt < n
      BY <1>1, <3>1, <3>2
    <3> HIDE DEF o
    <3>4. o \in 0 .. n /\ n \in 0 .. MaxNow
      BY <1>1, <3>3
    <3>5. QED
      BY <3>1, <3>3, <3>4, LimitAssumption DEF Instants
  <2>2. p[n + 1] - p[o] = b.count /\ p[o + 1] >= p[o] + 1 /\ p[n + 1] = p[n]
    BY <1>1, <1>3, <2>1 DEF Hist
  <2>3. ASSUME NEW s \in Instants, s <= n, n - s < Window
        PROVE  p[n + 1] - p[s] <= Limit - 1
    <3>1. o + 1 <= s
      BY <1>1, <2>1, <2>3 DEF Instants
    <3>2. p[o + 1] <= p[s]
      BY <2>1, <3>1 DEF Hist
    <3>3. p[o] \in Nat /\ p[o + 1] \in Nat /\ p[s] \in Nat /\ p[n + 1] \in Nat
      BY <1>1, <2>1
    <3> HIDE DEF o
    <3>4. QED
      BY <1>1, <2>1, <2>2, <3>2, <3>3
  <2>4. QED
    BY <2>2, <2>3
<1>4. QED
  BY <1>2, <1>3

\* What one more request does to the sums.
LEMMA MoreSums ==
    ASSUME NEW p \in [Instants -> Nat], NEW n \in 0 .. MaxNow,
           \A s, t \in Instants : s <= t => p[s] <= p[t],
           \A t \in Instants : t > n => p[t] = p[n + 1]
    PROVE  /\ More(p, n) \in [Instants -> Nat]
           /\ \A t \in Instants : t <= n => More(p, n)[t] = p[t]
           /\ \A t \in Instants : t > n => More(p, n)[t] = p[n + 1] + 1
           /\ \A s, t \in Instants : s <= t => More(p, n)[s] <= More(p, n)[t]
  BY LimitAssumption DEF More, Instants

LEMMA HistOpen ==
    ASSUME NEW p \in [Instants -> Nat], NEW b, NEW n \in 0 .. MaxNow, Sound(b, n),
           Hist(p, b, n), Twice(p), b # None => n >= b.resetAt,
           NEW c, c # None, c.count = 1, c.resetAt = n + Window, c.updatedAt = n
    PROVE  Hist(More(p, n), c, n) /\ Twice(More(p, n))
<1>1. n \in Instants /\ n + 1 \in Instants /\ Limit \in Nat /\ Limit >= 1 /\ Window \in Nat /\ Window >= 1
  BY LimitAssumption DEF Instants
<1> DEFINE q == More(p, n)
<1>2. /\ q \in [Instants -> Nat]
      /\ \A t \in Instants : t <= n => q[t] = p[t]
      /\ \A t \in Instants : t > n => q[t] = p[n + 1] + 1
      /\ \A s, t \in Instants : s <= t => q[s] <= q[t]
  BY MoreSums DEF Hist
<1>3. /\ \A s \in Instants : s <= n /\ n - s < Window => p[n + 1] - p[s] <= Limit - 1
      /\ p[n + 1] = p[n]
  BY Room
<1> HIDE DEF q
<1>4. Hist(q, c, n)
  <2>1. n + Window - Window = n
    BY <1>1
  <2>2. q[n + 1] = q[n] + 1 /\ q[n] = p[n]
    BY <1>1, <1>2, <1>3
  <2>3. \A s \in Instants : s <= n /\ n - s < Window => q[n] - q[s] <= Limit - 1
    BY <1>1, <1>2, <1>3
  <2>4. q[n] \in Nat
    BY <1>1, <1>2
  <2>5. \A t \in Instants : t > n => q[t] = q[n + 1]
    BY <1>1, <1>2
  <2>6. q[n + 1] - q[n] = 1 /\ q[n + 1] >= q[n] + 1
    BY <2>2, <2>4
  <2>7. QED
    BY <1>1, <1>2, <2>1, <2>3, <2>5, <2>6 DEF Hist
<1>5. ASSUME NEW s \in Instants, NEW t \in Instants, s <= t, t <= s + Window
      PROVE  q[t] - q[s] < 2 * Limit
  <2>1. p[s] \in Nat /\ p[t] \in Nat /\ p[n + 1] \in Nat /\ s \in Nat /\ t \in Nat /\ n \in Nat
    BY <1>1 DEF Instants
  <2>2. CASE t <= n
    BY <1>2, <1>5, <2>1, <2>2 DEF Twice
  <2>3. CASE s > n
    BY <1>1, <1>2, <1>5, <2>1, <2>3
  <2>4. CASE s <= n /\ n < t
    <3>1. q[t] = p[n + 1] + 1 /\ q[s] = p[s] /\ p[n + 1] - p[s] <= Limit - 1
      BY <1>1, <1>2, <1>3, <1>5, <2>1, <2>4
    <3>2. QED
      BY <1>1, <2>1, <3>1
  <2>5. QED
    BY <2>1, <2>2, <2>3, <2>4
<1>6. QED
  BY <1>4, <1>5 DEF Twice, q

LEMMA HistCount ==
    ASSUME NEW p \in [Instants -> Nat], NEW b, NEW n \in 0 .. MaxNow, Sound(b, n),
           Hist(p, b, n), Twice(p), b # None, n < b.resetAt, b.count < Limit,
           NEW c, c # None, c.count = b.count + 1, c.resetAt = b.resetAt, c.updatedAt = n
    PROVE  Hist(More(p, n), c, n) /\ Twice(More(p, n))
<1> DEFINE o == b.resetAt - Window
           q == More(p, n)
<1>1. n \in Instants /\ n + 1 \in Instants /\ Limit \in Nat /\ Limit >= 1 /\ Window \in Nat /\ Window >= 1
  BY LimitAssumption DEF Instants
<1>2. /\ q \in [Instants -> Nat]
      /\ \A t \in Instants : t <= n => q[t] = p[t]
      /\ \A t \in Instants : t > n => q[t] = p[n + 1] + 1
      /\ \A s, t \in Instants : s <= t => q[s] <= q[t]
  BY MoreSums DEF Hist
<1>3. /\ o \in 0 .. n /\ o \in Instants /\ o + 1 \in Instants /\ n < o + Window
      /\ b.count \in Nat /\ b.count + 1 <= Limit
  <2>1. /\ b.resetAt \in Nat /\ b.updatedAt \in Nat /\ b.count \in Nat
        /\ b.updatedAt <= n /\ b.resetAt <= b.updatedAt + Window
    BY DEF Sound, Bucket
  <2>2. o >= 0 /\ o <= b.updatedAt /\ o \in Int /\ n < o + Window
    BY <1>1, <2>1 DEF Hist
  <2>3. b.count + 1 <= Limit /\ n \in Nat /\ n <= MaxNow /\ MaxNow \in Nat
    BY <1>1, <2>1, LimitAssumption
  <2> HIDE DEF o
  <2>4. o \in 0 .. n
    BY ONLY <2>1, <2>2, <2>3
  <2>5. o \in Instants /\ o + 1 \in Instants
    BY ONLY <2>3, <2>4 DEF Instants
  <2>6. QED
    BY ONLY <2>1, <2>2, <2>3, <2>4, <2>5
<1>4. /\ p[n + 1] - p[o] = b.count /\ p[o + 1] >= p[o] + 1
      /\ \A s \in Instants : s <= o /\ o - s < Window => p[o] - p[s] <= Limit - 1
      /\ \A s \in Instants : s >= o => p[s] >= p[o]
  BY <1>3 DEF Hist
<1>5. \A s \in Instants : p[s] \in Nat
  OBVIOUS
<1>o. o = c.resetAt - Window
  OBVIOUS
<1> HIDE DEF q, o
<1>6. Hist(q, c, n)
  <2>1. q[o] = p[o] /\ q[n + 1] = p[n + 1] + 1
    BY <1>1, <1>2, <1>3
  <2>2. q[n + 1] - q[o] = b.count + 1
    BY <1>1, <1>3, <1>4, <1>5, <2>1
  <2>3. q[o + 1] >= q[o] + 1
    <3>1. q[o + 1] >= p[o + 1]
      <4>1. CASE o + 1 <= n
        BY <1>2, <1>3, <1>5, <4>1
      <4>2. CASE o + 1 > n
        <5>1. o + 1 = n + 1
          BY <1>3, <4>2
        <5>2. QED
          BY <1>1, <1>5, <2>1, <5>1
      <4>3. QED
        BY <1>3, <4>1, <4>2
    <3>2. q[o + 1] \in Nat
      BY <1>2, <1>3
    <3>3. QED
      BY <1>3, <1>4, <1>5, <2>1, <3>1, <3>2
  <2>4. \A s \in Instants : s <= o /\ o - s < Window => q[o] - q[s] <= Limit - 1
    BY <1>2, <1>3, <1>4, <2>1 DEF Instants
  <2>5. \A t \in Instants : t > n => q[t] = q[n + 1]
    BY <1>1, <1>2
  <2>6. QED
    BY <1>2, <1>3, <1>o, <2>2, <2>3, <2>4, <2>5 DEF Hist
<1>7. ASSUME NEW s \in Instants, NEW t \in Instants, s <= t, t <= s + Window
      PROVE  q[t] - q[s] < 2 * Limit
  <2>1. p[s] \in Nat /\ p[t] \in Nat /\ p[n + 1] \in Nat /\ p[o] \in Nat /\ s \in Nat /\ t \in Nat /\ n \in Nat
    BY <1>1, <1>3 DEF Instants
  <2>2. CASE t <= n
    BY <1>2, <1>7, <2>1, <2>2 DEF Twice
  <2>3. CASE s > n
    BY <1>1, <1>2, <1>7, <2>1, <2>3
  <2>4. CASE s <= n /\ n < t
    <3>1. q[t] = p[n + 1] + 1 /\ q[s] = p[s]
      BY <1>2, <2>4
    <3>2. CASE o <= s
      BY <1>1, <1>3, <1>4, <2>1, <3>1, <3>2
    <3>3. CASE s < o
      <4>1. o - s < Window
        BY <1>1, <1>3, <1>7, <2>1, <2>4, <3>3
      <4>2. p[o] - p[s] <= Limit - 1
        BY <1>4, <3>3, <4>1, <1>3, <2>1
      <4>3. QED
        BY <1>1, <1>3, <1>4, <2>1, <3>1, <4>2
    <3>4. QED
      BY <1>3, <2>1, <3>2, <3>3
  <2>5. QED
    BY <2>1, <2>2, <2>3, <2>4
<1>8. QED
  BY <1>6, <1>7 DEF Twice, q

-----------------------------------------------------------------------------
History == \A k \in Clients : Hist(passed[k], buckets[k], now) /\ Twice(passed[k])

LEMMA HistoryInductive ==
    ASSUME IInv, History, [Next]_vars
    PROVE  History'
<1>1. /\ now \in 0 .. MaxNow
      /\ \A k \in Clients : passed[k] \in [Instants -> Nat] /\ Sound(buckets[k], now)
  BY DEF IInv, Consistent, TypeOK, Sound
<1>2. CASE Tick
  <2>1. now < MaxNow /\ now' = now + 1 /\ passed' = passed /\ buckets' = buckets
    BY <1>2 DEF Tick
  <2>2. QED
    BY <1>1, <2>1, HistTick DEF History
<1>3. ASSUME NEW k \in Clients, Allow(k)
      PROVE  History'
  <2>1. now' = now
    BY <1>3 DEF Allow
  <2>2. \A j \in Clients : Hist(passed[j], Table[j], now) /\ Sound(Table[j], now)
    <3>1. ASSUME NEW j \in Clients
          PROVE  Hist(passed[j], Table[j], now) /\ Sound(Table[j], now)
      <4>1. CASE Table[j] = buckets[j]
        BY <1>1, <4>1 DEF History
      <4>2. CASE Table[j] # buckets[j]
        <5>1. Table[j] = None /\ buckets[j] # None /\ now - buckets[j].updatedAt >= Window
          BY <4>2 DEF Table, Idle
        <5>2. QED
          BY <1>1, <5>1, HistSweep DEF History, Sound
      <4>3. QED
        BY <4>1, <4>2
    <3>2. QED
      BY <3>1
  <2>3. ASSUME NEW j \in Clients, j # k
        PROVE  Hist(passed'[j], buckets'[j], now) /\ Twice(passed'[j])
    <3>1. passed'[j] = passed[j]
      BY <1>3, <2>3 DEF Allow, Open, Refuse, Count, Grant, IInv, Consistent, TypeOK
    <3>2. buckets'[j] = Table[j]
      BY <1>3, <2>3, AllowWrites
    <3>3. QED
      BY <2>2, <3>1, <3>2 DEF History
  <2> DEFINE b == Table[k]
             c == buckets'[k]
             p == passed[k]
  <2>4. /\ Table \in [Clients -> Bucket \cup {None}]
        /\ buckets' \in [Clients -> Bucket \cup {None}] /\ c # None /\ c.updatedAt = now
    BY <1>3, AllowWrites, TableIsBuckets
  <2>5. Hist(p, b, now) /\ Sound(b, now) /\ Twice(p) /\ p \in [Instants -> Nat]
    BY <1>1, <2>2 DEF History
  <2>6. Grant(k) => passed'[k] = More(p, now)
    BY DEF Grant, More, IInv, Consistent, TypeOK
  <2>7. b # None => b.resetAt \in Nat /\ b.count \in Nat /\ b \in Bucket
    BY <2>4 DEF Bucket
  <2>8. Hist(passed'[k], c, now) /\ Twice(passed'[k])
    <3>1. CASE Open(k)
      <4>1. (b # None => now >= b.resetAt) /\ c.count = 1 /\ c.resetAt = now + Window
        BY <2>4, <3>1 DEF Open, Over
      <4>2. passed'[k] = More(p, now)
        BY <2>6, <3>1 DEF Open
      <4> HIDE DEF b, c, p
      <4>3. QED
        BY <1>1, <2>4, <2>5, <4>1, <4>2, HistOpen
    <3>2. CASE Refuse(k)
      <4>1. b # None /\ c = [b EXCEPT !.updatedAt = now]
        BY <2>4, <3>2 DEF Refuse, Over
      <4>2. c.count = b.count /\ c.resetAt = b.resetAt
        BY <2>7, <4>1 DEF Bucket
      <4>3. passed'[k] = p
        BY <3>2 DEF Refuse
      <4> HIDE DEF b, c, p
      <4>4. QED
        BY <1>1, <2>4, <2>5, <4>1, <4>2, <4>3, HistRefuse
    <3>3. CASE Count(k)
      <4>1. b # None /\ now < b.resetAt /\ b.count < Limit
        BY <1>1, <2>7, <3>3, LimitAssumption DEF Count, Over, Full
      <4>2. c.count = b.count + 1 /\ c.resetAt = b.resetAt
        BY <2>4, <3>3 DEF Count, Counted
      <4>3. passed'[k] = More(p, now)
        BY <2>6, <3>3 DEF Count
      <4> HIDE DEF b, c, p
      <4>4. QED
        BY <1>1, <2>4, <2>5, <4>1, <4>2, <4>3, HistCount
    <3>4. QED
      BY <1>3, <3>1, <3>2, <3>3 DEF Allow
  <2>9. QED
    BY <2>1, <2>3, <2>8 DEF History
<1>4. CASE UNCHANGED vars
  BY <1>4 DEF vars, History
<1>5. QED
  BY <1>2, <1>3, <1>4 DEF Next

LEMMA HistoryInitially == Init => History
<1> SUFFICES ASSUME Init, NEW k \in Clients
             PROVE  Hist(passed[k], buckets[k], now) /\ Twice(passed[k])
  BY DEF History
<1>1. \A t \in Instants : passed[k][t] = 0
  BY DEF Init
<1>2. 1 \in Instants /\ now = 0 /\ buckets[k] = None
  BY LimitAssumption DEF Init, Instants
<1>3. QED
  BY <1>1, <1>2, LimitAssumption DEF Hist, Twice

\* Whatever the limit and the window, no Window instants let twice the limit
\* through (security.go:78-109).
THEOREM AlwaysLessThanTwice == Spec => []LessThanTwice
<1>1. History => LessThanTwice
  BY DEF History, Twice, LessThanTwice, Granted
<1>2. QED
  BY <1>1, Initially, InvariantInductive, HistoryInitially, HistoryInductive, PTL DEF Spec

\* A 429 is always deserved (security.go:99-103).
THEOREM RefusalsAreDeserved == Spec => []RefusedForCause
<1>1. IInv /\ History => RefusedForCause
  <2> SUFFICES ASSUME IInv, History, NEW k \in Clients, Refused(k)
               PROVE  \E s \in 0 .. now : now - s < Window /\ Granted(k, s, now + 1) >= Limit
    BY DEF RefusedForCause
  <2> DEFINE b == buckets[k]
             o == b.resetAt - Window
  <2>1. /\ b # None /\ b \in Bucket /\ now < b.resetAt /\ b.count >= Limit
        /\ now \in Nat /\ b.updatedAt <= now
    BY TableIsBuckets DEF Refused, Over, Full, IInv, Consistent, TypeOK, Bucket
  <2>2. o >= 0 /\ o <= b.updatedAt /\ passed[k][now + 1] - passed[k][o] = b.count
    BY <2>1 DEF History, Hist
  <2>3. o \in 0 .. now /\ now - o < Window
    BY <2>1, <2>2, LimitAssumption DEF Bucket
  <2>4. QED
    BY <2>1, <2>2, <2>3 DEF Granted
<1>2. QED
  BY <1>1, Initially, InvariantInductive, HistoryInitially, HistoryInductive, PTL DEF Spec
=============================================================================
