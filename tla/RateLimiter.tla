---------------------------- MODULE RateLimiter ----------------------------
(***************************************************************************)
(* The request limiter of middleware/security.go: a fixed window of Window *)
(* instants and Limit requests per client, opened by the client's first    *)
(* request, and a sweep that forgets idle clients, run by whatever request *)
(* comes first after a Window.  `allow` holds the mutex from reading the   *)
(* clock to its return, so it is one action.  Limit and Window are         *)
(* positive: otherwise the limiter lets everything through untouched.      *)
(***************************************************************************)
EXTENDS Integers

CONSTANTS
    Clients,    \* the addresses clientIP returns
    Limit,      \* requests per window
    Window,     \* its length
    MaxNow,     \* bound: the last instant of the clock
    None        \* no bucket, no sweep and no request yet

Bucket == [count : Nat, resetAt : Nat, updatedAt : Nat]

ASSUME LimitAssumption == Limit \in Nat \ {0} /\ Window \in Nat \ {0} /\ MaxNow \in Nat
ASSUME NoneAssumption == None \notin Bucket /\ None \notin Nat

VARIABLES
    now,        \* l.now()
    buckets,    \* [Clients -> Bucket \cup {None}]
    lastSweep,  \* time of the last sweep, or None
    asked,      \* [Clients -> Nat \cup {None}]: last request of each client
    passed      \* passed[k][t]: requests of k let through before instant t

vars == <<now, buckets, lastSweep, asked, passed>>

Instants == 0 .. MaxNow + 1

Init == /\ now = 0
        /\ buckets = [k \in Clients |-> None]
        /\ lastSweep = None
        /\ asked = [k \in Clients |-> None]
        /\ passed = [k \in Clients |-> [t \in Instants |-> 0]]

SweepDue == lastSweep = None \/ now - lastSweep >= Window

\* Mutants: whatever was not used this very instant is idle; nothing is.
IdleAtOnce(b) == now > b.updatedAt
IdleNever(b) == FALSE

Idle(b) == now - b.updatedAt >= Window

\* The buckets `allow` goes on with.
Table == IF SweepDue THEN [k \in Clients |-> IF buckets[k] # None /\ Idle(buckets[k])
                                             THEN None ELSE buckets[k]]
                     ELSE buckets

\* Mutant: a window is over only when its bucket is swept.
OverNever(b) == b = None

Over(b) == b # None => now >= b.resetAt

\* Mutant: one request too many.
FullLate(b) == b.count > Limit

Full(b) == b.count >= Limit

Grant(k) ==
    passed' = [passed EXCEPT ![k] = [t \in Instants |-> IF t > now THEN @[t] + 1 ELSE @[t]]]

Open(k) == /\ Over(Table[k])
           /\ buckets' = [Table EXCEPT ![k] = [count |-> 1, resetAt |-> now + Window, updatedAt |-> now]]
           /\ Grant(k)

\* Mutants: a refused request starts the window anew, or goes unnoticed.
RefuseRestarting(k) ==
    /\ ~Over(Table[k]) /\ Full(Table[k])
    /\ buckets' = [Table EXCEPT ![k].updatedAt = now, ![k].resetAt = now + Window]
    /\ UNCHANGED passed
RefuseUnseen(k) ==
    /\ ~Over(Table[k]) /\ Full(Table[k])
    /\ buckets' = Table
    /\ UNCHANGED passed

Refuse(k) == /\ ~Over(Table[k]) /\ Full(Table[k])
             /\ buckets' = [Table EXCEPT ![k].updatedAt = now]
             /\ UNCHANGED passed

Counted(b) == [count |-> b.count + 1, resetAt |-> b.resetAt, updatedAt |-> now]

Count(k) == /\ ~Over(Table[k]) /\ ~Full(Table[k])
            /\ buckets' = [Table EXCEPT ![k] = Counted(Table[k])]
            /\ Grant(k)

Allow(k) == /\ Open(k) \/ Refuse(k) \/ Count(k)
            /\ lastSweep' = IF SweepDue THEN now ELSE lastSweep
            /\ asked' = [asked EXCEPT ![k] = now]
            /\ UNCHANGED now

Tick == /\ now < MaxNow
        /\ now' = now + 1
        /\ UNCHANGED <<buckets, lastSweep, asked, passed>>

Next == Tick \/ \E k \in Clients : Allow(k)

Spec == Init /\ [][Next]_vars

-----------------------------------------------------------------------------
(* Properties. *)

TypeOK == /\ now \in 0 .. MaxNow
          /\ buckets \in [Clients -> Bucket \cup {None}]
          /\ lastSweep \in Nat \cup {None}
          /\ asked \in [Clients -> Nat \cup {None}]
          /\ passed \in [Clients -> [Instants -> Nat]]

\* The variables keep their types; a bucket ends after its client's last
\* request, let through or not, by a Window at most, and never counts past the
\* limit.
Consistent ==
    /\ TypeOK
    /\ \A k \in Clients : buckets[k] # None =>
         /\ buckets[k].count <= Limit
         /\ buckets[k].updatedAt = asked[k] /\ asked[k] <= now
         /\ buckets[k].updatedAt < buckets[k].resetAt
         /\ buckets[k].resetAt <= buckets[k].updatedAt + Window
    /\ lastSweep # None => lastSweep <= now

\* A request of k now would be answered 429.
Refused(k) == ~Over(Table[k]) /\ Full(Table[k])

\* The requests of k let through from instant s on and before instant t.
Granted(k, s, t) == passed[k][t] - passed[k][s]

\* In any Window instants, however they lie to its buckets and to the sweeps
\* other clients set off, a client gets less than twice the limit.
LessThanTwice ==
    \A k \in Clients, s, t \in Instants :
       s <= t /\ t <= s + Window => Granted(k, s, t) < 2 * Limit

\* A client is refused only if it did get Limit requests through within the
\* last Window: refused requests do not count against it.
RefusedForCause ==
    \A k \in Clients : Refused(k) =>
       \E s \in 0 .. now : now - s < Window /\ Granted(k, s, now + 1) >= Limit

\* A client that waits out the Retry-After it is given (Window, security.go:63)
\* is not refused again.
PatienceRewarded ==
    \A k \in Clients : Refused(k) => asked[k] # None /\ now - asked[k] < Window

\* The sweep forgets no client whose window is still open.
OpenWindowKept ==
    [][\A k \in Clients : buckets[k] # None /\ now < buckets[k].resetAt =>
          buckets'[k] # None /\ (buckets'[k].resetAt = buckets[k].resetAt)]_vars

\* No bucket is kept that was idle for a Window at the last sweep, so idle
\* clients do not pile up.
IdleForgotten ==
    \A k \in Clients : buckets[k] # None /\ lastSweep # None =>
       lastSweep - buckets[k].updatedAt < Window
=============================================================================
