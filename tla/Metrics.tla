------------------------------ MODULE Metrics ------------------------------
(***************************************************************************)
(* The request counters of middleware/observability.go.  They are atomics  *)
(* without a lock: a request adds to them one after another on its way in  *)
(* and out of the middleware, and the /metrics handler, itself inside the  *)
(* middleware, loads them one after another while others move.             *)
(***************************************************************************)
EXTENDS Integers, FiniteSets

CONSTANTS
    Requests,   \* requests, each served once by its own goroutine
    Longest,    \* bound: the longest a request takes
    None        \* not loaded yet

Names == {"requests", "responses", "errors", "inFlight", "latency"}

\* Where a request is in Metrics.Middleware, in order.
Places == {"away", "arriving", "inside", "returned", "answered", "timed", "leaving", "gone"}

ASSUME MetricsAssumption ==
    IsFiniteSet(Requests) /\ Longest \in Nat /\ None \notin Int \cup {"answered", "failed"}

VARIABLES
    count,      \* [Names -> Int]: the five atomics
    at,         \* [Requests -> Places]
    status,     \* [Requests -> {None, "answered", "failed"}]: failed from 500 on
    took,       \* [Requests -> 0..Longest]: how long it took
    seen        \* [Requests -> [Names -> Int \cup {None}]]: what it loaded

metricsVars == <<count, at, status, took, seen>>

MetricsInit ==
    /\ count = [n \in Names |-> 0]
    /\ at = [r \in Requests |-> "away"]
    /\ status = [r \in Requests |-> None]
    /\ took = [r \in Requests |-> 0]
    /\ seen = [r \in Requests |-> [n \in Names |-> None]]

\* Request r goes from one place to the next, adding k to counter n.
Pass(r, from, to, n, k) ==
    /\ at[r] = from
    /\ at' = [at EXCEPT ![r] = to]
    /\ count' = [count EXCEPT ![n] = @ + k]
    /\ UNCHANGED seen

Arrive(r) == Pass(r, "away", "arriving", "requests", 1) /\ UNCHANGED <<status, took>>

Enter(r) == Pass(r, "arriving", "inside", "inFlight", 1) /\ UNCHANGED <<status, took>>

\* The handler is done, after d.
Return(r, c, d) ==
    /\ at[r] = "inside"
    /\ at' = [at EXCEPT ![r] = "returned"]
    /\ status' = [status EXCEPT ![r] = c]
    /\ took' = [took EXCEPT ![r] = d]
    /\ UNCHANGED <<count, seen>>

\* Mutant: the decrement is not deferred.
PanicUncounted(r) ==
    /\ at[r] = "inside"
    /\ at' = [at EXCEPT ![r] = "gone"]
    /\ UNCHANGED <<count, status, took, seen>>

\* The handler panics: only the deferred decrement still runs, and Recoverer
\* answers 500 from outside the middleware.
Panic(r) ==
    /\ at[r] = "inside"
    /\ at' = [at EXCEPT ![r] = "leaving"]
    /\ UNCHANGED <<count, status, took, seen>>

CountResponse(r) == Pass(r, "returned", "answered", "responses", 1) /\ UNCHANGED <<status, took>>

AddLatency(r) == Pass(r, "answered", "timed", "latency", took[r]) /\ UNCHANGED <<status, took>>

CountError(r) ==
    /\ Pass(r, "timed", "leaving", "errors", IF status[r] = "failed" THEN 1 ELSE 0)
    /\ UNCHANGED <<status, took>>

\* The goroutine ends.  Of its request only the counters know.
Leave(r) ==
    /\ at[r] = "leaving"
    /\ at' = [at EXCEPT ![r] = "gone"]
    /\ count' = [count EXCEPT !["inFlight"] = @ - 1]
    /\ took' = [took EXCEPT ![r] = 0]
    /\ seen' = [seen EXCEPT ![r] = [n \in Names |-> None]]
    /\ UNCHANGED status

\* Mutant: the average's divisor is loaded before its dividend.
LoadedBeforeSwapped ==
    [responses |-> {}, latency |-> {"responses"}, requests |-> {"latency", "responses"},
     errors |-> {"latency", "responses", "requests"}, inFlight |-> Names \ {"inFlight"}]

\* The counters Metrics.Handler has loaded when it comes to one.
LoadedBefore ==
    [latency |-> {}, responses |-> {"latency"}, requests |-> {"latency", "responses"},
     errors |-> {"latency", "responses", "requests"}, inFlight |-> Names \ {"inFlight"}]

Load(r, n) ==
    /\ at[r] = "inside"
    /\ seen[r][n] = None
    /\ \A m \in LoadedBefore[n] : seen[r][m] # None
    /\ seen' = [seen EXCEPT ![r][n] = count[n]]
    /\ UNCHANGED <<count, at, status, took>>

MetricsNext ==
    \E r \in Requests :
       \/ Arrive(r) \/ Enter(r) \/ Panic(r)
       \/ \E c \in {"answered", "failed"}, d \in 0 .. Longest : Return(r, c, d)
       \/ CountResponse(r) \/ AddLatency(r) \/ CountError(r) \/ Leave(r)
       \/ \E n \in Names : Load(r, n)

MetricsSpec == MetricsInit /\ [][MetricsNext]_metricsVars

-----------------------------------------------------------------------------
(* Properties. *)

MetricsTypeOK ==
    /\ count \in [Names -> Int]
    /\ at \in [Requests -> Places]
    /\ status \in [Requests -> {None, "answered", "failed"}]
    /\ took \in [Requests -> 0 .. Longest]
    /\ seen \in [Requests -> [Names -> Int \cup {None}]]

\* The requests at one of some places.
In(places) == {r \in Requests : at[r] \in places}

\* The counters agree with the requests on their way, panicked ones included:
\* all arrived, those inside the middleware, the answered and those answered
\* with a server error; and the latencies added so far are those of requests
\* already counted as answered.
Balanced ==
    /\ MetricsTypeOK
    /\ count["requests"] = Cardinality(Requests \ In({"away"}))
    /\ count["inFlight"] = Cardinality(Requests \ In({"away", "arriving", "gone"}))
    /\ count["responses"] =
          Cardinality({r \in In({"answered", "timed", "leaving", "gone"}) : status[r] # None})
    /\ count["errors"] = Cardinality({r \in In({"leaving", "gone"}) : status[r] = "failed"})
    /\ count["latency"] + Longest * Cardinality(In({"answered"})) <= Longest * count["responses"]

\* What /metrics reports makes sense although it is no snapshot: the average
\* latency is at most the longest one, its own request is among those in
\* flight, and more requests than answers are reported.
HonestReport ==
    \A r \in Requests :
       /\ None \notin {seen[r]["latency"], seen[r]["responses"]} =>
            seen[r]["latency"] <= Longest * seen[r]["responses"]
       /\ None \notin {seen[r]["responses"], seen[r]["requests"]} =>
            seen[r]["responses"] < seen[r]["requests"]
       /\ seen[r]["inFlight"] # None => seen[r]["inFlight"] >= 1
=============================================================================
