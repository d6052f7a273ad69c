------------------------------ MODULE Gateway ------------------------------
(***************************************************************************)
(* A request's life in one API process: net/http and the middleware stack  *)
(* (server/router.go), the counters around it (Metrics), the handlers as   *)
(* far as what they wait for, the external prover behind zkp/service.go,   *)
(* and main.go's graceful shutdown.  Five limits on time meet here:        *)
(*    ReadTimeout, WriteTimeout   of the connection (main.go)              *)
(*    RequestTimeout              of the request's context (router.go)     *)
(*    ProverTimeout               of one call to the prover (service.go)   *)
(*    DrainTimeout                of the shutdown (main.go)                *)
(* A clock ticks in units that divide them all; computing takes no time,   *)
(* so a request is at rest only where it waits.  Ages count from a         *)
(* request's headers.  A client that hangs up makes its calls fail early,  *)
(* which they may do anyway.                                               *)
(***************************************************************************)
EXTENDS Metrics

CONSTANTS
    ReadTimeout, WriteTimeout, RequestTimeout, ProverTimeout, DrainTimeout,
    NewConnGrace,   \* how long a shutdown spares a connection without a request
    Kinds           \* [Requests -> SUBSET Routes]: what each request may be

Routes == {"claim", "proof", "store", "metrics"}

\* What a claim or proof request carries: no type (or, in a claim, no proof), a
\* proof that is not of the expected shape, one that is.
Bodies == {"empty", "misshapen", "shaped"}
BodiesOf == [claim |-> Bodies, proof |-> {"empty", "shaped"}, store |-> {"shaped"}, metrics |-> {"shaped"}]

\* What is answered; "valid" and "invalid" are the two answers of VerifyClaim.
ServerErrors == {"500", "502"}
Answers == {"200", "valid", "invalid", "400", "401", "429"} \cup ServerErrors

Doings == {"-", "load", "key", "body", "verify", "prover", "store"}

ASSUME TimeAssumption ==
    /\ {ReadTimeout, WriteTimeout, ProverTimeout, NewConnGrace} \subseteq Nat \ {0}
    /\ RequestTimeout \in Nat \ {0} /\ DrainTimeout \in Nat \ {0}
    /\ ReadTimeout <= RequestTimeout /\ RequestTimeout <= DrainTimeout
    /\ RequestTimeout <= Longest
    /\ Kinds \in [Requests -> SUBSET Routes]
    /\ None \notin Answers

VARIABLES
    remote,     \* the prover's URL is http(s): Service.isRemote
    server,     \* "serving", "draining" or "stopped"
    drain,      \* time since the shutdown began
    route,      \* [Requests -> Routes \cup {None}]
    body,       \* [Requests -> Bodies \cup {None}]
    doing,      \* [Requests -> Doings]: what the handler is at
    age,        \* [Requests -> Nat]: time since its headers came
    readyAt,    \* [Requests -> Nat]: age at which it had been read
    judged,     \* [Requests -> {None, "valid", "invalid", "error"}]: the prover
    answer      \* [Requests -> Answers \cup {None}]

gatewayVars == <<remote, server, drain, route, body, doing, age, readyAt, judged, answer>>
vars == <<count, at, status, took, seen, gatewayVars>>

Init == /\ MetricsInit
        /\ remote \in BOOLEAN
        /\ server = "serving"
        /\ drain = 0
        /\ route = [r \in Requests |-> None]
        /\ body = [r \in Requests |-> None]
        /\ doing = [r \in Requests |-> "-"]
        /\ age = [r \in Requests |-> 0]
        /\ readyAt = [r \in Requests |-> 0]
        /\ judged = [r \in Requests |-> None]
        /\ answer = [r \in Requests |-> None]

Up == server # "stopped"
InHand(r) == at[r] \notin {"away", "gone"}
NothingInHand == \A r \in Requests : ~InHand(r)

\* The limits on a wait.  A call whose context is over fails at once.
ContextOver(r) == age[r] >= RequestTimeout

\* Mutant: a client without a timeout.
ProverPatienceNone(r) == ContextOver(r)

ProverOver(r) == ContextOver(r) \/ age[r] >= readyAt[r] + ProverTimeout

-----------------------------------------------------------------------------
(* Into the handler. *)

\* A connection the shutdown finds without a request may still bring one for
\* a moment.
Accept(r, where, b) ==
    /\ server = "serving" \/ (server = "draining" /\ drain < NewConnGrace)
    /\ Arrive(r)
    /\ route' = [route EXCEPT ![r] = where]
    /\ body' = [body EXCEPT ![r] = b]
    /\ UNCHANGED <<remote, server, drain, doing, age, readyAt, judged, answer>>

FirstDoing == [claim |-> "key", proof |-> "body", store |-> "body", metrics |-> "load"]

Begin(r) ==
    /\ Up /\ Enter(r)
    /\ doing' = [doing EXCEPT ![r] = FirstDoing[route[r]]]
    /\ UNCHANGED <<remote, server, drain, route, body, age, readyAt, judged, answer>>

\* The handler writes its answer c and returns.
Finish(r, c) ==
    /\ Return(r, IF c \in ServerErrors THEN "failed" ELSE "answered", age[r])
    /\ doing' = [doing EXCEPT ![r] = "-"]
    /\ answer' = [answer EXCEPT ![r] = c]
    /\ UNCHANGED <<remote, server, drain, route, body, age, judged>>

\* The handler goes on to what it does next.
Continue(r, next) ==
    /\ doing' = [doing EXCEPT ![r] = next]
    /\ UNCHANGED <<metricsVars, remote, server, drain, route, body, age, judged, answer>>

\* RateLimiter.Middleware, or a panic anywhere below Recoverer.
Limited(r) ==
    /\ Up /\ doing[r] \in {"key", "body", "load"} /\ age[r] = 0
    /\ \A n \in Names : seen[r][n] = None
    /\ Finish(r, "429")
    /\ UNCHANGED readyAt
Crash(r) ==
    /\ Up /\ Panic(r)
    /\ doing' = [doing EXCEPT ![r] = "-"]
    /\ readyAt' = IF doing[r] \in {"key", "body"} THEN [readyAt EXCEPT ![r] = age[r]] ELSE readyAt
    /\ UNCHANGED <<remote, server, drain, route, body, age, judged, answer>>

\* RequireAPIKey: any error of the key store is answered 401.
CheckKey(r) ==
    /\ Up /\ doing[r] = "key"
    /\ \/ Finish(r, "401") /\ readyAt' = [readyAt EXCEPT ![r] = age[r]]
       \/ Continue(r, "body") /\ UNCHANGED readyAt

\* The body is decoded, or is too large, malformed or too slow.  What came
\* with the headers can be read after the deadline.
ReadBody(r) ==
    /\ Up /\ doing[r] = "body"
    /\ readyAt' = [readyAt EXCEPT ![r] = age[r]]
    /\ \/ Finish(r, "400")
       \/ Continue(r, IF route[r] = "store" THEN "store" ELSE "verify")

\* The other handlers: what they answer is the business of DidRegistry,
\* AuthChallenge, CredentialRegistry and ApiServer.
CallStore(r) ==
    /\ Up /\ doing[r] = "store"
    /\ \E c \in {"200", "500"} : Finish(r, c)
    /\ UNCHANGED readyAt

LoadCounter(r) ==
    /\ Up /\ doing[r] = "load"
    /\ \/ (\E n \in Names : Load(r, n)) /\ UNCHANGED gatewayVars
       \/ /\ \A n \in Names : seen[r][n] # None
          /\ Finish(r, "200")
          /\ UNCHANGED readyAt

-----------------------------------------------------------------------------
(* zkp.Service under VerifyClaim and ProofHandler.Generate. *)

\* What is answered without asking a prover, or None if one has to be asked.
LocalAnswer(r) ==
    IF route[r] = "proof"
      THEN IF body[r] = "empty" THEN "400" ELSE IF remote THEN None ELSE "200"
      ELSE IF body[r] = "empty" THEN "invalid"
           ELSE IF remote THEN None ELSE IF body[r] = "shaped" THEN "valid" ELSE "invalid"

\* Service.Verify and Service.Generate up to the call.
Verify(r) ==
    /\ Up /\ doing[r] = "verify"
    /\ IF LocalAnswer(r) = None THEN Continue(r, "prover") ELSE Finish(r, LocalAnswer(r))
    /\ UNCHANGED readyAt

\* The prover comes to its verdict; the answer is on its way.
Judge(r, v) ==
    /\ Up /\ doing[r] = "prover" /\ judged[r] = None
    /\ judged' = [judged EXCEPT ![r] = v]
    /\ UNCHANGED <<metricsVars, remote, server, drain, route, body, doing, age, readyAt, answer>>

\* An error is a status that is not 2xx, or a body that does not decode.
ProverVerdict(r) == IF route[r] = "proof" THEN IF judged[r] = "valid" THEN "200" ELSE "502"
                    ELSE IF judged[r] = "valid" THEN "valid" ELSE "invalid"

ProverAnswers(r) ==
    /\ Up /\ doing[r] = "prover" /\ judged[r] # None
    /\ Finish(r, ProverVerdict(r))
    /\ UNCHANGED readyAt

\* Mutants: a claim the prover could not judge passes; the call has neither a
\* timeout nor a context.
ProverFailsOpen(r) ==
    /\ Up /\ doing[r] = "prover"
    /\ Finish(r, IF route[r] = "proof" THEN "502" ELSE "valid")
    /\ UNCHANGED readyAt

ProverFailsNever(r) ==
    /\ Up /\ doing[r] = "prover" /\ judged[r] = "error"
    /\ Finish(r, ProverVerdict(r))
    /\ UNCHANGED readyAt

\* No answer: no connection, the call's timeout or the context's end.
ProverFails(r) ==
    /\ Up /\ doing[r] = "prover"
    /\ Finish(r, IF route[r] = "proof" THEN "502" ELSE "invalid")
    /\ UNCHANGED readyAt

-----------------------------------------------------------------------------
(* Out of the handler, time, and the shutdown. *)

CountUp(r) == /\ Up /\ (CountResponse(r) \/ AddLatency(r) \/ CountError(r))
              /\ UNCHANGED gatewayVars

\* The connection's write deadline is set when the headers have been read; an
\* answer written after it is lost with the connection.
TooLate(r) == age[r] >= WriteTimeout

Reply(r) ==
    /\ Up /\ Leave(r)
    /\ age' = [age EXCEPT ![r] = 0]
    /\ readyAt' = [readyAt EXCEPT ![r] = 0]
    /\ judged' = [judged EXCEPT ![r] = None]
    /\ answer' = [answer EXCEPT ![r] = None]
    /\ route' = [route EXCEPT ![r] = None]
    /\ body' = [body EXCEPT ![r] = None]
    /\ UNCHANGED <<remote, server, drain, doing>>

\* Request r waits for something that is not due yet.
Waiting(r) == \/ doing[r] = "body" /\ age[r] < ReadTimeout
              \/ doing[r] \in {"key", "store"} /\ ~ContextOver(r)
              \/ doing[r] = "prover" /\ judged[r] = None /\ ~ProverOver(r)

Tick == /\ Up
        /\ \A r \in Requests : InHand(r) => Waiting(r)
        /\ server = "draining" => drain < DrainTimeout
        /\ NothingInHand => server = "draining" /\ drain < NewConnGrace
        /\ age' = [r \in Requests |-> IF InHand(r) THEN age[r] + 1 ELSE age[r]]
        /\ drain' = IF server = "draining" THEN drain + 1 ELSE drain
        /\ UNCHANGED <<metricsVars, remote, server, route, body, doing, readyAt, judged, answer>>

\* SIGINT or SIGTERM.
Signal == /\ server = "serving"
          /\ server' = "draining"
          /\ UNCHANGED <<metricsVars, remote, drain, route, body, doing, age, readyAt, judged, answer>>

\* Mutant: Shutdown is given the connection's timeout.
MayForceEarly == drain >= WriteTimeout

MayForce == drain >= DrainTimeout

\* Shutdown returns when nothing is in hand and no new connection is left, or
\* when its context is over; either way main returns and what is still in hand
\* is cut off.
Stop == /\ server = "draining"
        /\ MayForce \/ NothingInHand
        /\ server' = "stopped"
        /\ UNCHANGED <<metricsVars, remote, drain, route, body, doing, age, readyAt, judged, answer>>

Run(r) == \/ Begin(r) \/ CheckKey(r) \/ ReadBody(r) \/ CallStore(r) \/ LoadCounter(r)
          \/ Verify(r) \/ ProverAnswers(r) \/ ProverFails(r) \/ CountUp(r) \/ Reply(r)

Next == \/ \E r \in Requests :
             \/ \E where \in Kinds[r] : \E b \in BodiesOf[where] : Accept(r, where, b)
             \/ \E v \in {"valid", "invalid", "error"} : Judge(r, v)
             \/ Limited(r) \/ Crash(r) \/ Run(r)
        \/ Tick \/ Signal \/ Stop

Spec == Init /\ [][Next]_vars

\* Runnable goroutines run, time passes, and Shutdown polls until it is done.
FairSpec == /\ Spec
            /\ WF_vars(Tick) /\ WF_vars(Stop)
            /\ \A r \in Requests : WF_vars(Run(r))

-----------------------------------------------------------------------------
(* Properties. *)

\* The counters stay balanced (Metrics), every other variable keeps its type,
\* and a request in hand is where its handler can be: never past its
\* context's end, nor past ProverTimeout while it waits for the prover.
Consistent ==
    /\ Balanced
    /\ remote \in BOOLEAN /\ server \in {"serving", "draining", "stopped"}
    /\ drain \in 0 .. DrainTimeout
    /\ route \in [Requests -> Routes \cup {None}] /\ body \in [Requests -> Bodies \cup {None}]
    /\ doing \in [Requests -> Doings]
    /\ age \in [Requests -> 0 .. RequestTimeout] /\ readyAt \in [Requests -> 0 .. RequestTimeout]
    /\ judged \in [Requests -> {None, "valid", "invalid", "error"}]
    /\ answer \in [Requests -> Answers \cup {None}]
    /\ \A r \in Requests :
         /\ at[r] = "inside" <=> doing[r] # "-"
         /\ readyAt[r] <= age[r]
         /\ doing[r] = "prover" => remote /\ age[r] <= readyAt[r] + ProverTimeout

\* A claim is answered valid only if the prover said so, in time, of that very
\* request; errors, timeouts and malformed answers never pass for a yes.  In
\* local mode (memory://zkp) only the proof's shape vouches.
FailsClosed ==
    \A r \in Requests : answer[r] = "valid" =>
       IF remote THEN judged[r] = "valid" /\ took[r] <= readyAt[r] + ProverTimeout
                 ELSE body[r] = "shaped"

\* Waiting for the prover alone never costs a client its answer: a claim or
\* proof whose answer is lost had spent WriteTimeout - ProverTimeout before
\* the prover was asked.  (RequestTimeout alone would not do: it is longer
\* than WriteTimeout.)
LostForCause ==
    \A r \in Requests : at[r] = "leaving" /\ TooLate(r) /\ route[r] \in {"claim", "proof"} =>
       readyAt[r] + ProverTimeout >= WriteTimeout

\* A shutdown cuts off no request that was in hand when it began: only one
\* that came in on a connection accepted just before.
DrainSpares ==
    [][server' = "stopped" => \A r \in Requests : InHand(r) => age[r] <= drain]_vars

\* Every request is answered, unless the process stops first, and a process
\* told to stop does.
EveryoneLeaves ==
    /\ \A r \in Requests : InHand(r) ~> ~InHand(r) \/ ~Up
    /\ server = "draining" ~> ~Up
=============================================================================
