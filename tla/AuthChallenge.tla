--------------------------- MODULE AuthChallenge ---------------------------
(***************************************************************************)
(* Authentication challenges: CreateChallenge and VerifyAuth of            *)
(* handlers/verify.go over the memory or Redis store of                    *)
(* handlers/challenge_store.go, with concurrent verifications, time, a     *)
(* Redis that fails or loses its data, and a DID registry that moves on.   *)
(*                                                                         *)
(* A verification makes three shared-state calls, Get, Delete and          *)
(* ResolveDID, and looks at the clock between the last two; a worker's pc  *)
(* names the call or check it is about to make.  A challenge and its nonce *)
(* are drawn together at random and stand for one fresh identifier.  Both  *)
(* handlers run behind RequireAPIKey: the caller is a service whose key    *)
(* was checked against its X-Service-ID header.                            *)
(***************************************************************************)
EXTENDS Naturals

CONSTANTS
    Challenges,     \* the identifiers randomID draws
    Services,       \* verifier services
    DIDs, Keys,     \* of the registry
    Workers,        \* goroutines serving verifications
    Lifetime,       \* of a challenge (5 min)
    MaxAge,         \* maxPresentationAge (5 min)
    MaxFuture,      \* maxPresentationFuture (30 s)
    Timestamps,     \* that presentations carry
    MaxNow,         \* bound: the last instant of the clock
    None            \* no challenge, request, key, service or presentation

Issue == [service : Services, expiresAt : Nat]

\* A presentation names a DID, a challenge (None: one never issued) and a time;
\* signer is the key it is signed with, None if the signature is not over these
\* fields and the nonce.
Presentation == [did : DIDs, challenge : Challenges \cup {None}, signer : Keys \cup {None},
                 timestamp : Timestamps]
\* service is the one the body names, if any.
Request == [challenge : Challenges, service : Services \cup {None},
            presentation : Presentation \cup {None}]

ASSUME TimeAssumption == /\ Lifetime \in Nat \ {0}
                         /\ MaxAge \in Nat /\ MaxFuture \in Nat /\ MaxNow \in Nat
                         /\ Timestamps \subseteq Nat
ASSUME NoneAssumption == /\ None \notin Issue /\ None \notin Request /\ None \notin Presentation
                         /\ None \notin Keys /\ None \notin Services

VARIABLES
    backend,    \* "memory" or "redis": the configuration
    store,      \* [Challenges -> Issue \cup {None}]: the challenge store
    issued,     \* [Challenges -> Issue \cup {None}]: every challenge drawn
    pc,         \* [Workers -> {"idle", "delete", "check", "resolve"}]
    req,        \* [Workers -> Request \cup {None}]
    asked,      \* [Workers -> Nat]: the clock when the request in hand was taken up
    now,        \* the clock
    didKey,     \* [DIDs -> Keys \cup {None}]: the registry, as ResolveDID sees it
    verdict,    \* the answer the last step gave, or "-"
    accepted    \* [Challenges -> 0..2]: valid answers given; 2 is "several"

vars == <<backend, store, issued, pc, req, asked, now, didKey, verdict, accepted>>

CanFail == backend = "redis"

Init == /\ backend \in {"memory", "redis"}
        /\ store = [c \in Challenges |-> None]
        /\ issued = [c \in Challenges |-> None]
        /\ pc = [w \in Workers |-> "idle"]
        /\ req = [w \in Workers |-> None]
        /\ asked = [w \in Workers |-> 0]
        /\ now = 0
        /\ didKey = [d \in DIDs |-> None]
        /\ verdict = "-"
        /\ accepted = [c \in Challenges |-> 0]

Answer(w, reason) == /\ verdict' = reason
                     /\ pc' = [pc EXCEPT ![w] = "idle"]
                     /\ req' = [req EXCEPT ![w] = None]
                     /\ asked' = [asked EXCEPT ![w] = 0]

Proceed(w, next) == /\ verdict' = "-"
                    /\ pc' = [pc EXCEPT ![w] = next]

-----------------------------------------------------------------------------
\* Mutant: the service is not copied into the challenge.
CreateChallengeUnbound(c, caller, s) ==
    /\ caller = s
    /\ issued[c] = None /\ now + Lifetime <= MaxNow
    /\ issued' = [issued EXCEPT ![c] = [service |-> None, expiresAt |-> now + Lifetime]]
    /\ store' = [store EXCEPT ![c] = issued'[c]]
    /\ verdict' = "-"
    /\ UNCHANGED <<pc, req, asked, now, didKey, accepted>>

(* CreateChallenge: a service gets challenges for itself only; one Save. A *)
(* failed Save is answered 500; the challenge may be in Redis all the same. *)
CreateChallenge(c, caller, s) ==
    LET challenge == [service |-> s, expiresAt |-> now + Lifetime] IN
    /\ \/ /\ caller # s
          /\ verdict' = "forbidden"
          /\ UNCHANGED <<store, issued>>
       \/ /\ caller = s
          /\ issued[c] = None
          /\ now + Lifetime <= MaxNow
          /\ issued' = [issued EXCEPT ![c] = challenge]
          /\ \/ store' = [store EXCEPT ![c] = challenge]
             \/ CanFail /\ UNCHANGED store
          /\ verdict' = "-"
    /\ UNCHANGED <<pc, req, asked, now, didKey, accepted>>

\* Redis drops a challenge when its TTL, Lifetime, is over; memory never does.
Found(c) == store[c] # None /\ (backend = "memory" \/ now < store[c].expiresAt)

(* VerifyAuth up to the Get. The caller, whose key RequireAPIKey checked, *)
(* is read neither here nor later: only the body's service counts.        *)
VerifyGet(w, caller, r) ==
    /\ pc[w] = "idle"
    /\ \/ (~Found(r.challenge) \/ r.presentation = None \/ CanFail) /\ Answer(w, "not found")
       \/ /\ Found(r.challenge) /\ r.presentation # None
          /\ Proceed(w, "delete")
          /\ req' = [req EXCEPT ![w] = r]
          /\ asked' = [asked EXCEPT ![w] = now]
    /\ UNCHANGED <<store, issued, now, didKey, accepted>>

\* Mutant: the challenge is left in the store.
VerifyDeleteSkipped(w) ==
    /\ pc[w] = "delete"
    /\ Proceed(w, "check")
    /\ UNCHANGED <<store, issued, req, asked, now, didKey, accepted>>

(* The Delete, whose error is dropped. *)
VerifyDelete(w) ==
    /\ pc[w] = "delete"
    /\ \/ store' = [store EXCEPT ![req[w].challenge] = None]
       \/ CanFail /\ UNCHANGED store
    /\ Proceed(w, "check")
    /\ UNCHANGED <<issued, req, asked, now, didKey, accepted>>

\* Mutant: the age limit is off by one.
FreshLate(t) == now <= t + MaxAge + 1 /\ t <= now + MaxFuture

Fresh(t) == now <= t + MaxAge /\ t <= now + MaxFuture

\* Mutant: no look at the expiry.
VerifyCheckTimeless(w) ==
    LET p == req[w].presentation IN
    /\ pc[w] = "check"
    /\ req[w].service \in {None, issued[req[w].challenge].service}
    /\ p.challenge = req[w].challenge /\ Fresh(p.timestamp)
    /\ Proceed(w, "resolve")
    /\ UNCHANGED <<store, issued, req, asked, now, didKey, accepted>>

(* Service, expiry, challenge and timestamp, in that order. A body without *)
(* a service passes the first check, whoever the caller is. A presentation *)
(* that does not decode is refused here like one for another challenge.    *)
VerifyCheck(w) ==
    LET r == req[w]
        p == r.presentation
        challenge == issued[r.challenge]
        serviceOK == r.service \in {None, challenge.service}
        open == now < challenge.expiresAt
    IN
    /\ pc[w] = "check"
    /\ \/ ~serviceOK /\ Answer(w, "service mismatch")
       \/ serviceOK /\ ~open /\ Answer(w, "expired")
       \/ /\ serviceOK /\ open
          /\ \/ p.challenge # r.challenge /\ Answer(w, "challenge mismatch")
             \/ p.challenge = r.challenge /\ ~Fresh(p.timestamp) /\ Answer(w, "timestamp")
             \/ /\ p.challenge = r.challenge /\ Fresh(p.timestamp)
                /\ Proceed(w, "resolve")
                /\ UNCHANGED <<req, asked>>
    /\ UNCHANGED <<store, issued, now, didKey, accepted>>

\* Mutant: no answer when the DID is not found.
VerifyResolveSilent(w) ==
    /\ pc[w] = "resolve"
    /\ didKey[req[w].presentation.did] # None
    /\ Answer(w, IF req[w].presentation.signer = didKey[req[w].presentation.did]
                 THEN "valid" ELSE "invalid signature")
    /\ UNCHANGED <<store, issued, now, didKey, accepted>>

(* ResolveDID, the signature and the answer. *)
VerifyResolve(w) ==
    LET r == req[w]
        p == r.presentation
    IN
    /\ pc[w] = "resolve"
    /\ \/ Answer(w, "did not found") /\ UNCHANGED accepted
       \/ /\ didKey[p.did] # None /\ p.signer # didKey[p.did]
          /\ Answer(w, "invalid signature")
          /\ UNCHANGED accepted
       \/ /\ didKey[p.did] # None /\ p.signer = didKey[p.did]
          /\ Answer(w, "valid")
          /\ accepted' = [accepted EXCEPT ![r.challenge] = IF @ < 2 THEN @ + 1 ELSE 2]
    /\ UNCHANGED <<store, issued, now, didKey>>

-----------------------------------------------------------------------------
(* Redis loses everything, or the API process and a memory store do. *)
LoseStore ==
    /\ store' = [c \in Challenges |-> None]
    /\ verdict' = "-"
    /\ UNCHANGED <<issued, now, didKey, accepted>>
    /\ \/ /\ pc' = [w \in Workers |-> "idle"]
          /\ req' = [w \in Workers |-> None]
          /\ asked' = [w \in Workers |-> 0]
       \/ CanFail /\ UNCHANGED <<pc, req, asked>>

(* Steps of DidRegistry, as ResolveDID sees them: a key appears, changes, or *)
(* goes with a memory registry.                                              *)
RegistryStep(d, k) == /\ didKey' = [didKey EXCEPT ![d] = k]
                      /\ verdict' = "-"
                      /\ UNCHANGED <<store, issued, pc, req, asked, now, accepted>>

Tick == /\ now < MaxNow
        /\ now' = now + 1
        /\ verdict' = "-"
        /\ UNCHANGED <<store, issued, pc, req, asked, didKey, accepted>>

Step(w) == VerifyDelete(w) \/ VerifyCheck(w) \/ VerifyResolve(w)

Act == \/ \E c \in Challenges, caller, s \in Services : CreateChallenge(c, caller, s)
       \/ \E w \in Workers : \/ \E caller \in Services, r \in Request : VerifyGet(w, caller, r)
                             \/ Step(w)
       \/ \E d \in DIDs, k \in Keys \cup {None} : RegistryStep(d, k)
       \/ LoseStore
       \/ Tick

Next == Act /\ UNCHANGED backend

Spec == Init /\ [][Next]_vars

\* Time passes, and a goroutine with a verification in hand runs.
FairSpec == /\ Spec
            /\ WF_vars(Tick /\ UNCHANGED backend)
            /\ \A w \in Workers : WF_vars(Step(w) /\ UNCHANGED backend)

\* Verifications of one challenge kept apart.
OneVerificationPerChallenge ==
    \A w, v \in Workers :
       w # v /\ pc[w] # "idle" /\ pc[v] # "idle" => req[w].challenge # req[v].challenge

SerialSpec == Init /\ [][Next /\ OneVerificationPerChallenge']_vars

-----------------------------------------------------------------------------
(* Properties. *)

TypeOK == /\ backend \in {"memory", "redis"}
          /\ store \in [Challenges -> Issue \cup {None}]
          /\ issued \in [Challenges -> Issue \cup {None}]
          /\ pc \in [Workers -> {"idle", "delete", "check", "resolve"}]
          /\ req \in [Workers -> Request \cup {None}]
          /\ asked \in [Workers -> Nat]
          /\ now \in Nat
          /\ didKey \in [DIDs -> Keys \cup {None}]
          /\ verdict \in {"-", "forbidden", "not found", "service mismatch", "expired", "challenge mismatch",
                          "timestamp", "did not found", "invalid signature", "valid"}
          /\ accepted \in [Challenges -> 0 .. 2]

Busy(w, c) == pc[w] # "idle" /\ req[w].challenge = c

\* What a verification in hand has established.
InHand ==
    /\ \A w \in Workers : pc[w] # "idle" =>
         /\ req[w] \in Request /\ req[w].presentation # None
         /\ issued[req[w].challenge] # None
         /\ asked[w] <= now
    /\ \A w \in Workers : pc[w] = "resolve" =>
         LET r == req[w] IN
         /\ r.presentation.challenge = r.challenge
         /\ r.service \in {None, issued[r.challenge].service}
         /\ asked[w] < issued[r.challenge].expiresAt
         /\ asked[w] <= r.presentation.timestamp + MaxAge
         /\ r.presentation.timestamp <= now + MaxFuture
    /\ \A c \in Challenges : store[c] # None => store[c] = issued[c]
    /\ \A c \in Challenges : accepted[c] > 0 => issued[c] # None

\* Every variable keeps its type, and what a verification has checked stays so
\* while it goes on: the challenge was issued, was open and is the one the
\* presentation names, for the service the request names if it names one, and
\* the presentation neither too old nor from the far future.  What the store
\* keeps is what was issued.
Consistent == TypeOK /\ InHand

\* Challenge c can no longer be answered valid: nobody is past its checks, and
\* it is over, or gone from the store and from every verification in hand.
Dead(c) ==
    /\ issued[c] # None
    /\ \A w \in Workers : Busy(w, c) => pc[w] # "resolve"
    /\ \/ now >= issued[c].expiresAt
       \/ store[c] = None /\ \A w \in Workers : ~Busy(w, c)

\* A dead challenge stays dead and is never accepted again: not by a replay,
\* a late Delete, a Redis that failed or lost data, or a restart.
DeadStaysDead ==
    [][\A c \in Challenges : Dead(c) => Dead(c)' /\ accepted'[c] = accepted[c]]_vars

\* A valid answer goes to a presentation for the very challenge asked about,
\* signed with the key the registry holds at that moment.  When the request
\* was made the challenge was open and the presentation at most MaxAge old
\* (docs/API.md:288), and it is not from the far future.  A service the request
\* names is the one the challenge was issued for; a request that names none is
\* answered whoever asks, for the caller is not compared (verify.go:120).
AcceptedRightly ==
    [][verdict' = "valid" =>
         \E w \in Workers :
            LET r == req[w]
                p == r.presentation
            IN
            /\ pc[w] = "resolve" /\ pc'[w] = "idle"
            /\ p.challenge = r.challenge /\ issued[r.challenge] # None
            /\ r.service # None => r.service = issued[r.challenge].service
            /\ didKey[p.did] # None /\ p.signer = didKey[p.did]
            /\ asked[w] < issued[r.challenge].expiresAt
            /\ asked[w] <= p.timestamp + MaxAge
            /\ p.timestamp <= now + MaxFuture]_vars

\* Whatever verdict a verification got beyond "not found", the memory store
\* holds the challenge no more (router_test.go:415, 473: "...AndConsumes-
\* Challenge"): one that has been judged, or is past its Delete, is gone.
JudgedIsGone ==
    backend = "memory" =>
       \A c \in Challenges :
          (accepted[c] > 0 \/ \E w \in Workers : Busy(w, c) /\ pc[w] # "delete") => store[c] = None

\* Every challenge is dead in the end: its verifications are answered and it
\* expires, wherever the store still keeps it.
EveryChallengeDies == \A c \in Challenges : issued[c] # None ~> Dead(c)

\* docs/API.md:240: a challenge is "single-use".  Of the memory store, whose
\* Delete never fails; Redis adds the Delete whose error is dropped.
SingleUse == backend = "memory" => \A c \in Challenges : accepted[c] <= 1
=============================================================================
