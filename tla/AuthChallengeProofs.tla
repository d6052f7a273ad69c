------------------------- MODULE AuthChallengeProofs -------------------------
(***************************************************************************)
(* Proofs about AuthChallenge, for every set of challenges, services, DIDs,*)
(* keys and workers, both stores, and every lifetime and window.           *)
(***************************************************************************)
EXTENDS AuthChallenge, TLAPS

Reasons == {"-", "forbidden", "not found", "service mismatch", "expired", "challenge mismatch",
            "timestamp", "did not found", "invalid signature", "valid"}

\* A step of a verification changes nothing another one relies on.
LEMMA WorkerKeeps ==
    ASSUME Consistent, NEW w \in Workers, NEW reason \in Reasons, Answer(w, reason),
           UNCHANGED <<backend, issued, now, didKey>>,
           store' \in [Challenges -> Issue \cup {None}],
           \A c \in Challenges : store'[c] # None => store'[c] = issued[c],
           accepted' \in [Challenges -> 0 .. 2],
           \A c \in Challenges : accepted'[c] > 0 => issued[c] # None
    PROVE  Consistent'
<1> USE DEF Consistent, TypeOK, InHand, Answer
<1>1. TypeOK'
  BY DEF Reasons
<1>2. InHand'
  OBVIOUS
<1>3. QED
  BY <1>1, <1>2

LEMMA InvariantInductive == Consistent /\ [Next]_vars => Consistent'
<1> SUFFICES ASSUME Consistent, [Next]_vars, backend' = backend PROVE Consistent'
  BY DEF Next, vars
<1>t. now \in Nat /\ \A c \in Challenges : issued[c] \in Issue \cup {None} /\ accepted[c] \in 0 .. 2
  BY DEF Consistent, TypeOK
<1>1. ASSUME NEW c \in Challenges, NEW caller \in Services, NEW s \in Services,
             CreateChallenge(c, caller, s)
      PROVE  Consistent'
  <2> DEFINE ch == [service |-> s, expiresAt |-> now + Lifetime]
  <2>a. CASE /\ verdict' = "forbidden"
             /\ UNCHANGED <<store, issued, pc, req, asked, now, didKey, accepted>>
    BY <2>a DEF Consistent, TypeOK, InHand
  <2> SUFFICES ASSUME ~(verdict' = "forbidden" /\ UNCHANGED <<store, issued>>)
               PROVE  Consistent'
    BY <1>1, <2>a DEF CreateChallenge
  <2>1. ch \in Issue
    BY <1>t, TimeAssumption DEF Issue
  <2>2. ch # None
    BY <2>1, NoneAssumption
  <2>3. issued[c] = None /\ issued' = [issued EXCEPT ![c] = ch]
    BY <1>1 DEF CreateChallenge
  <2>4. store' = [store EXCEPT ![c] = ch] \/ store' = store
    BY <1>1 DEF CreateChallenge
  <2>5. UNCHANGED <<pc, req, asked, now, didKey, accepted>> /\ verdict' = "-"
    BY <1>1 DEF CreateChallenge
  <2> HIDE DEF ch
  <2>6. TypeOK'
    BY <2>1, <2>3, <2>4, <2>5 DEF Consistent, TypeOK
  <2>7. InHand'
    BY <2>2, <2>3, <2>4, <2>5 DEF Consistent, TypeOK, InHand, Request
  <2>8. QED
    BY <2>6, <2>7 DEF Consistent
<1>2. ASSUME NEW w \in Workers, NEW caller \in Services, NEW r \in Request,
             VerifyGet(w, caller, r)
      PROVE  Consistent'
  <2>1. UNCHANGED <<store, issued, now, didKey, accepted>>
    BY <1>2 DEF VerifyGet
  <2>2. CASE Answer(w, "not found")
    BY <2>1, <2>2, WorkerKeeps DEF Reasons, Consistent, TypeOK, InHand
  <2>3. CASE /\ Found(r.challenge) /\ r.presentation # None
             /\ Proceed(w, "delete") /\ req' = [req EXCEPT ![w] = r]
             /\ asked' = [asked EXCEPT ![w] = now]
    <3>1. issued[r.challenge] # None
      BY <2>3 DEF Found, Consistent, InHand, Request
    <3>2. TypeOK'
      BY <2>1, <2>3 DEF Consistent, TypeOK, Proceed
    <3>3. ASSUME NEW v \in Workers
          PROVE  /\ v # w => pc'[v] = pc[v] /\ req'[v] = req[v] /\ asked'[v] = asked[v]
                 /\ v = w => pc'[v] = "delete" /\ req'[v] = r /\ asked'[v] = now
      BY <2>3 DEF Consistent, TypeOK, Proceed
    <3>4. now <= now
      BY <1>t
    <3>5. InHand'
      BY <2>1, <2>3, <3>1, <3>3, <3>4 DEF Consistent, InHand
    <3>6. QED
      BY <3>2, <3>5 DEF Consistent
  <2>4. QED
    BY <1>2, <2>2, <2>3 DEF VerifyGet
<1>3. ASSUME NEW w \in Workers, VerifyDelete(w)
      PROVE  Consistent'
  <2>1. TypeOK'
    BY <1>3 DEF VerifyDelete, Consistent, TypeOK, Proceed
  <2>2. InHand'
    BY <1>3 DEF VerifyDelete, Consistent, TypeOK, InHand, Proceed
  <2>3. QED
    BY <2>1, <2>2 DEF Consistent
<1>4. ASSUME NEW w \in Workers, VerifyCheck(w)
      PROVE  Consistent'
  <2> DEFINE r == req[w]
  <2>1. UNCHANGED <<store, issued, now, didKey, accepted>>
    BY <1>4 DEF VerifyCheck
  <2>2. ASSUME NEW reason \in Reasons, Answer(w, reason)
        PROVE  Consistent'
    BY <2>1, <2>2, WorkerKeeps DEF Consistent, TypeOK, InHand
  <2>3. CASE /\ r.service \in {None, issued[r.challenge].service}
             /\ r.presentation.challenge = r.challenge
             /\ Fresh(r.presentation.timestamp) /\ now < issued[r.challenge].expiresAt
             /\ Proceed(w, "resolve") /\ UNCHANGED <<req, asked>>
    <3>1. TypeOK'
      BY <2>1, <2>3 DEF Consistent, TypeOK, Proceed
    <3>2. /\ r.presentation.timestamp <= now + MaxFuture
          /\ asked[w] < issued[r.challenge].expiresAt
          /\ asked[w] <= r.presentation.timestamp + MaxAge
      <4>1. r \in Request /\ r.presentation # None /\ issued[r.challenge] # None /\ asked[w] <= now
        BY <1>4 DEF VerifyCheck, Consistent, InHand
      <4>2. /\ r.presentation.timestamp \in Nat /\ issued[r.challenge].expiresAt \in Nat
            /\ asked[w] \in Nat
        BY <4>1, <1>t, TimeAssumption DEF Request, Presentation, Issue, Consistent, TypeOK
      <4>3. QED
        BY <2>3, <4>1, <4>2, <1>t, TimeAssumption DEF Fresh
    <3>3. pc[w] # "idle"
      BY <1>4 DEF VerifyCheck
    <3>4. InHand'
      BY <2>1, <2>3, <3>2, <3>3 DEF Consistent, TypeOK, InHand, Proceed
    <3>5. QED
      BY <3>1, <3>4 DEF Consistent
  <2>4. QED
    BY <1>4, <2>2, <2>3 DEF VerifyCheck, Reasons
<1>5. ASSUME NEW w \in Workers, VerifyResolve(w)
      PROVE  Consistent'
  <2> DEFINE c == req[w].challenge
  <2>1. c \in Challenges /\ issued[c] # None
    BY <1>5 DEF VerifyResolve, Consistent, InHand, Request
  <2>2. UNCHANGED <<store, issued, now, didKey>>
    BY <1>5 DEF VerifyResolve
  <2>3. \/ accepted' = accepted
        \/ accepted' = [accepted EXCEPT ![c] = IF @ < 2 THEN @ + 1 ELSE 2]
    BY <1>5 DEF VerifyResolve
  <2>4. accepted \in [Challenges -> 0 .. 2]
    BY DEF Consistent, TypeOK
  <2> HIDE DEF c
  <2>5. accepted' \in [Challenges -> 0 .. 2]
    BY <2>1, <2>3, <2>4
  <2>6. \A e \in Challenges : accepted'[e] > 0 => issued[e] # None
    BY <2>1, <2>3, <2>4 DEF Consistent, InHand
  <2>7. \E reason \in Reasons : Answer(w, reason)
    BY <1>5 DEF VerifyResolve, Reasons
  <2>8. QED
    BY <2>2, <2>5, <2>6, <2>7, WorkerKeeps DEF Consistent, TypeOK, InHand
<1>6. ASSUME NEW d \in DIDs, NEW k \in Keys \cup {None}, RegistryStep(d, k)
      PROVE  Consistent'
  BY <1>6 DEF RegistryStep, Consistent, TypeOK, InHand
<1>7. CASE LoseStore
  <2>0. /\ pc' \in [Workers -> {"idle", "delete", "check", "resolve"}]
        /\ req' \in [Workers -> Request \cup {None}]
        /\ asked' \in [Workers -> Nat]
    <3>1. CASE /\ pc' = [w \in Workers |-> "idle"] /\ req' = [w \in Workers |-> None]
               /\ asked' = [w \in Workers |-> 0]
      BY <3>1
    <3>2. CASE UNCHANGED <<pc, req, asked>>
      BY <3>2 DEF Consistent, TypeOK
    <3>3. QED
      BY <1>7, <3>1, <3>2 DEF LoseStore
  <2>1. TypeOK'
    BY <1>7, <2>0 DEF LoseStore, Consistent, TypeOK
  <2>2. InHand'
    <3>1. UNCHANGED <<issued, now, accepted>> /\ \A c \in Challenges : store'[c] = None
      BY <1>7 DEF LoseStore
    <3>2. CASE pc' = [w \in Workers |-> "idle"]
      BY <3>1, <3>2 DEF Consistent, InHand
    <3>3. CASE UNCHANGED <<pc, req, asked>>
      BY <3>1, <3>3 DEF Consistent, InHand
    <3>4. QED
      BY <1>7, <3>2, <3>3 DEF LoseStore
  <2>3. QED
    BY <2>1, <2>2 DEF Consistent
<1>8. CASE Tick
  <2>t. now' \in Nat
    BY <1>8, <1>t DEF Tick
  <2>1. TypeOK'
    BY <1>8, <2>t DEF Tick, Consistent, TypeOK
  <2>2. ASSUME NEW w \in Workers, pc[w] = "resolve"
        PROVE  req[w].presentation.timestamp <= now' + MaxFuture
    <3>1. req[w].presentation \in Presentation
      BY <2>2 DEF Consistent, InHand, Request
    <3>2. req[w].presentation.timestamp \in Nat
      BY <3>1, TimeAssumption DEF Presentation
    <3>3. req[w].presentation.timestamp <= now + MaxFuture
      BY <2>2 DEF Consistent, InHand
    <3>4. QED
      BY <1>8, <1>t, <3>2, <3>3, TimeAssumption DEF Tick
  <2>3. ASSUME NEW w \in Workers, asked[w] <= now
        PROVE  asked[w] <= now'
    <3>1. asked[w] \in Nat
      BY DEF Consistent, TypeOK
    <3>2. QED
      BY <1>8, <1>t, <2>3, <3>1 DEF Tick
  <2>4. InHand'
    BY <1>8, <2>2, <2>3 DEF Tick, Consistent, InHand
  <2>5. QED
    BY <2>1, <2>4 DEF Consistent
<1>9. CASE UNCHANGED vars
  BY <1>9 DEF vars, Consistent, TypeOK, InHand
<1>10. QED
  BY <1>1, <1>2, <1>3, <1>4, <1>5, <1>6, <1>7, <1>8, <1>9 DEF Next, Act, Step

LEMMA Initially == Init => Consistent
  BY DEF Init, Consistent, TypeOK, InHand

\* Every variable keeps its type, and what a verification checked stays so
\* (verify.go:113-169).
THEOREM HandsStayConsistent == Spec => []Consistent
  BY Initially, InvariantInductive, PTL DEF Spec

-----------------------------------------------------------------------------
\* A dead challenge stays dead (verify.go:113-169).
LEMMA DeadKept ==
    ASSUME Consistent, [Next]_vars, NEW c \in Challenges, Dead(c)
    PROVE  Dead(c)' /\ accepted'[c] = accepted[c]
<1> DEFINE Over == now >= issued[c].expiresAt
           Gone == store[c] = None /\ \A w \in Workers : ~Busy(w, c)
           Kept == Dead(c)' /\ accepted'[c] = accepted[c]
<1>t. /\ issued[c] \in Issue /\ now \in Nat
      /\ store \in [Challenges -> Issue \cup {None}]
      /\ accepted \in [Challenges -> 0 .. 2]
      /\ pc \in [Workers -> {"idle", "delete", "check", "resolve"}]
      /\ req \in [Workers -> Request \cup {None}]
  BY DEF Consistent, TypeOK, Dead
<1>d. /\ issued[c] # None
      /\ Over \/ Gone
      /\ \A w \in Workers : Busy(w, c) => pc[w] # "resolve"
  BY DEF Dead
<1>1. ASSUME NEW e \in Challenges, NEW caller \in Services, NEW s \in Services,
             CreateChallenge(e, caller, s)
      PROVE  Kept
  BY <1>1, <1>t, <1>d DEF CreateChallenge, Dead, Busy, Consistent, TypeOK
<1>2. ASSUME NEW w \in Workers, NEW caller \in Services, NEW r \in Request,
             VerifyGet(w, caller, r)
      PROVE  Kept
  <2>1. Gone => ~Found(c)
    BY DEF Found
  <2>2. UNCHANGED <<store, issued, now, accepted>>
    BY <1>2 DEF VerifyGet
  <2>3. CASE Answer(w, "not found")
    BY <2>2, <2>3, <1>t, <1>d DEF Answer, Dead, Busy
  <2>4. CASE Found(r.challenge) /\ Proceed(w, "delete") /\ req' = [req EXCEPT ![w] = r]
    <3>1. r.challenge = c => Over
      BY <2>1, <2>4, <1>d
    <3>2. QED
      BY <2>2, <2>4, <3>1, <1>t, <1>d DEF Proceed, Dead, Busy
  <2>5. QED
    BY <1>2, <2>3, <2>4 DEF VerifyGet
<1>3. ASSUME NEW w \in Workers, VerifyDelete(w)
      PROVE  Kept
  BY <1>3, <1>t, <1>d DEF VerifyDelete, Proceed, Dead, Busy
<1>4. ASSUME NEW w \in Workers, VerifyCheck(w)
      PROVE  Kept
  <2>1. UNCHANGED <<store, issued, now, accepted>>
    BY <1>4 DEF VerifyCheck
  <2>2. ASSUME NEW reason, Answer(w, reason)
        PROVE  Kept
    BY <2>1, <2>2, <1>t, <1>d DEF Answer, Dead, Busy
  <2>3. CASE now < issued[req[w].challenge].expiresAt /\ Proceed(w, "resolve") /\ UNCHANGED req
    <3>1. ~Busy(w, c)
      <4>1. CASE Gone
        BY <4>1
      <4>2. CASE Over
        BY <2>3, <4>2, <1>t DEF Busy, Issue
      <4>3. QED
        BY <4>1, <4>2, <1>d
    <3>2. pc[w] # "idle"
      BY <1>4 DEF VerifyCheck
    <3>3. QED
      BY <2>1, <2>3, <3>1, <3>2, <1>t, <1>d DEF Proceed, Dead, Busy
  <2>4. QED
    BY <1>4, <2>2, <2>3 DEF VerifyCheck
<1>5. ASSUME NEW w \in Workers, VerifyResolve(w)
      PROVE  Kept
  <2>1. req[w].challenge # c /\ req[w].challenge \in Challenges
    BY <1>5, <1>d DEF VerifyResolve, Busy, Consistent, InHand, Request
  <2>2. accepted'[c] = accepted[c]
    BY <1>5, <2>1, <1>t DEF VerifyResolve
  <2>3. UNCHANGED <<store, issued, now>> /\ \E reason : Answer(w, reason)
    BY <1>5 DEF VerifyResolve
  <2>4. QED
    BY <2>2, <2>3, <1>t, <1>d DEF Answer, Dead, Busy
<1>6. ASSUME NEW d \in DIDs, NEW k \in Keys \cup {None}, RegistryStep(d, k)
      PROVE  Kept
  BY <1>6, <1>d DEF RegistryStep, Dead, Busy
<1>7. CASE LoseStore
  BY <1>7, <1>t, <1>d DEF LoseStore, Dead, Busy
<1>8. CASE Tick
  <2>1. Over => now' >= issued[c].expiresAt
    BY <1>8, <1>t DEF Tick, Issue
  <2>2. QED
    BY <1>8, <2>1, <1>d DEF Tick, Dead, Busy
<1>9. CASE UNCHANGED vars
  BY <1>9, <1>d DEF vars, Dead, Busy
<1>10. QED
  BY <1>1, <1>2, <1>3, <1>4, <1>5, <1>6, <1>7, <1>8, <1>9 DEF Next, Act, Step

\* No replay, late Delete, Redis failure or restart revives a challenge.
THEOREM DeadIsForEver == Spec => DeadStaysDead
<1>1. Consistent /\ [Next]_vars =>
        [\A c \in Challenges : Dead(c) => Dead(c)' /\ accepted'[c] = accepted[c]]_vars
  BY DeadKept
<1>2. QED
  BY <1>1, HandsStayConsistent, PTL DEF Spec, DeadStaysDead, Consistent

-----------------------------------------------------------------------------
\* A valid answer is for the challenge asked about, open and its presentation
\* not too old when it was asked about, for the service the request names if it
\* names one, and for a signature under the registry's key of that moment
\* (verify.go:120-169).  Who asks is not compared.
THEOREM AcceptanceIsRight == Spec => AcceptedRightly
<1> DEFINE Right == \E w \in Workers :
                       LET r == req[w]
                           p == r.presentation
                       IN
                       /\ pc[w] = "resolve" /\ pc'[w] = "idle"
                       /\ p.challenge = r.challenge /\ issued[r.challenge] # None
                       /\ r.service # None => r.service = issued[r.challenge].service
                       /\ didKey[p.did] # None /\ p.signer = didKey[p.did]
                       /\ asked[w] < issued[r.challenge].expiresAt
                       /\ asked[w] <= p.timestamp + MaxAge
                       /\ p.timestamp <= now + MaxFuture
<1>1. ASSUME Consistent, Next, verdict' = "valid" PROVE Right
  <2>1. PICK w \in Workers : VerifyResolve(w)
    BY <1>1 DEF Next, Act, Step, CreateChallenge, VerifyGet, VerifyDelete, VerifyCheck, RegistryStep,
                LoseStore, Tick, Answer, Proceed
  <2>2. pc[w] = "resolve" /\ pc'[w] = "idle"
    BY <1>1, <2>1 DEF VerifyResolve, Answer, Consistent, TypeOK
  <2>3. /\ didKey[req[w].presentation.did] # None
        /\ req[w].presentation.signer = didKey[req[w].presentation.did]
    BY <1>1, <2>1 DEF VerifyResolve, Answer
  <2>4. QED
    BY <1>1, <2>2, <2>3 DEF Consistent, InHand
<1>2. Consistent /\ [Next]_vars => [verdict' = "valid" => Right]_vars
  BY <1>1
<1>3. QED
  BY <1>2, HandsStayConsistent, PTL DEF Spec, AcceptedRightly, Consistent

-----------------------------------------------------------------------------
\* With the memory store a verification past its Delete has taken the
\* challenge out, and identifiers are never drawn again.
LEMMA JudgedInductive ==
    ASSUME Consistent, JudgedIsGone, [Next]_vars
    PROVE  JudgedIsGone'
<1> SUFFICES ASSUME backend = "memory", NEW c \in Challenges,
                    (accepted[c] > 0 \/ \E w \in Workers : Busy(w, c) /\ pc[w] # "delete")'
             PROVE  store'[c] = None
  BY DEF JudgedIsGone, Next, vars
<1> DEFINE Judged == accepted[c] > 0 \/ \E w \in Workers : Busy(w, c) /\ pc[w] # "delete"
<1>j. Judged => store[c] = None
  BY DEF JudgedIsGone
<1>t. /\ store \in [Challenges -> Issue \cup {None}]
      /\ accepted \in [Challenges -> 0 .. 2]
      /\ pc \in [Workers -> {"idle", "delete", "check", "resolve"}]
      /\ req \in [Workers -> Request \cup {None}]
  BY DEF Consistent, TypeOK
<1>1. ASSUME NEW e \in Challenges, NEW caller \in Services, NEW s \in Services,
             CreateChallenge(e, caller, s)
      PROVE  store'[c] = None
  <2>1. Judged
    BY <1>1 DEF CreateChallenge, Busy
  <2>2. issued[c] # None
    BY <2>1, <1>t DEF Consistent, InHand, Busy
  <2>3. QED
    BY <1>1, <1>j, <1>t, <2>1, <2>2 DEF CreateChallenge
<1>2. ASSUME NEW w \in Workers, NEW caller \in Services, NEW r \in Request,
             VerifyGet(w, caller, r)
      PROVE  store'[c] = None
  BY <1>2, <1>j, <1>t DEF VerifyGet, Answer, Proceed, Busy
<1>3. ASSUME NEW w \in Workers, VerifyDelete(w)
      PROVE  store'[c] = None
  <2>1. store' = [store EXCEPT ![req[w].challenge] = None]
    BY <1>3 DEF VerifyDelete, CanFail
  <2>2. QED
    BY <1>3, <2>1, <1>j, <1>t DEF VerifyDelete, Proceed, Busy
<1>4. ASSUME NEW w \in Workers, VerifyCheck(w)
      PROVE  store'[c] = None
  BY <1>4, <1>j, <1>t DEF VerifyCheck, Answer, Proceed, Busy
<1>5. ASSUME NEW w \in Workers, VerifyResolve(w)
      PROVE  store'[c] = None
  BY <1>5, <1>j, <1>t DEF VerifyResolve, Answer, Busy
<1>6. ASSUME NEW d \in DIDs, NEW k \in Keys \cup {None}, RegistryStep(d, k)
      PROVE  store'[c] = None
  BY <1>6, <1>j DEF RegistryStep, Busy
<1>7. CASE LoseStore
  BY <1>7 DEF LoseStore
<1>8. CASE Tick
  BY <1>8, <1>j DEF Tick, Busy
<1>9. CASE UNCHANGED vars
  BY <1>9, <1>j DEF vars, Busy
<1>10. QED
  BY <1>1, <1>2, <1>3, <1>4, <1>5, <1>6, <1>7, <1>8, <1>9 DEF Next, Act, Step

\* A challenge judged by any verification is in the memory store no more
\* (verify.go:118, challenge_store.go:49).
THEOREM JudgedAreGone == Spec => []JudgedIsGone
<1>1. Init => JudgedIsGone
  BY DEF Init, JudgedIsGone, Busy
<1>2. QED
  BY <1>1, JudgedInductive, HandsStayConsistent, PTL DEF Spec, Consistent

-----------------------------------------------------------------------------
\* What keeps the count at one: while a verification has the challenge in
\* hand, or the store still keeps it, it has not been accepted.
OneTime ==
    /\ OneVerificationPerChallenge
    /\ \A c \in Challenges :
         /\ accepted[c] <= 1
         /\ store[c] # None \/ (\E w \in Workers : Busy(w, c)) => accepted[c] = 0

LEMMA OneTimeInductive ==
    ASSUME backend = "memory", Consistent, JudgedIsGone, OneTime,
           [Next /\ OneVerificationPerChallenge']_vars
    PROVE  OneTime'
<1>t. /\ store \in [Challenges -> Issue \cup {None}]
      /\ accepted \in [Challenges -> 0 .. 2]
      /\ pc \in [Workers -> {"idle", "delete", "check", "resolve"}]
      /\ req \in [Workers -> Request \cup {None}]
  BY DEF Consistent, TypeOK
<1>s. OneVerificationPerChallenge'
  BY DEF OneTime, OneVerificationPerChallenge, vars
<1> SUFFICES ASSUME NEW c \in Challenges
             PROVE  /\ accepted'[c] <= 1
                    /\ store'[c] # None \/ (\E w \in Workers : Busy(w, c)') => accepted'[c] = 0
  BY <1>s DEF OneTime
<1> DEFINE Held == store[c] # None \/ \E w \in Workers : Busy(w, c)
<1>o. accepted[c] <= 1 /\ (Held => accepted[c] = 0)
  BY DEF OneTime
<1>1. ASSUME NEW e \in Challenges, NEW caller \in Services, NEW s \in Services,
             CreateChallenge(e, caller, s)
      PROVE  accepted'[c] <= 1 /\ (Held' => accepted'[c] = 0)
  <2>1. store' = store \/ (e = c => ~(accepted[c] > 0))
    BY <1>1 DEF CreateChallenge, Consistent, InHand
  <2>2. QED
    BY <1>1, <1>o, <1>t, <2>1 DEF CreateChallenge, Busy
<1>2. ASSUME NEW w \in Workers, NEW caller \in Services, NEW r \in Request,
             VerifyGet(w, caller, r)
      PROVE  accepted'[c] <= 1 /\ (Held' => accepted'[c] = 0)
  BY <1>2, <1>o, <1>t DEF VerifyGet, Found, Answer, Proceed, Busy
<1>3. ASSUME NEW w \in Workers, VerifyDelete(w)
      PROVE  accepted'[c] <= 1 /\ (Held' => accepted'[c] = 0)
  BY <1>3, <1>o, <1>t DEF VerifyDelete, Proceed, Busy
<1>4. ASSUME NEW w \in Workers, VerifyCheck(w)
      PROVE  accepted'[c] <= 1 /\ (Held' => accepted'[c] = 0)
  BY <1>4, <1>o, <1>t DEF VerifyCheck, Answer, Proceed, Busy
<1>5. ASSUME NEW w \in Workers, VerifyResolve(w)
      PROVE  accepted'[c] <= 1 /\ (Held' => accepted'[c] = 0)
  <2>1. CASE req[w].challenge = c
    <3>1. Busy(w, c) /\ pc[w] # "delete"
      BY <1>5, <2>1 DEF VerifyResolve, Busy
    <3>2. store[c] = None /\ accepted[c] = 0
      BY <1>o, <3>1 DEF JudgedIsGone
    <3>3. accepted'[c] <= 1
      <4>1. \/ accepted' = accepted
            \/ accepted' = [accepted EXCEPT ![c] = IF accepted[c] < 2 THEN accepted[c] + 1 ELSE 2]
        BY <1>5, <2>1 DEF VerifyResolve
      <4>2. QED
        BY <1>t, <3>2, <4>1
    <3>4. \A v \in Workers \ {w} : ~Busy(v, c)
      BY <3>1 DEF OneTime, OneVerificationPerChallenge, Busy
    <3>5. ~Held'
      BY <1>5, <1>t, <3>2, <3>4 DEF VerifyResolve, Answer, Busy
    <3>6. QED
      BY <3>3, <3>5
  <2>2. CASE req[w].challenge # c
    <3>1. accepted'[c] = accepted[c]
      BY <1>5, <2>2, <1>t DEF VerifyResolve
    <3>2. Held' => Held
      BY <1>5, <1>t DEF VerifyResolve, Answer, Busy
    <3>3. QED
      BY <1>o, <3>1, <3>2
  <2>3. QED
    BY <2>1, <2>2
<1>6. ASSUME NEW d \in DIDs, NEW k \in Keys \cup {None}, RegistryStep(d, k)
      PROVE  accepted'[c] <= 1 /\ (Held' => accepted'[c] = 0)
  BY <1>6, <1>o DEF RegistryStep, Busy
<1>7. CASE LoseStore
  BY <1>7, <1>o, <1>t DEF LoseStore, Busy
<1>8. CASE Tick
  BY <1>8, <1>o DEF Tick, Busy
<1>9. CASE UNCHANGED vars
  BY <1>9, <1>o DEF vars, Busy
<1>10. QED
  BY <1>1, <1>2, <1>3, <1>4, <1>5, <1>6, <1>7, <1>8, <1>9 DEF Next, Act, Step

\* Verifications of a challenge that do not overlap accept it at most once
\* when it is kept in memory.
THEOREM SerialIsSingleUse == SerialSpec => []SingleUse
<1>1. SerialSpec => Spec
  BY PTL DEF SerialSpec, Spec
<1>2. Init => OneTime
  BY DEF Init, OneTime, OneVerificationPerChallenge, Busy
<1>3. OneTime => SingleUse
  BY DEF OneTime, SingleUse
<1> DEFINE Memory == backend = "memory"
<1>4. Memory /\ Consistent /\ JudgedIsGone /\ OneTime /\ [Next /\ OneVerificationPerChallenge']_vars
        => OneTime'
  BY OneTimeInductive
<1>5. /\ Memory /\ [Next /\ OneVerificationPerChallenge']_vars => Memory'
      /\ ~Memory /\ [Next /\ OneVerificationPerChallenge']_vars => ~Memory'
  BY DEF Next, vars
<1>6. ~Memory => SingleUse
  BY DEF SingleUse
<1>7. QED
  BY <1>1, <1>2, <1>3, <1>4, <1>5, <1>6, HandsStayConsistent, JudgedAreGone, PTL DEF SerialSpec, Consistent
=============================================================================
