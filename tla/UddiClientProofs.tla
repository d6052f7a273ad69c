-------------------------- MODULE UddiClientProofs --------------------------
(***************************************************************************)
(* Proofs about UddiClient, for every set of keys and of calls.  What is   *)
(* proved of DidRegistry is taken from its own proofs (RegP), of which the *)
(* client's registry Reg is an instance.                                   *)
(***************************************************************************)
EXTENDS UddiClient, TLAPS

RegP == INSTANCE DidRegistryProofs WITH DIDs <- Keys, Workers <- Calls, backend <- "postgres",
                                        MaxDetached <- 0, Absent <- None

\* The registry invariant of the two instances is the same.
LEMMA SameInvariant == Reg!Consistent <=> RegP!Consistent
  BY DEF Reg!Consistent, RegP!Consistent, Reg!TypeOK, RegP!TypeOK, Reg!InHand, RegP!InHand,
         Reg!Document, RegP!Document, Reg!Request, RegP!Request, Reg!Statement, RegP!Statement,
         Reg!Prepared, RegP!Prepared, Reg!CanFail, RegP!CanFail

LEMMA SameInvariantNext == Reg!Consistent' <=> RegP!Consistent'
  BY SameInvariant, PTL

\* DidRegistry's induction step, which rests on its assumption about Absent.
LEMMA InvariantOfRegistry == RegP!Consistent /\ [RegP!Next]_(RegP!vars) => RegP!Consistent'
  BY NoneAssumption, RegP!InvariantInductive
     DEF RegP!Document, RegP!Request, Reg!Document, Reg!Request

\* What the client makes the registry do.
RegistryStep ==
    \/ \E c \in Calls, d, k, signer \in Keys : Reg!RegisterCheck(c, d, k, signer)
    \/ \E c \in Calls, d, signer \in Keys : Reg!RevokeAuthorize(c, d, signer)
    \/ \E c \in Calls, d, k, signer \in Keys : Reg!UpdateAuthorize(c, d, k, signer)
    \/ \E c \in Calls : Reg!Step(c)
    \/ Reg!Restart

\* These are steps of DidRegistry ...
LEMMA StepOfRegistry == RegistryStep => RegP!Act
<1> USE DEF Reg!Answer, RegP!Answer, Reg!Proceed, RegP!Proceed, Reg!Untouched, RegP!Untouched,
            Reg!CanFail, RegP!CanFail, RegP!Act
<1>1. ASSUME NEW c \in Calls, NEW d \in Keys, NEW k \in Keys, NEW signer \in Keys,
             Reg!RegisterCheck(c, d, k, signer)
      PROVE  RegP!Act
  BY <1>1 DEF Reg!RegisterCheck, RegP!RegisterCheck
<1>2. ASSUME NEW c \in Calls, NEW r, Reg!Authorize(c, r) PROVE RegP!Authorize(c, r)
  BY <1>2 DEF Reg!Authorize, RegP!Authorize
<1>3. ASSUME NEW c \in Calls, Reg!Step(c) PROVE RegP!Step(c)
  BY <1>3 DEF Reg!Step, RegP!Step, Reg!RegisterCreate, RegP!RegisterCreate, Reg!ClientResolve,
              RegP!ClientResolve, Reg!StoreUpdate, RegP!StoreUpdate, Reg!Write, RegP!Write,
              Reg!MayInsert, RegP!MayInsert, Reg!Amended, RegP!Amended
<1>4. Reg!Restart => RegP!Restart
  BY DEF Reg!Restart, RegP!Restart
<1>5. QED
  BY <1>1, <1>2, <1>3, <1>4
     DEF RegistryStep, Reg!RevokeAuthorize, RegP!RevokeAuthorize, Reg!UpdateAuthorize, RegP!UpdateAuthorize

\* ... and so keep its invariant ...
LEMMA RegistryKeeps ==
    ASSUME Reg!Consistent, RegistryStep \/ UNCHANGED regVars PROVE Reg!Consistent'
<1>1. [RegP!Next]_(RegP!vars)
  BY StepOfRegistry DEF RegP!Next, RegP!vars, regVars
<1>2. RegP!Consistent'
  BY <1>1, SameInvariant, InvariantOfRegistry
<1>3. QED
  BY <1>2, SameInvariantNext

\* ... and forget no key.
LEMMA HeldGrows ==
    ASSUME Reg!Consistent, RegistryStep \/ UNCHANGED regVars
    PROVE  \A d \in Keys : held[d] \subseteq held'[d]
<1>1. held \in [Keys -> SUBSET Keys]
  BY DEF Reg!Consistent, Reg!TypeOK
<1>2. ASSUME NEW d \in Keys, NEW doc, Reg!Write(d, doc) PROVE \A e \in Keys : held[e] \subseteq held'[e]
  BY <1>1, <1>2 DEF Reg!Write
<1>3. ASSUME NEW c \in Calls, pc[c] # "idle" PROVE req[c].did \in Keys
  BY <1>3 DEF Reg!Consistent, Reg!InHand, Reg!Request
<1>4. CASE \E c \in Calls : Reg!Step(c)
  BY <1>2, <1>3, <1>4
     DEF Reg!Step, Reg!RegisterCreate, Reg!ClientResolve, Reg!StoreUpdate, Reg!Untouched
<1>5. CASE UNCHANGED held
  BY <1>5
<1>6. ASSUME NEW c \in Calls, NEW r, Reg!Authorize(c, r) PROVE UNCHANGED held
  BY <1>6 DEF Reg!Authorize, Reg!Untouched
<1>7. ASSUME NEW c \in Calls, NEW d, NEW k, NEW signer, Reg!RegisterCheck(c, d, k, signer)
      PROVE  UNCHANGED held
  BY <1>7 DEF Reg!RegisterCheck, Reg!Untouched
<1>8. Reg!Restart => UNCHANGED held
  BY DEF Reg!Restart
<1>9. QED
  BY <1>4, <1>5, <1>6, <1>7, <1>8 DEF RegistryStep, regVars, Reg!RevokeAuthorize, Reg!UpdateAuthorize
-----------------------------------------------------------------------------
\* The client's part of Consistent.
Identities == {identity, stored} \cup {call[c].id : c \in Calls}
ClientOK ==
    /\ TypeOK
    /\ \A i \in Identities : i # None => Genuine(i)
    /\ \A c \in Calls : Underway(c)

\* The steps that neither ask the registry nor hear from it.
LocalStep(c) ==
    \/ CreateIdentity(c) \/ LoadIdentity(c) \/ RotateIdentityKey(c) \/ RevokeIdentity(c)
    \/ \E k \in Keys : Generated(c, k)
    \/ Save(c) \/ Saved(c) \/ Delete(c) \/ Deleted(c) \/ Load(c) \/ Loaded(c)
    \/ StorageFails(c) \/ FetchFails(c) \/ Answered(c)

LEMMA BeginsKeeps ==
    ASSUME ClientOK, UNCHANGED hasStorage, NEW c \in Calls,
           CreateIdentity(c) \/ LoadIdentity(c) \/ RotateIdentityKey(c) \/ RevokeIdentity(c)
    PROVE  ClientOK'
<1> USE DEF ClientOK, Identities, Underway, Op, At, TypeOK, Call, Begins, regVars, Genuine
<1>1. CASE CreateIdentity(c)
  BY <1>1 DEF CreateIdentity
<1>2. CASE LoadIdentity(c)
  BY <1>2 DEF LoadIdentity
<1>3. CASE RotateIdentityKey(c)
  BY <1>3 DEF RotateIdentityKey
<1>4. CASE RevokeIdentity(c)
  BY <1>4 DEF RevokeIdentity
<1>5. QED
  BY <1>1, <1>2, <1>3, <1>4

LEMMA StorageKeeps ==
    ASSUME ClientOK, UNCHANGED hasStorage, NEW c \in Calls,
           Save(c) \/ Saved(c) \/ Delete(c) \/ Deleted(c) \/ Load(c) \/ Loaded(c)
    PROVE  ClientOK'
<1> USE DEF ClientOK, Identities, Underway, Op, At, Goes, Ends, Idle, TypeOK, Call, regVars, local, Genuine
<1>1. CASE Save(c)
  BY <1>1 DEF Save
<1>2. CASE Saved(c)
  BY <1>2 DEF Saved
<1>3. CASE Delete(c)
  BY <1>3 DEF Delete
<1>4. CASE Deleted(c)
  BY <1>4 DEF Deleted
<1>5. CASE Load(c)
  BY <1>5 DEF Load
<1>6. CASE Loaded(c)
  BY <1>6 DEF Loaded
<1>7. QED
  BY <1>1, <1>2, <1>3, <1>4, <1>5, <1>6

LEMMA OtherKeeps ==
    ASSUME ClientOK, UNCHANGED hasStorage, NEW c \in Calls,
           \/ \E k \in Keys : Generated(c, k)
           \/ StorageFails(c) \/ FetchFails(c) \/ Answered(c)
    PROVE  ClientOK'
<1> USE DEF ClientOK, Identities, Underway, Op, At, Goes, Ends, Idle, TypeOK, Call, regVars, Genuine
<1>1. ASSUME NEW k \in Keys, Generated(c, k) PROVE ClientOK'
  <2>1. CASE Op(c) = "create"
    BY <1>1, <2>1 DEF Generated, Identity
  <2>2. CASE Op(c) = "rotate"
    BY <1>1, <2>2 DEF Generated
  <2>3. QED
    BY <1>1, <2>1, <2>2 DEF Generated
<1>2. CASE StorageFails(c)
  BY <1>2 DEF StorageFails, Rejects, Forsakes
<1>3. CASE FetchFails(c)
  BY <1>3 DEF FetchFails, Rejects, Forsakes
<1>4. CASE Answered(c)
  <2>1. CASE Op(c) = "create"
    BY <1>4, <2>1 DEF Answered
  <2>2. CASE Op(c) = "rotate"
    <3> DEFINE i == Rotated(c)
    <3>1. i \in Identity /\ Genuine(i)
      BY <1>4, <2>2 DEF Answered, Rotated, Identity
    <3>2. i # None
      BY <3>1, NoneAssumption
    <3>3. identity' = i /\ UNCHANGED <<regVars, stored, drawn, forsaken, overwritten, overlapped>>
      BY <1>4, <2>2 DEF Answered
    <3>4. \/ call' = [call EXCEPT ![c].id = i, ![c].at = "save"]
          \/ call' = [call EXCEPT ![c] = Idle]
      BY <1>4, <2>2, <3>3 DEF Answered
    <3> HIDE DEF i
    <3>5. QED
      BY <2>2, <3>1, <3>2, <3>3, <3>4
  <2>3. CASE Op(c) = "revoke"
    BY <1>4, <2>3 DEF Answered
  <2>4. QED
    BY <1>4, <2>1, <2>2, <2>3 DEF Answered
<1>5. QED
  BY <1>1, <1>2, <1>3, <1>4

-----------------------------------------------------------------------------
\* While the registry only adds keys, what is genuine stays so.
LEMMA GenuineStays ==
    ASSUME \A d \in Keys : held[d] \subseteq held'[d], UNCHANGED drawn, NEW i \in Identity, Genuine(i)
    PROVE  Genuine(i)'
  BY DEF Genuine, Identity

\* A step of the registry leaves the client consistent if, of its calls, at
\* most c moves, as it may.
LEMMA ClientStays ==
    ASSUME ClientOK, \A d \in Keys : held[d] \subseteq held'[d],
           UNCHANGED <<hasStorage, identity, stored, drawn, overwritten, overlapped>>,
           NEW c \in Calls, \A b \in Calls \ {c} : pc'[b] = pc[b] /\ req'[b] = req[b],
           call' \in [Calls -> Call],
           \A b \in Calls \ {c} : call'[b] = call[b],
           call'[c].id \in {call[c].id, None},
           forsaken' \in SUBSET drawn,
           Underway(c)'
    PROVE  ClientOK'
<1> USE DEF ClientOK, Identities
<1>1. TypeOK'
  BY DEF TypeOK, Call
<1>2. \A i \in Identities' : i # None => Genuine(i)'
  <2> SUFFICES ASSUME NEW i \in Identities', i # None PROVE Genuine(i)'
    OBVIOUS
  <2>1. i \in Identities
    BY DEF TypeOK, Call
  <2>2. i \in Identity /\ Genuine(i)
    BY <2>1 DEF TypeOK, Call
  <2>3. QED
    BY <2>2, GenuineStays
<1>3. ASSUME NEW b \in Calls \ {c} PROVE Underway(b)'
  <2>1. Underway(b) /\ call[b].id \in Identity \cup {None}
    BY DEF TypeOK, Call
  <2>2. call[b].id # None => held[call[b].id.did] \subseteq held'[call[b].id.did]
    BY <2>1 DEF Identity
  <2>3. QED
    BY <2>1, <2>2 DEF Underway, Op, At
<1>4. QED
  BY <1>1, <1>2, <1>3

\* The registry's worker of another call does not move.
LEMMA OthersWait ==
    ASSUME NEW c \in Calls, Reg!Consistent,
           \/ \E d, k, signer : Reg!RegisterCheck(c, d, k, signer)
           \/ \E r : Reg!Authorize(c, r)
           \/ Reg!Step(c)
    PROVE  \A b \in Calls \ {c} : pc'[b] = pc[b] /\ req'[b] = req[b]
  BY DEF Reg!Consistent, Reg!TypeOK, Reg!RegisterCheck, Reg!Authorize, Reg!Step, Reg!RegisterCreate,
         Reg!ClientResolve, Reg!StoreUpdate, Reg!Answer, Reg!Proceed

\* What hearing the registry makes of a call.
LEMMA HeardCall ==
    ASSUME ClientOK, NEW c \in Calls, Hears(c) \/ UNCHANGED <<call, forsaken>>, UNCHANGED drawn
    PROVE  /\ call' \in [Calls -> Call]
           /\ \A b \in Calls \ {c} : call'[b] = call[b]
           /\ call'[c].id \in {call[c].id, None}
  BY DEF ClientOK, TypeOK, Call, Hears, Goes, Rejects, Ends, Idle

LEMMA ForsakenDrawn ==
    ASSUME ClientOK, NEW c \in Calls, Hears(c) \/ UNCHANGED <<call, forsaken>>, ~At(c, "generate")
    PROVE  forsaken' \in SUBSET drawn
  BY DEF ClientOK, TypeOK, Call, Underway, Hears, Goes, Rejects, Forsakes, Op, At

\* What a call sends is one of the registry's requests.
LEMMA SendIsRequest ==
    ASSUME ClientOK, Reg!Consistent, UNCHANGED hasStorage, NEW c \in Calls, Send(c) \/ SendRevoke(c)
    PROVE  RegistryStep \/ UNCHANGED regVars
<1>1. CASE Send(c)
  <2>1. call[c].id \in Identity /\ call[c].key \in Keys \cup {None}
    BY <1>1 DEF ClientOK, TypeOK, Call, Send, Underway, At
  <2>2. Op(c) = "rotate" => call[c].key \in Keys
    BY <1>1 DEF ClientOK, TypeOK, Call, Send, Underway, At
  <2>3. QED
    BY <1>1, <2>1, <2>2 DEF Send, RegistryStep, Identity
<1>2. CASE SendRevoke(c)
  <2>1. call[c].id \in Identity
    BY <1>2 DEF ClientOK, TypeOK, Call, SendRevoke, Underway, At
  <2>2. QED
    BY <1>2, <2>1 DEF SendRevoke, RegistryStep, Identity
<1>3. QED
  BY <1>1, <1>2

\* A call sent is the request its worker has in hand, and stands by itself
\* when the registry refuses it.
LEMMA SendKeeps ==
    ASSUME ClientOK, Reg!Consistent, UNCHANGED hasStorage, NEW c \in Calls, Send(c) \/ SendRevoke(c)
    PROVE  ClientOK'
<1>0. UNCHANGED <<identity, stored, drawn, overwritten, overlapped>> /\ ~At(c, "generate")
  BY DEF Send, SendRevoke, At
<1>1. CASE Rejects(c) /\ UNCHANGED <<regVars, identity, stored, drawn, overwritten, overlapped>>
  BY <1>0, <1>1 DEF ClientOK, Identities, Underway, Op, At, Ends, Idle, TypeOK, Call, regVars, Genuine, Rejects, Forsakes
<1>2. CASE Hears(c)
  <2>1. \A d \in Keys : held[d] \subseteq held'[d]
    BY SendIsRequest, HeldGrows
  <2>2. \A b \in Calls \ {c} : pc'[b] = pc[b] /\ req'[b] = req[b]
    <3>1. CASE Send(c)
      BY <3>1, OthersWait DEF Send, Reg!UpdateAuthorize
    <3>2. CASE SendRevoke(c) /\ ~UNCHANGED regVars
      BY <3>2, OthersWait DEF SendRevoke, Reg!RevokeAuthorize
    <3>3. QED
      BY <3>1, <3>2 DEF regVars
  <2>4. Underway(c)'
    <3> USE DEF ClientOK, TypeOK, Call, Underway, Hears, Goes, Rejects, Ends, Idle, Op, At
    <3>1. CASE Send(c) /\ Op(c) = "rotate"
      <4>1. reply' # "200" /\ reply' # "201"
        BY <3>1 DEF Send, Reg!UpdateAuthorize, Reg!Authorize, Reg!Answer, Reg!Proceed
      <4>2. reply' = "-" => /\ pc'[c] = "resolve" /\ req'[c].op = "update"
                            /\ req'[c].did = call[c].id.did /\ req'[c].key = call[c].key
        BY <3>1 DEF Send, Reg!UpdateAuthorize, Reg!Authorize, Reg!Answer, Reg!Proceed,
                    Reg!Consistent, Reg!TypeOK
      <4>3. QED
        BY <1>0, <1>2, <3>1, <4>1, <4>2 DEF Send
    <3>2. CASE Send(c) /\ Op(c) # "rotate"
      BY <1>0, <1>2, <3>2 DEF Send
    <3>3. CASE SendRevoke(c)
      BY <1>0, <1>2, <3>3 DEF SendRevoke
    <3>4. QED
      BY <3>1, <3>2, <3>3
  <2>5. QED
    BY <1>0, <1>2, <2>1, <2>2, <2>4, HeardCall, ForsakenDrawn, ClientStays
<1>3. QED
  BY <1>1, <1>2 DEF Send, SendRevoke

\* An update is acknowledged only when its key has been written.
LEMMA AcknowledgedIsHeld ==
    ASSUME Reg!Consistent, NEW c \in Calls, Reg!Step(c), pc[c] # "idle", req[c].op = "update"
    PROVE  /\ reply' \in {"200", "201"} => req[c].key \in held'[req[c].did]
           /\ reply' = "-" => pc'[c] # "idle" /\ req'[c] = req[c]
<1> USE DEF Reg!Consistent, Reg!TypeOK, Reg!InHand, Reg!Answer, Reg!Proceed
<1>1. pc[c] # "create" /\ req[c] \in Reg!Request /\ req[c].did \in Keys
  BY DEF Reg!Request
<1>2. CASE Reg!ClientResolve(c)
  BY <1>2 DEF Reg!ClientResolve
<1>3. CASE Reg!StoreUpdate(c)
  BY <1>1, <1>3 DEF Reg!StoreUpdate, Reg!Write, Reg!Prepared
<1>4. QED
  BY <1>1, <1>2, <1>3 DEF Reg!Step, Reg!RegisterCreate

\* The registry goes on with a request.
LEMMA ServerKeeps ==
    ASSUME ClientOK, Reg!Consistent, UNCHANGED hasStorage, NEW c \in Calls, ServerStep(c)
    PROVE  ClientOK'
<1>1. \A d \in Keys : held[d] \subseteq held'[d]
  BY HeldGrows DEF ServerStep, RegistryStep
<1>2. \A b \in Calls \ {c} : pc'[b] = pc[b] /\ req'[b] = req[b]
  BY OthersWait DEF ServerStep
<1>3. Underway(c)'
  <2> USE DEF ClientOK, TypeOK, Call, Underway, Hears, Goes, Rejects, Ends, Idle, Op, At
  <2>1. CASE At(c, "fetch") /\ Op(c) = "rotate"
    BY <2>1, AcknowledgedIsHeld DEF ServerStep
  <2>2. CASE At(c, "fetch") /\ Op(c) # "rotate"
    BY <2>2 DEF ServerStep
  <2>3. CASE ~At(c, "fetch")
    <3>1. Underway(c) /\ call'[c] = call[c] /\ call[c].id \in Identity \cup {None}
      BY <2>3 DEF ServerStep
    <3>2. call[c].id # None => held[call[c].id.did] \subseteq held'[call[c].id.did]
      BY <1>1, <3>1 DEF Identity
    <3>3. QED
      BY <2>3, <3>1, <3>2 DEF ServerStep
  <2>4. QED
    BY <2>1, <2>2, <2>3
<1>4. (Hears(c) /\ ~At(c, "generate")) \/ UNCHANGED <<call, forsaken>>
  BY DEF ServerStep, At
<1>5. forsaken' \in SUBSET drawn
  BY <1>4, ForsakenDrawn DEF ClientOK, TypeOK, Call
<1>6. QED
  BY <1>1, <1>2, <1>3, <1>4, <1>5, HeardCall, ClientStays DEF ServerStep

\* The app, or the API, dies.
LEMMA CrashKeeps ==
    ASSUME ClientOK, UNCHANGED hasStorage, Crash
    PROVE  ClientOK'
<1> DEFINE Lost == UNION {Forsakes(c) : c \in Calls}
           Memory == IF hasStorage \/ identity = None THEN {} ELSE {identity.key}
<1>1. forsaken' \subseteq drawn
  <2>1. \A c \in Calls : Forsakes(c) \subseteq drawn
    BY DEF ClientOK, Underway, Forsakes
  <2>2. Lost \subseteq drawn
    BY <2>1
  <2>3. Memory \subseteq drawn
    BY DEF ClientOK, Identities, Genuine
  <2>4. forsaken' = forsaken \cup Lost \cup Memory
    BY DEF Crash
  <2> HIDE DEF Lost, Memory
  <2>5. QED
    BY <2>2, <2>3, <2>4 DEF ClientOK, TypeOK, Call
<1>2. /\ UNCHANGED <<regVars, stored, drawn, overwritten, overlapped>>
      /\ identity' = None /\ call' = [c \in Calls |-> Idle]
  BY DEF Crash
<1>3. QED
  BY <1>1, <1>2 DEF ClientOK, Identities, Underway, Op, At, Idle, TypeOK, Call, regVars, Genuine

LEMMA ApiRestartKeeps ==
    ASSUME ClientOK, UNCHANGED hasStorage, ApiRestart
    PROVE  ClientOK'
<1>1. UNCHANGED held
  BY DEF ApiRestart, Reg!Restart
<1>2. forsaken' \subseteq drawn
  <2>1. \A c \in Calls : Forsakes(c) \subseteq drawn
    BY DEF ClientOK, Underway, Forsakes
  <2>2. UNION {Forsakes(c) : c \in {b \in Calls : At(b, "fetch")}} \subseteq drawn
    BY <2>1
  <2>3. QED
    BY <2>2 DEF ClientOK, TypeOK, Call, ApiRestart
<1>3. /\ UNCHANGED <<identity, stored, drawn, overwritten, overlapped>>
      /\ call' = [c \in Calls |-> IF At(c, "fetch") THEN Idle ELSE call[c]]
  BY DEF ApiRestart
<1>4. TypeOK'
  BY <1>2, <1>3 DEF ClientOK, TypeOK, Call, At, Idle
<1>5. \A i \in Identities' : i # None => Genuine(i)'
  <2>1. Identities' \subseteq Identities \cup {None}
    BY <1>3 DEF Identities, At, Idle
  <2>2. QED
    BY <1>1, <1>3, <2>1 DEF ClientOK, Genuine
<1>6. ASSUME NEW c \in Calls PROVE Underway(c)'
  <2>1. CASE At(c, "fetch")
    BY <1>3, <2>1 DEF Underway, Op, At, Idle
  <2>2. CASE ~At(c, "fetch")
    BY <1>1, <1>3, <2>2 DEF ClientOK, Underway, Op, At
  <2>3. QED
    BY <2>1, <2>2
<1>7. QED
  BY <1>4, <1>5, <1>6 DEF ClientOK

\* What a step does to the registry is what one of its requests, or its
\* restart, does.
LEMMA OnlyRequests ==
    ASSUME ClientOK, Reg!Consistent, [Next]_vars PROVE RegistryStep \/ UNCHANGED regVars
<1>1. ASSUME NEW c \in Calls, LocalStep(c) PROVE UNCHANGED regVars
  BY <1>1 DEF LocalStep, CreateIdentity, LoadIdentity, RotateIdentityKey, RevokeIdentity, Begins,
              Generated, Save, Saved, Delete, Deleted, Load, Loaded, StorageFails, FetchFails, Answered
<1>2. ASSUME NEW c \in Calls, UNCHANGED hasStorage, Send(c) \/ SendRevoke(c)
      PROVE  RegistryStep \/ UNCHANGED regVars
  BY <1>2, SendIsRequest
<1>3. ASSUME NEW c \in Calls, ServerStep(c) PROVE RegistryStep
  BY <1>3 DEF ServerStep, RegistryStep
<1>4. Crash \/ UNCHANGED vars => UNCHANGED regVars
  BY DEF Crash, vars
<1>5. ApiRestart => RegistryStep
  BY DEF ApiRestart, RegistryStep
<1>6. QED
  BY <1>1, <1>2, <1>3, <1>4, <1>5 DEF Next, Act, LocalStep

-----------------------------------------------------------------------------
\* An identity keeps the first key of its DID, whether or not its registration
\* was accepted, or one the registry accepted for it, and the registry stays
\* consistent under its clients (index.ts:87-122, 184-243).
THEOREM ClientsStayConsistent == Spec => []Consistent
<1>1. Init => Consistent
  <2>1. Init => Reg!Consistent
    BY DEF Init, Reg!Init, Reg!Consistent, Reg!TypeOK, Reg!InHand, Reg!CanFail
  <2>2. Init => TypeOK
    <3>1. Idle \in Call
      BY DEF Idle, Call
    <3>2. QED
      BY <3>1 DEF Init, TypeOK
  <2>3. Init => \A c \in Calls : Underway(c)
    BY DEF Init, Underway, Idle, Op, At
  <2>4. Init => {identity, stored} \cup {call[c].id : c \in Calls} \subseteq {None}
    BY DEF Init, Idle
  <2>5. QED
    BY <2>1, <2>2, <2>3, <2>4 DEF Consistent
<1>2. ASSUME Consistent, [Next]_vars PROVE Consistent'
  <2>1. ClientOK /\ Reg!Consistent
    BY <1>2 DEF Consistent, ClientOK, Identities
  <2>2. ASSUME NEW c \in Calls, UNCHANGED hasStorage, LocalStep(c) PROVE ClientOK'
    BY <2>1, <2>2, BeginsKeeps, StorageKeeps, OtherKeeps DEF LocalStep
  <2>3. ASSUME NEW c \in Calls, UNCHANGED hasStorage, Send(c) \/ SendRevoke(c) \/ ServerStep(c)
        PROVE  ClientOK'
    BY <2>1, <2>3, SendKeeps, ServerKeeps
  <2>4. ASSUME Crash \/ ApiRestart, UNCHANGED hasStorage PROVE ClientOK'
    BY <2>1, <2>4, CrashKeeps, ApiRestartKeeps
  <2>5. ASSUME UNCHANGED vars PROVE ClientOK'
    BY <2>1, <2>5 DEF vars, local, regVars, ClientOK, Identities, Underway, Op, At, TypeOK, Call, Genuine
  <2>6. ClientOK'
    BY <1>2, <2>2, <2>3, <2>4, <2>5 DEF Next, Act, LocalStep
  <2>7. Reg!Consistent'
    BY <1>2, <2>1, OnlyRequests, RegistryKeeps
  <2>8. QED
    BY <2>6, <2>7 DEF Consistent, ClientOK, Identities
<1>3. QED
  BY <1>1, <1>2, PTL DEF Spec
-----------------------------------------------------------------------------
\* UddiClient implements DidRegistry, with Postgres: what the clients do to the
\* registry, its requests do.
THEOREM ClientsRunTheRegistry == Spec => RegP!Spec
<1>1. Init => RegP!Init
  BY DEF Init, Reg!Init, RegP!Init
<1>2. Consistent /\ [Next]_vars => [RegP!Next]_(RegP!vars)
  <2> SUFFICES ASSUME Consistent, [Next]_vars PROVE [RegP!Next]_(RegP!vars)
    OBVIOUS
  <2>1. RegistryStep \/ UNCHANGED regVars
    BY OnlyRequests DEF Consistent, ClientOK, Identities
  <2>2. QED
    BY <2>1, StepOfRegistry DEF RegP!Next, RegP!vars, regVars
<1>3. QED
  BY <1>1, <1>2, ClientsStayConsistent, PTL DEF Spec, RegP!Spec

\* What is proved of the registry is so of the registry under its clients: a
\* settled revocation is final, a DID is registered once, and a key enters a
\* document only by the signature of an earlier one (client.go:78-109,
\* did.go:64, 227).
THEOREM ClientsKeepTheRegistry ==
    Spec => RegP!RevocationSettles /\ []RegP!OneRegistration /\ RegP!KeyCustody
<1>1. None \notin RegP!Document /\ None \notin RegP!Request /\ None \notin Keys
  BY NoneAssumption DEF RegP!Document, RegP!Request, Reg!Document, Reg!Request
<1>2. RegP!Spec => RegP!RevocationSettles
  BY <1>1, RegP!SettledIsFinal
<1>3. RegP!Spec => []RegP!OneRegistration
  BY <1>1, RegP!RegistrationIsOnce
<1>4. RegP!Spec => RegP!KeyCustody
  BY <1>1, RegP!CustodyUnbroken
<1>5. QED
  BY <1>2, <1>3, <1>4, ClientsRunTheRegistry
-----------------------------------------------------------------------------
(***************************************************************************)
(* While calls do not overlap.  One call at most is under way, but requests*)
(* of calls that were given up may still run.                              *)
(***************************************************************************)
InFlight(w) == pc[w] # "idle"

\* Where the client has an identity while no call is under way.
Home == IF hasStorage THEN stored ELSE identity

\* The client still has key k of DID d, or gave it up or overwrote it.
Kept(d, k) ==
    \/ k \in forsaken
    \/ k \in overwritten
    \/ Home = [did |-> d, key |-> k]
    \/ \E c \in Calls : Op(c) = "rotate" /\ call[c].id.did = d /\ call[c].key = k

\* DID d is registered, and deactivated or left with a key that was given up
\* or is one of `keys`.
Beyond(d, keys) == docs[d] # None /\ (docs[d].deactivated \/ docs[d].key \in forsaken \cup keys)

Sole == /\ \A b, c \in Calls : ~At(b, "idle") /\ ~At(c, "idle") => b = c
        /\ \A c \in Calls : Op(c) = "-" <=> At(c, "idle")

\* How far each call may be, and what is true there.
CreateOn(c) == Op(c) = "create" =>
    LET i == call[c].id IN
    /\ call[c].at \in {"generate", "save", "saved", "send", "fetch", "ok"}
    /\ At(c, "generate") => identity = None
    /\ ~At(c, "generate") =>
         /\ identity = i /\ i.key = i.did
         /\ \A w \in Calls : InFlight(w) /\ req[w].did = i.did => w = c /\ At(c, "fetch")
         /\ hasStorage /\ ~At(c, "save") => stored = i
    /\ call[c].at \in {"save", "saved"} => hasStorage
    /\ At(c, "fetch") => InFlight(c) /\ req[c].op = "register" /\ req[c].did = i.did
    /\ At(c, "ok") => docs[i.did] = [key |-> i.key, deactivated |-> FALSE]

RotateOn(c) == Op(c) = "rotate" =>
    LET i == call[c].id IN
    /\ call[c].at \in {"generate", "send", "fetch", "ok", "save", "saved"}
    /\ identity = i
    /\ At(c, "generate") => call[c].key = None
    /\ call[c].at \in {"save", "saved"} => hasStorage /\ call[c].key = i.key
    /\ call[c].at \in {"ok", "save", "saved"} => Beyond(i.did, {call[c].key})
    /\ At(c, "saved") => stored = i

RevokeOn(c) == Op(c) = "revoke" =>
    LET i == call[c].id IN
    /\ call[c].at \in {"sign", "fetch", "ok", "delete", "deleted"}
    /\ identity = i
    /\ call[c].at \in {"delete", "deleted"} => hasStorage
    /\ At(c, "fetch") => InFlight(c) /\ req[c].op = "revoke" /\ req[c].did = i.did
    /\ call[c].at \in {"ok", "delete", "deleted"} => Beyond(i.did, {})

LoadOn(c) == Op(c) = "load" =>
    /\ hasStorage /\ call[c].at \in {"load", "loaded"}
    /\ At(c, "loaded") => call[c].id = stored

CallOn(c) == CreateOn(c) /\ RotateOn(c) /\ RevokeOn(c) /\ LoadOn(c)

\* The key request w would leave in its document is kept.
RequestKept(w) == InFlight(w) =>
    /\ req[w].did \in drawn
    /\ req[w].op = "register" => /\ req[w].key = req[w].did
                                 /\ docs[req[w].did] = None => Kept(req[w].did, req[w].did)
    /\ req[w].op = "update" => req[w].key \in forsaken \/ (Op(w) = "rotate" /\ At(w, "fetch"))

DocKept(d) == docs[d] # None => d \in drawn /\ (docs[d].deactivated \/ Kept(d, docs[d].key))

\* Memory and storage hold one DID, unless the one in memory was never asked
\* to be registered.
SameDid == hasStorage /\ identity # None /\ stored # None =>
    \/ stored.did = identity.did
    \/ docs[identity.did] = None /\ \A w \in Calls : InFlight(w) => req[w].did # identity.did

Alone == /\ Sole /\ SameDid
         /\ \A c \in Calls : CallOn(c) /\ RequestKept(c)
         /\ \A d \in Keys : DocKept(d)

Sane == ClientOK /\ Reg!Consistent /\ Alone

\* What this invariant is for.
LEMMA AloneSuffices ==
    ASSUME Sane
    PROVE  /\ \A d \in drawn : docs[d] # None /\ ~docs[d].deactivated =>
                \/ docs[d].key \in forsaken
                \/ docs[d].key \in overwritten
                \/ [did |-> d, key |-> docs[d].key] \in {identity, stored}
                \/ \E c \in Calls : Op(c) = "rotate" /\ call[c].id.did = d /\ call[c].key = docs[d].key
           /\ \A c \in Calls : Op(c) = "create" /\ At(c, "ok") =>
                /\ identity = call[c].id
                /\ docs[identity.did] = [key |-> identity.key, deactivated |-> FALSE]
<1>1. drawn \subseteq Keys
  BY DEF Sane, ClientOK, TypeOK
<1>2. QED
  BY <1>1 DEF Sane, Alone, DocKept, Kept, Home, CallOn, CreateOn, At

-----------------------------------------------------------------------------
\* Types the steps below rest on.
LEMMA SaneTypes ==
    ASSUME Sane
    PROVE  /\ identity \in Identity \cup {None} /\ stored \in Identity \cup {None}
           /\ call \in [Calls -> Call]
           /\ drawn \subseteq Keys /\ forsaken \subseteq drawn
           /\ docs \in [Keys -> Reg!Document \cup {None}]
           /\ \A d \in Keys : docs[d] # None => docs[d].key \in Keys
           /\ \A w \in Calls : InFlight(w) => /\ req[w] \in Reg!Request
                                              /\ req[w].did \in Keys /\ req[w].key \in Keys
           /\ None \notin Identity /\ None \notin Keys
           /\ \A c \in Calls : /\ Underway(c) /\ CallOn(c)
                               /\ Op(c) \in {"-", "create", "load", "rotate", "revoke"}
                               /\ Op(c) = "-" <=> At(c, "idle")
                               /\ call[c].id \in Identity \cup {None}
                               /\ call[c].key \in Keys \cup {None}
  BY NoneAssumption DEF Sane, Alone, Sole, Op, ClientOK, TypeOK, Call, Reg!Consistent, Reg!TypeOK,
         Reg!InHand, Reg!Document, Reg!Request, InFlight

\* Beside a call that is under way, all are idle.
LEMMA OthersIdle ==
    ASSUME Sane, NEW c \in Calls, ~At(c, "idle")
    PROVE  \A b \in Calls \ {c} : At(b, "idle") /\ Op(b) = "-"
  BY DEF Sane, Alone, Sole

\* A key somebody depends on: the one an active document has, or the first one
\* of a DID that is not registered yet.
Needed(d, k) == \/ docs[d] # None /\ ~docs[d].deactivated /\ docs[d].key = k
                \/ docs[d] = None /\ k = d

\* The registry writes nothing and takes nothing up; requests may end.
Rests == /\ UNCHANGED docs
         /\ \A w \in Calls : InFlight(w)' => InFlight(w) /\ req'[w] = req[w]

LEMMA Resting == UNCHANGED regVars => Rests
  BY DEF regVars, Rests, InFlight

\* While the registry rests, it is enough that needed keys stay kept ...
LEMMA LocalKept ==
    ASSUME Sane, Rests, drawn \subseteq drawn', forsaken \subseteq forsaken', overwritten \subseteq overwritten',
           \A d, k \in Keys : Needed(d, k) /\ Kept(d, k) => Kept(d, k)',
           \A w \in Calls : Op(w) = "rotate" /\ At(w, "fetch") =>
              call'[w] = call[w] \/ call[w].key \in forsaken'
    PROVE  /\ \A w \in Calls : RequestKept(w)'
           /\ \A d \in Keys : DocKept(d)'
<1>1. UNCHANGED docs
  BY DEF Rests
<1>2. ASSUME NEW w \in Calls PROVE RequestKept(w)'
  <2> SUFFICES ASSUME InFlight(w)' PROVE RequestKept(w)'
    BY DEF RequestKept
  <2>0. InFlight(w) /\ req'[w] = req[w]
    BY DEF Rests
  <2>1. req[w].op = "update" /\ At(w, "fetch") /\ Op(w) = "rotate" => call[w].key = req[w].key
    BY <2>0, SaneTypes DEF Underway, InFlight
  <2>2. req[w].did \in Keys
    BY <2>0, SaneTypes
  <2>3. RequestKept(w)
    BY DEF Sane, Alone
  <2>4. ASSUME req[w].op = "register", docs[req[w].did] = None
        PROVE  Kept(req[w].did, req[w].did)'
    <3>1. PICK k \in Keys : k = req[w].did
      BY <2>2
    <3>2. Kept(k, k)'
      BY <2>0, <2>3, <2>4, <3>1 DEF RequestKept, Needed
    <3>3. QED
      BY <2>0, <3>1, <3>2 DEF Kept
  <2>5. req[w].op = "update" => req[w].key \in forsaken' \/ (Op(w) = "rotate" /\ At(w, "fetch"))'
    BY <2>0, <2>1, <2>3 DEF RequestKept, Op, At
  <2>6. QED
    BY <1>1, <2>0, <2>3, <2>4, <2>5 DEF RequestKept
<1>3. ASSUME NEW d \in Keys PROVE DocKept(d)'
  <2>1. DocKept(d)
    BY DEF Sane, Alone
  <2>2. docs[d] # None => docs[d].key \in Keys
    BY SaneTypes
  <2>4. ASSUME docs[d] # None, ~docs[d].deactivated
        PROVE  Kept(d, docs[d].key)'
    <3>1. PICK k \in Keys : k = docs[d].key
      BY <2>2, <2>4
    <3>2. Kept(d, k)'
      BY <2>1, <2>4, <3>1 DEF DocKept, Needed
    <3>3. QED
      BY <1>1, <3>1, <3>2 DEF Kept
  <2>5. QED
    BY <1>1, <2>1, <2>4 DEF DocKept
<1>4. QED
  BY <1>2, <1>3

\* ... and of the calls, only the one under way has to be looked at.
LEMMA Assembled ==
    ASSUME Sane, NEW c \in Calls, \A b \in Calls \ {c} : At(b, "idle") /\ call'[b] = call[b],
           Op(c)' = "-" <=> At(c, "idle")', CallOn(c)', SameDid',
           \A w \in Calls : RequestKept(w)', \A d \in Keys : DocKept(d)'
    PROVE  Alone'
<1>1. \A b \in Calls \ {c} : At(b, "idle")' /\ Op(b)' = "-"
  BY DEF Sane, Alone, Sole, At, Op
<1>2. Sole'
  BY <1>1 DEF Sole
<1>3. \A b \in Calls \ {c} : CallOn(b)'
  BY <1>1 DEF CallOn, CreateOn, RotateOn, RevokeOn, LoadOn
<1>4. QED
  BY <1>2, <1>3 DEF Alone

\* So a step of call c alone keeps all if c ends up as it may be, and keeps
\* or forsakes what it and the client's home held.
LEMMA LocalAlone ==
    ASSUME Sane, Rests, UNCHANGED hasStorage, NEW c \in Calls,
           \A b \in Calls \ {c} : At(b, "idle") /\ Op(b) = "-" /\ call'[b] = call[b],
           Op(c)' = "-" <=> At(c, "idle")', CallOn(c)', SameDid',
           drawn \subseteq drawn', forsaken \subseteq forsaken', overwritten \subseteq overwritten',
           \A d, k \in Keys : Needed(d, k) /\ Home = [did |-> d, key |-> k] =>
              \/ k \in forsaken' \/ k \in overwritten' \/ Home' = [did |-> d, key |-> k]
              \/ Op(c)' = "rotate" /\ call'[c].id.did = d /\ call'[c].key = k,
           Op(c) = "rotate" /\ call[c].key # None =>
              \/ call[c].key \in forsaken'
              \/ Home' = [did |-> call[c].id.did, key |-> call[c].key]
              \/ Op(c)' = "rotate" /\ call'[c].id.did = call[c].id.did /\ call'[c].key = call[c].key,
           Op(c) = "rotate" /\ At(c, "fetch") =>
              call'[c] = call[c] \/ call[c].key \in forsaken' \cup {None}
    PROVE  Alone'
<1>1. ASSUME NEW d \in Keys, NEW k \in Keys, Needed(d, k), Kept(d, k)
      PROVE  Kept(d, k)'
  <2>1. k # None
    BY SaneTypes
  <2>2. \/ k \in forsaken \cup overwritten
        \/ Home = [did |-> d, key |-> k]
        \/ Op(c) = "rotate" /\ call[c].id.did = d /\ call[c].key = k
    BY <1>1 DEF Kept
  <2>3. \/ k \in forsaken' \cup overwritten'
        \/ Home' = [did |-> d, key |-> k]
        \/ Op(c)' = "rotate" /\ call'[c].id.did = d /\ call'[c].key = k
    BY <1>1, <2>1, <2>2
  <2>4. QED
    BY <2>3 DEF Kept, Op
<1>2. ASSUME NEW w \in Calls, Op(w) = "rotate", At(w, "fetch")
      PROVE  call'[w] = call[w] \/ call[w].key \in forsaken'
  <2>1. w = c
    BY <1>2 DEF At
  <2>2. call[c].key # None
    BY <1>2, <2>1, SaneTypes DEF Underway, At
  <2>3. QED
    BY <1>2, <2>1, <2>2
<1>3. (\A w \in Calls : RequestKept(w)') /\ (\A d \in Keys : DocKept(d)')
  BY <1>1, <1>2, LocalKept
<1>4. QED
  BY <1>3, Assembled
-----------------------------------------------------------------------------
\* A call that begins while none is under way is the only one.
LEMMA BeginsAlone ==
    ASSUME Sane, UNCHANGED hasStorage, NEW c \in Calls, ~overlapped',
           CreateIdentity(c) \/ LoadIdentity(c) \/ RotateIdentityKey(c) \/ RevokeIdentity(c)
    PROVE  Alone'
<1>1. PICK op, point, id : /\ Begins(c, op, point, id)
                           /\ \/ op = "create" /\ point = "generate" /\ id = None /\ identity = None
                              \/ op = "load" /\ point = "load" /\ hasStorage
                              \/ op = "rotate" /\ point = "generate" /\ id = identity
                              \/ op = "revoke" /\ point = "sign" /\ id = identity
  BY DEF CreateIdentity, LoadIdentity, RotateIdentityKey, RevokeIdentity
<1>2. /\ UNCHANGED <<regVars, identity, stored, drawn, forsaken, overwritten>>
      /\ \A b \in Calls : At(b, "idle") /\ Op(b) = "-"
  BY <1>1 DEF Begins, Sane, Alone, Sole
<1>3. /\ call'[c] = [op |-> op, at |-> point, id |-> id, key |-> None]
      /\ \A b \in Calls \ {c} : call'[b] = call[b]
  BY <1>1, SaneTypes DEF Begins
<1>4. CallOn(c)' /\ (Op(c)' = "-" <=> At(c, "idle")')
  BY <1>1, <1>2, <1>3 DEF CallOn, CreateOn, RotateOn, RevokeOn, LoadOn, Op, At
<1>5. SameDid'
  BY <1>2 DEF SameDid, Sane, Alone, regVars, InFlight
<1>6. Rests
  BY <1>2, Resting
<1>7. QED
  BY <1>2, <1>3, <1>4, <1>5, <1>6, LocalAlone DEF Home, At

\* Nobody knows a key that is not drawn.
LEMMA Unknown ==
    ASSUME Sane, NEW k \in Keys, k \notin drawn
    PROVE  docs[k] = None /\ \A w \in Calls : InFlight(w) => req[w].did # k
  BY DEF Sane, Alone, DocKept, RequestKept

LEMMA GeneratedAlone ==
    ASSUME Sane, UNCHANGED hasStorage, NEW c \in Calls, NEW k \in Keys, Generated(c, k)
    PROVE  Alone'
<1>1. /\ UNCHANGED <<regVars, hasStorage, stored, forsaken, overwritten>> /\ drawn \subseteq drawn'
      /\ At(c, "generate") /\ CallOn(c)
  BY DEF Generated, Sane, Alone
<1>2. \A b \in Calls \ {c} : At(b, "idle") /\ Op(b) = "-" /\ call'[b] = call[b]
  BY <1>1, SaneTypes, OthersIdle DEF Generated, At
<1>3. Rests /\ docs[k] = None /\ \A w \in Calls : InFlight(w) => req[w].did # k
  BY <1>1, Unknown, Resting DEF Generated
<1>4. CASE Op(c) = "create"
  <2> DEFINE i == [did |-> k, key |-> k]
  <2>1. /\ identity = None /\ identity' = i
        /\ Op(c)' = "create" /\ call'[c].id = i
        /\ call'[c].at = IF hasStorage THEN "save" ELSE "send"
    BY <1>1, <1>4, SaneTypes DEF Generated, CallOn, CreateOn, Op, Call
  <2>2. CallOn(c)' /\ (Op(c)' = "-" <=> At(c, "idle")')
    BY <1>1, <1>3, <2>1 DEF CallOn, CreateOn, RotateOn, RevokeOn, LoadOn, At, regVars, InFlight
  <2>3. SameDid'
    BY <1>1, <1>3, <2>1 DEF SameDid, regVars, InFlight
  <2>4. hasStorage => Home' = Home
    BY <1>1 DEF Home
  <2>5. ~hasStorage => \A d, j : Home # [did |-> d, key |-> j] \/ d \notin Keys \/ j \notin Keys
    BY <2>1, SaneTypes DEF Home, Identity
  <2>6. QED
    BY <1>1, <1>2, <1>3, <1>4, <2>2, <2>3, <2>4, <2>5, LocalAlone DEF At
<1>5. CASE Op(c) = "rotate"
  <2>1. /\ identity' = identity /\ call[c].key = None
        /\ call'[c] = [call[c] EXCEPT !.key = k, !.at = "send"]
    BY <1>1, <1>5, SaneTypes DEF Generated, CallOn, RotateOn, Op
  <2>2. CallOn(c)' /\ (Op(c)' = "-" <=> At(c, "idle")')
    BY <1>1, <1>5, <2>1, SaneTypes DEF CallOn, CreateOn, RotateOn, RevokeOn, LoadOn, At, Op, Call
  <2>3. SameDid'
    BY <1>1, <2>1 DEF SameDid, Sane, Alone, regVars, InFlight
  <2>4. Home' = Home /\ ~At(c, "fetch")
    BY <1>1, <2>1 DEF Home, At
  <2>5. QED
    BY <1>1, <1>2, <1>3, <2>1, <2>2, <2>3, <2>4, LocalAlone
<1>6. QED
  BY <1>4, <1>5 DEF Generated

\* A rotation saves over the identity it is of, or one the registry is beyond;
\* a createIdentity overwrites what it saves over.
LEMMA SaveAlone ==
    ASSUME Sane, UNCHANGED hasStorage, NEW c \in Calls, Save(c)
    PROVE  Alone'
<1> DEFINE i == call[c].id
<1>1. /\ UNCHANGED <<regVars, hasStorage, identity, drawn>> /\ forsaken \subseteq forsaken' /\ overwritten \subseteq overwritten'
      /\ At(c, "save") /\ CallOn(c) /\ SameDid /\ stored' = i
      /\ call'[c] = [call[c] EXCEPT !.at = "saved"]
  BY SaneTypes DEF Save, Goes, Sane, Alone
<1>2. \A b \in Calls \ {c} : At(b, "idle") /\ Op(b) = "-" /\ call'[b] = call[b]
  BY <1>1, SaneTypes, OthersIdle DEF Save, Goes, At
<1>3. Op(c) \in {"create", "rotate"} /\ hasStorage /\ identity = i /\ i \in Identity
  BY <1>1, SaneTypes DEF CallOn, CreateOn, RotateOn, RevokeOn, LoadOn, At, Op, Underway, Call
<1>4. SameDid'
  BY <1>1, <1>3 DEF SameDid
<1>5. CallOn(c)' /\ (Op(c)' = "-" <=> At(c, "idle")')
  BY <1>1, <1>3, SaneTypes
     DEF CallOn, CreateOn, RotateOn, RevokeOn, LoadOn, At, Op, Call, regVars, InFlight, Beyond
<1>6. ASSUME NEW d \in Keys, NEW k \in Keys, Needed(d, k), Home = [did |-> d, key |-> k]
      PROVE  k \in forsaken' \cup overwritten' \/ (Op(c) = "rotate" /\ i.did = d /\ call[c].key = k)
  <2>1. stored = [did |-> d, key |-> k] /\ stored # None
    BY <1>3, <1>6, SaneTypes DEF Home, Identity
  <2>2. CASE Op(c) = "create"
    BY <2>1, <2>2 DEF Save
  <2>3. CASE Op(c) = "rotate"
    <3>1. Beyond(i.did, {call[c].key})
      BY <1>1, <2>3 DEF CallOn, RotateOn, At
    <3>2. d = i.did
      BY <1>1, <1>3, <2>1, <3>1, SaneTypes DEF SameDid, Beyond
    <3>3. QED
      BY <1>1, <1>6, <2>3, <3>1, <3>2 DEF Beyond, Needed
  <2>4. QED
    BY <1>3, <2>2, <2>3
<1>7. Op(c)' = Op(c) /\ call'[c].id = i /\ call'[c].key = call[c].key /\ ~At(c, "fetch")
  BY <1>1, SaneTypes DEF Op, Call, At
<1>8. Rests /\ drawn \subseteq drawn' /\ forsaken \subseteq forsaken' /\ overwritten \subseteq overwritten'
  BY <1>1, Resting
<1>9. QED
  BY <1>2, <1>4, <1>5, <1>6, <1>7, <1>8, LocalAlone

LEMMA SavedAlone ==
    ASSUME Sane, UNCHANGED hasStorage, NEW c \in Calls, Saved(c)
    PROVE  Alone'
<1> DEFINE i == call[c].id
<1>1. /\ UNCHANGED <<regVars, hasStorage, identity, stored, drawn, forsaken, overwritten>>
      /\ At(c, "saved") /\ CallOn(c) /\ SameDid
  BY DEF Saved, local, Sane, Alone
<1>2. \A b \in Calls \ {c} : At(b, "idle") /\ Op(b) = "-" /\ call'[b] = call[b]
  BY <1>1, SaneTypes, OthersIdle DEF Saved, Ends, At
<1>3. SameDid'
  BY <1>1 DEF SameDid, regVars, InFlight
<1>4. Op(c) \in {"create", "rotate"} /\ hasStorage /\ identity = i /\ i = stored
  BY <1>1, SaneTypes DEF CallOn, CreateOn, RotateOn, RevokeOn, LoadOn, At, Op
<1>5. CallOn(c)' /\ (Op(c)' = "-" <=> At(c, "idle")')
  BY <1>1, <1>4, SaneTypes
     DEF Saved, Ends, Idle, CallOn, CreateOn, RotateOn, RevokeOn, LoadOn, At, Op, Call, regVars, InFlight
<1>6. Op(c) = "rotate" => Home' = [did |-> i.did, key |-> call[c].key]
  BY <1>1, <1>4, SaneTypes DEF CallOn, RotateOn, At, Op, Home, Identity, Underway
<1>7. Home' = Home /\ ~At(c, "fetch")
  BY <1>1 DEF Home, At
<1>8. \/ Op(c) # "rotate"
      \/ Home' = [did |-> call[c].id.did, key |-> call[c].key]
  BY <1>6
<1> HIDE DEF i
<1>9. Rests /\ drawn \subseteq drawn' /\ forsaken \subseteq forsaken' /\ overwritten \subseteq overwritten'
  BY <1>1, Resting
<1>10. QED
  BY <1>2, <1>3, <1>5, <1>7, <1>8, <1>9, LocalAlone
\* storage.delete only drops what the registry is beyond.
LEMMA DeleteAlone ==
    ASSUME Sane, UNCHANGED hasStorage, NEW c \in Calls, Delete(c)
    PROVE  Alone'
<1> DEFINE i == call[c].id
<1>1. /\ UNCHANGED <<regVars, hasStorage, identity, drawn, forsaken, overwritten>>
      /\ At(c, "delete") /\ CallOn(c) /\ SameDid /\ stored' = None
      /\ call'[c] = [call[c] EXCEPT !.at = "deleted"]
  BY SaneTypes DEF Delete, Goes, Sane, Alone
<1>2. \A b \in Calls \ {c} : At(b, "idle") /\ Op(b) = "-" /\ call'[b] = call[b]
  BY <1>1, SaneTypes, OthersIdle DEF Delete, Goes, At
<1>3. Op(c) = "revoke" /\ hasStorage /\ identity = i /\ i # None /\ Beyond(i.did, {})
  BY <1>1, SaneTypes DEF CallOn, CreateOn, RotateOn, RevokeOn, LoadOn, At, Op, Underway
<1>4. SameDid'
  BY <1>1 DEF SameDid
<1>5. CallOn(c)' /\ (Op(c)' = "-" <=> At(c, "idle")')
  BY <1>1, <1>3, SaneTypes
     DEF CallOn, CreateOn, RotateOn, RevokeOn, LoadOn, At, Op, Call, regVars, Beyond
<1>6. ASSUME NEW d \in Keys, NEW k \in Keys, Needed(d, k), Home = [did |-> d, key |-> k]
      PROVE  k \in forsaken'
  <2>1. stored = [did |-> d, key |-> k] /\ stored # None
    BY <1>3, <1>6, SaneTypes DEF Home, Identity
  <2>2. d = i.did
    BY <1>1, <1>3, <2>1, SaneTypes DEF SameDid, Beyond
  <2>3. QED
    BY <1>1, <1>3, <1>6, <2>2 DEF Beyond, Needed
<1>7. Rests /\ drawn \subseteq drawn' /\ forsaken \subseteq forsaken' /\ overwritten \subseteq overwritten'
  BY <1>1, Resting
<1>8. Op(c) # "rotate" /\ ~At(c, "fetch")
  BY <1>1, <1>3 DEF At
<1>9. QED
  BY <1>2, <1>4, <1>5, <1>6, <1>7, <1>8, LocalAlone

LEMMA LoadAlone ==
    ASSUME Sane, UNCHANGED hasStorage, NEW c \in Calls, Load(c)
    PROVE  Alone'
<1>1. /\ UNCHANGED <<regVars, hasStorage, identity, stored, drawn, forsaken, overwritten>>
      /\ At(c, "load") /\ CallOn(c) /\ SameDid
      /\ call'[c] = [call[c] EXCEPT !.id = stored, !.at = "loaded"]
  BY SaneTypes DEF Load, local, Sane, Alone
<1>2. \A b \in Calls \ {c} : At(b, "idle") /\ Op(b) = "-" /\ call'[b] = call[b]
  BY <1>1, SaneTypes, OthersIdle DEF Load, At
<1>3. Op(c) = "load" /\ hasStorage
  BY <1>1, SaneTypes DEF CallOn, CreateOn, RotateOn, RevokeOn, LoadOn, At, Op
<1>4. SameDid'
  BY <1>1 DEF SameDid, regVars, InFlight
<1>5. CallOn(c)' /\ (Op(c)' = "-" <=> At(c, "idle")')
  BY <1>1, <1>3, SaneTypes DEF CallOn, CreateOn, RotateOn, RevokeOn, LoadOn, At, Op, Call
<1>6. Rests /\ drawn \subseteq drawn' /\ forsaken \subseteq forsaken' /\ overwritten \subseteq overwritten'
  BY <1>1, Resting
<1>7. Op(c) # "rotate" /\ ~At(c, "fetch") /\ Home' = Home
  BY <1>1, <1>3 DEF At, Home
<1>8. QED
  BY <1>2, <1>4, <1>5, <1>6, <1>7, LocalAlone

\* A call may end when what it and the client's home held is kept or forsaken.
LEMMA EndsAlone ==
    ASSUME Sane, Rests, UNCHANGED <<hasStorage, drawn>>, NEW c \in Calls, ~At(c, "idle"), Ends(c),
           SameDid', forsaken \subseteq forsaken', overwritten \subseteq overwritten',
           \A d, k \in Keys : Needed(d, k) /\ Home = [did |-> d, key |-> k] =>
              k \in forsaken' \/ Home' = [did |-> d, key |-> k],
           Op(c) = "rotate" /\ call[c].key # None =>
              call[c].key \in forsaken' \/ Home' = [did |-> call[c].id.did, key |-> call[c].key],
           Op(c) = "rotate" /\ At(c, "fetch") => call[c].key \in forsaken' \cup {None}
    PROVE  Alone'
<1>1. \A b \in Calls \ {c} : At(b, "idle") /\ Op(b) = "-" /\ call'[b] = call[b]
  BY SaneTypes, OthersIdle DEF Ends
<1>2. call'[c] = Idle
  BY SaneTypes DEF Ends
<1>3. CallOn(c)' /\ (Op(c)' = "-" <=> At(c, "idle")')
  BY <1>2 DEF CallOn, CreateOn, RotateOn, RevokeOn, LoadOn, At, Op, Idle
<1>4. QED
  BY <1>1, <1>3, LocalAlone

LEMMA ForgottenAlone ==
    ASSUME Sane, UNCHANGED hasStorage, NEW c \in Calls, Deleted(c) \/ Loaded(c)
    PROVE  Alone'
<1>1. /\ UNCHANGED <<regVars, hasStorage, stored, drawn, forsaken, overwritten>>
      /\ call[c].at \in {"deleted", "loaded"} /\ CallOn(c) /\ Ends(c)
      /\ At(c, "deleted") => identity' = None
      /\ At(c, "loaded") => identity' = call[c].id
  BY SaneTypes DEF Deleted, Loaded, At
<1>2. hasStorage /\ Op(c) # "rotate" /\ (At(c, "loaded") => call[c].id = stored)
  BY <1>1, SaneTypes DEF CallOn, CreateOn, RotateOn, RevokeOn, LoadOn, At, Op
<1>3. SameDid'
  BY <1>1, <1>2 DEF SameDid, At
<1>4. Home' = Home /\ ~At(c, "fetch") /\ ~At(c, "idle")
  BY <1>1, <1>2 DEF Home, At
<1>5. Rests /\ UNCHANGED drawn /\ forsaken \subseteq forsaken' /\ overwritten \subseteq overwritten'
  BY <1>1, Resting
<1>6. QED
  BY <1>1, <1>2, <1>3, <1>4, <1>5, EndsAlone

\* A call that fails forsakes what it has not stored.
LEMMA RejectsAlone ==
    ASSUME Sane, Rests, UNCHANGED <<hasStorage, identity, stored, drawn, overwritten>>,
           NEW c \in Calls, ~At(c, "idle"), Rejects(c)
    PROVE  Alone'
<1>1. /\ Ends(c) /\ forsaken' = forsaken \cup Forsakes(c)
      /\ CallOn(c) /\ SameDid
  BY DEF Rejects, Sane, Alone
<1>2. SameDid'
  BY <1>1 DEF SameDid, Rests
<1>3. Home' = Home
  BY DEF Home
<1>4. ASSUME Op(c) = "rotate", call[c].key # None
      PROVE  call[c].key \in forsaken' \/ Home' = [did |-> call[c].id.did, key |-> call[c].key]
  <2>1. CASE At(c, "saved")
    <3>1. hasStorage /\ stored = call[c].id /\ call[c].id.key = call[c].key /\ call[c].id \in Identity
      BY <1>1, <1>4, <2>1, SaneTypes DEF CallOn, RotateOn, At, Op, Underway
    <3>2. QED
      BY <1>3, <3>1 DEF Home, Identity
  <2>2. CASE ~At(c, "saved")
    BY <1>1, <1>4, <2>2 DEF Forsakes
  <2>3. QED
    BY <2>1, <2>2
<1>5. Op(c) = "rotate" /\ At(c, "fetch") => call[c].key \in forsaken' \cup {None}
  BY <1>1 DEF Forsakes, At
<1>6. forsaken \subseteq forsaken' /\ overwritten \subseteq overwritten'
  BY <1>1
<1>7. QED
  BY <1>1, <1>2, <1>3, <1>4, <1>5, <1>6, EndsAlone
LEMMA FailsAlone ==
    ASSUME Sane, UNCHANGED hasStorage, NEW c \in Calls, StorageFails(c) \/ FetchFails(c)
    PROVE  Alone'
  BY Resting, RejectsAlone DEF StorageFails, FetchFails, At

\* The identity an answered rotation or revocation replaces is one the registry
\* is beyond.
LEMMA AnsweredAlone ==
    ASSUME Sane, UNCHANGED hasStorage, NEW c \in Calls, Answered(c)
    PROVE  Alone'
<1> DEFINE i == call[c].id
<1>1. /\ UNCHANGED <<regVars, hasStorage, stored, drawn, forsaken, overwritten>>
      /\ At(c, "ok") /\ CallOn(c) /\ SameDid /\ identity = i /\ i \in Identity
  BY SaneTypes
     DEF Answered, Sane, Alone, CallOn, CreateOn, RotateOn, RevokeOn, LoadOn, Underway, At, Op
<1>2. /\ Rests /\ UNCHANGED drawn /\ drawn \subseteq drawn' /\ forsaken \subseteq forsaken' /\ overwritten \subseteq overwritten'
      /\ ~At(c, "idle") /\ ~At(c, "fetch")
  BY <1>1, Resting DEF At
<1>3. CASE Op(c) = "create"
  <2>1. identity' = identity /\ Ends(c)
    BY <1>3 DEF Answered
  <2>2. SameDid' /\ Home' = Home
    BY <1>1, <2>1 DEF SameDid, Home, regVars, InFlight
  <2>3. QED
    BY <1>2, <1>3, <2>1, <2>2, EndsAlone
<1>4. CASE Op(c) = "rotate"
  <2>1. /\ identity' = [did |-> i.did, key |-> call[c].key]
        /\ call[c].key \in Keys /\ Beyond(i.did, {call[c].key})
    BY <1>1, <1>4, SaneTypes DEF Answered, Rotated, Underway, CallOn, RotateOn, At
  <2>2. SameDid'
    BY <1>1, <2>1, SaneTypes DEF SameDid, Beyond
  <2>3. CASE hasStorage
    <3>1. call'[c] = [call[c] EXCEPT !.id = identity', !.at = "save"]
      BY <1>4, <2>3, SaneTypes DEF Answered
    <3>2. \A b \in Calls \ {c} : At(b, "idle") /\ Op(b) = "-" /\ call'[b] = call[b]
      BY <1>2, <1>4, <2>3, SaneTypes, OthersIdle DEF Answered
    <3>3. /\ Op(c)' = "rotate" /\ call'[c].id = identity' /\ call'[c].key = call[c].key
          /\ call'[c].at = "save"
      BY <1>4, <3>1, SaneTypes DEF Op, Call
    <3>4. CallOn(c)' /\ (Op(c)' = "-" <=> At(c, "idle")')
      BY <1>1, <2>1, <2>3, <3>3
         DEF CallOn, CreateOn, RotateOn, RevokeOn, LoadOn, At, Op, regVars, Beyond
    <3>5. Home' = Home /\ call'[c].id.did = i.did
      BY <1>1, <2>1, <2>3, <3>3 DEF Home
    <3>6. QED
      BY <1>2, <2>2, <3>2, <3>3, <3>4, <3>5, LocalAlone
  <2>4. CASE ~hasStorage
    <3>1. Ends(c) /\ Home' = [did |-> i.did, key |-> call[c].key]
      BY <1>1, <1>4, <2>1, <2>4 DEF Answered, Home
    <3>2. ASSUME NEW d \in Keys, NEW k \in Keys, Needed(d, k), Home = [did |-> d, key |-> k]
          PROVE  k \in forsaken' \/ Home' = [did |-> d, key |-> k]
      <4>1. i.did = d
        BY <1>1, <2>4, <3>2 DEF Home
      <4>2. QED
        BY <1>1, <2>1, <3>1, <3>2, <4>1 DEF Beyond, Needed
    <3>3. QED
      BY <1>2, <2>2, <3>1, <3>2, EndsAlone
  <2>5. QED
    BY <2>3, <2>4
<1>5. CASE Op(c) = "revoke"
  <2>1. Beyond(i.did, {})
    BY <1>1, <1>5 DEF CallOn, RevokeOn, At
  <2>2. CASE hasStorage
    <3>1. call'[c] = [call[c] EXCEPT !.at = "delete"] /\ identity' = identity
      BY <1>5, <2>2, SaneTypes DEF Answered, Goes
    <3>2. \A b \in Calls \ {c} : At(b, "idle") /\ Op(b) = "-" /\ call'[b] = call[b]
      BY <1>2, <1>5, <2>2, SaneTypes, OthersIdle DEF Answered, Goes
    <3>3. Op(c)' = "revoke" /\ call'[c].id = i /\ call'[c].at = "delete"
      BY <1>5, <3>1, SaneTypes DEF Op, Call
    <3>4. CallOn(c)' /\ (Op(c)' = "-" <=> At(c, "idle")')
      BY <1>1, <2>1, <2>2, <3>1, <3>3
         DEF CallOn, CreateOn, RotateOn, RevokeOn, LoadOn, At, Op, regVars, Beyond
    <3>5. SameDid' /\ Home' = Home
      BY <1>1, <3>1 DEF SameDid, Home, regVars, InFlight
    <3>6. QED
      BY <1>2, <1>5, <3>2, <3>4, <3>5, LocalAlone
  <2>3. CASE ~hasStorage
    <3>1. Ends(c) /\ identity' = None
      BY <1>5, <2>3 DEF Answered
    <3>2. ASSUME NEW d \in Keys, NEW k \in Keys, Needed(d, k), Home = [did |-> d, key |-> k]
          PROVE  k \in forsaken'
      BY <1>1, <2>1, <2>3, <3>2 DEF Home, Beyond, Needed
    <3>3. SameDid'
      BY <1>1, <2>3 DEF SameDid
    <3>4. QED
      BY <1>2, <1>5, <3>1, <3>2, <3>3, EndsAlone
  <2>4. QED
    BY <2>2, <2>3
<1>6. QED
  BY <1>3, <1>4, <1>5 DEF Answered
-----------------------------------------------------------------------------
\* Where no call hears from a step of the registry, the step leaves what the
\* calls know: it writes, and ends, only what none of them waits for.
LEMMA UnheardAlone ==
    ASSUME Sane, UNCHANGED <<hasStorage, identity, stored, drawn, call, forsaken, overwritten>>,
           \A w \in Calls : InFlight(w)' => InFlight(w) /\ req'[w] = req[w],
           \A w \in Calls : At(w, "fetch") /\ InFlight(w) => InFlight(w)' /\ req'[w] = req[w],
           \A d \in Keys : \/ docs'[d] = docs[d]
                          \/ \E w \in Calls : InFlight(w) /\ ~At(w, "fetch") /\ req[w].did = d,
           \A d \in Keys : docs[d] # None => docs'[d] # None,
           \A d \in Keys : docs[d] # None /\ docs'[d] # docs[d] =>
              docs'[d].deactivated \/ docs'[d].key \in forsaken,
           \A w \in Calls : RequestKept(w)', \A d \in Keys : DocKept(d)'
    PROVE  Alone'
<1>1. ASSUME NEW d \in Keys, NEW keys, Beyond(d, keys) PROVE Beyond(d, keys)'
  BY <1>1 DEF Beyond
<1>2. SameDid'
  <2> SUFFICES ASSUME hasStorage, identity # None, stored # None, stored.did # identity.did
               PROVE  /\ docs'[identity.did] = None
                      /\ \A w \in Calls : InFlight(w)' => req'[w].did # identity.did
    BY DEF SameDid
  <2>1. docs[identity.did] = None /\ \A w \in Calls : InFlight(w) => req[w].did # identity.did
    BY DEF SameDid, Sane, Alone
  <2>2. identity.did \in Keys
    BY SaneTypes DEF Identity
  <2>3. QED
    BY <2>1, <2>2
<1>3. ASSUME NEW c \in Calls PROVE CallOn(c)'
  <2> DEFINE i == call[c].id
  <2>1. CallOn(c) /\ (i # None => i.did \in Keys)
    BY SaneTypes DEF Identity
  <2>2. CreateOn(c)'
    <3> SUFFICES ASSUME Op(c) = "create" PROVE CreateOn(c)'
      BY DEF CreateOn, Op
    <3>1. At(c, "ok") => docs'[i.did] = docs[i.did]
      <4> SUFFICES ASSUME At(c, "ok") PROVE docs'[i.did] = docs[i.did]
        OBVIOUS
      <4>1. i # None
        BY SaneTypes DEF Underway, At
      <4>2. \A w \in Calls : ~(InFlight(w) /\ req[w].did = i.did)
        BY <2>1 DEF CallOn, CreateOn, At
      <4>3. QED
        BY <2>1, <4>1, <4>2
    <3>2. QED
      BY <2>1, <3>1 DEF CallOn, CreateOn, At, Op
  <2>3. RotateOn(c)'
    <3>1. Op(c) = "rotate" /\ call[c].at \in {"ok", "save", "saved"} => Beyond(i.did, {call[c].key})'
      BY <1>1, <2>1, SaneTypes DEF CallOn, RotateOn, Underway
    <3>2. QED
      BY <2>1, <3>1 DEF CallOn, RotateOn, At, Op, Beyond
  <2>4. RevokeOn(c)'
    <3>1. Op(c) = "revoke" /\ call[c].at \in {"ok", "delete", "deleted"} => Beyond(i.did, {})'
      BY <1>1, <2>1, SaneTypes DEF CallOn, RevokeOn, Underway
    <3>2. QED
      BY <2>1, <3>1 DEF CallOn, RevokeOn, At, Op, Beyond
  <2>5. LoadOn(c)'
    BY <2>1 DEF CallOn, LoadOn, At, Op
  <2>6. QED
    BY <2>2, <2>3, <2>4, <2>5 DEF CallOn
<1>4. Sole'
  BY DEF Sole, Sane, Alone, At, Op
<1>5. QED
  BY <1>2, <1>3, <1>4 DEF Alone

\* The API dies.
LEMMA ApiRestartAlone ==
    ASSUME Sane, UNCHANGED hasStorage, ApiRestart
    PROVE  Alone'
<1>1. /\ \A w \in Calls : ~InFlight(w)'
      /\ UNCHANGED <<docs, identity, stored, drawn, overwritten>>
  BY DEF ApiRestart, Reg!Restart, InFlight
<1>2. Rests
  BY <1>1 DEF Rests
<1>3. ASSUME NEW c \in Calls, At(c, "fetch") PROVE Alone'
  <2>1. \A b \in Calls : At(b, "fetch") <=> b = c
    BY <1>3, OthersIdle DEF At
  <2>2. \A b \in Calls : call'[b] = IF b = c THEN Idle ELSE call[b]
    BY <2>1 DEF ApiRestart
  <2>3. Ends(c)
    BY <2>2, SaneTypes DEF Ends, ApiRestart
  <2>4. {b \in Calls : At(b, "fetch")} = {c}
    BY <2>1
  <2>5. Rejects(c)
    BY <2>3, <2>4 DEF Rejects, ApiRestart
  <2>6. QED
    BY <1>1, <1>2, <1>3, <2>5, RejectsAlone DEF At
<1>4. ASSUME \A c \in Calls : ~At(c, "fetch") PROVE Alone'
  <2>1. call' = call
    BY <1>4, SaneTypes DEF ApiRestart
  <2>2. {b \in Calls : At(b, "fetch")} = {}
    BY <1>4
  <2>3. forsaken' = forsaken
    BY <2>2 DEF ApiRestart
  <2>4. \A d, k \in Keys : Kept(d, k) => Kept(d, k)'
    BY <1>1, <2>1, <2>3 DEF Kept, Home, Op
  <2>5. (\A w \in Calls : RequestKept(w)') /\ (\A d \in Keys : DocKept(d)')
    BY <1>1, <1>2, <1>4, <2>3, <2>4, LocalKept
  <2>6. QED
    BY <1>1, <1>4, <2>1, <2>3, <2>5, UnheardAlone
<1>5. QED
  BY <1>3, <1>4

\* The app dies.
LEMMA CrashAlone ==
    ASSUME Sane, UNCHANGED hasStorage, Crash
    PROVE  Alone'
<1>1. /\ UNCHANGED <<regVars, hasStorage, stored, drawn, overwritten>>
      /\ identity' = None /\ call' = [c \in Calls |-> Idle]
      /\ forsaken \subseteq forsaken' /\ overwritten \subseteq overwritten'
      /\ \A c \in Calls : Forsakes(c) \subseteq forsaken'
      /\ ~hasStorage /\ identity # None => identity.key \in forsaken'
  BY DEF Crash
<1>2. Rests
  BY <1>1, Resting
<1>3. ASSUME NEW d \in Keys, NEW k \in Keys, Kept(d, k) PROVE Kept(d, k)'
  <2>1. CASE k \in forsaken \cup overwritten
    BY <1>1, <2>1 DEF Kept
  <2>2. CASE Home = [did |-> d, key |-> k]
    <3>1. hasStorage => Home' = Home
      BY <1>1 DEF Home
    <3>2. ~hasStorage => identity # None /\ identity.key = k
      BY <2>2, SaneTypes DEF Home, Identity
    <3>3. QED
      BY <1>1, <2>2, <3>1, <3>2 DEF Kept
  <2>3. ASSUME NEW c \in Calls, Op(c) = "rotate", call[c].id.did = d, call[c].key = k
        PROVE  Kept(d, k)'
    <3>1. CASE At(c, "saved")
      <4>1. hasStorage /\ stored = [did |-> d, key |-> k]
        BY <2>3, <3>1, SaneTypes DEF CallOn, RotateOn, At, Underway, Identity
      <4>2. QED
        BY <1>1, <4>1 DEF Kept, Home
    <3>2. CASE ~At(c, "saved")
      BY <1>1, <2>3, <3>2, SaneTypes DEF Kept, Forsakes
    <3>3. QED
      BY <3>1, <3>2
  <2>4. QED
    BY <1>3, <2>1, <2>2, <2>3 DEF Kept
<1>4. ASSUME NEW w \in Calls, Op(w) = "rotate", At(w, "fetch") PROVE call[w].key \in forsaken'
  BY <1>1, <1>4, SaneTypes DEF Forsakes, Underway, At
<1>5. (\A w \in Calls : RequestKept(w)') /\ (\A d \in Keys : DocKept(d)')
  BY <1>1, <1>2, <1>3, <1>4, LocalKept
<1>6. \A c \in Calls : Op(c)' = "-" /\ At(c, "idle")'
  BY <1>1 DEF Idle, Op, At
<1>7. QED
  BY <1>1, <1>5, <1>6 DEF Alone, Sole, SameDid, CallOn, CreateOn, RotateOn, RevokeOn, LoadOn
-----------------------------------------------------------------------------
\* Hearing from the registry gives no key up but those forsaken.
LEMMA HeardKept ==
    ASSUME Sane, NEW c \in Calls, call[c].at \in {"send", "sign", "fetch"}, Hears(c),
           UNCHANGED <<hasStorage, identity, stored, overwritten>>
    PROVE  /\ forsaken \subseteq forsaken'
           /\ \A d, k \in Keys : Kept(d, k) => Kept(d, k)'
<1>1. /\ forsaken' = forsaken \/ (Ends(c) /\ forsaken' = forsaken \cup Forsakes(c))
      /\ Home' = Home
  BY DEF Hears, Rejects, Home
<1>2. \A b \in Calls \ {c} : call'[b] = call[b] /\ Op(b) = "-"
  BY SaneTypes, OthersIdle DEF Hears, Rejects, Goes, Ends, At
<1>3. \/ call[c].key \in forsaken' \cup {None} \/ Op(c) # "rotate"
      \/ Op(c)' = Op(c) /\ call'[c].id = call[c].id /\ call'[c].key = call[c].key
  BY SaneTypes DEF Hears, Rejects, Goes, Ends, Forsakes, At, Op, Call
<1>4. ASSUME NEW d \in Keys, NEW k \in Keys, Kept(d, k) PROVE Kept(d, k)'
  <2>1. k # None
    BY SaneTypes
  <2>2. \/ k \in forsaken \cup overwritten
        \/ Home = [did |-> d, key |-> k]
        \/ Op(c) = "rotate" /\ call[c].id.did = d /\ call[c].key = k
    BY <1>2, <1>4 DEF Kept
  <2>3. QED
    BY <1>1, <1>3, <2>1, <2>2 DEF Kept, Op
<1>5. QED
  BY <1>1, <1>4

\* What the registry may make of a request as it arrives.
LEMMA Arrives ==
    ASSUME Sane, NEW c \in Calls, NEW r \in Reg!Request,
           \/ r.op = "register" /\ Reg!RegisterCheck(c, r.did, r.key, r.signer)
           \/ r.op # "register" /\ Reg!Authorize(c, r)
    PROVE  /\ ~InFlight(c) /\ UNCHANGED docs
           /\ \A w \in Calls \ {c} : pc'[w] = pc[w] /\ req'[w] = req[w]
           /\ \/ reply' \notin {"-", "200", "201"} /\ ~InFlight(c)'
              \/ /\ reply' = "-" /\ InFlight(c)' /\ req'[c] = r
                 /\ r.op = "register" \/ docs[r.did] # None
<1> USE DEF Sane, Reg!Consistent, Reg!TypeOK, Reg!Answer, Reg!Proceed, Reg!Untouched, InFlight
<1>1. CASE r.op = "register"
  <2>1. r = [op |-> "register", did |-> r.did, key |-> r.key, signer |-> r.signer]
    BY <1>1 DEF Reg!Request
  <2>2. QED
    BY <1>1, <2>1 DEF Reg!RegisterCheck
<1>2. CASE r.op # "register"
  BY <1>2 DEF Reg!Authorize
<1>3. QED
  BY <1>1, <1>2

\* The request of call c.
Request(c) ==
    LET r == call[c] IN
    [op |-> IF Op(c) = "create" THEN "register" ELSE IF Op(c) = "rotate" THEN "update" ELSE "revoke",
     did |-> r.id.did, key |-> IF Op(c) = "rotate" THEN r.key ELSE r.id.key, signer |-> r.id.key]

\* A call sends a request for a DID drawn here, whose key is kept.
LEMMA SendAlone ==
    ASSUME Sane, UNCHANGED hasStorage, NEW c \in Calls, Send(c) \/ SendRevoke(c)
    PROVE  Alone'
<1> DEFINE i == call[c].id
           r == Request(c)
<1>1. /\ UNCHANGED <<identity, stored, drawn, overwritten>> /\ call[c].at \in {"send", "sign"}
      /\ ~At(c, "idle") /\ CallOn(c) /\ SameDid
  BY DEF Send, SendRevoke, At, Sane, Alone
<1>2. /\ Op(c) \in {"create", "rotate", "revoke"} /\ identity = i /\ i \in Identity /\ i # None
      /\ Op(c) = "create" <=> At(c, "send") /\ Op(c) # "rotate"
      /\ Op(c) = "revoke" <=> At(c, "sign")
      /\ Op(c) = "rotate" => call[c].key \in Keys
      /\ i.did \in drawn
  <2>1. /\ Op(c) \in {"create", "rotate", "revoke"} /\ identity = i /\ i \in Identity /\ i # None
        /\ Op(c) = "create" <=> At(c, "send") /\ Op(c) # "rotate"
        /\ Op(c) = "revoke" <=> At(c, "sign")
        /\ Op(c) = "rotate" => call[c].key \in Keys
    BY <1>1, SaneTypes DEF CallOn, CreateOn, RotateOn, RevokeOn, LoadOn, At, Op, Underway
  <2>2. Genuine(i)
    BY <2>1 DEF Sane, ClientOK, Identities
  <2>3. QED
    BY <2>1, <2>2 DEF Genuine
<1>3. r \in Reg!Request
  BY <1>2 DEF Request, Reg!Request, Identity
<1>4. CASE Rejects(c) /\ UNCHANGED regVars
  BY <1>1, <1>4, Resting, RejectsAlone
<1>5. CASE Hears(c) /\ ~(Rejects(c) /\ UNCHANGED regVars)
  <2>1. \/ r.op = "register" /\ Reg!RegisterCheck(c, r.did, r.key, r.signer)
        \/ r.op # "register" /\ Reg!Authorize(c, r)
    BY <1>2, <1>5, SaneTypes
       DEF Send, SendRevoke, Request, Reg!UpdateAuthorize, Reg!RevokeAuthorize, At, CallOn, CreateOn
  <2>2. /\ ~InFlight(c) /\ UNCHANGED docs
        /\ \A w \in Calls \ {c} : pc'[w] = pc[w] /\ req'[w] = req[w]
        /\ \/ reply' \notin {"-", "200", "201"} /\ ~InFlight(c)'
           \/ /\ reply' = "-" /\ InFlight(c)' /\ req'[c] = r
              /\ r.op = "register" \/ docs[r.did] # None
    BY <1>3, <2>1, Arrives
  <2>3. CASE reply' # "-"
    <3>1. Rests
      BY <2>2, <2>3 DEF Rests, InFlight
    <3>2. Rejects(c)
      BY <1>5, <2>2, <2>3 DEF Hears
    <3>3. QED
      BY <1>1, <3>1, <3>2, RejectsAlone
  <2>4. CASE reply' = "-"
    <3>1. UNCHANGED forsaken /\ call' = [call EXCEPT ![c].at = "fetch"]
      BY <1>5, <2>4 DEF Hears, Rejects, Goes
    <3>2. /\ \A b \in Calls \ {c} : At(b, "idle") /\ Op(b) = "-" /\ call'[b] = call[b]
          /\ Op(c)' = Op(c) /\ At(c, "fetch")' /\ call'[c].id = i /\ call'[c].key = call[c].key
      BY <1>1, <3>1, SaneTypes, OthersIdle DEF At, Op, Call
    <3>3. \A d, k \in Keys : Kept(d, k) => Kept(d, k)'
      BY <1>1, <1>5, HeardKept
    <3>4. Op(c) = "create" => i.key = i.did /\ (hasStorage => stored = i)
      BY <1>1, <1>2 DEF CallOn, CreateOn, At
    <3>5. CallOn(c)' /\ (Op(c)' = "-" <=> At(c, "idle")')
      BY <1>1, <1>2, <2>2, <2>4, <3>2, <3>4, SaneTypes
         DEF CallOn, CreateOn, RotateOn, RevokeOn, LoadOn, At, Op, Request, InFlight
    <3>6. SameDid'
      BY <1>1, <1>2, <2>2, <2>4, <3>4 DEF SameDid, Request
    <3>7. RequestKept(c)'
      BY <1>1, <1>2, <2>2, <2>4, <3>2, <3>4 DEF RequestKept, Request, Kept, Home, Identity, Op, At
    <3>8. ASSUME NEW w \in Calls \ {c} PROVE RequestKept(w)'
      BY <1>1, <2>2, <3>1, <3>2, <3>3, SaneTypes DEF RequestKept, Sane, Alone, InFlight, Op, At, Kept
    <3>9. ASSUME NEW d \in Keys PROVE DocKept(d)'
      BY <1>1, <2>2, <3>3, SaneTypes DEF DocKept, Sane, Alone, Kept
    <3>10. QED
      BY <3>2, <3>5, <3>6, <3>7, <3>8, <3>9, Assembled
  <2>5. QED
    BY <2>3, <2>4
<1>6. QED
  BY <1>4, <1>5 DEF Send, SendRevoke
-----------------------------------------------------------------------------
\* What request w has just written: a first document, a key, or the end of its
\* DID.
Wrote(w) ==
    LET r == req[w]
        old == docs[r.did]
        new == docs'[r.did]
    IN
    /\ docs' = [docs EXCEPT ![r.did] = new] /\ new # None
    /\ r.op = "register" => old = None /\ new = [key |-> r.key, deactivated |-> FALSE]
    /\ r.op # "register" => old # None
    /\ r.op = "update" => new.key = r.key
    /\ r.op = "revoke" => new.deactivated

\* A request goes on, ends in vain, or writes and ends.
LEMMA Serves ==
    ASSUME Sane, NEW c \in Calls, Reg!Step(c)
    PROVE  /\ InFlight(c)
           /\ \A w \in Calls \ {c} : pc'[w] = pc[w] /\ req'[w] = req[w]
           /\ \/ UNCHANGED docs /\ InFlight(c)' /\ req'[c] = req[c] /\ reply' = "-"
              \/ UNCHANGED docs /\ ~InFlight(c)' /\ reply' \notin {"-", "200", "201"}
              \/ Wrote(c) /\ ~InFlight(c)' /\ reply' # "-"
<1> USE DEF Reg!Answer, Reg!Proceed, Reg!Untouched, InFlight
<1>1. /\ pc \in [Calls -> {"idle", "create", "resolve", "update"}]
      /\ req \in [Calls -> Reg!Request \cup {None}] /\ docs \in [Keys -> Reg!Document \cup {None}]
      /\ None \notin Reg!Document
  BY NoneAssumption DEF Sane, Reg!Consistent, Reg!TypeOK
<1>2. CASE Reg!ClientResolve(c)
  BY <1>1, <1>2 DEF Reg!ClientResolve
<1>3. ASSUME pc[c] \in {"create", "update"}
      PROVE  /\ req[c] \in Reg!Request /\ req[c].did \in Keys /\ pending[c] \in Reg!Document
             /\ pc[c] = "create" <=> req[c].op = "register"
             /\ req[c].op = "register" => pending[c].key = req[c].key /\ ~pending[c].deactivated
             /\ req[c].op = "update" => pending[c].key = req[c].key
             /\ req[c].op = "revoke" => pending[c].deactivated
  BY <1>1, <1>3 DEF Sane, Reg!Consistent, Reg!InHand, Reg!Prepared, Reg!Request
<1>4. CASE Reg!RegisterCreate(c)
  <2>1. pc[c] = "create"
    BY <1>4 DEF Reg!RegisterCreate
  <2>2. pending[c] = [key |-> req[c].key, deactivated |-> FALSE]
    BY <1>3, <2>1 DEF Reg!Document
  <2>3. Reg!MayInsert(req[c].did) => docs[req[c].did] = None
    BY DEF Reg!MayInsert
  <2>4. QED
    BY <1>1, <1>3, <1>4, <2>1, <2>2, <2>3 DEF Reg!RegisterCreate, Reg!Write, Wrote
<1>5. CASE Reg!StoreUpdate(c)
  <2>1. pc[c] = "update"
    BY <1>5 DEF Reg!StoreUpdate
  <2>2. QED
    BY <1>1, <1>3, <1>5, <2>1 DEF Reg!StoreUpdate, Reg!Write, Wrote
<1>6. QED
  BY <1>2, <1>4, <1>5 DEF Reg!Step

\* What a request writes is kept, and so is what the others may still write.
LEMMA WriteKept ==
    ASSUME Sane, NEW c \in Calls, InFlight(c), Wrote(c), ~InFlight(c)', UNCHANGED drawn,
           \A w \in Calls \ {c} : pc'[w] = pc[w] /\ req'[w] = req[w],
           \A w \in Calls \ {c} : call'[w] = call[w],
           forsaken \subseteq forsaken', overwritten \subseteq overwritten', \A d, k \in Keys : Kept(d, k) => Kept(d, k)'
    PROVE  /\ \A w \in Calls : RequestKept(w)'
           /\ \A d \in Keys : DocKept(d)'
<1>1. /\ req[c].did \in Keys /\ req[c].key \in Keys /\ req[c] \in Reg!Request
      /\ docs \in [Keys -> Reg!Document \cup {None}]
  BY SaneTypes
<1>2. \A d \in Keys : d # req[c].did => docs'[d] = docs[d]
  BY <1>1 DEF Wrote
<1>3. ASSUME NEW w \in Calls PROVE RequestKept(w)'
  <2>1. CASE w = c
    BY <2>1 DEF RequestKept
  <2>2. CASE w # c
    <3>1. RequestKept(w) /\ (InFlight(w) => req[w].did \in Keys)
      BY SaneTypes DEF Sane, Alone
    <3>2. InFlight(w) /\ docs'[req[w].did] = None => docs[req[w].did] = None
      BY <1>2, <3>1 DEF Wrote
    <3>3. ASSUME InFlight(w), req[w].op = "register", docs'[req[w].did] = None
          PROVE  Kept(req[w].did, req[w].did)'
      <4>1. PICK k \in Keys : k = req[w].did
        BY <3>1, <3>3
      <4>2. Kept(k, k)'
        BY <3>1, <3>2, <3>3, <4>1 DEF RequestKept
      <4>3. QED
        BY <2>2, <4>1, <4>2 DEF Kept
    <3>4. QED
      BY <2>2, <3>1, <3>3 DEF RequestKept, InFlight, Op, At
  <2>3. QED
    BY <2>1, <2>2
<1>4. ASSUME NEW d \in Keys PROVE DocKept(d)'
  <2>1. CASE d # req[c].did
    <3>1. docs[d] # None => docs[d].key \in Keys
      BY SaneTypes
    <3>2. ASSUME docs[d] # None, ~docs[d].deactivated
          PROVE  Kept(d, docs[d].key)'
      <4>1. PICK k \in Keys : k = docs[d].key
        BY <3>1, <3>2
      <4>2. Kept(d, k)'
        BY <3>2, <4>1 DEF DocKept, Sane, Alone
      <4>3. QED
        BY <1>2, <2>1, <4>1, <4>2 DEF Kept
    <3>3. QED
      BY <1>2, <2>1, <3>2 DEF DocKept, Sane, Alone
  <2>2. CASE d = req[c].did
    <3>1. RequestKept(c) /\ d \in drawn
      BY <2>2 DEF Sane, Alone, RequestKept
    <3>2. req[c].op \in {"register", "revoke", "update"}
      BY <1>1 DEF Reg!Request
    <3>3. PICK k \in Keys : k = req[c].key
      BY <1>1
    <3>4. req[c].op # "revoke" => Kept(d, k)
      <4>1. CASE req[c].op = "register"
        BY <2>2, <3>1, <3>3, <4>1 DEF RequestKept, Wrote
      <4>2. CASE req[c].op = "update"
        BY <2>2, <3>1, <3>3, <4>2, SaneTypes DEF RequestKept, Kept, Underway, At, Op
      <4>3. QED
        BY <3>2, <4>1, <4>2
    <3>5. req[c].op # "revoke" => docs'[d].key = k /\ Kept(d, k)'
      BY <2>2, <3>2, <3>3, <3>4 DEF Wrote
    <3>6. QED
      BY <2>2, <3>1, <3>2, <3>5 DEF DocKept, Wrote, Kept
  <2>3. QED
    BY <2>1, <2>2
<1>5. QED
  BY <1>3, <1>4

\* The registry goes on with a request, heard by its call or given up by it.
LEMMA ServerAlone ==
    ASSUME Sane, UNCHANGED hasStorage, NEW c \in Calls, ServerStep(c)
    PROVE  Alone'
<1> DEFINE i == call[c].id
<1>1. /\ UNCHANGED <<identity, stored, drawn, overwritten>>
      /\ (At(c, "fetch") /\ Hears(c)) \/ (~At(c, "fetch") /\ UNCHANGED <<call, forsaken>>)
      /\ CallOn(c) /\ SameDid
  BY DEF ServerStep, Sane, Alone
<1>2. /\ InFlight(c)
      /\ \A w \in Calls \ {c} : pc'[w] = pc[w] /\ req'[w] = req[w]
      /\ \/ UNCHANGED docs /\ InFlight(c)' /\ req'[c] = req[c] /\ reply' = "-"
         \/ UNCHANGED docs /\ ~InFlight(c)' /\ reply' \notin {"-", "200", "201"}
         \/ Wrote(c) /\ ~InFlight(c)' /\ reply' # "-"
  BY Serves DEF ServerStep
<1>3. forsaken \subseteq forsaken' /\ overwritten \subseteq overwritten' /\ \A d, k \in Keys : Kept(d, k) => Kept(d, k)'
  <2>1. CASE Hears(c) /\ At(c, "fetch")
    BY <1>1, <2>1, HeardKept DEF At
  <2>2. CASE UNCHANGED <<call, forsaken>>
    BY <1>1, <2>2 DEF Kept, Home, Op
  <2>3. QED
    BY <1>1, <2>1, <2>2
<1>4. /\ \A w \in Calls \ {c} : call'[w] = call[w]
      /\ At(c, "fetch") => \A w \in Calls \ {c} : At(w, "idle") /\ Op(w) = "-"
  BY <1>1, SaneTypes, OthersIdle DEF Hears, Rejects, Goes, Ends, At
<1>5. CASE UNCHANGED docs /\ ~(Wrote(c) /\ ~InFlight(c)' /\ reply' # "-")
  <2>1. Rests
    BY <1>2, <1>5 DEF Rests, InFlight
  <2>2. CASE At(c, "fetch") /\ Rejects(c)
    BY <1>1, <2>1, <2>2, RejectsAlone DEF At
  <2>3. CASE UNCHANGED <<call, forsaken>> /\ (At(c, "fetch") => InFlight(c)' /\ req'[c] = req[c])
    <3>1. (\A w \in Calls : RequestKept(w)') /\ (\A d \in Keys : DocKept(d)')
      BY <1>1, <1>3, <2>1, <2>3, LocalKept
    <3>2. \A w \in Calls : At(w, "fetch") /\ InFlight(w) => InFlight(w)' /\ req'[w] = req[w]
      BY <1>2, <2>3 DEF InFlight
    <3>3. QED
      BY <1>1, <1>5, <2>1, <2>3, <3>1, <3>2, UnheardAlone DEF Rests
  <2>4. ASSUME At(c, "fetch"), ~Rejects(c), reply' = "-" PROVE UNCHANGED <<call, forsaken>>
    <3>1. call \in [Calls -> Call] /\ call[c] \in Call /\ call[c].at = "fetch"
      BY <2>4, SaneTypes DEF At
    <3>2. [call[c] EXCEPT !.at = "fetch"] = call[c]
      BY <3>1 DEF Call
    <3>3. call' = [call EXCEPT ![c] = [call[c] EXCEPT !.at = "fetch"]] /\ forsaken' = forsaken
      BY <1>1, <2>4 DEF Hears, Goes
    <3>4. call' = call
      BY <3>1, <3>2, <3>3
    <3>5. QED
      BY <3>3, <3>4
  <2>5. QED
    BY <1>1, <1>2, <1>5, <2>2, <2>3, <2>4 DEF Hears
<1>6. CASE Wrote(c) /\ ~InFlight(c)' /\ reply' # "-"
  <2>1. (\A w \in Calls : RequestKept(w)') /\ (\A d \in Keys : DocKept(d)')
    BY <1>1, <1>2, <1>3, <1>4, <1>6, WriteKept
  <2>2. /\ req[c].did \in Keys /\ req[c].op \in {"register", "revoke", "update"}
        /\ docs \in [Keys -> Reg!Document \cup {None}]
    BY <1>2, SaneTypes DEF Reg!Request
  <2>3. CASE ~At(c, "fetch")
    <3>1. \A d \in Keys : d # req[c].did => docs'[d] = docs[d]
      BY <1>6, <2>2 DEF Wrote
    <3>2. docs[req[c].did] # None =>
             docs'[req[c].did].deactivated \/ docs'[req[c].did].key \in forsaken
      BY <1>2, <1>6, <2>2, <2>3 DEF Wrote, RequestKept, Sane, Alone
    <3>3. \A w \in Calls : InFlight(w)' => InFlight(w) /\ req'[w] = req[w]
      BY <1>2, <1>6 DEF InFlight
    <3>4. \A w \in Calls : At(w, "fetch") /\ InFlight(w) => InFlight(w)' /\ req'[w] = req[w]
      BY <1>2, <2>3 DEF InFlight
    <3>5. docs'[req[c].did] # None
      BY <1>6 DEF Wrote
    <3>6. QED
      BY <1>1, <1>2, <2>1, <2>3, <3>1, <3>2, <3>3, <3>4, <3>5, UnheardAlone
  <2>4. CASE At(c, "fetch")
    <3>1. Op(c) \in {"create", "rotate", "revoke"} /\ identity = i /\ i \in Identity /\ req[c].did = i.did
      BY <1>1, <2>4, SaneTypes DEF CallOn, CreateOn, RotateOn, RevokeOn, LoadOn, At, Underway
    <3>2. SameDid'
      BY <1>1, <1>2, <1>6, <2>2, <3>1 DEF SameDid, Wrote
    <3>3. CallOn(c)' /\ (Op(c)' = "-" <=> At(c, "idle")')
      <4>1. CASE Ends(c)
        <5>1. call'[c] = Idle
          BY <4>1, SaneTypes DEF Ends
        <5>2. QED
          BY <5>1 DEF CallOn, CreateOn, RotateOn, RevokeOn, LoadOn, At, Op, Idle
      <4>2. CASE Goes(c, "ok")
        <5>1. /\ Op(c)' = Op(c) /\ At(c, "ok")' /\ call'[c].id = i /\ call'[c].key = call[c].key
              /\ call'[c].at = "ok"
          BY <4>2, SaneTypes DEF Goes, Op, At, Call
        <5>2. CreateOn(c)'
          <6> SUFFICES ASSUME Op(c) = "create" PROVE CreateOn(c)'
            BY <5>1 DEF CreateOn
          <6>1. /\ req[c].op = "register" /\ i.key = i.did /\ (hasStorage => stored = i)
                /\ \A w \in Calls : InFlight(w) /\ req[w].did = i.did => w = c
            BY <1>1, <2>4 DEF CallOn, CreateOn, At
          <6>2. req[c].key = i.key
            BY <1>2, <3>1, <6>1 DEF RequestKept, Sane, Alone
          <6>3. docs'[i.did] = [key |-> i.key, deactivated |-> FALSE]
            BY <1>6, <3>1, <6>1, <6>2 DEF Wrote
          <6>4. \A w \in Calls : ~(InFlight(w) /\ req[w].did = i.did)'
            BY <1>2, <1>6, <5>1, <6>1 DEF InFlight
          <6>5. QED
            BY <1>1, <3>1, <5>1, <6>1, <6>3, <6>4 DEF CreateOn, At
        <5>3. RotateOn(c)'
          <6>1. Op(c) = "rotate" => req[c].op = "update" /\ req[c].key = call[c].key
            BY <2>4, SaneTypes DEF Underway
          <6>2. QED
            BY <1>1, <1>6, <3>1, <5>1, <6>1 DEF RotateOn, Wrote, Beyond, At
        <5>4. RevokeOn(c)'
          <6>1. Op(c) = "revoke" => req[c].op = "revoke"
            BY <1>1, <2>4 DEF CallOn, RevokeOn
          <6>2. QED
            BY <1>1, <1>6, <3>1, <5>1, <6>1 DEF RevokeOn, Wrote, Beyond, At
        <5>5. QED
          BY <3>1, <5>1, <5>2, <5>3, <5>4 DEF CallOn, LoadOn, At
      <4>3. QED
        BY <1>1, <1>6, <2>4, <4>1, <4>2 DEF Hears, Rejects
    <3>4. QED
      BY <1>4, <2>1, <2>4, <3>2, <3>3, Assembled
  <2>5. QED
    BY <2>3, <2>4
<1>7. QED
  BY <1>2, <1>5, <1>6
-----------------------------------------------------------------------------
LEMMA AloneAtFirst == Init => Alone
<1> SUFFICES ASSUME Init PROVE Alone
  OBVIOUS
<1>1. /\ \A d \in Keys : docs[d] = None
      /\ \A w \in Calls : ~InFlight(w) /\ Op(w) = "-" /\ At(w, "idle")
      /\ identity = None
  BY DEF Init, Reg!Init, InFlight, Idle, Op, At
<1>2. QED
  BY <1>1 DEF Alone, Sole, SameDid, DocKept, RequestKept, CallOn, CreateOn, RotateOn, RevokeOn, LoadOn

LEMMA StaysAlone ==
    ASSUME Consistent, ~overlapped => Alone, [Next]_vars, ~overlapped'
    PROVE  Sane /\ Alone'
<1>1. ~overlapped
  BY DEF Next, Act, vars, local, CreateIdentity, LoadIdentity, RotateIdentityKey, RevokeIdentity, Begins,
         Generated, Save, Saved, Delete, Deleted, Load, Loaded, StorageFails, FetchFails, Answered,
         Send, SendRevoke, ServerStep, Crash, ApiRestart, Consistent, TypeOK
<1>2. Sane
  BY <1>1 DEF Sane, Consistent, ClientOK, Identities
<1>3. CASE UNCHANGED vars
  <2>1. /\ UNCHANGED <<hasStorage, identity, stored, drawn, call, forsaken, overwritten>>
        /\ UNCHANGED docs /\ UNCHANGED pc /\ UNCHANGED req
    BY <1>3 DEF vars, local, regVars
  <2>2. Rests /\ \A w \in Calls : InFlight(w) => InFlight(w)' /\ req'[w] = req[w]
    BY <2>1 DEF Rests, InFlight
  <2>3. \A d, k \in Keys : Kept(d, k) => Kept(d, k)'
    BY <2>1 DEF Kept, Home, Op
  <2>4. (\A w \in Calls : RequestKept(w)') /\ (\A d \in Keys : DocKept(d)')
    BY <1>2, <2>1, <2>2, <2>3, LocalKept
  <2>5. QED
    BY <1>2, <2>1, <2>2, <2>4, UnheardAlone DEF Rests
<1>4. ASSUME NEW c \in Calls, UNCHANGED hasStorage, LocalStep(c) PROVE Alone'
  BY <1>2, <1>4, BeginsAlone, GeneratedAlone, SaveAlone, SavedAlone, DeleteAlone, ForgottenAlone,
     LoadAlone, FailsAlone, AnsweredAlone DEF LocalStep
<1>5. ASSUME NEW c \in Calls, UNCHANGED hasStorage, Send(c) \/ SendRevoke(c) \/ ServerStep(c)
      PROVE  Alone'
  BY <1>2, <1>5, SendAlone, ServerAlone
<1>6. ASSUME UNCHANGED hasStorage, Crash \/ ApiRestart PROVE Alone'
  BY <1>2, <1>6, CrashAlone, ApiRestartAlone
<1>7. QED
  BY <1>2, <1>3, <1>4, <1>5, <1>6 DEF Next, Act, LocalStep

LEMMA AlwaysAlone == Spec => [](~overlapped => Alone)
<1>1. Init => (~overlapped => Alone)
  BY AloneAtFirst
<1>2. Consistent /\ (~overlapped => Alone) /\ [Next]_vars => (~overlapped => Alone)'
  BY StaysAlone
<1>3. QED
  BY <1>1, <1>2, ClientsStayConsistent, PTL DEF Spec

LEMMA SaneAlways == Consistent /\ (~overlapped => Alone) => (~overlapped => Sane)
  BY DEF Sane, Consistent, ClientOK, Identities

\* However calls fail and whoever dies, a client whose calls do not overlap
\* keeps the key of every active DID it drew, but for the keys a failure or a
\* crash gave up and those a createIdentity stored its own over
\* (index.ts:87-109, 184-220).
THEOREM KeysStayAtHand == Spec => []KeyAtHand
<1>1. Consistent /\ (~overlapped => Alone) => KeyAtHand
  BY SaneAlways, AloneSuffices DEF KeyAtHand
<1>2. QED
  BY <1>1, ClientsStayConsistent, AlwaysAlone, PTL

\* What createIdentity returns is registered (index.ts:93-110).
THEOREM CreatedStaysRegistered == Spec => []CreatedIsRegistered
<1>1. Consistent /\ (~overlapped => Alone) => CreatedIsRegistered
  BY SaneAlways, AloneSuffices DEF CreatedIsRegistered
<1>2. QED
  BY <1>1, ClientsStayConsistent, AlwaysAlone, PTL

\* Of the steps, storage.delete alone empties the storage.
LEMMA OnlyDeleteEmpties ==
    ASSUME Sane, [Next]_vars, stored # None, stored' = None
    PROVE  \E c \in Calls : Delete(c)
<1>1. ASSUME NEW c \in Calls, Save(c) PROVE FALSE
  BY <1>1, SaneTypes DEF Save, Underway, At
<1>2. QED
  BY <1>1 DEF Next, Act, vars, local, CreateIdentity, LoadIdentity, RotateIdentityKey, RevokeIdentity,
         Begins, Generated, Saved, Deleted, Load, Loaded, StorageFails, FetchFails, Answered,
         Send, SendRevoke, ServerStep, Crash, ApiRestart

\* revokeIdentity empties the storage only of what is revoked
\* (index.ts:223-245).
THEOREM DeletedStaysRevoked == Spec => DeletedIsRevoked
<1>1. ASSUME Sane, NEW c \in Calls, Delete(c), stored # None
      PROVE  LET doc == docs[stored.did] IN
             doc # None /\ (doc.deactivated \/ doc.key \in forsaken)
  <2> DEFINE i == call[c].id
  <2>1. /\ Op(c) = "revoke" /\ hasStorage /\ identity = i /\ i # None /\ Beyond(i.did, {})
    BY <1>1, SaneTypes
       DEF Delete, CallOn, CreateOn, RotateOn, RevokeOn, LoadOn, At, Op, Underway
  <2>2. stored.did = i.did
    BY <1>1, <2>1 DEF Sane, Alone, SameDid, Beyond
  <2>3. QED
    BY <2>1, <2>2 DEF Beyond
<1>2. ASSUME Consistent, ~overlapped => Alone, [Next]_vars, ~overlapped, stored # None, stored' = None
      PROVE  LET doc == docs[stored.did] IN
             doc # None /\ (doc.deactivated \/ doc.key \in forsaken)
  BY <1>1, <1>2, SaneAlways, OnlyDeleteEmpties
<1>3. Consistent /\ (~overlapped => Alone) /\ [Next]_vars =>
        [~overlapped /\ stored # None /\ stored' = None =>
           LET doc == docs[stored.did] IN
           doc # None /\ (doc.deactivated \/ doc.key \in forsaken)]_vars
  BY <1>2
<1>4. QED
  BY <1>3, ClientsStayConsistent, AlwaysAlone, PTL DEF Spec, DeletedIsRevoked
=============================================================================
