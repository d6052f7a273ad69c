----------------------------- MODULE UddiClient -----------------------------
(***************************************************************************)
(* UddiClient of packages/sdk/src/index.ts against the DID registry it     *)
(* talks to: one client object, the app's storage, the network between,    *)
(* and DidRegistry, whose worker c serves the request of call c.           *)
(*                                                                         *)
(* Each method is a sequence of awaits; an app that does not await one     *)
(* call before the next makes them interleave there, around one            *)
(* `this.identity`.  A request or its answer can be lost, storage can      *)
(* fail, and the app or the API can die; the registry goes on with what it *)
(* received (with Postgres, but for the statements that outlive their      *)
(* request: DidRegistry's own runs have those).  A DID is derived from the *)
(* first key of its identity and named by it.                              *)
(***************************************************************************)
EXTENDS Naturals

CONSTANTS
    Keys,       \* what generateIdentity draws
    Calls,      \* calls of the client that may be under way at once
    None

Identity == [did : Keys, key : Keys]
Call == [op : {"-", "create", "load", "rotate", "revoke"},
         at : {"idle", "generate", "save", "saved", "send", "sign", "fetch", "ok",
               "delete", "deleted", "load", "loaded"},
         id : Identity \cup {None}, key : Keys \cup {None}]

VARIABLES
    docs, pc, req, pending, detached, reply, acked, held,   \* see DidRegistry
    hasStorage, \* whether the app configured a storage
    identity,   \* Identity \cup {None}: this.identity
    stored,     \* Identity \cup {None}: what the storage holds
    call,       \* [Calls -> Call]: the calls under way
    drawn,      \* SUBSET Keys
    forsaken,   \* SUBSET Keys: keys given up by a call that failed, or by a crash
    overwritten,\* SUBSET Keys: stored keys that a createIdentity stored its own over
    overlapped  \* a call was begun before another had ended

regVars == <<docs, pc, req, pending, detached, reply, acked, held>>
local == <<identity, stored, drawn, forsaken, overwritten, overlapped>>
vars == <<regVars, hasStorage, local, call>>

Reg == INSTANCE DidRegistry WITH DIDs <- Keys, Workers <- Calls, backend <- "postgres",
                                 MaxDetached <- 0, Absent <- None

\* None is apart from every identity, key, document and request.
ASSUME NoneAssumption == None \notin Identity \cup Keys \cup Reg!Document \cup Reg!Request

Idle == [op |-> "-", at |-> "idle", id |-> None, key |-> None]

Init == /\ Reg!Init
        /\ hasStorage \in BOOLEAN
        /\ identity = None /\ stored = None
        /\ call = [c \in Calls |-> Idle]
        /\ drawn = {} /\ forsaken = {} /\ overwritten = {}
        /\ overlapped = FALSE

Op(c) == call[c].op
At(c, point) == call[c].at = point
Goes(c, point) == call' = [call EXCEPT ![c].at = point]

Ends(c) == call' = [call EXCEPT ![c] = Idle]

\* What is given up when call c fails, or dies: a new key that is not stored.
Forsakes(c) == IF Op(c) = "rotate" /\ ~At(c, "saved") THEN {call[c].key} \ {None} ELSE {}

\* The promise of call c is rejected.
Rejects(c) == Ends(c) /\ forsaken' = forsaken \cup Forsakes(c)

-----------------------------------------------------------------------------
(* The methods, up to their first await. *)

\* A call waits until the last request of its worker is over.
Begins(c, op, point, id) ==
    /\ At(c, "idle") /\ pc[c] = "idle"
    /\ call' = [call EXCEPT ![c] = [op |-> op, at |-> point, id |-> id, key |-> None]]
    /\ overlapped' = (overlapped \/ \E b \in Calls : ~At(b, "idle"))
    /\ UNCHANGED <<regVars, identity, stored, drawn, forsaken, overwritten>>

CreateIdentity(c) == identity = None /\ Begins(c, "create", "generate", None)
LoadIdentity(c) == hasStorage /\ Begins(c, "load", "load", None)
RotateIdentityKey(c) == identity # None /\ Begins(c, "rotate", "generate", identity)
RevokeIdentity(c) == identity # None /\ Begins(c, "revoke", "sign", identity)

-----------------------------------------------------------------------------
(* What follows each await. *)

\* generateIdentity is done.
Generated(c, k) ==
    /\ At(c, "generate") /\ k \notin drawn
    /\ drawn' = drawn \cup {k}
    /\ \/ /\ Op(c) = "create"
          /\ identity' = [did |-> k, key |-> k]
          /\ call' = [call EXCEPT ![c].id = identity', ![c].at = IF hasStorage THEN "save" ELSE "send"]
       \/ /\ Op(c) = "rotate"
          /\ call' = [call EXCEPT ![c].key = k, ![c].at = "send"]
          /\ UNCHANGED identity
    /\ UNCHANGED <<regVars, stored, forsaken, overwritten, overlapped>>

\* storage.save: createIdentity has not looked whether another identity is
\* stored there, only whether this.identity is set; ...
Save(c) ==
    /\ At(c, "save")
    /\ stored' = call[c].id
    /\ overwritten' = overwritten \cup
           (IF Op(c) = "create" /\ stored # None THEN {stored.key} ELSE {})
    /\ Goes(c, "saved")
    /\ UNCHANGED <<regVars, identity, drawn, forsaken, overlapped>>

\* ... after which createIdentity goes on with whatever this.identity is.
Saved(c) ==
    /\ At(c, "saved")
    /\ IF Op(c) = "rotate" \/ identity = None THEN Ends(c)
       ELSE call' = [call EXCEPT ![c].id = identity, ![c].at = "send"]
    /\ UNCHANGED <<regVars, local>>

\* storage.delete ...
Delete(c) ==
    /\ At(c, "delete")
    /\ stored' = None
    /\ Goes(c, "deleted")
    /\ UNCHANGED <<regVars, identity, drawn, forsaken, overwritten, overlapped>>

\* ... after which revokeIdentity forgets the identity.
Deleted(c) ==
    /\ At(c, "deleted")
    /\ identity' = None
    /\ Ends(c)
    /\ UNCHANGED <<regVars, stored, drawn, forsaken, overwritten, overlapped>>

\* storage.load reads ...
Load(c) ==
    /\ At(c, "load")
    /\ call' = [call EXCEPT ![c].id = stored, ![c].at = "loaded"]
    /\ UNCHANGED <<regVars, local>>

\* ... and loadIdentity takes what was read.
Loaded(c) ==
    /\ At(c, "loaded")
    /\ identity' = call[c].id
    /\ Ends(c)
    /\ UNCHANGED <<regVars, stored, drawn, forsaken, overwritten, overlapped>>

\* Storage fails, or seems to.
StorageFails(c) ==
    /\ call[c].at \in {"save", "saved", "delete", "deleted", "load", "loaded"}
    /\ Rejects(c)
    /\ UNCHANGED <<regVars, identity, stored, drawn, overwritten, overlapped>>

\* Mutant: post and put do not look at res.ok.
HearsAnything(c) ==
    /\ Goes(c, IF reply' = "-" THEN "fetch" ELSE "ok")
    /\ UNCHANGED forsaken

\* The response of call c's request, if this step of the registry gave one.
Hears(c) ==
    \/ reply' = "-" /\ Goes(c, "fetch") /\ UNCHANGED forsaken
    \/ reply' \in {"200", "201"} /\ Goes(c, "ok") /\ UNCHANGED forsaken
    \/ reply' \notin {"-", "200", "201"} /\ Rejects(c)

\* The request reaches the API, now or (FetchFails) never.
Send(c) ==
    LET r == call[c] IN
    /\ At(c, "send")
    /\ \/ Op(c) = "create" /\ Reg!RegisterCheck(c, r.id.did, r.id.key, r.id.key)
       \/ Op(c) = "rotate" /\ Reg!UpdateAuthorize(c, r.id.did, r.key, r.id.key)
    /\ Hears(c)
    /\ UNCHANGED <<identity, stored, drawn, overwritten, overlapped>>

\* revokeIdentity has signed for one DID and sends this.identity's.
SendRevoke(c) ==
    LET signed == call[c].id
        sameDid == identity # None /\ identity.did = signed.did
    IN
    /\ At(c, "sign")
    /\ \/ /\ sameDid
          /\ Reg!RevokeAuthorize(c, signed.did, signed.key)
          /\ Hears(c)
       \/ ~sameDid /\ Rejects(c) /\ UNCHANGED regVars
    /\ UNCHANGED <<identity, stored, drawn, overwritten, overlapped>>

\* The API goes on with a request, whether or not its call still waits.
ServerStep(c) ==
    /\ Reg!Step(c)
    /\ \/ At(c, "fetch") /\ Hears(c)
       \/ ~At(c, "fetch") /\ UNCHANGED <<call, forsaken>>
    /\ UNCHANGED <<identity, stored, drawn, overwritten, overlapped>>

\* fetch fails: the request, or the answer, is lost.
FetchFails(c) ==
    /\ call[c].at \in {"send", "sign", "fetch", "ok"}
    /\ Rejects(c)
    /\ UNCHANGED <<regVars, identity, stored, drawn, overwritten, overlapped>>

\* Mutant: the rotated identity keeps the old key.
RotatedStale(c) == call[c].id

Rotated(c) == [did |-> call[c].id.did, key |-> call[c].key]

\* The answer was good.
Answered(c) ==
    /\ At(c, "ok")
    /\ \/ Op(c) = "create" /\ Ends(c) /\ UNCHANGED identity
       \/ /\ Op(c) = "rotate"
          /\ identity' = Rotated(c)
          /\ IF hasStorage THEN call' = [call EXCEPT ![c].id = identity', ![c].at = "save"] ELSE Ends(c)
       \/ /\ Op(c) = "revoke"
          /\ IF hasStorage THEN Goes(c, "delete") /\ UNCHANGED identity
                           ELSE Ends(c) /\ identity' = None
    /\ UNCHANGED <<regVars, stored, drawn, forsaken, overwritten, overlapped>>

\* The app dies, with all it has in memory.
Crash ==
    /\ identity # None \/ \E c \in Calls : ~At(c, "idle")
    /\ identity' = None
    /\ call' = [c \in Calls |-> Idle]
    /\ forsaken' = forsaken \cup (UNION {Forsakes(c) : c \in Calls})
                   \cup (IF hasStorage \/ identity = None THEN {} ELSE {identity.key})
    /\ UNCHANGED <<regVars, stored, drawn, overwritten, overlapped>>

\* The API dies: every call that waits for it fails.
ApiRestart ==
    /\ Reg!Restart
    /\ call' = [c \in Calls |-> IF At(c, "fetch") THEN Idle ELSE call[c]]
    /\ forsaken' = forsaken \cup UNION {Forsakes(c) : c \in {b \in Calls : At(b, "fetch")}}
    /\ UNCHANGED <<identity, stored, drawn, overwritten, overlapped>>

Act == \/ \E c \in Calls :
            \/ CreateIdentity(c) \/ LoadIdentity(c) \/ RotateIdentityKey(c) \/ RevokeIdentity(c)
            \/ \E k \in Keys : Generated(c, k)
            \/ Save(c) \/ Saved(c) \/ Delete(c) \/ Deleted(c) \/ Load(c) \/ Loaded(c)
            \/ StorageFails(c)
            \/ Send(c) \/ SendRevoke(c) \/ ServerStep(c) \/ FetchFails(c) \/ Answered(c)
       \/ Crash
       \/ ApiRestart

Next == Act /\ UNCHANGED hasStorage

Spec == Init /\ [][Next]_vars

-----------------------------------------------------------------------------
(* Properties. *)

TypeOK == /\ identity \in Identity \cup {None} /\ stored \in Identity \cup {None}
          /\ call \in [Calls -> Call]
          /\ drawn \subseteq Keys /\ forsaken \subseteq drawn /\ overwritten \subseteq drawn
          /\ hasStorage \in BOOLEAN /\ overlapped \in BOOLEAN

\* An identity of keys drawn here that is its own first one, or has a key the
\* registry has had.
Genuine(i) == {i.did, i.key} \subseteq drawn /\ (i.key = i.did \/ i.key \in held[i.did])

\* What call c still has to do, and may.
Underway(c) ==
    /\ Op(c) \in {"rotate", "revoke"} \/ call[c].at \in {"save", "send", "sign", "fetch", "ok"} =>
         call[c].id # None
    /\ call[c].key \in drawn \cup {None}
    /\ Op(c) = "rotate" =>
         /\ ~At(c, "generate") => call[c].key # None
         /\ At(c, "fetch") => /\ pc[c] # "idle" /\ req[c].op = "update"
                             /\ req[c].did = call[c].id.did /\ req[c].key = call[c].key
         /\ At(c, "ok") => call[c].key \in held[call[c].id.did]
    /\ At(c, "sign") => Op(c) = "revoke"
    /\ At(c, "load") \/ At(c, "loaded") => Op(c) = "load"

\* sdk/README.md:71: the SDK "only stores the new key pair after the API
\* accepts the update": whatever overlaps, fails or answers late, an identity
\* in memory, in storage or with a call has its first key or one the registry
\* has had for its DID, and the registry stays consistent under such clients.
Consistent ==
    /\ Reg!Consistent /\ TypeOK
    /\ \A i \in {identity, stored} \cup {call[c].id : c \in Calls} : i # None => Genuine(i)
    /\ \A c \in Calls : Underway(c)

\* The key the registry has for an active DID is at hand, in memory, in storage
\* or with a call under way, unless calls overlapped: only two things part a
\* client from it, a failure or a crash that gave the key up (forsaken), and a
\* createIdentity over the stored identity (overwritten), which an app that has
\* not loaded its identity first gets without an error (index.ts:94).
KeyAtHand ==
    ~overlapped => \A d \in drawn : docs[d] # None /\ ~docs[d].deactivated =>
       \/ docs[d].key \in forsaken
       \/ docs[d].key \in overwritten
       \/ [did |-> d, key |-> docs[d].key] \in {identity, stored}
       \/ \E c \in Calls : Op(c) = "rotate" /\ call[c].id.did = d /\ call[c].key = docs[d].key

\* storage is emptied only of a DID that is deactivated, or was until an
\* earlier, given up rotation overwrote that, unless calls overlapped.
DeletedIsRevoked ==
    [][~overlapped /\ stored # None /\ stored' = None =>
         LET doc == docs[stored.did] IN
         doc # None /\ (doc.deactivated \/ doc.key \in forsaken)]_vars

\* The DID createIdentity is about to return is registered and active with the
\* key the client holds, whatever failed before, unless calls overlapped.
CreatedIsRegistered ==
    ~overlapped => \A c \in Calls : Op(c) = "create" /\ At(c, "ok") =>
       /\ identity = call[c].id
       /\ docs[identity.did] = [key |-> identity.key, deactivated |-> FALSE]
=============================================================================
