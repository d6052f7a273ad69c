---------------------------- MODULE DidRegistry ----------------------------
(***************************************************************************)
(* The DID registry: the handlers of handlers/did.go, the client of        *)
(* blockchain/client.go and its two stores (store.go, postgres_store.go),  *)
(* run by concurrent request goroutines.                                   *)
(*                                                                         *)
(* A store call is atomic (one RWMutex section, or one SQL statement); a   *)
(* request makes several, so requests interleave between them:             *)
(*    register        Exists ----------------> Create                      *)
(*    revoke, update  Resolve --> Resolve ---> Update                      *)
(* A worker's pc names the store call it is about to make.  With Postgres  *)
(* any call can fail; a statement whose connection or context is lost is   *)
(* reported as failed, and may have run, not run, or run later (detached). *)
(*                                                                         *)
(* Requests are well formed: what answers 400 before any store call is     *)
(* left out.  A document is its key and its deactivated flag.              *)
(***************************************************************************)
EXTENDS Naturals, FiniteSets

CONSTANTS
    DIDs,           \* identifiers
    Keys,           \* Ed25519 public keys
    Workers,        \* goroutines serving requests
    MaxDetached,    \* bound: statements running after their request failed
    Absent          \* what Resolve finds for a DID that is not registered

Document == [key : Keys, deactivated : BOOLEAN]
Request  == [op : {"register", "revoke", "update"}, did : DIDs, key : Keys, signer : Keys]
Statement == [req : Request, doc : Document]

ASSUME AbsentAssumption == Absent \notin Document /\ Absent \notin Request /\ Absent \notin Keys

VARIABLES
    backend,    \* "memory" or "postgres": the configuration
    docs,       \* [DIDs -> Document \cup {Absent}]: the store
    pc,         \* [Workers -> {"idle", "create", "resolve", "update"}]
    req,        \* [Workers -> Request \cup {Absent}]: the request in hand
    pending,    \* [Workers -> Document \cup {Absent}]: the document to be written
    detached,   \* SUBSET Statement: statements that outlive their request
    reply,      \* HTTP status the last step answered with, or "-"
    acked,      \* [DIDs -> Nat]: registrations of the stored table answered 201
    held        \* [DIDs -> SUBSET Keys]: every key the DID's document has had

vars == <<backend, docs, pc, req, pending, detached, reply, acked, held>>

CanFail == backend = "postgres"

Init == /\ backend \in {"memory", "postgres"}
        /\ docs = [d \in DIDs |-> Absent]
        /\ pc = [w \in Workers |-> "idle"]
        /\ req = [w \in Workers |-> Absent]
        /\ pending = [w \in Workers |-> Absent]
        /\ detached = {}
        /\ reply = "-"
        /\ acked = [d \in DIDs |-> 0]
        /\ held = [d \in DIDs |-> {}]

\* Worker w sends its response and is free for another request.
Answer(w, code) ==
    /\ reply' = code
    /\ pc' = [pc EXCEPT ![w] = "idle"]
    /\ req' = [req EXCEPT ![w] = Absent]
    /\ pending' = [pending EXCEPT ![w] = Absent]

\* Worker w goes on to store call `next` with request r and document doc.
Proceed(w, next, r, doc) ==
    /\ reply' = "-"
    /\ pc' = [pc EXCEPT ![w] = next]
    /\ req' = [req EXCEPT ![w] = r]
    /\ pending' = [pending EXCEPT ![w] = doc]

Untouched == UNCHANGED <<docs, detached, acked, held>>

Write(d, doc) == /\ docs' = [docs EXCEPT ![d] = doc]
                 /\ held' = [held EXCEPT ![d] = @ \cup {doc.key}]

\* Mutant: an upsert.
MayInsertUpsert(d) == TRUE

\* MemoryDIDStore.Create overwrites; the primary key makes the INSERT fail.
MayInsert(d) == backend = "memory" \/ docs[d] = Absent

-----------------------------------------------------------------------------
\* Mutants: a registration that does not look first, or does not verify its
\* signature.
RegisterCheckBlind(w, d, k, signer) ==
    LET r == [op |-> "register", did |-> d, key |-> k, signer |-> signer] IN
    /\ pc[w] = "idle"
    /\ \/ signer # k /\ Answer(w, "401")
       \/ signer = k /\ Proceed(w, "create", r, [key |-> k, deactivated |-> FALSE])
    /\ Untouched
RegisterCheckUnsigned(w, d, k, signer) ==
    LET r == [op |-> "register", did |-> d, key |-> k, signer |-> signer] IN
    /\ pc[w] = "idle"
    /\ \/ docs[d] # Absent /\ Answer(w, "409")
       \/ docs[d] = Absent /\ Proceed(w, "create", r, [key |-> k, deactivated |-> FALSE])
    /\ Untouched

(* DIDHandler.Register, up to and including DIDExists. *)
RegisterCheck(w, d, k, signer) ==
    LET r == [op |-> "register", did |-> d, key |-> k, signer |-> signer] IN
    /\ pc[w] = "idle"
    /\ \/ signer # k /\ Answer(w, "401")
       \/ signer = k /\ CanFail /\ Answer(w, "500")
       \/ signer = k /\ docs[d] # Absent /\ Answer(w, "409")
       \/ /\ signer = k /\ docs[d] = Absent
          /\ Proceed(w, "create", r, [key |-> k, deactivated |-> FALSE])
    /\ Untouched

(* Client.RegisterDID: store.Create and the answer. *)
RegisterCreate(w) ==
    LET d == req[w].did IN
    /\ pc[w] = "create"
    /\ \/ /\ MayInsert(d)
          /\ Write(d, pending[w])
          /\ \/ /\ Answer(w, "201")
                /\ acked' = [acked EXCEPT ![d] = @ + 1]
             \/ CanFail /\ Answer(w, "500") /\ UNCHANGED acked
          /\ UNCHANGED detached
       \/ /\ CanFail
          /\ Answer(w, "500")
          /\ Untouched

\* Mutant: the signature is verified with a key the request brings.
AuthorizeOwnKey(w, r) ==
    /\ pc[w] = "idle"
    /\ \/ docs[r.did] = Absent /\ Answer(w, "404")
       \/ docs[r.did] # Absent /\ Proceed(w, "resolve", r, Absent)
    /\ Untouched

(* DIDHandler.Revoke and DIDHandler.Update, up to the signature check. *)
Authorize(w, r) ==
    LET doc == docs[r.did] IN
    /\ pc[w] = "idle"
    /\ \/ (doc = Absent \/ CanFail) /\ Answer(w, "404")
       \/ /\ doc # Absent
          /\ \/ r.op = "update" /\ doc.deactivated /\ Answer(w, "409")
             \/ ~(r.op = "update" /\ doc.deactivated) /\ r.signer # doc.key /\ Answer(w, "401")
             \/ /\ ~(r.op = "update" /\ doc.deactivated)
                /\ r.signer = doc.key
                /\ Proceed(w, "resolve", r, Absent)
    /\ Untouched

\* A revocation carries no key; r.key is then just the signer's.
RevokeAuthorize(w, d, signer) ==
    Authorize(w, [op |-> "revoke", did |-> d, key |-> signer, signer |-> signer])
UpdateAuthorize(w, d, k, signer) ==
    Authorize(w, [op |-> "update", did |-> d, key |-> k, signer |-> signer])

\* Mutant: revocation erases the key.
AmendedErased(doc, r) == IF r.op = "revoke" THEN [key |-> Absent, deactivated |-> TRUE]
                                            ELSE [doc EXCEPT !.key = r.key]

Amended(doc, r) == IF r.op = "revoke" THEN [doc EXCEPT !.deactivated = TRUE]
                                      ELSE [doc EXCEPT !.key = r.key]

\* Mutants: UpdateDID trusts the handler's check of the flag; UpdateDID
\* returns without an answer.
ClientResolveTrusting(w) ==
    /\ pc[w] = "resolve"
    /\ \/ docs[req[w].did] = Absent /\ Answer(w, "500")
       \/ docs[req[w].did] # Absent /\ Proceed(w, "update", req[w], Amended(docs[req[w].did], req[w]))
    /\ Untouched
ClientResolveSilent(w) ==
    /\ pc[w] = "resolve"
    /\ ~(req[w].op = "update" /\ docs[req[w].did].deactivated)
    /\ Proceed(w, "update", req[w], Amended(docs[req[w].did], req[w]))
    /\ Untouched

(* Client.RevokeDID and Client.UpdateDID read the document again ... *)
ClientResolve(w) ==
    LET r == req[w]
        doc == docs[r.did]
        refused == doc = Absent \/ (r.op = "update" /\ doc.deactivated)
    IN
    /\ pc[w] = "resolve"
    /\ \/ (refused \/ CanFail) /\ Answer(w, "500")
       \/ ~refused /\ Proceed(w, "update", r, Amended(doc, r))
    /\ Untouched

\* Mutant: an UPDATE that waits for the row to be active.
StoreUpdateWaiting(w) ==
    /\ pc[w] = "update"
    /\ ~docs[req[w].did].deactivated
    /\ Write(req[w].did, pending[w])
    /\ Answer(w, "200")
    /\ UNCHANGED <<detached, acked>>

(* ... and write it back whole. *)
StoreUpdate(w) ==
    LET d == req[w].did IN
    /\ pc[w] = "update"
    /\ \/ /\ docs[d] # Absent
          /\ Write(d, pending[w])
          /\ Answer(w, "200") \/ (CanFail /\ Answer(w, "500"))
          /\ UNCHANGED <<detached, acked>>
       \/ /\ docs[d] = Absent \/ CanFail
          /\ Answer(w, "500")
          /\ Untouched

(* The request's context ends while its statement is with the database. *)
Detach(w) ==
    /\ CanFail /\ pc[w] \in {"create", "update"}
    /\ Cardinality(detached) < MaxDetached
    /\ detached' = detached \cup {[req |-> req[w], doc |-> pending[w]]}
    /\ Answer(w, "500")
    /\ UNCHANGED <<docs, acked, held>>

(* The database runs such a statement, or gives it up. *)
RunDetached(s) ==
    /\ s \in detached
    /\ detached' = detached \ {s}
    /\ \/ /\ (s.req.op = "register") <=> (docs[s.req.did] = Absent)
          /\ Write(s.req.did, s.doc)
       \/ UNCHANGED <<docs, held>>
    /\ reply' = "-"
    /\ UNCHANGED <<pc, req, pending, acked>>

(* DIDHandler.Resolve. *)
Resolve(w, d) ==
    /\ pc[w] = "idle"
    /\ \/ docs[d] # Absent /\ Answer(w, "200")
       \/ docs[d] = Absent /\ Answer(w, "404")
       \/ CanFail /\ Answer(w, "500")
    /\ Untouched

(* The API process dies and starts again: requests in hand are lost, and   *)
(* with the memory store so is every document.                             *)
Restart ==
    /\ pc' = [w \in Workers |-> "idle"]
    /\ req' = [w \in Workers |-> Absent]
    /\ pending' = [w \in Workers |-> Absent]
    /\ reply' = "-"
    /\ IF backend = "memory"
         THEN /\ docs' = [d \in DIDs |-> Absent]
              /\ acked' = [d \in DIDs |-> 0]
              /\ held' = [d \in DIDs |-> {}]
         ELSE UNCHANGED <<docs, acked, held>>
    /\ UNCHANGED detached

Step(w) == RegisterCreate(w) \/ ClientResolve(w) \/ StoreUpdate(w)

Act == \/ \E w \in Workers :
            \/ \E d \in DIDs, k, signer \in Keys : RegisterCheck(w, d, k, signer)
            \/ \E d \in DIDs, signer \in Keys : RevokeAuthorize(w, d, signer)
            \/ \E d \in DIDs, k, signer \in Keys : UpdateAuthorize(w, d, k, signer)
            \/ \E d \in DIDs : Resolve(w, d)
            \/ Step(w)
            \/ Detach(w)
       \/ \E s \in detached : RunDetached(s)
       \/ Restart

Next == Act /\ UNCHANGED backend

Spec == Init /\ [][Next]_vars

\* A goroutine with a request in hand runs; a database finishes or drops
\* what it was given.
FairSpec == /\ Spec
            /\ \A w \in Workers : WF_vars(Step(w) /\ UNCHANGED backend)
            /\ \A s \in Statement : WF_vars(RunDetached(s) /\ UNCHANGED backend)

-----------------------------------------------------------------------------
(* Requests for one DID kept apart: the next begins when the last is over, *)
(* and with it any statement that it left with the database.               *)
OneRequestPerDid ==
    /\ \A w, v \in Workers :
         w # v /\ pc[w] # "idle" /\ pc[v] # "idle" => req[w].did # req[v].did
    /\ \A s \in detached :
         /\ \A w \in Workers : pc[w] # "idle" => req[w].did # s.req.did
         /\ \A t \in detached : t # s => t.req.did # s.req.did

SerialSpec == Init /\ [][Next /\ OneRequestPerDid']_vars

\* A document as the atomic registry keeps it.
StatusOf(doc) == IF doc = Absent THEN "none"
                 ELSE IF doc.deactivated THEN "deactivated" ELSE "active"
KeyOf(doc) == IF doc = Absent THEN Absent ELSE doc.key

statusBar == [d \in DIDs |-> StatusOf(docs[d])]
keyBar == [d \in DIDs |-> KeyOf(docs[d])]

Atomic == INSTANCE AtomicDidRegistry
          WITH status <- statusBar, key <- keyBar, NoKey <- Absent, durable <- CanFail

-----------------------------------------------------------------------------
(* Properties. *)

TypeOK == /\ backend \in {"memory", "postgres"}
          /\ docs \in [DIDs -> Document \cup {Absent}]
          /\ pc \in [Workers -> {"idle", "create", "resolve", "update"}]
          /\ req \in [Workers -> Request \cup {Absent}]
          /\ pending \in [Workers -> Document \cup {Absent}]
          /\ detached \subseteq Statement
          /\ reply \in {"-", "200", "201", "401", "404", "409", "500"}
          /\ acked \in [DIDs -> Nat]
          /\ held \in [DIDs -> SUBSET Keys]

\* doc is a document that request r, rightly signed, may write.
Prepared(r, doc) ==
    /\ r \in Request /\ doc \in Document
    /\ r.op = "register" => r.signer = r.key /\ doc.key = r.key /\ ~doc.deactivated
    /\ r.op = "update" => r.signer \in held[r.did] /\ doc.key = r.key /\ ~doc.deactivated
    /\ r.op = "revoke" => r.signer \in held[r.did] /\ doc.key \in held[r.did] /\ doc.deactivated

\* What a request in hand, or a statement that outlived one, may still do.
InHand ==
    /\ \A w \in Workers :
         /\ pc[w] # "idle" => req[w] \in Request
         /\ pc[w] \in {"create", "update"} => Prepared(req[w], pending[w])
         /\ pc[w] = "resolve" => req[w].signer \in held[req[w].did]
         /\ pc[w] # "idle" => (pc[w] = "create" <=> req[w].op = "register")
    /\ \A s \in detached : Prepared(s.req, s.doc)
    /\ ~CanFail => detached = {}
    /\ \A d \in DIDs : docs[d] # Absent => docs[d].key \in held[d]

\* Every variable keeps its type, and what a request in hand, or a statement
\* that outlived one, may still do is covered by a signature of a key its DID
\* has had, however much the document has changed since the check.
Consistent == TypeOK /\ InHand

Registered(d) == docs[d] # Absent
Deactivated(d) == Registered(d) /\ docs[d].deactivated

\* d is deactivated and no write that was prepared earlier can undo it: no
\* update of a copy read while d was active, no memory registration that
\* found d missing.
Settled(d) ==
    /\ Deactivated(d)
    /\ \A w \in Workers :
         pc[w] # "idle" /\ req[w].did = d =>
            /\ pc[w] = "update" => pending[w].deactivated
            /\ backend = "memory" => pc[w] # "create"
    /\ \A s \in detached :
         s.req.did = d /\ s.req.op # "register" => s.doc.deactivated

\* A settled revocation stays settled and lets no new key in, whatever
\* requests follow and however they interleave, fail or land late; only losing
\* a memory registry undoes it.  (client.go:78-109: both writers read the
\* document again, keep its flag, and UpdateDID refuses a deactivated one.)
RevocationSettles ==
    [][\A d \in DIDs : Settled(d) =>
         \/ Settled(d)' /\ held'[d] = held[d]
         \/ backend = "memory" /\ \A e \in DIDs : ~Registered(e)']_vars

\* The registry as CredentialRegistry sees it.
View == INSTANCE RegistryView WITH settled <- {d \in DIDs : Settled(d)}

\* What the handlers that resolve a DID rely on: documents change one at a
\* time and only to keys their DID has been given, a settled revocation is
\* final, and only a memory registry forgets a DID.
ImplementsView ==
    View!NoDocuments /\ [][View!Moves \/ (backend = "memory" /\ View!Wipe)]_(View!viewVars)

\* Register's Exists-then-Create is not atomic, yet with Postgres at most one
\* registration of a DID is ever acknowledged, across failures and restarts,
\* and an acknowledged registration is never lost.
OneRegistration ==
    backend = "postgres" =>
        \A d \in DIDs : acked[d] <= 1 /\ (acked[d] = 1 => Registered(d))

\* A key a DID never had enters its document only by a registration signed
\* with that key, or by an update signed with a key the DID had before, even
\* when the write comes from a stale copy or lands after its request failed.
KeyCustody ==
    [][\A d \in DIDs : Registered(d)' /\ docs'[d].key \notin held[d] =>
         \E r \in {req[w] : w \in Workers} \cup {s.req : s \in detached} :
            /\ r # Absent /\ r.did = d /\ r.key = docs'[d].key
            /\ \/ r.op = "register" /\ r.signer = r.key
               \/ r.op = "update" /\ r.signer \in held[d]]_vars

\* Requests for one DID that do not overlap, with one another or with what an
\* earlier one left at the database, behave as the atomic registry promises,
\* whatever other DIDs' requests do meanwhile.
SerialIsAtomic == Atomic!ASpec

\* Every request taken up is answered (or lost in a restart): no path through
\* the handlers and the client leaves one waiting.
EveryRequestAnswered == \A w \in Workers : pc[w] # "idle" ~> pc[w] = "idle"

\* A DID that stays deactivated becomes settled: the prepared writes that
\* could undo the revocation run out, and no new ones are let in.
RevocationDrains == \A d \in DIDs : <>[]Deactivated(d) => <>[]Settled(d)

-----------------------------------------------------------------------------
(* What the documentation says and the interleavings above do not keep. *)

\* sdk/src/index.ts:223: "Revoke the current identity (cannot be undone)".  Of
\* Postgres, which loses nothing and takes no second registration.
RevocationCannotBeUndone ==
    [][backend = "postgres" => \A d \in DIDs : Deactivated(d) => Deactivated(d)']_vars

\* docs/openapi.yaml:83: a second registration is answered 409, "DID already
\* registered"; so a DID is registered once.
RegisteredOnce == \A d \in DIDs : acked[d] <= 1
=============================================================================
