------------------------- MODULE CredentialRegistry -------------------------
(***************************************************************************)
(* The credential registry: Issue, Revoke and Verify of                    *)
(* handlers/credential.go over the two stores of credential_store.go, run  *)
(* by concurrent request goroutines beside a DID registry that moves.      *)
(*                                                                         *)
(* A request makes several calls, and others come in between:              *)
(*    issue    ResolveDID subject --> ResolveDID issuer --> Create         *)
(*    verify   Get ---------------> ResolveDID issuer                      *)
(* A worker's pc names the call it is about to make.  Each store call is   *)
(* one mutex section or one SQL statement.  With Postgres any call can     *)
(* fail, and a statement reported as failed may have run, or run later.    *)
(*                                                                         *)
(* A credential is its issuer, its subject, the key its proof is made with,*)
(* its claims as the issuer signed them (see CanonicalJSON) and its expiry;*)
(* payloads refused before any call are left out.                          *)
(***************************************************************************)
EXTENDS Naturals, FiniteSets, CanonicalJSON

CONSTANTS
    Ids,            \* credential identifiers
    DIDs, Keys,     \* of the DID registry
    Claims,         \* what issuers sign: objects of CanonicalJSON
    Workers,        \* goroutines serving requests
    MaxDetached,    \* bound: statements running after their request failed
    MaxNow,         \* bound: the last instant of the clock
    None            \* no record, request, document or expiry

Payload == [issuer : DIDs, subject : DIDs, signer : Keys, claims : Claims,
            expires : (1 .. MaxNow) \cup {None}]
Reasons == {"", "given"}
Record  == [payload : Payload, revoked : BOOLEAN, reason : Reasons]
Request == [id : Ids, payload : Payload]
Statement == [op : {"create"}, id : Ids, payload : Payload]
             \cup [op : {"revoke"}, id : Ids, reason : Reasons]

ASSUME ClaimsAssumption == Claims \subseteq Object
ASSUME BoundAssumption == MaxNow \in Nat
ASSUME NoneAssumption == /\ None \notin Record /\ None \notin Request /\ None \notin Nat
                         /\ None \notin [key : Keys, deactivated : BOOLEAN]

VARIABLES
    backend,    \* "memory" or "postgres", of both registries: the configuration
    docs, held, settled,    \* the DID registry: see RegistryView
    creds,      \* [Ids -> Record \cup {None}]: the credential store
    pc,         \* [Workers -> {"idle", "issuer", "create", "proof"}]
    req,        \* [Workers -> Request \cup {None}]: what is being issued or verified
    detached,   \* SUBSET Statement: statements that outlive their request
    now,        \* the clock
    reply,      \* what the last step answered, and about which credential
    acked       \* [Ids -> Nat]: issues of the stored table answered 201

regVars == <<docs, held, settled>>
vars == <<backend, docs, held, settled, creds, pc, req, detached, now, reply, acked>>

CanFail == backend = "postgres"

Reg == INSTANCE RegistryView WITH Absent <- None

Silent == [code |-> "-", id |-> None]

Init == /\ backend \in {"memory", "postgres"}
        /\ Reg!NoDocuments
        /\ creds = [i \in Ids |-> None]
        /\ pc = [w \in Workers |-> "idle"]
        /\ req = [w \in Workers |-> None]
        /\ detached = {}
        /\ now = 0
        /\ reply = Silent
        /\ acked = [i \in Ids |-> 0]

Answer(w, code, id) == /\ reply' = [code |-> code, id |-> id]
                       /\ pc' = [pc EXCEPT ![w] = "idle"]
                       /\ req' = [req EXCEPT ![w] = None]

Proceed(w, next, r) == /\ reply' = Silent
                       /\ pc' = [pc EXCEPT ![w] = next]
                       /\ req' = [req EXCEPT ![w] = r]

Store == <<creds, detached, acked>>

Active(d) == docs[d] # None /\ ~docs[d].deactivated

\* The issuer's signature is over the text the API writes.
SameText(p) == CoreText(p.claims) = ApiText(Wire(p.claims))

\* Mutant: the issuer's deactivated flag is not looked at.
ProofOKAnyFlag(p) == docs[p.issuer] # None /\ docs[p.issuer].key = p.signer /\ SameText(p)

\* Mutant: the proof is checked with a key it brings itself.
ProofOKAnyKey(p) == Active(p.issuer) /\ SameText(p)

\* verifyCredentialProof, when its ResolveDID succeeds.
ProofOK(p) == Active(p.issuer) /\ docs[p.issuer].key = p.signer /\ SameText(p)

-----------------------------------------------------------------------------
(* Issue: the subject must be registered, *)
IssueSubject(w, id, p) ==
    /\ pc[w] = "idle"
    /\ \/ (docs[p.subject] = None \/ CanFail) /\ Answer(w, "400", id)
       \/ docs[p.subject] # None /\ Proceed(w, "issuer", [id |-> id, payload |-> p])
    /\ UNCHANGED <<regVars, Store, now>>

\* Mutant: the issuer is looked at, and the proof left to Verify.
IssueUnproven(w) ==
    LET r == req[w] IN
    /\ pc[w] = "issuer"
    /\ \/ (~Active(r.payload.issuer) \/ CanFail) /\ Answer(w, "400", r.id)
       \/ Active(r.payload.issuer) /\ Proceed(w, "create", r)
    /\ UNCHANGED <<regVars, Store, now>>

(* the proof must be the issuer's, *)
IssueProof(w) ==
    LET r == req[w] IN
    /\ pc[w] = "issuer"
    /\ \/ (~ProofOK(r.payload) \/ CanFail) /\ Answer(w, "400", r.id)
       \/ ProofOK(r.payload) /\ Proceed(w, "create", r)
    /\ UNCHANGED <<regVars, Store, now>>

Fresh(p) == [payload |-> p, revoked |-> FALSE, reason |-> ""]

\* Mutant: an upsert.
VacantUpsert(id) == TRUE

Vacant(id) == creds[id] = None

(* and the identifier free. *)
IssueCreate(w) ==
    LET r == req[w] IN
    /\ pc[w] = "create"
    /\ \/ /\ Vacant(r.id)
          /\ creds' = [creds EXCEPT ![r.id] = Fresh(r.payload)]
          /\ \/ Answer(w, "201", r.id) /\ acked' = [acked EXCEPT ![r.id] = @ + 1]
             \/ CanFail /\ Answer(w, "500", r.id) /\ UNCHANGED acked
       \/ /\ ~Vacant(r.id) /\ Answer(w, "409", r.id)
          /\ UNCHANGED <<creds, acked>>
       \/ /\ CanFail /\ Answer(w, "500", r.id)
          /\ UNCHANGED <<creds, acked>>
    /\ UNCHANGED <<regVars, detached, now>>

\* The memory store keeps the first revocation whole; in Postgres a later one
\* still supplies a reason if none was given.
Revoked(rec, reason) ==
    [rec EXCEPT !.revoked = TRUE,
                !.reason = IF rec.reason # "" \/ (rec.revoked /\ backend = "memory")
                           THEN rec.reason ELSE reason]

RevokeInStore(id, reason) == creds' = [creds EXCEPT ![id] = Revoked(creds[id], reason)]

(* Revoke: one statement. *)
Revoke(w, id, reason) ==
    /\ pc[w] = "idle"
    /\ \/ creds[id] = None /\ Answer(w, "404", id) /\ UNCHANGED creds
       \/ /\ creds[id] # None /\ RevokeInStore(id, reason)
          /\ Answer(w, "200", id) \/ (CanFail /\ Answer(w, "500", id))
       \/ CanFail /\ Answer(w, "500", id) /\ UNCHANGED creds
    /\ UNCHANGED <<regVars, detached, acked, now>>

Expired(p) == p.expires # None /\ now >= p.expires

\* Mutant: a revoked credential is as good as any.
StatusOKRevoked(rec) == ~Expired(rec.payload)

\* credentialStatus.
StatusOK(rec) == ~rec.revoked /\ ~Expired(rec.payload)

(* Verify: what is stored decides first, *)
VerifyGet(w, id) ==
    LET rec == creds[id] IN
    /\ pc[w] = "idle"
    /\ \/ CanFail /\ Answer(w, "500", id)
       \/ rec = None /\ Answer(w, "not found", id)
       \/ rec # None /\ ~StatusOK(rec) /\ Answer(w, "revoked or expired", id)
       \/ /\ rec # None /\ StatusOK(rec)
          /\ Proceed(w, "proof", [id |-> id, payload |-> rec.payload])
    /\ UNCHANGED <<regVars, Store, now>>

(* then the issuer's document. *)
VerifyProof(w) ==
    LET r == req[w] IN
    /\ pc[w] = "proof"
    /\ \/ (~ProofOK(r.payload) \/ CanFail) /\ Answer(w, "invalid", r.id)
       \/ ProofOK(r.payload) /\ Answer(w, "valid", r.id)
    /\ UNCHANGED <<regVars, Store, now>>

-----------------------------------------------------------------------------
(* The request's context ends while its statement is with the database. *)
Detach(w, s) ==
    /\ CanFail /\ Cardinality(detached) < MaxDetached
    /\ \/ pc[w] = "create" /\ s = [op |-> "create", id |-> req[w].id, payload |-> req[w].payload]
       \/ pc[w] = "idle" /\ s.op = "revoke"
    /\ detached' = detached \cup {s}
    /\ Answer(w, "500", s.id)
    /\ UNCHANGED <<regVars, creds, acked, now>>

(* The database runs such a statement, or gives it up. *)
RunDetached(s) ==
    /\ s \in detached
    /\ detached' = detached \ {s}
    /\ \/ /\ s.op = "create" /\ Vacant(s.id)
          /\ creds' = [creds EXCEPT ![s.id] = Fresh(s.payload)]
       \/ s.op = "revoke" /\ creds[s.id] # None /\ RevokeInStore(s.id, s.reason)
       \/ UNCHANGED creds
    /\ reply' = Silent
    /\ UNCHANGED <<regVars, pc, req, acked, now>>

(* The API process starts anew: requests in hand are lost, and both memory *)
(* registries with them.                                                   *)
Restart ==
    /\ pc' = [w \in Workers |-> "idle"]
    /\ req' = [w \in Workers |-> None]
    /\ reply' = Silent
    /\ \/ /\ backend = "memory"
          /\ Reg!Wipe
          /\ creds' = [i \in Ids |-> None]
          /\ acked' = [i \in Ids |-> 0]
       \/ /\ backend = "postgres"
          /\ UNCHANGED <<regVars, creds, acked>>
    /\ UNCHANGED <<detached, now>>

(* A step of the DID registry. *)
RegistryStep == /\ Reg!Moves
                /\ reply' = Silent
                /\ UNCHANGED <<Store, pc, req, now>>

Tick == /\ now < MaxNow
        /\ now' = now + 1
        /\ reply' = Silent
        /\ UNCHANGED <<regVars, Store, pc, req>>

Act  == \/ \E w \in Workers :
             \/ \E id \in Ids, p \in Payload : IssueSubject(w, id, p)
             \/ IssueProof(w)
             \/ IssueCreate(w)
             \/ \E id \in Ids, reason \in Reasons : Revoke(w, id, reason)
             \/ \E id \in Ids : VerifyGet(w, id)
             \/ VerifyProof(w)
             \/ \E s \in Statement : Detach(w, s)
        \/ \E s \in detached : RunDetached(s)
        \/ Restart
        \/ RegistryStep
        \/ Tick

Next == Act /\ UNCHANGED backend

Spec == Init /\ [][Next]_vars

-----------------------------------------------------------------------------
(* Properties. *)

TypeOK == /\ backend \in {"memory", "postgres"}
          /\ docs \in [DIDs -> Reg!Document \cup {None}]
          /\ held \in [DIDs -> SUBSET Keys]
          /\ settled \subseteq DIDs
          /\ creds \in [Ids -> Record \cup {None}]
          /\ pc \in [Workers -> {"idle", "issuer", "create", "proof"}]
          /\ req \in [Workers -> Request \cup {None}]
          /\ detached \subseteq Statement
          /\ now \in 0 .. MaxNow
          /\ reply.id \in Ids \cup {None}
          /\ acked \in [Ids -> Nat]

\* A step lost the memory registries.
Lost == backend = "memory" /\ creds' = [i \in Ids |-> None] /\ docs' = [d \in DIDs |-> None]

WellMade(p) == p.signer \in held[p.issuer] /\ docs[p.subject] # None /\ Portable(p.claims)

\* What RegistryView keeps of the documents.
Registry == /\ \A d \in DIDs : docs[d] # None => docs[d].key \in held[d]
            /\ \A d \in settled : docs[d] # None /\ docs[d].deactivated

\* A request in hand is one, and only a database has statements of its own.
InHand == /\ \A w \in Workers : pc[w] # "idle" => req[w] \in Request
          /\ \A w \in Workers : pc[w] = "issuer" => docs[req[w].payload.subject] # None
          /\ backend = "memory" => detached = {}

WellIssued ==
    /\ \A i \in Ids : creds[i] # None => WellMade(creds[i].payload)
    /\ \A w \in Workers :
         /\ pc[w] \in {"create", "proof"} => WellMade(req[w].payload)
         /\ pc[w] = "proof" => creds[req[w].id] # None /\ creds[req[w].id].payload = req[w].payload
    /\ \A s \in detached : s.op = "create" => WellMade(s.payload)

\* Every credential in the store, on its way into it (in a request past its
\* checks or in a statement that outlived one) or half verified carries a proof
\* made with a key its issuer has had, over claims that core and the API write
\* the same, and its subject is registered; and what is half verified is what
\* is stored.
Consistent == TypeOK /\ Registry /\ InHand /\ WellIssued

Ledger == INSTANCE CredentialLedger WITH volatile <- backend = "memory", Absent <- None,
                                         table <- creds, told <- acked

\* However requests race, fail, are retried or land late, an identifier is
\* issued once, what was answered 201 is stored, no credential is replaced, no
\* revocation withdrawn, and the reason given first stays.
ImplementsLedger == Ledger!LedgerSpec

\* Credential i is revoked, or its time is over, and no verification is past
\* looking.
Dead(i) ==
    /\ creds[i] # None /\ (creds[i].revoked \/ Expired(creds[i].payload))
    /\ \A w \in Workers : pc[w] = "proof" => req[w].id # i

\* A verification begun after a credential was revoked or expired never finds
\* it valid, whatever lands late or fails.
DeadStaysDead ==
    [][\A i \in Ids : Dead(i) =>
         \/ Lost
         \/ Dead(i)' /\ ~(reply'.code = "valid" /\ reply'.id = i)]_vars

\* d's revocation has settled, and no credential of d's is past its checks.
Retired(d) ==
    /\ d \in settled
    /\ \A w \in Workers : pc[w] = "create" => req[w].payload.issuer # d
    /\ \A s \in detached : s.op = "create" => s.payload.issuer # d

IssuedBy(d) == {i \in Ids : creds[i] # None /\ creds[i].payload.issuer = d}

\* A retired issuer stays retired: no credential of its own is stored any more
\* and none of those it issued is found valid.
IssuerRetires ==
    [][\A d \in DIDs : Retired(d) =>
         \/ Lost
         \/ /\ Retired(d)'
            /\ IssuedBy(d)' \subseteq IssuedBy(d)
            /\ ~(reply'.code = "valid" /\ reply'.id \in IssuedBy(d))]_vars

\* A credential is found valid when, and unless its database fails only when, it
\* is the stored one and its issuer is active and still holds the key of its
\* proof: what was issued is never refused for its text, although core wrote
\* the signed text and the API writes it again (credential.go:303).
JudgedRightly ==
    [][LET rec == creds[reply'.id]
           Rightly == Active(rec.payload.issuer) /\ docs[rec.payload.issuer].key = rec.payload.signer
       IN /\ reply'.code = "valid" => rec # None /\ Rightly
          /\ reply'.code = "invalid" /\ ~CanFail => rec # None /\ ~Rightly]_vars
=============================================================================
