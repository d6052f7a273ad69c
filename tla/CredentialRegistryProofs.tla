---------------------- MODULE CredentialRegistryProofs ----------------------
(***************************************************************************)
(* Proofs about CredentialRegistry, for every set of identifiers, DIDs,    *)
(* keys and workers, both backends and any number of detached statements.  *)
(***************************************************************************)
EXTENDS CredentialRegistry, TLAPS

USE NoneAssumption, BoundAssumption

\* An identifier is issued at most once however requests race, fail and are
\* retried, and an issued credential is never lost.
IssuedOnce == \A i \in Ids : acked[i] <= 1 /\ (acked[i] = 1 => creds[i] # None)

\* A stored credential is never replaced, its revocation never withdrawn, and
\* the reason given first is the one that stays.
RecordKept ==
    [][\A i \in Ids : creds[i] # None =>
         \/ Lost
         \/ /\ creds'[i] # None
            /\ creds'[i].payload = creds[i].payload
            /\ creds[i].revoked => creds'[i].revoked
            /\ creds[i].reason # "" => creds'[i].reason = creds[i].reason]_vars

\* A step of the registry forgets no key and no document.
LEMMA MovesKeep ==
    ASSUME TypeOK, Registry, Reg!Moves
    PROVE  /\ docs' \in [DIDs -> Reg!Document \cup {None}]
           /\ held' \in [DIDs -> SUBSET Keys]
           /\ settled' \subseteq DIDs
           /\ Registry'
           /\ settled \subseteq settled'
           /\ \A d \in DIDs : held[d] \subseteq held'[d] /\ (docs[d] # None => docs'[d] # None)
<1>1. PICK S \in SUBSET DIDs : Reg!Settle(S)
  BY DEF Reg!Moves
<1>2. CASE UNCHANGED <<docs, held>>
  BY <1>1, <1>2 DEF TypeOK, Registry, Reg!Settle
<1>3. ASSUME NEW d \in DIDs, NEW doc \in Reg!Document, Reg!Move(d, doc)
      PROVE  /\ docs' \in [DIDs -> Reg!Document \cup {None}]
             /\ held' \in [DIDs -> SUBSET Keys]
             /\ settled' \subseteq DIDs
             /\ Registry'
             /\ settled \subseteq settled'
             /\ \A e \in DIDs : held[e] \subseteq held'[e] /\ (docs[e] # None => docs'[e] # None)
  <2>1. doc.key \in Keys
    BY DEF Reg!Document
  <2>2. docs' \in [DIDs -> Reg!Document \cup {None}] /\ held' \in [DIDs -> SUBSET Keys]
    BY <1>3, <2>1 DEF TypeOK, Reg!Move
  <2>3. \A e \in DIDs : held[e] \subseteq held'[e]
    BY <1>3 DEF TypeOK, Reg!Move
  <2>4. doc # None
    BY DEF Reg!Document
  <2>5. \A e \in DIDs : docs'[e] = IF e = d THEN doc ELSE docs[e]
    BY <1>3 DEF TypeOK, Reg!Move
  <2>6. Registry'
    <3>1. \A e \in DIDs : docs'[e] # None => docs'[e].key \in held'[e]
      BY <1>3, <2>3, <2>5 DEF TypeOK, Registry, Reg!Move
    <3>2. \A e \in settled' : docs'[e] # None /\ docs'[e].deactivated
      BY <1>1, <1>3, <2>4, <2>5 DEF TypeOK, Registry, Reg!Move, Reg!Settle
    <3>3. QED
      BY <3>1, <3>2 DEF Registry
  <2>7. QED
    BY <1>1, <2>2, <2>3, <2>4, <2>5, <2>6 DEF TypeOK, Reg!Settle
<1>4. QED
  BY <1>2, <1>3 DEF Reg!Moves

LEMMA RevokedRecord ==
    ASSUME NEW rec \in Record, NEW reason \in Reasons
    PROVE  /\ Revoked(rec, reason) \in Record
           /\ Revoked(rec, reason).payload = rec.payload
           /\ Revoked(rec, reason).revoked
           /\ rec.reason # "" => Revoked(rec, reason).reason = rec.reason
  BY DEF Revoked, Record, Reasons

LEMMA FreshRecord ==
    ASSUME NEW p \in Payload
    PROVE  /\ Fresh(p) \in Record /\ Fresh(p) # None
           /\ Fresh(p).payload = p /\ ~Fresh(p).revoked /\ Fresh(p).reason = ""
<1>1. Fresh(p) \in Record
  BY DEF Fresh, Record, Reasons
<1>2. QED
  BY <1>1 DEF Fresh

Fixed == UNCHANGED <<backend, regVars, now>>

\* Answering keeps Consistent if the credentials do not change ...
LEMMA AnswerKeeps ==
    ASSUME Consistent, NEW w \in Workers, NEW id \in Ids, NEW code, Answer(w, code, id),
           Fixed, UNCHANGED Store
    PROVE  Consistent'
<1> USE DEF Consistent, TypeOK, InHand, Registry, WellIssued, WellMade, Answer, Fixed, regVars, Store
<1>1. TypeOK'
  OBVIOUS
<1>2. (Registry /\ InHand)'
  OBVIOUS
<1>3. WellIssued'
  OBVIOUS
<1>4. QED
  BY <1>1, <1>2, <1>3

\* ... and so does going on to a call the request is ready for.
LEMMA ProceedKeeps ==
    ASSUME Consistent, NEW w \in Workers, NEW r \in Request,
           NEW next \in {"issuer", "create", "proof"}, Proceed(w, next, r),
           next = "issuer" => docs[r.payload.subject] # None,
           next \in {"create", "proof"} => WellMade(r.payload),
           next = "proof" => creds[r.id] # None /\ creds[r.id].payload = r.payload,
           Fixed, UNCHANGED Store
    PROVE  Consistent'
<1> USE DEF Consistent, TypeOK, InHand, Registry, WellIssued, WellMade, Proceed, Fixed, regVars, Store
<1>1. TypeOK'
  BY DEF Silent
<1>2. (Registry /\ InHand)'
  OBVIOUS
<1>3. WellIssued'
  OBVIOUS
<1>4. QED
  BY <1>1, <1>2, <1>3

\* The text core signs and the text the API writes of what JSON carries are
\* the same for these objects and for no others (vc/index.ts:212-228,
\* credential.go:303-364).
THEOREM TextsAgree ==
    ASSUME NEW o \in Object
    PROVE  CoreText(o) = ApiText(Wire(o)) <=> Portable(o)
<1> USE DEF Names, Values
<1>1. PICK S \in SUBSET Names : o \in [S -> Values]
  BY DEF Object
<1>2. DOMAIN o = S /\ \A n \in S : n \in Names /\ o[n] \in Values
  BY <1>1
<1>3. DOMAIN Wire(o) \subseteq S /\ \A n \in DOMAIN Wire(o) : Wire(o)[n] \in {"plain", "marked"}
  BY <1>2 DEF Wire
<1>4. ASSUME CoreText(o) = ApiText(Wire(o))
      PROVE  Portable(o)
  <2>1. CoreText(o).members = ApiText(Wire(o)).members /\ CoreText(o).before = ApiText(Wire(o)).before
    BY <1>4
  <2>2. ASSUME NEW n \in S
        PROVE  n # "marked" /\ o[n] = "plain"
    <3>1. <<n, Written(o[n])>> \in ApiText(Wire(o)).members
      BY <1>2, <2>1 DEF CoreText
    <3>2. PICK m \in DOMAIN Wire(o) : <<n, Written(o[n])>> = <<Escaped(m), Escaped(Wire(o)[m])>>
      BY <3>1 DEF ApiText
    <3>3. n = Escaped(m) /\ Written(o[n]) = Escaped(Wire(o)[m])
      BY <3>2
    <3>4. n # "marked"
      BY <3>3 DEF Escaped
    <3>5. Written(o[n]) \in {"plain", "escaped"}
      BY <1>3, <3>3 DEF Escaped
    <3>6. o[n] = "plain"
      BY <1>2, <3>5 DEF Written
    <3>7. QED
      BY <3>4, <3>6
  <2>3. ASSUME "high" \in S, "astral" \in S
        PROVE  FALSE
    <3>1. <<"astral", "high">> \in CoreText(o).before
      BY <1>2, <2>3 DEF CoreText, Utf16
    <3>2. <<"astral", "high">> \notin ApiText(Wire(o)).before
      BY DEF ApiText, Bytes
    <3>3. QED
      BY <2>1, <3>1, <3>2
  <2>4. QED
    BY <1>2, <2>2, <2>3 DEF Portable
<1>5. ASSUME Portable(o)
      PROVE  CoreText(o) = ApiText(Wire(o))
  <2>1. \A n \in S : n # "marked" /\ o[n] = "plain"
    BY <1>2, <1>5 DEF Portable
  <2>2. Wire(o) = o
    BY <1>1, <1>2, <2>1 DEF Wire
  <2>3. CoreText(o).members = ApiText(o).members
    <3> DEFINE Core(n) == <<n, Written(o[n])>>
               Api(n)  == <<Escaped(n), Escaped(o[n])>>
    <3>1. \A n \in S : Core(n) = Api(n)
      BY <2>1 DEF Written, Escaped
    <3>2. /\ CoreText(o).members = {Core(n) : n \in S}
          /\ ApiText(o).members = {Api(n) : n \in S}
      BY <1>2 DEF CoreText, ApiText
    <3> HIDE DEF Core, Api
    <3>3. {Core(n) : n \in S} = {Api(n) : n \in S}
      BY <3>1
    <3>4. QED
      BY <3>2, <3>3
  <2>4. CoreText(o).before = ApiText(o).before
    <3>1. \A m, n \in S : Utf16(m) < Utf16(n) <=> Bytes(m) < Bytes(n)
      BY <1>2, <1>5 DEF Portable, Utf16, Bytes
    <3>2. QED
      BY <1>2, <3>1 DEF CoreText, ApiText
  <2>5. QED
    BY <2>2, <2>3, <2>4 DEF CoreText, ApiText
<1>6. QED
  BY <1>4, <1>5

\* A proof that verifies was made with a key the issuer has had, over claims
\* that both sides write the same.
LEMMA ProofIsHeld ==
    ASSUME Consistent, NEW p \in Payload, ProofOK(p)
    PROVE  p.signer \in held[p.issuer] /\ Portable(p.claims)
<1>1. p.claims \in Object
  BY ClaimsAssumption DEF Payload
<1>2. QED
  BY <1>1, TextsAgree DEF ProofOK, SameText, Active, Consistent, Registry, Payload

LEMMA IssueKeeps ==
    ASSUME Consistent, NEW w \in Workers, NEW id \in Ids, NEW p \in Payload, UNCHANGED backend,
           IssueSubject(w, id, p)
    PROVE  Consistent'
<1>1. [id |-> id, payload |-> p] \in Request
  BY DEF Request
<1>2. Fixed /\ UNCHANGED Store
  BY DEF IssueSubject, Fixed
<1>3. CASE Answer(w, "400", id)
  BY <1>2, <1>3, AnswerKeeps
<1>4. CASE docs[p.subject] # None /\ Proceed(w, "issuer", [id |-> id, payload |-> p])
  BY <1>1, <1>2, <1>4, ProceedKeeps
<1>5. QED
  BY <1>3, <1>4 DEF IssueSubject

LEMMA IssueProofKeeps ==
    ASSUME Consistent, NEW w \in Workers, UNCHANGED backend, IssueProof(w)
    PROVE  Consistent'
<1>1. req[w] \in Request /\ req[w].id \in Ids /\ req[w].payload \in Payload
  BY DEF Consistent, InHand, IssueProof, Request
<1>2. Fixed /\ UNCHANGED Store
  BY DEF IssueProof, Fixed
<1>3. CASE Answer(w, "400", req[w].id)
  BY <1>1, <1>2, <1>3, AnswerKeeps
<1>4. CASE ProofOK(req[w].payload) /\ Proceed(w, "create", req[w])
  <2>1. WellMade(req[w].payload)
    BY <1>1, <1>4, ProofIsHeld DEF WellMade, Consistent, InHand, IssueProof
  <2>2. QED
    BY <1>1, <1>2, <1>4, <2>1, ProceedKeeps
<1>5. QED
  BY <1>3, <1>4 DEF IssueProof

LEMMA VerifyKeeps ==
    ASSUME Consistent, NEW w \in Workers, UNCHANGED backend,
           VerifyProof(w) \/ \E id \in Ids : VerifyGet(w, id)
    PROVE  Consistent'
<1>1. ASSUME NEW id \in Ids, VerifyGet(w, id)
      PROVE  Consistent'
  <2>1. Fixed /\ UNCHANGED Store
    BY <1>1 DEF VerifyGet, Fixed
  <2>2. CASE \E code : Answer(w, code, id)
    BY <2>1, <2>2, AnswerKeeps
  <2>3. CASE creds[id] # None /\ Proceed(w, "proof", [id |-> id, payload |-> creds[id].payload])
    <3> DEFINE r == [id |-> id, payload |-> creds[id].payload]
    <3>1. r \in Request /\ r.id = id /\ r.payload = creds[id].payload
      BY <2>3 DEF Consistent, TypeOK, Record, Request
    <3>2. WellMade(r.payload)
      BY <2>3 DEF Consistent, WellIssued
    <3> HIDE DEF r
    <3>3. QED
      BY <2>1, <2>3, <3>1, <3>2, ProceedKeeps DEF r
  <2>4. QED
    BY <1>1, <2>2, <2>3 DEF VerifyGet
<1>2. CASE VerifyProof(w)
  <2>1. req[w].id \in Ids
    BY <1>2 DEF Consistent, InHand, VerifyProof, Request
  <2>2. Fixed /\ UNCHANGED Store
    BY <1>2 DEF VerifyProof, Fixed
  <2>3. QED
    BY <1>2, <2>1, <2>2, AnswerKeeps DEF VerifyProof
<1>3. QED
  BY <1>1, <1>2

LEMMA IssueCreateKeeps ==
    ASSUME Consistent, NEW w \in Workers, UNCHANGED backend, IssueCreate(w)
    PROVE  Consistent'
<1>1. req[w] \in Request /\ req[w].id \in Ids /\ req[w].payload \in Payload
  BY DEF Consistent, InHand, IssueCreate, Request
<1>2. Fixed /\ UNCHANGED detached
  BY DEF IssueCreate, Fixed
<1>3. CASE UNCHANGED <<creds, acked>>
  BY <1>1, <1>2, <1>3, AnswerKeeps DEF IssueCreate, Store
<1>4. CASE /\ Vacant(req[w].id)
           /\ creds' = [creds EXCEPT ![req[w].id] = Fresh(req[w].payload)]
           /\ acked' \in [Ids -> Nat]
           /\ \E code : Answer(w, code, req[w].id)
  <2> USE DEF Consistent, TypeOK, InHand, Registry, WellIssued, WellMade, Answer, Fixed, regVars
  <2>1. Fresh(req[w].payload) \in Record /\ Fresh(req[w].payload).payload = req[w].payload
    BY <1>1, FreshRecord
  <2>2. TypeOK'
    BY <1>1, <1>2, <1>4, <2>1
  <2>3. (Registry /\ InHand)'
    BY <1>2, <1>4
  <2>4. WellMade(req[w].payload)
    BY DEF IssueCreate
  <2>5. \A i \in Ids : creds'[i] = IF i = req[w].id THEN Fresh(req[w].payload) ELSE creds[i]
    BY <1>1, <1>4
  <2>6. \A i \in Ids : creds'[i] # None => WellMade(creds'[i].payload)
    BY <2>1, <2>4, <2>5
  <2>7. WellIssued'
    BY <1>1, <1>2, <1>4, <2>5, <2>6 DEF Vacant
  <2>8. QED
    BY <2>2, <2>3, <2>7
<1>5. QED
  BY <1>1, <1>3, <1>4 DEF IssueCreate, Consistent, TypeOK

LEMMA RevokeInStoreKeeps ==
    ASSUME TypeOK, WellIssued, NEW id \in Ids, NEW reason \in Reasons,
           creds[id] # None, RevokeInStore(id, reason)
    PROVE  /\ creds' \in [Ids -> Record \cup {None}]
           /\ \A i \in Ids : creds[i] # None => creds'[i] # None /\ creds'[i].payload = creds[i].payload
           /\ \A i \in Ids : creds'[i] # None => creds[i] # None
<1>1. /\ Revoked(creds[id], reason) \in Record
      /\ Revoked(creds[id], reason).payload = creds[id].payload
  BY RevokedRecord DEF TypeOK
<1>2. QED
  BY <1>1 DEF TypeOK, RevokeInStore

LEMMA RevokeKeeps ==
    ASSUME Consistent, NEW w \in Workers, NEW id \in Ids, NEW reason \in Reasons, UNCHANGED backend,
           Revoke(w, id, reason)
    PROVE  Consistent'
<1>1. Fixed /\ UNCHANGED <<detached, acked>>
  BY DEF Revoke, Fixed
<1>2. PICK code : Answer(w, code, id)
  BY DEF Revoke
<1>3. CASE UNCHANGED creds
  BY <1>1, <1>2, <1>3, AnswerKeeps DEF Store
<1>4. CASE creds[id] # None /\ RevokeInStore(id, reason)
  <2>1. /\ creds' \in [Ids -> Record \cup {None}]
        /\ \A i \in Ids : creds[i] # None => creds'[i] # None /\ creds'[i].payload = creds[i].payload
        /\ \A i \in Ids : creds'[i] # None => creds[i] # None
    BY <1>4, RevokeInStoreKeeps DEF Consistent
  <2> USE DEF Consistent, TypeOK, InHand, Registry, WellIssued, WellMade, Answer, Fixed, regVars
  <2>2. TypeOK'
    BY <1>1, <1>2, <2>1
  <2>3. (Registry /\ InHand)'
    BY <1>1, <1>2
  <2>4. WellIssued'
    BY <1>1, <1>2, <2>1 DEF Request
  <2>5. QED
    BY <2>2, <2>3, <2>4
<1>5. QED
  BY <1>3, <1>4 DEF Revoke

LEMMA DetachKeeps ==
    ASSUME Consistent, NEW w \in Workers, NEW s \in Statement, UNCHANGED backend, Detach(w, s)
    PROVE  Consistent'
<1> USE DEF Consistent, TypeOK, InHand, Registry, WellIssued, WellMade, Answer, regVars, Detach
<1>1. TypeOK'
  BY DEF Statement
<1>2. (Registry /\ InHand)'
  BY DEF CanFail
<1>3. WellIssued'
  OBVIOUS
<1>4. QED
  BY <1>1, <1>2, <1>3

LEMMA RunDetachedKeeps ==
    ASSUME Consistent, NEW s \in detached, UNCHANGED backend, RunDetached(s)
    PROVE  Consistent'
<1> USE DEF Consistent, TypeOK, InHand, Registry, WellIssued, WellMade, regVars
<1>1. /\ UNCHANGED <<backend, docs, held, settled, pc, req, acked, now>>
      /\ detached' = detached \ {s} /\ reply' = Silent /\ Silent.id = None
  BY DEF RunDetached, Silent
<1>2. (Registry /\ InHand)'
  BY <1>1
<1>3. CASE UNCHANGED creds
  BY <1>1, <1>2, <1>3
<1>4. CASE s.op = "create" /\ Vacant(s.id) /\ creds' = [creds EXCEPT ![s.id] = Fresh(s.payload)]
  <2>1. s.id \in Ids /\ s.payload \in Payload
    BY <1>4 DEF Statement
  <2>2. Fresh(s.payload) \in Record /\ Fresh(s.payload).payload = s.payload
    BY <2>1, FreshRecord
  <2>3. TypeOK'
    BY <1>1, <1>4, <2>1, <2>2
  <2>4. WellIssued'
    BY <1>1, <1>4, <2>1, <2>2 DEF Vacant
  <2>5. QED
    BY <1>2, <2>3, <2>4
<1>5. CASE s.op = "revoke" /\ creds[s.id] # None /\ RevokeInStore(s.id, s.reason)
  <2>1. s.id \in Ids /\ s.reason \in Reasons
    BY <1>5 DEF Statement
  <2>2. /\ creds' \in [Ids -> Record \cup {None}]
        /\ \A i \in Ids : creds[i] # None => creds'[i] # None /\ creds'[i].payload = creds[i].payload
        /\ \A i \in Ids : creds'[i] # None => creds[i] # None
    BY <1>5, <2>1, RevokeInStoreKeeps
  <2>3. TypeOK'
    BY <1>1, <2>2
  <2>4. WellIssued'
    BY <1>1, <2>2 DEF Request
  <2>5. QED
    BY <1>2, <2>3, <2>4
<1>6. QED
  BY <1>3, <1>4, <1>5 DEF RunDetached

LEMMA OtherKeeps ==
    ASSUME Consistent, UNCHANGED backend, Restart \/ RegistryStep \/ Tick
    PROVE  Consistent'
<1> USE DEF Consistent, TypeOK, InHand, Registry, WellIssued, WellMade, regVars, Store, Silent
<1>1. CASE Tick
  BY <1>1 DEF Tick
<1>2. CASE RegistryStep
  <2>1. /\ docs' \in [DIDs -> Reg!Document \cup {None}]
        /\ held' \in [DIDs -> SUBSET Keys]
        /\ settled' \subseteq DIDs
        /\ Registry'
        /\ \A d \in DIDs : held[d] \subseteq held'[d] /\ (docs[d] # None => docs'[d] # None)
    BY <1>2, MovesKeep DEF RegistryStep
  <2>2. UNCHANGED <<creds, detached, acked, pc, req, now>> /\ reply'.id = None
    BY <1>2 DEF RegistryStep
  <2>3. TypeOK'
    BY <2>1, <2>2
  <2>4. \A p \in Payload : WellMade(p) => WellMade(p)'
    BY <2>1 DEF Payload
  <2>5. WellIssued'
    BY <2>2, <2>4 DEF Request, Record, Statement
  <2>6. InHand'
    BY <2>1, <2>2 DEF Request, Payload
  <2>7. QED
    BY <2>1, <2>3, <2>5, <2>6
<1>3. CASE Restart /\ backend = "memory"
  BY <1>3 DEF Restart, Reg!Wipe
<1>4. CASE Restart /\ backend = "postgres"
  BY <1>4 DEF Restart
<1>5. QED
  BY <1>1, <1>2, <1>3, <1>4

LEMMA InvariantInductive == Consistent /\ [Next]_vars => Consistent'
<1>1. Consistent /\ UNCHANGED vars => Consistent'
  BY DEF vars, Consistent, TypeOK, InHand, Registry, WellIssued, WellMade
<1>2. QED
  BY <1>1, IssueKeeps, IssueProofKeeps, IssueCreateKeeps, RevokeKeeps, VerifyKeeps, DetachKeeps,
     RunDetachedKeeps, OtherKeeps
     DEF Next, Act

LEMMA Initially == Init => Consistent /\ IssuedOnce
  BY DEF Init, Consistent, TypeOK, InHand, Registry, WellIssued, IssuedOnce, Silent, Reg!NoDocuments

\* Every credential stored, on its way into the store or half verified carries
\* a proof made with a key of its issuer (credential.go:61-66, 112-128).
THEOREM CredentialsAreWellIssued == Spec => []Consistent
<1>1. Init => Consistent
  BY Initially
<1>2. Consistent /\ [Next]_vars => Consistent'
  BY InvariantInductive
<1>3. QED
  BY <1>1, <1>2, PTL DEF Spec, Consistent

-----------------------------------------------------------------------------
\* How a step may change the stored credentials.
Emptied == /\ backend = "memory"
           /\ creds' = [i \in Ids |-> None] /\ acked' = [i \in Ids |-> 0]
           /\ docs' = [d \in DIDs |-> None]

Stored(id, p) == creds[id] = None /\ creds' = [creds EXCEPT ![id] = Fresh(p)]

Amended(id) == creds[id] # None /\ \E reason \in Reasons : RevokeInStore(id, reason)

LEMMA CredsChange ==
    ASSUME Consistent, [Next]_vars
    PROVE  \/ UNCHANGED <<creds, acked>>
           \/ Emptied
           \/ \E w \in Workers : /\ IssueCreate(w) /\ Stored(req[w].id, req[w].payload)
                                 /\ \/ acked' = [acked EXCEPT ![req[w].id] = @ + 1]
                                    \/ UNCHANGED acked
           \/ \E s \in detached : s.op = "create" /\ Stored(s.id, s.payload) /\ UNCHANGED acked
           \/ \E id \in Ids : Amended(id) /\ UNCHANGED acked
<1>1. ASSUME NEW w \in Workers,
             \/ \E id \in Ids, p \in Payload : IssueSubject(w, id, p)
             \/ IssueProof(w)
             \/ \E id \in Ids : VerifyGet(w, id)
             \/ VerifyProof(w)
             \/ \E s \in Statement : Detach(w, s)
      PROVE  UNCHANGED <<creds, acked>>
  BY <1>1 DEF IssueSubject, IssueProof, VerifyGet, VerifyProof, Detach, Store
<1>2. ASSUME NEW w \in Workers, IssueCreate(w)
      PROVE  \/ UNCHANGED <<creds, acked>>
             \/ /\ Stored(req[w].id, req[w].payload)
                /\ acked' = [acked EXCEPT ![req[w].id] = @ + 1] \/ UNCHANGED acked
  BY <1>2 DEF IssueCreate, Stored, Vacant
<1>3. ASSUME NEW w \in Workers, NEW id \in Ids, NEW reason \in Reasons, Revoke(w, id, reason)
      PROVE  UNCHANGED <<creds, acked>> \/ (Amended(id) /\ UNCHANGED acked)
  BY <1>3 DEF Revoke, Amended
<1>4. ASSUME NEW s \in detached, RunDetached(s)
      PROVE  \/ UNCHANGED <<creds, acked>>
             \/ s.op = "create" /\ Stored(s.id, s.payload) /\ UNCHANGED acked
             \/ \E id \in Ids : Amended(id) /\ UNCHANGED acked
  <2>1. s.op = "revoke" => s.id \in Ids /\ s.reason \in Reasons
    BY DEF Consistent, TypeOK, Statement
  <2>2. QED
    BY <1>4, <2>1 DEF RunDetached, Stored, Vacant, Amended
<1>5. Restart \/ RegistryStep \/ Tick => UNCHANGED <<creds, acked>> \/ Emptied
  BY DEF Restart, RegistryStep, Tick, Store, Emptied, Reg!Wipe
<1>6. UNCHANGED vars => UNCHANGED <<creds, acked>>
  BY DEF vars
<1>7. QED
  BY <1>1, <1>2, <1>3, <1>4, <1>5, <1>6 DEF Next, Act

\* An identifier is issued at most once, and what was issued is stored: the
\* primary key decides, not the order of requests (credential_store.go:50-59,
\* 117-142).
THEOREM IssueIsOnce == Spec => []IssuedOnce
<1>1. ASSUME Consistent, IssuedOnce, [Next]_vars
      PROVE  IssuedOnce'
  <2> USE <1>1 DEF IssuedOnce, Consistent, TypeOK
  <2>1. CASE UNCHANGED <<creds, acked>>
    BY <2>1
  <2>2. CASE Emptied
    BY <2>2 DEF Emptied
  <2>3. ASSUME NEW w \in Workers, IssueCreate(w), Stored(req[w].id, req[w].payload),
               acked' = [acked EXCEPT ![req[w].id] = @ + 1] \/ UNCHANGED acked
        PROVE  IssuedOnce'
    <3>1. req[w].id \in Ids /\ Fresh(req[w].payload) # None
      BY <2>3, FreshRecord DEF InHand, IssueCreate, Request
    <3>2. acked[req[w].id] = 0
      BY <2>3, <3>1 DEF Stored
    <3>3. QED
      BY <2>3, <3>1, <3>2 DEF Stored
  <2>4. ASSUME NEW s \in detached, s.op = "create", Stored(s.id, s.payload), UNCHANGED acked
        PROVE  IssuedOnce'
    <3>1. s.id \in Ids /\ Fresh(s.payload) # None
      BY <2>4, FreshRecord DEF Statement
    <3>2. QED
      BY <2>4, <3>1 DEF Stored
  <2>5. ASSUME NEW id \in Ids, Amended(id), UNCHANGED acked
        PROVE  IssuedOnce'
    BY <2>5, RevokeInStoreKeeps DEF Amended
  <2>6. QED
    BY <2>1, <2>2, <2>3, <2>4, <2>5, CredsChange
<1>2. QED
  BY <1>1, Initially, InvariantInductive, PTL DEF Spec

\* What may become of a stored credential.
Follows(rec, new) == /\ new # None
                     /\ new.payload = rec.payload
                     /\ rec.revoked => new.revoked
                     /\ rec.reason # "" => new.reason = rec.reason

LEMMA StoredFollows ==
    ASSUME Consistent, [Next]_vars, ~Lost, NEW i \in Ids, creds[i] # None
    PROVE  Follows(creds[i], creds'[i])
<1> USE DEF Consistent, TypeOK, Follows
<1>1. CASE UNCHANGED creds
  BY <1>1
<1>2. ~Emptied
  BY DEF Emptied, Lost
<1>3. ASSUME NEW id, NEW p, Stored(id, p)
      PROVE  creds'[i] = creds[i]
  BY <1>3 DEF Stored
<1>4. ASSUME NEW id \in Ids, NEW reason \in Reasons, creds[id] # None, RevokeInStore(id, reason)
      PROVE  Follows(creds[i], creds'[i])
  <2>1. /\ Revoked(creds[id], reason) \in Record
        /\ Revoked(creds[id], reason).payload = creds[id].payload
        /\ Revoked(creds[id], reason).revoked
        /\ creds[id].reason # "" => Revoked(creds[id], reason).reason = creds[id].reason
    BY <1>4, RevokedRecord
  <2>2. CASE id = i
    <3>1. creds'[i] = Revoked(creds[i], reason)
      BY <1>4, <2>2 DEF RevokeInStore
    <3>2. QED
      BY <2>1, <2>2, <3>1
  <2>3. CASE id # i
    BY <1>4, <2>3 DEF RevokeInStore
  <2>4. QED
    BY <2>2, <2>3
<1>5. QED
  BY <1>1, <1>2, <1>3, <1>4, CredsChange DEF Amended

\* A stored credential is not replaced and its revocation not withdrawn
\* (credential_store.go:85-99, 188-207).
THEOREM RecordIsKept == Spec => RecordKept
<1>1. Consistent /\ [Next]_vars =>
        [\A i \in Ids : creds[i] # None =>
           \/ Lost
           \/ /\ creds'[i] # None
              /\ creds'[i].payload = creds[i].payload
              /\ creds[i].revoked => creds'[i].revoked
              /\ creds[i].reason # "" => creds'[i].reason = creds[i].reason]_vars
  BY StoredFollows DEF Follows
<1>2. QED
  BY <1>1, Initially, InvariantInductive, PTL DEF Spec, RecordKept

LEMMA RecordIsEntry ==
    ASSUME NEW rec \in Record
    PROVE  rec = Ledger!Entry(rec.payload, rec.revoked, rec.reason)
  BY DEF Record, Ledger!Entry

\* A revocation is a withdrawal, or changes nothing.
LEMMA AmendedWithdraws ==
    ASSUME Consistent, NEW id \in Ids, Amended(id), UNCHANGED <<backend, acked>>
    PROVE  UNCHANGED creds \/ \E reason \in Reasons : Ledger!Withdraw(id, reason)
<1> DEFINE rec == creds[id]
<1>1. rec \in Record /\ rec # None
  BY DEF Consistent, TypeOK, Amended
<1>2. PICK reason \in Reasons : creds' = [creds EXCEPT ![id] = Revoked(rec, reason)]
  BY DEF Amended, RevokeInStore
<1> DEFINE new == Revoked(rec, reason)
           r == new.reason
<1>3. /\ new \in Record /\ new.payload = rec.payload /\ new.revoked = TRUE /\ r \in Reasons
      /\ rec.reason \in {"", r}
  BY <1>1, RevokedRecord DEF Record
<1>4. new = Ledger!Entry(rec.payload, TRUE, r)
  BY <1>3, RecordIsEntry
<1> HIDE DEF new
<1>5. Ledger!Withdraw(id, r)
  BY <1>1, <1>2, <1>3, <1>4 DEF Ledger!Withdraw, new
<1>6. QED
  BY <1>3, <1>5

\* Requests split at their calls, retried, failing or landing late implement a
\* table of identifiers that are entered once and only withdrawn
\* (credential_store.go:50-99, 117-142, 188-207).
THEOREM LedgerIsImplemented == Spec => ImplementsLedger
<1>1. Init => (backend = "memory") \in BOOLEAN /\ Ledger!Blank
  BY DEF Init, Ledger!Blank
<1>2. ASSUME Consistent, [Next]_vars
      PROVE  [Ledger!LedgerNext]_(Ledger!ledgerVars)
  <2>1. UNCHANGED backend
    BY <1>2 DEF Next, vars
  <2>2. CASE UNCHANGED <<creds, acked>>
    BY <2>1, <2>2 DEF Ledger!ledgerVars
  <2>3. CASE Emptied
    BY <2>1, <2>3 DEF Emptied, Ledger!LedgerNext, Ledger!LedgerStep, Ledger!Lose, Ledger!Blank
  <2>4. ASSUME NEW id \in Ids, NEW p \in Payload, Stored(id, p),
               acked' = [acked EXCEPT ![id] = @ + 1] \/ UNCHANGED acked
        PROVE  Ledger!LedgerNext
    <3>1. Fresh(p) = Ledger!Entry(p, FALSE, "")
      BY DEF Fresh, Ledger!Entry
    <3>2. Ledger!Enter(id, p)
      BY <2>4, <3>1 DEF Stored, Ledger!Enter
    <3>3. QED
      BY <2>1, <2>4, <3>2 DEF Ledger!LedgerNext, Ledger!LedgerStep
  <2>5. ASSUME NEW w \in Workers, IssueCreate(w)
        PROVE  req[w].id \in Ids /\ req[w].payload \in Payload
    BY <1>2, <2>5 DEF Consistent, InHand, IssueCreate, Request
  <2>6. ASSUME NEW s \in detached, s.op = "create"
        PROVE  s.id \in Ids /\ s.payload \in Payload
    BY <1>2, <2>6 DEF Consistent, TypeOK, Statement
  <2>7. ASSUME NEW id \in Ids, Amended(id), UNCHANGED acked
        PROVE  UNCHANGED <<creds, acked>> \/ Ledger!LedgerNext
    <3>1. CASE UNCHANGED creds
      BY <2>7, <3>1
    <3>2. CASE \E reason \in Reasons : Ledger!Withdraw(id, reason)
      BY <2>1, <3>2 DEF Ledger!LedgerNext, Ledger!LedgerStep
    <3>3. QED
      BY <1>2, <2>1, <2>7, <3>1, <3>2, AmendedWithdraws
  <2>8. QED
    <3>1. CASE \E w \in Workers : /\ IssueCreate(w) /\ Stored(req[w].id, req[w].payload)
                                  /\ \/ acked' = [acked EXCEPT ![req[w].id] = @ + 1]
                                     \/ UNCHANGED acked
      BY <2>4, <2>5, <3>1
    <3>2. CASE \E s \in detached : s.op = "create" /\ Stored(s.id, s.payload) /\ UNCHANGED acked
      BY <2>4, <2>6, <3>2
    <3>3. CASE \E id \in Ids : Amended(id) /\ UNCHANGED acked
      BY <2>1, <2>2, <2>7, <3>3
    <3>4. QED
      BY <1>2, <2>2, <2>3, <3>1, <3>2, <3>3, CredsChange
<1>3. QED
  BY <1>1, <1>2, Initially, InvariantInductive, PTL DEF Spec, ImplementsLedger, Ledger!LedgerSpec

-----------------------------------------------------------------------------
\* Time only goes on.
LEMMA NowGrows == Consistent /\ [Next]_vars => now' \in Nat /\ now <= now'
<1>1. Consistent => now \in Nat
  BY DEF Consistent, TypeOK
<1>2. [Next]_vars => UNCHANGED now \/ now' = now + 1
  BY DEF Next, Act, vars, IssueSubject, IssueProof, IssueCreate, Revoke, VerifyGet, VerifyProof,
         Detach, RunDetached, Restart, RegistryStep, Tick
<1>3. QED
  BY <1>1, <1>2

\* A call of a request ends it or has another to follow.
Ends(w) == \E code, id : Answer(w, code, id) /\ code \notin {"valid", "invalid"}
GoesOn(w, next) == \E r : Proceed(w, next, r)

LEMMA RequestStep ==
    ASSUME NEW w \in Workers,
           \/ \E id \in Ids, p \in Payload : IssueSubject(w, id, p)
           \/ IssueProof(w)
           \/ IssueCreate(w)
           \/ \E id \in Ids, reason \in Reasons : Revoke(w, id, reason)
           \/ \E s \in Statement : Detach(w, s)
    PROVE  Ends(w) \/ GoesOn(w, "issuer") \/ GoesOn(w, "create")
<1> USE DEF Ends, GoesOn
<1>1. ASSUME NEW id \in Ids, NEW p \in Payload, IssueSubject(w, id, p)
      PROVE  Ends(w) \/ GoesOn(w, "issuer")
  <2>1. Answer(w, "400", id) \/ Proceed(w, "issuer", [id |-> id, payload |-> p])
    BY <1>1 DEF IssueSubject
  <2>2. QED
    BY <2>1
<1>2. CASE IssueProof(w)
  <2>1. Answer(w, "400", req[w].id) \/ Proceed(w, "create", req[w])
    BY <1>2 DEF IssueProof
  <2>2. QED
    BY <2>1
<1>3. CASE IssueCreate(w)
  <2>1. \/ Answer(w, "201", req[w].id)
        \/ Answer(w, "409", req[w].id)
        \/ Answer(w, "500", req[w].id)
    BY <1>3 DEF IssueCreate
  <2>2. QED
    BY <2>1
<1>4. ASSUME NEW id \in Ids, NEW reason \in Reasons, Revoke(w, id, reason)
      PROVE  Ends(w)
  <2>1. Answer(w, "404", id) \/ Answer(w, "200", id) \/ Answer(w, "500", id)
    BY <1>4 DEF Revoke
  <2>2. QED
    BY <2>1
<1>5. ASSUME NEW s \in Statement, Detach(w, s)
      PROVE  Ends(w)
  BY <1>5 DEF Detach
<1>6. QED
  BY <1>1, <1>2, <1>3, <1>4, <1>5

LEMMA VerifyGetStep ==
    ASSUME NEW w \in Workers, NEW id \in Ids, VerifyGet(w, id)
    PROVE  Ends(w) \/ GoesOn(w, "proof")
<1>1. \/ Answer(w, "500", id)
      \/ Answer(w, "not found", id)
      \/ Answer(w, "revoked or expired", id)
      \/ Proceed(w, "proof", [id |-> id, payload |-> creds[id].payload])
  BY DEF VerifyGet
<1>2. CASE Proceed(w, "proof", [id |-> id, payload |-> creds[id].payload])
  BY <1>2 DEF GoesOn
<1>3. ASSUME NEW code \in {"500", "not found", "revoked or expired"}, Answer(w, code, id)
      PROVE  Ends(w)
  BY <1>3 DEF Ends
<1>4. QED
  BY <1>1, <1>2, <1>3

\* A verification gets past its first half only with a credential in good
\* standing,
LEMMA OnlyGoodProceed ==
    ASSUME Consistent, [Next]_vars, NEW w \in Workers, pc'[w] = "proof"
    PROVE  \/ pc[w] = "proof" /\ req'[w] = req[w]
           \/ /\ req'[w].id \in Ids /\ creds[req'[w].id] # None
              /\ StatusOK(creds[req'[w].id]) /\ UNCHANGED creds
<1> USE DEF Consistent, TypeOK
<1>a. ASSUME NEW v \in Workers, NEW code, NEW id, Answer(v, code, id)
      PROVE  pc[w] = "proof" /\ req'[w] = req[w]
  <2>1. CASE v = w
    BY <1>a, <2>1 DEF Answer
  <2>2. CASE v # w
    BY <1>a, <2>2 DEF Answer
  <2>3. QED
    BY <2>1, <2>2
<1>b. ASSUME NEW v \in Workers, NEW next, NEW r, Proceed(v, next, r), v # w \/ next # "proof"
      PROVE  pc[w] = "proof" /\ req'[w] = req[w]
  <2>1. CASE v = w
    BY <1>b, <2>1 DEF Proceed
  <2>2. CASE v # w
    BY <1>b, <2>2 DEF Proceed
  <2>3. QED
    BY <2>1, <2>2
<1>1. ASSUME NEW v \in Workers, NEW id \in Ids, VerifyGet(v, id)
      PROVE  \/ pc[w] = "proof" /\ req'[w] = req[w]
             \/ /\ req'[w].id \in Ids /\ creds[req'[w].id] # None
                /\ StatusOK(creds[req'[w].id]) /\ UNCHANGED creds
  <2>1. CASE \E code : Answer(v, code, id)
    BY <1>a, <2>1
  <2> DEFINE r == [id |-> id, payload |-> creds[id].payload]
  <2>2. CASE creds[id] # None /\ StatusOK(creds[id]) /\ Proceed(v, "proof", r)
    <3>1. CASE v # w
      BY <1>b, <2>2, <3>1
    <3>2. CASE v = w
      <4>1. req'[w] = r /\ r.id = id
        BY <2>2, <3>2 DEF Proceed
      <4>2. UNCHANGED creds
        BY <1>1 DEF VerifyGet, Store
      <4> HIDE DEF r
      <4>3. QED
        BY <2>2, <4>1, <4>2
    <3>3. QED
      BY <3>1, <3>2
  <2>3. QED
    BY <1>1, <2>1, <2>2 DEF VerifyGet
<1>2. ASSUME NEW v \in Workers,
             \/ \E id \in Ids, p \in Payload : IssueSubject(v, id, p)
             \/ IssueProof(v)
             \/ IssueCreate(v)
             \/ \E id \in Ids, reason \in Reasons : Revoke(v, id, reason)
             \/ VerifyProof(v)
             \/ \E s \in Statement : Detach(v, s)
      PROVE  pc[w] = "proof" /\ req'[w] = req[w]
  <2>1. CASE VerifyProof(v)
    BY <1>a, <2>1 DEF VerifyProof
  <2>2. CASE Ends(v)
    BY <1>a, <2>2 DEF Ends
  <2>3. CASE GoesOn(v, "issuer") \/ GoesOn(v, "create")
    BY <1>b, <2>3 DEF GoesOn
  <2>4. QED
    BY <1>2, <2>1, <2>2, <2>3, RequestStep
<1>3. CASE Restart
  BY <1>3 DEF Restart
<1>4. CASE RegistryStep \/ Tick \/ UNCHANGED vars \/ \E s \in detached : RunDetached(s)
  BY <1>4 DEF RegistryStep, Tick, RunDetached, vars
<1>5. QED
  BY <1>1, <1>2, <1>3, <1>4 DEF Next, Act

\* and is judged only by its second.
LEMMA OnlyProofJudges ==
    ASSUME Consistent, [Next]_vars, reply'.code \in {"valid", "invalid"}, ~UNCHANGED vars
    PROVE  \E w \in Workers : /\ pc[w] = "proof" /\ reply'.id = req[w].id
                              /\ reply'.code = "valid" => ProofOK(req[w].payload)
                              /\ reply'.code = "invalid" /\ ~CanFail => ~ProofOK(req[w].payload)
<1>1. Silent.code \notin {"valid", "invalid"}
  BY DEF Silent
<1>2. ASSUME NEW w \in Workers, VerifyProof(w)
      PROVE  /\ pc[w] = "proof" /\ reply'.id = req[w].id
             /\ reply'.code = "valid" => ProofOK(req[w].payload)
             /\ reply'.code = "invalid" /\ ~CanFail => ~ProofOK(req[w].payload)
  BY <1>2 DEF VerifyProof, Answer
<1>a. ASSUME NEW w \in Workers, NEW code, NEW id, Answer(w, code, id)
      PROVE  code \in {"valid", "invalid"}
  BY <1>a DEF Answer
<1>b. ASSUME NEW w \in Workers, NEW next, NEW r, Proceed(w, next, r)
      PROVE  FALSE
  BY <1>1, <1>b DEF Proceed
<1>3. ASSUME NEW w \in Workers,
             \/ \E id \in Ids, p \in Payload : IssueSubject(w, id, p)
             \/ IssueProof(w)
             \/ IssueCreate(w)
             \/ \E id \in Ids, reason \in Reasons : Revoke(w, id, reason)
             \/ \E id \in Ids : VerifyGet(w, id)
             \/ \E s \in Statement : Detach(w, s)
      PROVE  FALSE
  <2>1. Ends(w) \/ GoesOn(w, "issuer") \/ GoesOn(w, "create") \/ GoesOn(w, "proof")
    BY <1>3, RequestStep, VerifyGetStep
  <2>2. QED
    BY <1>a, <1>b, <2>1 DEF Ends, GoesOn
<1>4. CASE Restart \/ RegistryStep \/ Tick \/ \E s \in detached : RunDetached(s)
  BY <1>1, <1>4 DEF Restart, RegistryStep, Tick, RunDetached
<1>5. QED
  BY <1>2, <1>3, <1>4 DEF Next, Act

\* A verification begun after a credential was revoked or expired never finds
\* it valid (credential.go:112-128, 232-246).
THEOREM DeadIsForEver == Spec => DeadStaysDead
<1>1. ASSUME Consistent, [Next]_vars, ~UNCHANGED vars, NEW i \in Ids, Dead(i), ~Lost
      PROVE  Dead(i)' /\ ~(reply'.code = "valid" /\ reply'.id = i)
  <2> USE <1>1 DEF Dead
  <2>1. Follows(creds[i], creds'[i])
    BY StoredFollows
  <2>2. (creds[i].revoked \/ Expired(creds[i].payload))'
    <3>1. creds[i].payload.expires \in Nat \cup {None}
      BY DEF Consistent, TypeOK, Record, Payload
    <3>2. now \in Nat /\ now' \in Nat /\ now <= now'
      BY NowGrows DEF Consistent, TypeOK
    <3>3. CASE creds[i].revoked
      BY <2>1, <3>3 DEF Follows
    <3>4. CASE Expired(creds[i].payload)
      <4>1. creds'[i].payload = creds[i].payload
        BY <2>1 DEF Follows
      <4>2. creds[i].payload.expires # None /\ now' >= creds[i].payload.expires
        BY <3>1, <3>2, <3>4 DEF Expired
      <4>3. QED
        BY <4>1, <4>2 DEF Expired
    <3>5. QED
      BY <3>3, <3>4
  <2>3. ASSUME NEW w \in Workers, pc'[w] = "proof"
        PROVE  req'[w].id # i
    BY <2>3, OnlyGoodProceed DEF StatusOK
  <2>4. ~(reply'.code = "valid" /\ reply'.id = i)
    BY OnlyProofJudges
  <2>5. QED
    BY <2>1, <2>2, <2>3, <2>4 DEF Follows
<1>2. Consistent /\ [Next]_vars =>
        [\A i \in Ids : Dead(i) =>
           \/ Lost
           \/ Dead(i)' /\ ~(reply'.code = "valid" /\ reply'.id = i)]_vars
  BY <1>1
<1>3. QED
  BY <1>2, Initially, InvariantInductive, PTL DEF Spec, DeadStaysDead

\* What is found valid is the stored credential, and its issuer is active and
\* holds the key of its proof; and in memory that is all it takes: the text of
\* what was stored is never the reason (credential.go:253-301).
LEMMA JudgedStored ==
    ASSUME Consistent, [Next]_vars, reply'.code \in {"valid", "invalid"}, ~UNCHANGED vars
    PROVE  LET rec == creds[reply'.id] IN
           /\ rec # None /\ rec.payload \in Payload /\ Portable(rec.payload.claims)
           /\ reply'.code = "valid" => ProofOK(rec.payload)
           /\ reply'.code = "invalid" /\ ~CanFail => ~ProofOK(rec.payload)
<1>1. PICK w \in Workers : /\ pc[w] = "proof" /\ reply'.id = req[w].id
                           /\ reply'.code = "valid" => ProofOK(req[w].payload)
                           /\ reply'.code = "invalid" /\ ~CanFail => ~ProofOK(req[w].payload)
  BY OnlyProofJudges
<1>2. req[w] \in Request /\ WellMade(req[w].payload)
  BY <1>1 DEF Consistent, WellIssued, InHand
<1>3. creds[req[w].id] # None /\ creds[req[w].id].payload = req[w].payload
  BY <1>1 DEF Consistent, WellIssued
<1>4. req[w].payload \in Payload
  BY <1>2 DEF Request
<1>5. QED
  BY <1>1, <1>2, <1>3, <1>4 DEF WellMade

LEMMA ValidIsRight ==
    ASSUME Consistent, [Next]_vars, reply'.code = "valid", ~UNCHANGED vars
    PROVE  LET rec == creds[reply'.id] IN
           rec # None /\ ProofOK(rec.payload)
  BY JudgedStored

THEOREM JudgementIsRight == Spec => JudgedRightly
<1> DEFINE rec == creds[reply'.id]
           Rightly == Active(rec.payload.issuer) /\ docs[rec.payload.issuer].key = rec.payload.signer
<1>1. ASSUME Consistent, [Next]_vars, ~UNCHANGED vars, reply'.code \in {"valid", "invalid"}
      PROVE  /\ rec # None
             /\ reply'.code = "valid" => Rightly
             /\ reply'.code = "invalid" /\ ~CanFail => ~Rightly
  <2>1. /\ rec # None /\ rec.payload \in Payload /\ Portable(rec.payload.claims)
        /\ reply'.code = "valid" => ProofOK(rec.payload)
        /\ reply'.code = "invalid" /\ ~CanFail => ~ProofOK(rec.payload)
    BY <1>1, JudgedStored
  <2>2. SameText(rec.payload)
    <3>1. rec.payload.claims \in Object
      BY <2>1, ClaimsAssumption DEF Payload
    <3>2. QED
      BY <2>1, <3>1, TextsAgree DEF SameText
  <2>3. ProofOK(rec.payload) <=> Rightly
    BY <2>2 DEF ProofOK
  <2>4. QED
    BY <2>1, <2>3
<1>2. Consistent /\ [Next]_vars =>
        [/\ reply'.code = "valid" => rec # None /\ Rightly
         /\ reply'.code = "invalid" /\ ~CanFail => rec # None /\ ~Rightly]_vars
  BY <1>1
<1>3. QED
  BY <1>2, Initially, InvariantInductive, PTL DEF Spec, JudgedRightly

-----------------------------------------------------------------------------
\* Only a request whose proof verified comes to create,
LEMMA OnlyProvenCreate ==
    ASSUME Consistent, [Next]_vars, NEW w \in Workers, pc'[w] = "create"
    PROVE  /\ req'[w] = req[w]
           /\ pc[w] = "create" \/ ProofOK(req[w].payload)
<1> DEFINE Kept == req'[w] = req[w] /\ pc[w] = "create"
<1> USE DEF Consistent, TypeOK
<1>a. ASSUME NEW v \in Workers, Ends(v)
      PROVE  Kept
  <2>1. CASE v = w
    BY <1>a, <2>1 DEF Ends, Answer
  <2>2. CASE v # w
    BY <1>a, <2>2 DEF Ends, Answer
  <2>3. QED
    BY <2>1, <2>2
<1>b. ASSUME NEW v \in Workers, NEW next, NEW r, Proceed(v, next, r), v # w \/ next # "create"
      PROVE  Kept
  <2>1. CASE v = w
    BY <1>b, <2>1 DEF Proceed
  <2>2. CASE v # w
    BY <1>b, <2>2 DEF Proceed
  <2>3. QED
    BY <2>1, <2>2
<1>1. ASSUME NEW v \in Workers, IssueProof(v)
      PROVE  Kept \/ (req'[w] = req[w] /\ ProofOK(req[w].payload))
  <2>1. CASE Answer(v, "400", req[v].id)
    BY <1>a, <2>1 DEF Ends
  <2>2. CASE ProofOK(req[v].payload) /\ Proceed(v, "create", req[v])
    <3>1. CASE v = w
      BY <2>2, <3>1 DEF Proceed
    <3>2. CASE v # w
      BY <1>b, <2>2, <3>2
    <3>3. QED
      BY <3>1, <3>2
  <2>3. QED
    BY <1>1, <2>1, <2>2 DEF IssueProof
<1>2. ASSUME NEW v \in Workers, \E id \in Ids, p \in Payload : IssueSubject(v, id, p)
      PROVE  Kept
  <2>1. PICK id \in Ids, p \in Payload : IssueSubject(v, id, p)
    BY <1>2
  <2>2. CASE Answer(v, "400", id)
    BY <1>a, <2>2 DEF Ends
  <2>3. CASE Proceed(v, "issuer", [id |-> id, payload |-> p])
    BY <1>b, <2>3
  <2>4. QED
    BY <2>1, <2>2, <2>3 DEF IssueSubject
<1>3. ASSUME NEW v \in Workers, NEW id \in Ids, VerifyGet(v, id)
      PROVE  Kept
  <2>1. CASE GoesOn(v, "proof")
    BY <1>b, <2>1 DEF GoesOn
  <2>2. QED
    BY <1>a, <1>3, <2>1, VerifyGetStep
<1>4. ASSUME NEW v \in Workers,
             \/ IssueCreate(v)
             \/ \E id \in Ids, reason \in Reasons : Revoke(v, id, reason)
             \/ VerifyProof(v)
             \/ \E s \in Statement : Detach(v, s)
      PROVE  Kept
  <2>1. ASSUME NEW code, NEW id, Answer(v, code, id)
        PROVE  Kept
    <3>1. CASE v = w
      BY <2>1, <3>1 DEF Answer
    <3>2. CASE v # w
      BY <2>1, <3>2 DEF Answer
    <3>3. QED
      BY <3>1, <3>2
  <2>2. CASE IssueCreate(v)
    BY <2>1, <2>2 DEF IssueCreate
  <2>3. CASE \E id \in Ids, reason \in Reasons : Revoke(v, id, reason)
    BY <2>1, <2>3 DEF Revoke
  <2>4. CASE VerifyProof(v)
    BY <2>1, <2>4 DEF VerifyProof
  <2>5. CASE \E s \in Statement : Detach(v, s)
    BY <2>1, <2>5 DEF Detach
  <2>6. QED
    BY <1>4, <2>2, <2>3, <2>4, <2>5
<1>5. ~Restart
  BY DEF Restart
<1>6. CASE RegistryStep \/ Tick \/ UNCHANGED vars \/ \E s \in detached : RunDetached(s)
  BY <1>6 DEF RegistryStep, Tick, RunDetached, vars
<1>7. QED
  BY <1>1, <1>2, <1>3, <1>4, <1>5, <1>6 DEF Next, Act

\* only such a request leaves a create behind,
LEMMA OnlyProvenDetach ==
    ASSUME Consistent, [Next]_vars, NEW s \in detached', s.op = "create"
    PROVE  \/ s \in detached
           \/ \E w \in Workers : pc[w] = "create" /\ s.payload = req[w].payload
<1>1. ASSUME NEW w \in Workers, NEW t \in Statement, Detach(w, t), s \notin detached
      PROVE  pc[w] = "create" /\ s.payload = req[w].payload
  <2>1. s = t
    BY <1>1 DEF Detach
  <2>2. QED
    BY <1>1, <2>1 DEF Detach
<1>2. CASE detached' \subseteq detached
  BY <1>2
<1>3. ASSUME NEW w \in Workers,
             \/ \E id \in Ids, p \in Payload : IssueSubject(w, id, p)
             \/ IssueProof(w)
             \/ IssueCreate(w)
             \/ \E id \in Ids, reason \in Reasons : Revoke(w, id, reason)
             \/ \E id \in Ids : VerifyGet(w, id)
             \/ VerifyProof(w)
      PROVE  detached' = detached
  BY <1>3 DEF IssueSubject, IssueProof, IssueCreate, Revoke, VerifyGet, VerifyProof, Store
<1>4. CASE Restart \/ RegistryStep \/ Tick \/ UNCHANGED vars \/ \E t \in detached : RunDetached(t)
  BY <1>4 DEF Restart, RegistryStep, Tick, RunDetached, vars, Store
<1>5. QED
  BY <1>1, <1>2, <1>3, <1>4 DEF Next, Act

\* and what is settled in the DID registry is lost only with it.
LEMMA SettledStays ==
    ASSUME Consistent, [Next]_vars, ~Lost
    PROVE  settled \subseteq settled'
<1>1. CASE Reg!Moves
  BY <1>1, MovesKeep DEF Consistent
<1>2. CASE UNCHANGED settled
  BY <1>2
<1>3. ASSUME NEW w \in Workers,
             \/ \E id \in Ids, p \in Payload : IssueSubject(w, id, p)
             \/ IssueProof(w)
             \/ IssueCreate(w)
             \/ \E id \in Ids, reason \in Reasons : Revoke(w, id, reason)
             \/ \E id \in Ids : VerifyGet(w, id)
             \/ VerifyProof(w)
             \/ \E s \in Statement : Detach(w, s)
      PROVE  UNCHANGED settled
  BY <1>3 DEF IssueSubject, IssueProof, IssueCreate, Revoke, VerifyGet, VerifyProof, Detach, regVars
<1>4. CASE Restart
  BY <1>4 DEF Restart, Reg!Wipe, Lost, regVars
<1>5. CASE Tick \/ UNCHANGED vars \/ \E s \in detached : RunDetached(s)
  BY <1>5 DEF Tick, vars, RunDetached, regVars
<1>6. QED
  BY <1>1, <1>2, <1>3, <1>4, <1>5 DEF Next, Act, RegistryStep

\* An issuer whose revocation has settled, and of whom no credential is past
\* its checks, issues none any more, and none of its own is found valid
\* (credential.go:61-72, 117-128, 254-260).
THEOREM RetiredIsForEver == Spec => IssuerRetires
<1>1. ASSUME Consistent, [Next]_vars, ~UNCHANGED vars, NEW d \in DIDs, Retired(d), ~Lost
      PROVE  /\ Retired(d)'
             /\ IssuedBy(d)' \subseteq IssuedBy(d)
             /\ ~(reply'.code = "valid" /\ reply'.id \in IssuedBy(d))
  <2> USE <1>1
  <2>1. \A p : p.issuer = d => ~ProofOK(p)
    BY DEF Retired, Consistent, Registry, ProofOK, Active
  <2>2. d \in settled'
    BY SettledStays DEF Retired
  <2>3. ASSUME NEW w \in Workers, pc'[w] = "create"
        PROVE  req'[w].payload.issuer # d
    <3>1. /\ req'[w] = req[w]
          /\ pc[w] = "create" \/ ProofOK(req[w].payload)
      BY <2>3, OnlyProvenCreate
    <3>2. QED
      BY <2>1, <3>1 DEF Retired
  <2>4. ASSUME NEW s \in detached', s.op = "create"
        PROVE  s.payload.issuer # d
    BY <2>4, OnlyProvenDetach DEF Retired
  <2>5. ASSUME NEW i \in Ids, creds'[i] # None, creds'[i].payload.issuer = d
        PROVE  creds[i] # None /\ creds[i].payload.issuer = d
    <3>1. CASE creds[i] # None
      BY <2>5, <3>1, StoredFollows DEF Follows
    <3>2. ASSUME NEW id \in Ids, NEW p \in Payload, Stored(id, p), p.issuer # d
          PROVE  creds'[i] = creds[i]
      BY <2>5, <3>2, FreshRecord DEF Stored, Consistent, TypeOK
    <3>3. ASSUME NEW w \in Workers, IssueCreate(w), Stored(req[w].id, req[w].payload)
          PROVE  creds'[i] = creds[i]
      <4>1. req[w].id \in Ids /\ req[w].payload \in Payload /\ req[w].payload.issuer # d
        BY <3>3 DEF Consistent, InHand, IssueCreate, Request, Retired
      <4>2. QED
        BY <3>2, <3>3, <4>1
    <3>4. ASSUME NEW s \in detached, s.op = "create", Stored(s.id, s.payload)
          PROVE  creds'[i] = creds[i]
      <4>1. s.id \in Ids /\ s.payload \in Payload /\ s.payload.issuer # d
        BY <3>4 DEF Consistent, TypeOK, Statement, Retired
      <4>2. QED
        BY <3>2, <3>4, <4>1
    <3>5. ASSUME NEW id \in Ids, Amended(id)
          PROVE  creds[i] # None
      BY <2>5, <3>5, RevokeInStoreKeeps DEF Amended, Consistent
    <3>6. CASE creds'[i] = creds[i]
      BY <2>5, <3>6
    <3>7. ~Emptied
      BY DEF Emptied, Lost
    <3>8. QED
      BY <3>1, <3>3, <3>4, <3>5, <3>6, <3>7, CredsChange
  <2>6. ~(reply'.code = "valid" /\ reply'.id \in IssuedBy(d))
    BY <2>1, ValidIsRight DEF IssuedBy
  <2>7. QED
    BY <2>2, <2>3, <2>4, <2>5, <2>6 DEF Retired, IssuedBy
<1>2. Consistent /\ [Next]_vars =>
        [\A d \in DIDs : Retired(d) =>
           \/ Lost
           \/ /\ Retired(d)'
              /\ IssuedBy(d)' \subseteq IssuedBy(d)
              /\ ~(reply'.code = "valid" /\ reply'.id \in IssuedBy(d))]_vars
  BY <1>1
<1>3. QED
  BY <1>2, Initially, InvariantInductive, PTL DEF Spec, IssuerRetires
=============================================================================
