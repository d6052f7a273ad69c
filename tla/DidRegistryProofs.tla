-------------------------- MODULE DidRegistryProofs --------------------------
(***************************************************************************)
(* Proofs about DidRegistry, for every set of DIDs, keys and workers, both *)
(* backends and any number of detached statements.                         *)
(***************************************************************************)
EXTENDS DidRegistry, TLAPS

USE AbsentAssumption

Codes == {"200", "201", "401", "404", "409", "500"}

\* Answering without touching the store keeps Consistent ...
LEMMA AnswerKeeps ==
    ASSUME Consistent, UNCHANGED backend, NEW w \in Workers, NEW code \in Codes, Answer(w, code), Untouched
    PROVE  Consistent'
<1> USE DEF Consistent, TypeOK, Answer, Untouched
<1>1. TypeOK'
  BY DEF Codes
<1>2. InHand'
  BY DEF CanFail, InHand, Prepared
<1>3. QED
  BY <1>1, <1>2

\* ... and so does going on to a store call the request is entitled to.
LEMMA ProceedKeeps ==
    ASSUME Consistent, UNCHANGED backend, NEW w \in Workers, NEW r \in Request, NEW doc \in Document \cup {Absent},
           NEW next \in {"create", "resolve", "update"},
           next \in {"create", "update"} => Prepared(r, doc),
           next = "resolve" => r.signer \in held[r.did],
           next = "create" <=> r.op = "register",
           Proceed(w, next, r, doc), Untouched
    PROVE  Consistent'
<1> USE DEF Consistent, TypeOK, Proceed, Untouched
<1>1. TypeOK'
  OBVIOUS
<1>2. InHand'
  BY DEF CanFail, InHand, Prepared
<1>3. QED
  BY <1>1, <1>2

\* Writing a document keeps the store typed, forgets no key, and remembers
\* the new one.
LEMMA WriteKeeps ==
    ASSUME Consistent, NEW d \in DIDs, NEW doc \in Document, Write(d, doc)
    PROVE  /\ docs' \in [DIDs -> Document \cup {Absent}]
           /\ held' \in [DIDs -> SUBSET Keys]
           /\ \A e \in DIDs : held[e] \subseteq held'[e]
           /\ \A e \in DIDs : docs'[e] # Absent => docs'[e].key \in held'[e]
<1>1. doc.key \in Keys
  BY DEF Document
<1>2. QED
  BY <1>1 DEF Consistent, TypeOK, InHand, Write

\* What a request may write stays so while the DID's keys only grow.
LEMMA PreparedStays ==
    ASSUME TypeOK, \A e \in DIDs : held[e] \subseteq held'[e],
           NEW r, NEW doc, Prepared(r, doc)
    PROVE  Prepared(r, doc)'
  BY DEF Prepared, Request

\* Each action of a worker, of the database and of the process keeps Consistent.
LEMMA RegisterCheckKeeps ==
    ASSUME Consistent, UNCHANGED backend, NEW w \in Workers, NEW d \in DIDs, NEW k \in Keys, NEW signer \in Keys,
           RegisterCheck(w, d, k, signer)
    PROVE  Consistent'
<1> DEFINE r == [op |-> "register", did |-> d, key |-> k, signer |-> signer]
           doc == [key |-> k, deactivated |-> FALSE]
<1>1. r \in Request /\ r.op = "register" /\ r.signer = signer /\ r.key = k
  BY DEF Request
<1>2. doc \in Document /\ doc.key = k /\ ~doc.deactivated
  BY DEF Document
<1>3. Untouched
  BY DEF RegisterCheck
<1>4. CASE signer = k /\ Proceed(w, "create", r, doc)
  <2>1. Prepared(r, doc)
    BY <1>1, <1>2, <1>4 DEF Prepared
  <2> HIDE DEF r, doc
  <2>2. QED
    BY <1>1, <1>2, <1>3, <1>4, <2>1, ProceedKeeps
<1>5. CASE \E code \in Codes : Answer(w, code)
  BY <1>3, <1>5, AnswerKeeps
<1>6. QED
  BY <1>4, <1>5 DEF RegisterCheck, Codes

LEMMA RegisterCreateKeeps ==
    ASSUME Consistent, UNCHANGED backend, NEW w \in Workers, RegisterCreate(w)
    PROVE  Consistent'
<1>1. req[w] \in Request /\ req[w].did \in DIDs
  BY DEF Consistent, InHand, RegisterCreate, Request
<1>2. pending[w] \in Document
  BY DEF Consistent, InHand, RegisterCreate, Prepared
<1>3. CASE Write(req[w].did, pending[w]) /\ pc[w] = "create"
  <2>1. /\ docs' \in [DIDs -> Document \cup {Absent}]
        /\ held' \in [DIDs -> SUBSET Keys]
        /\ \A e \in DIDs : held[e] \subseteq held'[e]
        /\ \A e \in DIDs : docs'[e] # Absent => docs'[e].key \in held'[e]
    BY <1>1, <1>2, <1>3, WriteKeeps
  <2>2. CASE UNCHANGED detached
    <3>1. TypeOK'
      BY <1>1, <2>1, <2>2 DEF RegisterCreate, Consistent, TypeOK, Answer, Untouched
    <3>2. InHand'
      BY <2>1, <2>2 DEF CanFail, RegisterCreate, Consistent, TypeOK, InHand, Prepared, Answer, Untouched, Request
    <3>3. QED
      BY <3>1, <3>2 DEF Consistent
  <2>3. QED
    BY <2>2 DEF RegisterCreate, Untouched
<1>4. CASE Answer(w, "500") /\ Untouched
  BY <1>4, AnswerKeeps DEF Codes
<1>5. QED
  BY <1>3, <1>4 DEF RegisterCreate

LEMMA AuthorizeKeeps ==
    ASSUME Consistent, UNCHANGED backend, NEW w \in Workers, NEW r \in Request, r.op # "register", Authorize(w, r)
    PROVE  Consistent'
<1>1. CASE \E code \in Codes : Answer(w, code)
  BY <1>1, AnswerKeeps DEF Authorize
<1>2. CASE Proceed(w, "resolve", r, Absent) /\ docs[r.did] # Absent /\ r.signer = docs[r.did].key
  <2>1. r.signer \in held[r.did]
    BY <1>2 DEF Consistent, InHand, Request
  <2>2. QED
    BY <1>2, <2>1, ProceedKeeps DEF Authorize
<1>3. QED
  BY <1>1, <1>2 DEF Authorize, Codes

\* What a request makes of the document it read.
LEMMA AmendedDocument ==
    ASSUME NEW doc \in Document, NEW r \in Request, r.op # "register"
    PROVE  /\ Amended(doc, r) \in Document
           /\ r.op = "revoke" => Amended(doc, r).deactivated /\ Amended(doc, r).key = doc.key
           /\ r.op = "update" => /\ Amended(doc, r).key = r.key
                                 /\ Amended(doc, r).deactivated = doc.deactivated
<1>1. CASE r.op = "revoke"
  BY <1>1 DEF Amended, Document
<1>2. CASE r.op = "update"
  BY <1>2 DEF Amended, Document, Request
<1>3. QED
  BY <1>1, <1>2 DEF Request

LEMMA ClientResolveKeeps ==
    ASSUME Consistent, UNCHANGED backend, NEW w \in Workers, ClientResolve(w)
    PROVE  Consistent'
<1> DEFINE r == req[w]
           doc == docs[r.did]
<1>1. r \in Request /\ r.did \in DIDs /\ r.op # "register" /\ r.signer \in held[r.did]
  BY DEF Consistent, InHand, ClientResolve, Request
<1>2. Untouched
  BY DEF ClientResolve
<1>3. CASE Answer(w, "500")
  BY <1>2, <1>3, AnswerKeeps DEF Codes
<1>4. CASE /\ doc # Absent /\ ~(r.op = "update" /\ doc.deactivated)
           /\ Proceed(w, "update", r, Amended(doc, r))
  <2>1. doc \in Document /\ doc.key \in held[r.did]
    BY <1>1, <1>4 DEF Consistent, TypeOK, InHand
  <2>2. Prepared(r, Amended(doc, r))
    BY <1>1, <1>4, <2>1, AmendedDocument DEF Prepared
  <2>3. Amended(doc, r) \in Document
    BY <2>2 DEF Prepared
  <2> HIDE DEF r, doc
  <2>4. QED
    BY <1>1, <1>2, <1>4, <2>2, <2>3, ProceedKeeps
<1>5. QED
  BY <1>3, <1>4 DEF ClientResolve

LEMMA StoreUpdateKeeps ==
    ASSUME Consistent, UNCHANGED backend, NEW w \in Workers, StoreUpdate(w)
    PROVE  Consistent'
<1>1. req[w] \in Request /\ req[w].did \in DIDs
  BY DEF Consistent, InHand, StoreUpdate, Request
<1>2. pending[w] \in Document
  BY DEF Consistent, InHand, StoreUpdate, Prepared
<1>3. CASE Write(req[w].did, pending[w]) /\ UNCHANGED <<detached, acked>>
  <2>1. /\ docs' \in [DIDs -> Document \cup {Absent}]
        /\ held' \in [DIDs -> SUBSET Keys]
        /\ \A e \in DIDs : held[e] \subseteq held'[e]
        /\ \A e \in DIDs : docs'[e] # Absent => docs'[e].key \in held'[e]
    BY <1>1, <1>2, <1>3, WriteKeeps
  <2>2. TypeOK'
    BY <1>3, <2>1 DEF StoreUpdate, Consistent, TypeOK, Answer, Untouched
  <2>3. InHand'
    BY <1>3, <2>1 DEF CanFail, StoreUpdate, Consistent, TypeOK, InHand, Prepared, Answer, Untouched, Request
  <2>4. QED
    BY <2>2, <2>3 DEF Consistent
<1>4. CASE Answer(w, "500") /\ Untouched
  BY <1>4, AnswerKeeps DEF Codes
<1>5. QED
  BY <1>3, <1>4 DEF StoreUpdate

LEMMA DetachKeeps ==
    ASSUME Consistent, UNCHANGED backend, NEW w \in Workers, Detach(w)
    PROVE  Consistent'
  BY DEF CanFail, Consistent, TypeOK, InHand, Prepared, Answer, Detach, Statement

LEMMA RunDetachedKeeps ==
    ASSUME Consistent, UNCHANGED backend, NEW s \in detached, RunDetached(s)
    PROVE  Consistent'
<1> USE DEF Consistent, TypeOK, InHand, Prepared, Write, RunDetached
<1>1. TypeOK'
  BY DEF Statement, Document, Request
<1>2. InHand'
  BY DEF CanFail, Statement, Document, Request
<1>3. QED
  BY <1>1, <1>2

LEMMA OtherKeeps ==
    ASSUME Consistent, UNCHANGED backend,
           \/ \E w \in Workers, d \in DIDs : Resolve(w, d)
           \/ Restart
           \/ UNCHANGED vars
    PROVE  Consistent'
<1> USE DEF Consistent, TypeOK, InHand, Prepared, Answer, Untouched
<1>1. ASSUME NEW w \in Workers, NEW d \in DIDs, Resolve(w, d) PROVE Consistent'
  BY <1>1 DEF CanFail, Resolve
<1>2. CASE Restart
  BY <1>2 DEF Restart, CanFail
<1>3. CASE UNCHANGED vars
  BY <1>3 DEF CanFail, vars
<1>4. QED
  BY <1>1, <1>2, <1>3

LEMMA InvariantInductive == Consistent /\ [Next]_vars => Consistent'
<1> SUFFICES ASSUME Consistent, [Act]_vars, UNCHANGED backend PROVE Consistent'
  BY DEF Next, vars
<1>1. ASSUME NEW w \in Workers, NEW d \in DIDs, NEW signer \in Keys, RevokeAuthorize(w, d, signer)
      PROVE  Consistent'
  <2> DEFINE r == [op |-> "revoke", did |-> d, key |-> signer, signer |-> signer]
  <2>1. r \in Request /\ r.op # "register"
    BY DEF Request
  <2>2. QED
    BY <1>1, <2>1, AuthorizeKeeps DEF RevokeAuthorize
<1>2. ASSUME NEW w \in Workers, NEW d \in DIDs, NEW k \in Keys, NEW signer \in Keys,
             UpdateAuthorize(w, d, k, signer)
      PROVE  Consistent'
  <2> DEFINE r == [op |-> "update", did |-> d, key |-> k, signer |-> signer]
  <2>1. r \in Request /\ r.op # "register"
    BY DEF Request
  <2>2. QED
    BY <1>2, <2>1, AuthorizeKeeps DEF UpdateAuthorize
<1>3. QED
  BY <1>1, <1>2, RegisterCheckKeeps, RegisterCreateKeeps, ClientResolveKeeps, StoreUpdateKeeps,
     DetachKeeps, RunDetachedKeeps, OtherKeeps
     DEF Next, Act, Step

LEMMA Initially == Init => Consistent /\ OneRegistration
  BY DEF Init, Consistent, TypeOK, InHand, OneRegistration

\* Every variable keeps its type, and what is in hand stays covered by a
\* signature of a key the DID has had (did.go:140-164, 200-232).
THEOREM InHandInvariant == Spec => []Consistent
<1>1. Init => Consistent
  BY Initially
<1>2. Consistent /\ [Next]_vars => Consistent'
  BY InvariantInductive
<1>3. QED
  BY <1>1, <1>2, PTL DEF Spec

-----------------------------------------------------------------------------
\* Writing a document with a key the DID has had adds none.
LEMMA KnownKey ==
    ASSUME TypeOK, NEW d \in DIDs, NEW e \in DIDs, NEW doc, Write(e, doc),
           e = d => doc.key \in held[d]
    PROVE  held'[d] = held[d]
<1>1. CASE e = d
  <2>1. held[d] \cup {doc.key} = held[d]
    BY <1>1
  <2>2. held'[d] = held[d] \cup {doc.key}
    BY <1>1 DEF TypeOK, Write
  <2>3. QED
    BY <2>1, <2>2
<1>2. CASE e # d
  BY <1>2 DEF TypeOK, Write
<1>3. QED
  BY <1>1, <1>2

LEMMA SettledKept ==
    ASSUME Consistent, [Next]_vars, NEW d \in DIDs, Settled(d),
           ~(backend = "memory" /\ \A e \in DIDs : ~Registered(e)')
    PROVE  Settled(d)' /\ held'[d] = held[d]
<1>0. backend' = backend
  BY DEF Next, vars
<1> USE <1>0 DEF Consistent, TypeOK, InHand, Settled, Deactivated, Registered
<1>1. ASSUME NEW w \in Workers, NEW e \in DIDs, NEW k \in Keys, NEW signer \in Keys,
             RegisterCheck(w, e, k, signer)
      PROVE  Settled(d)' /\ held'[d] = held[d]
  BY <1>1 DEF RegisterCheck, Answer, Proceed, Untouched
<1>2. ASSUME NEW w \in Workers, RegisterCreate(w)
      PROVE  Settled(d)' /\ held'[d] = held[d]
  BY <1>2 DEF RegisterCreate, MayInsert, Write, Answer, Untouched, Request
<1>3. ASSUME NEW w \in Workers, NEW r, Authorize(w, r)
      PROVE  Settled(d)' /\ held'[d] = held[d]
  BY <1>3 DEF Authorize, Answer, Proceed, Untouched
<1>4. ASSUME NEW w \in Workers, ClientResolve(w)
      PROVE  Settled(d)' /\ held'[d] = held[d]
  <2> DEFINE r == req[w]
  <2>1. r \in Request /\ r.did \in DIDs /\ r.op # "register"
    BY <1>4 DEF ClientResolve, Request
  <2>2. CASE Answer(w, "500")
    BY <1>4, <2>2 DEF ClientResolve, Answer, Untouched
  <2>3. CASE /\ docs[r.did] # Absent /\ ~(r.op = "update" /\ docs[r.did].deactivated)
             /\ Proceed(w, "update", r, Amended(docs[r.did], r))
    <3>1. r.did = d => Amended(docs[r.did], r).deactivated
      BY <2>1, <2>3, AmendedDocument DEF Request
    <3>2. QED
      BY <1>4, <2>3, <3>1 DEF ClientResolve, Proceed, Untouched
  <2>4. QED
    BY <1>4, <2>2, <2>3 DEF ClientResolve
<1>5. ASSUME NEW w \in Workers, StoreUpdate(w)
      PROVE  Settled(d)' /\ held'[d] = held[d]
  <2>1. req[w].did = d => pending[w].deactivated /\ pending[w].key \in held[d]
    BY <1>5 DEF StoreUpdate, Prepared, Request
  <2>2. held'[d] = held[d]
    BY <1>5, <2>1, KnownKey DEF StoreUpdate, Untouched, Request
  <2>3. pending[w] \in Document
    BY <1>5 DEF StoreUpdate, Prepared
  <2>4. Settled(d)'
    BY <1>5, <2>1, <2>3 DEF StoreUpdate, Write, Answer, Untouched
  <2>5. QED
    BY <2>2, <2>4
<1>6. ASSUME NEW w \in Workers, Detach(w)
      PROVE  Settled(d)' /\ held'[d] = held[d]
  BY <1>6 DEF Detach, Answer, Prepared
<1>7. ASSUME NEW s \in detached, RunDetached(s)
      PROVE  Settled(d)' /\ held'[d] = held[d]
  <2>1. s.req.did = d /\ s.req.op # "register" => s.doc.deactivated /\ s.doc.key \in held[d]
    BY DEF Prepared, Request
  <2>2. held'[d] = held[d]
    BY <1>7, <2>1, KnownKey DEF RunDetached, Statement, Request
  <2>3. Settled(d)'
    BY <1>7, <2>1 DEF RunDetached, Write, Prepared
  <2>4. QED
    BY <2>2, <2>3
<1>8. ASSUME NEW w \in Workers, NEW e \in DIDs, Resolve(w, e)
      PROVE  Settled(d)' /\ held'[d] = held[d]
  BY <1>8 DEF Resolve, Answer, Untouched
<1>9. CASE Restart
  BY <1>9 DEF Restart
<1>10. CASE UNCHANGED vars
  BY <1>10 DEF vars
<1>11. QED
  BY <1>1, <1>2, <1>3, <1>4, <1>5, <1>6, <1>7, <1>8, <1>9, <1>10
     DEF Next, Act, Step, RevokeAuthorize, UpdateAuthorize

\* A settled revocation is final (client.go:78-109): no order of later
\* requests, failures, late statements or Postgres restarts undoes it.
THEOREM SettledIsFinal == Spec => RevocationSettles
<1>1. Consistent /\ [Next]_vars =>
        [\A d \in DIDs : Settled(d) =>
           \/ Settled(d)' /\ held'[d] = held[d]
           \/ backend = "memory" /\ \A e \in DIDs : ~Registered(e)']_vars
  BY SettledKept
<1>2. QED
  BY <1>1, InHandInvariant, PTL DEF Spec, RevocationSettles

-----------------------------------------------------------------------------
\* With Postgres a DID's registration is acknowledged at most once and then
\* is there for good (postgres_store.go:35-46 under did.go:69-88).
THEOREM RegistrationIsOnce == Spec => []OneRegistration
<1>1. ASSUME Consistent, OneRegistration, [Next]_vars
      PROVE  OneRegistration'
  <2> SUFFICES ASSUME backend = "postgres", backend' = "postgres", NEW d \in DIDs
               PROVE  acked'[d] <= 1 /\ (acked'[d] = 1 => docs'[d] # Absent)
    BY <1>1 DEF OneRegistration, Registered, Next, vars
  <2> USE <1>1 DEF Consistent, TypeOK, OneRegistration, Registered
  <2>1. ASSUME NEW w \in Workers, RegisterCreate(w)
        PROVE  acked'[d] <= 1 /\ (acked'[d] = 1 => docs'[d] # Absent)
    <3>1. req[w].did \in DIDs /\ pending[w] # Absent
      BY <2>1 DEF RegisterCreate, InHand, Prepared, Request
    <3>2. QED
      BY <2>1, <3>1 DEF RegisterCreate, MayInsert, Write, Untouched
  <2>2. ASSUME NEW w \in Workers, StoreUpdate(w)
        PROVE  acked'[d] <= 1 /\ (acked'[d] = 1 => docs'[d] # Absent)
    <3>1. req[w].did \in DIDs /\ pending[w] # Absent
      BY <2>2 DEF StoreUpdate, InHand, Prepared, Request
    <3>2. QED
      BY <2>2, <3>1 DEF StoreUpdate, Write, Untouched
  <2>3. ASSUME NEW s \in detached, RunDetached(s)
        PROVE  acked'[d] <= 1 /\ (acked'[d] = 1 => docs'[d] # Absent)
    <3>1. s.req.did \in DIDs /\ s.doc # Absent
      BY DEF Statement, Request
    <3>2. QED
      BY <2>3, <3>1 DEF RunDetached, Write
  <2>4. CASE UNCHANGED <<docs, acked>>
    BY <2>4
  <2>5. CASE Restart
    BY <2>4, <2>5 DEF Restart
  <2>6. CASE UNCHANGED vars
    BY <2>4, <2>6 DEF vars
  <2>7. ASSUME NEW w \in Workers,
               \/ \E e \in DIDs, k, signer \in Keys : RegisterCheck(w, e, k, signer)
               \/ \E r : Authorize(w, r)
               \/ \E e \in DIDs : Resolve(w, e)
               \/ ClientResolve(w)
               \/ Detach(w)
        PROVE  UNCHANGED <<docs, acked>>
    BY <2>7 DEF Untouched, RegisterCheck, Authorize, Resolve, ClientResolve, Detach
  <2>8. QED
    BY <2>1, <2>2, <2>3, <2>4, <2>5, <2>6, <2>7
       DEF Next, Act, Step, RevokeAuthorize, UpdateAuthorize
<1>2. QED
  BY <1>1, Initially, InHandInvariant, PTL DEF Spec

-----------------------------------------------------------------------------
Entitled(r, d, k) == /\ r # Absent /\ r.did = d /\ r.key = k
                     /\ \/ r.op = "register" /\ r.signer = r.key
                        \/ r.op = "update" /\ r.signer \in held[d]

\* The steps that change the stored documents.
LEMMA DocsChange ==
    ASSUME [Next]_vars
    PROVE  \/ UNCHANGED <<docs, held>>
           \/ /\ backend = "memory"
              /\ docs' = [d \in DIDs |-> Absent] /\ held' = [d \in DIDs |-> {}]
           \/ \E w \in Workers : (RegisterCreate(w) \/ StoreUpdate(w)) /\ Write(req[w].did, pending[w])
           \/ \E s \in detached : Write(s.req.did, s.doc)
<1>1. ASSUME NEW w \in Workers,
             \/ \E d \in DIDs, k, signer \in Keys : RegisterCheck(w, d, k, signer)
             \/ \E r : Authorize(w, r)
             \/ \E d \in DIDs : Resolve(w, d)
             \/ ClientResolve(w)
             \/ Detach(w)
      PROVE  UNCHANGED <<docs, held>>
  BY <1>1 DEF Untouched, RegisterCheck, Authorize, Resolve, ClientResolve, Detach
<1>2. ASSUME NEW w \in Workers, RegisterCreate(w) \/ StoreUpdate(w)
      PROVE  UNCHANGED <<docs, held>> \/ Write(req[w].did, pending[w])
  BY <1>2 DEF RegisterCreate, StoreUpdate, Untouched
<1>3. ASSUME NEW s \in detached, RunDetached(s)
      PROVE  UNCHANGED <<docs, held>> \/ Write(s.req.did, s.doc)
  BY <1>3 DEF RunDetached
<1>4. Restart => \/ UNCHANGED <<docs, held>>
                 \/ /\ backend = "memory"
                    /\ docs' = [d \in DIDs |-> Absent] /\ held' = [d \in DIDs |-> {}]
  BY DEF Restart
<1>5. QED
  BY <1>1, <1>2, <1>3, <1>4 DEF Next, Act, Step, RevokeAuthorize, UpdateAuthorize, vars

\* A write of a prepared document brings in only a key its request is
\* entitled to.
LEMMA WriteEntitled ==
    ASSUME TypeOK, NEW d \in DIDs, NEW r, NEW doc, Prepared(r, doc), Write(r.did, doc),
           docs'[d].key \notin held[d], \A e \in DIDs : docs[e] # Absent => docs[e].key \in held[e],
           docs'[d] # Absent
    PROVE  Entitled(r, d, docs'[d].key)
<1>1. r.did = d /\ docs'[d] = doc
  BY DEF TypeOK, Write, Prepared, Request
<1>2. QED
  BY <1>1 DEF Entitled, Prepared, Request

\* No key enters a DID's document but through a signature of a key the DID
\* had before (did.go:227), or with its registration (did.go:64).
THEOREM CustodyUnbroken == Spec => KeyCustody
<1>1. ASSUME Consistent, [Next]_vars, NEW d \in DIDs, docs'[d] # Absent, docs'[d].key \notin held[d]
      PROVE  \E r \in {req[w] : w \in Workers} \cup {s.req : s \in detached} :
                Entitled(r, d, docs'[d].key)
  <2> USE <1>1 DEF Consistent, InHand
  <2>1. ASSUME NEW w \in Workers, RegisterCreate(w) \/ StoreUpdate(w),
               Write(req[w].did, pending[w])
        PROVE  Entitled(req[w], d, docs'[d].key)
    BY <2>1, WriteEntitled DEF RegisterCreate, StoreUpdate
  <2>2. ASSUME NEW s \in detached, Write(s.req.did, s.doc)
        PROVE  Entitled(s.req, d, docs'[d].key)
    BY <2>2, WriteEntitled
  <2>3. docs' # docs
    OBVIOUS
  <2>4. docs' # [e \in DIDs |-> Absent]
    OBVIOUS
  <2>5. \/ \E w \in Workers : (RegisterCreate(w) \/ StoreUpdate(w)) /\ Write(req[w].did, pending[w])
        \/ \E s \in detached : Write(s.req.did, s.doc)
    BY <2>3, <2>4, DocsChange
  <2>6. QED
    BY <2>1, <2>2, <2>5
<1>2. Consistent /\ [Next]_vars =>
        [\A d \in DIDs : Registered(d)' /\ docs'[d].key \notin held[d] =>
           \E r \in {req[w] : w \in Workers} \cup {s.req : s \in detached} :
              /\ r # Absent /\ r.did = d /\ r.key = docs'[d].key
              /\ \/ r.op = "register" /\ r.signer = r.key
                 \/ r.op = "update" /\ r.signer \in held[d]]_vars
  BY <1>1 DEF Entitled, Registered
<1>3. QED
  BY <1>2, InHandInvariant, PTL DEF Spec, KeyCustody

-----------------------------------------------------------------------------
SettledDids == {d \in DIDs : Settled(d)}

\* Unless the step empties the registry, settled revocations stay.
LEMMA SettledGrow ==
    ASSUME Consistent, [Next]_vars,
           ~(backend = "memory" /\ \A e \in DIDs : ~Registered(e)')
    PROVE  View!Settle(SettledDids')
<1>1. SettledDids \subseteq SettledDids'
  BY SettledKept DEF SettledDids
<1>2. \A d \in SettledDids' : docs'[d] # Absent /\ docs'[d].deactivated
  BY DEF SettledDids, Settled, Deactivated, Registered
<1>3. SettledDids' = SettledDids \cup SettledDids'
  BY <1>1
<1>4. QED
  BY <1>2, <1>3 DEF View!Settle, SettledDids

\* Each step that writes a document is a move of the view.
LEMMA WriteIsMove ==
    ASSUME Consistent, [Next]_vars, NEW d \in DIDs, NEW doc \in Document, Write(d, doc)
    PROVE  View!Moves
<1>1. docs'[d] = doc /\ Registered(d)'
  BY DEF Consistent, TypeOK, Write, Registered
<1>2. d \in SettledDids => doc.deactivated /\ doc.key \in held[d]
  <2> SUFFICES ASSUME Settled(d) PROVE doc.deactivated /\ doc.key \in held[d]
    BY DEF SettledDids
  <2>1. Settled(d)' /\ held'[d] = held[d]
    BY <1>1, SettledKept
  <2>2. doc.key \in held'[d]
    BY DEF Consistent, TypeOK, Write
  <2>3. QED
    BY <1>1, <2>1, <2>2 DEF Settled, Deactivated
<1>3. View!Move(d, doc)
  BY <1>2 DEF View!Move, Write, SettledDids
<1>4. View!Settle(SettledDids')
  BY <1>1, SettledGrow
<1>5. doc \in View!Document /\ SettledDids' \in SUBSET DIDs
  BY DEF View!Document, Document, SettledDids
<1>6. QED
  BY <1>3, <1>4, <1>5 DEF View!Moves

\* What the other handlers rely on when they resolve a DID (client.go:74-76)
\* is what the registry does.
THEOREM RegistryImplementsView == Spec => ImplementsView
<1>1. Init => View!NoDocuments
  BY DEF Init, View!NoDocuments, Settled, Deactivated, Registered
<1>2. ASSUME Consistent, [Next]_vars
      PROVE  [View!Moves \/ (backend = "memory" /\ View!Wipe)]_(View!viewVars)
  <2> USE <1>2 DEF Consistent, InHand
  <2>1. ASSUME NEW w \in Workers, RegisterCreate(w) \/ StoreUpdate(w), Write(req[w].did, pending[w])
        PROVE  View!Moves
    <3>1. req[w].did \in DIDs /\ pending[w] \in Document
      BY <2>1 DEF RegisterCreate, StoreUpdate, Prepared, Request
    <3>2. QED
      BY <2>1, <3>1, WriteIsMove
  <2>2. ASSUME NEW s \in detached, Write(s.req.did, s.doc)
        PROVE  View!Moves
    <3>1. s.req.did \in DIDs /\ s.doc \in Document
      BY DEF Prepared, Request
    <3>2. QED
      BY <2>2, <3>1, WriteIsMove
  <2>3. CASE docs' = [d \in DIDs |-> Absent] /\ held' = [d \in DIDs |-> {}] /\ backend = "memory"
    BY <2>3 DEF View!Wipe, Settled, Deactivated, Registered
  <2>4. CASE UNCHANGED <<docs, held>>
    <3>1. CASE backend = "memory" /\ \A e \in DIDs : ~Registered(e)'
      <4>1. SettledDids = {} /\ SettledDids' = {}
        BY <2>4, <3>1 DEF SettledDids, Settled, Deactivated, Registered
      <4>2. QED
        BY <2>4, <4>1 DEF View!viewVars, SettledDids
    <3>2. CASE ~(backend = "memory" /\ \A e \in DIDs : ~Registered(e)')
      <4>1. View!Settle(SettledDids') /\ SettledDids' \in SUBSET DIDs
        BY <3>2, SettledGrow DEF SettledDids
      <4>2. QED
        BY <2>4, <4>1 DEF View!Moves
    <3>3. QED
      BY <3>1, <3>2
  <2>5. QED
    BY <2>1, <2>2, <2>3, <2>4, DocsChange
<1>3. QED
  BY <1>1, <1>2, InHandInvariant, PTL DEF Spec, ImplementsView

-----------------------------------------------------------------------------
\* While requests for a DID are kept apart, what a request read is still what
\* the store holds, and so it is for a statement that outlived one.
Current ==
    /\ OneRequestPerDid
    /\ \A w \in Workers :
         LET doc == docs[req[w].did] IN
         /\ pc[w] = "create" => doc = Absent
         /\ pc[w] \in {"resolve", "update"} =>
              /\ doc # Absent /\ doc.key = req[w].signer
              /\ req[w].op = "update" => ~doc.deactivated
         /\ pc[w] = "update" => pending[w] = Amended(doc, req[w])
    /\ \A s \in detached :
         LET doc == docs[s.req.did] IN
         IF s.req.op = "register" THEN doc = Absent
         ELSE /\ doc # Absent /\ doc.key = s.req.signer
              /\ s.req.op = "update" => ~doc.deactivated
              /\ s.doc = Amended(doc, s.req)

LEMMA CurrentInductive ==
    ASSUME Consistent, Current, [Next /\ OneRequestPerDid']_vars
    PROVE  Current'
<1>0. backend' = backend
  BY DEF Next, vars
<1> USE <1>0 DEF Consistent, TypeOK, InHand, Current
<1>1. CASE UNCHANGED vars
  BY <1>1 DEF vars, OneRequestPerDid
<1>2. CASE Restart /\ OneRequestPerDid'
  <2>1. CASE backend = "memory"
    BY <1>2, <2>1 DEF Restart, CanFail
  <2>2. CASE backend # "memory"
    BY <1>2, <2>2 DEF Restart
  <2>3. QED
    BY <2>1, <2>2
<1>3. ASSUME NEW w \in Workers, OneRequestPerDid',
             NEW d \in DIDs, NEW k \in Keys, NEW signer \in Keys, RegisterCheck(w, d, k, signer)
      PROVE  Current'
  BY <1>3 DEF RegisterCheck, Answer, Proceed, Untouched
<1>4. ASSUME NEW w \in Workers, OneRequestPerDid', NEW r \in Request, Authorize(w, r)
      PROVE  Current'
  BY <1>4 DEF Authorize, Answer, Proceed, Untouched
<1>5. ASSUME NEW w \in Workers, OneRequestPerDid', ClientResolve(w)
      PROVE  Current'
  BY <1>5 DEF ClientResolve, Answer, Proceed, Untouched
<1>6. ASSUME NEW w \in Workers, OneRequestPerDid', RegisterCreate(w) \/ StoreUpdate(w)
      PROVE  Current'
  <2>1. req[w].did \in DIDs
    BY <1>6 DEF RegisterCreate, StoreUpdate, Request
  <2>2. /\ \A v \in Workers \ {w} : pc[v] # "idle" => req[v].did # req[w].did
        /\ \A s \in detached : s.req.did # req[w].did
    BY <1>6 DEF OneRequestPerDid, RegisterCreate, StoreUpdate
  <2>3. /\ \A d \in DIDs \ {req[w].did} : docs'[d] = docs[d]
        /\ pc' = [pc EXCEPT ![w] = "idle"] /\ req' = [req EXCEPT ![w] = Absent]
        /\ pending' = [pending EXCEPT ![w] = Absent] /\ detached' = detached
    BY <1>6, <2>1 DEF RegisterCreate, StoreUpdate, Answer, Write, Untouched
  <2>4. ASSUME NEW v \in Workers, pc'[v] # "idle"
        PROVE  /\ v # w /\ pc'[v] = pc[v] /\ req'[v] = req[v] /\ pending'[v] = pending[v]
               /\ req[v].did \in DIDs /\ docs'[req[v].did] = docs[req[v].did]
    BY <2>2, <2>3, <2>4 DEF Request
  <2>5. ASSUME NEW s \in detached
        PROVE  s.req.did \in DIDs /\ docs'[s.req.did] = docs[s.req.did]
    BY <2>2, <2>3, <2>5 DEF Prepared, Request
  <2>6. QED
    BY <1>6, <2>3, <2>4, <2>5
<1>7. ASSUME NEW w \in Workers, OneRequestPerDid', NEW d \in DIDs, Resolve(w, d)
      PROVE  Current'
  BY <1>7 DEF Resolve, Answer, Untouched
<1>8. ASSUME NEW w \in Workers, OneRequestPerDid', Detach(w)
      PROVE  Current'
  <2>1. detached' = detached \cup {[req |-> req[w], doc |-> pending[w]]}
    BY <1>8 DEF Detach
  <2>2. \A s \in detached' : s \in detached \/ (s.req = req[w] /\ s.doc = pending[w])
    BY <2>1
  <2>3. QED
    BY <1>8, <2>2 DEF Detach, Answer
<1>9. ASSUME NEW s \in detached, OneRequestPerDid', RunDetached(s)
      PROVE  Current'
  <2>1. s.req.did \in DIDs
    BY DEF Prepared, Request
  <2>2. /\ \A w \in Workers : pc[w] # "idle" => req[w].did # s.req.did
        /\ \A t \in detached \ {s} : t.req.did # s.req.did
    BY DEF OneRequestPerDid
  <2>3. /\ \A d \in DIDs \ {s.req.did} : docs'[d] = docs[d]
        /\ detached' = detached \ {s} /\ UNCHANGED <<pc, req, pending>>
    BY <1>9, <2>1 DEF RunDetached, Write
  <2>4. ASSUME NEW w \in Workers, pc[w] # "idle"
        PROVE  req[w].did \in DIDs /\ docs'[req[w].did] = docs[req[w].did]
    BY <2>2, <2>3, <2>4 DEF Request
  <2>5. ASSUME NEW t \in detached \ {s}
        PROVE  t.req.did \in DIDs /\ docs'[t.req.did] = docs[t.req.did]
    BY <2>2, <2>3, <2>5 DEF Prepared, Request
  <2>6. QED
    BY <1>9, <2>3, <2>4, <2>5
<1>10. ASSUME NEW w \in Workers, OneRequestPerDid',
              \/ \E d \in DIDs, signer \in Keys : RevokeAuthorize(w, d, signer)
              \/ \E d \in DIDs, k, signer \in Keys : UpdateAuthorize(w, d, k, signer)
       PROVE  \E r \in Request : Authorize(w, r)
  BY <1>10 DEF RevokeAuthorize, UpdateAuthorize, Request
<1>11. QED
  BY <1>1, <1>2, <1>3, <1>4, <1>5, <1>6, <1>7, <1>8, <1>9, <1>10 DEF Next, Act, Step

LEMMA BarUnchanged == UNCHANGED docs => UNCHANGED <<statusBar, keyBar>>
  BY DEF statusBar, keyBar

\* A write changes the abstract registry at one DID.
LEMMA BarWrite ==
    ASSUME TypeOK, NEW d \in DIDs, NEW doc \in Document, Write(d, doc)
    PROVE  /\ statusBar' = [statusBar EXCEPT ![d] = StatusOf(doc)]
           /\ keyBar' = [keyBar EXCEPT ![d] = doc.key]
<1>1. docs' = [docs EXCEPT ![d] = doc] /\ doc # Absent
  BY DEF Write
<1>2. statusBar' = [statusBar EXCEPT ![d] = StatusOf(doc)]
  BY <1>1 DEF TypeOK, statusBar
<1>3. keyBar' = [keyBar EXCEPT ![d] = doc.key]
  BY <1>1 DEF TypeOK, keyBar, KeyOf
<1>4. QED
  BY <1>2, <1>3

\* The write of an update or a revocation whose copy is current is a rotation
\* or a deactivation.
LEMMA AmendIsAtomic ==
    ASSUME TypeOK, NEW r \in Request, r.op # "register", docs[r.did] \in Document,
           docs[r.did].key = r.signer, r.op = "update" => ~docs[r.did].deactivated,
           Write(r.did, Amended(docs[r.did], r)), Atomic!Acknowledge("200")
    PROVE  Atomic!Rotate(r.did, r.signer, r.key) \/ Atomic!Deactivate(r.did, r.signer)
<1> DEFINE doc == docs[r.did]
           new == Amended(doc, r)
<1>1. r.did \in DIDs /\ r.op \in {"revoke", "update"}
  BY DEF Request
<1>2. new \in Document /\ new # Absent /\ doc # Absent
  BY <1>1, AmendedDocument, AbsentAssumption
<1>3. /\ statusBar' = [statusBar EXCEPT ![r.did] = StatusOf(new)]
      /\ keyBar' = [keyBar EXCEPT ![r.did] = new.key]
  BY <1>1, <1>2, BarWrite
<1>4. /\ statusBar \in [DIDs -> {"none", "active", "deactivated"}]
      /\ statusBar[r.did] = StatusOf(doc) /\ statusBar[r.did] # "none"
      /\ keyBar[r.did] = r.signer
      /\ statusBar = [statusBar EXCEPT ![r.did] = StatusOf(doc)]
      /\ keyBar = [keyBar EXCEPT ![r.did] = doc.key]
  BY <1>1, <1>2 DEF statusBar, keyBar, StatusOf, KeyOf, TypeOK
<1>5. CASE r.op = "revoke"
  <2>1. StatusOf(new) = "deactivated" /\ new.key = doc.key
    BY <1>2, <1>5, AmendedDocument DEF StatusOf
  <2>2. QED
    BY <1>3, <1>4, <2>1 DEF Atomic!Deactivate
<1>6. CASE r.op = "update"
  <2>1. StatusOf(new) = "active" /\ StatusOf(doc) = "active" /\ new.key = r.key
    BY <1>2, <1>6, AmendedDocument DEF StatusOf
  <2>2. QED
    BY <1>3, <1>4, <2>1 DEF Atomic!Rotate
<1>7. QED
  BY <1>1, <1>5, <1>6

\* Each step is a step of the atomic registry, or none that it shows.
LEMMA StepIsAtomic ==
    ASSUME Consistent, Current, [Next /\ OneRequestPerDid']_vars
    PROVE  [Atomic!ANext]_(Atomic!avars)
<1>0. backend' = backend /\ CanFail' = CanFail
  BY DEF Next, vars, CanFail
<1> USE <1>0 DEF Consistent, TypeOK, InHand, Current, Atomic!ANext, Atomic!AStep
<1>1. CASE UNCHANGED vars
  BY <1>1, BarUnchanged DEF vars, Atomic!avars
<1>2. CASE Restart
  <2>1. CASE backend = "memory"
    <3>1. docs' = [d \in DIDs |-> Absent] /\ reply' = "-" /\ ~CanFail
      BY <1>2, <2>1 DEF Restart, CanFail
    <3>2. /\ statusBar' = [d \in DIDs |-> "none"]
          /\ keyBar' = [d \in DIDs |-> Absent]
      BY <3>1 DEF statusBar, keyBar, StatusOf, KeyOf
    <3>3. QED
      BY <3>1, <3>2 DEF Atomic!Wipe
  <2>2. CASE backend # "memory"
    BY <1>2, <2>2, BarUnchanged DEF Restart, Atomic!Working
  <2>3. QED
    BY <2>1, <2>2
<1>3. ASSUME NEW d \in DIDs, UNCHANGED docs,
             \/ reply' = "401"
             \/ reply' = "404" /\ (docs[d] = Absent \/ CanFail)
             \/ reply' = "409" /\ docs[d] # Absent
             \/ reply' = "500" /\ CanFail
      PROVE  Atomic!ANext
  BY <1>3, BarUnchanged DEF Atomic!Refuse, statusBar, StatusOf
<1>4. ASSUME UNCHANGED docs, reply' = "-"
      PROVE  Atomic!ANext
  BY <1>4, BarUnchanged DEF Atomic!Working
<1>5. ASSUME NEW w \in Workers, NEW d \in DIDs, NEW k \in Keys, NEW signer \in Keys,
             RegisterCheck(w, d, k, signer)
      PROVE  Atomic!ANext
  BY <1>3, <1>4, <1>5 DEF RegisterCheck, Answer, Proceed, Untouched
<1>6. ASSUME NEW w \in Workers, NEW r \in Request, Authorize(w, r)
      PROVE  Atomic!ANext
  BY <1>3, <1>4, <1>6 DEF Authorize, Answer, Proceed, Untouched, Request
<1>7. ASSUME NEW w \in Workers, ClientResolve(w)
      PROVE  Atomic!ANext
  <2>1. req[w].did \in DIDs
    BY <1>7 DEF ClientResolve, Request
  <2>2. QED
    BY <1>3, <1>4, <1>7, <2>1 DEF ClientResolve, Answer, Proceed, Untouched
<1>8. ASSUME NEW w \in Workers, NEW d \in DIDs, Resolve(w, d)
      PROVE  Atomic!ANext
  <2>1. CASE docs[d] # Absent /\ reply' = "200"
    BY <1>8, <2>1, BarUnchanged DEF Resolve, Untouched, Atomic!Resolved, statusBar, StatusOf
  <2>2. QED
    BY <1>3, <1>8, <2>1 DEF Resolve, Answer, Untouched
<1>9. ASSUME NEW w \in Workers, RegisterCreate(w)
      PROVE  Atomic!ANext
  <2> DEFINE r == req[w]
  <2>1. r.did \in DIDs /\ r.key \in Keys /\ docs[r.did] = Absent
    BY <1>9 DEF RegisterCreate, Request
  <2>2. pending[w] \in Document /\ pending[w].key = r.key /\ ~pending[w].deactivated
    BY <1>9 DEF RegisterCreate, Prepared
  <2>3. CASE Write(r.did, pending[w]) /\ (reply' = "201" \/ (CanFail /\ reply' = "500"))
    <3>1. /\ statusBar' = [statusBar EXCEPT ![r.did] = "active"]
          /\ keyBar' = [keyBar EXCEPT ![r.did] = r.key]
      BY <2>1, <2>2, <2>3, BarWrite DEF StatusOf
    <3>2. statusBar[r.did] = "none"
      BY <2>1 DEF statusBar, StatusOf
    <3>3. Atomic!Register(r.did, r.key)
      BY <2>3, <3>1, <3>2 DEF Atomic!Register, Atomic!Acknowledge
    <3>4. QED
      BY <2>1, <3>3
  <2>4. QED
    BY <1>3, <1>9, <2>1, <2>3 DEF RegisterCreate, Answer, Untouched
<1>10. ASSUME NEW w \in Workers, StoreUpdate(w)
       PROVE  Atomic!ANext
  <2> DEFINE r == req[w]
             doc == docs[r.did]
  <2>1. r \in Request /\ r.did \in DIDs /\ r.key \in Keys /\ r.signer \in Keys /\ r.op # "register"
    BY <1>10 DEF StoreUpdate, Request
  <2>2. /\ doc \in Document /\ doc.key = r.signer
        /\ r.op = "update" => ~doc.deactivated
        /\ pending[w] = Amended(doc, r)
    BY <1>10, <2>1 DEF StoreUpdate
  <2>3. CASE Write(r.did, pending[w]) /\ (reply' = "200" \/ (CanFail /\ reply' = "500"))
    <3>1. Atomic!Rotate(r.did, r.signer, r.key) \/ Atomic!Deactivate(r.did, r.signer)
      BY <2>1, <2>2, <2>3, AmendIsAtomic DEF Atomic!Acknowledge
    <3>2. QED
      BY <2>1, <3>1
  <2>4. QED
    BY <1>3, <1>10, <2>1, <2>2, <2>3 DEF StoreUpdate, Answer, Untouched
<1>11. ASSUME NEW w \in Workers, Detach(w)
       PROVE  Atomic!ANext
  <2>1. req[w].did \in DIDs
    BY <1>11 DEF Detach, Prepared, Request
  <2>2. QED
    BY <1>3, <1>11, <2>1 DEF Detach, Answer
<1>12. ASSUME NEW s \in detached, RunDetached(s)
       PROVE  Atomic!ANext
  <2> DEFINE r == s.req
             doc == docs[r.did]
  <2>1. /\ r \in Request /\ r.did \in DIDs /\ r.key \in Keys /\ r.signer \in Keys
        /\ s.doc \in Document /\ reply' = "-" /\ CanFail
    BY <1>12 DEF RunDetached, Prepared, Request
  <2>2. CASE Write(r.did, s.doc) /\ r.op = "register"
    <3>1. doc = Absent /\ s.doc.key = r.key /\ StatusOf(s.doc) = "active"
      BY <2>1, <2>2 DEF Prepared, StatusOf
    <3>2. Atomic!Register(r.did, r.key)
      BY <2>1, <2>2, <3>1, BarWrite DEF Atomic!Register, Atomic!Acknowledge, statusBar, StatusOf
    <3>3. QED
      BY <2>1, <3>2
  <2>3. CASE Write(r.did, s.doc) /\ r.op # "register"
    <3>1. /\ doc \in Document /\ doc.key = r.signer
          /\ r.op = "update" => ~doc.deactivated
          /\ s.doc = Amended(doc, r)
      BY <2>1, <2>3
    <3>2. Atomic!Rotate(r.did, r.signer, r.key) \/ Atomic!Deactivate(r.did, r.signer)
      BY <2>1, <2>3, <3>1, AmendIsAtomic DEF Atomic!Acknowledge
    <3>3. QED
      BY <2>1, <3>2
  <2>4. QED
    BY <1>4, <1>12, <2>1, <2>2, <2>3 DEF RunDetached
<1>13. ASSUME NEW w \in Workers,
              \/ \E d \in DIDs, signer \in Keys : RevokeAuthorize(w, d, signer)
              \/ \E d \in DIDs, k, signer \in Keys : UpdateAuthorize(w, d, k, signer)
       PROVE  \E r \in Request : Authorize(w, r)
  BY <1>13 DEF RevokeAuthorize, UpdateAuthorize, Request
<1>14. QED
  BY <1>1, <1>2, <1>5, <1>6, <1>7, <1>8, <1>9, <1>10, <1>11, <1>12, <1>13 DEF Next, Act, Step

\* Requests for one DID that do not overlap, each with the statement it may
\* leave behind, take effect atomically: the handlers, the client and either store implement AtomicDidRegistry.
THEOREM SerialImplementsAtomic == SerialSpec => SerialIsAtomic
<1>1. Init => Consistent /\ Current /\ Atomic!AInit
  BY Initially DEF CanFail, Init, Current, OneRequestPerDid, Atomic!AInit, statusBar, keyBar, StatusOf, KeyOf
<1>2. Consistent /\ Current /\ [Next /\ OneRequestPerDid']_vars => Consistent' /\ Current'
  BY InvariantInductive, CurrentInductive
<1>3. Consistent /\ Current /\ [Next /\ OneRequestPerDid']_vars => [Atomic!ANext]_(Atomic!avars)
  BY StepIsAtomic
<1>4. QED
  BY <1>1, <1>2, <1>3, PTL DEF SerialSpec, SerialIsAtomic, Atomic!ASpec
-----------------------------------------------------------------------------
\* What the documentation says of one DID holds when its requests are kept
\* apart: the overlaps, and they alone, break it.

\* No step of the atomic registry ends a deactivation but the loss of a memory
\* registry.
LEMMA AtomicStands ==
    ASSUME TypeOK, [Atomic!ANext]_(Atomic!avars), NEW d \in DIDs, Deactivated(d)
    PROVE  Deactivated(d)' \/ (backend = "memory" /\ \A e \in DIDs : ~Registered(e)')
<1>1. /\ statusBar[d] = "deactivated"
      /\ statusBar = [e \in DIDs |-> statusBar[e]]
  BY DEF statusBar, StatusOf, Deactivated, Registered
<1>2. /\ statusBar'[d] = "deactivated" => Deactivated(d)'
      /\ \A e \in DIDs : statusBar'[e] = "none" => ~Registered(e)'
  BY DEF statusBar, StatusOf, Deactivated, Registered
<1>3. CASE UNCHANGED statusBar
  BY <1>1, <1>2, <1>3
<1>4. ASSUME NEW e \in DIDs, NEW k \in Keys,
             \/ Atomic!Register(e, k)
             \/ \E signer \in Keys : Atomic!Deactivate(e, signer)
      PROVE  statusBar'[d] = "deactivated"
  BY <1>1, <1>4 DEF Atomic!Register, Atomic!Deactivate
<1>5. CASE Atomic!Wipe
  <2>1. backend = "memory" /\ \A e \in DIDs : statusBar'[e] = "none"
    BY <1>5 DEF Atomic!Wipe, CanFail, TypeOK
  <2>2. QED
    BY <1>2, <2>1
<1>6. ASSUME NEW e \in DIDs, \E signer, k \in Keys : Atomic!Rotate(e, signer, k)
      PROVE  UNCHANGED statusBar
  BY <1>6 DEF Atomic!Rotate
<1>7. UNCHANGED Atomic!avars \/ Atomic!Working \/ (\E e \in DIDs : Atomic!Refuse(e) \/ Atomic!Resolved(e))
        => UNCHANGED statusBar
  BY DEF Atomic!avars, Atomic!Working, Atomic!Refuse, Atomic!Resolved
<1>8. QED
  BY <1>2, <1>3, <1>4, <1>5, <1>6, <1>7 DEF Atomic!ANext, Atomic!AStep

\* index.ts:223 says of revoking "cannot be undone".  That is true if requests
\* for the DID do not overlap, and none begins while a statement that an earlier
\* one left behind can still run; failures and Postgres restarts are allowed
\* (client.go:78-109).
THEOREM SerialRevocationStands ==
    SerialSpec => [][\A d \in DIDs : Deactivated(d) =>
                       \/ Deactivated(d)'
                       \/ backend = "memory" /\ \A e \in DIDs : ~Registered(e)']_vars
<1>1. Init => Consistent /\ Current
  BY Initially DEF Init, Current, OneRequestPerDid
<1>2. Consistent /\ Current /\ [Next /\ OneRequestPerDid']_vars => Consistent' /\ Current'
  BY InvariantInductive, CurrentInductive
<1>3. Consistent /\ Current /\ [Next /\ OneRequestPerDid']_vars =>
        [\A d \in DIDs : Deactivated(d) =>
           \/ Deactivated(d)'
           \/ backend = "memory" /\ \A e \in DIDs : ~Registered(e)']_vars
  BY StepIsAtomic, AtomicStands DEF Consistent
<1>4. QED
  BY <1>1, <1>2, <1>3, PTL DEF SerialSpec

\* docs/openapi.yaml:83 has a second registration answered 409.  Without such
\* overlap a DID is registered once, with either store (did.go:69-88).
THEOREM SerialRegisteredOnce == SerialSpec => []RegisteredOnce
<1> DEFINE Once == \A d \in DIDs : acked[d] <= 1 /\ (acked[d] = 1 => docs[d] # Absent)
<1>1. Init => Consistent /\ Current /\ Once
  BY Initially DEF Init, Current, OneRequestPerDid
<1>2. Consistent /\ Current /\ [Next /\ OneRequestPerDid']_vars => Consistent' /\ Current'
  BY InvariantInductive, CurrentInductive
<1>3. ASSUME Consistent, Current, Once, [Next /\ OneRequestPerDid']_vars PROVE Once'
  <2>1. acked \in [DIDs -> Nat] /\ docs \in [DIDs -> Document \cup {Absent}]
    BY <1>3 DEF Consistent, TypeOK
  <2>2. ASSUME NEW w \in Workers, RegisterCreate(w) PROVE Once'
    <3>1. req[w].did \in DIDs /\ pending[w] # Absent /\ docs[req[w].did] = Absent
      BY <1>3, <2>2 DEF Consistent, InHand, Prepared, Request, Current, RegisterCreate
    <3>2. acked[req[w].did] = 0
      BY <1>3, <2>1, <3>1
    <3>3. QED
      BY <1>3, <2>1, <2>2, <3>1, <3>2 DEF RegisterCreate, Write, Untouched
  <2>3. ASSUME NEW w \in Workers, StoreUpdate(w) PROVE Once'
    <3>1. req[w].did \in DIDs /\ pending[w] # Absent
      BY <1>3, <2>3 DEF Consistent, InHand, Prepared, Request, StoreUpdate
    <3>2. QED
      BY <1>3, <2>1, <2>3, <3>1 DEF StoreUpdate, Write, Untouched
  <2>4. ASSUME NEW t \in detached, RunDetached(t) PROVE Once'
    <3>1. t.req.did \in DIDs /\ t.doc # Absent
      BY <1>3, <2>4, AbsentAssumption DEF Consistent, InHand, Prepared, Request
    <3>2. QED
      BY <1>3, <2>1, <2>4, <3>1 DEF RunDetached, Write
  <2>5. CASE UNCHANGED <<docs, acked>>
    BY <1>3, <2>5
  <2>6. CASE Restart
    BY <1>3, <2>5, <2>6 DEF Restart
  <2>7. ASSUME NEW w \in Workers,
               \/ \E e \in DIDs, k, signer \in Keys : RegisterCheck(w, e, k, signer)
               \/ \E r : Authorize(w, r)
               \/ \E e \in DIDs : Resolve(w, e)
               \/ ClientResolve(w)
               \/ Detach(w)
        PROVE  UNCHANGED <<docs, acked>>
    BY <2>7 DEF Untouched, RegisterCheck, Authorize, Resolve, ClientResolve, Detach
  <2>8. UNCHANGED vars => UNCHANGED <<docs, acked>>
    BY DEF vars
  <2> HIDE DEF Once
  <2>9. QED
    BY <1>3, <2>2, <2>3, <2>4, <2>5, <2>6, <2>7, <2>8
       DEF Next, Act, Step, RevokeAuthorize, UpdateAuthorize
<1>4. Once => RegisteredOnce
  BY DEF RegisteredOnce
<1> HIDE DEF Once
<1>5. QED
  BY <1>1, <1>2, <1>3, <1>4, PTL DEF SerialSpec

-----------------------------------------------------------------------------
\* The writes that are prepared, and those that could end a deactivation of d.
Writes == {[req |-> req[w], doc |-> pending[w]] : w \in {v \in Workers : pc[v] \in {"create", "update"}}}
          \cup detached
Undoing(d) ==
    {s \in Writes : s.req.did = d /\ (s.req.op = "update" \/ (s.req.op = "register" /\ backend = "memory"))}

\* A revocation is settled when none of them is left ...
THEOREM SettledIsUnopposed ==
    Spec => [](\A d \in DIDs : Settled(d) <=> Deactivated(d) /\ Undoing(d) = {})
<1>1. ASSUME Consistent, NEW d \in DIDs PROVE Settled(d) <=> Deactivated(d) /\ Undoing(d) = {}
  <2> USE <1>1 DEF Consistent, TypeOK, InHand
  <2>1. ASSUME Settled(d), NEW s \in Undoing(d) PROVE FALSE
    <3>1. CASE s \in detached
      BY <2>1, <3>1 DEF Settled, Undoing, Prepared, CanFail
    <3>2. ASSUME NEW w \in Workers, pc[w] \in {"create", "update"},
                 s = [req |-> req[w], doc |-> pending[w]]
          PROVE  FALSE
      BY <2>1, <3>2 DEF Settled, Undoing, Prepared
    <3>3. QED
      BY <2>1, <3>1, <3>2 DEF Undoing, Writes
  <2>2. ASSUME Deactivated(d), Undoing(d) = {} PROVE Settled(d)
    <3>1. ASSUME NEW w \in Workers, pc[w] # "idle", req[w].did = d
          PROVE  /\ pc[w] = "update" => pending[w].deactivated
                 /\ backend = "memory" => pc[w] # "create"
      <4>1. CASE pc[w] \in {"create", "update"}
        <5>1. [req |-> req[w], doc |-> pending[w]] \in Writes
          BY <4>1 DEF Writes
        <5>2. ~(req[w].op = "update" \/ (req[w].op = "register" /\ backend = "memory"))
          BY <2>2, <3>1, <5>1 DEF Undoing
        <5>3. QED
          BY <4>1, <5>2 DEF Prepared, Request
      <4>2. QED
        BY <4>1
    <3>2. ASSUME NEW s \in detached, s.req.did = d, s.req.op # "register"
          PROVE  s.doc.deactivated
      <4>1. s.req.op # "update"
        BY <2>2, <3>2 DEF Undoing, Writes
      <4>2. QED
        BY <3>2, <4>1 DEF Prepared, Request
    <3>3. QED
      BY <2>2, <3>1, <3>2 DEF Settled
  <2>3. Settled(d) => Deactivated(d)
    BY DEF Settled
  <2>4. QED
    BY <2>1, <2>2, <2>3
<1>2. Consistent => \A d \in DIDs : Settled(d) <=> Deactivated(d) /\ Undoing(d) = {}
  BY <1>1
<1>3. QED
  BY <1>2, InHandInvariant, PTL

\* ... and while a DID stays deactivated none is added: UpdateDID refuses it
\* (client.go:92), and Register finds it (did.go:69-77).
THEOREM UndoingShrinks ==
    Spec => [][\A d \in DIDs : Deactivated(d) /\ Deactivated(d)' => Undoing(d)' \subseteq Undoing(d)]_vars
<1>1. ASSUME Consistent, [Next]_vars, NEW d \in DIDs, Deactivated(d), NEW s \in Undoing(d)'
      PROVE  s \in Undoing(d)
  <2> USE <1>1 DEF Consistent, TypeOK, InHand
  <2>0. /\ backend' = backend /\ s.req.did = d
        /\ s.req.op = "update" \/ (s.req.op = "register" /\ backend = "memory")
        /\ docs[d] # Absent /\ docs[d].deactivated
    BY DEF Next, vars, Undoing, Deactivated, Registered
  <2>1. ASSUME \/ s \in detached
               \/ \E w \in Workers : /\ pc[w] \in {"create", "update"}
                                     /\ s = [req |-> req[w], doc |-> pending[w]]
        PROVE  s \in Undoing(d)
    BY <2>0, <2>1 DEF Undoing, Writes
  <2>2. CASE s \in detached'
    <3>1. ASSUME NEW w \in Workers, Detach(w) PROVE s \in Undoing(d)
      BY <2>1, <2>2, <3>1 DEF Detach
    <3>2. CASE detached' \subseteq detached
      BY <2>1, <2>2, <3>2
    <3>3. ASSUME NEW w \in Workers,
                 \/ \E e \in DIDs, k, signer \in Keys : RegisterCheck(w, e, k, signer)
                 \/ \E r : Authorize(w, r)
                 \/ \E e \in DIDs : Resolve(w, e)
                 \/ Step(w)
          PROVE  detached' = detached
      BY <3>3 DEF Untouched, RegisterCheck, Authorize, Resolve, Step, ClientResolve, RegisterCreate, StoreUpdate
    <3>4. (\E t \in detached : RunDetached(t)) \/ Restart \/ UNCHANGED vars => detached' \subseteq detached
      BY DEF RunDetached, Restart, vars
    <3>5. QED
      BY <3>1, <3>2, <3>3, <3>4 DEF Next, Act, RevokeAuthorize, UpdateAuthorize
  <2>3. ASSUME NEW w \in Workers, pc'[w] \in {"create", "update"},
               s = [req |-> req'[w], doc |-> pending'[w]]
        PROVE  s \in Undoing(d)
    <3>1. CASE pc'[w] = pc[w] /\ req'[w] = req[w] /\ pending'[w] = pending[w]
      BY <2>1, <2>3, <3>1
    <3>2. ASSUME NEW v \in Workers, NEW code, Answer(v, code) PROVE s \in Undoing(d)
      BY <2>3, <3>1, <3>2 DEF Answer
    <3>3. ASSUME NEW v \in Workers, NEW r, r.did = d => r.op = "revoke",
                 NEW next, NEW doc, Proceed(v, next, r, doc)
          PROVE  s \in Undoing(d)
      BY <2>0, <2>3, <3>1, <3>3 DEF Proceed
    <3>4. ASSUME NEW v \in Workers, NEW r, Proceed(v, "resolve", r, Absent)
          PROVE  s \in Undoing(d)
      BY <2>3, <3>1, <3>4 DEF Proceed
    <3>5. ASSUME NEW v \in Workers, NEW e \in DIDs, NEW k \in Keys, NEW signer \in Keys,
                 RegisterCheck(v, e, k, signer)
          PROVE  s \in Undoing(d)
      BY <2>0, <3>2, <3>3, <3>5 DEF RegisterCheck
    <3>6. ASSUME NEW v \in Workers, NEW r, Authorize(v, r) PROVE s \in Undoing(d)
      BY <3>2, <3>4, <3>6 DEF Authorize
    <3>7. ASSUME NEW v \in Workers, ClientResolve(v) PROVE s \in Undoing(d)
      <4>1. req[v].op \in {"update", "revoke"}
        BY <3>7 DEF ClientResolve, Request
      <4>2. QED
        BY <2>0, <3>2, <3>3, <3>7, <4>1 DEF ClientResolve
    <3>8. ASSUME NEW v \in Workers, RegisterCreate(v) \/ StoreUpdate(v) \/ Detach(v)
                                    \/ \E e \in DIDs : Resolve(v, e)
          PROVE  s \in Undoing(d)
      BY <3>2, <3>8 DEF RegisterCreate, StoreUpdate, Detach, Resolve
    <3>9. CASE UNCHANGED <<pc, req, pending>>
      BY <3>1, <3>9
    <3>10. (\E t \in detached : RunDetached(t)) \/ UNCHANGED vars => UNCHANGED <<pc, req, pending>>
      BY DEF RunDetached, vars
    <3>11. ~Restart
      BY <2>3 DEF Restart
    <3>12. QED
      BY <3>5, <3>6, <3>7, <3>8, <3>9, <3>10, <3>11 DEF Next, Act, Step, RevokeAuthorize, UpdateAuthorize
  <2>4. QED
    BY <2>2, <2>3 DEF Undoing, Writes
<1>2. Consistent /\ [Next]_vars =>
        [\A d \in DIDs : Deactivated(d) /\ Deactivated(d)' => Undoing(d)' \subseteq Undoing(d)]_vars
  BY <1>1
<1>3. QED
  BY <1>2, InHandInvariant, PTL DEF Spec
=============================================================================
