---------------------------- MODULE RegistryView ----------------------------
(***************************************************************************)
(* The DID registry as the handlers that only call ResolveDID see it: the  *)
(* documents change under them, one at a time, with nothing to say when,   *)
(* but a registered DID stays registered, its keys are among those it was  *)
(* ever given, and a revocation, once settled, is final.  DidRegistry      *)
(* implements this; CredentialRegistry is built on it.                     *)
(***************************************************************************)
CONSTANTS
    DIDs, Keys,
    Absent      \* what ResolveDID finds for a DID that is not registered

VARIABLES
    docs,       \* [DIDs -> Document \cup {Absent}]
    held,       \* [DIDs -> SUBSET Keys]: every key a document has had
    settled     \* SUBSET DIDs: revoked, with no write left that could undo it

viewVars == <<docs, held, settled>>

Document == [key : Keys, deactivated : BOOLEAN]

NoDocuments == /\ docs = [d \in DIDs |-> Absent]
               /\ held = [d \in DIDs |-> {}]
               /\ settled = {}

\* d's document becomes doc; some revocations settle meanwhile.  A settled
\* document may only go back to an older key.
Move(d, doc) ==
    /\ docs' = [docs EXCEPT ![d] = doc]
    /\ held' = [held EXCEPT ![d] = @ \cup {doc.key}]
    /\ d \in settled => doc.deactivated /\ doc.key \in held[d]

Settle(S) == /\ settled' = settled \cup S
             /\ \A d \in S : docs'[d] # Absent /\ docs'[d].deactivated

\* A memory registry starts again empty.
Wipe == /\ docs' = [d \in DIDs |-> Absent]
        /\ held' = [d \in DIDs |-> {}]
        /\ settled' = {}

(* A step of the registry. *)
Moves == /\ \/ \E d \in DIDs, doc \in Document : Move(d, doc)
            \/ UNCHANGED <<docs, held>>
         /\ \E S \in SUBSET DIDs : Settle(S)
=============================================================================
