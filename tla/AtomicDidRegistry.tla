------------------------- MODULE AtomicDidRegistry -------------------------
(***************************************************************************)
(* What the DID endpoints promise a caller who has a DID to itself: every  *)
(* request (handlers/did.go) takes effect at one instant, or is refused    *)
(* and changes nothing.  DidRegistry, which splits each request at its     *)
(* store calls, is shown to implement this under SerialSpec.  The signer   *)
(* is no part of the state: that only the right one gets through is        *)
(* DidRegistry's KeyCustody and InHand.                                    *)
(***************************************************************************)
CONSTANTS
    DIDs,       \* the identifiers requests name
    Keys,       \* Ed25519 public keys
    NoKey       \* the key of a DID that is not registered

VARIABLES
    durable,    \* TRUE: rows outlive the API process, and calls can fail
    status,     \* [DIDs -> {"none", "active", "deactivated"}]
    key,        \* [DIDs -> Keys \cup {NoKey}]
    reply       \* HTTP status the last step answered with, or "-"

avars == <<durable, status, key, reply>>

AInit == /\ durable \in BOOLEAN
         /\ status = [d \in DIDs |-> "none"]
         /\ key = [d \in DIDs |-> NoKey]
         /\ reply = "-"

\* A statement that committed can still be reported as failed by a database,
\* or have been, before it took effect: then this step answers nobody.
Acknowledge(ok) == reply' \in {ok} \cup (IF durable THEN {"500", "-"} ELSE {})

Register(d, k) ==
    /\ status[d] = "none"
    /\ status' = [status EXCEPT ![d] = "active"]
    /\ key' = [key EXCEPT ![d] = k]
    /\ Acknowledge("201")

Rotate(d, signer, k) ==
    /\ status[d] = "active" /\ key[d] = signer
    /\ key' = [key EXCEPT ![d] = k]
    /\ Acknowledge("200")
    /\ UNCHANGED status

Deactivate(d, signer) ==
    /\ status[d] # "none" /\ key[d] = signer
    /\ status' = [status EXCEPT ![d] = "deactivated"]
    /\ Acknowledge("200")
    /\ UNCHANGED key

\* A request that changes nothing is answered for a reason that holds then;
\* without a database a request is never answered 500.
Refuse(d) ==
    /\ \/ reply' = "401"
       \/ reply' = "404" /\ (status[d] = "none" \/ durable)
       \/ reply' = "409" /\ status[d] # "none"
       \/ reply' = "500" /\ durable
    /\ UNCHANGED <<status, key>>

Resolved(d) == /\ status[d] # "none"
               /\ reply' = "200"
               /\ UNCHANGED <<status, key>>

\* A request is under way and has not been answered.
Working == reply' = "-" /\ UNCHANGED <<status, key>>

\* A memory registry starts again empty.
Wipe == /\ ~durable
        /\ status' = [d \in DIDs |-> "none"]
        /\ key' = [d \in DIDs |-> NoKey]
        /\ reply' = "-"

AStep == \/ \E d \in DIDs, k \in Keys : Register(d, k)
         \/ \E d \in DIDs, signer, k \in Keys : Rotate(d, signer, k)
         \/ \E d \in DIDs, signer \in Keys : Deactivate(d, signer)
         \/ \E d \in DIDs : Refuse(d) \/ Resolved(d)
         \/ Working
         \/ Wipe

ANext == AStep /\ UNCHANGED durable

ASpec == AInit /\ [][ANext]_avars
=============================================================================
