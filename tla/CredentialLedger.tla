-------------------------- MODULE CredentialLedger --------------------------
(***************************************************************************)
(* What the credential registry promises of its identifiers, whatever      *)
(* requests race, fail or land late: an identifier is entered once and told *)
(* to one issuer at most, its credential is never replaced, and it can only *)
(* be withdrawn, for the first reason given.  CredentialRegistry implements *)
(* this.                                                                   *)
(***************************************************************************)
EXTENDS Naturals

CONSTANTS
    Ids, Payload, Reasons,
    Absent

VARIABLES
    volatile,   \* TRUE: the table is lost with its process
    table,      \* [Ids -> an entry or Absent]
    told        \* [Ids -> Nat]: issuers told that their credential is entered

ledgerVars == <<volatile, table, told>>

Entry(p, withdrawn, reason) == [payload |-> p, revoked |-> withdrawn, reason |-> reason]

Blank == /\ table = [i \in Ids |-> Absent]
         /\ told = [i \in Ids |-> 0]

\* The issuer may not hear of it.
Enter(i, p) ==
    /\ table[i] = Absent
    /\ table' = [table EXCEPT ![i] = Entry(p, FALSE, "")]
    /\ told' \in {told, [told EXCEPT ![i] = @ + 1]}

\* Without a reason at first, one may be supplied later.
Withdraw(i, reason) ==
    /\ table[i] # Absent
    /\ table[i].reason \in {"", reason}
    /\ table' = [table EXCEPT ![i] = Entry(table[i].payload, TRUE, reason)]
    /\ UNCHANGED told

Lose == volatile /\ Blank'

LedgerStep == \/ \E i \in Ids, p \in Payload : Enter(i, p)
              \/ \E i \in Ids, reason \in Reasons : Withdraw(i, reason)
              \/ Lose

LedgerNext == LedgerStep /\ UNCHANGED volatile

LedgerSpec == volatile \in BOOLEAN /\ Blank /\ [][LedgerNext]_ledgerVars
=============================================================================
