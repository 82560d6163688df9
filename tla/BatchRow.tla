------------------------------ MODULE BatchRow ------------------------------
(***************************************************************************)
(* What one row of the batches table promises to the rest of the system,   *)
(* whatever the requests that touch it do at the same time.  The anchoring *)
(* side (pendingAnchor, recordAnchor) only ever relies on this promise.    *)
(*                                                                         *)
(*   - a root is written once, together with the move out of "open";       *)
(*   - a batch never returns to "open", nor to "sealed" once it left it;   *)
(*   - nothing is sold before it has been processed.                       *)
(*                                                                         *)
(* It does not promise that statuses only move forward, as the service's   *)
(* own comment does (batches.service.ts:35): advanceStatus tests a status  *)
(* it read earlier, so a sold batch may be processed again (StatusForward  *)
(* in BatchLifecycle, which a run refutes).                                *)
(***************************************************************************)
CONSTANTS
    Batch,      \* the pool of batch ids
    Root,       \* the Merkle roots a seal may write
    NoRoot      \* a NULL merkleRoot column

VARIABLES status, root

row == <<status, root>>

Status == {"absent", "open", "sealed", "processed", "sold"}

RowTypeOK ==
    /\ status \in [Batch -> Status]
    /\ root \in [Batch -> Root \cup {NoRoot}]

Init ==
    /\ status = [b \in Batch |-> "absent"]
    /\ root = [b \in Batch |-> NoRoot]

Create(b) ==
    /\ status[b] = "absent"
    /\ status' = [status EXCEPT ![b] = "open"]
    /\ UNCHANGED root

Seal(b, rt) ==
    /\ status[b] = "open"
    /\ status' = [status EXCEPT ![b] = "sealed"]
    /\ root' = [root EXCEPT ![b] = rt]

\* The statuses a row may be in when a request that read an earlier one
\* finally writes the status it was asked for.
WrittenOver(to) ==
    CASE to = "processed" -> {"sealed", "processed", "sold"}
      [] to = "sold"      -> {"processed", "sold"}

Advance(b, to) ==
    /\ status[b] \in WrittenOver(to)
    /\ status' = [status EXCEPT ![b] = to]
    /\ UNCHANGED root

Next ==
    \E b \in Batch :
        \/ Create(b)
        \/ \E rt \in Root : Seal(b, rt)
        \/ \E to \in {"processed", "sold"} : Advance(b, to)

Spec == Init /\ [][Next]_row
=============================================================================
