------------------------------ MODULE MCPublic ------------------------------
(***************************************************************************)
(* What the public can check, in three parts that share no step: the       *)
(* reports and proofs while batches change (one request on three weigh-    *)
(* ins), the ledger's verdicts (two requests at a time on two weigh-ins    *)
(* that stay in their batches, two transactions), and the contract.        *)
(***************************************************************************)
EXTENDS Verification, BatchRegistry

CONSTANTS b1, b2, r1, r2

ASSUME PublicAssumption == {b1, b2} \subseteq Batch /\ {r1, r2} \subseteq Reader

VARIABLE part

MCInit == Init /\ RegistryInit /\ part \in {"reports", "verdicts", "contract"}

\* Only b1 is asked about; b2 is the batch its events and its transaction may
\* come from or go to.
Reports ==
    /\ World \/ Serve(r1) \/ Call(r1, b1)
    /\ reader'[r1].kind # "status"
    /\ Len(ledger') <= 1 /\ anchor'[b1] <= 1 /\ restarts' = 0

Verdicts ==
    /\ World \/ \E r \in Reader : Serve(r) \/ Call(r, b1)
    /\ batchOf'[1] # b2 /\ batchOf'[2] # b1 /\ batchOf'[3] = NoBatch
    /\ \A r \in Reader : reader'[r].kind # "event"

MCNext ==
    /\ \/ part = "reports" /\ Reports /\ UNCHANGED registryVars
       \/ part = "verdicts" /\ Verdicts /\ UNCHANGED registryVars
       \/ part = "contract" /\ RegistryNext /\ UNCHANGED vars
    /\ UNCHANGED part

MCSpec == MCInit /\ [][MCNext]_<<vars, registryVars, part>>

\* Both components are well typed.
MCTypeOK == TypeOK /\ RegistryTypeOK
=============================================================================
