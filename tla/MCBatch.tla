------------------------------ MODULE MCBatch ------------------------------
(***************************************************************************)
(* A small instance of BatchLifecycle.  Both batches are of one hub and    *)
(* one material, so that they compete for the events ok1 and ok2; each of  *)
(* the other events is ineligible for one reason of its own.               *)
(***************************************************************************)
EXTENDS BatchLifecycle

CONSTANTS ok1, ok2, quarantined, elsewhere, glassy, hub, otherHub, pet, glass

MCHubOf == [e \in Event |-> IF e = elsewhere THEN otherHub ELSE hub]
MCMaterialOf == [e \in Event |-> IF e = glassy THEN glass ELSE pet]
MCBatchHub == [b \in Batch |-> hub]
MCBatchMaterial == [b \in Batch |-> pet]
=============================================================================
