------------------------------ MODULE MCBackend ------------------------------
(* Two parts of the backend that share no step: anchoring the sealed        *)
(* batches, with the chain worker and the ledger, and the user accounts.    *)
(* Each has its own fairness; at the start nothing of either is enabled     *)
(* that its fairness is about, so the part that stands still is fair.       *)
EXTENDS Anchoring, Accounts

VARIABLE part

MCInit == Init /\ AccountsInit /\ part \in {"anchoring", "accounts"}

MCNext ==
    /\ \/ part = "anchoring" /\ Next /\ UNCHANGED accountsVars
       \/ part = "accounts" /\ AccountsNext /\ UNCHANGED vars
    /\ UNCHANGED part

MCSpec ==
    /\ MCInit /\ [][MCNext]_<<vars, accountsVars, part>>
    /\ Fairness /\ AccountsFairness

\* Both components are well typed.
MCTypeOK == TypeOK /\ AccountsTypeOK
=============================================================================
