---------------------------- MODULE BatchRegistry ----------------------------
(***************************************************************************)
(* contracts/batch-registry: the Soroban contract in which allow-listed    *)
(* issuers register sealed batches and mark them credited, each once.      *)
(*                                                                         *)
(* An invocation is atomic: it aborts without effect (no step here) or     *)
(* changes storage and publishes its event.  Persistent entries whose rent *)
(* runs out are archived: an invocation that needs one aborts until        *)
(* somebody restores it.                                                   *)
(***************************************************************************)
EXTENDS Naturals, Sequences, FiniteSets

CONSTANTS
    Address, NoAdmin,
    BatchId, Root, Weight,
    NoRecord,
    MaxPublished,  \* bound on the events published
    MaxLedger      \* bound on the ledger's sequence number

ASSUME RegistryAssumption ==
    /\ NoAdmin \notin Address
    /\ Weight \subseteq Nat /\ MaxPublished \in Nat /\ MaxLedger \in Nat \ {0}

VARIABLES
    admin, issuers, batches,  \* instance and persistent storage
    archived,                 \* the persistent entries whose rent has run out
    published,                \* the event stream
    sequence                  \* env.ledger().sequence()

storage == <<admin, issuers, batches>>
registryVars == <<storage, archived, published, sequence>>

NotYet == 0   \* credited_ledger: None

RegistryInit ==
    /\ admin = NoAdmin
    /\ issuers = {}
    /\ batches = [id \in BatchId |-> NoRecord]
    /\ archived = {}
    /\ published = << >>
    /\ sequence = 1

-----------------------------------------------------------------------------
\* A write extends the rent of what it wrote; whatever else a call needs must
\* not be archived.
Publish(event) == published' = Append(published, event) /\ Len(published) < MaxPublished
Restored(entry) == entry \notin archived

IsIssuer(a) == a \in issuers
HasBatch(id) == batches[id] # NoRecord

Initialize(a) ==
    /\ admin = NoAdmin
    /\ admin' = a
    /\ Publish([name |-> "Initialized", admin |-> a])
    /\ UNCHANGED <<issuers, batches, archived, sequence>>

\* require_admin_auth: the caller is the admin.
AddIssuer(by, a) ==
    /\ by = admin
    /\ Restored(a) /\ ~IsIssuer(a)
    /\ issuers' = issuers \cup {a}
    /\ Publish([name |-> "IssuerAdded", issuer |-> a])
    /\ UNCHANGED <<admin, batches, archived, sequence>>

RemoveIssuer(by, a) ==
    /\ by = admin
    /\ Restored(a) /\ IsIssuer(a)
    /\ issuers' = issuers \ {a}
    /\ Publish([name |-> "IssuerRemoved", issuer |-> a])
    /\ UNCHANGED <<admin, batches, archived, sequence>>

\* require_issuer_auth: the caller signs as the issuer and is on the list.
ByIssuer(by) == admin # NoAdmin /\ Restored(by) /\ IsIssuer(by)

Register(by, id, root, weight) ==
    /\ ByIssuer(by)
    /\ weight # 0
    /\ Restored(id) /\ ~HasBatch(id)
    /\ batches' = [batches EXCEPT ![id] =
           [root |-> root, weight_g |-> weight, issuer |-> by,
            registered_ledger |-> sequence, credited |-> FALSE, credited_ledger |-> NotYet]]
    /\ Publish([name |-> "BatchRegistered", batch_id |-> id, issuer |-> by, root |-> root,
                weight_g |-> weight, registered_ledger |-> sequence])
    /\ UNCHANGED <<admin, issuers, archived, sequence>>

\* Faulty variant: the record is not read for an earlier crediting.
MutMarkCredited(by, id) ==
    /\ ByIssuer(by)
    /\ Restored(id) /\ HasBatch(id)
    /\ batches' = [batches EXCEPT ![id].credited = TRUE, ![id].credited_ledger = sequence]
    /\ Publish([name |-> "BatchCredited", batch_id |-> id, issuer |-> by,
                weight_g |-> batches[id].weight_g, credited_ledger |-> sequence])
    /\ UNCHANGED <<admin, issuers, archived, sequence>>

MarkCredited(by, id) ==
    /\ ByIssuer(by)
    /\ Restored(id) /\ HasBatch(id)
    /\ ~batches[id].credited
    /\ batches' = [batches EXCEPT ![id].credited = TRUE, ![id].credited_ledger = sequence]
    /\ Publish([name |-> "BatchCredited", batch_id |-> id, issuer |-> by,
                weight_g |-> batches[id].weight_g, credited_ledger |-> sequence])
    /\ UNCHANGED <<admin, issuers, archived, sequence>>

-----------------------------------------------------------------------------
CloseLedger ==
    /\ sequence < MaxLedger
    /\ sequence' = sequence + 1
    /\ UNCHANGED <<storage, archived, published>>

\* Faulty variant: temporary entries, which are deleted when their rent runs out.
MutRunsOut(entry) ==
    /\ issuers' = issuers \ {entry}
    /\ batches' = [id \in BatchId |-> IF id = entry THEN NoRecord ELSE batches[id]]
    /\ UNCHANGED <<admin, archived, published, sequence>>

\* The rent of a persistent entry runs out.  A batch is extended whenever it is
\* read or written, an issuer only when it is added.
RunsOut(entry) ==
    /\ entry \in issuers \cup {id \in BatchId : HasBatch(id)}
    /\ archived' = archived \cup {entry}
    /\ UNCHANGED <<storage, published, sequence>>

Restore(entry) ==
    /\ entry \in archived
    /\ archived' = archived \ {entry}
    /\ UNCHANGED <<storage, published, sequence>>

RegistryNext ==
    \/ \E by \in Address :
           \/ Initialize(by)
           \/ \E a \in Address : AddIssuer(by, a) \/ RemoveIssuer(by, a)
           \/ \E id \in BatchId, root \in Root, weight \in Weight : Register(by, id, root, weight)
           \/ \E id \in BatchId : MarkCredited(by, id)
    \/ CloseLedger
    \/ \E entry \in Address \cup BatchId : RunsOut(entry) \/ Restore(entry)

RegistrySpec == RegistryInit /\ [][RegistryNext]_registryVars

-----------------------------------------------------------------------------
Record == [root : Root, weight_g : Weight \ {0}, issuer : Address,
           registered_ledger : Nat, credited : BOOLEAN, credited_ledger : Nat]

RegistryTypeOK ==
    /\ admin \in Address \cup {NoAdmin}
    /\ issuers \subseteq Address
    /\ batches \in [BatchId -> Record \cup {NoRecord}]
    /\ archived \subseteq Address \cup BatchId
    /\ Len(published) <= MaxPublished
    /\ sequence \in 1 .. MaxLedger
    /\ \A id \in BatchId : HasBatch(id) => batches[id].registered_ledger <= sequence

\* What an indexer makes of an event, given that it is legal where it stands: one
\* admin, issuers added and removed in turn, a batch registered once and credited
\* once, each by an issuer of that moment.
Blank == [legal |-> TRUE, admin |-> NoAdmin, issuers |-> {},
          batches |-> [id \in BatchId |-> NoRecord]]
Replay(s, e) ==
    CASE e.name = "Initialized" ->
           [s EXCEPT !.legal = @ /\ s.admin = NoAdmin, !.admin = e.admin]
      [] e.name = "IssuerAdded" ->
           [s EXCEPT !.legal = @ /\ s.admin # NoAdmin /\ e.issuer \notin s.issuers,
                     !.issuers = @ \cup {e.issuer}]
      [] e.name = "IssuerRemoved" ->
           [s EXCEPT !.legal = @ /\ e.issuer \in s.issuers,
                     !.issuers = @ \ {e.issuer}]
      [] e.name = "BatchRegistered" ->
           [s EXCEPT !.legal = @ /\ e.issuer \in s.issuers
                                 /\ s.batches[e.batch_id] = NoRecord,
                     !.batches[e.batch_id] =
                         [root |-> e.root, weight_g |-> e.weight_g, issuer |-> e.issuer,
                          registered_ledger |-> e.registered_ledger,
                          credited |-> FALSE, credited_ledger |-> NotYet]]
      [] e.name = "BatchCredited" ->
           [s EXCEPT !.legal = @ /\ e.issuer \in s.issuers
                                 /\ ~s.batches[e.batch_id].credited
                                 /\ s.batches[e.batch_id].weight_g = e.weight_g,
                     !.batches[e.batch_id].credited = TRUE,
                     !.batches[e.batch_id].credited_ledger = e.credited_ledger]

\* What it knows after the first n events of the stream.
Replayed[n \in 0 .. MaxPublished] ==
    IF n = 0 THEN Blank ELSE Replay(Replayed[n - 1], published[n])

\* events.rs: the registry can be rebuilt from the event stream alone, whatever
\* was revoked, archived or restored on the way, and the stream tells of no batch
\* registered or credited twice, nor by anyone who was not an issuer then.
LogRebuildsRegistry ==
    Replayed[Len(published)] =
        [legal |-> TRUE, admin |-> admin, issuers |-> issuers, batches |-> batches]
=============================================================================
