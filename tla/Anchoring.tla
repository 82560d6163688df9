------------------------------ MODULE Anchoring ------------------------------
(***************************************************************************)
(* How a sealed root reaches the Stellar ledger and comes back as an       *)
(* AnchorRecord: the anchor worker (services/anchor-worker), the backend's *)
(* pendingAnchor, recordAnchor and recordAnchorFailure, and the network.   *)
(*                                                                         *)
(* The batch rows are those of BatchRow: requests of the batches service   *)
(* move them at any time.  A backend call is served in several steps and   *)
(* goes on when the worker that made it has timed out; a submission the    *)
(* worker gave up on may still land.  Time is not counted: a batch in      *)
(* backoff becomes due again at some point.                                *)
(***************************************************************************)
EXTENDS Naturals, Sequences, FiniteSets

CONSTANTS
    Batch, Root, NoRoot,
    Worker,
    MaxTx,      \* bound on submitted transactions
    MaxFaults   \* bound on timeouts, crashes, failed reads and rejections

ASSUME AnchoringAssumption ==
    NoRoot \notin Root /\ MaxTx \in Nat /\ MaxFaults \in Nat

ASSUME WorkerAssumption == IsFiniteSet(Worker)

VARIABLES
    status, root,   \* the batch rows
    anchor,         \* of each batch: its transaction, 0 for no AnchorRecord
    attempts,       \* of each batch: its anchor_attempts rows, oldest first
    backoff,        \* the batches whose next attempt is not due yet
    txs,            \* every transaction submitted, numbered from 1
    sequence,       \* sequence number of the anchoring account
    worker,         \* what each worker is doing
    calls,          \* the backend calls being served
    faults

rows == <<status, root>>
database == <<anchor, attempts, backoff>>
network == <<txs, sequence>>
vars == <<rows, database, network, worker, calls, faults>>

Row == INSTANCE BatchRow

NoTx == 0
Resting == [phase |-> "idle", queue |-> {}, batch |-> "none", root |-> NoRoot, tx |-> NoTx]

Init ==
    /\ Row!Init
    /\ anchor = [b \in Batch |-> NoTx]
    /\ attempts = [b \in Batch |-> << >>]
    /\ backoff = {}
    /\ txs = << >>
    /\ sequence = 0
    /\ worker = [w \in Worker |-> Resting]
    /\ calls = {}
    /\ faults = 0

Fault == faults < MaxFaults /\ faults' = faults + 1

BatchesService == Row!Next /\ UNCHANGED <<database, network, worker, calls, faults>>

-----------------------------------------------------------------------------
(* The network.  A transaction lands only with the account's next sequence *)
(* number, and dies if that number is used or it is not taken in time.     *)

\* Faulty variant: a submission still pending counts as found on the ledger.
MutLanded(t) == txs[t].state # "dead"

Landed(t) == txs[t].state = "landed"

Land(t) ==
    /\ txs[t].state = "pending" /\ txs[t].seq = sequence + 1
    /\ txs' = [txs EXCEPT ![t].state = "landed"]
    /\ sequence' = sequence + 1
    /\ UNCHANGED <<rows, database, worker, calls, faults>>

Die(t) ==
    /\ txs[t].state = "pending"
    /\ IF txs[t].seq <= sequence THEN UNCHANGED faults ELSE Fault
    /\ txs' = [txs EXCEPT ![t].state = "dead"]
    /\ UNCHANGED <<rows, database, sequence, worker, calls>>

\* The next attempt of a batch in backoff falls due.
FallDue(b) ==
    /\ b \in backoff
    /\ backoff' = backoff \ {b}
    /\ UNCHANGED <<rows, anchor, attempts, network, worker, calls, faults>>

-----------------------------------------------------------------------------
(* The worker: anchorOnce.                                                 *)

\* Faulty variants: anchored batches are listed too; failed ones never are.
MutPendingAnchored == {b \in Batch : status[b] = "sealed" /\ root[b] # NoRoot /\ b \notin backoff}
MutPendingUntried ==
    {b \in Batch : /\ status[b] = "sealed" /\ anchor[b] = NoTx
                   /\ root[b] # NoRoot /\ attempts[b] = << >>}

\* Sealed, not anchored, with a root, and not in backoff.
PendingAnchor ==
    {b \in Batch : /\ status[b] = "sealed" /\ anchor[b] = NoTx
                   /\ root[b] # NoRoot /\ b \notin backoff}

\* The queue is fetched once per cycle, with the root of each batch.
FetchPending(w) ==
    /\ worker[w].phase = "idle"
    /\ PendingAnchor # {}
    /\ worker' = [worker EXCEPT ![w] =
           [Resting EXCEPT !.phase = "loop", !.queue = {<<b, root[b]>> : b \in PendingAnchor}]]
    /\ UNCHANGED <<rows, database, network, calls, faults>>

NextBatch(w) ==
    worker' = [worker EXCEPT ![w] =
        [Resting EXCEPT !.queue = worker[w].queue,
                        !.phase = IF worker[w].queue = {} THEN "idle" ELSE "loop"]]

\* Faulty variant: the worker keeps the previous transaction's hash.
MutSubmit(w) ==
    /\ worker[w].phase = "loop"
    /\ Len(txs) < MaxTx
    /\ \E item \in worker[w].queue :
           /\ txs' = Append(txs, [batch |-> item[1], root |-> item[2],
                                  seq |-> sequence + 1, state |-> "pending"])
           /\ worker' = [worker EXCEPT ![w] =
                  [phase |-> "submitted", queue |-> worker[w].queue \ {item},
                   batch |-> item[1], root |-> item[2], tx |-> Len(txs)]]
    /\ UNCHANGED <<rows, database, sequence, calls, faults>>

\* loadAccount, build and submit: the account's next sequence number, the root
\* both as memo and under the batch's data key.
Submit(w) ==
    /\ worker[w].phase = "loop"
    /\ Len(txs) < MaxTx
    /\ \E item \in worker[w].queue :
           /\ txs' = Append(txs, [batch |-> item[1], root |-> item[2],
                                  seq |-> sequence + 1, state |-> "pending"])
           /\ worker' = [worker EXCEPT ![w] =
                  [phase |-> "submitted", queue |-> worker[w].queue \ {item},
                   batch |-> item[1], root |-> item[2], tx |-> Len(txs) + 1]]
    /\ UNCHANGED <<rows, database, sequence, calls, faults>>

ReportFailure(w) == worker' = [worker EXCEPT ![w].phase = "report"]

\* Horizon answers the submission.
SubmitAnswered(w) ==
    /\ worker[w].phase = "submitted"
    /\ \/ Landed(worker[w].tx) /\ worker' = [worker EXCEPT ![w].phase = "verify"]
       \/ txs[worker[w].tx].state = "dead" /\ ReportFailure(w)
    /\ UNCHANGED <<rows, database, network, calls, faults>>

\* The batch's data entry holds the root of the last transaction landed for it.
DataEntry(b) ==
    LET landed == {t \in 1 .. Len(txs) : Landed(t) /\ txs[t].batch = b}
    IN  IF landed = {} THEN NoRoot
        ELSE txs[CHOOSE t \in landed : \A u \in landed : txs[u].seq <= txs[t].seq].root

\* verifyAnchorOnLedger: found, and the memo or the data entry is the root.
Verified(w) ==
    /\ Landed(worker[w].tx)
    /\ \/ txs[worker[w].tx].root = worker[w].root
       \/ DataEntry(worker[w].batch) = worker[w].root

Call(w, kind, outcome) ==
    calls' = calls \cup {[kind |-> kind, by |-> w, batch |-> worker[w].batch,
                          root |-> worker[w].root, tx |-> worker[w].tx,
                          outcome |-> outcome, step |-> "read", n |-> 0]}

\* Read back what the network recorded, then write the anchor back; a root that
\* cannot be read back is reported as unverified.
Verify(w) ==
    /\ worker[w].phase = "verify"
    /\ \/ /\ Verified(w)
          /\ Call(w, "anchor", "succeeded")
          /\ worker' = [worker EXCEPT ![w].phase = "recording"]
          /\ UNCHANGED faults
       \/ /\ Fault
          /\ Call(w, "failure", "unverified")
          /\ worker' = [worker EXCEPT ![w].phase = "reporting"]
    /\ UNCHANGED <<rows, database, network>>

Report(w) ==
    /\ worker[w].phase = "report"
    /\ Call(w, "failure", "failed")
    /\ worker' = [worker EXCEPT ![w].phase = "reporting"]
    /\ UNCHANGED <<rows, database, network, faults>>

\* withTimeout and AbortSignal: the worker goes on, what it waited for does too.
Timeout(w) ==
    /\ Fault
    /\ \/ worker[w].phase \in {"submitted", "verify", "recording"} /\ ReportFailure(w)
       \/ worker[w].phase = "reporting" /\ NextBatch(w)
    /\ UNCHANGED <<rows, database, network, calls>>

WorkerCrash(w) ==
    /\ worker[w].phase # "idle"
    /\ Fault
    /\ worker' = [worker EXCEPT ![w] = Resting]
    /\ UNCHANGED <<rows, database, network, calls>>

-----------------------------------------------------------------------------
(* The backend's side of a call, one database statement per step.          *)

Awaits(w, c) ==
    /\ c.by = w /\ c.batch = worker[w].batch /\ c.tx = worker[w].tx
    /\ worker[w].phase = IF c.kind = "anchor" THEN "recording" ELSE "reporting"

\* The call ends; its worker, if it still waits, takes the next batch, or
\* reports the refusal of an anchor as a failure of its own.
Reply(c, ok) ==
    /\ calls' = calls \ {c}
    /\ IF ~Awaits(c.by, c) THEN UNCHANGED worker
       ELSE IF ok \/ c.kind = "failure" THEN NextBatch(c.by)
       ELSE ReportFailure(c.by)

GoOn(c, step) == calls' = (calls \ {c}) \cup {[c EXCEPT !.step = step]} /\ UNCHANGED worker

Sealed(b) == status[b] # "open" /\ root[b] # NoRoot

\* recordAnchor: a batch not sealed or another root is refused; an existing
\* anchor is the same transaction retried, or refused.
RecordAnchorRead(c) ==
    /\ c.kind = "anchor" /\ c.step = "read"
    /\ IF Sealed(c.batch) /\ root[c.batch] = c.root /\ anchor[c.batch] = NoTx
       THEN GoOn(c, "save")
       ELSE Reply(c, anchor[c.batch] = c.tx)
    /\ UNCHANGED <<rows, database, network, faults>>

\* Faulty variants: the row is replaced on a conflict; a conflict is ignored.
MutSaveReplaces(c) ==
    /\ c.kind = "anchor" /\ c.step = "save"
    /\ anchor' = [anchor EXCEPT ![c.batch] = c.tx]
    /\ GoOn(c, "count")
    /\ UNCHANGED <<rows, attempts, backoff, network, faults>>
MutSaveIgnoresConflict(c) ==
    /\ c.kind = "anchor" /\ c.step = "save"
    /\ anchor' = [anchor EXCEPT ![c.batch] = IF @ = NoTx THEN c.tx ELSE @]
    /\ GoOn(c, "count")
    /\ UNCHANGED <<rows, attempts, backoff, network, faults>>

\* batchId and stellarTxHash are unique columns of anchor_records.
RecordAnchorSave(c) ==
    /\ c.kind = "anchor" /\ c.step = "save"
    /\ IF anchor[c.batch] = NoTx /\ \A b \in Batch : anchor[b] # c.tx
       THEN anchor' = [anchor EXCEPT ![c.batch] = c.tx] /\ GoOn(c, "count")
       ELSE UNCHANGED anchor /\ Reply(c, FALSE)
    /\ UNCHANGED <<rows, attempts, backoff, network, faults>>

\* recordAnchorFailure: refused for a batch not sealed or already anchored.
RecordFailureRead(c) ==
    /\ c.kind = "failure" /\ c.step = "read"
    /\ IF Sealed(c.batch) /\ anchor[c.batch] = NoTx THEN GoOn(c, "count")
                                                    ELSE Reply(c, FALSE)
    /\ UNCHANGED <<rows, database, network, faults>>

\* AnchorAttemptsService.record: count the rows, then insert the next one, with
\* nothing locked in between.
AttemptCount(c) ==
    /\ c.step = "count"
    /\ calls' = (calls \ {c}) \cup {[c EXCEPT !.step = "insert", !.n = Len(attempts[c.batch])]}
    /\ UNCHANGED <<rows, database, network, worker, faults>>

AttemptInsert(c) ==
    /\ c.step = "insert"
    /\ attempts' = [attempts EXCEPT ![c.batch] =
                       Append(@, [number |-> c.n + 1, outcome |-> c.outcome])]
    /\ backoff' = IF c.outcome = "succeeded" THEN backoff \ {c.batch}
                                             ELSE backoff \cup {c.batch}
    /\ Reply(c, TRUE)
    /\ UNCHANGED <<rows, anchor, network, faults>>

\* The backend dies or loses its database: the call goes no further.
CallCrash(c) ==
    /\ Fault
    /\ Reply(c, FALSE)
    /\ UNCHANGED <<rows, database, network>>

Serve(c) ==
    \/ RecordAnchorRead(c)
    \/ RecordAnchorSave(c)
    \/ RecordFailureRead(c)
    \/ AttemptCount(c)
    \/ AttemptInsert(c)

-----------------------------------------------------------------------------
AnchorOnce(w) ==
    \/ FetchPending(w)
    \/ Submit(w)
    \/ SubmitAnswered(w)
    \/ Verify(w)
    \/ Report(w)

Next ==
    \/ BatchesService
    \/ \E t \in 1 .. Len(txs) : Land(t) \/ Die(t)
    \/ \E b \in Batch : FallDue(b)
    \/ \E w \in Worker : AnchorOnce(w) \/ Timeout(w) \/ WorkerCrash(w)
    \/ \E c \in calls : Serve(c) \/ CallCrash(c)

Spec == Init /\ [][Next]_vars

\* The poll loop, the network, the clock and the backend keep going; nothing is
\* promised about faults, nor about the requests to the batches service.
Fairness ==
    /\ \A w \in Worker : WF_vars(AnchorOnce(w))
    /\ WF_vars(\E t \in 1 .. Len(txs) : Land(t) \/ Die(t))
    /\ \A b \in Batch : WF_vars(FallDue(b))
    /\ WF_vars(\E c \in calls : Serve(c))

-----------------------------------------------------------------------------
Outcome == {"succeeded", "failed", "unverified"}

TxType == [batch : Batch, root : Root, seq : Nat, state : {"pending", "landed", "dead"}]

WorkerType ==
    [phase : {"idle", "loop", "submitted", "verify", "recording", "report", "reporting"},
     queue : SUBSET (Batch \X Root), batch : Batch \cup {"none"},
     root : Root \cup {NoRoot}, tx : Nat]

CallType ==
    [kind : {"anchor", "failure"}, by : Worker, batch : Batch, root : Root, tx : Nat,
     outcome : Outcome, step : {"read", "save", "count", "insert"}, n : Nat]

\* Every variable is well formed, and whoever speaks of a transaction speaks of
\* one that was submitted for that batch and that root.
TypeOK ==
    /\ Row!RowTypeOK
    /\ anchor \in [Batch -> Nat]
    /\ attempts \in [Batch -> Seq([number : Nat, outcome : Outcome])]
    /\ backoff \subseteq Batch
    /\ txs \in Seq(TxType) /\ Len(txs) <= MaxTx
    /\ sequence \in Nat /\ faults \in 0 .. MaxFaults
    /\ calls \subseteq CallType
    /\ worker \in [Worker -> WorkerType]
    /\ \A w \in Worker :
           worker[w].phase \notin {"idle", "loop"} =>
               /\ worker[w].tx \in 1 .. Len(txs)
               /\ txs[worker[w].tx].batch = worker[w].batch
               /\ txs[worker[w].tx].root = worker[w].root
    /\ \A c \in calls : /\ c.tx \in 1 .. Len(txs)
                        /\ txs[c.tx].batch = c.batch /\ txs[c.tx].root = c.root

\* An AnchorRecord is never a false proof: its transaction is on the ledger and
\* carries the sealed root of that very batch, whatever was timed out, retried
\* or landed late on the way.
AnchorsConfirmed ==
    \A b \in Batch : anchor[b] # NoTx =>
        /\ txs[anchor[b]].state = "landed"
        /\ txs[anchor[b]].batch = b /\ txs[anchor[b]].root = root[b]
        /\ status[b] \notin {"absent", "open"}

\* An AnchorRecord is never replaced, even by another worker's transaction for
\* the same batch that landed as well.
AnchorsFrozen ==
    [][\A b \in Batch : anchor[b] # NoTx => anchor'[b] = anchor[b]]_vars

\* A write-back retried or raced is not a second success: the history of a batch
\* holds at most one "succeeded", and only once the AnchorRecord is there.
OneSuccess ==
    \A b \in Batch :
        LET successes == {i \in DOMAIN attempts[b] : attempts[b][i].outcome = "succeeded"}
        IN  Cardinality(successes) <= (IF anchor[b] = NoTx THEN 0 ELSE 1)

\* Anchoring costs a fee, so a batch is not anchored again without a reason:
\* each worker pays at most once for a batch, and once more per fault.
NoNeedlessFee ==
    \A b \in Batch :
        Cardinality({t \in 1 .. Len(txs) : Landed(t) /\ txs[t].batch = b})
            <= Cardinality(Worker) + faults

\* A sealed batch is not forgotten: it is anchored in the end, through every
\* timeout, crash and lost report, unless an operator advances it first.
SealedIsAnchored ==
    \A b \in Batch : status[b] = "sealed" ~> (anchor[b] # NoTx \/ status[b] # "sealed")

\* What the code does not keep.  docs/runbook.md calls an unanchored batch
\* "weight that cannot be sold until a root reaches the ledger"; advanceStatus
\* does not look at the anchor, and pendingAnchor then drops the batch.
SoldOnlyAnchored == \A b \in Batch : status[b] = "sold" => anchor[b] # NoTx
=============================================================================
