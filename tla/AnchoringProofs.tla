--------------------------- MODULE AnchoringProofs ---------------------------
(***************************************************************************)
(* What Anchoring guarantees for any batches and workers and any number of *)
(* transactions and faults.                                                *)
(*                                                                         *)
(* The argument: what a worker or a backend call knows of the ledger and   *)
(* of the batch rows is never taken back.  A transaction that landed stays *)
(* landed, a root once written stays, and so does an AnchorRecord; a call  *)
(* made late or served late still acts on something true.                  *)
(*                                                                         *)
(* The argument for the fees: per batch, the transactions that landed or   *)
(* may land and the workers that may still submit one are together never   *)
(* more than the workers and the faults.  To submit uses a worker's turn,  *)
(* and only a fault makes it lose a transaction that still may land.       *)
(***************************************************************************)
EXTENDS Anchoring, SequenceTheorems, FiniteSetTheorems, TLAPS

-----------------------------------------------------------------------------
(* The inductive invariant.                                                *)

\* A batch has a root exactly when it has left "open".
RootIffSealed ==
    \A b \in Batch : root[b] = NoRoot <=> status[b] \in {"absent", "open"}

\* A call that is going to write, or has written, the AnchorRecord of c.batch.
Succeeding(c) == c.kind = "anchor" /\ c.step \in {"count", "insert"}

\* An anchor call is only made for a landed transaction, and only it counts as
\* a success; it saves for a sealed batch with the root it carries, and what it
\* saved is still there when it logs the attempt.
CallOK(c) ==
    /\ c.kind = "anchor" => Landed(c.tx)
    /\ c.kind = "anchor" <=> c.outcome = "succeeded"
    /\ c.step = "save" =>
           c.kind = "anchor" /\ root[c.batch] = c.root /\ status[c.batch] \notin {"absent", "open"}
    /\ Succeeding(c) => anchor[c.batch] = c.tx

\* One success per batch: logged already, or about to be by one call.
Success(b, i) == i \in DOMAIN attempts[b] /\ attempts[b][i].outcome = "succeeded"
SuccessOnce ==
    /\ \A b \in Batch : \A i, j \in Nat : Success(b, i) /\ Success(b, j) => i = j
    /\ \A b \in Batch : \A i \in Nat : Success(b, i) =>
           anchor[b] # NoTx /\ \A c \in calls : Succeeding(c) => c.batch # b
    /\ \A c, d \in calls : Succeeding(c) /\ Succeeding(d) /\ c.batch = d.batch => c = d

\* An AnchorRecord names a submitted transaction.
AnchorsSubmitted == \A b \in Batch : anchor[b] # NoTx => anchor[b] \in 1 .. Len(txs)

IInv ==
    /\ TypeOK
    /\ RootIffSealed
    /\ \A c \in calls : CallOK(c)
    /\ AnchorsSubmitted
    /\ AnchorsConfirmed
    /\ SuccessOnce

-----------------------------------------------------------------------------
(* Type correctness.                                                       *)

DatabaseOK ==
    /\ anchor \in [Batch -> Nat]
    /\ attempts \in [Batch -> Seq([number : Nat, outcome : Outcome])]
    /\ backoff \subseteq Batch

NetworkOK ==
    /\ txs \in Seq(TxType) /\ Len(txs) <= MaxTx
    /\ sequence \in Nat /\ faults \in 0 .. MaxFaults

\* x speaks of a transaction that was submitted for its batch and its root.
Submitted(x) ==
    /\ x.tx \in 1 .. Len(txs)
    /\ txs[x.tx].batch = x.batch
    /\ txs[x.tx].root = x.root

CallsOK == calls \subseteq CallType /\ \A c \in calls : Submitted(c)

WorkersOK ==
    /\ worker \in [Worker -> WorkerType]
    /\ \A w \in Worker : worker[w].phase \notin {"idle", "loop"} => Submitted(worker[w])

LEMMA TypeParts == TypeOK <=> Row!RowTypeOK /\ DatabaseOK /\ NetworkOK /\ CallsOK /\ WorkersOK
BY DEF TypeOK, DatabaseOK, NetworkOK, CallsOK, WorkersOK, Submitted

LEMMA InitTypeOK == Init => TypeOK
<1> SUFFICES ASSUME Init PROVE TypeOK
    OBVIOUS
<1> USE AnchoringAssumption DEF Init
<1>1. Row!RowTypeOK
    BY DEF Row!Init, Row!RowTypeOK, Row!Status
<1>2. DatabaseOK /\ NetworkOK /\ CallsOK
    BY DEF DatabaseOK, NetworkOK, CallsOK, NoTx
<1>3. WorkersOK
    BY DEF WorkersOK, WorkerType, Resting, NoTx
<1>4. QED
    BY <1>1, <1>2, <1>3, TypeParts

\* What a step keeps of the rows: decisions, once made, stay.
RowsKept ==
    \A b \in Batch :
        /\ root[b] # NoRoot => root'[b] = root[b]
        /\ status[b] \notin {"absent", "open"} => status'[b] \notin {"absent", "open"}

\* A batch row moves.
LEMMA RowMoves ==
    ASSUME Row!RowTypeOK, RootIffSealed, Row!Next
    PROVE  Row!RowTypeOK' /\ RootIffSealed' /\ RowsKept
<1> USE AnchoringAssumption DEF Row!RowTypeOK, RootIffSealed, Row!Status, RowsKept
<1>1. ASSUME NEW b \in Batch, Row!Create(b)
      PROVE  Row!RowTypeOK' /\ RootIffSealed' /\ RowsKept
    BY <1>1 DEF Row!Create
<1>2. ASSUME NEW b \in Batch, NEW rt \in Root, Row!Seal(b, rt)
      PROVE  Row!RowTypeOK' /\ RootIffSealed' /\ RowsKept
    BY <1>2 DEF Row!Seal
<1>3. ASSUME NEW b \in Batch, NEW to \in {"processed", "sold"}, Row!Advance(b, to)
      PROVE  Row!RowTypeOK' /\ RootIffSealed' /\ RowsKept
    BY <1>3 DEF Row!Advance, Row!WrittenOver
<1>4. QED
    BY <1>1, <1>2, <1>3 DEF Row!Next

LEMMA RowsStep ==
    ASSUME TypeOK, RootIffSealed, [Next]_vars
    PROVE  Row!RowTypeOK' /\ RootIffSealed' /\ RowsKept
<1>1. CASE Row!Next
    BY <1>1, RowMoves, TypeParts
<1>2. CASE UNCHANGED rows
    BY <1>2, TypeParts DEF rows, Row!RowTypeOK, RootIffSealed, RowsKept
<1>3. Row!Next \/ UNCHANGED rows
    BY DEF Next, vars, BatchesService, Land, Die, FallDue, AnchorOnce, FetchPending, Submit,
           SubmitAnswered, Verify, Report, Timeout, WorkerCrash, Serve, RecordAnchorRead,
           RecordAnchorSave, RecordFailureRead, AttemptCount, AttemptInsert, CallCrash
<1>4. QED
    BY <1>1, <1>2, <1>3

\* The ledger and what was submitted to it only grow.
NetworkGrows ==
    /\ Len(txs) <= Len(txs')
    /\ \A t \in 1 .. Len(txs) :
           /\ txs'[t].batch = txs[t].batch
           /\ txs'[t].root = txs[t].root
           /\ Landed(t) => txs'[t].state = "landed"

LEMMA NetworkSame ==
    ASSUME NetworkOK, UNCHANGED network, faults' \in 0 .. MaxFaults
    PROVE  NetworkOK' /\ NetworkGrows
BY DEF NetworkOK, NetworkGrows, network, Landed

LEMMA FaultCounted == NetworkOK /\ Fault => faults' \in 0 .. MaxFaults
BY AnchoringAssumption DEF NetworkOK, Fault

\* One transaction changes its state, and nothing that landed is undone.
LEMMA StateChanges ==
    ASSUME NetworkOK, NEW t \in 1 .. Len(txs), NEW state \in {"landed", "dead"},
           txs[t].state = "pending", txs' = [txs EXCEPT ![t].state = state],
           sequence' \in Nat, faults' \in 0 .. MaxFaults
    PROVE  NetworkOK' /\ NetworkGrows
<1> DEFINE tx == [txs[t] EXCEPT !.state = state]
<1>1. txs \in Seq(TxType) /\ txs[t] \in TxType
    BY ElementOfSeq DEF NetworkOK
<1>2. tx \in TxType
    BY <1>1 DEF TxType
<1>3. txs' = [txs EXCEPT ![t] = tx]
    BY <1>1 DEF TxType
<1>4. tx.batch = txs[t].batch /\ tx.root = txs[t].root
    BY <1>1 DEF TxType
<1> HIDE DEF tx
<1>5. /\ txs' \in Seq(TxType) /\ Len(txs') = Len(txs)
      /\ \A u \in 1 .. Len(txs) : txs'[u] = IF u = t THEN tx ELSE txs[u]
    BY <1>1, <1>2, <1>3, ExceptSeq
<1>6. NetworkOK'
    BY <1>5 DEF NetworkOK
<1>7. NetworkGrows
    BY <1>1, <1>4, <1>5 DEF NetworkGrows, Landed
<1>8. QED
    BY <1>6, <1>7

LEMMA NetworkStep ==
    ASSUME TypeOK, [Next]_vars
    PROVE  NetworkOK' /\ NetworkGrows
<1>0. NetworkOK /\ CallsOK /\ WorkersOK /\ faults \in 0 .. MaxFaults
    BY TypeParts DEF NetworkOK
<1>1. ASSUME NEW t \in 1 .. Len(txs), Land(t) PROVE NetworkOK' /\ NetworkGrows
    <2>1. sequence' \in Nat /\ faults' \in 0 .. MaxFaults
        BY <1>0, <1>1 DEF Land, NetworkOK
    <2>2. txs[t].state = "pending" /\ txs' = [txs EXCEPT ![t].state = "landed"]
        BY <1>1 DEF Land
    <2>3. QED
        BY <1>0, <2>1, <2>2, StateChanges
<1>2. ASSUME NEW t \in 1 .. Len(txs), Die(t) PROVE NetworkOK' /\ NetworkGrows
    <2>1. sequence' \in Nat /\ faults' \in 0 .. MaxFaults
        BY <1>0, <1>2, FaultCounted DEF Die, NetworkOK
    <2>2. txs[t].state = "pending" /\ txs' = [txs EXCEPT ![t].state = "dead"]
        BY <1>2 DEF Die
    <2>3. QED
        BY <1>0, <2>1, <2>2, StateChanges
<1>3. ASSUME NEW w \in Worker, Submit(w) PROVE NetworkOK' /\ NetworkGrows
    <2>1. PICK item \in worker[w].queue :
              txs' = Append(txs, [batch |-> item[1], root |-> item[2],
                                  seq |-> sequence + 1, state |-> "pending"])
        BY <1>3 DEF Submit
    <2> DEFINE tx == [batch |-> item[1], root |-> item[2],
                      seq |-> sequence + 1, state |-> "pending"]
    <2>2. tx \in TxType
        BY <1>0, <2>1 DEF WorkersOK, WorkerType, TxType, NetworkOK
    <2>3. txs' = Append(txs, tx)
        BY <2>1
    <2> HIDE DEF tx
    <2>4. txs \in Seq(TxType) /\ Len(txs) < MaxTx /\ Len(txs) \in Nat
        BY <1>0, <1>3, LenProperties DEF Submit, NetworkOK
    <2>5. /\ txs' \in Seq(TxType) /\ Len(txs') = Len(txs) + 1
          /\ \A u \in 1 .. Len(txs) : txs'[u] = txs[u]
        BY <2>2, <2>3, <2>4, AppendProperties
    <2>6. UNCHANGED <<sequence, faults>>
        BY <1>3 DEF Submit
    <2>7. QED
        BY <1>0, <2>4, <2>5, <2>6, AnchoringAssumption DEF NetworkOK, NetworkGrows, Landed
<1>4. CASE UNCHANGED network /\ (Fault \/ UNCHANGED faults)
    BY <1>0, <1>4, NetworkSame, FaultCounted
<1>5. \/ \E t \in 1 .. Len(txs) : Land(t) \/ Die(t)
      \/ \E w \in Worker : Submit(w)
      \/ UNCHANGED network /\ (Fault \/ UNCHANGED faults)
    BY DEF Next, vars, BatchesService, FallDue, AnchorOnce, FetchPending,
           SubmitAnswered, Verify, Report, Timeout, WorkerCrash, Serve, RecordAnchorRead,
           RecordAnchorSave, RecordFailureRead, AttemptCount, AttemptInsert, CallCrash
<1>6. QED
    BY <1>1, <1>2, <1>3, <1>4, <1>5

-----------------------------------------------------------------------------
(* The workers.                                                            *)

\* What a call or a worker knows of its transaction stays true.
LEMMA SubmittedStays ==
    ASSUME NetworkOK, NetworkGrows, NetworkOK', NEW x, Submitted(x)
    PROVE  x.tx \in 1 .. Len(txs') /\ txs'[x.tx].batch = x.batch /\ txs'[x.tx].root = x.root
<1>1. Len(txs) \in Nat /\ Len(txs') \in Nat
    BY LenProperties DEF NetworkOK
<1>2. QED
    BY <1>1 DEF Submitted, NetworkGrows

LEMMA OneWorkerMoves ==
    ASSUME NetworkOK, NetworkGrows, NetworkOK', WorkersOK,
           NEW w \in Worker, NEW s \in WorkerType,
           worker' = [worker EXCEPT ![w] = s],
           s.phase \notin {"idle", "loop"} =>
               s.tx \in 1 .. Len(txs') /\ txs'[s.tx].batch = s.batch /\ txs'[s.tx].root = s.root
    PROVE  WorkersOK'
<1>1. worker' \in [Worker -> WorkerType]
    BY DEF WorkersOK
<1>2. ASSUME NEW v \in Worker, worker'[v].phase \notin {"idle", "loop"}
      PROVE  Submitted(worker[v])' \/ v = w
    BY <1>2, SubmittedStays DEF WorkersOK, Submitted
<1>3. ASSUME s.phase \notin {"idle", "loop"} PROVE Submitted(worker[w])'
    BY <1>3 DEF WorkersOK, Submitted
<1>4. worker'[w] = s
    BY DEF WorkersOK
<1>5. QED
    BY <1>1, <1>2, <1>3, <1>4 DEF WorkersOK

LEMMA RestingType == Resting \in WorkerType
BY DEF Resting, WorkerType, NoTx

\* A worker takes its next batch, or rests.
LEMMA NextBatchKeeps ==
    ASSUME NetworkOK, NetworkGrows, NetworkOK', WorkersOK, NEW w \in Worker, NextBatch(w)
    PROVE  WorkersOK'
<1> DEFINE s == [Resting EXCEPT !.queue = worker[w].queue,
                                !.phase = IF worker[w].queue = {} THEN "idle" ELSE "loop"]
<1>1. s \in WorkerType /\ s.phase \in {"idle", "loop"}
    BY DEF WorkersOK, WorkerType, Resting, NoTx
<1>2. worker' = [worker EXCEPT ![w] = s]
    BY DEF NextBatch
<1> HIDE DEF s
<1>3. QED
    BY <1>1, <1>2, OneWorkerMoves

\* A worker goes from one phase to another of the same transaction.
LEMMA PhaseKeeps ==
    ASSUME NetworkOK, NetworkGrows, NetworkOK', WorkersOK, NEW w \in Worker,
           worker[w].phase \notin {"idle", "loop"},
           NEW phase \in {"verify", "recording", "report", "reporting"},
           worker' = [worker EXCEPT ![w].phase = phase]
    PROVE  WorkersOK'
<1> DEFINE s == [worker[w] EXCEPT !.phase = phase]
<1>1. /\ s \in WorkerType
      /\ s.tx = worker[w].tx /\ s.batch = worker[w].batch /\ s.root = worker[w].root
    BY DEF WorkersOK, WorkerType
<1>2. worker' = [worker EXCEPT ![w] = s]
    BY DEF WorkersOK, WorkerType
<1>3. Submitted(worker[w])
    BY DEF WorkersOK
<1> HIDE DEF s
<1>4. s.tx \in 1 .. Len(txs') /\ txs'[s.tx].batch = s.batch /\ txs'[s.tx].root = s.root
    BY <1>1, <1>3, SubmittedStays
<1>5. QED
    BY <1>1, <1>2, <1>4, OneWorkerMoves

LEMMA WorkersSame ==
    ASSUME NetworkOK, NetworkGrows, NetworkOK', WorkersOK, UNCHANGED worker
    PROVE  WorkersOK'
BY SubmittedStays DEF WorkersOK, Submitted

\* An answer: c's worker goes on if it still waits for it.
LEMMA ReplyKeeps ==
    ASSUME NetworkOK, NetworkGrows, NetworkOK', CallsOK, WorkersOK,
           NEW c \in calls, NEW ok \in BOOLEAN, Reply(c, ok)
    PROVE  WorkersOK'
<1>1. c.by \in Worker
    BY DEF CallsOK, CallType
<1>2. CASE UNCHANGED worker
    BY <1>2, WorkersSame
<1>3. CASE NextBatch(c.by)
    BY <1>1, <1>3, NextBatchKeeps
<1>4. CASE Awaits(c.by, c) /\ ReportFailure(c.by)
    BY <1>1, <1>4, PhaseKeeps DEF Awaits, ReportFailure
<1>5. QED
    BY <1>2, <1>3, <1>4 DEF Reply

LEMMA WorkersStep ==
    ASSUME TypeOK, [Next]_vars
    PROVE  WorkersOK'
<1>1. NetworkOK /\ NetworkGrows /\ NetworkOK' /\ CallsOK /\ WorkersOK /\ Row!RowTypeOK
    BY TypeParts, NetworkStep
<1>2. ASSUME NEW w \in Worker, FetchPending(w) PROVE WorkersOK'
    <2> DEFINE s == [Resting EXCEPT !.phase = "loop",
                                    !.queue = {<<b, root[b]>> : b \in PendingAnchor}]
    <2>1. {<<b, root[b]>> : b \in PendingAnchor} \subseteq Batch \X Root
        BY <1>1 DEF PendingAnchor, Row!RowTypeOK
    <2>2. s \in WorkerType /\ s.phase = "loop"
        BY <2>1 DEF WorkerType, Resting, NoTx
    <2>3. worker' = [worker EXCEPT ![w] = s]
        BY <1>2 DEF FetchPending
    <2> HIDE DEF s
    <2>4. QED
        BY <1>1, <2>2, <2>3, OneWorkerMoves
<1>3. ASSUME NEW w \in Worker, Submit(w) PROVE WorkersOK'
    <2>1. PICK item \in worker[w].queue :
              /\ txs' = Append(txs, [batch |-> item[1], root |-> item[2],
                                     seq |-> sequence + 1, state |-> "pending"])
              /\ worker' = [worker EXCEPT ![w] =
                     [phase |-> "submitted", queue |-> worker[w].queue \ {item},
                      batch |-> item[1], root |-> item[2], tx |-> Len(txs) + 1]]
        BY <1>3 DEF Submit
    <2>2. item[1] \in Batch /\ item[2] \in Root /\ worker[w].queue \in SUBSET (Batch \X Root)
        BY <1>1, <2>1 DEF WorkersOK, WorkerType
    <2> DEFINE s == [phase |-> "submitted", queue |-> worker[w].queue \ {item},
                     batch |-> item[1], root |-> item[2], tx |-> Len(txs) + 1]
               tx == [batch |-> item[1], root |-> item[2],
                      seq |-> sequence + 1, state |-> "pending"]
    <2>3. txs \in Seq(TxType) /\ Len(txs) \in Nat /\ tx \in TxType
        BY <1>1, <2>2, LenProperties DEF NetworkOK, TxType
    <2>4. s \in WorkerType /\ s.tx = Len(txs) + 1 /\ s.batch = tx.batch /\ s.root = tx.root
        BY <2>2, <2>3 DEF WorkerType
    <2>5. worker' = [worker EXCEPT ![w] = s] /\ txs' = Append(txs, tx)
        BY <2>1
    <2> HIDE DEF s, tx
    <2>6. s.tx \in 1 .. Len(txs') /\ txs'[s.tx] = tx
        BY <2>3, <2>4, <2>5, AppendProperties
    <2>7. QED
        BY <1>1, <2>4, <2>5, <2>6, OneWorkerMoves
<1>4. ASSUME NEW w \in Worker, SubmitAnswered(w) \/ Verify(w) \/ Report(w) PROVE WorkersOK'
    <2>1. PICK phase \in {"verify", "recording", "report", "reporting"} :
              worker[w].phase \notin {"idle", "loop"} /\ worker' = [worker EXCEPT ![w].phase = phase]
        BY <1>4 DEF SubmitAnswered, Verify, Report, ReportFailure
    <2>2. QED
        BY <1>1, <2>1, PhaseKeeps
<1>5. ASSUME NEW w \in Worker, Timeout(w) PROVE WorkersOK'
    <2>1. CASE NextBatch(w)
        BY <1>1, <2>1, NextBatchKeeps
    <2>2. CASE worker[w].phase \in {"submitted", "verify", "recording"} /\ ReportFailure(w)
        BY <1>1, <2>2, PhaseKeeps DEF ReportFailure
    <2>3. QED
        BY <1>5, <2>1, <2>2 DEF Timeout
<1>6. ASSUME NEW w \in Worker, WorkerCrash(w) PROVE WorkersOK'
    <2>1. worker' = [worker EXCEPT ![w] = Resting] /\ Resting.phase = "idle"
        BY <1>6 DEF WorkerCrash, Resting
    <2>2. QED
        BY <1>1, <2>1, RestingType, OneWorkerMoves
<1>7. ASSUME NEW c \in calls, NEW ok \in BOOLEAN, Reply(c, ok) PROVE WorkersOK'
    BY <1>1, <1>7, ReplyKeeps
<1>8. ASSUME NEW c \in calls, Serve(c) \/ CallCrash(c) PROVE WorkersOK'
    <2>1. (\E ok \in BOOLEAN : Reply(c, ok)) \/ UNCHANGED worker
        BY <1>8 DEF Serve, RecordAnchorRead, RecordAnchorSave, RecordFailureRead, AttemptCount,
                    AttemptInsert, CallCrash, GoOn
    <2>2. QED
        BY <1>1, <1>7, <2>1, WorkersSame
<1>9. CASE UNCHANGED worker
    BY <1>1, <1>9, WorkersSame
<1>10. QED
    BY <1>2, <1>3, <1>4, <1>5, <1>6, <1>8, <1>9
       DEF Next, vars, BatchesService, Land, Die, FallDue, AnchorOnce

-----------------------------------------------------------------------------
(* The database and the backend calls.                                     *)

AnchorsKept == \A b \in Batch : anchor[b] # NoTx => anchor'[b] = anchor[b]

LEMMA DatabaseStep ==
    ASSUME TypeOK, [Next]_vars
    PROVE  DatabaseOK' /\ AnchorsKept
<1>0. DatabaseOK /\ CallsOK
    BY TypeParts
<1>1. ASSUME NEW b \in Batch, FallDue(b) PROVE DatabaseOK' /\ AnchorsKept
    BY <1>0, <1>1 DEF FallDue, DatabaseOK, AnchorsKept
<1>2. ASSUME NEW c \in calls, RecordAnchorSave(c) PROVE DatabaseOK' /\ AnchorsKept
    <2>1. c.batch \in Batch /\ c.tx \in Nat
        BY <1>0 DEF CallsOK, CallType
    <2>2. QED
        BY <1>0, <1>2, <2>1 DEF RecordAnchorSave, DatabaseOK, AnchorsKept
<1>3. ASSUME NEW c \in calls, AttemptInsert(c) PROVE DatabaseOK' /\ AnchorsKept
    <2>1. PICK row : row = [number |-> c.n + 1, outcome |-> c.outcome]
        OBVIOUS
    <2>2. c.batch \in Batch /\ row \in [number : Nat, outcome : Outcome]
        BY <1>0, <2>1 DEF CallsOK, CallType
    <2>3. attempts' = [attempts EXCEPT ![c.batch] = Append(attempts[c.batch], row)]
        BY <1>3, <2>1 DEF AttemptInsert
    <2>4. Append(attempts[c.batch], row) \in Seq([number : Nat, outcome : Outcome])
        BY <1>0, <2>2, AppendProperties DEF DatabaseOK
    <2>5. attempts' \in [Batch -> Seq([number : Nat, outcome : Outcome])]
        BY <1>0, <2>2, <2>3, <2>4 DEF DatabaseOK
    <2>6. anchor' = anchor /\ backoff' \subseteq Batch
        BY <1>0, <1>3, <2>2 DEF AttemptInsert, DatabaseOK
    <2>7. QED
        BY <1>0, <2>5, <2>6 DEF DatabaseOK, AnchorsKept
<1>4. CASE UNCHANGED database
    BY <1>0, <1>4 DEF database, DatabaseOK, AnchorsKept
<1>5. \/ \E b \in Batch : FallDue(b)
      \/ \E c \in calls : RecordAnchorSave(c) \/ AttemptInsert(c)
      \/ UNCHANGED database
    BY DEF Next, vars, BatchesService, Land, Die, AnchorOnce, FetchPending, Submit,
           SubmitAnswered, Verify, Report, Timeout, WorkerCrash, Serve, RecordAnchorRead,
           RecordFailureRead, AttemptCount, CallCrash
<1>6. QED
    BY <1>1, <1>2, <1>3, <1>4, <1>5

\* The state in which a step is taken, and what every step keeps.
Kept ==
    /\ IInv
    /\ Row!RowTypeOK' /\ RootIffSealed' /\ RowsKept
    /\ NetworkOK' /\ NetworkGrows
    /\ WorkersOK'
    /\ DatabaseOK' /\ AnchorsKept

LEMMA StepKeeps == IInv /\ [Next]_vars => Kept
BY RowsStep, NetworkStep, WorkersStep, DatabaseStep DEF IInv, Kept

\* What a call knows stays true.
LEMMA CallStaysOK ==
    ASSUME Kept, NEW c \in calls
    PROVE  CallOK(c)' /\ Submitted(c)'
<1>1. CallsOK /\ NetworkOK /\ DatabaseOK /\ CallOK(c) /\ Submitted(c) /\ c \in CallType
    BY TypeParts DEF Kept, IInv, CallsOK
<1>2. Submitted(c)'
    BY <1>1, SubmittedStays DEF Kept, Submitted
<1>3. Landed(c.tx) => Landed(c.tx)'
    BY <1>1 DEF Kept, NetworkGrows, Submitted, Landed
<1>4. c.step = "save" => root'[c.batch] = c.root /\ status'[c.batch] \notin {"absent", "open"}
    <2> SUFFICES ASSUME c.step = "save"
                 PROVE  root'[c.batch] = c.root /\ status'[c.batch] \notin {"absent", "open"}
        OBVIOUS
    <2>1. /\ c.batch \in Batch /\ root[c.batch] = c.root
          /\ status[c.batch] \notin {"absent", "open"}
        BY <1>1 DEF CallType, CallOK
    <2>2. root[c.batch] # NoRoot
        BY <2>1 DEF Kept, IInv, RootIffSealed
    <2>3. QED
        BY <2>1, <2>2 DEF Kept, RowsKept
<1>5. Succeeding(c) => anchor'[c.batch] = c.tx
    <2>1. c.batch \in Batch /\ c.tx \in Nat \ {0}
        BY <1>1 DEF CallType, Submitted
    <2>2. QED
        BY <1>1, <2>1 DEF CallOK, Kept, AnchorsKept, NoTx
<1>6. QED
    BY <1>1, <1>2, <1>3, <1>4, <1>5 DEF CallOK, Succeeding

\* So it is enough to look at the call a step adds.
LEMMA OneCallMoves ==
    ASSUME Kept, NEW d \in CallType, Submitted(d)', CallOK(d)', calls' \subseteq calls \cup {d}
    PROVE  CallsOK' /\ \A c \in calls' : CallOK(c)'
<1>1. calls \subseteq CallType
    BY TypeParts DEF Kept, IInv, CallsOK
<1>2. ASSUME NEW c \in calls' PROVE c \in CallType /\ Submitted(c)' /\ CallOK(c)'
    BY <1>1, <1>2, CallStaysOK
<1>3. QED
    BY <1>2 DEF CallsOK

LEMMA CallsLeave ==
    ASSUME Kept, calls' \subseteq calls
    PROVE  CallsOK' /\ \A c \in calls' : CallOK(c)'
<1>1. calls \subseteq CallType
    BY TypeParts DEF Kept, IInv, CallsOK
<1>2. ASSUME NEW c \in calls' PROVE c \in CallType /\ Submitted(c)' /\ CallOK(c)'
    BY <1>1, <1>2, CallStaysOK
<1>3. QED
    BY <1>2 DEF CallsOK

CallsGood == CallsOK /\ (\A c \in calls : CallOK(c)) /\ SuccessOnce

\* Nothing is logged, and no call becomes a success.
LEMMA SuccessKept ==
    ASSUME Kept, UNCHANGED attempts, \A c \in calls' : Succeeding(c) => c \in calls
    PROVE  SuccessOnce'
<1>1. SuccessOnce /\ AnchorsKept
    BY DEF Kept, IInv
<1>2. QED
    BY <1>1 DEF SuccessOnce, Success, AnchorsKept

LEMMA CallsOnlyLeave ==
    ASSUME Kept, calls' \subseteq calls, UNCHANGED attempts
    PROVE  CallsGood'
BY CallsLeave, SuccessKept DEF CallsGood

LEMMA CallMoves ==
    ASSUME Kept, NEW d \in CallType, Submitted(d)', CallOK(d)', ~Succeeding(d),
           calls' \subseteq calls \cup {d}, UNCHANGED attempts
    PROVE  CallsGood'
<1>1. \A c \in calls' : Succeeding(c) => c \in calls
    OBVIOUS
<1>2. QED
    BY <1>1, OneCallMoves, SuccessKept DEF CallsGood

LEMMA ReplyLeaves == ASSUME NEW c, NEW ok, Reply(c, ok) PROVE calls' = calls \ {c}
BY DEF Reply

\* The worker makes a call.
LEMMA CallKeeps ==
    ASSUME Kept, NEW w \in Worker, UNCHANGED <<rows, database, network>>,
           worker[w].phase \notin {"idle", "loop"},
           NEW kind, NEW outcome, Call(w, kind, outcome),
           \/ kind = "anchor" /\ outcome = "succeeded" /\ Landed(worker[w].tx)
           \/ kind = "failure" /\ outcome \in {"failed", "unverified"}
    PROVE  CallsGood'
<1>1. NetworkOK /\ WorkersOK
    BY TypeParts DEF Kept, IInv
<1>2. PICK d : d = [kind |-> kind, by |-> w, batch |-> worker[w].batch,
                    root |-> worker[w].root, tx |-> worker[w].tx,
                    outcome |-> outcome, step |-> "read", n |-> 0]
    OBVIOUS
<1>3. worker[w].tx \in 1 .. Len(txs) /\ txs[worker[w].tx] \in TxType
    BY <1>1, ElementOfSeq DEF NetworkOK, WorkersOK, Submitted
<1>4. /\ worker[w].tx \in Nat /\ worker[w].batch \in Batch /\ worker[w].root \in Root
      /\ Submitted(worker[w])
    BY <1>1, <1>3 DEF WorkersOK, WorkerType, Submitted, TxType
<1>5. d \in CallType
    BY <1>2, <1>4 DEF CallType, Outcome
<1>6. Submitted(d)'
    BY <1>2, <1>4 DEF Submitted, network
<1>7. CallOK(d)' /\ ~Succeeding(d)
    BY <1>2 DEF CallOK, Succeeding, Landed, network
<1>8. calls' \subseteq calls \cup {d} /\ UNCHANGED attempts
    BY <1>2 DEF Call, database
<1>9. QED
    BY <1>5, <1>6, <1>7, <1>8, CallMoves

LEMMA RecordAnchorReadKeeps ==
    ASSUME Kept, NEW c \in calls, RecordAnchorRead(c)
    PROVE  CallsGood'
<1>1. c \in CallType /\ CallOK(c) /\ RootIffSealed /\ Submitted(c)' /\ CallOK(c)'
    BY CallStaysOK, TypeParts DEF Kept, IInv, CallsOK
<1>2. UNCHANGED <<rows, database, network>> /\ UNCHANGED attempts
    BY DEF RecordAnchorRead, database
<1>3. ASSUME Sealed(c.batch), root[c.batch] = c.root, GoOn(c, "save") PROVE CallsGood'
    <2>1. PICK d : d = [c EXCEPT !.step = "save"]
        OBVIOUS
    <2>2. /\ d \in CallType /\ d.tx = c.tx /\ d.batch = c.batch /\ d.root = c.root
          /\ d.kind = c.kind /\ d.outcome = c.outcome /\ d.step = "save"
        BY <1>1, <2>1 DEF CallType
    <2>3. status[c.batch] \notin {"absent", "open"} /\ c.batch \in Batch
        BY <1>1, <1>3 DEF Sealed, RootIffSealed, CallType
    <2>4. Submitted(d)'
        BY <1>1, <2>2 DEF Submitted
    <2>5. CallOK(d)' /\ ~Succeeding(d)
        BY <1>1, <1>2, <1>3, <2>2, <2>3 DEF RecordAnchorRead, CallOK, Succeeding, rows
    <2>6. QED
        BY <1>2, <1>3, <2>1, <2>2, <2>4, <2>5, CallMoves DEF GoOn
<1>4. QED
    BY <1>2, <1>3, ReplyLeaves, CallsOnlyLeave DEF RecordAnchorRead

LEMMA RecordAnchorSaveKeeps ==
    ASSUME Kept, NEW c \in calls, RecordAnchorSave(c)
    PROVE  CallsGood'
<1>1. /\ c \in CallType /\ CallOK(c) /\ Submitted(c)' /\ CallOK(c)' /\ Submitted(c)
      /\ DatabaseOK /\ SuccessOnce /\ \A e \in calls : CallOK(e) /\ Submitted(e)
    BY CallStaysOK, TypeParts DEF Kept, IInv, CallsOK
<1>2. UNCHANGED attempts
    BY DEF RecordAnchorSave
<1>3. ASSUME anchor[c.batch] = NoTx, anchor' = [anchor EXCEPT ![c.batch] = c.tx],
             GoOn(c, "count")
      PROVE  CallsGood'
    <2>1. PICK d : d = [c EXCEPT !.step = "count"]
        OBVIOUS
    <2>2. /\ d \in CallType /\ d.tx = c.tx /\ d.batch = c.batch /\ d.root = c.root
          /\ d.kind = c.kind /\ d.outcome = c.outcome /\ d.step = "count"
          /\ c.kind = "anchor" /\ c.batch \in Batch /\ c.tx # NoTx
        BY <1>1, <2>1 DEF CallType, RecordAnchorSave, Submitted, NoTx
    <2>3. Submitted(d)'
        BY <1>1, <2>2 DEF Submitted
    <2>4. anchor'[c.batch] = c.tx
        BY <1>1, <1>3, <2>2 DEF DatabaseOK
    <2>5. CallOK(d)'
        BY <1>1, <2>2, <2>4 DEF CallOK, Succeeding
    <2>6. calls' = (calls \ {c}) \cup {d}
        BY <1>3, <2>1 DEF GoOn
    <2>7. \A e \in calls : Succeeding(e) => e.batch # c.batch
        BY <1>1, <1>3 DEF CallOK, Submitted, NoTx
    <2>8. \A i \in Nat : ~Success(c.batch, i)
        BY <1>1, <1>3, <2>2 DEF SuccessOnce
    <2>9. SuccessOnce'
        <3>1. \A b \in Batch, i \in Nat : Success(b, i)' <=> Success(b, i)
            BY <1>2 DEF Success
        <3>2. \A b \in Batch, i \in Nat : Success(b, i) =>
                  anchor'[b] # NoTx /\ \A e \in calls' : Succeeding(e) => e.batch # b
            BY <1>1, <2>2, <2>4, <2>6, <2>8 DEF SuccessOnce, Kept, AnchorsKept
        <3>3. \A e, f \in calls' : Succeeding(e) /\ Succeeding(f) /\ e.batch = f.batch => e = f
            BY <1>1, <2>2, <2>6, <2>7 DEF SuccessOnce
        <3>4. QED
            BY <1>1, <3>1, <3>2, <3>3 DEF SuccessOnce, Succeeding
    <2>10. QED
        BY <2>2, <2>3, <2>5, <2>6, <2>9, OneCallMoves DEF CallsGood
<1>4. CASE Reply(c, FALSE)
    BY <1>2, <1>4, ReplyLeaves, CallsOnlyLeave
<1>5. QED
    BY <1>3, <1>4 DEF RecordAnchorSave

LEMMA RecordFailureReadKeeps ==
    ASSUME Kept, NEW c \in calls, RecordFailureRead(c)
    PROVE  CallsGood'
<1>1. c \in CallType /\ CallOK(c) /\ Submitted(c)' /\ CallOK(c)'
    BY CallStaysOK, TypeParts DEF Kept, IInv, CallsOK
<1>2. UNCHANGED attempts /\ c.kind = "failure"
    BY DEF RecordFailureRead, database
<1>3. ASSUME GoOn(c, "count") PROVE CallsGood'
    <2>1. PICK d : d = [c EXCEPT !.step = "count"]
        OBVIOUS
    <2>2. /\ d \in CallType /\ d.tx = c.tx /\ d.batch = c.batch /\ d.root = c.root
          /\ d.kind = c.kind /\ d.outcome = c.outcome /\ d.step = "count"
        BY <1>1, <2>1 DEF CallType
    <2>3. Submitted(d)' /\ CallOK(d)' /\ ~Succeeding(d)
        BY <1>1, <1>2, <2>2 DEF Submitted, CallOK, Succeeding
    <2>4. QED
        BY <1>2, <1>3, <2>1, <2>2, <2>3, CallMoves DEF GoOn
<1>4. QED
    BY <1>2, <1>3, ReplyLeaves, CallsOnlyLeave DEF RecordFailureRead

LEMMA AttemptCountKeeps ==
    ASSUME Kept, NEW c \in calls, AttemptCount(c)
    PROVE  CallsGood'
<1>1. /\ c \in CallType /\ CallOK(c) /\ Submitted(c)' /\ CallOK(c)'
      /\ DatabaseOK /\ SuccessOnce
    BY CallStaysOK, TypeParts DEF Kept, IInv, CallsOK
<1>2. UNCHANGED <<anchor, attempts>> /\ c.step = "count"
    BY DEF AttemptCount, database
<1>3. PICK d : d = [c EXCEPT !.step = "insert", !.n = Len(attempts[c.batch])]
    OBVIOUS
<1>4. Len(attempts[c.batch]) \in Nat
    BY <1>1, LenProperties DEF DatabaseOK, CallType
<1>5. /\ d \in CallType /\ d.tx = c.tx /\ d.batch = c.batch /\ d.root = c.root
      /\ d.kind = c.kind /\ d.outcome = c.outcome /\ d.step = "insert"
    BY <1>1, <1>3, <1>4 DEF CallType
<1>6. Submitted(d)' /\ CallOK(d)' /\ (Succeeding(d) <=> Succeeding(c))
    BY <1>1, <1>2, <1>5 DEF Submitted, CallOK, Succeeding
<1>7. calls' = (calls \ {c}) \cup {d}
    BY <1>3 DEF AttemptCount
<1>8. SuccessOnce'
    <2>1. \A b \in Batch, i \in Nat : Success(b, i)' <=> Success(b, i)
        BY <1>2 DEF Success
    <2>2. \A b \in Batch, i \in Nat : Success(b, i) =>
              anchor'[b] # NoTx /\ \A e \in calls' : Succeeding(e) => e.batch # b
        BY <1>1, <1>2, <1>5, <1>6, <1>7 DEF SuccessOnce
    <2>3. \A e, f \in calls' : Succeeding(e) /\ Succeeding(f) /\ e.batch = f.batch => e = f
        BY <1>1, <1>5, <1>6, <1>7 DEF SuccessOnce
    <2>4. QED
        BY <1>1, <2>1, <2>2, <2>3 DEF SuccessOnce, Succeeding
<1>9. QED
    BY <1>5, <1>6, <1>7, <1>8, OneCallMoves DEF CallsGood

LEMMA AttemptInsertKeeps ==
    ASSUME Kept, NEW c \in calls, AttemptInsert(c)
    PROVE  CallsGood'
<1>1. /\ c \in CallType /\ CallOK(c) /\ Submitted(c)
      /\ DatabaseOK /\ DatabaseOK' /\ SuccessOnce
    BY CallStaysOK, TypeParts DEF Kept, IInv, CallsOK
<1>2. PICK row : row = [number |-> c.n + 1, outcome |-> c.outcome]
    OBVIOUS
<1>3. /\ c.batch \in Batch /\ row \in [number : Nat, outcome : Outcome]
      /\ row.outcome = c.outcome
    BY <1>1, <1>2 DEF CallType
<1>4. /\ attempts' = [attempts EXCEPT ![c.batch] = Append(attempts[c.batch], row)]
      /\ c.step = "insert" /\ anchor' = anchor
    BY <1>2 DEF AttemptInsert
<1>5. calls' = calls \ {c}
    BY ReplyLeaves DEF AttemptInsert
<1>6. c.outcome = "succeeded" <=> Succeeding(c)
    BY <1>1, <1>4 DEF CallOK, Succeeding
<1>7. attempts[c.batch] \in Seq([number : Nat, outcome : Outcome])
    BY <1>1, <1>3 DEF DatabaseOK
<1>8. PICK n \in Nat : n = Len(attempts[c.batch])
    BY <1>7, LenProperties
<1>9. /\ DOMAIN attempts[c.batch] = 1 .. n /\ DOMAIN attempts'[c.batch] = 1 .. n + 1
      /\ \A i \in 1 .. n : attempts'[c.batch][i] = attempts[c.batch][i]
      /\ attempts'[c.batch][n + 1] = row
    BY <1>1, <1>3, <1>4, <1>7, <1>8, AppendProperties, LenProperties DEF DatabaseOK
<1>10. \A b \in Batch, i \in Nat :
           Success(b, i)' <=> Success(b, i) \/ (b = c.batch /\ i = n + 1 /\ Succeeding(c))
    <2>1. ASSUME NEW b \in Batch, NEW i \in Nat, b # c.batch PROVE Success(b, i)' <=> Success(b, i)
        BY <1>1, <1>4, <2>1 DEF Success, DatabaseOK
    <2>2. ASSUME NEW i \in Nat
          PROVE  Success(c.batch, i)' <=> Success(c.batch, i) \/ (i = n + 1 /\ Succeeding(c))
        BY <1>3, <1>6, <1>9 DEF Success
    <2>3. QED
        BY <1>3, <2>1, <2>2
<1>11. Succeeding(c) => anchor[c.batch] # NoTx
    BY <1>1 DEF CallOK, Submitted, NoTx
<1>12. SuccessOnce'
    <2>1. \A b \in Batch : \A i, j \in Nat : Success(b, i)' /\ Success(b, j)' => i = j
        BY <1>1, <1>10 DEF SuccessOnce
    <2>2. \A b \in Batch, i \in Nat : Success(b, i)' =>
              anchor'[b] # NoTx /\ \A e \in calls' : Succeeding(e) => e.batch # b
        BY <1>1, <1>3, <1>4, <1>5, <1>10, <1>11 DEF SuccessOnce
    <2>3. \A e, f \in calls' : Succeeding(e) /\ Succeeding(f) /\ e.batch = f.batch => e = f
        BY <1>1, <1>5 DEF SuccessOnce
    <2>4. QED
        BY <2>1, <2>2, <2>3 DEF SuccessOnce, Succeeding
<1>13. QED
    BY <1>5, <1>12, CallsLeave DEF CallsGood

LEMMA CallsStep == IInv /\ [Next]_vars => CallsGood'
<1> SUFFICES ASSUME IInv, [Next]_vars PROVE CallsGood'
    OBVIOUS
<1>1. Kept /\ IInv /\ NetworkOK /\ WorkersOK
    BY StepKeeps, TypeParts DEF IInv
<1>2. ASSUME NEW w \in Worker, Verify(w) PROVE CallsGood'
    <2>1. /\ worker[w].phase \notin {"idle", "loop"}
          /\ UNCHANGED <<rows, database, network>>
          /\ \/ Call(w, "anchor", "succeeded") /\ Landed(worker[w].tx)
             \/ Call(w, "failure", "unverified")
        BY <1>2 DEF Verify, Verified
    <2>2. QED
        BY <1>1, <2>1, CallKeeps
<1>3. ASSUME NEW w \in Worker, Report(w) PROVE CallsGood'
    <2>1. /\ worker[w].phase \notin {"idle", "loop"}
          /\ UNCHANGED <<rows, database, network>>
          /\ Call(w, "failure", "failed")
        BY <1>3 DEF Report
    <2>2. QED
        BY <1>1, <2>1, CallKeeps
<1>4. ASSUME NEW c \in calls, Serve(c) PROVE CallsGood'
    BY <1>1, <1>4, RecordAnchorReadKeeps, RecordAnchorSaveKeeps, RecordFailureReadKeeps,
       AttemptCountKeeps, AttemptInsertKeeps DEF Serve
<1>5. ASSUME NEW c \in calls, CallCrash(c) PROVE CallsGood'
    BY <1>1, <1>5, ReplyLeaves, CallsOnlyLeave DEF CallCrash, database
<1>6. CASE UNCHANGED <<calls, attempts>>
    BY <1>1, <1>6, CallsOnlyLeave
<1>7. QED
    BY <1>2, <1>3, <1>4, <1>5, <1>6
       DEF Next, vars, BatchesService, Land, Die, FallDue, AnchorOnce, FetchPending, Submit,
           SubmitAnswered, Timeout, WorkerCrash, database

-----------------------------------------------------------------------------
(* The AnchorRecords.                                                      *)

\* An AnchorRecord is new, or it was there before.
LEMMA AnchorsOnlySaved ==
    ASSUME IInv, [Next]_vars, NEW b \in Batch, anchor'[b] # NoTx
    PROVE  \/ anchor'[b] = anchor[b]
           \/ \E c \in calls : c.step = "save" /\ c.batch = b /\ anchor'[b] = c.tx
<1>1. anchor \in [Batch -> Nat]
    BY TypeParts DEF IInv, DatabaseOK
<1>2. ASSUME NEW c \in calls, RecordAnchorSave(c)
      PROVE  anchor'[b] = anchor[b] \/ (c.step = "save" /\ c.batch = b /\ anchor'[b] = c.tx)
    BY <1>1, <1>2 DEF RecordAnchorSave
<1>3. (\E c \in calls : RecordAnchorSave(c)) \/ anchor' = anchor
    BY DEF Next, vars, BatchesService, Land, Die, FallDue, AnchorOnce, FetchPending, Submit,
           SubmitAnswered, Verify, Report, Timeout, WorkerCrash, Serve, RecordAnchorRead,
           RecordFailureRead, AttemptCount, AttemptInsert, CallCrash, database
<1>4. QED
    BY <1>2, <1>3

LEMMA AnchorsStep == IInv /\ [Next]_vars => AnchorsSubmitted' /\ AnchorsConfirmed'
<1> SUFFICES ASSUME IInv, [Next]_vars PROVE AnchorsSubmitted' /\ AnchorsConfirmed'
    OBVIOUS
<1>1. Kept /\ NetworkOK /\ NetworkOK' /\ NetworkGrows /\ RowsKept /\ CallsOK
    BY StepKeeps, TypeParts DEF IInv, Kept
<1>2. Len(txs) \in Nat /\ Len(txs') \in Nat
    BY <1>1, LenProperties DEF NetworkOK
<1>3. ASSUME NEW b \in Batch, NEW t, t \in 1 .. Len(txs), Landed(t),
             txs[t].batch = b, txs[t].root = root[b], status[b] \notin {"absent", "open"}
      PROVE  /\ t \in 1 .. Len(txs')
             /\ txs'[t].state = "landed" /\ txs'[t].batch = b /\ txs'[t].root = root'[b]
             /\ status'[b] \notin {"absent", "open"}
    <2>1. root[b] # NoRoot
        BY <1>3 DEF IInv, RootIffSealed
    <2>2. QED
        BY <1>1, <1>2, <1>3, <2>1 DEF NetworkGrows, RowsKept
<1>4. ASSUME NEW b \in Batch, NEW c \in calls, c.step = "save", c.batch = b
      PROVE  /\ c.tx \in 1 .. Len(txs) /\ Landed(c.tx)
             /\ txs[c.tx].batch = b /\ txs[c.tx].root = root[b]
             /\ status[b] \notin {"absent", "open"}
    BY <1>1, <1>4 DEF IInv, CallOK, CallsOK, Submitted
<1>5. ASSUME NEW b \in Batch, anchor[b] # NoTx
      PROVE  /\ anchor[b] \in 1 .. Len(txs) /\ Landed(anchor[b])
             /\ txs[anchor[b]].batch = b /\ txs[anchor[b]].root = root[b]
             /\ status[b] \notin {"absent", "open"}
    BY <1>5 DEF IInv, AnchorsSubmitted, AnchorsConfirmed, Landed
<1>6. ASSUME NEW b \in Batch, anchor'[b] # NoTx
      PROVE  /\ anchor'[b] \in 1 .. Len(txs')
             /\ txs'[anchor'[b]].state = "landed"
             /\ txs'[anchor'[b]].batch = b /\ txs'[anchor'[b]].root = root'[b]
             /\ status'[b] \notin {"absent", "open"}
    <2>1. \E t : /\ t = anchor'[b] /\ t \in 1 .. Len(txs) /\ Landed(t)
                 /\ txs[t].batch = b /\ txs[t].root = root[b]
                 /\ status[b] \notin {"absent", "open"}
        BY <1>4, <1>5, <1>6, AnchorsOnlySaved
    <2>2. QED
        BY <1>3, <2>1
<1>7. QED
    BY <1>6 DEF AnchorsSubmitted, AnchorsConfirmed

-----------------------------------------------------------------------------
LEMMA InitIInv == Init => IInv
<1> SUFFICES ASSUME Init PROVE IInv
    OBVIOUS
<1>1. TypeOK
    BY InitTypeOK
<1>2. RootIffSealed
    BY DEF Init, Row!Init, RootIffSealed
<1>3. AnchorsSubmitted /\ AnchorsConfirmed /\ \A c \in calls : CallOK(c)
    BY DEF Init, AnchorsSubmitted, AnchorsConfirmed
<1>4. SuccessOnce
    BY DEF Init, SuccessOnce, Success
<1>5. QED
    BY <1>1, <1>2, <1>3, <1>4 DEF IInv

LEMMA NextIInv == IInv /\ [Next]_vars => IInv'
<1> SUFFICES ASSUME IInv, [Next]_vars PROVE IInv'
    OBVIOUS
<1>1. Row!RowTypeOK' /\ RootIffSealed' /\ NetworkOK' /\ WorkersOK' /\ DatabaseOK'
    BY StepKeeps DEF Kept
<1>2. CallsOK' /\ (\A c \in calls : CallOK(c))' /\ SuccessOnce'
    BY CallsStep DEF CallsGood
<1>3. TypeOK'
    BY <1>1, <1>2 DEF TypeOK, DatabaseOK, NetworkOK, CallsOK, WorkersOK, Submitted
<1>4. QED
    BY <1>1, <1>2, <1>3, AnchorsStep DEF IInv

\* The invariant holds in every reachable state.
THEOREM Invariance == Spec => []IInv
BY InitIInv, NextIInv, PTL DEF Spec

\* Every reachable state is well typed, and workers and calls speak only of
\* transactions submitted for their batch and root (the worker's cycle and the
\* write-back of index.ts).
THEOREM TypeCorrect == Spec => []TypeOK
<1>1. IInv => TypeOK
    BY DEF IInv
<1>2. QED
    BY <1>1, Invariance, PTL

\* An AnchorRecord is never a false proof, whatever the worker gave up on or
\* repeated (anchorOnce, recordAnchor).
THEOREM AnchorsAreConfirmed == Spec => []AnchorsConfirmed
<1>1. IInv => AnchorsConfirmed
    BY DEF IInv
<1>2. QED
    BY <1>1, Invariance, PTL

\* No step replaces an AnchorRecord (recordAnchor and the unique columns).
THEOREM AnchorsAreFrozen == Spec => AnchorsFrozen
<1>1. IInv /\ [Next]_vars =>
          [\A b \in Batch : anchor[b] # NoTx => anchor'[b] = anchor[b]]_vars
    BY StepKeeps DEF Kept, AnchorsKept
<1>2. QED
    BY <1>1, Invariance, PTL DEF Spec, AnchorsFrozen

\* A batch has one success in its history at most (AnchorAttemptsService).
THEOREM OneSuccessOnly == Spec => []OneSuccess
<1>1. IInv => OneSuccess
    <2> SUFFICES ASSUME IInv, NEW b \in Batch
                 PROVE  LET successes == {i \in DOMAIN attempts[b] :
                                              attempts[b][i].outcome = "succeeded"}
                        IN  Cardinality(successes) <= (IF anchor[b] = NoTx THEN 0 ELSE 1)
        BY DEF OneSuccess
    <2> DEFINE successes == {i \in DOMAIN attempts[b] : attempts[b][i].outcome = "succeeded"}
    <2>1. DOMAIN attempts[b] \subseteq Nat
        <3>1. attempts[b] \in Seq([number : Nat, outcome : Outcome])
            BY TypeParts DEF IInv, DatabaseOK
        <3>2. DOMAIN attempts[b] = 1 .. Len(attempts[b]) /\ Len(attempts[b]) \in Nat
            BY <3>1, LenProperties
        <3>3. QED
            BY <3>2
    <2>2. \A i \in successes : i \in Nat /\ Success(b, i)
        BY <2>1 DEF Success
    <2>3. \A i, j \in successes : i = j
        BY <2>2 DEF IInv, SuccessOnce
    <2>4. successes # {} => anchor[b] # NoTx
        BY <2>2 DEF IInv, SuccessOnce
    <2> HIDE DEF successes
    <2>5. successes = {} \/ \E i : successes = {i}
        BY <2>3
    <2>6. successes = {} => Cardinality(successes) = 0
        BY FS_EmptySet
    <2>7. (\E i : successes = {i}) => Cardinality(successes) = 1
        BY FS_Singleton
    <2>8. Cardinality(successes) <= (IF anchor[b] = NoTx THEN 0 ELSE 1)
        BY <2>4, <2>5, <2>6, <2>7
    <2>9. QED
        BY <2>8 DEF successes
<1>2. QED
    BY <1>1, Invariance, PTL

-----------------------------------------------------------------------------
(* What anchoring costs.                                                   *)
(*                                                                         *)
(* Every transaction that was not dropped has been paid for, by a fault or *)
(* by the worker that submitted it.  A worker has not paid for a batch     *)
(* when it may still submit for it without a fault: while the batch is not *)
(* anchored that is every worker not on its way to record a transaction of *)
(* it, and afterwards the workers that listed the batch before it was.     *)

Busy(w) == worker[w].phase \notin {"idle", "loop"}
Listed(w, b) == \E item \in worker[w].queue : item[1] = b
Holding(w, b) ==
    /\ worker[w].phase \in {"submitted", "verify", "recording"}
    /\ worker[w].batch = b /\ txs[worker[w].tx].state # "dead"

Live(b) == {t \in 1 .. Len(txs) : txs[t].batch = b /\ txs[t].state # "dead"}
Unpaid(b) == {w \in Worker : IF anchor[b] = NoTx THEN ~Holding(w, b) ELSE Listed(w, b)}

FeesPaid ==
    \A b \in Batch :
        Cardinality(Live(b)) + Cardinality(Unpaid(b)) <= Cardinality(Worker) + faults

\* What was listed and what was submitted is the root the batch has.
RootsListed ==
    /\ \A w \in Worker : \A item \in worker[w].queue : root[item[1]] = item[2]
    /\ \A t \in 1 .. Len(txs) : root[txs[t].batch] = txs[t].root

\* The batch in hand is not listed again, nor its transaction shared.
InHand ==
    /\ \A w \in Worker : Busy(w) => ~Listed(w, worker[w].batch)
    /\ \A w, v \in Worker : Busy(w) /\ Busy(v) /\ worker[w].tx = worker[v].tx => w = v

FeeInv == RootsListed /\ InHand /\ FeesPaid

\* What a step does to the books of one batch: nothing is owed; a fault pays for
\* one worker more; a transaction dies and its worker may try again; a worker
\* that has not paid pays for its transaction.
Balanced(live, live2, unpaid, unpaid2, fault, fault2) ==
    \/ live2 \subseteq live /\ unpaid2 \subseteq unpaid /\ fault <= fault2
    \/ /\ live2 \subseteq live /\ fault2 = fault + 1
       /\ \E w : unpaid2 \subseteq unpaid \cup {w}
    \/ /\ fault <= fault2
       /\ \E w, t : t \in live /\ live2 \subseteq live \ {t} /\ unpaid2 \subseteq unpaid \cup {w}
    \/ /\ fault <= fault2
       /\ \E w, t : w \in unpaid /\ live2 \subseteq live \cup {t} /\ unpaid2 \subseteq unpaid \ {w}

Books(b) == Balanced(Live(b), Live(b)', Unpaid(b), Unpaid(b)', faults, faults')

LEMMA BooksKept ==
    ASSUME NEW live, NEW live2, NEW unpaid, NEW unpaid2, NEW n \in Nat,
           NEW fault \in Nat, NEW fault2 \in Nat, IsFiniteSet(live), IsFiniteSet(unpaid),
           Cardinality(live) + Cardinality(unpaid) <= n + fault,
           Balanced(live, live2, unpaid, unpaid2, fault, fault2)
    PROVE  Cardinality(live2) + Cardinality(unpaid2) <= n + fault2
<1> DEFINE Bound(S, k) == Cardinality(S) \in Nat /\ Cardinality(S) <= k
<1>1. Cardinality(live) \in Nat /\ Cardinality(unpaid) \in Nat
    BY FS_CardinalityType
<1>2. ASSUME NEW S, IsFiniteSet(S), NEW T, T \subseteq S PROVE Bound(T, Cardinality(S))
    <2>1. IsFiniteSet(T) /\ Cardinality(T) <= Cardinality(S)
        BY <1>2, FS_Subset
    <2>2. QED
        BY <2>1, FS_CardinalityType
<1>3. ASSUME NEW S, IsFiniteSet(S), NEW T, NEW x, T \subseteq S \cup {x}
      PROVE  Bound(T, Cardinality(S) + 1)
    <2>1. /\ IsFiniteSet(S \cup {x}) /\ Cardinality(S) \in Nat
          /\ Cardinality(S \cup {x}) = IF x \in S THEN Cardinality(S) ELSE Cardinality(S) + 1
        BY <1>3, FS_AddElement, FS_CardinalityType
    <2>2. Bound(T, Cardinality(S \cup {x}))
        BY <1>2, <1>3, <2>1
    <2>3. QED
        BY <2>1, <2>2
<1>4. ASSUME NEW S, IsFiniteSet(S), NEW T, NEW x, x \in S, T \subseteq S \ {x}
      PROVE  Bound(T, Cardinality(S) - 1)
    <2>1. IsFiniteSet(S \ {x}) /\ Cardinality(S \ {x}) = Cardinality(S) - 1
        BY <1>4, FS_RemoveElement
    <2>2. QED
        BY <1>2, <1>4, <2>1
<1> HIDE DEF Bound
<1>5. CASE live2 \subseteq live /\ unpaid2 \subseteq unpaid /\ fault <= fault2
    <2>1. Bound(live2, Cardinality(live)) /\ Bound(unpaid2, Cardinality(unpaid))
        BY <1>2, <1>5
    <2>2. QED
        BY <1>1, <1>5, <2>1 DEF Bound
<1>6. ASSUME NEW w, live2 \subseteq live, fault2 = fault + 1, unpaid2 \subseteq unpaid \cup {w}
      PROVE  Cardinality(live2) + Cardinality(unpaid2) <= n + fault2
    <2>1. Bound(live2, Cardinality(live)) /\ Bound(unpaid2, Cardinality(unpaid) + 1)
        BY <1>2, <1>3, <1>6
    <2>2. QED
        BY <1>1, <1>6, <2>1 DEF Bound
<1>7. ASSUME NEW w, NEW t, fault <= fault2, t \in live, live2 \subseteq live \ {t},
             unpaid2 \subseteq unpaid \cup {w}
      PROVE  Cardinality(live2) + Cardinality(unpaid2) <= n + fault2
    <2>1. Bound(live2, Cardinality(live) - 1)
        BY <1>4, <1>7
    <2>2. Bound(unpaid2, Cardinality(unpaid) + 1)
        BY <1>3, <1>7
    <2>3. QED
        BY <1>1, <1>7, <2>1, <2>2 DEF Bound
<1>8. ASSUME NEW w, NEW t, fault <= fault2, w \in unpaid, live2 \subseteq live \cup {t},
             unpaid2 \subseteq unpaid \ {w}
      PROVE  Cardinality(live2) + Cardinality(unpaid2) <= n + fault2
    <2>1. Bound(live2, Cardinality(live) + 1)
        BY <1>3, <1>8
    <2>2. Bound(unpaid2, Cardinality(unpaid) - 1)
        BY <1>4, <1>8
    <2>3. QED
        BY <1>1, <1>8, <2>1, <2>2 DEF Bound
<1>9. QED
    BY <1>5, <1>6, <1>7, <1>8 DEF Balanced

\* A worker keeps what it has listed and what it has in hand, or lets go of it.
Onward(w) ==
    /\ worker'[w].queue \subseteq worker[w].queue
    /\ \/ worker'[w].phase \in {"idle", "loop"}
       \/ Busy(w) /\ worker'[w].batch = worker[w].batch /\ worker'[w].tx = worker[w].tx

\* w takes its next batch, or goes to another phase of the same transaction.
LEMMA OneGoesOn ==
    ASSUME WorkersOK, NEW w \in Worker,
           \/ NextBatch(w)
           \/ worker' = [worker EXCEPT ![w] = Resting]
           \/ \E phase : Busy(w) /\ worker' = [worker EXCEPT ![w].phase = phase]
    PROVE  /\ \A v \in Worker : Onward(v)
           /\ \A v \in Worker : v # w => worker'[v] = worker[v]
<1>1. worker \in [Worker -> WorkerType] /\ worker[w] \in WorkerType
    BY DEF WorkersOK
<1>2. ASSUME NEW v \in Worker, worker'[v] = worker[v] PROVE Onward(v)
    BY <1>2 DEF Onward, Busy
<1>3. \A v \in Worker : v # w => worker'[v] = worker[v]
    BY <1>1 DEF NextBatch
<1>4. Onward(w)
    <2>1. CASE NextBatch(w)
        BY <1>1, <2>1 DEF NextBatch, Onward, Resting, WorkerType
    <2>2. CASE worker' = [worker EXCEPT ![w] = Resting]
        BY <1>1, <2>2 DEF Onward, Resting
    <2>3. ASSUME NEW phase, Busy(w), worker' = [worker EXCEPT ![w].phase = phase]
          PROVE  Onward(w)
        BY <1>1, <2>3 DEF Onward, WorkerType
    <2>4. QED
        BY <2>1, <2>2, <2>3
<1>5. QED
    BY <1>2, <1>3, <1>4

\* An answer leaves the worker where it is, or w, who made the call and still
\* waits for it, goes on.
LEMMA ReplyMoves ==
    ASSUME CallsOK, NEW c \in calls, NEW ok \in BOOLEAN, Reply(c, ok)
    PROVE  \/ UNCHANGED worker
           \/ /\ c.by \in Worker /\ Awaits(c.by, c) /\ Busy(c.by)
              /\ NextBatch(c.by) \/ ReportFailure(c.by)
<1>1. c.by \in Worker
    BY DEF CallsOK, CallType
<1>2. Awaits(c.by, c) => Busy(c.by)
    BY DEF Awaits, Busy
<1>3. QED
    BY <1>1, <1>2 DEF Reply

LEMMA WorkersGoOn ==
    ASSUME IInv, [Next]_vars
    PROVE  \/ \A v \in Worker : Onward(v)
           \/ \E w \in Worker : FetchPending(w) \/ Submit(w)
<1>1. WorkersOK /\ CallsOK
    BY TypeParts DEF IInv
<1>2. ASSUME UNCHANGED worker PROVE \A v \in Worker : Onward(v)
    BY <1>2 DEF Onward, Busy
<1>3. ASSUME NEW w \in Worker, Timeout(w) \/ WorkerCrash(w) \/ SubmitAnswered(w) \/ Verify(w)
                                          \/ Report(w)
      PROVE  \A v \in Worker : Onward(v)
    <2>1. CASE NextBatch(w) \/ worker' = [worker EXCEPT ![w] = Resting]
        BY <1>1, <2>1, OneGoesOn
    <2>2. ASSUME NEW phase, Busy(w), worker' = [worker EXCEPT ![w].phase = phase]
          PROVE  \A v \in Worker : Onward(v)
        BY <1>1, <2>2, OneGoesOn
    <2>3. \/ NextBatch(w) \/ worker' = [worker EXCEPT ![w] = Resting]
          \/ Busy(w) /\ worker' = [worker EXCEPT ![w].phase = "verify"]
          \/ Busy(w) /\ worker' = [worker EXCEPT ![w].phase = "report"]
          \/ Busy(w) /\ worker' = [worker EXCEPT ![w].phase = "recording"]
          \/ Busy(w) /\ worker' = [worker EXCEPT ![w].phase = "reporting"]
        BY <1>3 DEF Timeout, WorkerCrash, SubmitAnswered, Verify, Report, ReportFailure, Busy
    <2>4. QED
        BY <2>1, <2>2, <2>3
<1>4. ASSUME NEW c \in calls, NEW ok \in BOOLEAN, Reply(c, ok)
      PROVE  \A v \in Worker : Onward(v)
    <2>1. CASE c.by \in Worker /\ NextBatch(c.by)
        BY <1>1, <2>1, OneGoesOn
    <2>2. CASE c.by \in Worker /\ Busy(c.by) /\ ReportFailure(c.by)
        <3>1. \E phase : Busy(c.by) /\ worker' = [worker EXCEPT ![c.by].phase = phase]
            BY <2>2, Zenon DEF ReportFailure
        <3>2. QED
            BY <1>1, <2>2, <3>1, OneGoesOn
    <2>3. QED
        BY <1>1, <1>2, <1>4, <2>1, <2>2, ReplyMoves
<1>5. ASSUME NEW c \in calls, Serve(c) \/ CallCrash(c) PROVE \A v \in Worker : Onward(v)
    <2>1. (\E ok \in BOOLEAN : Reply(c, ok)) \/ UNCHANGED worker
        BY <1>5 DEF Serve, RecordAnchorRead, RecordAnchorSave, RecordFailureRead, AttemptCount,
                    AttemptInsert, CallCrash, GoOn
    <2>2. QED
        BY <1>2, <1>4, <2>1
<1>6. QED
    BY <1>2, <1>3, <1>5 DEF Next, vars, BatchesService, Land, Die, FallDue, AnchorOnce

\* What Submit(w) does, with the item it takes.
SubmitItem(w, item) ==
    /\ item \in worker[w].queue /\ item \in Batch \X Root
    /\ txs' = Append(txs, [batch |-> item[1], root |-> item[2],
                           seq |-> sequence + 1, state |-> "pending"])
    /\ Len(txs') = Len(txs) + 1
    /\ txs'[Len(txs) + 1].batch = item[1] /\ txs'[Len(txs) + 1].root = item[2]
    /\ \A t \in 1 .. Len(txs) : txs'[t] = txs[t]
    /\ worker'[w] = [phase |-> "submitted", queue |-> worker[w].queue \ {item},
                     batch |-> item[1], root |-> item[2], tx |-> Len(txs) + 1]
    /\ \A v \in Worker : v # w => worker'[v] = worker[v]

LEMMA SubmitTakes ==
    ASSUME IInv, NEW w \in Worker, Submit(w)
    PROVE  \E item : SubmitItem(w, item)
<1>1. NetworkOK /\ WorkersOK
    BY TypeParts DEF IInv
<1>2. PICK item \in worker[w].queue :
          /\ txs' = Append(txs, [batch |-> item[1], root |-> item[2],
                                 seq |-> sequence + 1, state |-> "pending"])
          /\ worker' = [worker EXCEPT ![w] =
                 [phase |-> "submitted", queue |-> worker[w].queue \ {item},
                  batch |-> item[1], root |-> item[2], tx |-> Len(txs) + 1]]
    BY DEF Submit
<1>3. item \in Batch \X Root
    BY <1>1, <1>2 DEF WorkersOK, WorkerType
<1> DEFINE tx == [batch |-> item[1], root |-> item[2],
                  seq |-> sequence + 1, state |-> "pending"]
<1>4. txs \in Seq(TxType) /\ tx \in TxType /\ txs' = Append(txs, tx)
    BY <1>1, <1>2, <1>3 DEF NetworkOK, TxType
<1>5. tx.batch = item[1] /\ tx.root = item[2]
    OBVIOUS
<1> HIDE DEF tx
<1>6. /\ Len(txs') = Len(txs) + 1 /\ txs'[Len(txs) + 1] = tx
      /\ \A t \in 1 .. Len(txs) : txs'[t] = txs[t]
    BY <1>4, AppendProperties
<1>7. /\ worker'[w] = [phase |-> "submitted", queue |-> worker[w].queue \ {item},
                       batch |-> item[1], root |-> item[2], tx |-> Len(txs) + 1]
      /\ \A v \in Worker : v # w => worker'[v] = worker[v]
    BY <1>1, <1>2 DEF WorkersOK
<1>8. SubmitItem(w, item)
    BY <1>2, <1>3, <1>5, <1>6, <1>7 DEF SubmitItem
<1>9. QED
    BY <1>8

\* Only a submission adds a transaction.
LEMMA OnlySubmitAdds ==
    ASSUME IInv, [Next]_vars, \A w \in Worker : ~Submit(w)
    PROVE  Len(txs') = Len(txs)
<1>1. txs \in Seq(TxType)
    BY TypeParts DEF IInv, NetworkOK
<1>2. ASSUME NEW t \in 1 .. Len(txs), Land(t) \/ Die(t) PROVE Len(txs') = Len(txs)
    <2>1. DOMAIN txs' = DOMAIN txs
        BY <1>2 DEF Land, Die
    <2>2. DOMAIN txs = 1 .. Len(txs) /\ Len(txs) \in Nat
        BY <1>1, LenProperties
    <2>3. txs' \in Seq(TxType)
        BY NetworkStep DEF IInv, NetworkOK
    <2>4. DOMAIN txs' = 1 .. Len(txs') /\ Len(txs') \in Nat
        BY <2>3, LenProperties
    <2>5. QED
        BY <2>1, <2>2, <2>4
<1>3. (\E t \in 1 .. Len(txs) : Land(t) \/ Die(t)) \/ UNCHANGED txs
    BY DEF Next, vars, network, BatchesService, FallDue, AnchorOnce, FetchPending,
           SubmitAnswered, Verify, Report, Timeout, WorkerCrash, Serve, RecordAnchorRead,
           RecordAnchorSave, RecordFailureRead, AttemptCount, AttemptInsert, CallCrash
<1>4. QED
    BY <1>2, <1>3

LEMMA RootsStep ==
    ASSUME IInv, RootsListed, [Next]_vars
    PROVE  RootsListed'
<1>1. /\ NetworkOK /\ NetworkOK' /\ NetworkGrows /\ RowsKept /\ WorkersOK
      /\ root \in [Batch -> Root \cup {NoRoot}] /\ Len(txs) \in Nat
    BY StepKeeps, TypeParts, LenProperties DEF Kept, IInv, NetworkOK, Row!RowTypeOK
<1>2. ASSUME NEW w \in Worker, NEW item \in worker[w].queue PROVE root'[item[1]] = item[2]
    <2>1. item[1] \in Batch /\ item[2] \in Root
        BY <1>1 DEF WorkersOK, WorkerType
    <2>2. root[item[1]] = item[2] /\ item[2] # NoRoot
        BY <2>1, AnchoringAssumption DEF RootsListed
    <2>3. QED
        BY <1>1, <2>1, <2>2 DEF RowsKept
<1>3. ASSUME NEW t \in 1 .. Len(txs) PROVE root'[txs'[t].batch] = txs'[t].root
    <2>1. txs[t].batch \in Batch /\ txs[t].root \in Root
        <3>1. txs[t] \in TxType
            BY <1>1, ElementOfSeq DEF NetworkOK
        <3>2. QED
            BY <3>1 DEF TxType
    <2>2. root[txs[t].batch] = txs[t].root /\ txs[t].root # NoRoot
        BY <2>1, AnchoringAssumption DEF RootsListed
    <2>3. root'[txs[t].batch] = txs[t].root
        BY <1>1, <2>1, <2>2 DEF RowsKept
    <2>4. QED
        BY <1>1, <2>3 DEF NetworkGrows
<1>4. ASSUME NEW w \in Worker, Submit(w) PROVE RootsListed'
    <2>1. PICK item : SubmitItem(w, item)
        BY <1>4, SubmitTakes
    <2>2. /\ Len(txs') = Len(txs) + 1
          /\ txs'[Len(txs) + 1].batch = item[1] /\ txs'[Len(txs) + 1].root = item[2]
          /\ item \in worker[w].queue
        BY <2>1 DEF SubmitItem
    <2>3. \A t \in 1 .. Len(txs') : root'[txs'[t].batch] = txs'[t].root
        BY <1>1, <1>2, <1>3, <2>2
    <2>4. worker'[w].queue \subseteq worker[w].queue /\ \A v \in Worker : v # w => worker'[v] = worker[v]
        BY <2>1 DEF SubmitItem
    <2>5. \A v \in Worker : \A i \in worker'[v].queue : root'[i[1]] = i[2]
        BY <1>2, <2>4
    <2>6. QED
        BY <2>3, <2>5 DEF RootsListed
<1>5. ASSUME \A w \in Worker : ~Submit(w) PROVE RootsListed'
    <2>1. \A t \in 1 .. Len(txs') : root'[txs'[t].batch] = txs'[t].root
        BY <1>3, <1>5, OnlySubmitAdds
    <2>2. ASSUME NEW w \in Worker, FetchPending(w)
          PROVE  \A v \in Worker : \A i \in worker'[v].queue : root'[i[1]] = i[2]
        <3>1. root' = root /\ \A v \in Worker : v # w => worker'[v] = worker[v]
            BY <1>1, <2>2 DEF FetchPending, rows, WorkersOK
        <3>2. worker'[w].queue = {<<b, root[b]>> : b \in PendingAnchor}
            BY <1>1, <2>2 DEF FetchPending, WorkersOK, Resting
        <3>3. QED
            BY <1>2, <3>1, <3>2
    <2>3. CASE \A v \in Worker : Onward(v)
        BY <1>2, <2>1, <2>3 DEF RootsListed, Onward
    <2>4. QED
        BY <1>5, <2>1, <2>2, <2>3, WorkersGoOn DEF RootsListed
<1>6. QED
    BY <1>4, <1>5

LEMMA InHandStep ==
    ASSUME IInv, RootsListed, InHand, [Next]_vars
    PROVE  InHand'
<1>1. NetworkOK /\ WorkersOK /\ Len(txs) \in Nat
    BY TypeParts, LenProperties DEF IInv, NetworkOK
<1>2. ASSUME NEW w \in Worker, Submit(w) PROVE InHand'
    <2>1. PICK item : SubmitItem(w, item)
        BY <1>2, SubmitTakes
    <2>2. /\ worker'[w].queue = worker[w].queue \ {item} /\ worker'[w].batch = item[1]
          /\ worker'[w].tx = Len(txs) + 1 /\ item \in worker[w].queue /\ item \in Batch \X Root
          /\ \A v \in Worker : v # w => worker'[v] = worker[v]
        BY <2>1 DEF SubmitItem
    <2>3. ~Listed(w, worker[w].batch)'
        <3>1. ASSUME NEW other \in worker[w].queue, other[1] = item[1] PROVE other = item
            <4>1. other \in Batch \X Root
                BY <1>1 DEF WorkersOK, WorkerType
            <4>2. other[2] = item[2]
                BY <2>2, <3>1 DEF RootsListed
            <4>3. QED
                BY <2>2, <3>1, <4>1, <4>2
        <3>2. QED
            BY <2>2, <3>1 DEF Listed
    <2>4. \A v \in Worker : Busy(v) => worker[v].tx \in 1 .. Len(txs)
        BY <1>1 DEF WorkersOK, Busy, Submitted
    <2>5. \A v \in Worker : Busy(v) => worker[v].tx # Len(txs) + 1
        BY <1>1, <2>4
    <2>6. \A v \in Worker : v # w => /\ Busy(v)' <=> Busy(v)
                                     /\ Listed(v, worker[v].batch)' <=> Listed(v, worker[v].batch)
        BY <2>2 DEF Busy, Listed
    <2>7. QED
        BY <2>2, <2>3, <2>5, <2>6 DEF InHand
<1>3. ASSUME NEW w \in Worker, FetchPending(w) PROVE InHand'
    <2>1. ~Busy(w)' /\ \A v \in Worker : v # w => worker'[v] = worker[v]
        BY <1>1, <1>3 DEF FetchPending, WorkersOK, Busy, Resting
    <2>2. QED
        BY <2>1 DEF InHand, Busy, Listed
<1>4. CASE \A v \in Worker : Onward(v)
    <2>1. \A v \in Worker : Busy(v)' =>
              /\ Busy(v) /\ worker'[v].tx = worker[v].tx /\ worker'[v].batch = worker[v].batch
              /\ worker'[v].queue \subseteq worker[v].queue
        BY <1>4 DEF Onward, Busy
    <2>2. QED
        BY <2>1 DEF InHand, Listed
<1>5. QED
    BY <1>2, <1>3, <1>4, WorkersGoOn

\* Of a transaction that lands or is dropped, only the state changes.
LEMMA LandKeeps ==
    ASSUME NEW s \in Seq(TxType), NEW t \in 1 .. Len(s), NEW state \in {"landed", "dead"},
           NEW s2, s2 = [s EXCEPT ![t].state = state]
    PROVE  /\ Len(s2) = Len(s) /\ s2[t].state = state
           /\ \A u \in 1 .. Len(s) : /\ s2[u].batch = s[u].batch
                                     /\ u # t => s2[u].state = s[u].state
<1>1. s[t] \in TxType
    BY ElementOfSeq
<1>2. PICK tx : tx = [s[t] EXCEPT !.state = state]
    OBVIOUS
<1>3. tx \in TxType /\ tx.state = state /\ tx.batch = s[t].batch /\ s2 = [s EXCEPT ![t] = tx]
    BY <1>1, <1>2 DEF TxType
<1>4. /\ Len(s2) = Len(s)
      /\ \A u \in 1 .. Len(s) : s2[u] = IF u = t THEN tx ELSE s[u]
    BY <1>3, ExceptSeq
<1>5. QED
    BY <1>3, <1>4

\* Where the transactions and the AnchorRecords stay, only the worker that moves
\* can owe more than it did.
LEMMA OneOwes ==
    ASSUME NEW b \in Batch, NEW w \in Worker, UNCHANGED <<txs, anchor>>,
           \A v \in Worker : v # w => worker'[v] = worker[v]
    PROVE  /\ Live(b)' = Live(b) /\ Unpaid(b)' \subseteq Unpaid(b) \cup {w}
           /\ (w \in Unpaid(b)' => w \in Unpaid(b)) => Unpaid(b)' \subseteq Unpaid(b)
<1>1. \A v \in Worker : v # w => /\ Holding(v, b)' <=> Holding(v, b)
                                 /\ Listed(v, b)' <=> Listed(v, b)
    BY DEF Holding, Listed
<1>2. \A v \in Worker : v # w => (v \in Unpaid(b)' <=> v \in Unpaid(b))
    BY <1>1 DEF Unpaid
<1>3. Unpaid(b)' \subseteq Worker
    BY DEF Unpaid
<1>4. Live(b)' = Live(b)
    BY DEF Live
<1>5. QED
    BY <1>2, <1>3, <1>4

\* Nothing moves but what has nothing to do with fees.
LEMMA NobodyOwes ==
    ASSUME NEW b \in Batch, NetworkOK, UNCHANGED <<txs, anchor, worker>>,
           Fault \/ UNCHANGED faults
    PROVE  Books(b)
<1>1. Live(b)' = Live(b) /\ Unpaid(b)' = Unpaid(b)
    BY DEF Live, Unpaid, Holding, Listed
<1>2. faults <= faults'
    BY AnchoringAssumption DEF NetworkOK, Fault
<1>3. QED
    BY <1>1, <1>2 DEF Books, Balanced

\* A fault pays for the worker it hits.
LEMMA FaultPays ==
    ASSUME NEW b \in Batch, NEW w \in Worker, Fault, UNCHANGED <<txs, anchor>>,
           \A v \in Worker : v # w => worker'[v] = worker[v]
    PROVE  Books(b)
<1>1. faults' = faults + 1
    BY DEF Fault
<1>2. Live(b)' = Live(b) /\ Unpaid(b)' \subseteq Unpaid(b) \cup {w}
    BY OneOwes
<1>3. \E v : Unpaid(b)' \subseteq Unpaid(b) \cup {v}
    BY <1>2
<1>4. QED
    BY <1>1, <1>2, <1>3 DEF Books, Balanced

\* A worker goes on and owes no more than it did.
LEMMA WorkerSettled ==
    ASSUME NEW b \in Batch, NetworkOK, NEW w \in Worker, UNCHANGED <<txs, anchor, faults>>,
           \A v \in Worker : v # w => worker'[v] = worker[v],
           IF anchor[b] = NoTx THEN Holding(w, b) => Holding(w, b)'
                               ELSE Listed(w, b)' => Listed(w, b)
    PROVE  Books(b)
<1>1. w \in Unpaid(b)' => w \in Unpaid(b)
    BY DEF Unpaid
<1>2. Live(b)' = Live(b) /\ Unpaid(b)' \subseteq Unpaid(b)
    BY <1>1, OneOwes
<1>3. faults <= faults'
    BY DEF NetworkOK
<1>4. QED
    BY <1>2, <1>3 DEF Books, Balanced

\* The ledger takes a transaction, or drops it.
LEMMA LandSettled ==
    ASSUME IInv, NEW b \in Batch, NEW t \in 1 .. Len(txs), Land(t)
    PROVE  Books(b)
<1>1. /\ NetworkOK /\ WorkersOK /\ txs \in Seq(TxType) /\ txs[t].state = "pending"
      /\ txs' = [txs EXCEPT ![t].state = "landed"] /\ UNCHANGED <<anchor, worker, faults>>
    BY TypeParts DEF IInv, NetworkOK, Land, database
<1>2. Len(txs') = Len(txs)
    BY <1>1, LandKeeps
<1>3. \A u \in 1 .. Len(txs) :
          txs'[u].batch = txs[u].batch /\ (txs'[u].state = "dead" <=> txs[u].state = "dead")
    BY <1>1, LandKeeps
<1>4. Live(b)' = Live(b)
    BY <1>2, <1>3 DEF Live
<1>5. \A w \in Worker : Holding(w, b)' <=> Holding(w, b)
    BY <1>1, <1>3 DEF Holding, WorkersOK, Submitted
<1>6. Unpaid(b)' = Unpaid(b) /\ faults <= faults'
    BY <1>1, <1>5 DEF Unpaid, Listed, NetworkOK
<1>7. QED
    BY <1>4, <1>6 DEF Books, Balanced

LEMMA DieSettled ==
    ASSUME IInv, InHand, NEW b \in Batch, NEW t \in 1 .. Len(txs), Die(t)
    PROVE  Books(b)
<1>1. /\ NetworkOK /\ WorkersOK /\ txs \in Seq(TxType) /\ txs[t].state = "pending"
      /\ txs' = [txs EXCEPT ![t].state = "dead"] /\ UNCHANGED <<anchor, worker>>
      /\ Fault \/ UNCHANGED faults
    BY TypeParts DEF IInv, NetworkOK, Die, database
<1>2. /\ Len(txs') = Len(txs) /\ txs'[t].state = "dead"
      /\ \A u \in 1 .. Len(txs) : /\ txs'[u].batch = txs[u].batch
                                  /\ u # t => txs'[u].state = txs[u].state
    BY <1>1, LandKeeps
<1>3. Live(b)' \subseteq Live(b) \ {t}
    BY <1>2 DEF Live
<1>4. \A w \in Worker : Holding(w, b) =>
          Holding(w, b)' \/ (Busy(w) /\ worker[w].tx = t /\ txs[t].batch = b)
    BY <1>1, <1>2 DEF Holding, Busy, WorkersOK, Submitted
<1>5. \A w \in Worker : w \in Unpaid(b)' =>
          w \in Unpaid(b) \/ (Busy(w) /\ worker[w].tx = t /\ txs[t].batch = b)
    BY <1>1, <1>4 DEF Unpaid, Listed
<1>6. Unpaid(b)' \subseteq Worker
    BY DEF Unpaid
<1>7. faults <= faults'
    BY <1>1 DEF NetworkOK, Fault
<1>8. CASE txs[t].batch # b
    <2>1. Live(b)' \subseteq Live(b) /\ Unpaid(b)' \subseteq Unpaid(b)
        BY <1>3, <1>5, <1>6, <1>8
    <2>2. QED
        BY <1>7, <2>1 DEF Books, Balanced
<1>9. CASE txs[t].batch = b
    <2>1. t \in Live(b)
        BY <1>1, <1>9 DEF Live
    <2>2. PICK w : \A v \in Worker : Busy(v) /\ worker[v].tx = t => v = w
        BY DEF InHand
    <2>3. Unpaid(b)' \subseteq Unpaid(b) \cup {w}
        BY <1>5, <1>6, <2>2
    <2>4. \E v, u : u \in Live(b) /\ Live(b)' \subseteq Live(b) \ {u}
                                  /\ Unpaid(b)' \subseteq Unpaid(b) \cup {v}
        BY <1>3, <2>1, <2>3
    <2>5. QED
        BY <1>7, <2>4 DEF Books, Balanced
<1>10. QED
    BY <1>8, <1>9

\* The worker's own steps.
LEMMA FetchSettled ==
    ASSUME IInv, NEW b \in Batch, NEW w \in Worker, FetchPending(w)
    PROVE  Books(b)
<1>1. NetworkOK /\ WorkersOK /\ UNCHANGED <<txs, anchor, faults>>
    BY TypeParts DEF IInv, FetchPending, database, network
<1>2. \A v \in Worker : v # w => worker'[v] = worker[v]
    BY <1>1 DEF FetchPending, WorkersOK
<1>3. worker[w].phase = "idle" /\ worker'[w].queue = {<<a, root[a]>> : a \in PendingAnchor}
    BY <1>1 DEF FetchPending, WorkersOK, Resting
<1>4. ~Holding(w, b)
    BY <1>3 DEF Holding
<1>5. anchor[b] # NoTx => ~Listed(w, b)'
    BY <1>3 DEF Listed, PendingAnchor
<1>6. QED
    BY <1>1, <1>2, <1>4, <1>5, WorkerSettled

LEMMA SubmitSettled ==
    ASSUME IInv, RootsListed, InHand, [Next]_vars, NEW b \in Batch, NEW w \in Worker, Submit(w)
    PROVE  Books(b)
<1>1. /\ NetworkOK /\ WorkersOK /\ Len(txs) \in Nat /\ worker[w].phase = "loop"
      /\ UNCHANGED <<anchor, faults>> /\ faults <= faults'
    BY TypeParts, LenProperties DEF IInv, Submit, database, NetworkOK
<1>2. PICK item : SubmitItem(w, item)
    BY SubmitTakes
<1>3. /\ Len(txs') = Len(txs) + 1 /\ txs'[Len(txs) + 1].batch = item[1]
      /\ \A t \in 1 .. Len(txs) : txs'[t] = txs[t]
      /\ item \in worker[w].queue /\ item \in Batch \X Root
      /\ worker'[w].phase = "submitted" /\ worker'[w].batch = item[1]
      /\ worker'[w].tx = Len(txs) + 1 /\ worker'[w].queue = worker[w].queue \ {item}
      /\ \A v \in Worker : v # w => worker'[v] = worker[v]
    BY <1>2 DEF SubmitItem
<1>4. txs'[Len(txs) + 1].state # "dead"
    <2> DEFINE tx == [batch |-> item[1], root |-> item[2],
                      seq |-> sequence + 1, state |-> "pending"]
    <2>1. txs \in Seq(TxType) /\ tx \in TxType /\ txs' = Append(txs, tx)
        BY <1>1, <1>2, <1>3 DEF NetworkOK, SubmitItem, TxType
    <2>2. tx.state # "dead"
        OBVIOUS
    <2> HIDE DEF tx
    <2>3. QED
        BY <2>1, <2>2, AppendProperties
<1>5. \A v \in Worker : Holding(v, b) => worker[v].tx \in 1 .. Len(txs)
    BY <1>1 DEF Holding, WorkersOK, Submitted
<1>6. \A v \in Worker : v # w => /\ Holding(v, b)' <=> Holding(v, b)
                                 /\ Listed(v, b)' <=> Listed(v, b)
    <2>1. ASSUME NEW v \in Worker, v # w
          PROVE  worker[v].phase \in {"submitted", "verify", "recording"} =>
                     worker[v].tx \in 1 .. Len(txs)
        BY <1>1 DEF WorkersOK, Submitted
    <2>2. QED
        BY <1>3, <2>1 DEF Holding, Listed
<1>7. ~Holding(w, b)
    BY <1>1 DEF Holding
<1>8. Unpaid(b)' \subseteq Worker
    BY DEF Unpaid
<1>9. CASE item[1] = b
    <2>1. w \in Unpaid(b)
        BY <1>3, <1>7, <1>9 DEF Unpaid, Listed
    <2>2. Holding(w, b)'
        BY <1>3, <1>4, <1>9 DEF Holding
    <2>3. ~Listed(w, b)'
        <3>1. ~Listed(w, worker[w].batch)' /\ worker'[w].batch = b
            BY <1>3, <1>9, InHandStep DEF InHand, Busy
        <3>2. QED
            BY <3>1 DEF Listed
    <2>4. w \notin Unpaid(b)'
        BY <2>2, <2>3 DEF Unpaid
    <2>5. \A v \in Worker : v # w => (v \in Unpaid(b)' <=> v \in Unpaid(b))
        BY <1>1, <1>6 DEF Unpaid
    <2>6. Unpaid(b)' \subseteq Unpaid(b) \ {w}
        BY <1>8, <2>4, <2>5
    <2>7. Live(b)' \subseteq Live(b) \cup {Len(txs) + 1}
        BY <1>1, <1>3 DEF Live
    <2>8. \E v, t : v \in Unpaid(b) /\ Live(b)' \subseteq Live(b) \cup {t}
                                    /\ Unpaid(b)' \subseteq Unpaid(b) \ {v}
        BY <2>1, <2>6, <2>7
    <2>9. QED
        BY <1>1, <2>8 DEF Books, Balanced
<1>10. CASE item[1] # b
    <2>1. Live(b)' \subseteq Live(b)
        BY <1>1, <1>3, <1>10 DEF Live
    <2>2. Listed(w, b)' => Listed(w, b)
        BY <1>3 DEF Listed
    <2>3. \A v \in Worker : v \in Unpaid(b)' => v \in Unpaid(b)
        BY <1>1, <1>6, <1>7, <2>2 DEF Unpaid
    <2>4. Unpaid(b)' \subseteq Unpaid(b)
        BY <1>8, <2>3
    <2>5. QED
        BY <1>1, <2>1, <2>4 DEF Books, Balanced
<1>11. QED
    BY <1>9, <1>10

\* The worker goes to another phase of its transaction: it had let go of it, or
\* it still holds it, or a fault is counted.
LEMMA PhaseSettled ==
    ASSUME IInv, NEW b \in Batch, NEW w \in Worker, NEW phase,
           worker' = [worker EXCEPT ![w].phase = phase], UNCHANGED <<txs, anchor>>,
           \/ Fault
           \/ /\ UNCHANGED faults
              /\ anchor[b] # NoTx \/ ~Holding(w, b) \/ phase \in {"verify", "recording"}
    PROVE  Books(b)
<1>1. NetworkOK /\ worker \in [Worker -> WorkerType]
    BY TypeParts DEF IInv, WorkersOK
<1>2. \A v \in Worker : v # w => worker'[v] = worker[v]
    BY <1>1
<1>3. /\ worker'[w].phase = phase /\ worker'[w].batch = worker[w].batch
      /\ worker'[w].tx = worker[w].tx /\ worker'[w].queue = worker[w].queue
    BY <1>1 DEF WorkerType
<1>4. CASE Fault
    BY <1>2, <1>4, FaultPays
<1>5. CASE /\ UNCHANGED faults
           /\ anchor[b] # NoTx \/ ~Holding(w, b) \/ phase \in {"verify", "recording"}
    <2>1. phase \in {"verify", "recording"} => (Holding(w, b) => Holding(w, b)')
        BY <1>3 DEF Holding
    <2>2. Listed(w, b)' => Listed(w, b)
        BY <1>3 DEF Listed
    <2>3. QED
        BY <1>1, <1>2, <1>5, <2>1, <2>2, WorkerSettled
<1>6. QED
    BY <1>4, <1>5

LEMMA NextBatchSettled ==
    ASSUME IInv, NEW b \in Batch, NEW w \in Worker, NextBatch(w), UNCHANGED <<txs, anchor>>,
           Fault \/ (UNCHANGED faults /\ (anchor[b] # NoTx \/ ~Holding(w, b)))
    PROVE  Books(b)
<1>1. NetworkOK /\ worker \in [Worker -> WorkerType]
    BY TypeParts DEF IInv, WorkersOK
<1>2. \A v \in Worker : v # w => worker'[v] = worker[v]
    BY <1>1 DEF NextBatch
<1>3. worker'[w].queue = worker[w].queue
    BY <1>1 DEF NextBatch, Resting
<1>4. Listed(w, b)' => Listed(w, b)
    BY <1>3 DEF Listed
<1>5. QED
    BY <1>1, <1>2, <1>4, WorkerSettled, FaultPays

LEMMA WorkerStepSettled ==
    ASSUME IInv, RootsListed, InHand, [Next]_vars, NEW b \in Batch, NEW w \in Worker,
           AnchorOnce(w) \/ Timeout(w) \/ WorkerCrash(w)
    PROVE  Books(b)
<1>1. NetworkOK /\ WorkersOK
    BY TypeParts DEF IInv
<1>2. CASE SubmitAnswered(w)
    <2>1. UNCHANGED <<txs, anchor, faults>>
        BY <1>2 DEF SubmitAnswered, network, database
    <2>2. \/ worker' = [worker EXCEPT ![w].phase = "verify"]
          \/ ~Holding(w, b) /\ worker' = [worker EXCEPT ![w].phase = "report"]
        BY <1>2 DEF SubmitAnswered, ReportFailure, Holding
    <2>3. QED
        BY <2>1, <2>2, PhaseSettled
<1>3. CASE Verify(w)
    <2>1. UNCHANGED <<txs, anchor>>
        BY <1>3 DEF Verify, network, database
    <2>2. \/ worker' = [worker EXCEPT ![w].phase = "recording"] /\ UNCHANGED faults
          \/ worker' = [worker EXCEPT ![w].phase = "reporting"] /\ Fault
        BY <1>3 DEF Verify
    <2>3. QED
        BY <2>1, <2>2, PhaseSettled
<1>4. CASE Report(w)
    <2>1. UNCHANGED <<txs, anchor, faults>> /\ ~Holding(w, b)
        BY <1>4 DEF Report, network, database, Holding
    <2>2. worker' = [worker EXCEPT ![w].phase = "reporting"]
        BY <1>4 DEF Report
    <2>3. QED
        BY <2>1, <2>2, PhaseSettled
<1>5. CASE Timeout(w)
    <2>1. UNCHANGED <<txs, anchor>> /\ Fault
        BY <1>5 DEF Timeout, network, database
    <2>2. NextBatch(w) \/ worker' = [worker EXCEPT ![w].phase = "report"]
        BY <1>5 DEF Timeout, ReportFailure
    <2>3. QED
        BY <2>1, <2>2, PhaseSettled, NextBatchSettled
<1>6. CASE WorkerCrash(w)
    <2>1. UNCHANGED <<txs, anchor>> /\ Fault /\ worker' = [worker EXCEPT ![w] = Resting]
        BY <1>6 DEF WorkerCrash, network, database
    <2>2. \A v \in Worker : v # w => worker'[v] = worker[v]
        BY <1>1, <2>1 DEF WorkersOK
    <2>3. QED
        BY <2>1, <2>2, FaultPays
<1>7. QED
    BY <1>2, <1>3, <1>4, <1>5, <1>6, FetchSettled, SubmitSettled DEF AnchorOnce

\* An answer: the worker that waits for it to be recorded learns of it only when
\* its batch is anchored.
LEMMA ReplySettled ==
    ASSUME IInv, NEW b \in Batch, NEW c \in calls, NEW ok \in BOOLEAN, Reply(c, ok),
           UNCHANGED <<txs, anchor>>,
           \/ Fault
           \/ UNCHANGED faults /\ (c.kind = "anchor" => anchor[c.batch] # NoTx)
    PROVE  Books(b)
<1>1. NetworkOK /\ CallsOK
    BY TypeParts DEF IInv
<1>2. CASE UNCHANGED worker
    BY <1>1, <1>2, NobodyOwes
<1>3. ASSUME c.by \in Worker, Awaits(c.by, c), NextBatch(c.by) \/ ReportFailure(c.by)
      PROVE  Books(b)
    <2>1. Holding(c.by, b) => c.batch = b /\ c.kind = "anchor"
        BY <1>3 DEF Holding, Awaits
    <2>2. Fault \/ (UNCHANGED faults /\ (anchor[b] # NoTx \/ ~Holding(c.by, b)))
        BY <2>1
    <2>3. CASE NextBatch(c.by)
        BY <1>3, <2>2, <2>3, NextBatchSettled
    <2>4. CASE worker' = [worker EXCEPT ![c.by].phase = "report"]
        BY <1>3, <2>2, <2>4, PhaseSettled
    <2>5. QED
        BY <1>3, <2>3, <2>4 DEF ReportFailure
<1>4. QED
    BY <1>1, <1>2, <1>3, ReplyMoves

LEMMA CallStepSettled ==
    ASSUME IInv, RootsListed, InHand, NEW b \in Batch, NEW c \in calls, Serve(c) \/ CallCrash(c)
    PROVE  Books(b)
<1>1. /\ NetworkOK /\ WorkersOK /\ CallsOK /\ DatabaseOK /\ CallOK(c) /\ Submitted(c)
      /\ c \in CallType /\ AnchorsConfirmed /\ RootIffSealed
    BY TypeParts DEF IInv, CallsOK
<1>2. c.batch \in Batch /\ c.tx # NoTx /\ root[c.batch] = c.root /\ c.root # NoRoot
    BY <1>1, AnchoringAssumption DEF CallType, Submitted, RootsListed, NoTx
<1>3. CASE RecordAnchorRead(c)
    <2>1. UNCHANGED <<txs, anchor, faults>>
        BY <1>3 DEF RecordAnchorRead, network, database
    <2>2. Sealed(c.batch)
        BY <1>1, <1>2 DEF Sealed, RootIffSealed
    <2>3. \/ UNCHANGED worker
          \/ anchor[c.batch] # NoTx /\ Reply(c, anchor[c.batch] = c.tx)
        BY <1>2, <1>3, <2>2 DEF RecordAnchorRead, GoOn
    <2>4. (anchor[c.batch] = c.tx) \in BOOLEAN
        OBVIOUS
    <2>5. QED
        BY <1>1, <2>1, <2>3, <2>4, NobodyOwes, ReplySettled
<1>4. CASE RecordAnchorSave(c)
    <2>1. UNCHANGED <<txs, faults>>
        BY <1>4 DEF RecordAnchorSave, network
    <2>2. CASE UNCHANGED anchor /\ Reply(c, FALSE)
        <3>1. anchor[c.batch] # NoTx
            <4>1. CASE anchor[c.batch] = NoTx /\ \A a \in Batch : anchor[a] # c.tx
                <5>1. anchor' = [anchor EXCEPT ![c.batch] = c.tx]
                    BY <1>4, <4>1 DEF RecordAnchorSave
                <5>2. QED
                    BY <1>1, <1>2, <2>2, <5>1 DEF DatabaseOK
            <4>2. ASSUME NEW a \in Batch, anchor[a] = c.tx PROVE a = c.batch
                BY <1>1, <1>2, <4>2 DEF AnchorsConfirmed, Submitted
            <4>3. QED
                BY <1>2, <4>1, <4>2
        <3>2. QED
            BY <2>1, <2>2, <3>1, ReplySettled
    <2>3. CASE /\ anchor[c.batch] = NoTx /\ anchor' = [anchor EXCEPT ![c.batch] = c.tx]
               /\ UNCHANGED worker
        <3>1. anchor'[c.batch] # NoTx /\ \A a \in Batch : a # c.batch => anchor'[a] = anchor[a]
            BY <1>1, <1>2, <2>3 DEF DatabaseOK
        <3>2. \A w \in Worker : /\ Holding(w, b)' <=> Holding(w, b)
                                /\ Listed(w, b)' <=> Listed(w, b)
            BY <2>1, <2>3 DEF Holding, Listed
        <3>3. \A w \in Worker : Listed(w, b) => ~Holding(w, b)
            BY DEF InHand, Holding, Busy
        <3>4. \A w \in Worker : w \in Unpaid(b)' => w \in Unpaid(b)
            BY <2>3, <3>1, <3>2, <3>3 DEF Unpaid
        <3>5. Unpaid(b)' \subseteq Worker
            BY DEF Unpaid
        <3>6. Live(b)' = Live(b) /\ faults <= faults'
            BY <1>1, <2>1 DEF Live, NetworkOK
        <3>7. QED
            BY <3>4, <3>5, <3>6 DEF Books, Balanced
    <2>4. QED
        BY <1>4, <2>2, <2>3 DEF RecordAnchorSave, GoOn
<1>5. CASE RecordFailureRead(c)
    <2>1. UNCHANGED <<txs, anchor, faults>> /\ c.kind = "failure"
        BY <1>5 DEF RecordFailureRead, network, database
    <2>2. UNCHANGED worker \/ Reply(c, FALSE)
        BY <1>5 DEF RecordFailureRead, GoOn
    <2>3. QED
        BY <1>1, <2>1, <2>2, NobodyOwes, ReplySettled
<1>6. CASE AttemptCount(c)
    BY <1>1, <1>6, NobodyOwes DEF AttemptCount, network, database
<1>7. CASE AttemptInsert(c)
    <2>1. UNCHANGED <<txs, anchor, faults>> /\ Reply(c, TRUE)
        BY <1>7 DEF AttemptInsert, network
    <2>2. c.kind = "anchor" => anchor[c.batch] # NoTx
        BY <1>1, <1>2, <1>7 DEF AttemptInsert, CallOK, Succeeding
    <2>3. QED
        BY <2>1, <2>2, ReplySettled
<1>8. CASE CallCrash(c)
    <2>1. UNCHANGED <<txs, anchor>> /\ Fault /\ Reply(c, FALSE)
        BY <1>8 DEF CallCrash, network, database
    <2>2. QED
        BY <2>1, ReplySettled
<1>9. QED
    BY <1>3, <1>4, <1>5, <1>6, <1>7, <1>8 DEF Serve

LEMMA BooksStep ==
    ASSUME IInv, RootsListed, InHand, [Next]_vars, NEW b \in Batch
    PROVE  Books(b)
<1>1. NetworkOK
    BY TypeParts DEF IInv
<1>2. CASE UNCHANGED <<txs, anchor, worker, faults>>
    BY <1>1, <1>2, NobodyOwes
<1>3. ASSUME NEW t \in 1 .. Len(txs), Land(t) \/ Die(t) PROVE Books(b)
    BY <1>3, LandSettled, DieSettled
<1>4. ASSUME NEW w \in Worker, AnchorOnce(w) \/ Timeout(w) \/ WorkerCrash(w) PROVE Books(b)
    BY <1>4, WorkerStepSettled
<1>5. ASSUME NEW c \in calls, Serve(c) \/ CallCrash(c) PROVE Books(b)
    BY <1>5, CallStepSettled
<1>6. QED
    BY <1>2, <1>3, <1>4, <1>5
       DEF Next, vars, BatchesService, FallDue, database, network

LEMMA InitFees == Init => FeeInv
<1> SUFFICES ASSUME Init PROVE FeeInv
    OBVIOUS
<1>1. txs = << >> /\ \A w \in Worker : worker[w] = Resting
    BY DEF Init
<1>2. RootsListed /\ InHand
    BY <1>1 DEF RootsListed, InHand, Busy, Resting
<1>3. \A b \in Batch : Live(b) = {} /\ Unpaid(b) \subseteq Worker
    BY <1>1 DEF Live, Unpaid
<1>4. FeesPaid
    <2>1. Cardinality({}) = 0 /\ Cardinality(Worker) \in Nat /\ faults = 0
        BY WorkerAssumption, FS_EmptySet, FS_CardinalityType DEF Init
    <2>2. ASSUME NEW b \in Batch
          PROVE  /\ Cardinality(Unpaid(b)) \in Nat
                 /\ Cardinality(Unpaid(b)) <= Cardinality(Worker)
        BY <1>3, WorkerAssumption, FS_Subset, FS_CardinalityType
    <2>3. ASSUME NEW b \in Batch
          PROVE  Cardinality(Live(b)) + Cardinality(Unpaid(b)) <= Cardinality(Worker) + faults
        BY <1>3, <2>1, <2>2
    <2>4. QED
        BY <2>3 DEF FeesPaid
<1>5. QED
    BY <1>2, <1>4 DEF FeeInv

\* The books are of finite sets.
LEMMA FiniteBooks ==
    ASSUME IInv, NEW b \in Batch
    PROVE  IsFiniteSet(Live(b)) /\ IsFiniteSet(Unpaid(b)) /\ faults \in Nat
<1>1. Len(txs) \in Nat /\ faults \in Nat
    BY TypeParts, LenProperties, AnchoringAssumption DEF IInv, NetworkOK
<1>2. IsFiniteSet(1 .. Len(txs))
    BY <1>1, FS_Interval
<1>3. Live(b) \subseteq 1 .. Len(txs) /\ Unpaid(b) \subseteq Worker
    BY DEF Live, Unpaid
<1>4. QED
    BY <1>1, <1>2, <1>3, WorkerAssumption, FS_Subset

LEMMA NextFees == IInv /\ FeeInv /\ [Next]_vars => FeeInv'
<1> SUFFICES ASSUME IInv, FeeInv, [Next]_vars PROVE FeeInv'
    OBVIOUS
<1>1. RootsListed' /\ InHand'
    BY RootsStep, InHandStep DEF FeeInv
<1>2. ASSUME NEW b \in Batch
      PROVE  Cardinality(Live(b)') + Cardinality(Unpaid(b)') <= Cardinality(Worker) + faults'
    <2>1. /\ Balanced(Live(b), Live(b)', Unpaid(b), Unpaid(b)', faults, faults')
          /\ Cardinality(Live(b)) + Cardinality(Unpaid(b)) <= Cardinality(Worker) + faults
        BY BooksStep DEF FeeInv, FeesPaid, Books
    <2>2. faults' \in Nat /\ Cardinality(Worker) \in Nat
        BY NetworkStep, WorkerAssumption, FS_CardinalityType DEF IInv, NetworkOK
    <2>3. QED
        BY <2>1, <2>2, FiniteBooks, BooksKept
<1>3. QED
    BY <1>1, <1>2 DEF FeeInv, FeesPaid

\* A batch is paid for once per worker and once more per fault at most, however
\* many workers list it, and whatever they gave up on lands (anchorOnce and
\* pendingAnchor).
THEOREM FeesAreNeeded == Spec => []NoNeedlessFee
<1>1. IInv /\ FeeInv => NoNeedlessFee
    <2> SUFFICES ASSUME IInv, FeeInv, NEW b \in Batch
                 PROVE  Cardinality({t \in 1 .. Len(txs) : Landed(t) /\ txs[t].batch = b})
                            <= Cardinality(Worker) + faults
        BY DEF NoNeedlessFee
    <2> DEFINE landed == {t \in 1 .. Len(txs) : Landed(t) /\ txs[t].batch = b}
    <2>1. landed \subseteq Live(b)
        BY DEF Live, Landed
    <2> HIDE DEF landed
    <2>2. /\ IsFiniteSet(landed) /\ Cardinality(landed) <= Cardinality(Live(b))
          /\ Cardinality(Unpaid(b)) \in Nat /\ Cardinality(Live(b)) \in Nat
        BY <2>1, FiniteBooks, FS_Subset, FS_CardinalityType
    <2>3. Cardinality(landed) \in Nat /\ Cardinality(Worker) \in Nat /\ faults \in Nat
        BY <2>2, FiniteBooks, WorkerAssumption, FS_CardinalityType
    <2>4. Cardinality(Live(b)) + Cardinality(Unpaid(b)) <= Cardinality(Worker) + faults
        BY DEF FeeInv, FeesPaid
    <2>5. Cardinality(landed) <= Cardinality(Worker) + faults
        BY <2>2, <2>3, <2>4
    <2>6. QED
        BY <2>5 DEF landed
<1>2. Spec => []FeeInv
    BY InitFees, NextFees, Invariance, PTL DEF Spec
<1>3. QED
    BY <1>1, <1>2, Invariance, PTL
=============================================================================
