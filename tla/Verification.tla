---------------------------- MODULE Verification ----------------------------
(***************************************************************************)
(* How anyone checks a batch: the audit report and the page that shows it, *)
(* the proof of one weigh-in and the status of an anchor.  All three read  *)
(* the database in several steps, while batches are filled, sealed and     *)
(* anchored, and then ask the LedgerVerificationService, which reads the   *)
(* public ledger through Horizon, shares a read under way and keeps what   *)
(* was confirmed.                                                          *)
(*                                                                         *)
(* Events are numbered in their order (capturedAt, id).  A batch is open   *)
(* until something is sealed in it.  Horizon is behind the ledger by any   *)
(* number of transactions, and any answer may fail to come.                *)
(***************************************************************************)
EXTENDS MerkleTree, FiniteSets

CONSTANTS
    Batch, Event,
    Reader,      \* the requests being served
    NoRoot,      \* a NULL merkleRoot, or the root of no leaf
    MaxTx,       \* bound on the transactions of the ledger
    MaxRestarts  \* bound on restarts of the backend

NoBatch == "none"   \* a NULL batchId

ASSUME VerificationAssumption ==
    /\ Event \subseteq Nat /\ IsFiniteSet(Event)
    /\ NoBatch \notin Batch
    /\ MaxTx \in Nat /\ MaxRestarts \in Nat

VARIABLES
    batchOf,     \* the batchId of each event
    sealed,      \* of each batch: the events under its root, {} while open
    anchor,      \* of each batch: the transaction recorded for it, or NoTx
    ledger,      \* the transactions of the ledger, in order
    ingested,    \* how many of them Horizon has taken in
    confirmed,   \* the positive answers kept: LedgerVerificationService.confirmed
    inFlight,    \* the reads of the ledger under way
    reader,
    restarts

database == <<batchOf, sealed, anchor>>
service == <<confirmed, inFlight>>
network == <<ledger, ingested>>
vars == <<database, network, service, reader, restarts>>

NoTx == 0
Idle == [phase |-> "idle", kind |-> "report", batch |-> NoBatch, root |-> NoRoot,
         events |-> {}, event |-> 0, asked |-> <<NoTx, NoRoot>>, fresh |-> FALSE,
         says |-> "unanchored"]

Members(b) == {e \in Event : batchOf[e] = b}

\* leavesOf, over the events in their order.
Rank(events, e) == Cardinality({x \in events : x <= e})
LeavesOf(events) ==
    [i \in 1 .. Cardinality(events) |-> HashLeaf(CHOOSE e \in events : Rank(events, e) = i)]
RootOf == [events \in SUBSET Event |->
              IF events = {} THEN NoRoot ELSE MerkleRoot(LeavesOf(events))]

Init ==
    /\ batchOf = [e \in Event |-> NoBatch]
    /\ sealed = [b \in Batch |-> {}]
    /\ anchor = [b \in Batch |-> NoTx]
    /\ ledger = << >>
    /\ ingested = 0
    /\ confirmed = {}
    /\ inFlight = {}
    /\ reader = [r \in Reader |-> Idle]
    /\ restarts = 0

-----------------------------------------------------------------------------
(* What goes on meanwhile.                                                 *)

\* addEvents and removeEvent.  addEvents may have found the event unassigned and
\* update it after another batch has taken it, even a sealed one.
MoveEvent(e, b) ==
    /\ sealed[b] = {}
    /\ \/ batchOf[e] # b /\ batchOf' = [batchOf EXCEPT ![e] = b]
       \/ batchOf[e] = b /\ batchOf' = [batchOf EXCEPT ![e] = NoBatch]
    /\ UNCHANGED <<sealed, anchor, network, service, reader, restarts>>

Seal(b) ==
    /\ sealed[b] = {} /\ Members(b) # {}
    /\ sealed' = [sealed EXCEPT ![b] = Members(b)]
    /\ UNCHANGED <<batchOf, anchor, network, service, reader, restarts>>

\* A transaction of the anchor worker is taken into the ledger, with the root as
\* memo and, if it succeeds, under the batch's data entry.
Submit(b) ==
    /\ sealed[b] # {} /\ Len(ledger) < MaxTx
    /\ \E ok \in BOOLEAN :
           ledger' = Append(ledger, [batch |-> b, root |-> RootOf[sealed[b]], ok |-> ok])
    /\ UNCHANGED <<database, ingested, service, reader, restarts>>

Ingest ==
    /\ ingested < Len(ledger)
    /\ ingested' = ingested + 1
    /\ UNCHANGED <<database, ledger, service, reader, restarts>>

\* recordAnchor believes whoever holds the worker's token: the transaction may
\* be another batch's, a failed one, or one that is not on the ledger.
RecordAnchor(b, t) ==
    /\ sealed[b] # {} /\ anchor[b] = NoTx
    /\ \A other \in Batch : anchor[other] # t
    /\ anchor' = [anchor EXCEPT ![b] = t]
    /\ UNCHANGED <<batchOf, sealed, network, service, reader, restarts>>

-----------------------------------------------------------------------------
(* A request, one database read per step.                                  *)

\* findOne: the report reads the row whatever its state, the proof of an event
\* needs a sealed batch.
Ask(r, kind, b, e) ==
    /\ reader[r].phase = "idle"
    /\ kind = "event" => sealed[b] # {}
    /\ reader' = [reader EXCEPT ![r] =
           [Idle EXCEPT !.kind = kind, !.batch = b, !.root = RootOf[sealed[b]], !.event = e,
                        !.phase = IF kind = "status" THEN "anchor" ELSE "events"]]
    /\ UNCHANGED <<database, network, service, restarts>>

\* orderedEvents: an event that is not in the batch is a 404.
ReadEvents(r) ==
    /\ reader[r].phase = "events"
    /\ LET events == Members(reader[r].batch) IN
       reader' = [reader EXCEPT ![r] =
           IF reader[r].kind = "event" /\ reader[r].event \notin events THEN Idle
           ELSE [@ EXCEPT !.phase = "anchor", !.events = events]]
    /\ UNCHANGED <<database, network, service, restarts>>

Waiting(r, read) == reader[r].phase = "ledger" /\ reader[r].asked = read.key

\* Nothing stands between the caller and a true answer: Horizon has the
\* transaction, and nobody still waits for a read sent out before it had.
Fresh(key) ==
    /\ key[1] \in 1 .. ingested
    /\ \A read \in inFlight :
           read.key = key /\ (\E r \in Reader : Waiting(r, read)) => read.since >= key[1]

\* Faulty variant: reads under way are not looked up.
MutUnderWay(key) == FALSE

UnderWay(key) == \E read \in inFlight : read.key = key

\* The anchor is read and LedgerVerificationService.verify called in one turn: a
\* confirmed answer is given at once, a read under way is joined, or one starts.
\* The key is the transaction and the root of the AnchorRecord.
ReadAnchor(r) ==
    LET b == reader[r].batch
        key == <<anchor[b], RootOf[sealed[b]]>>
        known == key \in confirmed
        asks == anchor[b] # NoTx /\ ~known
        read == [key |-> key, batch |-> b, step |-> "transaction",
                 since |-> ingested, memo |-> FALSE, says |-> "unknown"]
    IN  /\ reader[r].phase = "anchor"
        /\ reader' = [reader EXCEPT ![r] =
               [@ EXCEPT !.phase = IF asks THEN "ledger" ELSE "done",
                         !.asked = key, !.fresh = Fresh(key),
                         !.says = IF known THEN "confirmed"
                                  ELSE IF asks THEN "unknown" ELSE "unanchored"]]
        /\ inFlight' = IF asks /\ ~UnderWay(key) THEN inFlight \cup {read} ELSE inFlight
        /\ UNCHANGED <<database, network, confirmed, restarts>>

Dismiss(r) ==
    /\ reader[r].phase = "done"
    /\ reader' = [reader EXCEPT ![r] = Idle]
    /\ UNCHANGED <<database, network, service, restarts>>

-----------------------------------------------------------------------------
(* readFromLedger: two requests to Horizon, then the answer for everybody  *)
(* who waits for this read.                                                *)

GoOn(read, next) ==
    /\ inFlight' = (inFlight \ {read}) \cup {next}
    /\ UNCHANGED <<database, network, confirmed, reader, restarts>>

Over(read, says) == GoOn(read, [read EXCEPT !.step = "over", !.says = says])

\* GET /transactions/:hash: no answer says nothing; none, or one that did not
\* succeed, is a denial.
TransactionAnswered(read) ==
    /\ read.step = "transaction"
    /\ LET tx == read.key[1] IN
       IF tx \in 1 .. ingested /\ ledger[tx].ok
       THEN GoOn(read, [read EXCEPT !.step = "account",
                                    !.memo = (ledger[tx].root = read.key[2])])
       ELSE Over(read, "denied")

\* Horizon shows this root under a batch's data entry: it was the last one written.
DataEntry(b, root) ==
    LET written == {t \in 1 .. ingested : ledger[t].ok /\ ledger[t].batch = b}
    IN  \E last \in written : ledger[last].root = root /\ \A t \in written : t <= last

\* Either reference is enough.
Confirms(memo, entry) == memo \/ entry

\* GET /accounts/:id: no answer leaves it to the memo.
AccountAnswered(read) ==
    /\ read.step = "account"
    /\ \E entry \in {DataEntry(read.batch, read.key[2]), FALSE} :
           Over(read, IF Confirms(read.memo, entry) THEN "confirmed" ELSE "denied")

HorizonSilent(read) == read.step = "transaction" /\ Over(read, "unknown")

\* Faulty variant: a read that is over is never cleared.
MutCleared(read) == inFlight

\* Only a positive answer is kept for the lifetime of the process, and the read
\* is cleared whatever came of it.
Keeps(read) == read.says = "confirmed"
Cleared(read) == inFlight \ {read}
Settle(read) ==
    /\ read.step = "over"
    /\ confirmed' = IF Keeps(read) THEN confirmed \cup {read.key} ELSE confirmed
    /\ inFlight' = Cleared(read)
    /\ reader' = [r \in Reader |->
           IF Waiting(r, read) THEN [reader[r] EXCEPT !.phase = "done", !.says = read.says]
                               ELSE reader[r]]
    /\ UNCHANGED <<database, network, restarts>>

\* The backend process ends with its maps and its requests, and starts again.
Restart ==
    /\ restarts < MaxRestarts
    /\ restarts' = restarts + 1
    /\ confirmed' = {} /\ inFlight' = {}
    /\ reader' = [r \in Reader |-> Idle]
    /\ UNCHANGED <<database, network>>
-----------------------------------------------------------------------------
(* What the readers are told.                                              *)

\* buildAuditReport: the root again, from the events the report lists, and the
\* path of each of them.
RecomputedRoot(r) == RootOf[reader[r].events]
RootMatchesSealedValue(r) == reader[r].root # NoRoot /\ reader[r].root = RecomputedRoot(r)
ProofValid(events, e, root) ==
    LET leaves == LeavesOf(events)
        index == Rank(events, e)
    IN  VerifyMerkleProof(leaves[index], MerkleProof(leaves, index), root)
AllProofsValid(r) ==
    /\ reader[r].events # {}
    /\ \A e \in reader[r].events : ProofValid(reader[r].events, e, RecomputedRoot(r))
InternallyConsistent(r) == RootMatchesSealedValue(r) /\ AllProofsValid(r)

\* Faulty variant: what the page showed before it asked the ledger.
MutProofState(r) ==
    IF reader[r].root = NoRoot THEN "pending"
    ELSE IF ~InternallyConsistent(r) THEN "broken"
    ELSE IF reader[r].asked[1] # NoTx THEN "verified" ELSE "pending"

\* The report page's proofState.
ProofState(r) ==
    IF reader[r].root = NoRoot THEN "pending"
    ELSE IF ~InternallyConsistent(r) \/ reader[r].says = "denied" THEN "broken"
    ELSE IF reader[r].says = "confirmed" THEN "verified" ELSE "pending"

\* What the report page prints over the proof.  An open batch is shown as sealed,
\* too.
Heading(r) ==
    CASE ProofState(r) = "verified" -> "Independently verifiable"
      [] ProofState(r) = "pending" ->
             IF reader[r].says # "unanchored" THEN "Anchored, awaiting confirmation"
             ELSE "Sealed, not yet anchored"
      [] ProofState(r) = "broken" ->
             IF reader[r].says = "denied" THEN "LEDGER DISAGREES" ELSE "INCONSISTENT"

\* verifyEvent's proofValid.
EventProofValid(r) == ProofValid(reader[r].events, reader[r].event, reader[r].root)

Answered(r, kind) == reader[r].phase = "done" /\ reader[r].kind = kind

-----------------------------------------------------------------------------
Serve(r) == ReadEvents(r) \/ ReadAnchor(r) \/ Dismiss(r)

Horizon(read) ==
    \/ TransactionAnswered(read)
    \/ AccountAnswered(read)
    \/ HorizonSilent(read)
    \/ Settle(read)

\* A request comes in, about b.
Call(r, b) ==
    \/ \E kind \in {"report", "status"} : Ask(r, kind, b, 0)
    \/ \E e \in Event : Ask(r, "event", b, e)

\* Everything but the requests.
World ==
    \/ \E b \in Batch :
           \/ \E e \in Event : MoveEvent(e, b)
           \/ Seal(b)
           \/ Submit(b)
           \/ \E t \in 1 .. MaxTx : RecordAnchor(b, t)
    \/ Ingest
    \/ \E read \in inFlight : Horizon(read)
    \/ Restart

Next ==
    \/ World
    \/ \E r \in Reader : Serve(r) \/ \E b \in Batch : Call(r, b)

Spec == Init /\ [][Next]_vars

-----------------------------------------------------------------------------
Says == {"unanchored", "unknown", "confirmed", "denied"}
Roots == {RootOf[events] : events \in SUBSET Event}
Key == (0 .. MaxTx) \X Roots
Reading == [phase : {"idle", "events", "anchor", "ledger", "done"},
            kind : {"report", "event", "status"}, batch : Batch \cup {NoBatch},
            root : Roots \cup {NoRoot}, events : SUBSET Event, event : Nat,
            asked : Key \cup {<<NoTx, NoRoot>>}, fresh : BOOLEAN, says : Says]
LedgerRead == [key : Key, batch : Batch, memo : BOOLEAN, says : Says, since : Nat,
               step : {"transaction", "account", "over"}]

TypeOK ==
    /\ batchOf \in [Event -> Batch \cup {NoBatch}]
    /\ sealed \in [Batch -> SUBSET Event]
    /\ anchor \in [Batch -> 0 .. MaxTx]
    /\ ledger \in Seq([batch : Batch, root : Roots, ok : BOOLEAN])
    /\ ingested \in 0 .. Len(ledger) /\ Len(ledger) <= MaxTx
    /\ confirmed \subseteq Key
    /\ inFlight \subseteq LedgerRead
    /\ reader \in [Reader -> Reading]
    /\ restarts \in 0 .. MaxRestarts
    /\ \A read, other \in inFlight : read.key = other.key => read = other

\* The ledger holds the root of b, in a transaction that succeeded.
OnLedger(b) ==
    \E t \in 1 .. Len(ledger) : ledger[t].ok /\ ledger[t].root = RootOf[sealed[b]]

\* LedgerVerificationService: a confirmation, fresh or kept, is true of the
\* ledger; and nobody is told that the ledger contradicts a good anchor when
\* Horizon had it before they asked and nobody waited for an earlier read,
\* however many reads failed or came too early before.
VerdictsAreTrue ==
    \A r \in Reader : reader[r].phase = "done" =>
        LET t == reader[r].asked[1]
            good == ledger[t].ok /\ ledger[t].root = reader[r].asked[2]
        IN  /\ reader[r].says = "confirmed" => OnLedger(reader[r].batch)
            /\ reader[r].says = "denied" /\ reader[r].fresh => ~good

\* The report page and verifyEvent: a report shown as verified lists exactly the
\* events that were sealed and their root is on the ledger, and a weigh-in whose
\* proof is valid was sealed in that batch, whatever changed between the reads.
VerifiedIsProof ==
    \A r \in Reader :
        LET b == reader[r].batch IN
        /\ Answered(r, "report") /\ Heading(r) = "Independently verifiable" =>
               reader[r].events = sealed[b] /\ OnLedger(b)
        /\ Answered(r, "event") /\ EventProofValid(r) => reader[r].event \in sealed[b]

\* buildAuditReport and verifyEvent read the batch before its events, so a report
\* made while the batch fills and seals never calls it INCONSISTENT, and a proof
\* never fails, unless the batch has really lost one of the sealed events.
NoFalseAlarm ==
    \A r \in Reader :
        LET b == reader[r].batch IN
        \/ Answered(r, "report") /\ reader[r].root # NoRoot /\ ~InternallyConsistent(r)
        \/ Answered(r, "event") /\ ~EventProofValid(r)
        => Members(b) # sealed[b]
=============================================================================
