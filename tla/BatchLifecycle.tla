--------------------------- MODULE BatchLifecycle ---------------------------
(***************************************************************************)
(* The batches service (apps/backend/src/batches/batches.service.ts): the  *)
(* requests that create, fill, empty, seal and advance batches, served at  *)
(* the same time against one Postgres database in READ COMMITTED.          *)
(*                                                                         *)
(* Every SQL statement is a step of its own.  A transaction keeps its      *)
(* writes to itself until it commits, and until then locks the batch it    *)
(* selected FOR UPDATE and the events it has updated.  A call refused by   *)
(* its first read changes nothing and is no step.                          *)
(*                                                                         *)
(* A Merkle root is the set of events it was computed from (the leaves are *)
(* taken in the order capturedAt, id, so the set determines it), and the   *)
(* stored totals are the set of events that was summed.                    *)
(***************************************************************************)
EXTENDS Naturals, FiniteSets

CONSTANTS
    Batch, Event, Request,
    Hub, Material, HubOf, MaterialOf,
    Quarantined,              \* events that failed a check at ingest
    BatchHub, BatchMaterial,  \* what each batch is created with
    NoBatch                   \* a NULL batchId

ASSUME ConstantsAssumption ==
    /\ NoBatch \notin Batch
    /\ HubOf \in [Event -> Hub] /\ MaterialOf \in [Event -> Material]
    /\ BatchHub \in [Batch -> Hub] /\ BatchMaterial \in [Batch -> Material]
    /\ Quarantined \subseteq Event

VARIABLES
    status, root, counted,  \* the committed batch rows
    batchOf,                \* the committed batchId of each event
    req                     \* each request: its phase, and what it holds

rows == <<status, root, counted, batchOf>>
vars == <<rows, req>>

Status == {"absent", "open", "sealed", "processed", "sold"}
NoRoot == {}    \* a NULL merkleRoot: no root is of the empty batch

LEGAL_TRANSITIONS ==
    [absent |-> {}, open |-> {"sealed"}, sealed |-> {"processed"},
     processed |-> {"sold"}, sold |-> {}]

\* The statement a request runs next; all but the last two are in a
\* transaction that holds the lock of its batch.
InTransaction == {"select", "write", "detach", "count", "commit", "read", "seal"}
Phase == InTransaction \cup {"advance", "idle"}

Idle == [phase   |-> "idle",
         batch   |-> NoBatch,   \* the batch it is about
         ids     |-> {},        \* the events it was asked to move
         dest    |-> NoBatch,   \* the batchId it gives them
         written |-> {},        \* the event rows it has updated, and locked
         seen    |-> {},        \* the members it read, to total or to hash
         to      |-> "absent"]  \* the status it was asked for

Members(b) == {e \in Event : batchOf[e] = b}
Eligible(b) ==
    {e \in Event : /\ e \notin Quarantined
                   /\ HubOf[e] = BatchHub[b]
                   /\ MaterialOf[e] = BatchMaterial[b]}

HoldsBatch(r, b) == req[r].phase \in InTransaction /\ req[r].batch = b
BatchFree(b) == \A r \in Request : ~HoldsBatch(r, b)
EventFree(e) == \A r \in Request : e \notin req[r].written

-----------------------------------------------------------------------------
Init ==
    /\ status = [b \in Batch |-> "absent"]
    /\ root = [b \in Batch |-> NoRoot]
    /\ counted = [b \in Batch |-> {}]
    /\ batchOf = [e \in Event |-> NoBatch]
    /\ req = [r \in Request |-> Idle]

\* Faulty variant: the connection goes back to the pool with its row locks.
MutFinish(r) == req' = [req EXCEPT ![r] = [Idle EXCEPT !.written = req[r].written]]

\* The handler returns or throws: its transaction is over, its locks released.
Finish(r) == req' = [req EXCEPT ![r] = Idle]

Create(b) ==
    /\ status[b] = "absent"
    /\ status' = [status EXCEPT ![b] = "open"]
    /\ UNCHANGED <<root, counted, batchOf, req>>

\* Faulty variants: the row is read without FOR UPDATE; any status will do.
MutStartUnlocked(r, b, phase, es, dest) ==
    /\ req[r] = Idle /\ status[b] = "open"
    /\ req' = [req EXCEPT ![r] = [Idle EXCEPT !.phase = phase, !.batch = b,
                                              !.ids = es, !.dest = dest]]
    /\ UNCHANGED rows
MutStartAnyStatus(r, b, phase, es, dest) ==
    /\ req[r] = Idle /\ BatchFree(b) /\ status[b] # "absent"
    /\ req' = [req EXCEPT ![r] = [Idle EXCEPT !.phase = phase, !.batch = b,
                                              !.ids = es, !.dest = dest]]
    /\ UNCHANGED rows

\* How every transaction starts: SELECT ... FOR UPDATE of the batch row, and a
\* batch that is not open is refused.
Start(r, b, phase, es, dest) ==
    /\ req[r] = Idle
    /\ BatchFree(b)
    /\ status[b] = "open"
    /\ req' = [req EXCEPT ![r] = [Idle EXCEPT !.phase = phase, !.batch = b,
                                              !.ids = es, !.dest = dest]]
    /\ UNCHANGED rows

AddEvents(r, b) == \E es \in SUBSET Event : Start(r, b, "select", es, b)
RemoveEvent(r, b) == \E e \in Event : Start(r, b, "detach", {e}, NoBatch)
Seal(r, b) == Start(r, b, "read", {}, NoBatch)

-----------------------------------------------------------------------------
\* Faulty variant: the candidates are not filtered on quarantined.
MutCandidates(r) ==
    {e \in req[r].ids : /\ batchOf[e] = NoBatch
                        /\ HubOf[e] = BatchHub[req[r].batch]
                        /\ MaterialOf[e] = BatchMaterial[req[r].batch]}

\* The events asked for that addEvents may take, read without locking them.
Candidates(r) ==
    {e \in req[r].ids : batchOf[e] = NoBatch /\ e \in Eligible(req[r].batch)}

\* Faulty variant: a rejected request leaves its transaction open.
MutSelectCandidates(r) ==
    /\ req[r].phase = "select" /\ Candidates(r) = req[r].ids
    /\ req' = [req EXCEPT ![r].phase = "write"]
    /\ UNCHANGED rows

\* addEvents: one event that is no candidate rejects the whole request.
SelectCandidates(r) ==
    /\ req[r].phase = "select"
    /\ \/ Candidates(r) = req[r].ids /\ req' = [req EXCEPT ![r].phase = "write"]
       \/ Candidates(r) # req[r].ids /\ Finish(r)
    /\ UNCHANGED rows

\* addEvents: UPDATE ... WHERE id IN (...), one row after the other, each
\* waiting for the transaction that holds it.  batchId is not tested again.
AttachOne(r, e) ==
    /\ req[r].phase = "write"
    /\ e \in req[r].ids /\ EventFree(e)
    /\ req' = [req EXCEPT ![r].written = @ \cup {e}]
    /\ UNCHANGED rows

AttachedAll(r) ==
    /\ req[r].phase = "write" /\ req[r].written = req[r].ids
    /\ req' = [req EXCEPT ![r].phase = "count"]
    /\ UNCHANGED rows

\* removeEvent: UPDATE ... WHERE id AND batchId; no row affected is a 404.
Detach(r) ==
    /\ req[r].phase = "detach"
    /\ \E e \in req[r].ids :
           \/ /\ batchOf[e] = req[r].batch /\ EventFree(e)
              /\ req' = [req EXCEPT ![r].phase = "count", ![r].written = {e}]
           \/ /\ batchOf[e] # req[r].batch
              /\ Finish(r)
    /\ UNCHANGED rows

\* The members as r's transaction sees them: the committed rows, under its own
\* writes.
MembersSeenBy(r) ==
    {e \in Event : IF e \in req[r].written THEN req[r].dest = req[r].batch
                                           ELSE batchOf[e] = req[r].batch}

RecomputeTotals(r) ==
    /\ req[r].phase = "count"
    /\ req' = [req EXCEPT ![r].phase = "commit", ![r].seen = MembersSeenBy(r)]
    /\ UNCHANGED rows

CommitMembers(r) ==
    /\ req[r].phase = "commit"
    /\ batchOf' = [e \in Event |-> IF e \in req[r].written THEN req[r].dest
                                                           ELSE batchOf[e]]
    /\ counted' = [counted EXCEPT ![req[r].batch] = req[r].seen]
    /\ Finish(r)
    /\ UNCHANGED <<status, root>>

-----------------------------------------------------------------------------
\* seal: an empty batch, or one with a quarantined event, is refused.
ReadMembers(r) ==
    LET events == Members(req[r].batch)
        sealable == events # {} /\ events \cap Quarantined = {}
    IN  /\ req[r].phase = "read"
        /\ \/ sealable /\ req' = [req EXCEPT ![r].phase = "seal", ![r].seen = events]
           \/ ~sealable /\ Finish(r)
        /\ UNCHANGED rows

CommitSeal(r) ==
    /\ req[r].phase = "seal"
    /\ status' = [status EXCEPT ![req[r].batch] = "sealed"]
    /\ root' = [root EXCEPT ![req[r].batch] = req[r].seen]
    /\ counted' = [counted EXCEPT ![req[r].batch] = req[r].seen]
    /\ Finish(r)
    /\ UNCHANGED batchOf

-----------------------------------------------------------------------------
\* Faulty variant: "sealed" can be set like any other status.
MutAdvance(r, b, s) ==
    /\ req[r] = Idle /\ s \in LEGAL_TRANSITIONS[status[b]]
    /\ s = "processed" => root[b] # NoRoot
    /\ req' = [req EXCEPT ![r] = [Idle EXCEPT !.phase = "advance", !.batch = b, !.to = s]]
    /\ UNCHANGED rows

\* advanceStatus has no transaction: a plain read and its tests, then an UPDATE
\* that writes the status whatever the row holds by then.
Advance(r, b, s) ==
    /\ req[r] = Idle
    /\ s \in LEGAL_TRANSITIONS[status[b]]
    /\ s # "sealed"
    /\ s = "processed" => root[b] # NoRoot
    /\ req' = [req EXCEPT ![r] = [Idle EXCEPT !.phase = "advance", !.batch = b, !.to = s]]
    /\ UNCHANGED rows

WriteStatus(r) ==
    /\ req[r].phase = "advance"
    /\ BatchFree(req[r].batch)
    /\ status' = [status EXCEPT ![req[r].batch] = req[r].to]
    /\ Finish(r)
    /\ UNCHANGED <<root, counted, batchOf>>

-----------------------------------------------------------------------------
\* Rollback: the process or its connection dies, or a statement fails.
Abort(r) ==
    /\ req[r] # Idle
    /\ Finish(r)
    /\ UNCHANGED rows

\* The requests holding an event row that r's UPDATE waits for.
WaitsFor(r) ==
    LET needs == IF req[r].phase = "write" THEN req[r].ids \ req[r].written ELSE {}
    IN  IF \E e \in needs : EventFree(e) THEN {}
        ELSE {q \in Request : req[q].written \cap needs # {}}

\* Postgres rolls back one transaction of a cycle of waiting ones.
DeadlockVictim(r) ==
    /\ \E S \in SUBSET Request :
           r \in S /\ \A q \in S : WaitsFor(q) \cap S # {}
    /\ Abort(r)

\* A request being served moves on.
Progress(r) ==
    \/ SelectCandidates(r)
    \/ \E e \in Event : AttachOne(r, e)
    \/ AttachedAll(r)
    \/ Detach(r)
    \/ RecomputeTotals(r)
    \/ CommitMembers(r)
    \/ ReadMembers(r)
    \/ CommitSeal(r)
    \/ WriteStatus(r)
    \/ DeadlockVictim(r)

\* A request comes in.
Call(r, b) ==
    \/ AddEvents(r, b)
    \/ RemoveEvent(r, b)
    \/ Seal(r, b)
    \/ \E s \in Status : Advance(r, b, s)

Next ==
    \/ \E b \in Batch : Create(b)
    \/ \E r \in Request :
           \/ \E b \in Batch : Call(r, b)
           \/ Progress(r)
           \/ Abort(r)

Spec == Init /\ [][Next]_vars

\* Postgres serves the waiters of a row lock in turn, so a request whose next
\* statement can run again and again is served.
FairSpec == Spec /\ \A r \in Request : SF_vars(Progress(r))

-----------------------------------------------------------------------------
\* Every variable is well formed, and only a request being served is about a
\* batch or holds event rows, all of which it was asked to move.
TypeOK ==
    /\ status \in [Batch -> Status]
    /\ root \in [Batch -> SUBSET Event]
    /\ counted \in [Batch -> SUBSET Event]
    /\ batchOf \in [Event -> Batch \cup {NoBatch}]
    /\ req \in [Request -> [phase : Phase, batch : Batch \cup {NoBatch},
                            ids : SUBSET Event, dest : Batch \cup {NoBatch},
                            written : SUBSET Event, seen : SUBSET Event, to : Status]]
    /\ \A r \in Request :
           /\ req[r].batch = NoBatch <=> req[r].phase = "idle"
           /\ req[r].phase = "idle" => req[r] = Idle
           /\ req[r].written \subseteq req[r].ids

\* A sealed batch never gains a member its root was not computed from, however
\* addEvents and seal on it overlap.
MembersWithinRoot ==
    \A b \in Batch : root[b] # NoRoot => Members(b) \subseteq root[b]

\* Nothing quarantined, of another hub or of another material is ever a member
\* of a batch or hashed into a root ("a failed integrity check must not be able
\* to reach a saleable credit", addEvents).
OnlyEligible ==
    \A b \in Batch : Members(b) \cup root[b] \subseteq Eligible(b)

\* The totals a sealed batch is sold by are those of exactly the events under
\* its root: no addEvents or removeEvent writes its totals after the seal.
SealedTotals ==
    \A b \in Batch : root[b] # NoRoot => counted[b] = root[b]

\* Sealing is irreversible: whatever runs, a root once written stays.
RootFrozen ==
    [][\A b \in Batch : root[b] # NoRoot => root'[b] = root[b]]_vars

\* removeEvent never undoes a seal: an event of a sealed batch does not return
\* to the pool that addEvents draws from.
SealedEventNotFreed ==
    [][\A e \in Event :
           (\E b \in Batch : batchOf[e] = b /\ root[b] # NoRoot)
               => batchOf'[e] # NoBatch]_vars

\* Every request is answered: neither a row lock nor a rejected request leaves
\* a transaction open for ever.
EveryRequestEnds == \A r \in Request : req[r] # Idle ~> req[r] = Idle

\* The rows keep the promise the anchoring side builds on.
Row == INSTANCE BatchRow WITH Root <- (SUBSET Event) \ {NoRoot}
KeepsRowPromise == Row!Spec

\* What the code does not keep.  "Batch lifecycle: open -> sealed -> processed ->
\* sold" (batches.service.ts:35, 43-48; docs/architecture.md:113-117): of two
\* requests to advance a batch, one may write "processed" after the other has
\* written "sold", because the status is tested in one statement and written in
\* another, without a lock.
StatusForward ==
    [][\A b \in Batch :
           status'[b] # status[b] =>
               <<status[b], status'[b]>> \in
                   {<<"absent", "open">>, <<"open", "sealed">>, <<"sealed", "processed">>,
                    <<"processed", "sold">>}]_vars

\* What the code does not keep.  docs/architecture.md: "Sealing freezes
\* membership and computes the Merkle root, proving that no event can be added,
\* removed, or reordered after that point."  An addEvents on another batch that
\* read an event as unassigned before this batch took it and sealed still moves
\* it away.
MembershipFrozen ==
    \A b \in Batch : root[b] # NoRoot => Members(b) = root[b]
=============================================================================
