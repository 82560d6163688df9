----------------------- MODULE BatchLifecycleProofs -----------------------
(***************************************************************************)
(* What BatchLifecycle guarantees for any number of batches, events and    *)
(* requests.                                                               *)
(***************************************************************************)
EXTENDS BatchLifecycle, TLAPS

-----------------------------------------------------------------------------
(* The inductive invariant.                                                *)

\* FOR UPDATE excludes: a batch is locked by one transaction at most, and only
\* while it is open.
LockedOnceAndOpen ==
    \A r, q \in Request, b \in Batch :
        HoldsBatch(r, b) => status[b] = "open" /\ (HoldsBatch(q, b) => r = q)

\* A batch has a root exactly when it has left "open".
RootIffSealed ==
    \A b \in Batch : root[b] = NoRoot <=> status[b] \in {"absent", "open"}

\* An event row is updated by one open transaction at most.
EventLockedOnce ==
    \A r, q \in Request, e \in Event :
        e \in req[r].written /\ e \in req[q].written => r = q

\* addEvents holds only events its batch may take; removeEvent holds one of
\* its batch's own, which nobody else can move meanwhile.
MovesAreSound ==
    \A r \in Request :
        /\ req[r].phase = "select" => req[r].dest = req[r].batch
        /\ req[r].phase \in {"detach", "read", "seal"} =>
               req[r].dest = NoBatch /\ req[r].written = {}
        /\ req[r].phase \in {"write", "count", "commit"} =>
               \/ req[r].dest = req[r].batch /\ req[r].ids \subseteq Eligible(req[r].batch)
               \/ /\ req[r].phase # "write" /\ req[r].dest = NoBatch
                  /\ \A e \in req[r].written : batchOf[e] = req[r].batch

\* What seal read is still an upper bound of the membership when it commits.
SealReadCovers ==
    \A r \in Request :
        req[r].phase = "seal" =>
            /\ req[r].seen # {}
            /\ req[r].seen \subseteq Eligible(req[r].batch)
            /\ Members(req[r].batch) \subseteq req[r].seen

\* A status waits to be written only over one that is its predecessor or later.
AdvanceIsForward ==
    \A r \in Request :
        req[r].phase = "advance" =>
            \/ /\ req[r].to = "processed"
               /\ status[req[r].batch] \in {"sealed", "processed", "sold"}
            \/ /\ req[r].to = "sold"
               /\ status[req[r].batch] \in {"processed", "sold"}

IInv ==
    /\ TypeOK
    /\ LockedOnceAndOpen
    /\ RootIffSealed
    /\ EventLockedOnce
    /\ MovesAreSound
    /\ SealReadCovers
    /\ AdvanceIsForward
    /\ MembersWithinRoot
    /\ OnlyEligible
    /\ SealedTotals

-----------------------------------------------------------------------------
(* Type correctness.                                                       *)

ReqType ==
    [phase : Phase, batch : Batch \cup {NoBatch}, ids : SUBSET Event,
     dest : Batch \cup {NoBatch}, written : SUBSET Event, seen : SUBSET Event,
     to : Status]

LEMMA IdleType == Idle \in ReqType
BY DEF Idle, ReqType, Phase, InTransaction, Status

LEMMA TypeInit == Init => TypeOK
<1> SUFFICES ASSUME Init PROVE TypeOK
    OBVIOUS
<1>1. req \in [Request -> ReqType]
    BY IdleType DEF Init
<1>2. QED
    BY <1>1 DEF Init, TypeOK, ReqType, Idle, Status, NoRoot

\* A request that goes on keeps its record well formed.
LEMMA TypeStep ==
    ASSUME TypeOK, NEW r \in Request, NEW w \in ReqType,
           w.phase # "idle", w.batch # NoBatch, w.written \subseteq w.ids,
           req' = [req EXCEPT ![r] = w], UNCHANGED rows
    PROVE  TypeOK'
<1>1. req \in [Request -> ReqType]
    BY DEF TypeOK, ReqType
<1>2. req' \in [Request -> ReqType]
    BY <1>1
<1>3. \A q \in Request : req'[q] = IF q = r THEN w ELSE req[q]
    BY <1>1
<1> HIDE DEF ReqType
<1>4. \A q \in Request :
          /\ req'[q].batch = NoBatch <=> req'[q].phase = "idle"
          /\ req'[q].phase = "idle" => req'[q] = Idle
          /\ req'[q].written \subseteq req'[q].ids
    <2> TAKE q \in Request
    <2>1. CASE q = r
        BY <2>1, <1>3
    <2>2. CASE q # r
        BY <2>2, <1>3 DEF TypeOK
    <2>3. QED
        BY <2>1, <2>2
<1>5. QED
    BY <1>2, <1>4 DEF TypeOK, ReqType, rows

\* What a request holds between two of its statements, and that the record stays
\* one when its phase, its written rows or the members it has seen change.
LEMMA RecordStep ==
    ASSUME TypeOK, NEW r \in Request, req[r].phase # "idle",
           NEW p \in InTransaction, NEW W \in SUBSET Event, NEW S \in SUBSET Event,
           W \subseteq req[r].ids
    PROVE  LET w == [req[r] EXCEPT !.phase = p, !.written = W, !.seen = S]
           IN  /\ w \in ReqType /\ w.phase # "idle" /\ w.batch # NoBatch
               /\ w.written \subseteq w.ids
<1>1. req[r] \in ReqType /\ req[r].batch # NoBatch
    BY DEF TypeOK, ReqType
<1>2. p \in Phase /\ p # "idle"
    BY DEF Phase, InTransaction
<1>3. QED
    BY <1>1, <1>2 DEF ReqType

LEMMA TypeNext == TypeOK /\ [Next]_vars => TypeOK'
<1> SUFFICES ASSUME TypeOK, [Next]_vars PROVE TypeOK'
    OBVIOUS
<1>0. req \in [Request -> ReqType]
    BY DEF TypeOK, ReqType
<1>1. ASSUME NEW b \in Batch, Create(b) PROVE TypeOK'
    BY <1>1 DEF Create, Status, TypeOK
<1>2. ASSUME NEW r \in Request, Finish(r), UNCHANGED rows PROVE TypeOK'
    BY <1>2, IdleType DEF Finish, rows, Idle, TypeOK, ReqType
<1>3. ASSUME NEW r \in Request, NEW b \in Batch, Call(r, b) PROVE TypeOK'
    <2>0. ASSUME NEW phase \in InTransaction, NEW es \in SUBSET Event,
                 NEW dest \in Batch \cup {NoBatch}, Start(r, b, phase, es, dest)
          PROVE  TypeOK'
        <3> DEFINE w == [Idle EXCEPT !.phase = phase, !.batch = b, !.ids = es, !.dest = dest]
        <3>1. /\ w \in ReqType /\ w.phase # "idle" /\ w.batch # NoBatch
              /\ w.written \subseteq w.ids
            BY ConstantsAssumption DEF Idle, ReqType, Phase, InTransaction, Status
        <3>2. req' = [req EXCEPT ![r] = w] /\ UNCHANGED rows
            BY <2>0 DEF Start
        <3> HIDE DEF w
        <3>3. QED
            BY <3>1, <3>2, TypeStep
    <2>1. CASE AddEvents(r, b)
        BY <2>0, <2>1 DEF AddEvents, InTransaction
    <2>2. CASE RemoveEvent(r, b)
        <3>1. PICK e \in Event : Start(r, b, "detach", {e}, NoBatch)
            BY <2>2 DEF RemoveEvent
        <3>2. {e} \in SUBSET Event /\ "detach" \in InTransaction
            BY DEF InTransaction
        <3>3. QED
            BY <3>1, <3>2, <2>0
    <2>3. CASE Seal(r, b)
        <3>1. "read" \in InTransaction /\ {} \in SUBSET Event
            BY DEF InTransaction
        <3>2. QED
            BY <3>1, <2>0, <2>3 DEF Seal
    <2>4. ASSUME NEW s \in Status, Advance(r, b, s) PROVE TypeOK'
        <3> DEFINE w == [Idle EXCEPT !.phase = "advance", !.batch = b, !.to = s]
        <3>1. /\ w \in ReqType /\ w.phase # "idle" /\ w.batch # NoBatch
              /\ w.written \subseteq w.ids
            BY ConstantsAssumption DEF Idle, ReqType, Phase, InTransaction
        <3>2. req' = [req EXCEPT ![r] = w] /\ UNCHANGED rows
            BY <2>4 DEF Advance
        <3> HIDE DEF w
        <3>3. QED
            BY <3>1, <3>2, TypeStep
    <2>5. QED
        BY <1>3, <2>1, <2>2, <2>3, <2>4 DEF Call
<1>4. ASSUME NEW r \in Request, Progress(r) PROVE TypeOK'
    <2>0. ASSUME NEW p \in InTransaction, NEW W \in SUBSET req[r].ids,
                 NEW S \in SUBSET Event, req[r].phase # "idle",
                 req' = [req EXCEPT ![r] =
                            [req[r] EXCEPT !.phase = p, !.written = W, !.seen = S]],
                 UNCHANGED rows
          PROVE  TypeOK'
        <3>1. W \in SUBSET Event
            BY <1>0 DEF ReqType
        <3> DEFINE w == [req[r] EXCEPT !.phase = p, !.written = W, !.seen = S]
        <3>2. /\ w \in ReqType /\ w.phase # "idle" /\ w.batch # NoBatch
              /\ w.written \subseteq w.ids
            BY <2>0, <3>1, RecordStep
        <3>3. req' = [req EXCEPT ![r] = w] /\ UNCHANGED rows
            BY <2>0
        <3> HIDE DEF w
        <3>4. QED
            BY <3>2, <3>3, TypeStep
    <2>00. /\ req[r].written \in SUBSET req[r].ids /\ req[r].seen \in SUBSET Event
           /\ {"write", "count", "commit", "seal"} \subseteq InTransaction
        BY <1>0 DEF TypeOK, ReqType, InTransaction
    <2>1. CASE SelectCandidates(r)
        <3>1. CASE req' = [req EXCEPT ![r].phase = "write"]
            <4>1. req' = [req EXCEPT ![r] =
                             [req[r] EXCEPT !.phase = "write", !.written = req[r].written,
                                            !.seen = req[r].seen]]
                BY <3>1, <1>0 DEF ReqType
            <4>2. req[r].phase # "idle" /\ UNCHANGED rows
                BY <2>1 DEF SelectCandidates
            <4>3. QED
                BY <4>1, <4>2, <2>0, <2>00
        <3>2. QED
            BY <2>1, <3>1, <1>2 DEF SelectCandidates
    <2>2. ASSUME NEW e \in Event, AttachOne(r, e) PROVE TypeOK'
        <3>1. req' = [req EXCEPT ![r] =
                         [req[r] EXCEPT !.phase = "write",
                                        !.written = req[r].written \cup {e},
                                        !.seen = req[r].seen]]
            BY <2>2, <1>0 DEF ReqType, AttachOne
        <3>2. /\ req[r].phase # "idle" /\ UNCHANGED rows
              /\ req[r].written \cup {e} \in SUBSET req[r].ids
            BY <2>2, <2>00 DEF AttachOne
        <3>3. QED
            BY <3>1, <3>2, <2>0, <2>00
    <2>3. CASE AttachedAll(r)
        <3>1. req' = [req EXCEPT ![r] =
                         [req[r] EXCEPT !.phase = "count", !.written = req[r].written,
                                        !.seen = req[r].seen]]
            BY <2>3, <1>0 DEF ReqType, AttachedAll
        <3>2. req[r].phase # "idle" /\ UNCHANGED rows
            BY <2>3 DEF AttachedAll
        <3>3. QED
            BY <3>1, <3>2, <2>0, <2>00
    <2>4. CASE Detach(r)
        <3>1. ASSUME NEW e \in req[r].ids,
                     req' = [req EXCEPT ![r].phase = "count", ![r].written = {e}]
              PROVE  TypeOK'
            <4>1. req' = [req EXCEPT ![r] =
                             [req[r] EXCEPT !.phase = "count", !.written = {e},
                                            !.seen = req[r].seen]]
                BY <3>1, <1>0 DEF ReqType
            <4>2. req[r].phase # "idle" /\ UNCHANGED rows /\ {e} \in SUBSET req[r].ids
                BY <2>4 DEF Detach
            <4>3. QED
                BY <4>1, <4>2, <2>0, <2>00
        <3>2. QED
            BY <2>4, <3>1, <1>2 DEF Detach
    <2>5. CASE RecomputeTotals(r)
        <3>1. MembersSeenBy(r) \in SUBSET Event
            BY DEF MembersSeenBy
        <3>2. req' = [req EXCEPT ![r] =
                         [req[r] EXCEPT !.phase = "commit", !.written = req[r].written,
                                        !.seen = MembersSeenBy(r)]]
            BY <2>5, <1>0 DEF ReqType, RecomputeTotals
        <3>3. req[r].phase # "idle" /\ UNCHANGED rows
            BY <2>5 DEF RecomputeTotals
        <3>4. QED
            BY <3>1, <3>2, <3>3, <2>0, <2>00
    <2>6. CASE CommitMembers(r)
        <3>1. batchOf' \in [Event -> Batch \cup {NoBatch}]
            BY <2>6, <1>0 DEF CommitMembers, TypeOK, ReqType
        <3>2. counted' \in [Batch -> SUBSET Event] /\ UNCHANGED <<status, root>>
            BY <2>6, <1>0 DEF CommitMembers, TypeOK, ReqType
        <3>3. Finish(r)
            BY <2>6 DEF CommitMembers
        <3>4. QED
            BY <3>1, <3>2, <3>3, IdleType DEF Finish, Idle, TypeOK, ReqType
    <2>7. CASE ReadMembers(r)
        <3>1. CASE req' = [req EXCEPT ![r].phase = "seal", ![r].seen = Members(req[r].batch)]
            <4>1. Members(req[r].batch) \in SUBSET Event
                BY DEF Members
            <4>2. req' = [req EXCEPT ![r] =
                             [req[r] EXCEPT !.phase = "seal", !.written = req[r].written,
                                            !.seen = Members(req[r].batch)]]
                BY <3>1, <1>0 DEF ReqType
            <4>3. req[r].phase # "idle" /\ UNCHANGED rows
                BY <2>7 DEF ReadMembers
            <4>4. QED
                BY <4>1, <4>2, <4>3, <2>0, <2>00
        <3>2. QED
            BY <2>7, <3>1, <1>2 DEF ReadMembers
    <2>8. CASE CommitSeal(r)
        <3>1. /\ status' \in [Batch -> Status] /\ UNCHANGED batchOf
              /\ root' \in [Batch -> SUBSET Event] /\ counted' \in [Batch -> SUBSET Event]
            BY <2>8, <1>0 DEF CommitSeal, TypeOK, ReqType, Status
        <3>2. Finish(r)
            BY <2>8 DEF CommitSeal
        <3>3. QED
            BY <3>1, <3>2, IdleType DEF Finish, Idle, TypeOK, ReqType
    <2>9. CASE WriteStatus(r)
        <3>1. status' \in [Batch -> Status] /\ UNCHANGED <<root, counted, batchOf>>
            BY <2>9, <1>0 DEF WriteStatus, TypeOK, ReqType
        <3>2. Finish(r)
            BY <2>9 DEF WriteStatus
        <3>3. QED
            BY <3>1, <3>2, IdleType DEF Finish, Idle, TypeOK, ReqType
    <2>10. CASE DeadlockVictim(r)
        BY <2>10, <1>2 DEF DeadlockVictim, Abort
    <2>11. QED
        BY <1>4, <2>1, <2>2, <2>3, <2>4, <2>5, <2>6, <2>7, <2>8, <2>9, <2>10
           DEF Progress
<1>5. ASSUME NEW r \in Request, Abort(r) PROVE TypeOK'
    BY <1>5, <1>2 DEF Abort
<1>6. CASE UNCHANGED vars
    BY <1>6 DEF vars, rows, TypeOK
<1>7. QED
    BY <1>1, <1>3, <1>4, <1>5, <1>6 DEF Next

-----------------------------------------------------------------------------
(* The rest of the invariant, action by action.                            *)

LEMMA IInvInit == Init => IInv
<1> SUFFICES ASSUME Init PROVE IInv
    OBVIOUS
<1>1. TypeOK
    BY TypeInit
<1>2. \A b \in Batch : Members(b) = {} /\ root[b] = {}
    BY ConstantsAssumption DEF Init, Members, NoRoot
<1>3. RootIffSealed /\ MembersWithinRoot /\ OnlyEligible /\ SealedTotals
    BY <1>2 DEF Init, RootIffSealed, MembersWithinRoot, OnlyEligible, SealedTotals, NoRoot
<1>4. LockedOnceAndOpen /\ EventLockedOnce /\ MovesAreSound /\ SealReadCovers
      /\ AdvanceIsForward
    BY DEF Init, Idle, HoldsBatch, InTransaction, LockedOnceAndOpen, EventLockedOnce,
           MovesAreSound, SealReadCovers, AdvanceIsForward
<1>5. QED
    BY <1>1, <1>3, <1>4 DEF IInv

\* The conjuncts about the rows alone.
LEMMA RowsKept ==
    ASSUME IInv, UNCHANGED rows
    PROVE  (RootIffSealed /\ MembersWithinRoot /\ OnlyEligible /\ SealedTotals)'
BY DEF IInv, rows, RootIffSealed, MembersWithinRoot, OnlyEligible, SealedTotals,
       Members, Eligible

\* A request that gives up disturbs nothing.
LEMMA FinishKeeps ==
    ASSUME IInv, [Next]_vars, NEW r \in Request, Finish(r), UNCHANGED rows
    PROVE  IInv'
<1>1. TypeOK'
    BY TypeNext DEF IInv
<1>2. (RootIffSealed /\ MembersWithinRoot /\ OnlyEligible /\ SealedTotals)'
    BY RowsKept
<1>3. \A q \in Request : req'[q] = IF q = r THEN Idle ELSE req[q]
    BY DEF Finish, IInv, TypeOK
<1>4. (LockedOnceAndOpen /\ EventLockedOnce)'
    BY <1>3 DEF LockedOnceAndOpen, EventLockedOnce, HoldsBatch, IInv, rows, Idle,
               InTransaction
<1>5. MovesAreSound'
    BY <1>3 DEF MovesAreSound, Eligible, IInv, rows, Idle
<1>6. (SealReadCovers /\ AdvanceIsForward)'
    BY <1>3 DEF SealReadCovers, AdvanceIsForward, Eligible, Members, IInv, rows, Idle
<1>7. QED
    BY <1>1, <1>2, <1>4, <1>5, <1>6 DEF IInv

LEMMA CreateKeeps ==
    ASSUME IInv, [Next]_vars, NEW b \in Batch, Create(b)
    PROVE  IInv'
<1> USE DEF Create, IInv
<1>1. TypeOK'
    BY TypeNext
<1>2. (LockedOnceAndOpen /\ EventLockedOnce)'
    BY DEF LockedOnceAndOpen, EventLockedOnce, HoldsBatch, TypeOK
<1>3. (RootIffSealed /\ MembersWithinRoot /\ OnlyEligible /\ SealedTotals)'
    BY DEF RootIffSealed, MembersWithinRoot, OnlyEligible, SealedTotals, Members,
           Eligible, TypeOK
<1>4. (MovesAreSound /\ SealReadCovers /\ AdvanceIsForward)'
    BY DEF MovesAreSound, SealReadCovers, AdvanceIsForward, Members, Eligible, TypeOK
<1>5. QED
    BY <1>1, <1>2, <1>3, <1>4

LEMMA StartKeeps ==
    ASSUME IInv, [Next]_vars, NEW r \in Request, NEW b \in Batch,
           NEW phase, NEW es, NEW dest, Start(r, b, phase, es, dest),
           \/ phase = "select" /\ dest = b
           \/ phase \in {"detach", "read"} /\ dest = NoBatch
    PROVE  IInv'
<1>1. TypeOK'
    BY TypeNext DEF IInv
<1>2. (RootIffSealed /\ MembersWithinRoot /\ OnlyEligible /\ SealedTotals)'
    BY RowsKept DEF Start
<1>3. \A q \in Request : q # r => req'[q] = req[q]
    BY DEF Start, IInv, TypeOK
<1>4. /\ req'[r].phase = phase /\ req'[r].batch = b /\ req'[r].dest = dest
      /\ req'[r].written = {}
    BY DEF Start, IInv, TypeOK, Idle
<1>5. LockedOnceAndOpen'
    BY <1>3, <1>4 DEF Start, LockedOnceAndOpen, HoldsBatch, BatchFree, IInv, rows
<1>6. EventLockedOnce'
    BY <1>3, <1>4 DEF EventLockedOnce, IInv
<1>7. MovesAreSound'
    BY <1>3, <1>4 DEF MovesAreSound, Start, Eligible, IInv, rows
<1>8. (SealReadCovers /\ AdvanceIsForward)'
    BY <1>3, <1>4 DEF Start, SealReadCovers, AdvanceIsForward, Eligible, Members, IInv, rows
<1>9. QED
    BY <1>1, <1>2, <1>5, <1>6, <1>7, <1>8 DEF IInv

\* A transaction that goes on to its next statement, without committing,
\* disturbs only what is said of its own phase.
LEMMA StatementKeeps ==
    ASSUME IInv, [Next]_vars, UNCHANGED rows, NEW r \in Request,
           \A q \in Request : q # r => req'[q] = req[q],
           req[r].phase \in InTransaction, req'[r].phase \in InTransaction,
           req'[r].batch = req[r].batch,
           \A e \in req'[r].written : e \in req[r].written \/ EventFree(e),
           MovesAreSound', SealReadCovers'
    PROVE  IInv'
<1>1. TypeOK'
    BY TypeNext DEF IInv
<1>2. (RootIffSealed /\ MembersWithinRoot /\ OnlyEligible /\ SealedTotals)'
    BY RowsKept
<1>3. LockedOnceAndOpen'
    BY DEF IInv, LockedOnceAndOpen, HoldsBatch, rows
<1>4. EventLockedOnce'
    BY DEF IInv, EventLockedOnce, EventFree
<1>5. AdvanceIsForward'
    BY DEF IInv, AdvanceIsForward, rows, InTransaction
<1>6. QED
    BY <1>1, <1>2, <1>3, <1>4, <1>5 DEF IInv

LEMMA AddEventsKeeps ==
    ASSUME IInv, [Next]_vars, NEW r \in Request,
           \/ SelectCandidates(r)
           \/ \E e \in Event : AttachOne(r, e)
           \/ AttachedAll(r)
    PROVE  IInv'
<1> USE DEF IInv, TypeOK, InTransaction
<1>1. CASE SelectCandidates(r)
    <2>1. CASE Candidates(r) = req[r].ids /\ req' = [req EXCEPT ![r].phase = "write"]
        <3>1. UNCHANGED rows /\ req[r].phase = "select"
            BY <1>1 DEF SelectCandidates
        <3>2. req[r].ids \subseteq Eligible(req[r].batch)
            BY <2>1 DEF Candidates
        <3>3. MovesAreSound'
            BY <2>1, <3>1, <3>2 DEF MovesAreSound, Eligible, rows
        <3>4. SealReadCovers'
            BY <2>1, <3>1 DEF SealReadCovers, Eligible, Members, rows
        <3>5. /\ \A q \in Request : q # r => req'[q] = req[q]
              /\ req'[r].phase = "write" /\ req'[r].batch = req[r].batch
              /\ req'[r].written = req[r].written
            BY <2>1
        <3>6. req[r].phase \in InTransaction /\ req'[r].phase \in InTransaction
            BY <3>1, <3>5
        <3> HIDE DEF IInv, TypeOK, InTransaction
        <3>7. QED
            BY <3>1, <3>3, <3>4, <3>5, <3>6, StatementKeeps
    <2>2. QED
        BY <1>1, <2>1, FinishKeeps DEF SelectCandidates
<1>2. ASSUME NEW e \in Event, AttachOne(r, e) PROVE IInv'
    <2>1. MovesAreSound'
        BY <1>2 DEF AttachOne, MovesAreSound, Eligible, rows
    <2>2. SealReadCovers'
        BY <1>2 DEF AttachOne, SealReadCovers, Eligible, Members, rows
    <2>3. /\ UNCHANGED rows /\ req[r].phase = "write" /\ EventFree(e)
          /\ \A q \in Request : q # r => req'[q] = req[q]
          /\ req'[r].phase = "write" /\ req'[r].batch = req[r].batch
          /\ req'[r].written = req[r].written \cup {e}
        BY <1>2 DEF AttachOne
    <2>4. /\ req[r].phase \in InTransaction /\ req'[r].phase \in InTransaction
          /\ \A x \in req'[r].written : x \in req[r].written \/ EventFree(x)
        BY <2>3
    <2> HIDE DEF IInv, TypeOK, InTransaction
    <2>5. QED
        BY <2>1, <2>2, <2>3, <2>4, StatementKeeps
<1>3. CASE AttachedAll(r)
    <2>1. MovesAreSound'
        BY <1>3 DEF AttachedAll, MovesAreSound, Eligible, rows
    <2>2. SealReadCovers'
        BY <1>3 DEF AttachedAll, SealReadCovers, Eligible, Members, rows
    <2>3. /\ UNCHANGED rows /\ req[r].phase = "write"
          /\ \A q \in Request : q # r => req'[q] = req[q]
          /\ req'[r].phase = "count" /\ req'[r].batch = req[r].batch
          /\ req'[r].written = req[r].written
        BY <1>3 DEF AttachedAll
    <2>4. req[r].phase \in InTransaction /\ req'[r].phase \in InTransaction
        BY <2>3
    <2> HIDE DEF IInv, TypeOK, InTransaction
    <2>5. QED
        BY <2>1, <2>2, <2>3, <2>4, StatementKeeps
<1>4. QED
    BY <1>1, <1>2, <1>3

LEMMA DetachKeeps ==
    ASSUME IInv, [Next]_vars, NEW r \in Request, Detach(r)
    PROVE  IInv'
<1> USE DEF IInv, TypeOK, InTransaction
<1>1. ASSUME NEW e \in req[r].ids, batchOf[e] = req[r].batch, EventFree(e),
             req' = [req EXCEPT ![r].phase = "count", ![r].written = {e}]
      PROVE  IInv'
    <2>1. UNCHANGED rows /\ req[r].phase = "detach"
        BY DEF Detach
    <2>2. /\ \A q \in Request : q # r => req'[q] = req[q]
          /\ req'[r].phase = "count" /\ req'[r].written = {e}
          /\ req'[r].batch = req[r].batch /\ req'[r].dest = req[r].dest
        BY <1>1
    <2>3. MovesAreSound'
        BY <1>1, <2>1, <2>2 DEF MovesAreSound, Eligible, rows
    <2>4. SealReadCovers'
        BY <2>1, <2>2 DEF SealReadCovers, Eligible, Members, rows
    <2>5. /\ req[r].phase \in InTransaction /\ req'[r].phase \in InTransaction
          /\ \A x \in req'[r].written : x \in req[r].written \/ EventFree(x)
        BY <1>1, <2>1, <2>2
    <2> HIDE DEF IInv, TypeOK, InTransaction
    <2>6. QED
        BY <2>1, <2>2, <2>3, <2>4, <2>5, StatementKeeps
<1>2. QED
    BY <1>1, FinishKeeps DEF Detach

LEMMA RecomputeTotalsKeeps ==
    ASSUME IInv, [Next]_vars, NEW r \in Request, RecomputeTotals(r)
    PROVE  IInv'
<1> USE DEF IInv, TypeOK, InTransaction
<1>1. UNCHANGED rows /\ req[r].phase = "count"
    BY DEF RecomputeTotals
<1>2. /\ \A q \in Request : q # r => req'[q] = req[q]
      /\ req'[r].phase = "commit" /\ req'[r].written = req[r].written
      /\ req'[r].batch = req[r].batch /\ req'[r].dest = req[r].dest
      /\ req'[r].ids = req[r].ids
    BY DEF RecomputeTotals
<1>3. MovesAreSound'
    BY <1>1, <1>2 DEF MovesAreSound, Eligible, rows
<1>4. SealReadCovers'
    BY <1>1, <1>2 DEF SealReadCovers, Eligible, Members, rows
<1>5. QED
    BY <1>1, <1>2, <1>3, <1>4, StatementKeeps

LEMMA ReadMembersKeeps ==
    ASSUME IInv, [Next]_vars, NEW r \in Request, ReadMembers(r)
    PROVE  IInv'
<1> USE DEF IInv, TypeOK, InTransaction
<1> DEFINE events == Members(req[r].batch)
<1>1. UNCHANGED rows /\ req[r].phase = "read" /\ req[r].batch \in Batch
    BY DEF ReadMembers
<1>2. CASE events # {} /\ req' = [req EXCEPT ![r].phase = "seal", ![r].seen = events]
    <2>1. /\ \A q \in Request : q # r => req'[q] = req[q]
          /\ req'[r].phase = "seal" /\ req'[r].written = req[r].written
          /\ req'[r].batch = req[r].batch /\ req'[r].dest = req[r].dest
          /\ req'[r].seen = events
        BY <1>2
    <2>2. MovesAreSound'
        BY <1>1, <2>1 DEF MovesAreSound, Eligible, rows
    <2>3. SealReadCovers'
        BY <1>1, <1>2, <2>1 DEF SealReadCovers, OnlyEligible, Eligible, Members, rows
    <2>4. QED
        BY <1>1, <2>1, <2>2, <2>3, StatementKeeps
<1>3. QED
    BY <1>1, <1>2, FinishKeeps DEF ReadMembers

\* The commit of addEvents or removeEvent: only an open batch gains members,
\* and no other transaction loses sight of an event it holds.
LEMMA CommitMembersKeeps ==
    ASSUME IInv, [Next]_vars, NEW r \in Request, CommitMembers(r)
    PROVE  IInv'
<1> USE DEF IInv
<1> DEFINE b == req[r].batch
<1>1. TypeOK'
    BY TypeNext
<1>2. /\ req[r].phase = "commit" /\ b \in Batch /\ status[b] = "open" /\ root[b] = NoRoot
      /\ UNCHANGED <<status, root>>
      /\ \A c \in Batch : c # b => counted'[c] = counted[c]
    BY DEF CommitMembers, TypeOK, LockedOnceAndOpen, HoldsBatch, InTransaction,
           RootIffSealed
<1>3. \A q \in Request : req'[q] = IF q = r THEN Idle ELSE req[q]
    BY DEF CommitMembers, Finish, TypeOK
<1>4. \A e \in Event : e \notin req[r].written => batchOf'[e] = batchOf[e]
    BY DEF CommitMembers
<1>5. \A e \in req[r].written :
          /\ e \in Event
          /\ \/ batchOf'[e] = NoBatch
             \/ batchOf'[e] = b /\ e \in Eligible(b)
    BY <1>2 DEF CommitMembers, MovesAreSound, TypeOK
<1>6. \A c \in Batch, e \in Event :
          batchOf'[e] = c => batchOf[e] = c \/ (c = b /\ e \in Eligible(b))
    BY <1>4, <1>5, ConstantsAssumption
<1>7. (LockedOnceAndOpen /\ EventLockedOnce /\ AdvanceIsForward)'
    BY <1>2, <1>3 DEF LockedOnceAndOpen, EventLockedOnce, AdvanceIsForward, HoldsBatch,
                      Idle, InTransaction
<1>8. MovesAreSound'
    BY <1>3, <1>4 DEF MovesAreSound, EventLockedOnce, Eligible, Idle, TypeOK
<1>9. SealReadCovers'
    <2>1. \A q \in Request : q # r /\ req[q].phase = "seal" =>
              req[q].batch \in Batch /\ req[q].batch # b
        BY <1>2 DEF LockedOnceAndOpen, HoldsBatch, InTransaction, TypeOK
    <2>2. QED
        BY <1>3, <1>6, <2>1 DEF SealReadCovers, Members, Eligible, Idle
<1>10. (RootIffSealed /\ MembersWithinRoot /\ OnlyEligible /\ SealedTotals)'
    BY <1>2, <1>6 DEF RootIffSealed, MembersWithinRoot, OnlyEligible, SealedTotals,
                      Members, Eligible
<1>11. QED
    BY <1>1, <1>7, <1>8, <1>9, <1>10

LEMMA CommitSealKeeps ==
    ASSUME IInv, [Next]_vars, NEW r \in Request, CommitSeal(r)
    PROVE  IInv'
<1> USE DEF IInv
<1> DEFINE b == req[r].batch
<1>1. TypeOK'
    BY TypeNext
<1>2. /\ req[r].phase = "seal" /\ b \in Batch /\ status[b] = "open"
      /\ UNCHANGED batchOf
      /\ status'[b] = "sealed" /\ root'[b] = req[r].seen /\ counted'[b] = req[r].seen
      /\ \A c \in Batch : c # b => /\ status'[c] = status[c] /\ root'[c] = root[c]
                                  /\ counted'[c] = counted[c]
    BY DEF CommitSeal, TypeOK, LockedOnceAndOpen, HoldsBatch, InTransaction
<1>3. \A q \in Request : req'[q] = IF q = r THEN Idle ELSE req[q]
    BY DEF CommitSeal, Finish, TypeOK
<1>4. \A q \in Request : q # r /\ req[q].phase \in InTransaction => req[q].batch # b
    BY <1>2 DEF LockedOnceAndOpen, HoldsBatch, InTransaction, TypeOK
<1>5. (LockedOnceAndOpen /\ EventLockedOnce)'
    BY <1>2, <1>3, <1>4 DEF LockedOnceAndOpen, EventLockedOnce, HoldsBatch, Idle,
                            InTransaction
<1>6. AdvanceIsForward'
    BY <1>2, <1>3 DEF AdvanceIsForward, Idle, TypeOK
<1>7. (MovesAreSound /\ SealReadCovers)'
    BY <1>2, <1>3 DEF MovesAreSound, SealReadCovers, Members, Eligible, Idle
<1>8. (RootIffSealed /\ MembersWithinRoot /\ OnlyEligible /\ SealedTotals)'
    BY <1>2 DEF RootIffSealed, MembersWithinRoot, OnlyEligible, SealedTotals,
                SealReadCovers, Members, Eligible, NoRoot
<1>9. QED
    BY <1>1, <1>5, <1>6, <1>7, <1>8

LEMMA AdvanceKeeps ==
    ASSUME IInv, [Next]_vars, NEW r \in Request, NEW b \in Batch, NEW s \in Status,
           Advance(r, b, s)
    PROVE  IInv'
<1>1. TypeOK'
    BY TypeNext DEF IInv
<1>2. (RootIffSealed /\ MembersWithinRoot /\ OnlyEligible /\ SealedTotals)'
    BY RowsKept DEF Advance
<1>3. /\ \A q \in Request : q # r => req'[q] = req[q]
      /\ req'[r].phase = "advance" /\ req'[r].batch = b /\ req'[r].to = s
      /\ req'[r].written = {}
    BY DEF Advance, IInv, TypeOK, Idle
<1>4. (LockedOnceAndOpen /\ EventLockedOnce)'
    BY <1>3 DEF Advance, LockedOnceAndOpen, EventLockedOnce, HoldsBatch, IInv, rows,
                InTransaction
<1>5. (MovesAreSound /\ SealReadCovers)'
    BY <1>3 DEF Advance, MovesAreSound, SealReadCovers, Members, Eligible, IInv, rows
<1>6. \/ s = "processed" /\ status[b] = "sealed"
      \/ s = "sold" /\ status[b] = "processed"
    BY DEF Advance, LEGAL_TRANSITIONS, IInv, TypeOK, Status
<1>7. AdvanceIsForward'
    BY <1>3, <1>6 DEF Advance, AdvanceIsForward, IInv, rows
<1>8. QED
    BY <1>1, <1>2, <1>4, <1>5, <1>7 DEF IInv

LEMMA WriteStatusKeeps ==
    ASSUME IInv, [Next]_vars, NEW r \in Request, WriteStatus(r)
    PROVE  IInv'
<1> USE DEF IInv
<1> DEFINE b == req[r].batch
<1>1. TypeOK'
    BY TypeNext
<1>2. /\ b \in Batch /\ UNCHANGED <<root, counted, batchOf>>
      /\ status[b] \in {"sealed", "processed", "sold"}
      /\ status'[b] = req[r].to /\ req[r].to \in {"processed", "sold"}
      /\ \A c \in Batch : c # b => status'[c] = status[c]
    BY DEF WriteStatus, AdvanceIsForward, TypeOK
<1>3. \A q \in Request : req'[q] = IF q = r THEN Idle ELSE req[q]
    BY DEF WriteStatus, Finish, TypeOK
<1>4. (LockedOnceAndOpen /\ EventLockedOnce)'
    BY <1>2, <1>3 DEF WriteStatus, BatchFree, LockedOnceAndOpen, EventLockedOnce,
                      HoldsBatch, Idle, InTransaction
<1>5. (MovesAreSound /\ SealReadCovers)'
    BY <1>2, <1>3 DEF MovesAreSound, SealReadCovers, Members, Eligible, Idle
<1>6. (RootIffSealed /\ MembersWithinRoot /\ OnlyEligible /\ SealedTotals)'
    BY <1>2 DEF RootIffSealed, MembersWithinRoot, OnlyEligible, SealedTotals, Members,
                Eligible
<1>7. AdvanceIsForward'
    BY <1>2, <1>3 DEF AdvanceIsForward, Idle, TypeOK
<1>8. QED
    BY <1>1, <1>4, <1>5, <1>6, <1>7

-----------------------------------------------------------------------------
LEMMA IInvNext == IInv /\ [Next]_vars => IInv'
<1> SUFFICES ASSUME IInv, [Next]_vars PROVE IInv'
    OBVIOUS
<1>1. ASSUME NEW b \in Batch, Create(b) PROVE IInv'
    BY <1>1, CreateKeeps
<1>2. ASSUME NEW r \in Request, NEW b \in Batch, Call(r, b) PROVE IInv'
    <2>1. CASE AddEvents(r, b)
        BY <2>1, StartKeeps DEF AddEvents
    <2>2. CASE RemoveEvent(r, b)
        BY <2>2, StartKeeps DEF RemoveEvent
    <2>3. CASE Seal(r, b)
        BY <2>3, StartKeeps DEF Seal
    <2>4. QED
        BY <1>2, <2>1, <2>2, <2>3, AdvanceKeeps DEF Call
<1>3. ASSUME NEW r \in Request, Abort(r) PROVE IInv'
    BY <1>3, FinishKeeps DEF Abort
<1>4. ASSUME NEW r \in Request, Progress(r) PROVE IInv'
    BY <1>3, <1>4, AddEventsKeeps, DetachKeeps, RecomputeTotalsKeeps, CommitMembersKeeps,
       ReadMembersKeeps, CommitSealKeeps, WriteStatusKeeps DEF Progress, DeadlockVictim
<1>5. CASE UNCHANGED vars
    BY <1>5 DEF IInv, vars, rows, TypeOK, LockedOnceAndOpen, HoldsBatch, RootIffSealed,
       EventLockedOnce, MovesAreSound, SealReadCovers, AdvanceIsForward, Members,
       Eligible, MembersWithinRoot, OnlyEligible, SealedTotals
<1>6. QED
    BY <1>1, <1>2, <1>3, <1>4, <1>5 DEF Next

THEOREM Invariance == Spec => []IInv
BY IInvInit, IInvNext, PTL DEF Spec

\* Type correctness, for any number of batches, events and requests.
THEOREM TypeCorrect == Spec => []TypeOK
BY Invariance, PTL DEF IInv

\* Sealing is a barrier: addEvents does not add to a sealed batch, so what is in
\* it is under its root.
THEOREM SealingIsABarrier == Spec => []MembersWithinRoot
BY Invariance, PTL DEF IInv

\* Nor do addEvents and removeEvent touch the totals a batch was sealed with.
THEOREM TotalsAreSealed == Spec => []SealedTotals
BY Invariance, PTL DEF IInv

\* Nothing quarantined, of another hub or of another material is ever a member
\* of a batch or hashed into its root (addEvents, seal).
THEOREM NothingIneligible == Spec => []OnlyEligible
BY Invariance, PTL DEF IInv

-----------------------------------------------------------------------------
(* What a step may never do.                                               *)

\* The only steps that write a committed row.
LEMMA RowWriters ==
    ASSUME [Next]_vars
    PROVE  \/ \E b \in Batch : Create(b)
           \/ \E r \in Request : CommitMembers(r) \/ CommitSeal(r) \/ WriteStatus(r)
           \/ UNCHANGED rows
<1>1. ASSUME NEW r \in Request, NEW b \in Batch, Call(r, b) PROVE UNCHANGED rows
    BY <1>1 DEF Call, AddEvents, RemoveEvent, Seal, Start, Advance
<1>2. ASSUME NEW r \in Request, Progress(r)
      PROVE  CommitMembers(r) \/ CommitSeal(r) \/ WriteStatus(r) \/ UNCHANGED rows
    BY <1>2 DEF Progress, SelectCandidates, AttachOne, AttachedAll, Detach, RecomputeTotals,
                ReadMembers, DeadlockVictim, Abort
<1>3. ASSUME NEW r \in Request, Abort(r) PROVE UNCHANGED rows
    BY <1>3 DEF Abort
<1>4. CASE UNCHANGED vars
    BY <1>4 DEF vars, rows
<1>5. QED
    BY <1>1, <1>2, <1>3, <1>4 DEF Next

\* seal writes a root only into a batch that has none, under its lock.
THEOREM RootsAreFrozen == Spec => RootFrozen
<1> DEFINE Kept == \A b \in Batch : root[b] # NoRoot => root'[b] = root[b]
<1>1. IInv /\ [Next]_vars => Kept
    <2> SUFFICES ASSUME IInv, [Next]_vars, NEW b \in Batch, root[b] # NoRoot
                 PROVE  root'[b] = root[b]
        OBVIOUS
    <2>1. ASSUME NEW r \in Request, CommitSeal(r) PROVE root'[b] = root[b]
        <3>1. req[r].batch # b
            BY <2>1 DEF CommitSeal, IInv, TypeOK, LockedOnceAndOpen, HoldsBatch,
                        InTransaction, RootIffSealed
        <3>2. QED
            BY <2>1, <3>1 DEF CommitSeal, IInv, TypeOK
    <2>2. CASE UNCHANGED root
        BY <2>2
    <2>3. QED
        BY <2>1, <2>2, RowWriters DEF Create, CommitMembers, WriteStatus, rows
<1>2. QED
    BY <1>1, Invariance, PTL DEF Spec, RootFrozen

\* An event leaves a batch for the pool only by the commit of a removeEvent,
\* which holds its batch locked and therefore open.
THEOREM SealedEventsStayBatched == Spec => SealedEventNotFreed
<1> DEFINE Kept == \A e \in Event :
               (\E b \in Batch : batchOf[e] = b /\ root[b] # NoRoot) => batchOf'[e] # NoBatch
<1>1. IInv /\ [Next]_vars => Kept
    <2> SUFFICES ASSUME IInv, [Next]_vars, NEW e \in Event, NEW b \in Batch,
                        batchOf[e] = b, root[b] # NoRoot
                 PROVE  batchOf'[e] # NoBatch
        OBVIOUS
    <2>1. ASSUME NEW r \in Request, CommitMembers(r) PROVE batchOf'[e] # NoBatch
        <3>1. root[req[r].batch] = NoRoot /\ req[r].batch \in Batch
            BY <2>1 DEF CommitMembers, IInv, TypeOK, LockedOnceAndOpen, HoldsBatch,
                        InTransaction, RootIffSealed
        <3>2. e \in req[r].written => req[r].dest = req[r].batch
            BY <2>1, <3>1 DEF CommitMembers, IInv, MovesAreSound
        <3>3. QED
            BY <2>1, <3>1, <3>2, ConstantsAssumption DEF CommitMembers
    <2>2. CASE UNCHANGED batchOf
        BY <2>2, ConstantsAssumption
    <2>3. QED
        BY <2>1, <2>2, RowWriters DEF Create, CommitSeal, WriteStatus, rows
<1>2. QED
    BY <1>1, Invariance, PTL DEF Spec, SealedEventNotFreed

-----------------------------------------------------------------------------
(* Refinement: the requests, however they interleave, change a batch row   *)
(* only as BatchRow says.                                                  *)

LEMMA RowStep == IInv /\ [Next]_vars => [Row!Next]_(Row!row)
<1> SUFFICES ASSUME IInv, [Next]_vars PROVE Row!Next \/ UNCHANGED <<status, root>>
    BY DEF Row!row
<1>1. ASSUME NEW b \in Batch, Create(b) PROVE Row!Next
    BY <1>1 DEF Create, Row!Next, Row!Create
<1>2. ASSUME NEW r \in Request, CommitSeal(r) PROVE Row!Next
    <2>1. /\ req[r].batch \in Batch /\ status[req[r].batch] = "open"
          /\ req[r].seen \in (SUBSET Event) \ {NoRoot}
        BY <1>2 DEF CommitSeal, LockedOnceAndOpen, HoldsBatch, InTransaction,
                    SealReadCovers, NoRoot, IInv, TypeOK
    <2>2. Row!Seal(req[r].batch, req[r].seen)
        BY <1>2, <2>1 DEF CommitSeal, Row!Seal
    <2>3. QED
        BY <2>1, <2>2 DEF Row!Next
<1>3. ASSUME NEW r \in Request, WriteStatus(r) PROVE Row!Next
    <2>1. /\ req[r].batch \in Batch /\ req[r].to \in {"processed", "sold"}
          /\ status[req[r].batch] \in Row!WrittenOver(req[r].to)
        BY <1>3 DEF WriteStatus, AdvanceIsForward, Row!WrittenOver, IInv, TypeOK
    <2>2. Row!Advance(req[r].batch, req[r].to)
        BY <1>3, <2>1 DEF WriteStatus, Row!Advance
    <2>3. QED
        BY <2>1, <2>2 DEF Row!Next
<1>4. QED
    BY <1>1, <1>2, <1>3, RowWriters DEF CommitMembers, rows

THEOREM RowRefinement == Spec => KeepsRowPromise
<1>1. Init => Row!Init
    BY DEF Init, Row!Init
<1>2. QED
    BY <1>1, RowStep, Invariance, PTL DEF Spec, KeepsRowPromise, Row!Spec
=============================================================================
