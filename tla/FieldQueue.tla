----------------------------- MODULE FieldQueue -----------------------------
(***************************************************************************)
(* The offline queue of a phone and its sync passes, over EventIntake.     *)
(*                                                                         *)
(* Two apps share the protocol and differ in their store.  The React       *)
(* Native app (apps/mobile) keeps the queue under one AsyncStorage key:    *)
(* an update reads the whole queue and then writes the whole queue.  The   *)
(* PWA (apps/capture) keeps one IndexedDB row per record.  WholeQueue      *)
(* tells which one is modelled.                                            *)
(*                                                                         *)
(* Reads and writes of the store are asynchronous, so a capture, the sync  *)
(* passes and the pruning at startup interleave between them.  Two passes  *)
(* overlap when the queue screen is left and entered again, or in two      *)
(* tabs: the in-flight guard is local to a screen, or to a tab.            *)
(***************************************************************************)
EXTENDS EventIntake

CONSTANTS
    NoRecord,
    WholeQueue,     \* TRUE for apps/mobile, FALSE for apps/capture
    MaxFaults       \* bound on lost requests, timeouts and app kills

ASSUME QueueAssumption ==
    NoRecord \notin Record /\ WholeQueue \in BOOLEAN /\ MaxFaults \in Nat

Pass == Sender

VARIABLES
    taken,      \* the weigh-ins the app has confirmed to the collector
    store,      \* the persisted queue
    entering,   \* the capture being persisted
    pass,       \* what each sync pass is doing
    booted,     \* pruneSynced has run since the app started
    doomed,     \* the records it decided to drop
    faults

app == <<taken, store, entering, pass, booted, doomed, faults>>
vars == <<intakeVars, app>>

Absent == [status |-> "absent", known |-> FALSE, sent |-> FALSE]
Queued == [Absent EXCEPT !.status = "queued"]
Empty == [r \in Record |-> Absent]

\* known: serverEventId is set; sent: photoUploadedAt is set.
Entry == [status : {"absent", "queued", "syncing", "synced", "rejected"},
          known : BOOLEAN, sent : BOOLEAN]

\* What an update changes in an entry.
Patch == {"none", "syncing", "queued", "rejected", "synced", "synced with photo", "photo sent"}

AtRest == [phase |-> "idle",
           stage |-> "weighins",    \* or "photos", the second loop
           todo  |-> {},            \* the records still to come
           had   |-> {},            \* those whose photo was sent when they were listed
           rec   |-> NoRecord,      \* the record in hand
           patch |-> "none",
           seen  |-> Empty]         \* what the update in progress has read

Init ==
    /\ IntakeInit
    /\ taken = {}
    /\ store = Empty
    /\ entering = [rec |-> NoRecord, seen |-> Empty]
    /\ pass = [p \in Pass |-> AtRest]
    /\ booted = FALSE
    /\ doomed = {}
    /\ faults = 0

Fault == faults < MaxFaults /\ faults' = faults + 1

-----------------------------------------------------------------------------
(* The store.                                                              *)

\* Faulty variants: an interrupted record stays "syncing"; photos are not retried.
MutPending == {r \in Record : store[r].status = "queued"}
MutPendingPhotos == {}

Pending == {r \in Record : store[r].status \in {"queued", "syncing"}}
PendingPhotos == {r \in Record : store[r].status = "synced" /\ store[r].known /\ ~store[r].sent}

\* What an update of r reads: all of the queue, or r's row.
Read(r) == [s \in Record |-> IF WholeQueue \/ s = r THEN store[s] ELSE Absent]

Patched(entry, patch) ==
    CASE patch = "rejected"          -> [entry EXCEPT !.status = "rejected", !.known = TRUE]
      [] patch = "synced"            -> [status |-> "synced", known |-> TRUE, sent |-> FALSE]
      [] patch = "synced with photo" -> [status |-> "synced", known |-> TRUE, sent |-> TRUE]
      [] patch = "photo sent"        -> [entry EXCEPT !.sent = TRUE]
      [] OTHER                       -> [entry EXCEPT !.status = patch]

\* What it leaves in the store; a record it did not see is not updated.
Written(seen, r, patch) ==
    LET base == IF WholeQueue THEN seen ELSE store
    IN  IF seen[r] = Absent THEN base ELSE [base EXCEPT ![r] = Patched(seen[r], patch)]

\* Faulty variant: a record is dropped with its photo still to be sent.
MutPruneSynced ==
    /\ ~booted
    /\ booted' = TRUE
    /\ \E old \in SUBSET Record :
           doomed' = {r \in old : store[r].status = "synced"}
    /\ UNCHANGED <<intakeVars, taken, store, entering, pass, faults>>

\* pruneSynced, at startup: synced records past the retention window whose
\* photo, if any, has been handed over.  The mobile app waits for it.
PruneSynced ==
    /\ ~booted
    /\ booted' = TRUE
    /\ \E old \in SUBSET Record :
           doomed' = {r \in old : store[r].status = "synced" /\ store[r].sent}
    /\ UNCHANGED <<intakeVars, taken, store, entering, pass, faults>>

Drop(r) ==
    /\ r \in doomed
    /\ doomed' = doomed \ {r}
    /\ store' = [store EXCEPT ![r] = Absent]
    /\ UNCHANGED <<intakeVars, taken, entering, pass, booted, faults>>

\* The screens are there: at once in the PWA, after pruning in the mobile app.
Ready == WholeQueue => booted /\ doomed = {}

-----------------------------------------------------------------------------
(* Capture: enqueue, and then the collector is told it is recorded.        *)

Capture(r) ==
    /\ Ready
    /\ entering.rec = NoRecord /\ r \notin taken
    /\ entering' = [rec |-> r, seen |-> IF WholeQueue THEN store ELSE Empty]
    /\ UNCHANGED <<intakeVars, taken, store, pass, booted, doomed, faults>>

Enqueue ==
    /\ entering.rec # NoRecord
    /\ store' = [(IF WholeQueue THEN entering.seen ELSE store) EXCEPT ![entering.rec] = Queued]
    /\ taken' = taken \cup {entering.rec}
    /\ entering' = [rec |-> NoRecord, seen |-> Empty]
    /\ UNCHANGED <<intakeVars, pass, booted, doomed, faults>>

-----------------------------------------------------------------------------
(* A sync pass: syncPending.                                               *)

Set(p, state) == pass' = [pass EXCEPT ![p] = state]

StartPass(p) ==
    /\ Ready
    /\ pass[p].phase = "idle" /\ Pending \cup PendingPhotos # {}
    /\ Set(p, [AtRest EXCEPT !.phase = "next", !.todo = Pending,
                             !.had = {r \in Pending : store[r].sent}])
    /\ UNCHANGED <<intakeVars, taken, store, entering, booted, doomed, faults>>

\* The next record; then the photos of records synced earlier; then done.
NextRecord(p) ==
    /\ pass[p].phase = "next"
    /\ IF pass[p].todo # {}
       THEN \E r \in pass[p].todo :
                Set(p, [pass[p] EXCEPT
                            !.todo = @ \ {r}, !.rec = r,
                            !.phase = IF pass[p].stage = "photos" THEN "photo" ELSE "read",
                            !.patch = IF pass[p].stage = "photos" THEN "none" ELSE "syncing"])
       ELSE IF pass[p].stage = "weighins"
       THEN Set(p, [AtRest EXCEPT !.phase = "next", !.stage = "photos", !.todo = PendingPhotos])
       ELSE Set(p, AtRest)
    /\ UNCHANGED <<intakeVars, taken, store, entering, booted, doomed, faults>>

\* update: a read of the store, and a write of what was read, patched.
UpdateRead(p) ==
    /\ pass[p].phase = "read"
    /\ Set(p, [pass[p] EXCEPT !.phase = "write", !.seen = Read(pass[p].rec)])
    /\ UNCHANGED <<intakeVars, taken, store, entering, booted, doomed, faults>>

Continue(p) ==
    Set(p, [pass[p] EXCEPT !.phase = "next", !.rec = NoRecord, !.patch = "none", !.seen = Empty])

UpdateWrite(p) ==
    /\ pass[p].phase = "write"
    /\ store' = Written(pass[p].seen, pass[p].rec, pass[p].patch)
    /\ IF pass[p].patch = "syncing"
       THEN Set(p, [pass[p] EXCEPT !.phase = "post", !.patch = "none", !.seen = Empty])
       ELSE Continue(p)
    /\ UNCHANGED <<intakeVars, taken, entering, booted, doomed, faults>>

Update(p, patch) ==
    Set(p, [pass[p] EXCEPT !.phase = "read", !.patch = patch])

Post(p) ==
    /\ pass[p].phase = "post"
    /\ requests' = requests \cup {WeighInRequest(p, pass[p].rec)}
    /\ Set(p, [pass[p] EXCEPT !.phase = "posted"])
    /\ UNCHANGED <<database, file, taken, store, entering, booted, doomed, faults>>

\* Faulty variant: a failed photo leaves its record in hand.
MutPhotoDone(p, ok) ==
    IF pass[p].stage = "weighins" THEN Update(p, IF ok THEN "synced with photo" ELSE "synced")
    ELSE IF ok THEN Update(p, "photo sent")
    ELSE Set(p, [pass[p] EXCEPT !.phase = "next"])

\* tryPhoto is through: it never fails the pass.
PhotoDone(p, ok) ==
    IF pass[p].stage = "weighins" THEN Update(p, IF ok THEN "synced with photo" ELSE "synced")
    ELSE IF ok THEN Update(p, "photo sent")
    ELSE Continue(p)

\* The PWA does not send again a photo its snapshot says is uploaded.
SendPhoto(p) ==
    /\ pass[p].phase = "photo"
    /\ IF ~WholeQueue /\ pass[p].rec \in pass[p].had
       THEN PhotoDone(p, TRUE) /\ UNCHANGED requests
       ELSE /\ requests' = requests \cup {PhotoRequest(p, pass[p].rec)}
            /\ Set(p, [pass[p] EXCEPT !.phase = "sending"])
    /\ UNCHANGED <<database, file, taken, store, entering, booted, doomed, faults>>

\* Faulty variant: the photo is taken to be on the server with the weigh-in.
MutAnswered(p, q) ==
    /\ q.by = p /\ q.step = "done"
    /\ requests' = requests \ {q}
    /\ Update(p, IF q.answer = "rejected" THEN "rejected" ELSE "synced with photo")
    /\ UNCHANGED <<database, file, taken, store, entering, booted, doomed, faults>>

\* The answer arrives.  Quarantined and not a duplicate is a rejection; a refusal
\* (400, 413) is an error like any other, so the weigh-in is queued again and the
\* photo left for a later pass; any other answer settles the weigh-in, and its
\* photo comes next.
Answered(p, q) ==
    /\ q.by = p /\ q.step = "done"
    /\ requests' = requests \ {q}
    /\ CASE q.answer = "rejected" -> Update(p, "rejected")
         [] q.answer = "stored"   -> PhotoDone(p, TRUE)
         [] q.answer = "refused"  -> IF pass[p].phase = "posted" THEN Update(p, "queued")
                                     ELSE PhotoDone(p, FALSE)
         [] OTHER                 -> Set(p, [pass[p] EXCEPT !.phase = "photo"])
    /\ UNCHANGED <<database, file, taken, store, entering, booted, doomed, faults>>

\* Nobody waits for these requests any more; the backend may serve them yet.
Abandoned(ps) ==
    {IF q.by \in ps THEN [q EXCEPT !.by = Nobody] ELSE q : q \in requests}

\* No answer in time, or an error: the weigh-in is queued again, the photo is
\* left for a later pass.
NoAnswer(p) ==
    /\ IF \E q \in requests : q.by = p THEN Fault ELSE UNCHANGED faults
    /\ \/ pass[p].phase = "posted" /\ Update(p, "queued")
       \/ pass[p].phase = "sending" /\ PhotoDone(p, FALSE)
    /\ requests' = Abandoned({p})
    /\ UNCHANGED <<database, file, taken, store, entering, booted, doomed>>

\* The app is killed, and started again: only the store survives.
Kill ==
    /\ Fault
    /\ entering' = [rec |-> NoRecord, seen |-> Empty]
    /\ pass' = [p \in Pass |-> AtRest]
    /\ booted' = FALSE
    /\ doomed' = {}
    /\ requests' = Abandoned(Pass)
    /\ UNCHANGED <<database, file, taken, store>>

-----------------------------------------------------------------------------
Step(p) ==
    \/ StartPass(p)
    \/ NextRecord(p)
    \/ UpdateRead(p)
    \/ UpdateWrite(p)
    \/ Post(p)
    \/ SendPhoto(p)
    \/ \E q \in requests : Answered(p, q)
    \/ NoAnswer(p)

Intake ==
    /\ \/ RevokeDevice
       \/ \E r \in Record : CountUses(r) \/ DeleteCode(r) \/ CreateMaterial(r)
       \/ \E q \in requests : Serve(q)
    /\ UNCHANGED app

Lost ==
    /\ Fault
    /\ \E q \in requests : Lose(q)
    /\ UNCHANGED <<taken, store, entering, pass, booted, doomed>>

Next ==
    \/ PruneSynced
    \/ \E r \in Record : Drop(r) \/ Capture(r)
    \/ Enqueue
    \/ \E p \in Pass : Step(p)
    \/ Intake
    \/ Lost
    \/ Kill

Spec == Init /\ [][Next]_vars

\* The PWA starts a pass every minute while it is open and online, and the
\* backend serves what reaches it; nobody has to capture, and faults need not
\* happen.
Fairness ==
    /\ \A p \in Pass : WF_vars(Step(p))
    /\ WF_vars((\E q \in requests : Serve(q)) /\ UNCHANGED app)

FairSpec == Spec /\ Fairness

-----------------------------------------------------------------------------
PassType ==
    [phase : {"idle", "next", "read", "write", "post", "posted", "photo", "sending"},
     stage : {"weighins", "photos"}, todo : SUBSET Record, had : SUBSET Record,
     rec : Record \cup {NoRecord}, patch : Patch, seen : [Record -> Entry]]

\* Every variable is well formed, and only a running pass works on a record.
TypeOK ==
    /\ IntakeTypeOK
    /\ taken \subseteq Record
    /\ store \in [Record -> Entry]
    /\ entering \in [rec : Record \cup {NoRecord}, seen : [Record -> Entry]]
    /\ pass \in [Pass -> PassType]
    /\ \A p \in Pass : pass[p].rec = NoRecord <=> pass[p].phase \in {"idle", "next"}
    /\ booted \in BOOLEAN /\ doomed \subseteq Record
    /\ faults \in 0 .. MaxFaults

\* A weigh-in the collector was told is recorded is never lost: it is in the
\* queue until the backend holds it and its photo.
NothingLost ==
    \A r \in taken : store[r] = Absent => rows[r] # << >> /\ photoUri[r]

\* The queue claims nothing the backend does not have.
ClaimsAreTrue ==
    \A r \in Record :
        /\ store[r].known => rows[r] # << >>
        /\ store[r].sent => photoUri[r]
        /\ store[r].status = "rejected" => rows[r] = <<"quarantined">>

\* The backend knows, from some time on, what the weigh-in r refers to.
Admitted(r) == <>[](gate[r] # "shut")

\* Every weigh-in reaches the backend in the end, if the backend comes to know and
\* keeps knowing what it refers to; however long it and others were refused before.
EveryWeighInArrives ==
    \A r \in Record : Admitted(r) => (r \in taken ~> rows[r] # << >>)

\* So does its photo, if it is one that attach takes, unless the collector is shown
\* that the weigh-in was rejected.
EveryPhotoArrives ==
    \A r \in Record \ Unfit :
        Admitted(r) => (r \in taken ~> photoUri[r] \/ store[r].status = "rejected")

\* What the code does not keep.  syncPending: "A quarantined record is a settled
\* answer ... It is marked rejected and shown to the collector".  When the first
\* answer was lost, the retry is a duplicate, and is shown as synced.
QuarantineIsShown ==
    \A r \in Record : store[r].status = "synced" => rows[r] = <<"clean">>

\* What the code does not keep.  PhotoStore: "one device retrying an upload,
\* write the same bytes to the same path.  Storing it twice is a no-op".  The
\* second write truncates the file first.
PhotoStaysWhole == \A r \in Record : photoUri[r] => file[r] = "whole"
=============================================================================
