-------------------------- MODULE FieldQueueProofs --------------------------
(***************************************************************************)
(* What FieldQueue guarantees for any weigh-ins, any number of sync passes *)
(* and any number of faults, over the requests EventIntake serves.         *)
(*                                                                         *)
(* The argument: the backend never takes back a row or a photo, so what an *)
(* answer, a sync pass or a read of the store once knew of it stays true,  *)
(* however old it is when it is written.  That the store loses no record   *)
(* holds for the PWA only, whose updates touch one record each.            *)
(***************************************************************************)
EXTENDS FieldQueue, SequenceTheorems, TLAPS

-----------------------------------------------------------------------------
(* The inductive invariant.                                                *)

Held(r) == rows[r] # << >>
Quarantined(r) == rows[r] = <<"quarantined">>

\* An entry of the queue, in the store or in the memory of an update, claims
\* what the backend has; there are no claims about a record not in the queue.
EntryTrue(e, r) ==
    /\ e.known => Held(r)
    /\ e.sent => photoUri[r]
    /\ e.status = "rejected" => Quarantined(r)
    /\ e.status = "absent" => e = Absent

\* What a sync pass in state s relies on and is about to write.
PassTrue(s) ==
    /\ \A r \in Record : EntryTrue(s.seen[r], r)
    /\ \A r \in s.had : photoUri[r]
    /\ s.stage = "photos" => \A r \in s.todo : Held(r)
    /\ s.phase \in {"photo", "sending"} => Held(s.rec)
    /\ s.patch = "none" <=> s.phase \notin {"read", "write"}
    /\ s.patch = "rejected" => Quarantined(s.rec)
    /\ s.patch \in {"synced", "synced with photo"} => Held(s.rec)
    /\ s.patch \in {"synced with photo", "photo sent"} => photoUri[s.rec]

\* How far a request has come in the backend, and what its answer says.
RequestTrue(q) ==
    /\ q.step \in {"fill", "row"} => Held(q.rec)
    /\ q.step = "done" => q.answer # "none"
    /\ q.answer \in {"created", "duplicate"} => Held(q.rec)
    /\ q.answer = "rejected" => Quarantined(q.rec)
    /\ q.answer = "stored" => photoUri[q.rec]

\* A sync pass waits for one answer at most, about the record in its hand.
Awaited(q) ==
    q.by \in Pass => q.rec = pass[q.by].rec /\ pass[q.by].phase \in {"posted", "sending"}
OneAwaited ==
    \A q, o \in requests : q.by \in Pass /\ q.by = o.by => q = o

\* What the backend knows beside the events is well formed.
StandingOK == revoked \in BOOLEAN /\ gate \in [Record -> {"open", "closing", "shut"}]

BackendTrue ==
    /\ \A r \in Record : rows[r] \in {<< >>, <<"clean">>, <<"quarantined">>}
    /\ \A r \in Record : photoUri[r] => Held(r)
    /\ \A q \in requests : RequestTrue(q)

IInv ==
    /\ TypeOK
    /\ BackendTrue
    /\ (\A q \in requests : Awaited(q)) /\ OneAwaited
    /\ \A p \in Pass : PassTrue(pass[p])
    /\ \A r \in Record : EntryTrue(store[r], r) /\ EntryTrue(entering.seen[r], r)
    /\ \A r \in doomed : photoUri[r]

-----------------------------------------------------------------------------
(* What stays true.                                                        *)

\* The backend takes nothing back.
NothingTakenBack ==
    \A r \in Record :
        /\ Held(r) => rows'[r] = rows[r]
        /\ photoUri[r] => photoUri'[r]

LEMMA EntryStays ==
    ASSUME NothingTakenBack, NEW r \in Record, NEW e, EntryTrue(e, r)
    PROVE  EntryTrue(e, r)'
BY DEF NothingTakenBack, EntryTrue, Held, Quarantined

LEMMA FactsStay ==
    ASSUME NothingTakenBack, NEW r \in Record
    PROVE  /\ Held(r) => Held(r)'
           /\ Quarantined(r) => Quarantined(r)'
           /\ photoUri[r] => photoUri'[r]
BY DEF NothingTakenBack, Held, Quarantined

LEMMA PassStays ==
    ASSUME NothingTakenBack, NEW s \in PassType, s.rec = NoRecord <=> s.phase \in {"idle", "next"},
           PassTrue(s)
    PROVE  PassTrue(s)'
<1>1. s.had \subseteq Record /\ s.todo \subseteq Record
    BY DEF PassType
<1>2. s.phase \notin {"idle", "next"} => s.rec \in Record
    BY DEF PassType
<1>3. s.patch # "none" => s.rec \in Record
    BY <1>2 DEF PassTrue
<1>4. \A r \in Record : EntryTrue(s.seen[r], r)'
    BY EntryStays DEF PassTrue
<1>5. \A r \in s.had : photoUri'[r]
    BY <1>1, FactsStay DEF PassTrue
<1>6. s.stage = "photos" => \A r \in s.todo : Held(r)'
    BY <1>1, FactsStay DEF PassTrue
<1>7. s.phase \in {"photo", "sending"} => Held(s.rec)'
    BY <1>2, FactsStay DEF PassTrue
<1>8. /\ s.patch = "rejected" => Quarantined(s.rec)'
      /\ s.patch \in {"synced", "synced with photo"} => Held(s.rec)'
    BY <1>3, FactsStay DEF PassTrue
<1>9. s.patch \in {"synced with photo", "photo sent"} => photoUri'[s.rec]
    BY <1>3, FactsStay DEF PassTrue
<1>10. QED
    BY <1>4, <1>5, <1>6, <1>7, <1>8, <1>9 DEF PassTrue

LEMMA RequestStays ==
    ASSUME NothingTakenBack, NEW q \in Request, RequestTrue(q)
    PROVE  RequestTrue(q)'
<1>1. q.rec \in Record
    BY DEF Request
<1>2. QED
    BY <1>1 DEF RequestTrue, NothingTakenBack, Held, Quarantined

LEMMA AbsentTrue == \A r \in Record : EntryTrue(Empty[r], r)
BY DEF EntryTrue, Empty, Absent

LEMMA InitIInv == Init => IInv
<1> SUFFICES ASSUME Init PROVE IInv
    OBVIOUS
<1> USE IntakeAssumption, QueueAssumption DEF Init, IntakeInit
<1>1. Empty \in [Record -> Entry]
    BY DEF Empty, Absent, Entry
<1>2. TypeOK
    <2>1. IntakeTypeOK
        <3>1. << >> \in Seq(Verdict)
            BY EmptySeq
        <3>2. rows \in [Record -> Seq(Verdict)] /\ file \in [Record -> {"none", "partial", "whole"}]
            BY <3>1
        <3>3. photoUri \in [Record -> BOOLEAN] /\ revoked \in BOOLEAN
            BY Zenon
        <3>4. QED
            BY <3>2, <3>3 DEF IntakeTypeOK
    <2>2. AtRest \in PassType /\ AtRest.rec = NoRecord /\ AtRest.phase = "idle"
        BY <1>1 DEF AtRest, PassType, Patch
    <2>3. booted \in BOOLEAN
        BY Zenon
    <2>4. faults \in 0 .. MaxFaults
        OBVIOUS
    <2>5. entering \in [rec : Record \cup {NoRecord}, seen : [Record -> Entry]]
        BY <1>1
    <2>6. QED
        BY <1>1, <2>1, <2>2, <2>3, <2>4, <2>5 DEF TypeOK
<1>3. BackendTrue
    BY DEF BackendTrue
<1>4. \A p \in Pass : PassTrue(pass[p])
    BY AbsentTrue DEF PassTrue, AtRest
<1>5. QED
    BY <1>2, <1>3, <1>4, AbsentTrue DEF IInv, OneAwaited

-----------------------------------------------------------------------------
(* Steps of the backend.                                                   *)

QueueTypeOK ==
    /\ taken \subseteq Record
    /\ store \in [Record -> Entry]
    /\ entering \in [rec : Record \cup {NoRecord}, seen : [Record -> Entry]]
    /\ pass \in [Pass -> PassType]
    /\ \A p \in Pass : pass[p].rec = NoRecord <=> pass[p].phase \in {"idle", "next"}
    /\ booted \in BOOLEAN /\ doomed \subseteq Record
    /\ faults \in 0 .. MaxFaults

QueueTrue ==
    /\ \A p \in Pass : PassTrue(pass[p])
    /\ \A r \in Record : EntryTrue(store[r], r) /\ EntryTrue(entering.seen[r], r)
    /\ \A r \in doomed : photoUri[r]

AwaitedOnce == (\A q \in requests : Awaited(q)) /\ OneAwaited

LEMMA Parts ==
    IInv <=> IntakeTypeOK /\ QueueTypeOK /\ BackendTrue /\ AwaitedOnce /\ QueueTrue
BY DEF IInv, TypeOK, QueueTypeOK, QueueTrue, AwaitedOnce

LEMMA PartsNext ==
    IntakeTypeOK' /\ QueueTypeOK' /\ BackendTrue' /\ AwaitedOnce' /\ QueueTrue' => IInv'
BY DEF IInv, TypeOK, QueueTypeOK, QueueTrue, AwaitedOnce

\* PassTrue and EntryTrue of the next state, from a value it holds.
LEMMA PassTrueAt ==
    ASSUME NEW p \in Pass, NEW s, pass'[p] = s, PassTrue(s)'
    PROVE  PassTrue(pass[p])'
BY DEF PassTrue, EntryTrue

LEMMA StoreTrueAt ==
    ASSUME NEW r \in Record, NEW e, store'[r] = e, EntryTrue(e, r)'
    PROVE  EntryTrue(store[r], r)'
BY DEF EntryTrue

phone == <<taken, store, entering, pass, booted, doomed>>

\* The queue of a phone stays true while the backend moves.
LEMMA QueueStays ==
    ASSUME IInv, NothingTakenBack, UNCHANGED phone, faults' \in 0 .. MaxFaults
    PROVE  QueueTypeOK' /\ QueueTrue'
<1>1. QueueTypeOK /\ QueueTrue
    BY Parts
<1>2. QueueTypeOK'
    BY <1>1 DEF QueueTypeOK, phone
<1>3. ASSUME NEW p \in Pass PROVE PassTrue(pass[p])'
    <2>1. PICK s : s = pass[p]
        OBVIOUS
    <2>2. s \in PassType /\ PassTrue(s) /\ (s.rec = NoRecord <=> s.phase \in {"idle", "next"})
        BY <1>1, <2>1 DEF QueueTypeOK, QueueTrue
    <2>3. PassTrue(s)' /\ pass'[p] = s
        BY <2>1, <2>2, PassStays DEF phone
    <2>4. QED
        BY <2>3, PassTrueAt
<1>4. ASSUME NEW r \in Record PROVE EntryTrue(store[r], r)' /\ EntryTrue(entering.seen[r], r)'
    <2>1. EntryTrue(store[r], r) /\ EntryTrue(entering.seen[r], r)
        BY <1>1 DEF QueueTrue
    <2>2. store'[r] = store[r] /\ entering'.seen[r] = entering.seen[r]
        BY DEF phone
    <2>3. QED
        BY <2>1, <2>2, FactsStay DEF EntryTrue
<1>5. \A r \in doomed' : photoUri'[r]
    BY <1>1, FactsStay DEF QueueTypeOK, QueueTrue, phone
<1>6. QED
    BY <1>2, <1>3, <1>4, <1>5 DEF QueueTrue

\* One request moves on, for the same sender and about the same record.
LEMMA OneRequestMoves ==
    ASSUME IInv, UNCHANGED app, NothingTakenBack,
           rows' \in [Record -> {<< >>, <<"clean">>, <<"quarantined">>}],
           StandingOK', photoUri' \in [Record -> BOOLEAN],
           file' \in [Record -> {"none", "partial", "whole"}],
           \A r \in Record : photoUri'[r] => Held(r)',
           NEW q \in requests, NEW d \in Request, d.by = q.by, d.rec = q.rec, RequestTrue(d)',
           requests' = (requests \ {q}) \cup {d}
    PROVE  IInv'
<1>1. IntakeTypeOK /\ BackendTrue /\ AwaitedOnce
    BY Parts
<1>2. IntakeTypeOK'
    <2>1. {<< >>, <<"clean">>, <<"quarantined">>} \subseteq Seq(Verdict)
        BY DEF Verdict
    <2>2. rows' \in [Record -> Seq(Verdict)]
        BY <2>1
    <2>3. requests' \subseteq Request
        BY <1>1 DEF IntakeTypeOK
    <2>4. QED
        BY <2>2, <2>3 DEF IntakeTypeOK, StandingOK
<1>3. BackendTrue'
    <2>1. \A o \in requests' : RequestTrue(o)'
        BY <1>1, RequestStays DEF BackendTrue, IntakeTypeOK
    <2>2. \A r \in Record : rows'[r] \in {<< >>, <<"clean">>, <<"quarantined">>}
        OBVIOUS
    <2>3. QED
        BY <2>1, <2>2 DEF BackendTrue
<1>4. AwaitedOnce'
    <2>1. \A o \in requests' : Awaited(o)'
        BY <1>1 DEF AwaitedOnce, Awaited, app
    <2>2. OneAwaited'
        BY <1>1 DEF AwaitedOnce, OneAwaited
    <2>3. QED
        BY <2>1, <2>2 DEF AwaitedOnce
<1>5. faults' \in 0 .. MaxFaults
    BY Parts DEF QueueTypeOK, app
<1>6. QED
    BY <1>2, <1>3, <1>4, <1>5, QueueStays, PartsNext DEF app, phone

LEMMA ReplyType ==
    ASSUME NEW q \in Request, NEW answer \in Answer, NEW verdict \in Verdict,
           NEW step \in {"look", "save", "open", "fill", "row", "done"}
    PROVE  /\ [q EXCEPT !.step = step] \in Request
           /\ [q EXCEPT !.step = step, !.answer = answer] \in Request
           /\ [q EXCEPT !.step = step, !.verdict = verdict] \in Request
BY DEF Request

\* POST /events.
LEMMA IngestKeeps ==
    ASSUME IInv, UNCHANGED app, NEW q \in requests, IngestLookup(q) \/ IngestSave(q)
    PROVE  IInv'
<1>1. /\ IntakeTypeOK /\ BackendTrue /\ q \in Request /\ q.rec \in Record /\ RequestTrue(q)
      /\ q.verdict \in Verdict
    BY Parts DEF IntakeTypeOK, BackendTrue, Request
<1>2. /\ rows \in [Record -> {<< >>, <<"clean">>, <<"quarantined">>}]
      /\ StandingOK /\ photoUri \in [Record -> BOOLEAN]
      /\ file \in [Record -> {"none", "partial", "whole"}]
    BY <1>1 DEF IntakeTypeOK, StandingOK, BackendTrue
<1>3. \A r \in Record : photoUri[r] => Held(r)
    BY <1>1 DEF BackendTrue
<1>4. UNCHANGED <<photoUri, file>> /\ StandingOK'
    <2>1. UNCHANGED <<revoked, gate, photoUri, file>>
        BY DEF IngestLookup, IngestSave, database
    <2>2. QED
        BY <1>2, <2>1 DEF StandingOK
<1>5. ASSUME NEW answer \in {"duplicate", "refused"}, UNCHANGED rows, Reply(q, answer),
             answer = "duplicate" => Held(q.rec)
      PROVE  IInv'
    <2>1. PICK d : d = [q EXCEPT !.step = "done", !.answer = answer]
        OBVIOUS
    <2>2. d \in Request /\ d.by = q.by /\ d.rec = q.rec /\ d.step = "done" /\ d.answer = answer
        BY <1>1, <2>1 DEF Request, Answer
    <2>3. RequestTrue(d)' /\ NothingTakenBack /\ \A r \in Record : photoUri'[r] => Held(r)'
        BY <1>3, <1>4, <1>5, <2>2 DEF RequestTrue, NothingTakenBack, Held
    <2>4. requests' = (requests \ {q}) \cup {d}
        BY <1>5, <2>1 DEF Reply
    <2>5. QED
        BY <1>2, <1>4, <1>5, <2>2, <2>3, <2>4, OneRequestMoves
<1>6. ASSUME IngestLookup(q), ~Held(q.rec), gate[q.rec] # "shut" PROVE IInv'
    <2>1. PICK verdict \in Verdict :
              requests' = (requests \ {q}) \cup {[q EXCEPT !.step = "save", !.verdict = verdict]}
        BY <1>6 DEF IngestLookup, Held, Verdict
    <2>2. PICK d : d = [q EXCEPT !.step = "save", !.verdict = verdict]
        OBVIOUS
    <2>3. /\ d \in Request /\ d.by = q.by /\ d.rec = q.rec /\ d.step = "save"
          /\ d.answer = q.answer
        BY <1>1, <2>2 DEF Request
    <2>4. UNCHANGED rows
        BY <1>6 DEF IngestLookup, database
    <2>5. RequestTrue(d)' /\ NothingTakenBack /\ \A r \in Record : photoUri'[r] => Held(r)'
        BY <1>1, <1>3, <1>4, <2>3, <2>4 DEF RequestTrue, NothingTakenBack, Held, Quarantined
    <2>6. QED
        BY <1>2, <1>4, <2>1, <2>2, <2>3, <2>4, <2>5, OneRequestMoves
<1>7. ASSUME IngestSave(q), ~Held(q.rec) PROVE IInv'
    <2>1. PICK answer : answer = IF q.verdict = "clean" THEN "created" ELSE "rejected"
        OBVIOUS
    <2>2. PICK d : d = [q EXCEPT !.step = "done", !.answer = answer]
        OBVIOUS
    <2>3. /\ d \in Request /\ d.by = q.by /\ d.rec = q.rec /\ d.step = "done"
          /\ d.answer = answer
        BY <1>1, <2>1, <2>2 DEF Request, Answer
    <2>4. /\ rows' = [rows EXCEPT ![q.rec] = <<q.verdict>>]
          /\ requests' = (requests \ {q}) \cup {d}
        BY <1>7, <2>1, <2>2 DEF IngestSave, Held, Reply
    <2>5. /\ rows' \in [Record -> {<< >>, <<"clean">>, <<"quarantined">>}]
          /\ rows'[q.rec] = <<q.verdict>>
          /\ \A r \in Record : r # q.rec => rows'[r] = rows[r]
        BY <1>1, <1>2, <2>4 DEF Verdict
    <2>6. <<q.verdict>> # << >>
        OBVIOUS
    <2>7. RequestTrue(d)'
        BY <1>1, <2>1, <2>3, <2>5, <2>6 DEF RequestTrue, Held, Quarantined, Verdict
    <2>8. NothingTakenBack
        BY <1>4, <1>7, <2>5 DEF NothingTakenBack, Held
    <2>9. \A r \in Record : photoUri'[r] => Held(r)'
        BY <1>3, <1>4, <1>7, <2>5, <2>6 DEF Held
    <2>10. QED
        BY <1>2, <1>4, <2>3, <2>4, <2>5, <2>7, <2>8, <2>9, OneRequestMoves
<1>8. CASE IngestLookup(q)
    <2>1. UNCHANGED rows
        BY <1>8 DEF IngestLookup, database
    <2>2. CASE gate[q.rec] = "shut"
        BY <1>5, <1>8, <2>1, <2>2 DEF IngestLookup
    <2>3. CASE gate[q.rec] # "shut" /\ Held(q.rec)
        BY <1>5, <1>8, <2>1, <2>3 DEF IngestLookup, Held
    <2>4. QED
        BY <1>6, <1>8, <2>2, <2>3
<1>9. CASE IngestSave(q) /\ Held(q.rec)
    BY <1>5, <1>9 DEF IngestSave, Held
<1>10. QED
    BY <1>7, <1>8, <1>9

\* POST /events/:id/photo.
LEMMA PhotoKeeps ==
    ASSUME IInv, UNCHANGED app, NEW q \in requests, PhotoOpen(q) \/ PhotoFill(q) \/ PhotoRow(q)
    PROVE  IInv'
<1>1. /\ IntakeTypeOK /\ BackendTrue /\ q \in Request /\ q.rec \in Record /\ RequestTrue(q)
    BY Parts DEF IntakeTypeOK, BackendTrue, Request
<1>2. /\ rows \in [Record -> {<< >>, <<"clean">>, <<"quarantined">>}]
      /\ StandingOK /\ photoUri \in [Record -> BOOLEAN]
      /\ file \in [Record -> {"none", "partial", "whole"}]
      /\ \A r \in Record : photoUri[r] => Held(r)
    BY <1>1 DEF IntakeTypeOK, StandingOK, BackendTrue
<1>3. UNCHANGED rows /\ StandingOK'
    <2>1. UNCHANGED <<rows, revoked, gate>>
        BY DEF PhotoOpen, PhotoFill, PhotoRow, database
    <2>2. QED
        BY <1>2, <2>1 DEF StandingOK
<1>4. ASSUME NEW step \in {"fill", "row"}, GoTo(q, step), Held(q.rec), UNCHANGED photoUri,
             file' \in [Record -> {"none", "partial", "whole"}]
      PROVE  IInv'
    <2>1. PICK d : d = [q EXCEPT !.step = step]
        OBVIOUS
    <2>2. /\ d \in Request /\ d.by = q.by /\ d.rec = q.rec /\ d.step = step
          /\ d.answer = q.answer
        BY <1>1, <2>1 DEF Request
    <2>3. RequestTrue(d)'
        BY <1>1, <1>3, <1>4, <2>2 DEF RequestTrue, Held, Quarantined
    <2>4. NothingTakenBack /\ \A r \in Record : photoUri'[r] => Held(r)'
        BY <1>2, <1>3, <1>4 DEF NothingTakenBack, Held
    <2>5. requests' = (requests \ {q}) \cup {d}
        BY <1>4, <2>1 DEF GoTo
    <2>6. QED
        BY <1>2, <1>3, <1>4, <2>2, <2>3, <2>4, <2>5, OneRequestMoves
<1>5. CASE PhotoOpen(q)
    <2>1. Held(q.rec) /\ UNCHANGED photoUri
        BY <1>5 DEF PhotoOpen, Held, database
    <2>2. CASE q.rec \in Unfit
        <3>1. PICK d : d = [q EXCEPT !.step = "done", !.answer = "refused"]
            OBVIOUS
        <3>2. /\ d \in Request /\ d.by = q.by /\ d.rec = q.rec /\ d.step = "done"
              /\ d.answer = "refused"
            BY <1>1, <3>1 DEF Request, Answer
        <3>3. requests' = (requests \ {q}) \cup {d} /\ UNCHANGED file
            BY <1>5, <2>2, <3>1 DEF PhotoOpen, Reply
        <3>4. RequestTrue(d)'
            BY <3>2 DEF RequestTrue
        <3>5. NothingTakenBack /\ \A r \in Record : photoUri'[r] => Held(r)'
            BY <1>2, <1>3, <2>1 DEF NothingTakenBack, Held
        <3>6. QED
            BY <1>2, <1>3, <2>1, <3>2, <3>3, <3>4, <3>5, OneRequestMoves
    <2>3. CASE q.rec \notin Unfit
        <3>1. GoTo(q, "fill") /\ file' \in [Record -> {"none", "partial", "whole"}]
            BY <1>2, <1>5, <2>3 DEF PhotoOpen
        <3>2. QED
            BY <1>4, <2>1, <3>1
    <2>4. QED
        BY <2>2, <2>3
<1>6. CASE PhotoFill(q)
    <2>1. Held(q.rec) /\ GoTo(q, "row") /\ UNCHANGED photoUri
        BY <1>1, <1>6 DEF PhotoFill, RequestTrue, database
    <2>2. PICK content \in {"partial", "whole"} : file' = [file EXCEPT ![q.rec] = content]
        BY <1>6 DEF PhotoFill
    <2>3. file' \in [Record -> {"none", "partial", "whole"}]
        BY <1>2, <2>2
    <2>4. QED
        BY <1>4, <2>1, <2>3
<1>7. CASE PhotoRow(q)
    <2>1. PICK d : d = [q EXCEPT !.step = "done", !.answer = "stored"]
        OBVIOUS
    <2>2. /\ d \in Request /\ d.by = q.by /\ d.rec = q.rec /\ d.step = "done"
          /\ d.answer = "stored"
        BY <1>1, <2>1 DEF Request, Answer
    <2>3. Held(q.rec) /\ requests' = (requests \ {q}) \cup {d} /\ UNCHANGED file
        BY <1>1, <1>7, <2>1 DEF PhotoRow, Reply, RequestTrue
    <2>4. photoUri' = [photoUri EXCEPT ![q.rec] = TRUE]
        BY <1>7 DEF PhotoRow
    <2>5. /\ photoUri' \in [Record -> BOOLEAN] /\ photoUri'[q.rec]
          /\ \A r \in Record : r # q.rec => photoUri'[r] = photoUri[r]
        BY <1>1, <1>2, <2>4
    <2>6. RequestTrue(d)'
        BY <2>2, <2>5 DEF RequestTrue
    <2>7. NothingTakenBack
        <3>1. \A r \in Record : photoUri[r] => photoUri'[r]
            BY <2>5
        <3>2. QED
            BY <1>3, <3>1 DEF NothingTakenBack
    <2>8. \A r \in Record : photoUri'[r] => Held(r)'
        BY <1>2, <1>3, <2>3, <2>5 DEF Held
    <2>9. QED
        BY <1>2, <1>3, <2>2, <2>3, <2>5, <2>6, <2>7, <2>8, OneRequestMoves
<1>8. QED
    BY <1>5, <1>6, <1>7

\* The backend's rows are as they were, and some requests are lost or are
\* waited for by nobody any more.
LEMMA BackendRests ==
    ASSUME IInv, UNCHANGED <<rows, file, photoUri>>, StandingOK',
           \A d \in requests' : \E q \in requests :
               d = q \/ (d \in Request /\ d.by = Nobody /\ d = [q EXCEPT !.by = Nobody])
    PROVE  IntakeTypeOK' /\ BackendTrue' /\ NothingTakenBack
<1>1. IntakeTypeOK /\ BackendTrue
    BY Parts
<1>2. NothingTakenBack
    BY DEF NothingTakenBack
<1>3. ASSUME NEW d \in requests' PROVE d \in Request /\ RequestTrue(d)'
    <2>1. PICK q \in requests :
              d = q \/ (d \in Request /\ d.by = Nobody /\ d = [q EXCEPT !.by = Nobody])
        BY <1>3
    <2>2. q \in Request /\ RequestTrue(q)'
        BY <1>1, <1>2, RequestStays DEF IntakeTypeOK, BackendTrue
    <2>3. d \in Request /\ d.step = q.step /\ d.answer = q.answer /\ d.rec = q.rec
        BY <2>1, <2>2 DEF Request
    <2>4. QED
        BY <2>2, <2>3 DEF RequestTrue
<1>4. IntakeTypeOK'
    BY <1>1, <1>3 DEF IntakeTypeOK, StandingOK
<1>5. BackendTrue'
    BY <1>1, <1>3 DEF BackendTrue, Held
<1>6. QED
    BY <1>2, <1>4, <1>5

\* An operator revokes the device, or changes what the backend knows.
Operated == RevokeDevice \/ \E r \in Record : CountUses(r) \/ DeleteCode(r) \/ CreateMaterial(r)

LEMMA OperatedMoves ==
    IInv /\ Operated => StandingOK' /\ UNCHANGED <<rows, file, photoUri, requests>>
<1> SUFFICES ASSUME IInv, Operated PROVE StandingOK' /\ UNCHANGED <<rows, file, photoUri, requests>>
    OBVIOUS
<1>1. StandingOK
    BY Parts DEF IntakeTypeOK, StandingOK
<1>2. CASE RevokeDevice
    BY <1>1, <1>2 DEF RevokeDevice, StandingOK
<1>3. ASSUME NEW r \in Record, CountUses(r) \/ DeleteCode(r) \/ CreateMaterial(r)
      PROVE  StandingOK' /\ UNCHANGED <<rows, file, photoUri, requests>>
    BY <1>1, <1>3 DEF CountUses, DeleteCode, CreateMaterial, StandingOK
<1>4. QED
    BY <1>2, <1>3 DEF Operated

LEMMA IntakeKeeps == IInv /\ Intake => IInv'
<1> SUFFICES ASSUME IInv, Intake PROVE IInv'
    OBVIOUS
<1>1. UNCHANGED app
    BY DEF Intake
<1>2. CASE Operated
    <2>1. StandingOK' /\ UNCHANGED <<rows, file, photoUri, requests>>
        BY <1>2, OperatedMoves
    <2>2. IntakeTypeOK' /\ BackendTrue' /\ NothingTakenBack
        BY <2>1, BackendRests
    <2>3. QueueTypeOK' /\ QueueTrue'
        BY <1>1, <2>2, QueueStays, Parts DEF app, phone, QueueTypeOK
    <2>4. AwaitedOnce'
        BY <1>1, <2>1, Parts DEF AwaitedOnce, Awaited, OneAwaited, app
    <2>5. QED
        BY <2>2, <2>3, <2>4, PartsNext
<1>3. ASSUME NEW q \in requests, Serve(q) PROVE IInv'
    BY <1>1, <1>3, IngestKeeps, PhotoKeeps DEF Serve
<1>4. QED
    BY <1>2, <1>3 DEF Intake, Operated

LEMMA FaultCounted == IInv /\ Fault => faults' \in 0 .. MaxFaults
BY QueueAssumption, Parts DEF QueueTypeOK, Fault

LEMMA LostKeeps == IInv /\ Lost => IInv'
<1> SUFFICES ASSUME IInv, Lost PROVE IInv'
    OBVIOUS
<1>1. UNCHANGED phone /\ faults' \in 0 .. MaxFaults
    BY FaultCounted DEF Lost, phone
<1>2. UNCHANGED <<rows, revoked, gate, file, photoUri>> /\ requests' \subseteq requests
    BY DEF Lost, Lose, database
<1>3. IntakeTypeOK' /\ BackendTrue' /\ NothingTakenBack
    <2>1. StandingOK'
        BY <1>2, Parts DEF IntakeTypeOK, StandingOK
    <2>2. QED
        BY <1>2, <2>1, BackendRests
<1>4. AwaitedOnce'
    BY <1>1, <1>2, Parts DEF AwaitedOnce, Awaited, OneAwaited, phone
<1>5. QED
    BY <1>1, <1>3, <1>4, QueueStays, PartsNext

-----------------------------------------------------------------------------
(* Steps of the phone.                                                     *)

\* The queue is written, and nothing else; what it now says is true.
LEMMA StoreMoves ==
    ASSUME IInv, UNCHANGED intakeVars, UNCHANGED pass,
           taken' \subseteq Record, booted' \in BOOLEAN, doomed' \subseteq Record, faults' = faults,
           \A r \in doomed' : photoUri[r],
           store' \in [Record -> Entry], \A r \in Record : EntryTrue(store'[r], r),
           entering' \in [rec : Record \cup {NoRecord}, seen : [Record -> Entry]],
           \A r \in Record : EntryTrue(entering'.seen[r], r)
    PROVE  IInv'
<1>1. IntakeTypeOK /\ QueueTypeOK /\ BackendTrue /\ AwaitedOnce /\ QueueTrue
    BY Parts
<1>2. UNCHANGED <<rows, revoked, gate, file, photoUri, requests>>
    BY DEF intakeVars
<1>3. IntakeTypeOK' /\ BackendTrue'
    BY <1>1, <1>2 DEF IntakeTypeOK, BackendTrue, RequestTrue, Held, Quarantined
<1>4. AwaitedOnce'
    BY <1>1, <1>2 DEF AwaitedOnce, Awaited, OneAwaited
<1>5. QueueTypeOK'
    BY <1>1 DEF QueueTypeOK
<1>6. QueueTrue'
    <2>1. \A q \in Pass : PassTrue(pass[q])'
        <3> TAKE q \in Pass
        <3>1. NothingTakenBack
            BY <1>2 DEF NothingTakenBack
        <3>2. PICK s : s = pass[q]
            OBVIOUS
        <3>3. /\ s \in PassType /\ PassTrue(s)
              /\ s.rec = NoRecord <=> s.phase \in {"idle", "next"}
            BY <1>1, <3>2 DEF QueueTypeOK, QueueTrue
        <3>4. PassTrue(s)'
            BY <3>1, <3>3, PassStays
        <3>5. pass'[q] = s
            BY <3>2
        <3>6. QED
            BY <3>4, <3>5
    <2>2. \A r \in Record : EntryTrue(store[r], r)' /\ EntryTrue(entering.seen[r], r)'
        <3> SUFFICES ASSUME NEW r \in Record
                     PROVE  EntryTrue(store[r], r)' /\ EntryTrue(entering.seen[r], r)'
            OBVIOUS
        <3>1. EntryTrue(store'[r], r) /\ EntryTrue(entering'.seen[r], r)
            OBVIOUS
        <3>2. rows'[r] = rows[r] /\ photoUri'[r] = photoUri[r]
            BY <1>2
        <3>3. EntryTrue(store[r], r)'
            BY <3>1, <3>2 DEF EntryTrue, Held, Quarantined
        <3>4. EntryTrue(entering.seen[r], r)'
            BY <3>1, <3>2 DEF EntryTrue, Held, Quarantined
        <3>5. QED
            BY <3>3, <3>4
    <2>3. \A r \in doomed' : photoUri'[r]
        BY <1>2
    <2>4. QED
        BY <2>1, <2>2, <2>3 DEF QueueTrue
<1>7. QED
    BY <1>3, <1>4, <1>5, <1>6, PartsNext

\* A sync pass goes to state s.
LEMMA OnePassMoves ==
    ASSUME IInv, NEW p \in Pass, NEW s \in PassType,
           s.rec = NoRecord <=> s.phase \in {"idle", "next"},
           PassTrue(s), pass' = [pass EXCEPT ![p] = s],
           UNCHANGED <<rows, file, photoUri, taken, entering, booted, doomed>>,
           StandingOK', faults' \in 0 .. MaxFaults,
           store' \in [Record -> Entry], \A r \in Record : EntryTrue(store'[r], r),
           IntakeTypeOK', BackendTrue',
           \A d \in requests' : d.by \in Pass =>
               IF d.by = p THEN d.rec = s.rec /\ s.phase \in {"posted", "sending"}
                           ELSE d \in requests,
           \A d, o \in requests' : d.by = p /\ o.by = p => d = o
    PROVE  IInv'
<1>1. IntakeTypeOK /\ QueueTypeOK /\ BackendTrue /\ AwaitedOnce /\ QueueTrue
    BY Parts
<1>2. QueueTypeOK'
    <2>1. pass' \in [Pass -> PassType]
        BY <1>1 DEF QueueTypeOK
    <2>2. \A q \in Pass : pass'[q].rec = NoRecord <=> pass'[q].phase \in {"idle", "next"}
        BY <1>1 DEF QueueTypeOK
    <2>3. QED
        BY <1>1, <2>1, <2>2 DEF QueueTypeOK
<1>3. AwaitedOnce'
    <2>1. pass'[p] = s /\ \A q \in Pass : q # p => pass'[q] = pass[q]
        BY <1>1 DEF QueueTypeOK
    <2>2. \A d \in requests' : Awaited(d)'
        BY <1>1, <2>1 DEF AwaitedOnce, Awaited
    <2>3. OneAwaited'
        BY <1>1 DEF AwaitedOnce, OneAwaited
    <2>4. QED
        BY <2>2, <2>3 DEF AwaitedOnce
<1>4. QueueTrue'
    <2>1. ASSUME NEW q \in Pass PROVE PassTrue(pass[q])'
        <3>1. PICK t : t = IF q = p THEN s ELSE pass[q]
            OBVIOUS
        <3>2. PassTrue(t) /\ pass'[q] = t
            BY <1>1, <3>1 DEF QueueTypeOK, QueueTrue
        <3>3. PassTrue(t)'
            BY <3>2 DEF PassTrue, EntryTrue, Held, Quarantined
        <3>4. QED
            BY <3>2, <3>3, PassTrueAt
    <2>2. \A r \in Record : EntryTrue(store[r], r)' /\ EntryTrue(entering.seen[r], r)'
        BY <1>1 DEF QueueTrue, EntryTrue, Held, Quarantined
    <2>3. \A r \in doomed' : photoUri'[r]
        BY <1>1 DEF QueueTrue
    <2>4. QED
        BY <2>1, <2>2, <2>3 DEF QueueTrue
<1>5. QED
    BY <1>1, <1>2, <1>3, <1>4, PartsNext

LEMMA EmptyType == Empty \in [Record -> Entry] /\ Absent \in Entry /\ Queued \in Entry
BY DEF Empty, Absent, Queued, Entry

\* Capture and pruning.
LEMMA CaptureKeeps ==
    ASSUME IInv, Enqueue \/ \E r \in Record : Capture(r)
    PROVE  IInv'
<1>1. QueueTypeOK /\ QueueTrue
    BY Parts
<1>2. ASSUME NEW r \in Record, Capture(r) PROVE IInv'
    <2>1. PICK seen : seen = IF WholeQueue THEN store ELSE Empty
        OBVIOUS
    <2>2. seen \in [Record -> Entry] /\ \A t \in Record : EntryTrue(seen[t], t)
        BY <1>1, <2>1, EmptyType, AbsentTrue DEF QueueTypeOK, QueueTrue
    <2>3. entering' = [rec |-> r, seen |-> seen]
        BY <1>2, <2>1 DEF Capture
    <2>4. UNCHANGED <<taken, store, pass, booted, doomed, faults>> /\ UNCHANGED intakeVars
        BY <1>2 DEF Capture
    <2>5. QED
        BY <1>1, <2>2, <2>3, <2>4, StoreMoves DEF QueueTypeOK, QueueTrue
<1>3. CASE Enqueue
    <2>1. PICK base : base = IF WholeQueue THEN entering.seen ELSE store
        OBVIOUS
    <2>2. base \in [Record -> Entry] /\ \A t \in Record : EntryTrue(base[t], t)
        BY <1>1, <2>1 DEF QueueTypeOK, QueueTrue
    <2>3. PICK r \in Record : r = entering.rec
        BY <1>1, <1>3 DEF Enqueue, QueueTypeOK
    <2>4. store' = [base EXCEPT ![r] = Queued] /\ taken' = taken \cup {r}
        BY <1>3, <2>1, <2>3 DEF Enqueue
    <2>5. entering' = [rec |-> NoRecord, seen |-> Empty]
        BY <1>3 DEF Enqueue
    <2>6. UNCHANGED <<pass, booted, doomed, faults>> /\ UNCHANGED intakeVars
        BY <1>3 DEF Enqueue
    <2>7. EntryTrue(Queued, r)
        BY DEF EntryTrue, Queued, Absent
    <2>8. store' \in [Record -> Entry] /\ \A t \in Record : EntryTrue(store'[t], t)
        BY <2>2, <2>4, <2>7, EmptyType
    <2>9. /\ entering' \in [rec : Record \cup {NoRecord}, seen : [Record -> Entry]]
          /\ \A t \in Record : EntryTrue(entering'.seen[t], t)
        BY <2>5, EmptyType, AbsentTrue
    <2>10. QED
        BY <1>1, <2>4, <2>6, <2>8, <2>9, StoreMoves DEF QueueTypeOK, QueueTrue
<1>4. QED
    BY <1>2, <1>3

LEMMA PruneKeeps ==
    ASSUME IInv, PruneSynced \/ \E r \in Record : Drop(r)
    PROVE  IInv'
<1>1. QueueTypeOK /\ QueueTrue
    BY Parts
<1>2. CASE PruneSynced
    <2>1. /\ UNCHANGED <<taken, store, entering, pass, faults>> /\ UNCHANGED intakeVars
          /\ booted' = TRUE
        BY <1>2 DEF PruneSynced
    <2>2. doomed' \subseteq Record /\ \A r \in doomed' : store[r].sent
        BY <1>2 DEF PruneSynced
    <2>3. \A r \in doomed' : photoUri[r]
        BY <1>1, <2>2 DEF QueueTrue, EntryTrue
    <2>4. booted' \in BOOLEAN
        BY <2>1, Zenon
    <2>5. QED
        BY <1>1, <2>1, <2>2, <2>3, <2>4, StoreMoves DEF QueueTypeOK, QueueTrue
<1>3. ASSUME NEW r \in Record, Drop(r) PROVE IInv'
    <2>1. /\ UNCHANGED <<taken, entering, pass, booted, faults>> /\ UNCHANGED intakeVars
          /\ store' = [store EXCEPT ![r] = Absent] /\ doomed' = doomed \ {r}
        BY <1>3 DEF Drop
    <2>2. EntryTrue(Absent, r)
        BY DEF EntryTrue, Absent
    <2>3. store' \in [Record -> Entry] /\ \A t \in Record : EntryTrue(store'[t], t)
        BY <1>1, <2>1, <2>2, EmptyType DEF QueueTypeOK, QueueTrue
    <2>4. QED
        BY <1>1, <2>1, <2>3, StoreMoves DEF QueueTypeOK, QueueTrue
<1>4. QED
    BY <1>2, <1>3

\* A pass moves that waits for no answer, neither before nor after.
LEMMA PassMovesAlone ==
    ASSUME IInv, NEW p \in Pass, NEW s \in PassType,
           s.rec = NoRecord <=> s.phase \in {"idle", "next"},
           PassTrue(s), pass' = [pass EXCEPT ![p] = s],
           pass[p].phase \notin {"posted", "sending"},
           UNCHANGED intakeVars, UNCHANGED <<taken, entering, booted, doomed, faults>>,
           store' \in [Record -> Entry], \A r \in Record : EntryTrue(store'[r], r)
    PROVE  IInv'
<1>1. UNCHANGED <<rows, revoked, gate, file, photoUri, requests>>
    BY DEF intakeVars
<1>2. StandingOK'
    BY <1>1, Parts DEF IntakeTypeOK, StandingOK
<1>3. IntakeTypeOK' /\ BackendTrue'
    BY <1>1, <1>2, BackendRests
<1>4. \A d \in requests' : d.by # p
    BY <1>1, Parts DEF AwaitedOnce, Awaited
<1>5. faults' \in 0 .. MaxFaults
    BY Parts DEF QueueTypeOK
<1>6. QED
    BY <1>1, <1>2, <1>3, <1>4, <1>5, OnePassMoves

\* An update leaves true entries.
LEMMA PatchedTrue ==
    ASSUME NEW r \in Record, NEW e \in Entry, EntryTrue(e, r), e # Absent,
           NEW patch \in Patch, patch # "none",
           patch = "rejected" => Quarantined(r),
           patch \in {"synced", "synced with photo"} => Held(r),
           patch \in {"synced with photo", "photo sent"} => photoUri[r]
    PROVE  Patched(e, patch) \in Entry /\ EntryTrue(Patched(e, patch), r)
<1>1. e.status # "absent"
    BY DEF EntryTrue
<1>2. CASE patch = "rejected"
    <2>1. Patched(e, patch) = [e EXCEPT !.status = "rejected", !.known = TRUE]
        BY <1>2 DEF Patched
    <2>2. Held(r)
        <3>1. rows[r] = <<"quarantined">>
            BY <1>2 DEF Quarantined
        <3>2. <<"quarantined">> # << >>
            OBVIOUS
        <3>3. QED
            BY <3>1, <3>2, Zenon DEF Held
    <2>3. QED
        BY <1>2, <2>1, <2>2 DEF Entry, EntryTrue
<1>3. CASE patch = "synced"
    BY <1>3 DEF Patched, Entry, EntryTrue
<1>4. CASE patch = "synced with photo"
    BY <1>4 DEF Patched, Entry, EntryTrue
<1>5. CASE patch = "photo sent"
    BY <1>1, <1>5 DEF Patched, Entry, EntryTrue
<1>6. CASE patch \in {"syncing", "queued"}
    <2>1. Patched(e, patch) = [e EXCEPT !.status = patch]
        BY <1>6 DEF Patched
    <2>2. QED
        BY <1>6, <2>1 DEF Entry, EntryTrue
<1>7. QED
    BY <1>2, <1>3, <1>4, <1>5, <1>6 DEF Patch

LEMMA WrittenTrue ==
    ASSUME IInv, NEW r \in Record, NEW patch \in Patch, patch # "none",
           NEW seen \in [Record -> Entry], \A t \in Record : EntryTrue(seen[t], t),
           patch = "rejected" => Quarantined(r),
           patch \in {"synced", "synced with photo"} => Held(r),
           patch \in {"synced with photo", "photo sent"} => photoUri[r]
    PROVE  /\ Written(seen, r, patch) \in [Record -> Entry]
           /\ \A t \in Record : EntryTrue(Written(seen, r, patch)[t], t)
<1>1. store \in [Record -> Entry] /\ \A t \in Record : EntryTrue(store[t], t)
    BY Parts DEF QueueTypeOK, QueueTrue
<1>2. PICK base : base = IF WholeQueue THEN seen ELSE store
    OBVIOUS
<1>3. base \in [Record -> Entry] /\ \A t \in Record : EntryTrue(base[t], t)
    BY <1>1, <1>2
<1>4. CASE seen[r] = Absent
    BY <1>2, <1>3, <1>4 DEF Written
<1>5. CASE seen[r] # Absent
    <2>1. PICK e : e = Patched(seen[r], patch)
        OBVIOUS
    <2>2. e \in Entry /\ EntryTrue(e, r)
        BY <1>5, <2>1, PatchedTrue
    <2>3. Written(seen, r, patch) = [base EXCEPT ![r] = e]
        BY <1>2, <1>5, <2>1 DEF Written
    <2>4. QED
        BY <1>3, <2>2, <2>3
<1>6. QED
    BY <1>4, <1>5

LEMMA UpdateStepsKeep ==
    ASSUME IInv, NEW p \in Pass, UpdateRead(p) \/ UpdateWrite(p)
    PROVE  IInv'
<1>1. QueueTypeOK /\ QueueTrue /\ pass[p] \in PassType /\ PassTrue(pass[p])
    BY Parts DEF QueueTypeOK, QueueTrue
<1>2. CASE UpdateRead(p)
    <2>1. PICK seen : seen = Read(pass[p].rec)
        OBVIOUS
    <2>2. seen \in [Record -> Entry] /\ \A r \in Record : EntryTrue(seen[r], r)
        <3>1. \A r \in Record : EntryTrue(Absent, r)
            BY DEF EntryTrue, Absent
        <3>2. QED
            BY <1>1, <2>1, <3>1, EmptyType DEF Read, QueueTypeOK, QueueTrue
    <2>3. PICK s : s = [pass[p] EXCEPT !.phase = "write", !.seen = seen]
        OBVIOUS
    <2>4. /\ s \in PassType /\ s.phase = "write" /\ s.rec = pass[p].rec /\ s.patch = pass[p].patch
          /\ s.seen = seen /\ s.had = pass[p].had /\ s.stage = pass[p].stage
          /\ s.todo = pass[p].todo
        BY <1>1, <2>2, <2>3 DEF PassType
    <2>5. pass[p].phase = "read" /\ s.rec # NoRecord
        BY <1>1, <1>2, <2>4 DEF UpdateRead, QueueTypeOK
    <2>6. PassTrue(s)
        BY <1>1, <2>2, <2>4, <2>5 DEF PassTrue
    <2>7. /\ pass' = [pass EXCEPT ![p] = s] /\ UNCHANGED intakeVars
          /\ UNCHANGED <<taken, store, entering, booted, doomed, faults>>
        BY <1>2, <2>1, <2>3 DEF UpdateRead, Set
    <2>8. store' \in [Record -> Entry] /\ \A r \in Record : EntryTrue(store'[r], r)
        BY <1>1, <2>7 DEF QueueTypeOK, QueueTrue
    <2>9. QED
        BY <2>4, <2>5, <2>6, <2>7, <2>8, PassMovesAlone
<1>3. CASE UpdateWrite(p)
    <2>1. /\ pass[p].phase = "write" /\ pass[p].patch # "none" /\ pass[p].patch \in Patch
          /\ pass[p].rec \in Record /\ pass[p].seen \in [Record -> Entry]
        BY <1>1, <1>3 DEF UpdateWrite, QueueTypeOK, PassType, PassTrue
    <2>2. store' = Written(pass[p].seen, pass[p].rec, pass[p].patch)
        BY <1>3 DEF UpdateWrite
    <2>3. store' \in [Record -> Entry] /\ \A r \in Record : EntryTrue(store'[r], r)
        BY <1>1, <2>1, <2>2, WrittenTrue DEF PassTrue
    <2>4. PICK s : s = IF pass[p].patch = "syncing"
                       THEN [pass[p] EXCEPT !.phase = "post", !.patch = "none", !.seen = Empty]
                       ELSE [pass[p] EXCEPT !.phase = "next", !.rec = NoRecord, !.patch = "none",
                                            !.seen = Empty]
        OBVIOUS
    <2>5. /\ s \in PassType /\ s.patch = "none" /\ s.seen = Empty /\ s.had = pass[p].had
          /\ s.stage = pass[p].stage /\ s.todo = pass[p].todo
          /\ \/ s.phase = "post" /\ s.rec = pass[p].rec
             \/ s.phase = "next" /\ s.rec = NoRecord
        BY <1>1, <2>4, EmptyType DEF PassType, Patch
    <2>6. s.rec = NoRecord <=> s.phase \in {"idle", "next"}
        BY <2>1, <2>5, QueueAssumption
    <2>7. PassTrue(s)
        BY <1>1, <2>5, AbsentTrue DEF PassTrue
    <2>8. /\ pass' = [pass EXCEPT ![p] = s] /\ UNCHANGED intakeVars
          /\ UNCHANGED <<taken, entering, booted, doomed, faults>>
        BY <1>3, <2>4 DEF UpdateWrite, Set, Continue
    <2>9. QED
        BY <2>1, <2>3, <2>5, <2>6, <2>7, <2>8, PassMovesAlone
<1>4. QED
    BY <1>2, <1>3

\* What a pass may become: well typed and right about what it knows.
SoundState(s) ==
    /\ s \in PassType
    /\ s.rec = NoRecord <=> s.phase \in {"idle", "next"}
    /\ PassTrue(s)

LEMMA PassIsSound ==
    ASSUME IInv, NEW p \in Pass
    PROVE  SoundState(pass[p])
BY Parts DEF QueueTypeOK, QueueTrue, SoundState

\* The pass turns to an update, to its next record, to another phase.
LEMMA UpdateIsSound ==
    ASSUME NEW s, SoundState(s), s.rec # NoRecord, NEW patch \in Patch, patch # "none",
           patch = "rejected" => Quarantined(s.rec),
           patch \in {"synced", "synced with photo"} => Held(s.rec),
           patch \in {"synced with photo", "photo sent"} => photoUri[s.rec]
    PROVE  SoundState([s EXCEPT !.phase = "read", !.patch = patch])
<1>1. PICK t : t = [s EXCEPT !.phase = "read", !.patch = patch]
    OBVIOUS
<1>2. /\ t \in PassType /\ t.phase = "read" /\ t.patch = patch /\ t.rec = s.rec
      /\ t.seen = s.seen /\ t.had = s.had /\ t.stage = s.stage /\ t.todo = s.todo
    BY <1>1 DEF SoundState, PassType
<1>3. PassTrue(t)
    BY <1>2 DEF SoundState, PassTrue
<1>4. QED
    BY <1>1, <1>2, <1>3 DEF SoundState

LEMMA ContinueIsSound ==
    ASSUME NEW s, SoundState(s)
    PROVE  SoundState([s EXCEPT !.phase = "next", !.rec = NoRecord, !.patch = "none",
                                !.seen = Empty])
<1>1. PICK t : t = [s EXCEPT !.phase = "next", !.rec = NoRecord, !.patch = "none",
                             !.seen = Empty]
    OBVIOUS
<1>2. /\ t \in PassType /\ t.phase = "next" /\ t.patch = "none" /\ t.rec = NoRecord
      /\ t.seen = Empty /\ t.had = s.had /\ t.stage = s.stage /\ t.todo = s.todo
    BY <1>1, EmptyType DEF SoundState, PassType, Patch
<1>3. PassTrue(t)
    BY <1>2, AbsentTrue DEF SoundState, PassTrue
<1>4. QED
    BY <1>1, <1>2, <1>3 DEF SoundState

LEMMA PhaseIsSound ==
    ASSUME NEW s, SoundState(s), s.rec # NoRecord, s.patch = "none",
           NEW phase \in {"posted", "photo", "sending"},
           phase # "posted" => Held(s.rec)
    PROVE  SoundState([s EXCEPT !.phase = phase])
<1>1. PICK t : t = [s EXCEPT !.phase = phase]
    OBVIOUS
<1>2. /\ t \in PassType /\ t.phase = phase /\ t.patch = s.patch /\ t.rec = s.rec
      /\ t.seen = s.seen /\ t.had = s.had /\ t.stage = s.stage /\ t.todo = s.todo
    BY <1>1 DEF SoundState, PassType
<1>3. PassTrue(t)
    BY <1>2 DEF SoundState, PassTrue
<1>4. QED
    BY <1>1, <1>2, <1>3 DEF SoundState

\* The same three, as moves of a pass.
LEMMA UpdateMoves ==
    ASSUME NEW p \in Pass, SoundState(pass[p]), pass[p].rec # NoRecord,
           NEW patch \in Patch, patch # "none", Update(p, patch),
           patch = "rejected" => Quarantined(pass[p].rec),
           patch \in {"synced", "synced with photo"} => Held(pass[p].rec),
           patch \in {"synced with photo", "photo sent"} => photoUri[pass[p].rec]
    PROVE  \E s : SoundState(s) /\ pass' = [pass EXCEPT ![p] = s]
<1>1. SoundState([pass[p] EXCEPT !.phase = "read", !.patch = patch])
    BY UpdateIsSound
<1>2. pass' = [pass EXCEPT ![p] = [pass[p] EXCEPT !.phase = "read", !.patch = patch]]
    BY DEF Update, Set
<1>3. QED
    BY <1>1, <1>2, Zenon

LEMMA ContinueMoves ==
    ASSUME NEW p \in Pass, SoundState(pass[p]), Continue(p)
    PROVE  \E s : SoundState(s) /\ pass' = [pass EXCEPT ![p] = s]
<1>1. SoundState([pass[p] EXCEPT !.phase = "next", !.rec = NoRecord, !.patch = "none",
                                 !.seen = Empty])
    BY ContinueIsSound
<1>2. QED
    BY <1>1, Zenon DEF Continue, Set

LEMMA PhaseMoves ==
    ASSUME NEW p \in Pass, SoundState(pass[p]), pass[p].rec # NoRecord,
           pass[p].patch = "none", NEW phase \in {"posted", "photo", "sending"},
           phase # "posted" => Held(pass[p].rec),
           Set(p, [pass[p] EXCEPT !.phase = phase])
    PROVE  \E s : SoundState(s) /\ pass' = [pass EXCEPT ![p] = s]
<1>1. SoundState([pass[p] EXCEPT !.phase = phase])
    BY PhaseIsSound
<1>2. QED
    BY <1>1, Zenon DEF Set

LEMMA AtRestIsSound == SoundState(AtRest) /\ AtRest.phase = "idle"
<1>1. AtRest \in PassType /\ AtRest.rec = NoRecord /\ AtRest.phase = "idle"
    BY EmptyType DEF AtRest, PassType, Patch
<1>2. PassTrue(AtRest)
    BY AbsentTrue DEF AtRest, PassTrue
<1>3. QED
    BY <1>1, <1>2 DEF SoundState

\* tryPhoto is through.
LEMMA PhotoDoneIsSound ==
    ASSUME IInv, NEW p \in Pass, NEW ok \in BOOLEAN, PhotoDone(p, ok),
           pass[p].rec # NoRecord, Held(pass[p].rec), ok => photoUri[pass[p].rec]
    PROVE  \E s : SoundState(s) /\ pass' = [pass EXCEPT ![p] = s]
<1>1. SoundState(pass[p])
    BY PassIsSound
<1>2. CASE Update(p, "synced with photo") /\ ok
    <2>1. "synced with photo" \in Patch
        BY DEF Patch
    <2>2. QED
        BY <1>1, <1>2, <2>1, UpdateMoves
<1>3. CASE Update(p, "synced")
    <2>1. "synced" \in Patch
        BY DEF Patch
    <2>2. QED
        BY <1>1, <1>3, <2>1, UpdateMoves
<1>4. CASE Update(p, "photo sent") /\ ok
    <2>1. "photo sent" \in Patch
        BY DEF Patch
    <2>2. QED
        BY <1>1, <1>4, <2>1, UpdateMoves
<1>5. CASE Continue(p)
    BY <1>1, <1>5, ContinueMoves
<1>6. QED
    BY <1>2, <1>3, <1>4, <1>5 DEF PhotoDone

LEMMA StoreSame ==
    ASSUME IInv, UNCHANGED store
    PROVE  store' \in [Record -> Entry] /\ \A r \in Record : EntryTrue(store'[r], r)
BY Parts DEF QueueTypeOK, QueueTrue

LEMMA NextRecordKeeps ==
    ASSUME IInv, NEW p \in Pass, StartPass(p) \/ NextRecord(p)
    PROVE  IInv'
<1>1. QueueTypeOK /\ QueueTrue /\ SoundState(pass[p]) /\ pass[p] \in PassType
    BY Parts, PassIsSound DEF SoundState
<1>2. /\ UNCHANGED intakeVars /\ UNCHANGED <<taken, store, entering, booted, doomed, faults>>
      /\ pass[p].phase \notin {"posted", "sending"}
    BY DEF StartPass, NextRecord
<1>3. ASSUME NEW s, SoundState(s), pass' = [pass EXCEPT ![p] = s] PROVE IInv'
    BY <1>2, <1>3, StoreSame, PassMovesAlone DEF SoundState
<1>4. ASSUME NEW s \in PassType, s.phase = "next", s.rec = NoRecord, s.patch = "none",
             s.seen = Empty, \A r \in s.had : photoUri[r],
             s.stage = "photos" => \A r \in s.todo : Held(r)
      PROVE  SoundState(s)
    <2>1. PassTrue(s)
        BY <1>4, AbsentTrue DEF PassTrue
    <2>2. QED
        BY <1>4, <2>1 DEF SoundState
<1>5. CASE StartPass(p)
    <2>1. PICK had : had = {r \in Pending : store[r].sent}
        OBVIOUS
    <2>2. had \subseteq Record /\ Pending \subseteq Record /\ \A r \in had : photoUri[r]
        BY <1>1, <2>1 DEF Pending, QueueTrue, EntryTrue
    <2>3. PICK s : s = [AtRest EXCEPT !.phase = "next", !.todo = Pending, !.had = had]
        OBVIOUS
    <2>4. /\ s \in PassType /\ s.phase = "next" /\ s.rec = NoRecord /\ s.patch = "none"
          /\ s.seen = Empty /\ s.had = had /\ s.stage = "weighins"
        BY <2>2, <2>3, EmptyType DEF AtRest, PassType, Patch
    <2>5. pass' = [pass EXCEPT ![p] = s]
        BY <1>5, <2>1, <2>3 DEF StartPass, Set
    <2>6. QED
        BY <1>3, <1>4, <2>2, <2>4, <2>5
<1>6. ASSUME NEW r \in pass[p].todo, pass[p].phase = "next",
             NEW s, s = [pass[p] EXCEPT
                            !.todo = pass[p].todo \ {r}, !.rec = r,
                            !.phase = IF pass[p].stage = "photos" THEN "photo" ELSE "read",
                            !.patch = IF pass[p].stage = "photos" THEN "none" ELSE "syncing"]
      PROVE  SoundState(s)
    <2>1. /\ s \in PassType /\ s.rec = r /\ s.rec \in Record
          /\ s.seen = pass[p].seen /\ s.had = pass[p].had /\ s.stage = pass[p].stage
          /\ s.todo \subseteq pass[p].todo
          /\ \/ s.stage = "photos" /\ s.phase = "photo" /\ s.patch = "none"
             \/ s.stage # "photos" /\ s.phase = "read" /\ s.patch = "syncing"
        BY <1>1, <1>6 DEF PassType, Patch
    <2>2. PassTrue(s)
        BY <1>1, <1>6, <2>1 DEF SoundState, PassTrue
    <2>3. QED
        BY <2>1, <2>2, QueueAssumption DEF SoundState
<1>7. CASE NextRecord(p)
    <2>1. ASSUME NEW r \in pass[p].todo,
                 Set(p, [pass[p] EXCEPT
                            !.todo = @ \ {r}, !.rec = r,
                            !.phase = IF pass[p].stage = "photos" THEN "photo" ELSE "read",
                            !.patch = IF pass[p].stage = "photos" THEN "none" ELSE "syncing"])
          PROVE  IInv'
        <3>1. PICK s : s = [pass[p] EXCEPT
                            !.todo = pass[p].todo \ {r}, !.rec = r,
                            !.phase = IF pass[p].stage = "photos" THEN "photo" ELSE "read",
                            !.patch = IF pass[p].stage = "photos" THEN "none" ELSE "syncing"]
            OBVIOUS
        <3>2. pass' = [pass EXCEPT ![p] = s] /\ pass[p].phase = "next"
            BY <1>7, <2>1, <3>1 DEF Set, NextRecord
        <3>3. SoundState(s)
            BY <1>6, <3>1, <3>2
        <3>4. QED
            BY <1>3, <3>2, <3>3
    <2>2. CASE Set(p, [AtRest EXCEPT !.phase = "next", !.stage = "photos", !.todo = PendingPhotos])
        <3>1. PICK s : s = [AtRest EXCEPT !.phase = "next", !.stage = "photos",
                                          !.todo = PendingPhotos]
            OBVIOUS
        <3>2. PendingPhotos \subseteq Record /\ \A r \in PendingPhotos : Held(r)
            BY <1>1 DEF PendingPhotos, QueueTrue, EntryTrue
        <3>3. /\ s \in PassType /\ s.phase = "next" /\ s.rec = NoRecord /\ s.patch = "none"
              /\ s.seen = Empty /\ s.had = {} /\ s.todo = PendingPhotos
            BY <3>1, <3>2, EmptyType DEF AtRest, PassType, Patch
        <3>4. pass' = [pass EXCEPT ![p] = s]
            BY <2>2, <3>1 DEF Set
        <3>5. QED
            BY <1>3, <1>4, <3>2, <3>3, <3>4
    <2>3. CASE Set(p, AtRest)
        BY <1>3, <2>3, AtRestIsSound DEF Set
    <2>4. QED
        BY <1>7, <2>1, <2>2, <2>3 DEF NextRecord
<1>8. QED
    BY <1>5, <1>7

\* A request goes out, for the record in hand.
LEMMA RequestGoesOut ==
    ASSUME IInv, NEW p \in Pass, NEW s, SoundState(s), s.phase \in {"posted", "sending"},
           pass' = [pass EXCEPT ![p] = s], pass[p].phase \notin {"posted", "sending"},
           NEW d \in Request, d.by = p, d.rec = s.rec, d.step \in {"look", "open"},
           d.answer = "none", requests' = requests \cup {d},
           UNCHANGED <<rows, revoked, gate, file, photoUri>>,
           UNCHANGED <<taken, store, entering, booted, doomed, faults>>
    PROVE  IInv'
<1>1. IntakeTypeOK /\ QueueTypeOK /\ BackendTrue /\ AwaitedOnce
    BY Parts
<1>2. IntakeTypeOK'
    BY <1>1 DEF IntakeTypeOK, StandingOK
<1>3. \A o \in requests' : RequestTrue(o)'
    BY <1>1 DEF BackendTrue, RequestTrue, Held, Quarantined
<1>4. BackendTrue'
    BY <1>1, <1>3 DEF BackendTrue, Held
<1>5. \A o \in requests : o.by # p
    BY <1>1 DEF AwaitedOnce, Awaited
<1>6. StandingOK' /\ faults' \in 0 .. MaxFaults
    <2>1. StandingOK'
        BY <1>2 DEF IntakeTypeOK, StandingOK
    <2>2. faults' \in 0 .. MaxFaults
        BY <1>1 DEF QueueTypeOK
    <2>3. QED
        BY <2>1, <2>2
<1>7. store' \in [Record -> Entry] /\ \A r \in Record : EntryTrue(store'[r], r)
    BY StoreSame
<1>8. s \in PassType /\ (s.rec = NoRecord <=> s.phase \in {"idle", "next"}) /\ PassTrue(s)
    BY DEF SoundState
<1>9. \A o \in requests' : o.by \in Pass =>
          IF o.by = p THEN o.rec = s.rec /\ s.phase \in {"posted", "sending"}
                      ELSE o \in requests
    BY <1>5
<1>10. \A o, e \in requests' : o.by = p /\ e.by = p => o = e
    BY <1>5
<1>11. QED
    BY <1>2, <1>4, <1>6, <1>7, <1>8, <1>9, <1>10, OnePassMoves

LEMMA RequestType ==
    ASSUME NEW p \in Pass, NEW r \in Record
    PROVE  WeighInRequest(p, r) \in Request /\ PhotoRequest(p, r) \in Request
BY DEF WeighInRequest, PhotoRequest, Request, Pass, Verdict, Answer

LEMMA PostKeeps ==
    ASSUME IInv, NEW p \in Pass, Post(p)
    PROVE  IInv'
<1>1. SoundState(pass[p]) /\ pass[p].phase = "post"
    BY PassIsSound DEF Post
<1>2. pass[p].rec # NoRecord /\ pass[p].rec \in Record /\ pass[p].patch = "none"
    BY <1>1 DEF SoundState, PassType, PassTrue
<1>3. PICK s : s = [pass[p] EXCEPT !.phase = "posted"]
    OBVIOUS
<1>4. SoundState(s) /\ s.phase = "posted" /\ s.rec = pass[p].rec
    BY <1>1, <1>2, <1>3, PhaseIsSound DEF SoundState, PassType
<1>5. PICK d : d = WeighInRequest(p, pass[p].rec)
    OBVIOUS
<1>6. d \in Request /\ d.by = p /\ d.rec = s.rec /\ d.step = "look" /\ d.answer = "none"
    BY <1>2, <1>4, <1>5, RequestType DEF WeighInRequest
<1>7. /\ pass' = [pass EXCEPT ![p] = s] /\ requests' = requests \cup {d}
      /\ UNCHANGED <<rows, revoked, gate, file, photoUri>>
      /\ UNCHANGED <<taken, store, entering, booted, doomed, faults>>
    BY <1>3, <1>5 DEF Post, Set, database
<1>8. QED
    BY <1>1, <1>4, <1>6, <1>7, RequestGoesOut

LEMMA SendPhotoKeeps ==
    ASSUME IInv, NEW p \in Pass, SendPhoto(p)
    PROVE  IInv'
<1>1. SoundState(pass[p]) /\ pass[p].phase = "photo"
    BY PassIsSound DEF SendPhoto
<1>2. /\ pass[p].rec # NoRecord /\ pass[p].rec \in Record /\ pass[p].patch = "none"
      /\ Held(pass[p].rec) /\ \A r \in pass[p].had : photoUri[r]
    BY <1>1 DEF SoundState, PassType, PassTrue
<1>3. CASE pass[p].rec \in pass[p].had /\ PhotoDone(p, TRUE) /\ UNCHANGED requests
    <2>1. PICK s : SoundState(s) /\ pass' = [pass EXCEPT ![p] = s]
        <3>1. photoUri[pass[p].rec]
            BY <1>2, <1>3
        <3>2. QED
            BY <1>2, <1>3, <3>1, PhotoDoneIsSound
    <2>2. UNCHANGED intakeVars /\ UNCHANGED <<taken, store, entering, booted, doomed, faults>>
        BY <1>3 DEF SendPhoto, intakeVars, database
    <2>3. QED
        BY <1>1, <2>1, <2>2, StoreSame, PassMovesAlone DEF SoundState
<1>4. CASE /\ requests' = requests \cup {PhotoRequest(p, pass[p].rec)}
           /\ Set(p, [pass[p] EXCEPT !.phase = "sending"])
    <2>1. PICK s : s = [pass[p] EXCEPT !.phase = "sending"]
        OBVIOUS
    <2>2. SoundState(s) /\ s.phase = "sending" /\ s.rec = pass[p].rec
        BY <1>1, <1>2, <2>1, PhaseIsSound DEF SoundState, PassType
    <2>3. PICK d : d = PhotoRequest(p, pass[p].rec)
        OBVIOUS
    <2>4. d \in Request /\ d.by = p /\ d.rec = s.rec /\ d.step = "open" /\ d.answer = "none"
        BY <1>2, <2>2, <2>3, RequestType DEF PhotoRequest
    <2>5. /\ pass' = [pass EXCEPT ![p] = s] /\ requests' = requests \cup {d}
          /\ UNCHANGED <<rows, revoked, gate, file, photoUri>>
          /\ UNCHANGED <<taken, store, entering, booted, doomed, faults>>
        BY <1>4, <2>1, <2>3 DEF SendPhoto, Set, database
    <2>6. QED
        BY <1>1, <2>2, <2>4, <2>5, RequestGoesOut
<1>5. QED
    BY <1>3, <1>4 DEF SendPhoto

\* The pass waits no longer: none of the requests left is its own.
LEMMA WaitEnds ==
    ASSUME IInv, NEW p \in Pass, NEW s, SoundState(s), pass' = [pass EXCEPT ![p] = s],
           UNCHANGED <<rows, revoked, gate, file, photoUri>>,
           UNCHANGED <<taken, store, entering, booted, doomed>>, faults' \in 0 .. MaxFaults,
           \A d \in requests' : \E q \in requests :
               d = q \/ (d \in Request /\ d.by = Nobody /\ d = [q EXCEPT !.by = Nobody]),
           \A d \in requests' : d.by # p
    PROVE  IInv'
<1>1. StandingOK'
    BY Parts DEF IntakeTypeOK, StandingOK
<1>2. IntakeTypeOK' /\ BackendTrue'
    BY <1>1, BackendRests
<1>3. \A d \in requests' : d.by \in Pass => d \in requests
    BY IntakeAssumption DEF Pass
<1>4. QED
    BY <1>1, <1>2, <1>3, StoreSame, OnePassMoves DEF SoundState

LEMMA AnsweredKeeps ==
    ASSUME IInv, NEW p \in Pass, NEW q \in requests, Answered(p, q)
    PROVE  IInv'
<1>1. /\ SoundState(pass[p]) /\ q.by = p /\ q.step = "done" /\ q \in Request
      /\ requests' = requests \ {q} /\ RequestTrue(q) /\ AwaitedOnce
    BY PassIsSound, Parts DEF Answered, IntakeTypeOK, BackendTrue
<1>2. q.rec = pass[p].rec /\ pass[p].phase \in {"posted", "sending"}
    BY <1>1 DEF AwaitedOnce, Awaited
<1>3. pass[p].rec # NoRecord /\ pass[p].rec \in Record /\ pass[p].patch = "none"
    BY <1>1, <1>2 DEF SoundState, PassType, PassTrue
<1>4. q.answer \in {"created", "rejected", "duplicate", "stored", "refused"}
    BY <1>1 DEF RequestTrue, Request, Answer
<1>5. \E s : SoundState(s) /\ pass' = [pass EXCEPT ![p] = s]
    <2>1. CASE q.answer = "rejected"
        <3>1. Quarantined(pass[p].rec)
            BY <1>1, <1>2, <2>1 DEF RequestTrue
        <3>2. Update(p, "rejected") /\ "rejected" \in Patch
            BY <2>1 DEF Answered, Patch
        <3>3. QED
            BY <1>1, <1>3, <3>1, <3>2, UpdateMoves
    <2>2. CASE q.answer = "stored"
        <3>1. photoUri[pass[p].rec] /\ PhotoDone(p, TRUE)
            BY <1>1, <1>2, <2>2 DEF RequestTrue, Answered
        <3>2. Held(pass[p].rec)
            BY <1>3, <3>1, Parts DEF BackendTrue
        <3>3. QED
            BY <1>3, <3>1, <3>2, PhotoDoneIsSound
    <2>3. CASE q.answer \in {"created", "duplicate"}
        <3>1. Held(pass[p].rec)
            BY <1>1, <1>2, <2>3 DEF RequestTrue
        <3>2. Set(p, [pass[p] EXCEPT !.phase = "photo"])
            BY <2>3 DEF Answered
        <3>3. QED
            BY <1>1, <1>3, <3>1, <3>2, PhaseMoves
    <2>4. CASE q.answer = "refused" /\ pass[p].phase = "posted"
        <3>1. Update(p, "queued") /\ "queued" \in Patch
            BY <2>4 DEF Answered, Patch
        <3>2. QED
            BY <1>1, <1>3, <3>1, UpdateMoves
    <2>5. CASE q.answer = "refused" /\ pass[p].phase = "sending"
        <3>1. PhotoDone(p, FALSE) /\ Held(pass[p].rec)
            BY <1>1, <2>5 DEF Answered, SoundState, PassTrue
        <3>2. QED
            BY <1>3, <3>1, PhotoDoneIsSound
    <2>6. QED
        BY <1>2, <1>4, <2>1, <2>2, <2>3, <2>4, <2>5
<1>6. \A d \in requests' : d.by # p
    BY <1>1 DEF AwaitedOnce, OneAwaited
<1>7. /\ UNCHANGED <<rows, revoked, gate, file, photoUri>>
      /\ UNCHANGED <<taken, store, entering, booted, doomed>> /\ faults' \in 0 .. MaxFaults
    BY Parts DEF Answered, database, QueueTypeOK
<1>8. \A d \in requests' : \E o \in requests : d = o
    BY <1>1, Zenon
<1>9. QED
    BY <1>5, <1>6, <1>7, <1>8, WaitEnds

LEMMA AbandonedRequests ==
    ASSUME IInv, NEW ps \in SUBSET Pass, requests' = Abandoned(ps)
    PROVE  /\ \A d \in requests' : \E q \in requests :
                  d = q \/ (d \in Request /\ d.by = Nobody /\ d = [q EXCEPT !.by = Nobody])
           /\ \A d \in requests' : d.by \notin ps
<1>1. requests \subseteq Request /\ Nobody \notin Pass
    BY Parts, IntakeAssumption DEF IntakeTypeOK, Pass
<1>2. ASSUME NEW q \in requests
      PROVE  [q EXCEPT !.by = Nobody] \in Request /\ [q EXCEPT !.by = Nobody].by = Nobody
    BY <1>1 DEF Request
<1>3. QED
    BY <1>1, <1>2 DEF Abandoned

LEMMA NoAnswerKeeps ==
    ASSUME IInv, NEW p \in Pass, NoAnswer(p)
    PROVE  IInv'
<1>1. SoundState(pass[p]) /\ pass[p].phase \in {"posted", "sending"}
    BY PassIsSound DEF NoAnswer
<1>2. /\ pass[p].rec # NoRecord /\ pass[p].rec \in Record /\ pass[p].patch = "none"
      /\ pass[p].phase = "sending" => Held(pass[p].rec)
    BY <1>1 DEF SoundState, PassType, PassTrue
<1>3. \E s : SoundState(s) /\ pass' = [pass EXCEPT ![p] = s]
    <2>1. CASE Update(p, "queued")
        <3>1. "queued" \in Patch
            BY DEF Patch
        <3>2. QED
            BY <1>1, <1>2, <2>1, <3>1, UpdateMoves
    <2>2. CASE pass[p].phase = "sending" /\ PhotoDone(p, FALSE)
        BY <1>2, <2>2, PhotoDoneIsSound
    <2>3. QED
        BY <2>1, <2>2 DEF NoAnswer
<1>4. faults' \in 0 .. MaxFaults
    BY FaultCounted, Parts DEF NoAnswer, QueueTypeOK
<1>5. /\ UNCHANGED <<rows, revoked, gate, file, photoUri>>
      /\ UNCHANGED <<taken, store, entering, booted, doomed>>
      /\ requests' = Abandoned({p})
    BY DEF NoAnswer, database
<1>6. /\ \A d \in requests' : \E q \in requests :
             d = q \/ (d \in Request /\ d.by = Nobody /\ d = [q EXCEPT !.by = Nobody])
      /\ \A d \in requests' : d.by # p
    <2>1. PICK ps \in SUBSET Pass : ps = {p}
        OBVIOUS
    <2>2. requests' = Abandoned(ps)
        BY <1>5, <2>1
    <2>3. QED
        BY <2>1, <2>2, AbandonedRequests
<1>7. QED
    BY <1>3, <1>4, <1>5, <1>6, WaitEnds

LEMMA KillKeeps == IInv /\ Kill => IInv'
<1> SUFFICES ASSUME IInv, Kill PROVE IInv'
    OBVIOUS
<1>1. QueueTypeOK /\ QueueTrue
    BY Parts
<1>2. /\ UNCHANGED <<rows, revoked, gate, file, photoUri>> /\ UNCHANGED <<taken, store>>
      /\ requests' = Abandoned(Pass) /\ pass' = [q \in Pass |-> AtRest]
      /\ entering' = [rec |-> NoRecord, seen |-> Empty] /\ booted' = FALSE /\ doomed' = {}
      /\ faults' \in 0 .. MaxFaults
    BY FaultCounted DEF Kill, database
<1>3. IntakeTypeOK' /\ BackendTrue'
    <2>1. StandingOK'
        BY <1>2, Parts DEF IntakeTypeOK, StandingOK
    <2>2. QED
        BY <1>2, <2>1, AbandonedRequests, BackendRests
<1>4. \A d \in requests' : d.by \notin Pass
    BY <1>2, AbandonedRequests
<1>5. AwaitedOnce'
    BY <1>4 DEF AwaitedOnce, Awaited, OneAwaited
<1>6. QueueTypeOK'
    <2>1. booted' \in BOOLEAN
        BY <1>2, Zenon
    <2>2. AtRest \in PassType /\ AtRest.rec = NoRecord /\ AtRest.phase = "idle"
        BY AtRestIsSound DEF SoundState, AtRest
    <2>3. QED
        BY <1>1, <1>2, <2>1, <2>2, EmptyType DEF QueueTypeOK
<1>7. QueueTrue'
    <2>1. ASSUME NEW p \in Pass PROVE PassTrue(pass[p])'
        <3>1. PassTrue(AtRest)'
            BY AtRestIsSound, <1>2 DEF SoundState, PassTrue, EntryTrue, Held, Quarantined
        <3>2. QED
            BY <1>2, <3>1, PassTrueAt
    <2>2. \A r \in Record : EntryTrue(store[r], r)' /\ EntryTrue(entering.seen[r], r)'
        BY <1>1, <1>2, AbsentTrue DEF QueueTrue, EntryTrue, Held, Quarantined
    <2>3. QED
        BY <1>2, <2>1, <2>2 DEF QueueTrue
<1>8. QED
    BY <1>3, <1>5, <1>6, <1>7, PartsNext

-----------------------------------------------------------------------------
(* The theorems.                                                           *)

LEMMA NextIInv == IInv /\ [Next]_vars => IInv'
<1> SUFFICES ASSUME IInv, [Next]_vars PROVE IInv'
    OBVIOUS
<1>1. ASSUME NEW p \in Pass, Step(p) PROVE IInv'
    BY <1>1, NextRecordKeeps, UpdateStepsKeep, PostKeeps, SendPhotoKeeps, AnsweredKeeps,
       NoAnswerKeeps DEF Step
<1>2. CASE UNCHANGED vars
    <2>1. UNCHANGED intakeVars /\ UNCHANGED app
        BY <1>2 DEF vars
    <2>2. QED
        BY <2>1, StoreSame, Parts, StoreMoves DEF app, QueueTypeOK, QueueTrue
<1>3. QED
    BY <1>1, <1>2, CaptureKeeps, PruneKeeps, IntakeKeeps, LostKeeps, KillKeeps DEF Next

\* Whatever the two apps and the backend do, the queue, the sync passes and the
\* requests under way say nothing of the backend that is not so.
THEOREM Invariance == Spec => []IInv
<1>1. IInv /\ [Next]_vars => IInv'
    BY NextIInv
<1>2. QED
    BY InitIInv, <1>1, PTL DEF Spec

\* Every variable stays well formed.
THEOREM TypeCorrect == Spec => []TypeOK
<1>1. IInv => TypeOK
    BY DEF IInv
<1>2. QED
    BY Invariance, <1>1, PTL

\* One signed weigh-in is one row of collection_events at most: EventsService.ingest
\* never counts it twice, however often the queue posts it.
THEOREM CountedOnce == Spec => []OneEventPerWeighIn
<1>1. ASSUME NEW list, list \in {<< >>, <<"clean">>, <<"quarantined">>} PROVE Len(list) <= 1
    <2>1. CASE list = << >>
        BY <2>1
    <2>2. CASE list = <<"clean">>
        BY <2>2
    <2>3. CASE list = <<"quarantined">>
        BY <2>3
    <2>4. QED
        BY <1>1, <2>1, <2>2, <2>3, Zenon
<1>2. IInv => OneEventPerWeighIn
    <2>1. IInv => \A r \in Record : rows[r] \in {<< >>, <<"clean">>, <<"quarantined">>}
        BY DEF IInv, BackendTrue
    <2>2. QED
        BY <1>1, <2>1 DEF OneEventPerWeighIn
<1>3. QED
    BY Invariance, <1>2, PTL

\* What the queue tells the collector is so: a weigh-in shown as synced or
\* rejected, or a photo shown as sent, is on the backend.
THEOREM QueueIsTruthful == Spec => []ClaimsAreTrue
<1>1. IInv => ClaimsAreTrue
    BY DEF IInv, EntryTrue, ClaimsAreTrue, Held, Quarantined
<1>2. QED
    BY Invariance, <1>1, PTL

-----------------------------------------------------------------------------
(* No weigh-in is lost by the PWA, whose updates write one row each.       *)

\* A record leaves the queue only when the backend has its photo, and it is in
\* the queue when the collector is told it is recorded.
Kept ==
    \A r \in Record :
        store'[r] = Absent => photoUri[r] \/ (store[r] = Absent /\ (r \in taken' => r \in taken))

LEMMA BackendKeeps == IInv /\ [Next]_vars => NothingTakenBack
<1> SUFFICES ASSUME IInv, [Next]_vars PROVE NothingTakenBack
    OBVIOUS
<1>1. /\ rows \in [Record -> Seq(Verdict)] /\ photoUri \in [Record -> BOOLEAN]
      /\ requests \subseteq Request
    BY Parts DEF IntakeTypeOK, StandingOK
<1>2. ASSUME NEW q \in requests, Serve(q) PROVE NothingTakenBack
    <2>1. q.rec \in Record
        BY <1>1 DEF Request
    <2>2. CASE IngestSave(q)
        BY <1>1, <2>1, <2>2 DEF IngestSave, NothingTakenBack, Held
    <2>3. CASE PhotoRow(q)
        <3>1. photoUri' = [photoUri EXCEPT ![q.rec] = TRUE] /\ UNCHANGED rows
            BY <2>3 DEF PhotoRow
        <3>2. \A r \in Record : photoUri[r] => photoUri'[r]
            BY <1>1, <3>1
        <3>3. QED
            BY <3>1, <3>2 DEF NothingTakenBack
    <2>4. CASE IngestLookup(q) \/ PhotoOpen(q) \/ PhotoFill(q)
        BY <2>4 DEF IngestLookup, PhotoOpen, PhotoFill, database, NothingTakenBack
    <2>5. QED
        BY <1>2, <2>2, <2>3, <2>4 DEF Serve
<1>3. CASE UNCHANGED <<rows, photoUri>>
    BY <1>3 DEF NothingTakenBack
<1>4. CASE Intake
    BY <1>2, <1>3, <1>4 DEF Intake, RevokeDevice, CountUses, DeleteCode, CreateMaterial
<1>5. ASSUME NEW p \in Pass, Step(p) PROVE UNCHANGED <<rows, photoUri>>
    BY <1>5 DEF Step, StartPass, NextRecord, UpdateRead, UpdateWrite, Post, SendPhoto, Answered,
       NoAnswer, intakeVars, database
<1>6. CASE Lost \/ Kill
    BY <1>3, <1>6 DEF Lost, Lose, Kill, database
<1>7. CASE PruneSynced \/ Enqueue \/ \E r \in Record : Drop(r) \/ Capture(r)
    BY <1>3, <1>7 DEF PruneSynced, Enqueue, Drop, Capture, intakeVars
<1>8. CASE UNCHANGED vars
    BY <1>3, <1>8 DEF vars, intakeVars
<1>9. QED
    BY <1>3, <1>4, <1>5, <1>6, <1>7, <1>8 DEF Next

LEMMA PatchedStays ==
    ASSUME NEW e \in Entry, e # Absent, NEW patch \in Patch, patch # "none",
           e.status = "absent" => e = Absent
    PROVE  Patched(e, patch) # Absent
<1>1. CASE patch \in {"rejected", "synced", "synced with photo", "photo sent"}
    BY <1>1 DEF Patched, Absent, Entry
<1>2. CASE patch \in {"syncing", "queued"}
    BY <1>2 DEF Patched, Absent, Entry
<1>3. QED
    BY <1>1, <1>2 DEF Patch

LEMMA UpdateDropsNothing ==
    ASSUME IInv, ~WholeQueue, NEW p \in Pass, UpdateWrite(p)
    PROVE  \A r \in Record : store'[r] = Absent => store[r] = Absent
<1>1. SoundState(pass[p]) /\ pass[p].phase = "write" /\ store \in [Record -> Entry]
    BY PassIsSound, Parts DEF UpdateWrite, QueueTypeOK
<1>2. PICK t, seen, patch : t = pass[p].rec /\ seen = pass[p].seen /\ patch = pass[p].patch
    OBVIOUS
<1>3. /\ t \in Record /\ patch \in Patch /\ patch # "none" /\ seen[t] \in Entry
      /\ seen[t].status = "absent" => seen[t] = Absent
    BY <1>1, <1>2 DEF SoundState, PassType, PassTrue, EntryTrue
<1>4. store' = Written(seen, t, patch)
    BY <1>2 DEF UpdateWrite
<1>5. CASE seen[t] = Absent
    BY <1>4, <1>5 DEF Written
<1>6. CASE seen[t] # Absent
    <2>1. PICK e : e = Patched(seen[t], patch)
        OBVIOUS
    <2>2. store' = [store EXCEPT ![t] = e] /\ e # Absent
        BY <1>3, <1>4, <1>6, <2>1, PatchedStays DEF Written
    <2>3. QED
        BY <1>1, <1>3, <2>2
<1>7. QED
    BY <1>5, <1>6

LEMMA QueueKeeps ==
    ASSUME IInv, ~WholeQueue, [Next]_vars
    PROVE  Kept
<1>1. /\ store \in [Record -> Entry] /\ \A r \in doomed : photoUri[r]
      /\ entering.rec \in Record \cup {NoRecord}
    BY Parts DEF QueueTypeOK, QueueTrue
<1>2. CASE UNCHANGED <<store, taken>>
    BY <1>2 DEF Kept
<1>3. ASSUME NEW t \in Record, Drop(t) PROVE Kept
    BY <1>1, <1>3 DEF Drop, Kept
<1>4. CASE Enqueue
    <2>1. PICK t : t = entering.rec
        OBVIOUS
    <2>2. t \in Record /\ store' = [store EXCEPT ![t] = Queued] /\ taken' = taken \cup {t}
        BY <1>1, <1>4, <2>1 DEF Enqueue
    <2>3. Queued # Absent
        BY DEF Queued, Absent
    <2>4. QED
        BY <1>1, <2>2, <2>3 DEF Kept
<1>5. ASSUME NEW p \in Pass, Step(p) PROVE Kept
    <2>1. CASE UpdateWrite(p)
        BY <2>1, UpdateDropsNothing DEF UpdateWrite, Kept
    <2>2. CASE ~UpdateWrite(p)
        <3>1. \/ StartPass(p) \/ NextRecord(p) \/ UpdateRead(p) \/ Post(p) \/ SendPhoto(p)
              \/ NoAnswer(p) \/ \E q \in requests : Answered(p, q)
            BY <1>5, <2>2 DEF Step
        <3>2. UNCHANGED <<store, taken>>
            BY <3>1, Zenon
               DEF StartPass, NextRecord, UpdateRead, Post, SendPhoto, Answered, NoAnswer
        <3>3. QED
            BY <1>2, <3>2
    <2>3. QED
        BY <2>1, <2>2, Zenon
<1>6. CASE PruneSynced \/ Intake \/ Lost \/ Kill \/ UNCHANGED vars \/ \E r \in Record : Capture(r)
    BY <1>2, <1>6 DEF PruneSynced, Intake, Lost, Kill, Capture, app, vars
<1>7. QED
    BY <1>3, <1>4, <1>5, <1>6 DEF Next

\* The PWA loses no weigh-in it has confirmed to the collector: each one is in
\* its queue until the backend has the row and the photo.
THEOREM NothingIsLost ==
    ASSUME ~WholeQueue
    PROVE  Spec => []NothingLost
<1>1. Init => NothingLost
    BY DEF Init, NothingLost
<1>2. IInv /\ NothingLost /\ [Next]_vars => NothingLost'
    <2> SUFFICES ASSUME IInv, NothingLost, [Next]_vars,
                        NEW r \in Record, r \in taken', store'[r] = Absent
                 PROVE  Held(r)' /\ photoUri'[r]
        <3>1. IInv /\ [Next]_vars => taken' \subseteq Record
            BY NextIInv, Parts DEF IInv, TypeOK
        <3>2. QED
            BY <3>1 DEF NothingLost, Held
    <2>1. Held(r) /\ photoUri[r]
        <3>1. photoUri[r] => Held(r)
            BY Parts DEF BackendTrue
        <3>2. QED
            BY <3>1, QueueKeeps DEF Kept, NothingLost, Held
    <2>2. QED
        BY <2>1, BackendKeeps DEF NothingTakenBack, Held
<1>3. QED
    BY <1>1, <1>2, Invariance, PTL DEF Spec
=============================================================================
