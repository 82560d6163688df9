---------------------------- MODULE EventIntake ----------------------------
(***************************************************************************)
(* The backend's two public endpoints for a phone: POST /events            *)
(* (EventsService.ingest) and POST /events/:id/photo (PhotosService.attach *)
(* and PhotoStore.put), serving any number of requests at the same time.   *)
(*                                                                         *)
(* A weigh-in stands for its payloadHash and a photo for its digest, so    *)
(* two requests about the same record carry the same bytes.  Phones put    *)
(* requests into the variable requests and read their answers there.       *)
(***************************************************************************)
EXTENDS Naturals, Sequences, FiniteSets

CONSTANTS
    Record,     \* signed weigh-ins
    Bad,        \* those whose payload fails an integrity check
    Doubtful,   \* those that ingest may refuse outright: see gate
    Unfit,      \* those whose photo attach never takes
    Sender,     \* whoever may be waiting for an answer
    Nobody      \* the sender of a request nobody waits for any more

ASSUME IntakeAssumption ==
    Bad \cup Doubtful \cup Unfit \subseteq Record /\ Nobody \notin Sender

VARIABLES
    rows,       \* of each record: its collection_events rows
    revoked,    \* the device that signed the records is revoked
    gate,       \* of each record: whether the backend knows its schema, material,
                \* device, collector and hub ("open"), does not ("shut"), or is
                \* about to delete its material ("closing")
    file,       \* of each photo: what the store holds under its digest
    photoUri,   \* of each record: its event points at its photo
    requests    \* the requests on their way, being served, or answered

database == <<rows, revoked, gate, photoUri>>
intakeVars == <<rows, revoked, gate, file, photoUri, requests>>

Verdict == {"clean", "quarantined"}
Answer == {"none", "created", "rejected", "duplicate", "stored", "refused"}
Request == [by : Sender \cup {Nobody}, rec : Record,
            step : {"look", "save", "open", "fill", "row", "done"}, verdict : Verdict, answer : Answer]

\* What a phone sends.
WeighInRequest(p, r) ==
    [by |-> p, rec |-> r, step |-> "look", verdict |-> "clean", answer |-> "none"]
PhotoRequest(p, r) ==
    [by |-> p, rec |-> r, step |-> "open", verdict |-> "clean", answer |-> "none"]

IntakeInit ==
    /\ rows = [r \in Record |-> << >>]
    /\ revoked = FALSE
    /\ gate \in {g \in [Record -> {"open", "shut"}] : \A r \in Record \ Doubtful : g[r] = "open"}
    /\ file = [r \in Record |-> "none"]
    /\ photoUri = [r \in Record |-> FALSE]
    /\ requests = {}

GoTo(q, step) == requests' = (requests \ {q}) \cup {[q EXCEPT !.step = step]}
Reply(q, answer) ==
    requests' = (requests \ {q}) \cup {[q EXCEPT !.step = "done", !.answer = answer]}

\* RegistryService.revokeDevice.
RevokeDevice ==
    /\ ~revoked
    /\ revoked' = TRUE
    /\ UNCHANGED <<rows, gate, file, photoUri, requests>>

\* MaterialsService.remove deletes a code that no event carries when it counts; a
\* weigh-in may be stored between the count and the deletion.
CountUses(r) ==
    /\ r \in Doubtful /\ gate[r] = "open" /\ rows[r] = << >>
    /\ gate' = [gate EXCEPT ![r] = "closing"]
    /\ UNCHANGED <<rows, revoked, file, photoUri, requests>>

DeleteCode(r) ==
    /\ gate[r] = "closing"
    /\ gate' = [gate EXCEPT ![r] = "shut"]
    /\ UNCHANGED <<rows, revoked, file, photoUri, requests>>

\* MaterialsService.create: an admin adds the material that was missing.  Devices,
\* collectors and hubs have generated ids, so an unknown one stays unknown.
CreateMaterial(r) ==
    /\ gate[r] = "shut"
    /\ gate' = [gate EXCEPT ![r] = "open"]
    /\ UNCHANGED <<rows, revoked, file, photoUri, requests>>

\* evaluateIntegrity on a payload not stored before: what the payload says (its
\* signature, weight, clock, photo, whose device it names) is settled when it is
\* signed; of what the database says, a request can overtake the revocation.
Passes(rec) == rec \notin Bad /\ ~revoked

\* ingest: what the backend does not know is a 400, be it stored already or not
\* (assertKnown comes first); a payload already stored is reported as a duplicate;
\* otherwise the verdict is reached on what was read here.
IngestLookup(q) ==
    /\ q.step = "look"
    /\ IF gate[q.rec] = "shut" THEN Reply(q, "refused")
       ELSE IF rows[q.rec] # << >> THEN Reply(q, "duplicate")
       ELSE requests' = (requests \ {q}) \cup
                {[q EXCEPT !.step = "save",
                           !.verdict = IF Passes(q.rec) THEN "clean" ELSE "quarantined"]}
    /\ UNCHANGED <<database, file>>

\* Faulty variant: the lookup is trusted, and the index is not unique.
MutIngestSave(q) ==
    /\ q.step = "save"
    /\ rows' = [rows EXCEPT ![q.rec] = Append(@, q.verdict)]
    /\ Reply(q, IF q.verdict = "clean" THEN "created" ELSE "rejected")
    /\ UNCHANGED <<revoked, gate, photoUri, file>>

\* The unique index on payloadHash decides between racing inserts.
IngestSave(q) ==
    /\ q.step = "save"
    /\ IF rows[q.rec] # << >>
       THEN Reply(q, "duplicate") /\ UNCHANGED rows
       ELSE /\ rows' = [rows EXCEPT ![q.rec] = <<q.verdict>>]
            /\ Reply(q, IF q.verdict = "clean" THEN "created" ELSE "rejected")
    /\ UNCHANGED <<revoked, gate, photoUri, file>>

\* attach refuses, every time, a photo that is empty, too large, no image or not
\* the one whose hash was signed.  PhotoStore.put: writeFile truncates the file
\* of that digest, then fills it; if another upload truncates it meanwhile, it
\* may be whole only when that one is through.
PhotoOpen(q) ==
    /\ q.step = "open"
    /\ rows[q.rec] # << >>
    /\ IF q.rec \in Unfit
       THEN Reply(q, "refused") /\ UNCHANGED file
       ELSE GoTo(q, "fill") /\ file' = [file EXCEPT ![q.rec] = "partial"]
    /\ UNCHANGED database

PhotoFill(q) ==
    /\ q.step = "fill"
    /\ \E content \in IF \E o \in requests \ {q} : o.rec = q.rec /\ o.step = "fill"
                      THEN {"partial", "whole"} ELSE {"whole"} :
           file' = [file EXCEPT ![q.rec] = content]
    /\ GoTo(q, "row")
    /\ UNCHANGED database

\* attach: the event row points at the photo once it is stored.
PhotoRow(q) ==
    /\ q.step = "row"
    /\ photoUri' = [photoUri EXCEPT ![q.rec] = TRUE]
    /\ Reply(q, "stored")
    /\ UNCHANGED <<rows, revoked, gate, file>>

Serve(q) ==
    \/ IngestLookup(q)
    \/ IngestSave(q)
    \/ PhotoOpen(q)
    \/ PhotoFill(q)
    \/ PhotoRow(q)

\* The request, its answer or the process serving it is lost on the way.
Lose(q) ==
    /\ requests' = requests \ {q}
    /\ UNCHANGED <<database, file>>

-----------------------------------------------------------------------------
IntakeTypeOK ==
    /\ rows \in [Record -> Seq(Verdict)]
    /\ revoked \in BOOLEAN
    /\ gate \in [Record -> {"open", "closing", "shut"}]
    /\ file \in [Record -> {"none", "partial", "whole"}]
    /\ photoUri \in [Record -> BOOLEAN]
    /\ requests \subseteq Request

\* The same signed weigh-in is never counted twice, however often and however
\* concurrently it is posted ("retry aggressively without ever double-counting a
\* tonne", syncPending).
OneEventPerWeighIn == \A r \in Record : Len(rows[r]) <= 1
=============================================================================
