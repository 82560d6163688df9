------------------------------ MODULE Catalogue ------------------------------
(* The material catalogue of the backend: MaterialsService, and the two     *)
(* places that ask it whether a code may be used (EventsService.ingest and  *)
(* BatchesService.create).  Requests run side by side; each of their        *)
(* database calls is a step.  Repository.save reads the row by its key      *)
(* again and then inserts, or updates the columns in which the entity       *)
(* differs, so what it writes is what the request read at its start.        *)
EXTENDS Naturals

CONSTANTS
    Code,      \* material codes
    Managed,   \* codes the requests are about (bound: rows are independent)
    Request    \* requests served side by side

ASSUME CatalogueAssumption == Managed \subseteq Code

VARIABLES
    materials,   \* Code -> the row: absent, active or retired
    events,      \* codes carried by a stored event
    batches,     \* codes carried by a batch
    removed,     \* codes ever deleted (history variable)
    req          \* Request -> its progress

catalogueVars == <<materials, events, batches, removed, req>>

Row == {"absent", "active", "retired"}
Kind == {"create", "edit", "retire", "restore", "remove", "open", "ingest"}
Stage == {"asked", "loaded", "selected", "counted"}

\* seen: the row when the request first read it; entity: what it will write;
\* row: the row save read; ours: the weigh-in's code is from this backend.
Work == [kind : Kind, code : Code, at : Stage, seen : Row, entity : Row, row : Row,
         uses : Nat, ours : BOOLEAN]
Idle == [kind |-> "idle"]

CatalogueTypeOK ==
    /\ materials \in [Code -> Row]
    /\ events \subseteq Code /\ batches \subseteq Code /\ removed \subseteq Code
    /\ req \in [Request -> Work \cup {Idle}]

CatalogueInit ==
    /\ materials \in [Code -> {"absent", "active"}]
    /\ \A c \in Code \ Managed : materials[c] = "absent"
    /\ events = {} /\ batches = {} /\ removed = {}
    /\ req = [r \in Request |-> Idle]

Begin(r, kind, c, ours) ==
    /\ req[r] = Idle
    /\ req' = [req EXCEPT ![r] =
         [kind |-> kind, code |-> c, at |-> "asked", seen |-> "absent", entity |-> "absent",
          row |-> "absent", uses |-> 0, ours |-> ours]]
    /\ UNCHANGED <<materials, events, batches, removed>>

\* An operator's request, from the dashboard's materials page or its form for
\* a new batch.
Ask(r) == \E kind \in Kind \ {"ingest"}, c \in Managed : Begin(r, kind, c, FALSE)

At(r, kinds, stage) == req[r].kind \in kinds /\ req[r].at = stage
End(r) == req' = [req EXCEPT ![r] = Idle]

\* create: findOne; an existing code is refused, retired or not.
LookBeforeCreate(r) ==
    /\ At(r, {"create"}, "asked")
    /\ LET row == materials[req[r].code]
       IN IF row # "absent" THEN End(r)
          ELSE req' = [req EXCEPT ![r].at = "loaded", ![r].seen = row, ![r].entity = "active"]
    /\ UNCHANGED <<materials, events, batches, removed>>

\* update and remove: require; update then sets the columns the form names.
\* A form that edits the name leaves `active` as it was read.
SetColumns(kind, row) ==
    CASE kind = "retire" -> "retired"
      [] kind = "restore" -> "active"
      [] OTHER -> row

Require(r) ==
    /\ At(r, {"edit", "retire", "restore", "remove"}, "asked")
    /\ LET row == materials[req[r].code]
       IN IF row = "absent" THEN End(r)
          ELSE req' = [req EXCEPT ![r].at = "loaded", ![r].seen = row,
                                  ![r].entity = SetColumns(req[r].kind, row)]
    /\ UNCHANGED <<materials, events, batches, removed>>

\* save: the row is read again...
SaveReads(r) ==
    /\ At(r, {"create", "edit", "retire", "restore"}, "loaded")
    /\ req' = [req EXCEPT ![r].at = "selected", ![r].row = materials[req[r].code]]
    /\ UNCHANGED <<materials, events, batches, removed>>

\* ... and written: an INSERT when there was none (refused by the primary key
\* if there is one by now), else an UPDATE of what differs (of no row if it is
\* gone by now).
Written(w) ==
    IF w.row = "absent" THEN IF materials[w.code] = "absent" THEN w.entity ELSE materials[w.code]
    ELSE IF materials[w.code] = "absent" \/ w.entity = w.row THEN materials[w.code]
    ELSE w.entity

SaveWrites(r) ==
    /\ At(r, {"create", "edit", "retire", "restore"}, "selected")
    /\ materials' = [materials EXCEPT ![req[r].code] = Written(req[r])]
    /\ End(r)
    /\ UNCHANGED <<events, batches, removed>>

Count(r, n) == req' = [req EXCEPT ![r].at = "counted", ![r].uses = n]
Uses(c) == (IF c \in events THEN 1 ELSE 0) + (IF c \in batches THEN 1 ELSE 0)

\* remove: counts the events and the batches with the code...
CountUses(r) ==
    /\ At(r, {"remove"}, "loaded")
    /\ Count(r, Uses(req[r].code))
    /\ UNCHANGED <<materials, events, batches, removed>>

\* ... and deletes the row if there were none.
Delete(r) ==
    /\ At(r, {"remove"}, "counted")
    /\ IF req[r].uses > 0 THEN UNCHANGED <<materials, removed>>
       ELSE /\ materials' = [materials EXCEPT ![req[r].code] = "absent"]
            /\ removed' = removed \cup {req[r].code}
    /\ End(r)
    /\ UNCHANGED <<events, batches>>

\* BatchesService.create: assertOpenable wants an active code.
AssertOpenable(r) ==
    /\ At(r, {"open"}, "asked")
    /\ IF materials[req[r].code] = "active"
       THEN req' = [req EXCEPT ![r].at = "loaded", ![r].seen = "active"]
       ELSE End(r)
    /\ UNCHANGED <<materials, events, batches, removed>>

\* Faulty variant: a retired code is refused at ingest, too.
MutAssertKnown(r) ==
    /\ At(r, {"ingest"}, "asked")
    /\ IF materials[req[r].code] = "active"
       THEN req' = [req EXCEPT ![r].at = "loaded", ![r].seen = materials[req[r].code]]
       ELSE End(r)
    /\ UNCHANGED <<materials, events, batches, removed>>

\* EventsService.ingest: assertKnown wants a code that exists.
AssertKnown(r) ==
    /\ At(r, {"ingest"}, "asked")
    /\ IF materials[req[r].code] # "absent"
       THEN req' = [req EXCEPT ![r].at = "loaded", ![r].seen = materials[req[r].code]]
       ELSE End(r)
    /\ UNCHANGED <<materials, events, batches, removed>>

\* The event or the batch is saved; no foreign key ties it to the code.
SaveUse(r) ==
    /\ At(r, {"open", "ingest"}, "loaded")
    /\ IF req[r].kind = "open"
       THEN batches' = batches \cup {req[r].code} /\ UNCHANGED events
       ELSE events' = events \cup {req[r].code} /\ UNCHANGED batches
    /\ End(r)
    /\ UNCHANGED <<materials, removed>>

Serve(r) ==
    \/ LookBeforeCreate(r) \/ Require(r) \/ SaveReads(r) \/ SaveWrites(r)
    \/ CountUses(r) \/ Delete(r)
    \/ AssertOpenable(r) \/ AssertKnown(r) \/ SaveUse(r)

-----------------------------------------------------------------------------
\* What the code does not keep.  "Outright deletion is permitted only for a code
\* no event and no batch has ever used" (materials.service.ts:23-24): an event or a
\* batch stored between the count and the deletion carries a code that is gone.
UsedCodeStays ==
    [][\A r \in Request :
         Delete(r) /\ materials' # materials => Uses(req[r].code) = 0]_catalogueVars

\* What the code does not keep.  A retired material is offered again only when an
\* operator reactivates it ("reactivate it instead of recreating it",
\* materials.service.ts:72): a create or an edit of the name that read the
\* catalogue before the retirement writes over it.
RetiredComesBack ==
    [][\A c \in Code :
         materials[c] = "retired" /\ materials'[c] = "active" =>
            \E r \in Request :
                At(r, {"restore"}, "selected") /\ req[r].code = c]_catalogueVars
=============================================================================
