---------------------------- MODULE CatalogueCopy ----------------------------
(* A phone's copy of the material catalogue (lib/materials.ts of the PWA    *)
(* and of the mobile app), next to the catalogue itself.  The phone offers  *)
(* what it last fetched from the backend it points at, or the codes         *)
(* compiled into it; a refresh remembers which backend it asked, and may    *)
(* end after the phone was pointed at another one.  What the phone signs    *)
(* reaches ingest much later.                                               *)
EXTENDS Catalogue, FiniteSets

CONSTANTS
    Seeds,       \* the codes compiled into the apps (SEED_MATERIALS)
    Elsewhere,   \* the codes another backend offers
    MaxFetches,  \* bound
    Nothing

ASSUME CopyAssumption ==
    /\ Seeds \subseteq Code /\ Seeds # {}
    /\ Elsewhere \subseteq Code /\ Elsewhere # {}

VARIABLES
    backend,     \* the backend the phone points at: "home" is the one modelled
    paired,      \* the phone is enrolled, and stays with its backend
    cache,       \* the stored copy
    selection,   \* the material selected on the capture screen
    fetches,     \* refreshes under way
    signed       \* a weigh-in signed and not yet at ingest

copyVars == <<backend, paired, cache, selection, fetches, signed>>
vars == <<catalogueVars, copyVars>>

Origin == {"home", "other"}
List == [known : SUBSET Code, offered : SUBSET Code]
\* origin is what the copy says it came from, from where it came from.
Copy == [origin : Origin, from : Origin, list : List]
Fetch == [origin : Origin, answer : List \cup {Nothing}]
WeighIn == [code : Code, ours : BOOLEAN]

TypeOK ==
    /\ CatalogueTypeOK
    /\ backend \in Origin /\ paired \in BOOLEAN
    /\ cache \in Copy \cup {Nothing}
    /\ selection \in Code
    /\ fetches \subseteq Fetch
    /\ signed \in WeighIn \cup {Nothing}

\* GET /materials: the whole catalogue, retired entries included.
Published(origin) ==
    IF origin = "other" THEN [known |-> Elsewhere, offered |-> Elsewhere]
    ELSE [known |-> {c \in Code : materials[c] # "absent"},
          offered |-> {c \in Code : materials[c] = "active"}]

\* readCache: a copy of another backend's list counts as none.
ReadCache(copy, origin) == IF copy # Nothing /\ copy.origin = origin THEN copy ELSE Nothing

\* pickableMaterials: what is offered; the compiled-in codes when nothing is.
Pickable(copy, origin) ==
    LET c == ReadCache(copy, origin)
    IN IF c # Nothing /\ c.list.offered # {} THEN c.list.offered ELSE Seeds

Init ==
    /\ CatalogueInit
    /\ backend = "home" /\ paired = FALSE
    /\ cache = Nothing /\ selection \in Seeds
    /\ fetches = {} /\ signed = Nothing

-----------------------------------------------------------------------------
\* The pairing screen points the phone at a backend.
SetBackend ==
    /\ ~paired
    /\ backend' = IF backend = "home" THEN "other" ELSE "home"
    /\ UNCHANGED <<catalogueVars, paired, cache, selection, fetches, signed>>

Pair ==
    /\ ~paired /\ backend = "home"
    /\ paired' = TRUE
    /\ UNCHANGED <<catalogueVars, backend, cache, selection, fetches, signed>>

\* refreshCatalogue: at start, when online, every 15 minutes, when paired.
Refresh ==
    /\ Cardinality(fetches) < MaxFetches
    /\ fetches' = fetches \cup {[origin |-> backend, answer |-> Nothing]}
    /\ UNCHANGED <<catalogueVars, backend, paired, cache, selection, signed>>

Answer(f) ==
    /\ f \in fetches /\ f.answer = Nothing
    /\ fetches' = (fetches \ {f}) \cup {[f EXCEPT !.answer = Published(f.origin)]}
    /\ UNCHANGED <<catalogueVars, backend, paired, cache, selection, signed>>

\* Faulty variant: what is no longer offered is deselected.
MutReconcile(copy) ==
    selection' = IF selection \in Pickable(copy, backend) THEN selection ELSE Nothing

\* reconcileSelection: the first material offered replaces what is gone.
Reconcile(copy) ==
    IF selection \in Pickable(copy, backend) THEN selection' = selection
    ELSE selection' \in Pickable(copy, backend)

\* Faulty variant: the copy is filed under the backend pointed at by now.
MutRefreshed(f) ==
    /\ f \in fetches /\ f.answer # Nothing
    /\ fetches' = fetches \ {f}
    /\ f.answer.known # {}
    /\ cache' = [origin |-> backend, from |-> f.origin, list |-> f.answer]
    /\ Reconcile(cache')
    /\ UNCHANGED <<catalogueVars, backend, paired, signed>>

\* An answer replaces the copy, unless it is empty (a server not migrated);
\* the selection follows when the list changed.
Refreshed(f) ==
    /\ f \in fetches /\ f.answer # Nothing
    /\ fetches' = fetches \ {f}
    /\ IF f.answer.known = {} THEN UNCHANGED <<cache, selection>>
       ELSE LET new == [origin |-> f.origin, from |-> f.origin, list |-> f.answer]
            IN /\ cache' = new
               /\ IF ReadCache(cache, backend) = new THEN UNCHANGED selection
                  ELSE Reconcile(new)
    /\ UNCHANGED <<catalogueVars, backend, paired, signed>>

\* No signal, an error answer, or 8 seconds without one.
RefreshFails(f) ==
    /\ f \in fetches
    /\ fetches' = fetches \ {f}
    /\ UNCHANGED <<catalogueVars, backend, paired, cache, selection, signed>>

PickMaterial ==
    /\ \E c \in Pickable(cache, backend) : selection' = c
    /\ UNCHANGED <<catalogueVars, backend, paired, cache, fetches, signed>>

\* A weigh-in is signed with the selection; it may wait for a long time.
Sign ==
    /\ paired /\ signed = Nothing
    /\ signed' = [code |-> selection,
                  ours |-> /\ ReadCache(cache, backend) # Nothing
                           /\ cache.from = "home"
                           /\ selection \in cache.list.offered]
    /\ UNCHANGED <<catalogueVars, backend, paired, cache, selection, fetches>>

\* The weigh-in is posted; an unanswered post is repeated.
Submit(r) ==
    /\ signed # Nothing
    /\ Begin(r, "ingest", signed.code, signed.ours)
    /\ signed' \in {signed, Nothing}
    /\ UNCHANGED <<backend, paired, cache, selection, fetches>>

Next ==
    \/ \E r \in Request : (Ask(r) \/ Serve(r)) /\ UNCHANGED copyVars
    \/ \E r \in Request : Submit(r)
    \/ SetBackend \/ Pair \/ Refresh \/ PickMaterial \/ Sign
    \/ \E f \in fetches : Answer(f) \/ Refreshed(f) \/ RefreshFails(f)

Spec == Init /\ [][Next]_vars

-----------------------------------------------------------------------------
\* Field work is never lost to a catalogue being tidied: a weigh-in signed with
\* a code this backend offered is refused only if that code was deleted;
\* retiring it is not enough, however long the phone held the weigh-in
\* (events.service.ts:60-65, materials.service.ts:145-159).
FieldWorkKept ==
    [][\A r \in Request :
         At(r, {"ingest"}, "asked") /\ req'[r] = Idle /\ req[r].ours
            => req[r].code \in removed]_vars

\* What the picker offers was never fetched from a backend other than the one
\* the phone points at, whichever refresh ended last
\* (capture lib/materials.ts:92-165, mobile lib/materials.ts:82-173).
OfferedIsOurs ==
    ReadCache(cache, backend) # Nothing => cache.from = backend
=============================================================================
