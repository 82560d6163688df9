-------------------------- MODULE PhoneCopiesProofs --------------------------
(* What the two things a phone keeps a copy of guarantee: the catalogue,    *)
(* for any codes, requests and refreshes, and the app, for any builds; and  *)
(* the phone as a whole.                                                    *)
(*                                                                          *)
(* The argument for the catalogue: a code once offered by this backend      *)
(* stays known until a removal; so what a request, a copy or a weigh-in     *)
(* once learnt of a code still bounds what can have become of it.           *)
(*                                                                          *)
(* The argument for the service worker: the server answers with its page    *)
(* instead of a script only for a build that was replaced; so nothing the   *)
(* worker has stored, or is about to store, under the newest build's name   *)
(* can be a page.                                                           *)
EXTENDS MCPhone, CaptureProofs

-----------------------------------------------------------------------------
(* The catalogue: the inductive invariant.                                  *)

Saves == {"create", "edit", "retire", "restore"}

\* In the catalogue, or deleted from it.
Known(c) == materials[c] # "absent" \/ c \in removed

\* A request that saves has something to write.
ReadRight(w) ==
    w.kind \in Saves /\ w.at \in {"loaded", "selected"} => w.entity # "absent"

WorkOK(w) ==
    /\ ReadRight(w)
    /\ w.ours => Known(w.code)

RequestsOK == \A r \in Request : req[r] # Idle => WorkOK(req[r])

\* What came from this backend was known to it.
ListOK(from, list) == from = "home" => \A c \in list.offered : Known(c)
CacheOK == cache # Nothing => cache.origin = cache.from /\ ListOK(cache.from, cache.list)
FetchesOK == \A f \in fetches : f.answer # Nothing => ListOK(f.origin, f.answer)
SignedOK == signed # Nothing => (signed.ours => Known(signed.code))

CopyIInv == TypeOK /\ RequestsOK /\ CacheOK /\ FetchesOK /\ SignedOK

LEMMA InitCopyIInv == Init => CopyIInv
<1> SUFFICES ASSUME Init PROVE CopyIInv
    OBVIOUS
<1> USE CatalogueAssumption, CopyAssumption DEF Init, CatalogueInit
<1>1. TypeOK
    BY DEF TypeOK, CatalogueTypeOK, Row, Origin
<1>2. QED
    BY <1>1 DEF CopyIInv, RequestsOK, CacheOK, FetchesOK, SignedOK

-----------------------------------------------------------------------------
(* The catalogue.                                                           *)

\* A code leaves the catalogue by removal only.
Grows == \A c \in Code : Known(c) => Known(c)'

\* WorkOK(w) of the next state, of a w that is told in this one.
WorkOKAfter(w) ==
    /\ ReadRight(w)
    /\ w.ours => materials'[w.code] # "absent" \/ w.code \in removed'

\* A request that becomes w.
Becomes(r, w) ==
    /\ req' = [req EXCEPT ![r] = w]
    /\ w \in Work \cup {Idle}
    /\ w # Idle => WorkOKAfter(w)
    /\ materials' \in [Code -> Row]
    /\ events' \subseteq Code /\ batches' \subseteq Code /\ removed' \subseteq Code
    /\ Grows

\* Everything a request does is of this form.
LEMMA Reading ==
    ASSUME CopyIInv, NEW r \in Request,
           \/ LookBeforeCreate(r) \/ Require(r) \/ SaveReads(r) \/ CountUses(r)
           \/ AssertOpenable(r) \/ AssertKnown(r)
    PROVE  \E w \in Work \cup {Idle} : Becomes(r, w)
<1>1. /\ req[r] \in Work /\ WorkOK(req[r]) /\ req \in [Request -> Work \cup {Idle}]
      /\ req[r].code \in Code /\ materials[req[r].code] \in Row
    BY DEF CopyIInv, TypeOK, CatalogueTypeOK, RequestsOK, LookBeforeCreate, Require, SaveReads,
           CountUses, AssertOpenable, AssertKnown, At, Work, Idle
<1>2. UNCHANGED <<materials, events, batches, removed>>
    BY DEF LookBeforeCreate, Require, SaveReads, CountUses, AssertOpenable, AssertKnown
<1>3. /\ Grows
      /\ materials' \in [Code -> Row]
      /\ events' \subseteq Code /\ batches' \subseteq Code /\ removed' \subseteq Code
    BY <1>2 DEF CopyIInv, TypeOK, CatalogueTypeOK, Grows, Known
<1>4. CASE End(r)
    BY <1>3, <1>4 DEF End, Becomes
<1>5. ASSUME NEW w \in Work, req' = [req EXCEPT ![r] = w], ReadRight(w),
             w.code = req[r].code, w.ours = req[r].ours
      PROVE  Becomes(r, w)
    BY <1>1, <1>2, <1>3, <1>5 DEF Becomes, WorkOK, WorkOKAfter, Known
<1>6. CASE LookBeforeCreate(r) /\ ~End(r)
    <2> DEFINE w == [req[r] EXCEPT !.at = "loaded", !.seen = materials[req[r].code],
                                   !.entity = "active"]
    <2>1. req' = [req EXCEPT ![r] = w] /\ w \in Work
        BY <1>1, <1>6 DEF LookBeforeCreate, Work, Stage, Row
    <2>2. ReadRight(w)
        BY <1>1, <1>6 DEF LookBeforeCreate, At, ReadRight, Work, Row
    <2>3. w.code = req[r].code /\ w.ours = req[r].ours
        BY <1>1 DEF Work
    <2>4. QED
        BY <1>5, <2>1, <2>2, <2>3
<1>7. CASE Require(r) /\ ~End(r)
    <2> DEFINE row == materials[req[r].code]
               w == [req[r] EXCEPT !.at = "loaded", !.seen = row,
                                   !.entity = SetColumns(req[r].kind, row)]
    <2>1. req' = [req EXCEPT ![r] = w] /\ w \in Work
        BY <1>1, <1>7 DEF Require, Work, Stage, Row, SetColumns
    <2>2. ReadRight(w)
        BY <1>1, <1>7 DEF Require, At, ReadRight, Work, Row, SetColumns, Saves
    <2>3. w.code = req[r].code /\ w.ours = req[r].ours
        BY <1>1 DEF Work
    <2>4. QED
        BY <1>5, <2>1, <2>2, <2>3
<1>8. CASE SaveReads(r)
    <2> DEFINE w == [req[r] EXCEPT !.at = "selected", !.row = materials[req[r].code]]
    <2>1. req' = [req EXCEPT ![r] = w] /\ w \in Work
        BY <1>1, <1>8 DEF SaveReads, Work, Stage, Row
    <2>2. ReadRight(w)
        BY <1>1, <1>8 DEF SaveReads, At, WorkOK, ReadRight, Work, Saves
    <2>3. w.code = req[r].code /\ w.ours = req[r].ours
        BY <1>1 DEF Work
    <2>4. QED
        BY <1>5, <2>1, <2>2, <2>3
<1>9. CASE CountUses(r)
    <2> DEFINE w == [req[r] EXCEPT !.at = "counted", !.uses = Uses(req[r].code)]
    <2>0. Uses(req[r].code) \in Nat
        BY DEF Uses
    <2>1. /\ req' = [req EXCEPT ![r] = w]
          /\ w \in Work
        <3>1. req' = [req EXCEPT ![r] = w]
            BY <1>1, <1>9 DEF CountUses, Count, Work
        <3>2. w \in Work
            BY <1>1, <2>0 DEF Work, Stage
        <3>3. QED
            BY <3>1, <3>2
    <2>2. ReadRight(w)
        BY <1>1, <1>9 DEF CountUses, At, WorkOK, ReadRight, Work, Saves, Uses
    <2>3. w.code = req[r].code /\ w.ours = req[r].ours
        BY <1>1 DEF Work
    <2>4. QED
        BY <1>5, <2>1, <2>2, <2>3
<1>10. CASE (AssertOpenable(r) \/ AssertKnown(r)) /\ ~End(r)
    <2> DEFINE w == [req[r] EXCEPT !.at = "loaded", !.seen = materials[req[r].code]]
    <2>1. req' = [req EXCEPT ![r] = w] /\ w \in Work
        BY <1>1, <1>10 DEF AssertOpenable, AssertKnown, Work, Stage, Row
    <2>2. ReadRight(w)
        BY <1>1, <1>10 DEF AssertOpenable, AssertKnown, At, ReadRight, Work, Saves
    <2>3. w.code = req[r].code /\ w.ours = req[r].ours
        BY <1>1 DEF Work
    <2>4. QED
        BY <1>5, <2>1, <2>2, <2>3
<1>11. QED
    BY <1>4, <1>6, <1>7, <1>8, <1>9, <1>10 DEF Becomes

LEMMA Saving ==
    ASSUME CopyIInv, NEW r \in Request, SaveWrites(r)
    PROVE  Becomes(r, Idle)
<1>1. /\ req[r] \in Work /\ WorkOK(req[r]) /\ req[r].code \in Code
      /\ req[r].kind \in Saves /\ req[r].at = "selected"
      /\ materials \in [Code -> Row]
    BY DEF CopyIInv, TypeOK, CatalogueTypeOK, RequestsOK, SaveWrites, At, Work, Idle, Saves
<1>2. /\ Written(req[r]) \in Row
      /\ materials[req[r].code] # "absent" => Written(req[r]) # "absent"
    BY <1>1 DEF Written, WorkOK, ReadRight, Work, Row
<1>3. /\ materials' = [materials EXCEPT ![req[r].code] = Written(req[r])]
      /\ UNCHANGED <<events, batches, removed>>
    BY DEF SaveWrites
<1>4. Grows
    BY <1>1, <1>2, <1>3 DEF Grows, Known
<1>5. materials' \in [Code -> Row]
    BY <1>1, <1>2, <1>3
<1>6. QED
    BY <1>3, <1>4, <1>5 DEF SaveWrites, End, Becomes, CopyIInv, TypeOK, CatalogueTypeOK

LEMMA Deleting ==
    ASSUME CopyIInv, NEW r \in Request, Delete(r)
    PROVE  Becomes(r, Idle)
<1>1. /\ req[r] \in Work /\ req[r].code \in Code /\ materials \in [Code -> Row]
    BY DEF CopyIInv, TypeOK, CatalogueTypeOK, Delete, At, Work, Idle
<1>2. Grows /\ materials' \in [Code -> Row] /\ removed' \subseteq Code
    <2>1. CASE UNCHANGED <<materials, removed>>
        BY <1>1, <2>1 DEF Delete, Grows, Known, CopyIInv, TypeOK, CatalogueTypeOK
    <2>2. CASE /\ materials' = [materials EXCEPT ![req[r].code] = "absent"]
               /\ removed' = removed \cup {req[r].code}
        BY <1>1, <2>2 DEF Delete, Grows, Known, Row, CopyIInv, TypeOK, CatalogueTypeOK
    <2>3. QED
        BY <2>1, <2>2 DEF Delete
<1>3. QED
    BY <1>2 DEF Delete, End, Becomes, CopyIInv, TypeOK, CatalogueTypeOK

LEMMA Using ==
    ASSUME CopyIInv, NEW r \in Request, SaveUse(r)
    PROVE  Becomes(r, Idle)
<1>1. req[r] \in Work /\ req[r].code \in Code
    BY DEF CopyIInv, TypeOK, CatalogueTypeOK, SaveUse, At, Work, Idle
<1>2. Grows /\ events' \subseteq Code /\ batches' \subseteq Code
    BY <1>1 DEF SaveUse, Grows, Known, CopyIInv, TypeOK, CatalogueTypeOK
<1>3. QED
    BY <1>2 DEF SaveUse, End, Becomes, CopyIInv, TypeOK, CatalogueTypeOK

LEMMA Beginning ==
    ASSUME CopyIInv, NEW r \in Request, NEW kind \in Kind, NEW c \in Code, NEW ours \in BOOLEAN,
           ours => Known(c), Begin(r, kind, c, ours)
    PROVE  \E w \in Work : Becomes(r, w)
<1> DEFINE w == [kind |-> kind, code |-> c, at |-> "asked", seen |-> "absent",
                 entity |-> "absent", row |-> "absent", uses |-> 0, ours |-> ours]
<1>1. UNCHANGED <<materials, events, batches, removed>> /\ req' = [req EXCEPT ![r] = w]
    BY DEF Begin
<1>3. w \in Work
    BY DEF Work, Stage, Row
<1>4. WorkOKAfter(w)
    BY <1>1 DEF WorkOKAfter, ReadRight, Known
<1>5. Grows
    BY <1>1 DEF Grows, Known
<1>6. QED
    BY <1>1, <1>3, <1>4, <1>5 DEF Becomes, CopyIInv, TypeOK, CatalogueTypeOK

LEMMA Serving ==
    ASSUME CopyIInv, NEW r \in Request, Serve(r)
    PROVE  \E w \in Work \cup {Idle} : Becomes(r, w)
BY Reading, Saving, Deleting, Using DEF Serve

LEMMA OperatorAsks ==
    ASSUME CopyIInv, NEW r \in Request, Ask(r)
    PROVE  \E w \in Work : Becomes(r, w)
<1>1. PICK kind \in Kind \ {"ingest"}, c \in Managed : Begin(r, kind, c, FALSE)
    BY DEF Ask
<1>2. kind \in Kind /\ c \in Code
    BY CatalogueAssumption
<1>3. QED
    BY <1>1, <1>2, Beginning

\* A request's step keeps what the requests rest on.
LEMMA RequestsKept ==
    ASSUME CopyIInv, NEW r \in Request, NEW w \in Work \cup {Idle}, Becomes(r, w)
    PROVE  CatalogueTypeOK' /\ RequestsOK' /\ Grows
<1>1. req \in [Request -> Work \cup {Idle}]
    BY DEF CopyIInv, TypeOK, CatalogueTypeOK
<1>2. CatalogueTypeOK'
    BY <1>1 DEF Becomes, CatalogueTypeOK
<1>3. ASSUME NEW q \in Request, req'[q] # Idle
      PROVE  WorkOKAfter(req'[q])
    <2>1. CASE q = r
        BY <1>1, <1>3, <2>1 DEF Becomes
    <2>2. CASE q # r
        <3>1. req'[q] = req[q] /\ req[q] \in Work /\ WorkOK(req[q])
            BY <1>1, <1>3, <2>2 DEF Becomes, CopyIInv, RequestsOK
        <3>2. req[q].code \in Code
            BY <3>1 DEF Work
        <3>3. QED
            BY <3>1, <3>2 DEF Becomes, Grows, WorkOK, WorkOKAfter, Known
    <2>3. QED
        BY <2>1, <2>2
<1>4. RequestsOK'
    BY <1>3 DEF RequestsOK, WorkOK, WorkOKAfter, Known
<1>5. QED
    BY <1>2, <1>4 DEF Becomes
-----------------------------------------------------------------------------
(* The copy.                                                                *)

\* The copy, the refreshes and the weigh-in rest on what only grows.
LEMMA CopyKept ==
    ASSUME CopyIInv, CatalogueTypeOK', RequestsOK', Grows, UNCHANGED copyVars
    PROVE  CopyIInv'
<1>1. TypeOK'
    BY DEF CopyIInv, TypeOK, copyVars
<1>2. ASSUME NEW from, NEW list \in List, ListOK(from, list)
      PROVE  from = "home" => \A c \in list.offered : Known(c)'
    BY <1>2 DEF ListOK, List, Grows
<1>3. CacheOK'
    BY <1>2 DEF CopyIInv, TypeOK, CacheOK, ListOK, Copy, Known, copyVars
<1>4. FetchesOK'
    BY <1>2 DEF CopyIInv, TypeOK, FetchesOK, ListOK, Fetch, Known, copyVars
<1>5. SignedOK'
    BY DEF CopyIInv, TypeOK, SignedOK, WeighIn, Grows, Known, copyVars
<1>6. QED
    BY <1>1, <1>3, <1>4, <1>5 DEF CopyIInv

LEMMA RequestSteps ==
    ASSUME CopyIInv, NEW r \in Request, Ask(r) \/ Serve(r), UNCHANGED copyVars
    PROVE  CopyIInv'
<1>1. PICK w \in Work \cup {Idle} : Becomes(r, w)
    BY OperatorAsks, Serving
<1>2. QED
    BY <1>1, RequestsKept, CopyKept

\* A weigh-in at ingest carries its promise along.
LEMMA Submitting ==
    ASSUME CopyIInv, NEW r \in Request, Submit(r)
    PROVE  CopyIInv'
<1>1. /\ signed \in WeighIn
      /\ signed.ours => Known(signed.code)
      /\ Begin(r, "ingest", signed.code, signed.ours)
      /\ signed' \in {signed, Nothing}
      /\ UNCHANGED <<backend, paired, cache, selection, fetches>>
    BY DEF Submit, CopyIInv, TypeOK, SignedOK
<1>2. PICK w \in Work : Becomes(r, w)
    <2>1. signed.code \in Code /\ signed.ours \in BOOLEAN /\ "ingest" \in Kind
        BY <1>1 DEF WeighIn, Kind
    <2>2. QED
        BY <1>1, <2>1, Beginning
<1>3. CatalogueTypeOK' /\ RequestsOK' /\ Grows
    BY <1>2, RequestsKept
<1>4. UNCHANGED <<materials, removed>>
    BY <1>1 DEF Begin
<1>5. TypeOK'
    BY <1>1, <1>3 DEF CopyIInv, TypeOK
<1>6. CacheOK' /\ FetchesOK' /\ SignedOK'
    BY <1>1, <1>4 DEF CopyIInv, CacheOK, FetchesOK, SignedOK, ListOK, Known
<1>7. QED
    BY <1>3, <1>5, <1>6 DEF CopyIInv

\* What the phone does alone leaves the backend as it is.
LEMMA RequestsApart ==
    ASSUME CopyIInv, UNCHANGED catalogueVars
    PROVE  CatalogueTypeOK' /\ RequestsOK'
BY DEF CopyIInv, TypeOK, CatalogueTypeOK, RequestsOK, WorkOK, ReadRight, Known, catalogueVars

LEMMA Offered ==
    ASSUME CopyIInv
    PROVE  /\ Pickable(cache, backend) \subseteq Code
           /\ \A copy \in Copy : Pickable(copy, backend) \subseteq Code
BY CopyAssumption DEF CopyIInv, TypeOK, Pickable, ReadCache, Copy, List

LEMMA Pairing ==
    ASSUME CopyIInv, SetBackend \/ Pair
    PROVE  CopyIInv'
<1>1. UNCHANGED catalogueVars /\ UNCHANGED <<cache, selection, fetches, signed>>
    BY DEF SetBackend, Pair, catalogueVars
<1>2. backend' \in Origin /\ paired' \in BOOLEAN
    BY DEF SetBackend, Pair, CopyIInv, TypeOK, Origin
<1>3. QED
    BY <1>1, <1>2, RequestsApart
       DEF CopyIInv, TypeOK, CacheOK, FetchesOK, SignedOK, ListOK, Known, catalogueVars

LEMMA Refreshing ==
    ASSUME CopyIInv, \/ Refresh
                 \/ \E f \in fetches : Answer(f) \/ RefreshFails(f)
    PROVE  CopyIInv'
<1>1. UNCHANGED catalogueVars /\ UNCHANGED <<backend, paired, cache, selection, signed>>
    BY DEF Refresh, Answer, RefreshFails, catalogueVars
<1>2. /\ Published("home") \in List /\ Published("other") \in List
      /\ \A c \in Published("home").offered : Known(c)
    BY CopyAssumption DEF Published, List, Known
<1>3. fetches' \subseteq Fetch /\ FetchesOK'
    <2>1. CASE Refresh
        BY <1>1, <2>1 DEF Refresh, CopyIInv, TypeOK, Fetch, FetchesOK, ListOK, Known, catalogueVars
    <2>2. ASSUME NEW f \in fetches, RefreshFails(f)
          PROVE  fetches' \subseteq Fetch /\ FetchesOK'
        BY <1>1, <2>2 DEF RefreshFails, CopyIInv, TypeOK, FetchesOK, ListOK, Known, catalogueVars
    <2>3. ASSUME NEW f \in fetches, Answer(f)
          PROVE  fetches' \subseteq Fetch /\ FetchesOK'
        <3> DEFINE g == [f EXCEPT !.answer = Published(f.origin)]
        <3>1. f \in Fetch /\ f.origin \in {"home", "other"}
            BY DEF CopyIInv, TypeOK, Fetch, Origin
        <3>2. g \in Fetch /\ ListOK(g.origin, g.answer)
            BY <1>2, <3>1 DEF Fetch, ListOK
        <3>3. fetches' = (fetches \ {f}) \cup {g}
            BY <2>3 DEF Answer
        <3>4. QED
            BY <1>1, <3>2, <3>3 DEF CopyIInv, TypeOK, FetchesOK, ListOK, Known, catalogueVars
    <2>4. QED
        BY <2>1, <2>2, <2>3
<1>4. QED
    BY <1>1, <1>3, RequestsApart
       DEF CopyIInv, TypeOK, CacheOK, SignedOK, ListOK, Known, catalogueVars

\* The copy is filed under the backend that was asked.
LEMMA Filing ==
    ASSUME CopyIInv, NEW f \in fetches, Refreshed(f)
    PROVE  CopyIInv'
<1> DEFINE new == [origin |-> f.origin, from |-> f.origin, list |-> f.answer]
<1>1. /\ UNCHANGED catalogueVars /\ UNCHANGED <<backend, paired, signed>>
      /\ fetches' \subseteq fetches
    BY DEF Refreshed, catalogueVars
<1>2. new \in Copy /\ ListOK(f.origin, f.answer)
    BY DEF Refreshed, CopyIInv, TypeOK, Fetch, FetchesOK, Copy
<1>3. /\ cache' \in Copy \cup {Nothing} /\ selection' \in Code
      /\ cache' # Nothing => cache'.origin = cache'.from /\ ListOK(cache'.from, cache'.list)
    <2>1. CASE UNCHANGED <<cache, selection>>
        BY <2>1 DEF CopyIInv, TypeOK, CacheOK
    <2>2. CASE cache' = new /\ (selection' = selection \/ Reconcile(new))
        BY <1>2, <2>2, Offered DEF Reconcile, CopyIInv, TypeOK
    <2>3. QED
        BY <2>1, <2>2 DEF Refreshed
<1>4. TypeOK'
    BY <1>1, <1>3, RequestsApart DEF CopyIInv, TypeOK
<1>5. CacheOK' /\ FetchesOK' /\ SignedOK'
    BY <1>1, <1>3 DEF CopyIInv, CacheOK, FetchesOK, SignedOK, ListOK, Known, catalogueVars
<1>6. QED
    BY <1>1, <1>4, <1>5, RequestsApart DEF CopyIInv

LEMMA Signing ==
    ASSUME CopyIInv, PickMaterial \/ Sign
    PROVE  CopyIInv'
<1>1. UNCHANGED catalogueVars /\ UNCHANGED <<backend, paired, cache, fetches>>
    BY DEF PickMaterial, Sign, catalogueVars
<1>2. selection' \in Code
    BY Offered DEF PickMaterial, Sign, CopyIInv, TypeOK
<1>3. signed' \in WeighIn \cup {Nothing} /\ SignedOK'
    <2>1. CASE PickMaterial
        BY <1>1, <2>1 DEF PickMaterial, CopyIInv, TypeOK, SignedOK, Known, catalogueVars
    <2>2. CASE Sign
        BY <1>1, <2>2 DEF Sign, CopyIInv, TypeOK, SignedOK, CacheOK, ListOK, ReadCache, WeighIn,
                          Known, catalogueVars
    <2>3. QED
        BY <2>1, <2>2
<1>4. QED
    BY <1>1, <1>2, <1>3, RequestsApart
       DEF CopyIInv, TypeOK, CacheOK, FetchesOK, ListOK, Known, catalogueVars

-----------------------------------------------------------------------------
LEMMA NextCopyIInv == CopyIInv /\ [Next]_vars => CopyIInv'
<1> SUFFICES ASSUME CopyIInv, [Next]_vars PROVE CopyIInv'
    OBVIOUS
<1>1. CASE UNCHANGED vars
    BY <1>1, RequestsApart
       DEF vars, copyVars, CopyIInv, TypeOK, CacheOK, FetchesOK, SignedOK, ListOK, Known, catalogueVars
<1>2. CASE Next
    BY <1>2, RequestSteps, Submitting, Pairing, Refreshing, Filing, Signing DEF Next
<1>3. QED
    BY <1>1, <1>2

LEMMA CopyInvariance == Spec => []CopyIInv
BY InitCopyIInv, NextCopyIInv, PTL DEF Spec

\* The catalogue's rows, the requests and the phone's copy keep their types,
\* whatever the interleaving of MaterialsService with the phone's refreshes.
THEOREM CopyTypeCorrect == Spec => []TypeOK
BY CopyInvariance, PTL DEF CopyIInv

\* What the picker offers was never fetched from a backend other than the one
\* the phone points at (lib/materials.ts, readCache and refreshCatalogue).
THEOREM CopyIsOurs == Spec => []OfferedIsOurs
<1>1. CopyIInv => OfferedIsOurs
    BY DEF CopyIInv, CacheOK, OfferedIsOurs, ReadCache
<1>2. QED
    BY <1>1, CopyInvariance, PTL

\* A weigh-in signed with a code this backend offered is refused for its code
\* only if that code was deleted (EventsService.ingest, assertKnown).
THEOREM WorkIsKept == Spec => FieldWorkKept
<1>1. CopyIInv /\ [Next]_vars =>
        [\A r \in Request :
            At(r, {"ingest"}, "asked") /\ req'[r] = Idle /\ req[r].ours
               => req[r].code \in removed]_vars
    <2> SUFFICES ASSUME CopyIInv, Next, NEW r \in Request,
                        At(r, {"ingest"}, "asked"), req'[r] = Idle, req[r].ours
                 PROVE  req[r].code \in removed
        BY DEF vars, catalogueVars, At, Idle
    <2>1. /\ req[r] \in Work /\ req[r] # Idle /\ Known(req[r].code)
          /\ req \in [Request -> Work \cup {Idle}]
        BY DEF CopyIInv, TypeOK, CatalogueTypeOK, RequestsOK, WorkOK, At, Work, Idle
    <2>2. PICK q \in Request : Ask(q) \/ Serve(q) \/ Submit(q)
        BY <2>1 DEF Next, SetBackend, Pair, Refresh, PickMaterial, Sign, Answer, Refreshed,
                    RefreshFails, catalogueVars
    <2>3. q = r
        BY <2>1, <2>2 DEF Ask, Begin, Serve, LookBeforeCreate, Require, SaveReads, SaveWrites,
                          CountUses, Count, Delete, AssertOpenable, AssertKnown, SaveUse,
                          Submit, End
    <2>4. AssertKnown(r)
        BY <2>1, <2>2, <2>3 DEF Ask, Begin, Serve, LookBeforeCreate, Require, SaveReads,
                                SaveWrites, CountUses, Delete, AssertOpenable, SaveUse,
                                Submit, At, Idle
    <2>5. materials[req[r].code] = "absent"
        BY <2>1, <2>4 DEF AssertKnown, Work, Idle
    <2>6. QED
        BY <2>1, <2>5 DEF Known
<1>2. QED
    BY <1>1, CopyInvariance, PTL DEF Spec, FieldWorkKept

-----------------------------------------------------------------------------
(* The app itself: any number of builds.                                    *)

PutsOK ==
    /\ puts # {} => worker = "active"
    /\ \A p \in puts : p.as = "script" /\ p.build >= deployed => p.got # "page"

ScriptsOK == \A b \in Build : b >= deployed => scripts[b] # "page"

LoadOK ==
    /\ load.build <= deployed
    /\ load.at = "page" => load.build # 0
    /\ load.current => signal

ShellIInv == ShellTypeOK /\ PutsOK /\ ScriptsOK /\ LoadOK /\ NewBuildReachesPhone

LEMMA InitShellIInv == ShellInit => ShellIInv
<1> SUFFICES ASSUME ShellInit PROVE ShellIInv
    OBVIOUS
<1>1. Closed \in Load
    BY ShellAssumption DEF Closed, Load
<1>2. ShellTypeOK
    BY <1>1, ShellAssumption DEF ShellInit, ShellTypeOK, Build, Stored
<1>3. PutsOK /\ ScriptsOK /\ LoadOK /\ NewBuildReachesPhone
    BY ShellAssumption DEF ShellInit, PutsOK, ScriptsOK, LoadOK, NewBuildReachesPhone, Closed
<1>4. QED
    BY <1>2, <1>3 DEF ShellIInv

-----------------------------------------------------------------------------
LEMMA Deploying ==
    ASSUME ShellIInv, Deploy
    PROVE  ShellIInv'
<1>1. /\ deployed' = deployed + 1 /\ deployed' \in Build /\ deployed \in Nat
      /\ load' = [load EXCEPT !.current = FALSE]
      /\ UNCHANGED <<signal, worker, shell, scripts, puts>>
    BY ShellAssumption DEF Deploy, ShellIInv, ShellTypeOK, Build
<1>2. ShellTypeOK'
    <2>1. load' \in Load
        BY <1>1 DEF ShellIInv, ShellTypeOK, Load
    <2>2. 0 .. deployed \subseteq 0 .. deployed'
        BY <1>1
    <2>3. puts' \subseteq [build : 0 .. deployed', as : {"shell", "script"}, got : Stored]
        BY <1>1, <2>2 DEF ShellIInv, ShellTypeOK
    <2>4. QED
        BY <1>1, <2>1, <2>2, <2>3 DEF ShellIInv, ShellTypeOK
<1>3. PutsOK' /\ ScriptsOK'
    <2>1. \A p \in puts : p.build \in Nat
        BY <1>1 DEF ShellIInv, ShellTypeOK
    <2>2. QED
        BY <1>1, <2>1, ShellAssumption DEF ShellIInv, ShellTypeOK, PutsOK, ScriptsOK, Build
<1>4. LoadOK' /\ NewBuildReachesPhone'
    BY <1>1, ShellAssumption DEF ShellIInv, ShellTypeOK, LoadOK, NewBuildReachesPhone, Load
<1>5. QED
    BY <1>2, <1>3, <1>4 DEF ShellIInv

LEMMA Signalling ==
    ASSUME ShellIInv, SignalChanges
    PROVE  ShellIInv'
<1>1. /\ signal' \in BOOLEAN
      /\ load' = [load EXCEPT !.current = FALSE]
      /\ UNCHANGED <<deployed, worker, shell, scripts, puts>>
    BY DEF SignalChanges, ShellIInv, ShellTypeOK
<1>2. ShellTypeOK'
    BY <1>1 DEF ShellIInv, ShellTypeOK, Load
<1>3. LoadOK' /\ NewBuildReachesPhone'
    BY <1>1 DEF ShellIInv, ShellTypeOK, LoadOK, NewBuildReachesPhone, Load
<1>4. QED
    BY <1>1, <1>2, <1>3 DEF ShellIInv, PutsOK, ScriptsOK

LEMMA Installing ==
    ASSUME ShellIInv, Install \/ Activate
    PROVE  ShellIInv'
BY ShellAssumption DEF Install, Activate, ShellIInv, ShellTypeOK, PutsOK, ScriptsOK, LoadOK,
   NewBuildReachesPhone, Build

\* An opened page is the newest one, unless there is no signal.
LEMMA OpeningLoad ==
    ASSUME ShellIInv, NEW b \in 0 .. deployed, Opened(b), UNCHANGED <<deployed, signal>>,
           signal => b = deployed
    PROVE  LoadOK' /\ NewBuildReachesPhone' /\ load' \in Load
<1>1. /\ deployed \in Nat \ {0} /\ deployed <= MaxBuilds /\ MaxBuilds \in Nat
      /\ signal \in BOOLEAN
    BY ShellAssumption DEF ShellIInv, ShellTypeOK, Build
<1>2. load' \in Load
    BY <1>1 DEF Opened, Load
<1>3. QED
    BY <1>1, <1>2 DEF Opened, LoadOK, NewBuildReachesPhone

LEMMA Navigating ==
    ASSUME ShellIInv, Navigate \/ NavigateAlone
    PROVE  ShellIInv'
<1> DEFINE put == [build |-> deployed, as |-> "shell", got |-> "page"]
<1>1. UNCHANGED <<deployed, signal, worker, shell, scripts>>
    BY DEF Navigate, NavigateAlone
<1>2. deployed \in Nat /\ shell \in 0 .. deployed /\ signal \in BOOLEAN
    BY ShellAssumption DEF ShellIInv, ShellTypeOK, Build
<1>3. LoadOK' /\ NewBuildReachesPhone' /\ load' \in Load
    <2>1. PICK b \in 0 .. deployed : Opened(b) /\ (signal => b = deployed)
        BY <1>2 DEF Navigate, NavigateAlone
    <2>2. QED
        BY <1>1, <2>1, OpeningLoad
<1>4. puts' = puts \/ (worker = "active" /\ puts' = puts \cup {put})
    BY DEF Navigate, NavigateAlone
<1>5. put \in [build : 0 .. deployed, as : {"shell", "script"}, got : Stored]
    BY <1>2 DEF Stored
<1>6. PutsOK' /\ ShellTypeOK' /\ ScriptsOK'
    BY <1>1, <1>3, <1>4, <1>5 DEF ShellIInv, ShellTypeOK, PutsOK, ScriptsOK
<1>7. QED
    BY <1>3, <1>6 DEF ShellIInv

LEMMA Fetching ==
    ASSUME ShellIInv, FetchScript
    PROVE  ShellIInv'
<1> DEFINE b == load.build
           put == [build |-> b, as |-> "script", got |-> Served(b)]
<1>1. /\ UNCHANGED <<deployed, signal, worker, shell, scripts>>
      /\ load.at = "page" /\ load \in Load
      /\ deployed \in Nat /\ b \in 1 .. deployed /\ b \in Build
    BY ShellAssumption DEF FetchScript, ShellIInv, ShellTypeOK, LoadOK, Load, Build
<1>2. PICK got \in Stored : Ran(got) /\ (load.current => got = "script")
    <2>1. CASE worker = "active" /\ scripts[b] # "nothing"
        <3>1. scripts[b] \in Stored /\ Ran(scripts[b])
            BY <1>1, <2>1 DEF FetchScript, ShellIInv, ShellTypeOK
        <3>2. load.current => scripts[b] # "page"
            BY <1>1 DEF ShellIInv, ScriptsOK, NewBuildReachesPhone
        <3>3. QED
            BY <2>1, <3>1, <3>2 DEF Stored
    <2>2. CASE ~(worker = "active" /\ scripts[b] # "nothing") /\ ~signal
        BY <2>2 DEF FetchScript, Stored, ShellIInv, LoadOK
    <2>3. CASE ~(worker = "active" /\ scripts[b] # "nothing") /\ signal
        BY <1>1, <2>3 DEF FetchScript, Stored, Served, ShellIInv, NewBuildReachesPhone
    <2>4. QED
        BY <2>1, <2>2, <2>3
<1>3. load' \in Load /\ LoadOK' /\ NewBuildReachesPhone'
    BY <1>1, <1>2 DEF Ran, Load, ShellIInv, LoadOK, NewBuildReachesPhone
<1>4. puts' = puts \/ (worker = "active" /\ puts' = puts \cup {put})
    BY DEF FetchScript
<1>5. /\ put \in [build : 0 .. deployed, as : {"shell", "script"}, got : Stored]
      /\ put.build >= deployed => put.got # "page"
    BY <1>1 DEF Served, Stored
<1>6. PutsOK' /\ ShellTypeOK' /\ ScriptsOK'
    <2> HIDE DEF put
    <2> QED
        BY <1>1, <1>3, <1>4, <1>5 DEF ShellIInv, ShellTypeOK, PutsOK, ScriptsOK
<1>7. QED
    BY <1>3, <1>6 DEF ShellIInv

LEMMA Putting ==
    ASSUME ShellIInv, NEW p \in puts, Put(p)
    PROVE  ShellIInv'
<1>1. /\ UNCHANGED <<deployed, signal, worker, load>>
      /\ puts' \subseteq puts /\ worker = "active"
      /\ p.build \in 0 .. deployed /\ p.got \in Stored
    BY DEF Put, ShellIInv, ShellTypeOK, PutsOK
<1>2. shell' \in 0 .. deployed
    BY <1>1 DEF Put, ShellIInv, ShellTypeOK
<1>3. scripts' \in [Build -> Stored] /\ ScriptsOK'
    <2>1. CASE scripts' = scripts
        BY <1>1, <2>1 DEF ShellIInv, ShellTypeOK, ScriptsOK
    <2>2. CASE p.as = "script" /\ scripts' = [scripts EXCEPT ![p.build] = p.got]
        BY <1>1, <2>2 DEF ShellIInv, ShellTypeOK, ScriptsOK, PutsOK
    <2>3. p.as \in {"shell", "script"}
        BY DEF ShellIInv, ShellTypeOK
    <2>4. QED
        BY <2>1, <2>2, <2>3 DEF Put
<1>4. QED
    BY <1>1, <1>2, <1>3
       DEF ShellIInv, ShellTypeOK, PutsOK, LoadOK, NewBuildReachesPhone

-----------------------------------------------------------------------------
LEMMA NextShellIInv == ShellIInv /\ [ShellNext]_shellVars => ShellIInv'
<1> SUFFICES ASSUME ShellIInv, [ShellNext]_shellVars PROVE ShellIInv'
    OBVIOUS
<1>1. CASE UNCHANGED shellVars
    BY <1>1 DEF shellVars, ShellIInv, ShellTypeOK, PutsOK, ScriptsOK, LoadOK,
                NewBuildReachesPhone
<1>2. CASE ShellNext
    BY <1>2, Deploying, Signalling, Installing, Navigating, Fetching, Putting DEF ShellNext
<1>3. QED
    BY <1>1, <1>2

\* A deployment reaches every phone that opens the app with a signal, and
\* never bricks it, whatever is cached and in whatever order answers were
\* stored (sw.js, fetch and install handlers).
THEOREM NewestBuildRuns == ShellSpec => []NewBuildReachesPhone
<1>1. ShellSpec => []ShellIInv
    BY InitShellIInv, NextShellIInv, PTL DEF ShellSpec
<1>2. ShellIInv => NewBuildReachesPhone
    BY DEF ShellIInv
<1>3. QED
    BY <1>1, <1>2, PTL

\* Every reachable state of the service worker's caches and the page is well
\* typed (sw.js).
THEOREM ShellTypeCorrect == ShellSpec => []ShellTypeOK
<1>1. ShellSpec => []ShellIInv
    BY InitShellIInv, NextShellIInv, PTL DEF ShellSpec
<1>2. ShellIInv => ShellTypeOK
    BY DEF ShellIInv
<1>3. QED
    BY <1>1, <1>2, PTL

-----------------------------------------------------------------------------
(* The phone.                                                               *)

\* A phone that does all three does what each of them may do, so all that is
\* proved of one holds of the phone (lib/materials.ts, sw.js and main.ts's
\* pairing and capture screens share no state).
THEOREM PhoneDoesEach == MCSpec => Spec /\ ShellSpec /\ ScreenSpec
<1>1. MCInit => Init /\ ShellInit /\ ScreenInit
    BY DEF MCInit
<1>2. [MCNext]_<<vars, shellVars, captureVars, part>> =>
          [Next]_vars /\ [ShellNext]_shellVars /\ [ScreenNext]_captureVars
    BY DEF MCNext
<1>3. QED
    BY <1>1, <1>2, PTL DEF MCSpec, Spec, ShellSpec, ScreenSpec

\* Every reachable state of the phone is well typed.
THEOREM PhoneTypeCorrect == MCSpec => []MCTypeOK
<1>1. TypeOK /\ ShellTypeOK /\ ScreenTypeOK => MCTypeOK
    BY DEF MCTypeOK
<1>2. QED
    BY <1>1, PhoneDoesEach, CopyTypeCorrect, ShellTypeCorrect, TypeCorrect, PTL
==============================================================================
