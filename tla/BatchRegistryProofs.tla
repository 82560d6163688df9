------------------------- MODULE BatchRegistryProofs -------------------------
(***************************************************************************)
(* What the contract guarantees for any addresses, batches and roots and   *)
(* any length of its event stream.                                         *)
(*                                                                         *)
(* The argument: every invocation publishes one event, and replaying that  *)
(* event on what the registry was makes what the registry is.  An event    *)
(* published later changes nothing of what was made of the earlier ones.   *)
(***************************************************************************)
EXTENDS BatchRegistry, SequenceTheorems, WellFoundedInduction, TLAPS

-----------------------------------------------------------------------------
(* Recursion over the stream.                                              *)

\* Of a set of naturals, one is the least: what induction on the length of the
\* stream is done with.
LEMMA LeastNatural ==
    ASSUME NEW T, T \subseteq Nat, T # {}
    PROVE  \E x \in T : \A y \in T : x <= y
<1> DEFINE R == OpToRel(<, Nat)
<1>1. IsWellFoundedOn(R, Nat)
    BY NatLessThanWellFounded, Zenon
<1>2. R = {ss \in Nat \X Nat : ss[1] < ss[2]}
    BY Zenon DEF OpToRel
<1> HIDE DEF R
<1>3. PICK x \in T : \A y \in T : ~ (<<y, x>> \in R)
    BY <1>1, WFMin, Zenon
<1>4. \A y \in T : ~ (y < x)
    BY <1>2, <1>3
<1>5. QED
    BY <1>3, <1>4

\* f is what replaying the first n events of log makes, for every n up to max.
Replays(f, log, max) ==
    f = [n \in 0 .. max |-> IF n = 0 THEN Blank ELSE Replay(f[n - 1], log[n])]

\* There is such an f: it is made one event at a time.
LEMMA ReplaysExist ==
    ASSUME NEW log, NEW max \in Nat
    PROVE  \E f : Replays(f, log, max)
<1> DEFINE T == {k \in Nat : ~ \E f : Replays(f, log, k)}
<1> SUFFICES ASSUME T # {} PROVE FALSE
    OBVIOUS
<1>1. PICK m \in T : \A k \in T : m <= k
    BY LeastNatural
<1>2. m # 0
    <2> DEFINE f == [n \in 0 .. 0 |-> Blank]
    <2>1. Replays(f, log, 0)
        BY DEF Replays
    <2>2. QED
        BY <2>1
<1>3. m - 1 \in Nat /\ m - 1 \notin T
    BY <1>1, <1>2
<1>4. PICK f : Replays(f, log, m - 1)
    BY <1>3
<1> DEFINE g == [n \in 0 .. m |-> IF n = m THEN Replay(f[m - 1], log[m]) ELSE f[n]]
<1>5. Replays(g, log, m)
    <2>1. ASSUME NEW n \in 0 .. m
          PROVE  g[n] = IF n = 0 THEN Blank ELSE Replay(g[n - 1], log[n])
        <3>1. CASE n = 0
            BY <1>2, <1>3, <1>4, <3>1 DEF Replays
        <3>2. CASE n # 0 /\ n # m
            <4>1. n \in 0 .. (m - 1) /\ n - 1 \in 0 .. m /\ n - 1 # m
                BY <1>3, <3>2
            <4>2. f[n] = Replay(f[n - 1], log[n])
                BY <1>4, <3>2, <4>1 DEF Replays
            <4>3. g[n] = f[n] /\ g[n - 1] = f[n - 1]
                BY <3>2, <4>1
            <4>4. QED
                BY <3>2, <4>2, <4>3
        <3>3. CASE n # 0 /\ n = m
            <4>1. n - 1 \in 0 .. m /\ n - 1 # m
                BY <1>3, <3>3
            <4>2. g[n] = Replay(f[n - 1], log[n]) /\ g[n - 1] = f[n - 1]
                BY <3>3, <4>1
            <4>3. QED
                BY <3>3, <4>2
        <3>4. QED
            BY <3>1, <3>2, <3>3
    <2> HIDE DEF g
    <2>2. g = [n \in 0 .. m |-> g[n]]
        BY DEF g
    <2>3. QED
        BY <2>1, <2>2 DEF Replays
<1>6. QED
    BY <1>5

\* And only one, as far as the events are the same.
LEMMA ReplaysAgree ==
    ASSUME NEW f, NEW g, NEW log, NEW log2, NEW max \in Nat, NEW len \in 0 .. max,
           Replays(f, log, max), Replays(g, log2, max), \A n \in 1 .. len : log2[n] = log[n]
    PROVE  \A n \in 0 .. len : g[n] = f[n]
<1> DEFINE T == {n \in 0 .. len : g[n] # f[n]}
<1> SUFFICES ASSUME T # {} PROVE FALSE
    OBVIOUS
<1>1. T \subseteq Nat
    OBVIOUS
<1>2. PICK m \in T : \A k \in T : m <= k
    BY <1>1, LeastNatural
<1>3. m \in 0 .. max /\ g[m] # f[m] /\ m \in 0 .. len
    OBVIOUS
<1>4. m # 0
    BY <1>3 DEF Replays
<1>5. g[m - 1] = f[m - 1] /\ log2[m] = log[m]
    BY <1>2, <1>3, <1>4
<1>6. QED
    BY <1>3, <1>4, <1>5 DEF Replays

LEMMA ReplayedIs == Replays(Replayed, published, MaxPublished)
<1>1. \E f : f = [n \in 0 .. MaxPublished |->
                      IF n = 0 THEN Blank ELSE Replay(f[n - 1], published[n])]
    BY ReplaysExist, RegistryAssumption DEF Replays
<1>2. QED
    BY <1>1, Zenon DEF Replayed, Replays

\* The same of the next state's stream.
LEMMA ReplayedIsAfter == Replays(Replayed', published', MaxPublished)
<1>1. \E f : f = [n \in 0 .. MaxPublished |->
                      IF n = 0 THEN Blank ELSE Replay(f[n - 1], published'[n])]
    BY ReplaysExist, RegistryAssumption DEF Replays
<1>2. QED
    BY <1>1, Zenon DEF Replayed, Replays

-----------------------------------------------------------------------------
(* The inductive invariant.                                                *)

Published ==
    [name : {"Initialized"}, admin : Address]
        \cup [name : {"IssuerAdded", "IssuerRemoved"}, issuer : Address]
        \cup [name : {"BatchRegistered"}, batch_id : BatchId, issuer : Address, root : Root,
              weight_g : Weight, registered_ledger : Nat]
        \cup [name : {"BatchCredited"}, batch_id : BatchId, issuer : Address,
              weight_g : Weight, credited_ledger : Nat]

\* What the registry is, as an indexer would have it.
Registry == [legal |-> TRUE, admin |-> admin, issuers |-> issuers, batches |-> batches]

RegistryInv ==
    /\ RegistryTypeOK
    /\ published \in Seq(Published)
    /\ LogRebuildsRegistry

LEMMA InitRegistry == RegistryInit => RegistryInv
<1> SUFFICES ASSUME RegistryInit PROVE RegistryInv
    OBVIOUS
<1>1. Len(published) = 0 /\ published \in Seq(Published)
    BY EmptySeq DEF RegistryInit
<1>2. RegistryTypeOK
    BY <1>1, RegistryAssumption DEF RegistryInit, RegistryTypeOK, HasBatch
<1>3. Replayed[0] = Blank
    BY ReplayedIs, RegistryAssumption DEF Replays
<1>4. LogRebuildsRegistry
    BY <1>1, <1>3 DEF LogRebuildsRegistry, Blank, RegistryInit
<1>5. QED
    BY <1>1, <1>2, <1>4 DEF RegistryInv

\* An invocation publishes one event, and what it makes of the registry is what
\* replaying the event makes of it.
LEMMA PublishingKeeps ==
    ASSUME RegistryInv, NEW e \in Published, Publish(e), RegistryTypeOK', Replay(Registry, e) = Registry'
    PROVE  RegistryInv'
<1>1. published \in Seq(Published) /\ Len(published) \in Nat /\ Len(published) + 1 <= MaxPublished
    BY LenProperties, RegistryAssumption DEF RegistryInv, Publish
<1>2. /\ published' \in Seq(Published) /\ Len(published') = Len(published) + 1
      /\ published'[Len(published) + 1] = e
      /\ \A n \in 1 .. Len(published) : published'[n] = published[n]
    BY <1>1, AppendProperties DEF Publish
<1>3. /\ MaxPublished \in Nat
      /\ Len(published) \in 0 .. MaxPublished /\ Len(published) + 1 \in 0 .. MaxPublished
    BY <1>1, RegistryAssumption
<1>4. Replayed'[Len(published)] = Replayed[Len(published)]
    <2>1. \A n \in 0 .. Len(published) : Replayed'[n] = Replayed[n]
        BY <1>2, <1>3, ReplayedIs, ReplayedIsAfter, ReplaysAgree, Zenon
    <2>2. QED
        BY <1>1, <2>1
<1>5. Replayed[Len(published)] = Registry
    BY DEF RegistryInv, LogRebuildsRegistry, Registry
<1>6. Replayed'[Len(published) + 1] = Replay(Replayed'[Len(published)], e)
    BY <1>1, <1>2, <1>3, ReplayedIsAfter DEF Replays
<1>7. LogRebuildsRegistry'
    BY <1>2, <1>4, <1>5, <1>6 DEF LogRebuildsRegistry, Registry
<1>8. QED
    BY <1>2, <1>7 DEF RegistryInv

-----------------------------------------------------------------------------
(* The invocations.                                                        *)

\* What every invocation finds.
Found ==
    /\ RegistryInv /\ admin \in Address \cup {NoAdmin} /\ issuers \subseteq Address
    /\ batches \in [BatchId -> Record \cup {NoRecord}]
    /\ archived \subseteq Address \cup BatchId /\ sequence \in 1 .. MaxLedger
    /\ \A id \in BatchId : HasBatch(id) => batches[id].registered_ledger <= sequence

LEMMA InvFound == RegistryInv => Found
BY DEF RegistryInv, RegistryTypeOK, Found

\* The event stream stays within its bound.
LEMMA StreamBound ==
    ASSUME RegistryInv, NEW e, Publish(e)
    PROVE  Len(published') <= MaxPublished
<1>1. published \in Seq(Published \cup {e}) /\ Len(published) \in Nat
    <2>1. published \in Seq(Published)
        BY DEF RegistryInv
    <2>2. QED
        BY <2>1, LenProperties
<1>2. Len(published') = Len(published) + 1
    BY <1>1, AppendProperties DEF Publish
<1>3. QED
    BY <1>1, <1>2, RegistryAssumption DEF Publish

LEMMA Initializing ==
    ASSUME RegistryInv, NEW a \in Address, Initialize(a)
    PROVE  RegistryInv'
<1>1. PICK e : e = [name |-> "Initialized", admin |-> a]
    OBVIOUS
<1>2. /\ e \in Published /\ Publish(e) /\ admin = NoAdmin /\ admin' = a
      /\ UNCHANGED <<issuers, batches, archived, sequence>>
    BY <1>1 DEF Initialize, Published
<1>3. RegistryTypeOK'
    BY <1>2, StreamBound DEF RegistryInv, RegistryTypeOK, HasBatch
<1>4. Replay(Registry, e) = Registry'
    BY <1>1, <1>2 DEF Replay, Registry
<1>5. QED
    BY <1>2, <1>3, <1>4, PublishingKeeps

LEMMA ChangingIssuers ==
    ASSUME RegistryInv, NEW by \in Address, NEW a \in Address,
           AddIssuer(by, a) \/ RemoveIssuer(by, a)
    PROVE  RegistryInv'
<1>1. CASE AddIssuer(by, a)
    <2>1. PICK e : e = [name |-> "IssuerAdded", issuer |-> a]
        OBVIOUS
    <2>2. /\ e \in Published /\ Publish(e) /\ admin # NoAdmin /\ a \notin issuers
          /\ issuers' = issuers \cup {a} /\ UNCHANGED <<admin, batches, archived, sequence>>
        BY <1>1, <2>1, RegistryAssumption DEF AddIssuer, Published, IsIssuer
    <2>3. RegistryTypeOK'
        BY <2>2, StreamBound DEF RegistryInv, RegistryTypeOK, HasBatch
    <2>4. Replay(Registry, e) = Registry'
        BY <2>1, <2>2 DEF Replay, Registry
    <2>5. QED
        BY <2>2, <2>3, <2>4, PublishingKeeps
<1>2. CASE RemoveIssuer(by, a)
    <2>1. PICK e : e = [name |-> "IssuerRemoved", issuer |-> a]
        OBVIOUS
    <2>2. /\ e \in Published /\ Publish(e) /\ a \in issuers
          /\ issuers' = issuers \ {a} /\ UNCHANGED <<admin, batches, archived, sequence>>
        BY <1>2, <2>1 DEF RemoveIssuer, Published, IsIssuer
    <2>3. RegistryTypeOK'
        BY <2>2, StreamBound DEF RegistryInv, RegistryTypeOK, HasBatch
    <2>4. Replay(Registry, e) = Registry'
        BY <2>1, <2>2 DEF Replay, Registry
    <2>5. QED
        BY <2>2, <2>3, <2>4, PublishingKeeps
<1>3. QED
    BY <1>1, <1>2

LEMMA Registering ==
    ASSUME RegistryInv, NEW by \in Address, NEW id \in BatchId, NEW root \in Root,
           NEW weight \in Weight, Register(by, id, root, weight)
    PROVE  RegistryInv'
<1>1. PICK e : e = [name |-> "BatchRegistered", batch_id |-> id, issuer |-> by, root |-> root,
                    weight_g |-> weight, registered_ledger |-> sequence]
    OBVIOUS
<1>2. PICK record : record =
          [root |-> root, weight_g |-> weight, issuer |-> by, registered_ledger |-> sequence,
           credited |-> FALSE, credited_ledger |-> NotYet]
    OBVIOUS
<1>3. /\ Found /\ sequence \in Nat /\ by \in issuers /\ batches[id] = NoRecord /\ weight # 0
      /\ batches' = [batches EXCEPT ![id] = record] /\ Publish(e)
      /\ UNCHANGED <<admin, issuers, archived, sequence>>
    BY <1>1, <1>2, InvFound DEF Register, ByIssuer, IsIssuer, HasBatch, Found
<1>4. e \in Published /\ record \in Record /\ record.registered_ledger = sequence
    BY <1>1, <1>2, <1>3 DEF Published, Record, NotYet
<1>5. RegistryTypeOK'
    <2>1. batches' \in [BatchId -> Record \cup {NoRecord}]
        BY <1>3, <1>4 DEF Found
    <2>2. \A i \in BatchId : HasBatch(i)' => batches'[i].registered_ledger <= sequence'
        BY <1>3, <1>4 DEF Found, HasBatch
    <2>3. QED
        BY <1>3, <2>1, <2>2, StreamBound DEF Found, RegistryTypeOK
<1>6. Replay(Registry, e) = Registry'
    BY <1>1, <1>2, <1>3 DEF Replay, Registry
<1>7. QED
    BY <1>3, <1>4, <1>5, <1>6, PublishingKeeps

LEMMA Crediting ==
    ASSUME RegistryInv, NEW by \in Address, NEW id \in BatchId, MarkCredited(by, id)
    PROVE  RegistryInv'
<1>1. PICK e : e = [name |-> "BatchCredited", batch_id |-> id, issuer |-> by,
                    weight_g |-> batches[id].weight_g, credited_ledger |-> sequence]
    OBVIOUS
<1>2. PICK record : record = [batches[id] EXCEPT !.credited = TRUE, !.credited_ledger = sequence]
    OBVIOUS
<1>3. /\ Found /\ sequence \in Nat /\ by \in issuers /\ batches[id] \in Record
      /\ ~batches[id].credited /\ HasBatch(id) /\ Publish(e)
      /\ batches' = [batches EXCEPT ![id].credited = TRUE, ![id].credited_ledger = sequence]
      /\ UNCHANGED <<admin, issuers, archived, sequence>>
    BY <1>1, InvFound DEF MarkCredited, ByIssuer, IsIssuer, HasBatch, Found
<1>4. batches' = [batches EXCEPT ![id] = record]
    BY <1>2, <1>3 DEF Found, Record
<1>5. e \in Published /\ record \in Record
      /\ record.registered_ledger = batches[id].registered_ledger
    BY <1>1, <1>2, <1>3 DEF Published, Record
<1>6. RegistryTypeOK'
    <2>1. batches' \in [BatchId -> Record \cup {NoRecord}]
        BY <1>3, <1>4, <1>5 DEF Found
    <2>2. \A i \in BatchId : HasBatch(i)' => batches'[i].registered_ledger <= sequence'
        BY <1>3, <1>4, <1>5 DEF Found, HasBatch
    <2>3. QED
        BY <1>3, <2>1, <2>2, StreamBound DEF Found, RegistryTypeOK
<1>7. Replay(Registry, e) = Registry'
    BY <1>1, <1>3 DEF Replay, Registry
<1>8. QED
    BY <1>3, <1>5, <1>6, <1>7, PublishingKeeps

LEMMA QuietKeeps ==
    ASSUME RegistryInv, UNCHANGED <<storage, published>>, RegistryTypeOK'
    PROVE  RegistryInv'
<1>1. UNCHANGED <<admin, issuers, batches, published>>
    BY DEF storage
<1>2. Replayed' = Replayed
    BY <1>1 DEF Replayed
<1>3. QED
    BY <1>1, <1>2 DEF RegistryInv, LogRebuildsRegistry

LEMMA NextRegistry == RegistryInv /\ [RegistryNext]_registryVars => RegistryInv'
<1> SUFFICES ASSUME RegistryInv, [RegistryNext]_registryVars PROVE RegistryInv'
    OBVIOUS
<1>1. CASE UNCHANGED registryVars
    <2>1. RegistryTypeOK'
        BY <1>1 DEF registryVars, storage, RegistryInv, RegistryTypeOK, HasBatch
    <2>2. QED
        BY <1>1, <2>1, QuietKeeps DEF registryVars
<1>2. CASE CloseLedger
    <2>1. RegistryTypeOK'
        BY <1>2, RegistryAssumption DEF CloseLedger, storage, RegistryInv, RegistryTypeOK,
                                        HasBatch, Record
    <2>2. QED
        BY <1>2, <2>1, QuietKeeps DEF CloseLedger
<1>3. ASSUME NEW entry \in Address \cup BatchId, RunsOut(entry) \/ Restore(entry)
      PROVE  RegistryInv'
    <2>1. RegistryTypeOK'
        BY <1>3 DEF RunsOut, Restore, storage, RegistryInv, RegistryTypeOK, HasBatch
    <2>2. QED
        BY <1>3, <2>1, QuietKeeps DEF RunsOut, Restore
<1>4. QED
    BY <1>1, <1>2, <1>3, Initializing, ChangingIssuers, Registering, Crediting DEF RegistryNext

\* Every reachable state is well typed (the storage of lib.rs).
THEOREM RegistryTypeCorrect == RegistrySpec => []RegistryTypeOK
<1>1. RegistryInv => RegistryTypeOK
    BY DEF RegistryInv
<1>2. QED
    BY <1>1, InitRegistry, NextRegistry, PTL DEF RegistrySpec

\* The registry can be rebuilt from its event stream alone (events.rs), for any
\* issuers, batches and length of the stream.
THEOREM StreamRebuilds == RegistrySpec => []LogRebuildsRegistry
<1>1. RegistryInv => LogRebuildsRegistry
    BY DEF RegistryInv
<1>2. QED
    BY <1>1, InitRegistry, NextRegistry, PTL DEF RegistrySpec
=============================================================================
