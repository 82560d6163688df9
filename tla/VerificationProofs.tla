-------------------------- MODULE VerificationProofs --------------------------
(* What a Merkle tree of any size proves, and what the reports and          *)
(* LedgerVerificationService guarantee for any batches, events and          *)
(* requests, and any length of the ledger.                                  *)
(*                                                                          *)
(* The argument for the verdicts: the ledger only grows, and a sealed root  *)
(* never changes; so a confirmation stays true however long it is kept.  A  *)
(* read sent out once Horizon had a good transaction cannot be told         *)
(* otherwise, and a request that was fresh when it asked joins no older     *)
(* read.                                                                    *)
(*                                                                          *)
(* The argument for the tree: the leftmost leaf of a node of level k is k   *)
(* below it, unless it is the last; so a promoted node is never taken for   *)
(* a combined one, and every level is told by the level above it.           *)
(*                                                                          *)
(* The argument for the reports: a batch that is sealed only loses events.  *)
(* What a request has read of it since lies between what was sealed and     *)
(* what is still there.                                                     *)
EXTENDS MCPublic, BatchRegistryProofs, SequenceTheorems, FiniteSetTheorems, TLAPS

-----------------------------------------------------------------------------
(* The inductive invariant.                                                 *)

\* The ledger holds the root, in a transaction that succeeded.
Held(root) == \E t \in 1 .. Len(ledger) : ledger[t].ok /\ ledger[t].root = root

\* The transaction of the key is on the ledger, and good.
Good(key) ==
    /\ key[1] \in 1 .. Len(ledger)
    /\ ledger[key[1]].ok /\ ledger[key[1]].root = key[2]

KeptOK(key) == key[1] # NoTx /\ Held(key[2])

\* What a read has learnt, and what it cannot be told any more.
ReadOK(read) ==
    /\ read.key[1] # NoTx /\ read.since <= ingested
    /\ read.memo => Held(read.key[2])
    /\ read.says = "confirmed" => Held(read.key[2])
    /\ read.key[1] <= read.since /\ Good(read.key) =>
           /\ read.says # "denied"
           /\ read.step = "account" => read.memo

\* A request that has asked, and what it may be answered.
AskedOK(w) ==
    /\ w.phase # "idle" => w.batch \in Batch
    /\ w.phase \in {"ledger", "done"} =>
           /\ w.asked[1] # NoTx =>
                  sealed[w.batch] # {} /\ w.asked[2] = RootOf[sealed[w.batch]]
           /\ w.fresh => w.asked[1] \in 1 .. ingested
    /\ w.phase = "ledger" =>
           /\ w.asked[1] # NoTx
           /\ w.fresh => \A read \in inFlight : read.key = w.asked => read.since >= w.asked[1]
    /\ w.phase = "done" =>
           /\ w.says = "confirmed" => w.asked[1] # NoTx /\ Held(w.asked[2])
           /\ w.says = "denied" /\ w.fresh => ~Good(w.asked)

SealedFirst == \A b \in Batch : anchor[b] # NoTx => sealed[b] # {}

\* Somebody waits for each read.
Awaited == \A read \in inFlight : \E r \in Reader : Waiting(r, read)

ServiceOK ==
    /\ \A key \in confirmed : KeptOK(key)
    /\ \A read \in inFlight : ReadOK(read)
    /\ Awaited

IInv == TypeOK /\ SealedFirst /\ ServiceOK /\ \A r \in Reader : AskedOK(reader[r])

\* TypeOK, taken apart.
DatabaseOK ==
    /\ batchOf \in [Event -> Batch \cup {NoBatch}]
    /\ sealed \in [Batch -> SUBSET Event]
    /\ anchor \in [Batch -> 0 .. MaxTx]
NetworkOK ==
    /\ ledger \in Seq([batch : Batch, root : Roots, ok : BOOLEAN])
    /\ ingested \in 0 .. Len(ledger) /\ Len(ledger) <= MaxTx
OneReadPerKey == \A read, other \in inFlight : read.key = other.key => read = other
ReadsOK == confirmed \subseteq Key /\ inFlight \subseteq LedgerRead /\ OneReadPerKey

LEMMA TypeParts ==
    TypeOK <=> /\ DatabaseOK /\ NetworkOK /\ ReadsOK
               /\ reader \in [Reader -> Reading] /\ restarts \in 0 .. MaxRestarts
BY DEF TypeOK, DatabaseOK, NetworkOK, ReadsOK, OneReadPerKey

LEMMA RootsAre == \A events \in SUBSET Event : RootOf[events] \in Roots
BY DEF Roots

LEMMA IdleOK == Idle \in Reading /\ AskedOK(Idle)
BY DEF Idle, Reading, Says, AskedOK

\* A reading of which phase, key, freshness and verdict are set.
AnswerAs(v, p, k, f, d) == [v EXCEPT !.phase = p, !.asked = k, !.fresh = f, !.says = d]

LEMMA AnswerAsOK ==
    ASSUME NEW v \in Reading, NEW p \in {"ledger", "done"}, NEW k \in Key,
           NEW f \in BOOLEAN, NEW d \in Says
    PROVE  /\ AnswerAs(v, p, k, f, d) \in Reading
           /\ AnswerAs(v, p, k, f, d).phase = p /\ AnswerAs(v, p, k, f, d).asked = k
           /\ AnswerAs(v, p, k, f, d).fresh = f /\ AnswerAs(v, p, k, f, d).says = d
           /\ AnswerAs(v, p, k, f, d).batch = v.batch
BY DEF Reading, AnswerAs

\* A request that has come in.
AskAs(kind, b, root, e, p) ==
    [Idle EXCEPT !.kind = kind, !.batch = b, !.root = root, !.event = e, !.phase = p]

LEMMA AskAsOK ==
    ASSUME NEW kind \in {"report", "event", "status"}, NEW b \in Batch, NEW root \in Roots,
           NEW e \in Nat, NEW p \in {"anchor", "events"}
    PROVE  /\ AskAs(kind, b, root, e, p) \in Reading
           /\ AskAs(kind, b, root, e, p).phase = p /\ AskAs(kind, b, root, e, p).batch = b
BY DEF Reading, Says, Idle, AskAs

LEMMA InitIInv == Init => IInv
<1> SUFFICES ASSUME Init PROVE IInv
    OBVIOUS
<1>1. DatabaseOK /\ NetworkOK
    BY VerificationAssumption, EmptySeq DEF Init, DatabaseOK, NetworkOK, NoTx
<1>2. ReadsOK /\ ServiceOK /\ SealedFirst
    BY DEF Init, ReadsOK, OneReadPerKey, ServiceOK, Awaited, SealedFirst
<1>3. reader \in [Reader -> Reading] /\ \A r \in Reader : AskedOK(reader[r])
    BY IdleOK DEF Init
<1>4. restarts \in 0 .. MaxRestarts
    BY VerificationAssumption DEF Init
<1>5. QED
    BY <1>1, <1>2, <1>3, <1>4, TypeParts DEF IInv

-----------------------------------------------------------------------------
(* What goes on meanwhile.                                                  *)

\* The ledger is appended to, Horizon takes in more of it, and what is sealed
\* stays sealed.
Grows ==
    /\ Len(ledger) \in Nat /\ Len(ledger') \in Nat /\ Len(ledger) <= Len(ledger')
    /\ \A t \in 1 .. Len(ledger) : ledger'[t] = ledger[t]
    /\ ingested \in 0 .. Len(ledger) /\ ingested' \in Nat /\ ingested <= ingested'
    /\ \A b \in Batch : sealed[b] # {} => sealed'[b] = sealed[b]

LEMMA HeldStays == ASSUME Grows, NEW root, Held(root) PROVE Held(root)'
BY DEF Grows, Held

LEMMA GoodSame ==
    ASSUME Grows, NEW key, key[1] \in Int, key[1] <= Len(ledger), Good(key)'
    PROVE  Good(key)
BY DEF Grows, Good

\* The world moves on, and what was learnt stays true.
LEMMA WorldMoves ==
    ASSUME IInv, Grows, DatabaseOK', NetworkOK', SealedFirst',
           UNCHANGED <<service, reader, restarts>>
    PROVE  IInv'
<1>1. /\ DatabaseOK /\ NetworkOK /\ ReadsOK /\ reader \in [Reader -> Reading]
      /\ restarts \in 0 .. MaxRestarts
    BY TypeParts DEF IInv
<1>2. TypeOK'
    BY <1>1 DEF TypeOK, DatabaseOK, NetworkOK, ReadsOK, OneReadPerKey, service
<1>3. ASSUME NEW key \in confirmed PROVE KeptOK(key)'
    BY <1>3, HeldStays DEF IInv, ServiceOK, KeptOK
<1>4. ASSUME NEW read \in inFlight PROVE ReadOK(read)'
    <2>1. read \in LedgerRead /\ ReadOK(read)
        BY <1>1 DEF ReadsOK, IInv, ServiceOK
    <2>2. read.key[1] \in Nat /\ read.since \in Nat
        BY <2>1, VerificationAssumption DEF LedgerRead, Key
    <2>3. read.since <= ingested' /\ read.since <= Len(ledger)
        BY <2>1, <2>2 DEF ReadOK, Grows
    <2>4. read.key[1] <= read.since /\ Good(read.key)' => Good(read.key)
        BY <2>2, <2>3, GoodSame DEF Grows
    <2>5. QED
        BY <2>1, <2>3, <2>4, HeldStays DEF ReadOK
<1>5. ServiceOK'
    BY <1>3, <1>4 DEF IInv, ServiceOK, Awaited, Waiting, service
<1>6. ASSUME NEW r \in Reader PROVE AskedOK(reader[r])'
    <2> DEFINE w == reader[r]
    <2>1. w \in Reading /\ AskedOK(w) /\ w' = w /\ inFlight' = inFlight
        BY <1>1 DEF IInv, service
    <2>2. w.batch \in Batch /\ sealed[w.batch] # {} => sealed'[w.batch] = sealed[w.batch]
        BY DEF Grows
    <2>3. w.asked[1] \in 1 .. ingested =>
            /\ w.asked[1] \in 1 .. ingested'
            /\ Good(w.asked)' => Good(w.asked)
        BY GoodSame DEF Grows
    <2> HIDE DEF w
    <2>4. AskedOK(w)'
        BY <2>1, <2>2, <2>3, HeldStays DEF AskedOK
    <2>5. QED
        BY <2>4 DEF w
<1>7. QED
    BY <1>2, <1>5, <1>6 DEF IInv

LEMMA Worlds ==
    ASSUME IInv,
           \/ Ingest
           \/ \E b \in Batch :
                  \/ \E e \in Event : MoveEvent(e, b)
                  \/ Seal(b) \/ Submit(b)
                  \/ \E t \in 1 .. MaxTx : RecordAnchor(b, t)
    PROVE  IInv'
<1>1. DatabaseOK /\ NetworkOK /\ Len(ledger) \in Nat
    BY TypeParts, LenProperties DEF IInv, NetworkOK
<1>2. UNCHANGED <<service, reader, restarts>>
    BY DEF Ingest, MoveEvent, Seal, Submit, RecordAnchor
<1>3. CASE Ingest
    <2>1. Grows /\ NetworkOK'
        BY <1>1, <1>3 DEF Ingest, Grows, NetworkOK, database
    <2>2. DatabaseOK' /\ SealedFirst'
        BY <1>1, <1>3 DEF Ingest, DatabaseOK, SealedFirst, IInv, database
    <2>3. QED
        BY <1>2, <2>1, <2>2, WorldMoves
<1>4. ASSUME NEW b \in Batch, NEW e \in Event, MoveEvent(e, b) PROVE IInv'
    <2>1. Grows /\ NetworkOK' /\ SealedFirst'
        BY <1>1, <1>4 DEF MoveEvent, Grows, NetworkOK, SealedFirst, IInv, network
    <2>2. DatabaseOK'
        BY <1>1, <1>4 DEF MoveEvent, DatabaseOK
    <2>3. QED
        BY <1>2, <2>1, <2>2, WorldMoves
<1>5. ASSUME NEW b \in Batch, Seal(b) PROVE IInv'
    <2>1. Members(b) \in SUBSET Event
        BY DEF Members
    <2>2. Grows /\ NetworkOK'
        BY <1>1, <1>5 DEF Seal, Grows, NetworkOK, DatabaseOK, network
    <2>3. DatabaseOK' /\ SealedFirst'
        BY <1>1, <1>5, <2>1 DEF Seal, DatabaseOK, SealedFirst, IInv
    <2>4. QED
        BY <1>2, <2>2, <2>3, WorldMoves
<1>6. ASSUME NEW b \in Batch, Submit(b) PROVE IInv'
    <2>1. PICK ok \in BOOLEAN :
            ledger' = Append(ledger, [batch |-> b, root |-> RootOf[sealed[b]], ok |-> ok])
        BY <1>6 DEF Submit
    <2> DEFINE tx == [batch |-> b, root |-> RootOf[sealed[b]], ok |-> ok]
    <2>2. tx \in [batch : Batch, root : Roots, ok : BOOLEAN]
        BY <1>1, RootsAre DEF DatabaseOK
    <2> HIDE DEF tx
    <2>3. /\ ledger' \in Seq([batch : Batch, root : Roots, ok : BOOLEAN])
          /\ Len(ledger') = Len(ledger) + 1
          /\ \A t \in 1 .. Len(ledger) : ledger'[t] = ledger[t]
        BY <1>1, <2>1, <2>2, AppendProperties DEF NetworkOK, tx
    <2>4. Grows /\ NetworkOK'
        BY <1>1, <1>6, <2>3, VerificationAssumption DEF Submit, Grows, NetworkOK, database
    <2>5. DatabaseOK' /\ SealedFirst'
        BY <1>1, <1>6 DEF Submit, DatabaseOK, SealedFirst, IInv, database
    <2>6. QED
        BY <1>2, <2>4, <2>5, WorldMoves
<1>7. ASSUME NEW b \in Batch, NEW t \in 1 .. MaxTx, RecordAnchor(b, t) PROVE IInv'
    <2>1. Grows /\ NetworkOK'
        BY <1>1, <1>7 DEF RecordAnchor, Grows, NetworkOK, network
    <2>2. DatabaseOK' /\ SealedFirst'
        BY <1>1, <1>7, VerificationAssumption DEF RecordAnchor, DatabaseOK, SealedFirst, IInv
    <2>3. QED
        BY <1>2, <2>1, <2>2, WorldMoves
<1>8. QED
    BY <1>3, <1>4, <1>5, <1>6, <1>7
-----------------------------------------------------------------------------
(* A request.                                                               *)

LEMMA Parts ==
    ASSUME IInv
    PROVE  /\ DatabaseOK /\ NetworkOK /\ ReadsOK /\ reader \in [Reader -> Reading]
           /\ restarts \in 0 .. MaxRestarts
BY TypeParts DEF IInv

\* One request goes on that waits for no read.
LEMMA RequestMoves ==
    ASSUME IInv, NEW r \in Reader, NEW w \in Reading,
           reader[r].phase # "ledger", w.phase \notin {"ledger", "done"},
           w.phase # "idle" => w.batch \in Batch,
           reader' = [reader EXCEPT ![r] = w], UNCHANGED <<database, network, service, restarts>>
    PROVE  IInv'
<1>1. TypeOK'
    BY Parts DEF TypeOK, DatabaseOK, NetworkOK, ReadsOK, OneReadPerKey, database, network, service
<1>2. ASSUME NEW q \in Reader PROVE AskedOK(reader[q])'
    <2>1. CASE q = r
        BY Parts, <2>1 DEF AskedOK
    <2>2. CASE q # r
        <3>1. reader'[q] = reader[q] /\ AskedOK(reader[q])
            BY Parts, <2>2 DEF IInv
        <3>2. QED
            BY <3>1 DEF AskedOK, Held, Good, database, network, service
    <2>3. QED
        BY <2>1, <2>2
<1>3. Awaited'
    BY Parts DEF IInv, ServiceOK, Awaited, Waiting, service
<1>4. ServiceOK' /\ SealedFirst'
    BY <1>3 DEF IInv, ServiceOK, SealedFirst, KeptOK, ReadOK, Held, Good, database, network, service
<1>5. QED
    BY <1>1, <1>2, <1>4 DEF IInv

LEMMA Calling ==
    ASSUME IInv, NEW r \in Reader, NEW b \in Batch, Call(r, b)
    PROVE  IInv'
<1>1. PICK kind \in {"report", "event", "status"}, e \in Event \cup {0} : Ask(r, kind, b, e)
    BY DEF Call
<1> DEFINE phase == IF kind = "status" THEN "anchor" ELSE "events"
           w == AskAs(kind, b, RootOf[sealed[b]], e, phase)
<1>2. /\ reader[r].phase = "idle" /\ reader' = [reader EXCEPT ![r] = w]
      /\ UNCHANGED <<database, network, service, restarts>>
    BY <1>1 DEF Ask, AskAs
<1>3. /\ RootOf[sealed[b]] \in Roots /\ e \in Nat
      /\ phase \in {"anchor", "events"}
    <2>1. sealed[b] \in SUBSET Event
        BY Parts DEF DatabaseOK
    <2>2. RootOf[sealed[b]] \in Roots
        BY <2>1, RootsAre, Zenon
    <2>3. e \in Nat
        BY VerificationAssumption
    <2>4. QED
        BY <2>2, <2>3
<1> HIDE DEF phase
<1>4. w \in Reading /\ w.phase = phase /\ w.batch = b
    BY <1>3, AskAsOK
<1> HIDE DEF w
<1>5. QED
    BY <1>2, <1>3, <1>4, RequestMoves

LEMMA ReadingEvents ==
    ASSUME IInv, NEW r \in Reader, ReadEvents(r) \/ Dismiss(r)
    PROVE  IInv'
<1>1. reader[r] \in Reading /\ reader[r].phase # "ledger"
    BY Parts DEF ReadEvents, Dismiss
<1>2. UNCHANGED <<database, network, service, restarts>>
    BY DEF ReadEvents, Dismiss
<1>3. CASE reader' = [reader EXCEPT ![r] = Idle]
    BY <1>1, <1>2, <1>3, IdleOK, RequestMoves DEF Idle
<1>4. CASE /\ reader[r].phase = "events"
           /\ reader' = [reader EXCEPT ![r] = [@ EXCEPT !.phase = "anchor",
                                                       !.events = Members(reader[r].batch)]]
    <2> DEFINE w == [reader[r] EXCEPT !.phase = "anchor", !.events = Members(reader[r].batch)]
    <2>1. w \in Reading /\ w.phase \notin {"ledger", "done"} /\ w.batch = reader[r].batch
        BY <1>1 DEF Reading, Members
    <2>2. reader' = [reader EXCEPT ![r] = w]
        BY <1>4, Parts
    <2>3. reader[r].batch \in Batch
        BY <1>4 DEF IInv, AskedOK
    <2>4. QED
        BY <1>1, <1>2, <2>1, <2>2, <2>3, RequestMoves
<1>5. QED
    BY <1>3, <1>4 DEF ReadEvents, Dismiss

-----------------------------------------------------------------------------
(* The ledger is asked.                                                     *)

\* A request joins the read under way for its key, or sends one out.
LEMMA AskingLedger ==
    ASSUME IInv, NEW r \in Reader, ReadAnchor(r)
    PROVE  IInv'
<1> DEFINE b == reader[r].batch
           key == <<anchor[b], RootOf[sealed[b]]>>
           known == key \in confirmed
           asks == anchor[b] # NoTx /\ ~known
           read == [key |-> key, batch |-> b, step |-> "transaction",
                    since |-> ingested, memo |-> FALSE, says |-> "unknown"]
           phase == IF asks THEN "ledger" ELSE "done"
           says == IF known THEN "confirmed" ELSE IF asks THEN "unknown" ELSE "unanchored"
           fresh == Fresh(key)
           w == AnswerAs(reader[r], phase, key, fresh, says)
<1>0. b \in Batch
    BY DEF ReadAnchor, IInv, AskedOK
<1>1. /\ reader' = [reader EXCEPT ![r] = w] /\ reader[r].phase = "anchor"
      /\ inFlight' = IF asks /\ ~UnderWay(key) THEN inFlight \cup {read} ELSE inFlight
      /\ UNCHANGED <<database, network, confirmed, restarts>>
    BY Parts DEF ReadAnchor, AnswerAs
<1>2. key \in Key /\ anchor[b] \in Nat /\ ingested \in Nat
    <2>1. /\ anchor[b] \in 0 .. MaxTx /\ sealed[b] \in SUBSET Event
          /\ ingested \in 0 .. Len(ledger) /\ Len(ledger) \in Nat
        BY <1>0, Parts, LenProperties DEF DatabaseOK, NetworkOK
    <2>2. RootOf[sealed[b]] \in Roots
        BY <2>1, RootsAre
    <2>3. QED
        BY <2>1, <2>2, VerificationAssumption DEF Key
<1>3. /\ w \in Reading /\ w.phase = phase
      /\ w.asked = key /\ w.fresh = fresh /\ w.batch = b /\ w.says = says
    <2>1. /\ phase \in {"ledger", "done"} /\ says \in Says /\ fresh \in BOOLEAN
          /\ reader[r] \in Reading
        BY Parts DEF Says, Fresh
    <2> HIDE DEF phase, says, key, fresh
    <2>2. QED
        BY <1>2, <2>1, AnswerAsOK
<1>4. read \in LedgerRead
    BY <1>0, <1>2 DEF LedgerRead, Says
<1>5. /\ key[1] = anchor[b] /\ key[2] = RootOf[sealed[b]]
      /\ key[1] # NoTx => sealed[b] # {}
    BY <1>0 DEF IInv, SealedFirst
<1>6. asks => ReadOK(read)
    BY <1>2, <1>5 DEF ReadOK
<1>7. /\ asks => w.phase = "ledger" /\ key[1] # NoTx
      /\ ~asks => w.phase = "done" /\ w.says # "denied"
      /\ w.says = "confirmed" => KeptOK(key)
      /\ read.key = key /\ read.since = ingested
    <2>1. known => KeptOK(key)
        BY DEF IInv, ServiceOK
    <2>2. read.key = key /\ read.since = ingested
        OBVIOUS
    <2> HIDE DEF w, read, key
    <2>3. asks => key[1] # NoTx
        BY <1>5
    <2>4. QED
        BY <1>3, <2>1, <2>2, <2>3
<1>8. fresh => /\ key[1] \in 1 .. ingested
               /\ \A other \in inFlight : other.key = key => other.since >= key[1]
    BY DEF Fresh, IInv, ServiceOK, Awaited
<1> HIDE DEF w, read, key, asks, known, fresh, phase, says, b
<1>9. /\ \A q \in Reader : q # r => reader'[q] = reader[q]
      /\ reader'[r] = w
    BY <1>1, Parts
<1>10. TypeOK' /\ SealedFirst'
    <2>1. OneReadPerKey'
        <3>1. \/ inFlight' = inFlight
              \/ inFlight' = inFlight \cup {read} /\ \A other \in inFlight : other.key # read.key
            BY <1>1, <1>7 DEF UnderWay
        <3>2. OneReadPerKey
            BY Parts DEF ReadsOK
        <3>3. QED
            BY <3>1, <3>2 DEF OneReadPerKey
    <2>2. reader' \in [Reader -> Reading]
        BY <1>1, <1>3, Parts
    <2>3. inFlight' \subseteq LedgerRead
        BY <1>1, <1>4, Parts DEF ReadsOK
    <2>4. SealedFirst'
        BY <1>1 DEF IInv, SealedFirst, database
    <2>5. DatabaseOK' /\ NetworkOK' /\ confirmed' \subseteq Key /\ restarts' \in 0 .. MaxRestarts
        BY <1>1, Parts DEF DatabaseOK, NetworkOK, ReadsOK, database, network
    <2>6. QED
        BY <2>1, <2>2, <2>3, <2>4, <2>5
           DEF TypeOK, DatabaseOK, NetworkOK, OneReadPerKey
<1>11. ServiceOK'
    <2>1. ASSUME NEW k \in confirmed PROVE KeptOK(k)'
        <3>1. KeptOK(k)
            BY DEF IInv, ServiceOK
        <3>2. QED
            BY <1>1, <3>1 DEF KeptOK, Held, network
    <2>2. ASSUME NEW other \in inFlight' PROVE ReadOK(other)'
        <3>1. ReadOK(other)
            BY <1>1, <1>6, <2>2 DEF IInv, ServiceOK
        <3>2. QED
            BY <1>1, <3>1 DEF ReadOK, Held, Good, network
    <2>3. ASSUME NEW other \in inFlight' PROVE \E q \in Reader : Waiting(q, other)'
        <3>1. CASE other \in inFlight
            <4>1. PICK q \in Reader : Waiting(q, other)
                BY <3>1 DEF IInv, ServiceOK, Awaited
            <4>2. reader'[q] = reader[q]
                BY <1>1, <1>9, <4>1 DEF Waiting
            <4>3. QED
                BY <4>1, <4>2 DEF Waiting
        <3>2. CASE asks /\ other = read
            <4>1. reader'[r].phase = "ledger" /\ reader'[r].asked = other.key
                BY <1>3, <1>7, <1>9, <3>2
            <4>2. QED
                BY <4>1 DEF Waiting
        <3>3. QED
            BY <1>1, <2>3, <3>1, <3>2
    <2>4. QED
        BY <1>1, <2>1, <2>2, <2>3 DEF ServiceOK, Awaited
<1>12. ASSUME NEW q \in Reader PROVE AskedOK(reader[q])'
    <2>1. CASE q # r
        <3>1. reader'[q] = reader[q] /\ AskedOK(reader[q]) /\ reader[q] \in Reading
            BY <1>9, <2>1, Parts DEF IInv
        <3>2. ASSUME reader[q].phase = "ledger", reader[q].fresh,
                     NEW other \in inFlight', other.key = reader[q].asked
              PROVE  other.since >= reader[q].asked[1]
            <4>1. CASE other \in inFlight
                BY <3>1, <3>2, <4>1 DEF AskedOK
            <4>2. CASE other = read
                <5>1. reader[q].asked[1] \in 1 .. ingested
                    BY <3>1, <3>2 DEF AskedOK
                <5>2. QED
                    BY <1>2, <1>7, <4>2, <5>1
            <4>3. QED
                BY <1>1, <3>2, <4>1, <4>2
        <3>3. QED
            BY <1>1, <3>1, <3>2 DEF AskedOK, Held, Good, database, network
    <2>2. CASE q = r
        <3>1. ASSUME fresh, NEW other \in inFlight', other.key = key
              PROVE  other.since >= key[1]
            <4>1. CASE other \in inFlight
                BY <1>8, <3>1, <4>1
            <4>2. CASE other = read
                <5>1. key[1] \in 1 .. ingested
                    BY <1>8, <3>1
                <5>2. other.since = ingested
                    BY <1>7, <4>2
                <5>3. QED
                    BY <1>2, <5>1, <5>2
            <4>3. QED
                BY <1>1, <3>1, <4>1, <4>2
        <3>2. sealed' = sealed /\ ingested' = ingested /\ ledger' = ledger
            BY <1>1 DEF database, network
        <3>3. reader'[q] = w
            BY <1>9, <2>2
        <3>4. /\ key[1] # NoTx => sealed'[w.batch] # {} /\ key[2] = RootOf[sealed'[w.batch]]
              /\ w.batch \in Batch
            BY <1>0, <1>3, <1>5, <3>2
        <3>5. fresh => key[1] \in 1 .. ingested'
            BY <1>8, <3>2
        <3>6. CASE asks
            BY <1>3, <1>7, <3>1, <3>3, <3>4, <3>5, <3>6 DEF AskedOK
        <3>7. CASE ~asks
            BY <1>3, <1>7, <3>2, <3>3, <3>4, <3>5, <3>7 DEF AskedOK, KeptOK, Held
        <3>8. QED
            BY <3>6, <3>7
    <2>3. QED
        BY <2>1, <2>2
<1>13. QED
    BY <1>10, <1>11, <1>12 DEF IInv

-----------------------------------------------------------------------------
(* Horizon answers.                                                         *)

LEMMA ReadGoesOn ==
    ASSUME IInv, NEW read \in inFlight, NEW next \in LedgerRead, GoOn(read, next),
           next.key = read.key, next.since = read.since, ReadOK(next)
    PROVE  IInv'
<1>1. /\ inFlight' = (inFlight \ {read}) \cup {next}
      /\ UNCHANGED <<database, network, confirmed, reader, restarts>>
    BY DEF GoOn
<1>2. OneReadPerKey' /\ inFlight' \subseteq LedgerRead
    BY <1>1, Parts DEF ReadsOK, OneReadPerKey
<1>3. TypeOK' /\ SealedFirst'
    BY <1>1, <1>2, Parts
       DEF TypeOK, DatabaseOK, NetworkOK, ReadsOK, OneReadPerKey, database, network, IInv,
           SealedFirst
<1>4. Awaited'
    BY <1>1 DEF IInv, ServiceOK, Awaited, Waiting
<1>5. ServiceOK'
    BY <1>1, <1>4 DEF IInv, ServiceOK, KeptOK, ReadOK, Held, Good, network
<1>6. ASSUME NEW q \in Reader PROVE AskedOK(reader[q])'
    BY <1>1 DEF IInv, AskedOK, Held, Good, database, network
<1>7. QED
    BY <1>3, <1>5, <1>6 DEF IInv

LEMMA Answering ==
    ASSUME IInv, NEW read \in inFlight,
           TransactionAnswered(read) \/ AccountAnswered(read) \/ HorizonSilent(read)
    PROVE  IInv'
<1>1. /\ read \in LedgerRead /\ ReadOK(read) /\ read.key[1] \in Nat /\ read.since \in Nat
      /\ ingested \in Nat /\ Len(ledger) \in Nat /\ ingested <= Len(ledger)
    BY Parts, VerificationAssumption, LenProperties
       DEF IInv, ServiceOK, ReadsOK, LedgerRead, Key, NetworkOK
<1>2. ASSUME NEW says \in {"confirmed", "denied", "unknown"}, Over(read, says),
             says = "confirmed" => Held(read.key[2]),
             says = "denied" => ~(read.key[1] <= read.since /\ Good(read.key))
      PROVE  IInv'
    <2> DEFINE next == [read EXCEPT !.step = "over", !.says = says]
    <2>1. /\ next \in LedgerRead /\ next.key = read.key /\ next.since = read.since
          /\ next.memo = read.memo /\ next.says = says /\ next.step = "over"
        BY <1>1 DEF LedgerRead, Says
    <2>2. GoOn(read, next)
        BY <1>2 DEF Over
    <2> HIDE DEF next
    <2>3. ReadOK(next)
        BY <1>1, <1>2, <2>1 DEF ReadOK
    <2>4. QED
        BY <2>1, <2>2, <2>3, ReadGoesOn
<1>3. CASE TransactionAnswered(read)
    <2> DEFINE tx == read.key[1]
               next == [read EXCEPT !.step = "account",
                                    !.memo = (ledger[tx].root = read.key[2])]
    <2>1. CASE tx \in 1 .. ingested /\ ledger[tx].ok
        <3>1. /\ next \in LedgerRead /\ next.key = read.key /\ next.since = read.since
              /\ next.memo <=> ledger[tx].root = read.key[2]
              /\ next.says = read.says
            BY <1>1 DEF LedgerRead
        <3>2. GoOn(read, next)
            BY <1>3, <2>1 DEF TransactionAnswered
        <3> HIDE DEF next
        <3>3. next.memo => Held(read.key[2])
            BY <1>1, <2>1, <3>1 DEF Held
        <3>4. ReadOK(next)
            BY <1>1, <3>1, <3>3 DEF ReadOK, Good
        <3>5. QED
            BY <3>1, <3>2, <3>4, ReadGoesOn
    <2>2. CASE ~(tx \in 1 .. ingested /\ ledger[tx].ok)
        <3>1. ~(read.key[1] <= read.since /\ Good(read.key))
            BY <1>1, <2>2 DEF ReadOK, Good
        <3>2. Over(read, "denied")
            BY <1>3, <2>2 DEF TransactionAnswered
        <3>3. QED
            BY <1>2, <3>1, <3>2
    <2>3. QED
        BY <2>1, <2>2
<1>4. CASE AccountAnswered(read)
    <2>1. PICK entry \in {DataEntry(read.batch, read.key[2]), FALSE} :
            Over(read, IF Confirms(read.memo, entry) THEN "confirmed" ELSE "denied")
        BY <1>4 DEF AccountAnswered
    <2>2. DataEntry(read.batch, read.key[2]) => Held(read.key[2])
        BY <1>1 DEF DataEntry, Held
    <2>3. CASE Confirms(read.memo, entry)
        BY <1>1, <1>2, <2>1, <2>2, <2>3 DEF Confirms, ReadOK
    <2>4. CASE ~Confirms(read.memo, entry)
        <3>1. ~read.memo /\ read.step = "account"
            BY <1>4, <2>4 DEF Confirms, AccountAnswered
        <3>2. ~(read.key[1] <= read.since /\ Good(read.key))
            BY <1>1, <3>1 DEF ReadOK
        <3>3. QED
            BY <1>2, <2>1, <2>4, <3>2
    <2>5. QED
        BY <2>3, <2>4
<1>5. CASE HorizonSilent(read)
    BY <1>2, <1>5 DEF HorizonSilent
<1>6. QED
    BY <1>3, <1>4, <1>5

\* Everybody who waited is told what the read learnt.
LEMMA Settling ==
    ASSUME IInv, NEW read \in inFlight, Settle(read)
    PROVE  IInv'
<1>1. /\ confirmed' \subseteq confirmed \cup {read.key}
      /\ read.key \in confirmed' => read.key \in confirmed \/ read.says = "confirmed"
      /\ inFlight' = inFlight \ {read}
      /\ UNCHANGED <<database, network, restarts>>
    BY DEF Settle, Keeps, Cleared
<1>2. read \in LedgerRead /\ ReadOK(read) /\ read.key \in Key
    BY Parts DEF IInv, ServiceOK, ReadsOK, LedgerRead
<1>3. ASSUME NEW q \in Reader
      PROVE  reader'[q] = IF Waiting(q, read)
                          THEN [reader[q] EXCEPT !.phase = "done", !.says = read.says]
                          ELSE reader[q]
    BY DEF Settle
<1>4. reader' \in [Reader -> Reading]
    <2>1. ASSUME NEW q \in Reader PROVE reader'[q] \in Reading
        <3>1. reader[q] \in Reading /\ read.says \in Says
            BY <1>2, Parts DEF LedgerRead
        <3>2. [reader[q] EXCEPT !.phase = "done", !.says = read.says] \in Reading
            BY <3>1 DEF Reading
        <3>3. QED
            BY <1>3, <3>1, <3>2
    <2>2. QED
        BY <2>1 DEF Settle
<1>5. TypeOK' /\ SealedFirst'
    BY <1>1, <1>2, <1>4, Parts
       DEF TypeOK, DatabaseOK, NetworkOK, ReadsOK, OneReadPerKey, database, network, IInv,
           SealedFirst
<1>6. ASSUME NEW other \in inFlight' PROVE \E q \in Reader : Waiting(q, other)'
    <2>1. other.key # read.key
        BY <1>1, <1>6, Parts DEF ReadsOK, OneReadPerKey
    <2>2. PICK q \in Reader : Waiting(q, other)
        BY <1>1, <1>6 DEF IInv, ServiceOK, Awaited
    <2>3. reader'[q] = reader[q]
        BY <1>3, <2>1, <2>2 DEF Waiting
    <2>4. QED
        BY <2>2, <2>3 DEF Waiting
<1>7. ServiceOK'
    <2>1. ASSUME NEW key \in confirmed' PROVE KeptOK(key)'
        <3>1. KeptOK(key)
            BY <1>1, <1>2, <2>1 DEF IInv, ServiceOK, KeptOK, ReadOK
        <3>2. QED
            BY <1>1, <3>1 DEF KeptOK, Held, network
    <2>2. \A other \in inFlight' : ReadOK(other)'
        BY <1>1 DEF IInv, ServiceOK, ReadOK, Held, Good, network
    <2>3. QED
        BY <1>6, <2>1, <2>2 DEF ServiceOK, Awaited
<1>8. ASSUME NEW q \in Reader PROVE AskedOK(reader[q])'
    <2>1. reader[q] \in Reading /\ AskedOK(reader[q])
        BY Parts DEF IInv
    <2>2. CASE ~Waiting(q, read)
        <3>1. reader'[q] = reader[q]
            BY <1>3, <2>2
        <3>2. QED
            BY <1>1, <2>1, <3>1 DEF AskedOK, Held, Good, database, network
    <2>3. CASE Waiting(q, read)
        <3> DEFINE w == [reader[q] EXCEPT !.phase = "done", !.says = read.says]
        <3>1. /\ w.phase = "done" /\ w.says = read.says /\ w.asked = reader[q].asked
              /\ w.fresh = reader[q].fresh /\ w.batch = reader[q].batch
            BY <2>1 DEF Reading
        <3>2. reader'[q] = w
            BY <1>3, <2>3
        <3> HIDE DEF w
        <3>3. reader[q].phase = "ledger" /\ reader[q].asked = read.key
            BY <2>3 DEF Waiting
        <3>4. w.fresh => read.since >= read.key[1]
            BY <2>1, <3>1, <3>3 DEF AskedOK
        <3>5. read.since \in Nat /\ read.key[1] \in Nat
            BY <1>2, VerificationAssumption DEF LedgerRead, Key
        <3>6. w.says = "denied" /\ w.fresh => ~Good(w.asked)
            BY <1>2, <3>1, <3>3, <3>4, <3>5 DEF ReadOK
        <3>7. w.says = "confirmed" => w.asked[1] # NoTx /\ Held(w.asked[2])
            BY <1>2, <3>1, <3>3 DEF ReadOK
        <3>8. QED
            BY <1>1, <2>1, <3>1, <3>2, <3>3, <3>6, <3>7
               DEF AskedOK, Held, Good, database, network
    <2>4. QED
        BY <2>2, <2>3
<1>9. QED
    BY <1>5, <1>7, <1>8 DEF IInv

LEMMA Restarting ==
    ASSUME IInv, Restart
    PROVE  IInv'
<1>1. /\ confirmed' = {} /\ inFlight' = {} /\ reader' = [r \in Reader |-> Idle]
      /\ UNCHANGED <<database, network>>
    BY DEF Restart
<1>2. restarts' \in 0 .. MaxRestarts
    BY Parts, VerificationAssumption DEF Restart
<1>3. TypeOK' /\ SealedFirst'
    BY <1>1, <1>2, Parts, IdleOK
       DEF TypeOK, DatabaseOK, NetworkOK, ReadsOK, OneReadPerKey, database, network, IInv,
           SealedFirst
<1>4. ServiceOK'
    BY <1>1 DEF ServiceOK, Awaited
<1>5. \A r \in Reader : AskedOK(reader[r])'
    BY <1>1 DEF AskedOK, Idle
<1>6. QED
    BY <1>3, <1>4, <1>5 DEF IInv

-----------------------------------------------------------------------------
LEMMA NextIInv == IInv /\ [Next]_vars => IInv'
<1> SUFFICES ASSUME IInv, [Next]_vars PROVE IInv'
    OBVIOUS
<1>1. CASE UNCHANGED vars
    <2>1. Grows
        BY <1>1, Parts, LenProperties DEF vars, database, network, Grows, NetworkOK
    <2>2. DatabaseOK' /\ NetworkOK' /\ SealedFirst'
        BY <1>1, Parts DEF vars, database, network, DatabaseOK, NetworkOK, IInv, SealedFirst
    <2>3. QED
        BY <1>1, <2>1, <2>2, WorldMoves DEF vars
<1>2. CASE World
    BY <1>2, Worlds, Answering, Settling, Restarting DEF World, Horizon
<1>3. CASE \E r \in Reader : Serve(r) \/ \E b \in Batch : Call(r, b)
    BY <1>3, ReadingEvents, AskingLedger, Calling DEF Serve
<1>4. QED
    BY <1>1, <1>2, <1>3 DEF Next

LEMMA Invariance == Spec => []IInv
BY InitIInv, NextIInv, PTL DEF Spec

\* The database, the ledger, the reads and the requests keep their types, and
\* LedgerVerificationService never has two reads for one key.
THEOREM TypeCorrect == Spec => []TypeOK
BY Invariance, PTL DEF IInv

\* A confirmation, fresh or kept, is true of the ledger, and a request that was
\* fresh when it asked is not told that a good anchor is contradicted
\* (LedgerVerificationService.verify).
THEOREM VerdictsHold == Spec => []VerdictsAreTrue
<1>1. IInv => VerdictsAreTrue
    <2> SUFFICES ASSUME IInv, NEW r \in Reader, reader[r].phase = "done"
                 PROVE  /\ reader[r].says = "confirmed" => OnLedger(reader[r].batch)
                        /\ reader[r].says = "denied" /\ reader[r].fresh =>
                               ~(/\ ledger[reader[r].asked[1]].ok
                                 /\ ledger[reader[r].asked[1]].root = reader[r].asked[2])
        BY DEF VerdictsAreTrue
    <2>1. AskedOK(reader[r]) /\ ingested \in Nat /\ Len(ledger) \in Nat /\ ingested <= Len(ledger)
        BY Parts, LenProperties DEF IInv, NetworkOK
    <2>2. QED
        BY <2>1 DEF AskedOK, Held, Good, OnLedger
<1>2. QED
    BY <1>1, Invariance, PTL

-----------------------------------------------------------------------------
(* The Merkle tree: what its recursive functions are.                      *)

\* A sequence, whatever its elements.
IsList(s) == Len(s) \in Nat /\ DOMAIN s = 1 .. Len(s)

\* A function on 1 .. n is a list of that length.
LEMMA ListOf ==
    ASSUME NEW n \in Nat, NEW s, s = [i \in 1 .. n |-> s[i]]
    PROVE  IsList(s) /\ Len(s) = n
<1> DEFINE S == {s[i] : i \in 1 .. n}
<1>1. s \in [1 .. n -> S]
    OBVIOUS
<1>2. s \in Seq(S)
    BY <1>1
<1>3. Len(s) \in Nat /\ DOMAIN s = 1 .. Len(s)
    BY <1>2, LenProperties
<1>4. DOMAIN s = 1 .. n
    BY <1>1
<1>5. Len(s) = n
    BY <1>3, <1>4
<1>6. QED
    BY <1>3, <1>5 DEF IsList

\* f is the levels of the tree over leaves, up to level max.
Rises(f, leaves, max) == f = [k \in 0 .. max |-> IF k = 0 THEN leaves ELSE Above(f[k - 1])]

\* w is the way through the levels tree from the leaf at index.
Walks(w, tree, index, max) ==
    w = [k \in 0 .. max |-> IF k = 0 THEN [at |-> index, proof |-> << >>]
                                     ELSE Onward(w[k - 1], tree[k - 1])]

\* acc is what leaf and the steps of proof are combined to.
Climbs(acc, leaf, proof, max) ==
    acc = [n \in 0 .. max |-> IF n = 0 THEN leaf ELSE Combined(acc[n - 1], proof[n])]

\* Each is made one step at a time.
LEMMA LevelsExist == ASSUME NEW leaves, NEW max \in Nat PROVE \E f : Rises(f, leaves, max)
<1> DEFINE T == {k \in Nat : ~ \E f : Rises(f, leaves, k)}
<1> SUFFICES ASSUME T # {} PROVE FALSE
    OBVIOUS
<1>1. PICK m \in T : \A k \in T : m <= k
    BY LeastNatural
<1>2. m # 0
    <2> DEFINE f == [n \in 0 .. 0 |-> leaves]
    <2>1. Rises(f, leaves, 0)
        BY DEF Rises
    <2>2. QED
        BY <2>1
<1>3. m - 1 \in Nat /\ m - 1 \notin T
    BY <1>1, <1>2
<1>4. PICK f : Rises(f, leaves, m - 1)
    BY <1>3
<1> DEFINE g == [n \in 0 .. m |-> IF n = m THEN Above(f[m - 1]) ELSE f[n]]
<1>5. ASSUME NEW n \in 0 .. m
      PROVE  g[n] = IF n = 0 THEN leaves ELSE Above(g[n - 1])
    <2>1. CASE n = 0
        BY <1>2, <1>3, <1>4, <2>1 DEF Rises
    <2>2. CASE n # 0 /\ n # m
        <3>1. n \in 0 .. (m - 1) /\ n - 1 \in 0 .. m /\ n - 1 # m
            BY <1>3, <2>2
        <3>2. f[n] = Above(f[n - 1])
            BY <1>4, <2>2, <3>1 DEF Rises
        <3>3. g[n] = f[n] /\ g[n - 1] = f[n - 1]
            BY <2>2, <3>1
        <3>4. QED
            BY <2>2, <3>2, <3>3
    <2>3. CASE n # 0 /\ n = m
        <3>1. n - 1 \in 0 .. m /\ n - 1 # m
            BY <1>3, <2>3
        <3>2. g[n] = Above(f[n - 1]) /\ g[n - 1] = f[n - 1]
            BY <2>3, <3>1
        <3>3. QED
            BY <2>3, <3>2
    <2>4. QED
        BY <2>1, <2>2, <2>3
<1> HIDE DEF g
<1>6. g = [n \in 0 .. m |-> g[n]]
    BY DEF g
<1>7. Rises(g, leaves, m)
    BY <1>5, <1>6 DEF Rises
<1>8. QED
    BY <1>7

LEMMA WalksExist ==
    ASSUME NEW tree, NEW index, NEW max \in Nat
    PROVE  \E w : Walks(w, tree, index, max)
<1> DEFINE T == {k \in Nat : ~ \E w : Walks(w, tree, index, k)}
           start == [at |-> index, proof |-> << >>]
<1> SUFFICES ASSUME T # {} PROVE FALSE
    OBVIOUS
<1>1. PICK m \in T : \A k \in T : m <= k
    BY LeastNatural
<1>2. m # 0
    <2> DEFINE f == [n \in 0 .. 0 |-> start]
    <2>1. Walks(f, tree, index, 0)
        BY DEF Walks
    <2>2. QED
        BY <2>1
<1>3. m - 1 \in Nat /\ m - 1 \notin T
    BY <1>1, <1>2
<1>4. PICK f : Walks(f, tree, index, m - 1)
    BY <1>3
<1> DEFINE g == [n \in 0 .. m |-> IF n = m THEN Onward(f[m - 1], tree[m - 1]) ELSE f[n]]
<1> HIDE DEF start
<1>5. ASSUME NEW n \in 0 .. m
      PROVE  g[n] = IF n = 0 THEN start ELSE Onward(g[n - 1], tree[n - 1])
    <2>1. CASE n = 0
        BY <1>2, <1>3, <1>4, <2>1 DEF Walks, start
    <2>2. CASE n # 0 /\ n # m
        <3>1. n \in 0 .. (m - 1) /\ n - 1 \in 0 .. m /\ n - 1 # m
            BY <1>3, <2>2
        <3>2. f[n] = Onward(f[n - 1], tree[n - 1])
            BY <1>4, <2>2, <3>1 DEF Walks
        <3>3. g[n] = f[n] /\ g[n - 1] = f[n - 1]
            BY <2>2, <3>1
        <3>4. QED
            BY <2>2, <3>2, <3>3
    <2>3. CASE n # 0 /\ n = m
        <3>1. n - 1 \in 0 .. m /\ n - 1 # m
            BY <1>3, <2>3
        <3>2. g[n] = Onward(f[n - 1], tree[n - 1]) /\ g[n - 1] = f[n - 1]
            BY <2>3, <3>1
        <3>3. QED
            BY <2>3, <3>2
    <2>4. QED
        BY <2>1, <2>2, <2>3
<1> HIDE DEF g
<1>6. g = [n \in 0 .. m |-> g[n]]
    BY DEF g
<1>7. Walks(g, tree, index, m)
    BY <1>5, <1>6 DEF Walks, start
<1>8. QED
    BY <1>7

LEMMA ClimbsExist ==
    ASSUME NEW leaf, NEW proof, NEW max \in Nat
    PROVE  \E acc : Climbs(acc, leaf, proof, max)
<1> DEFINE T == {k \in Nat : ~ \E acc : Climbs(acc, leaf, proof, k)}
<1> SUFFICES ASSUME T # {} PROVE FALSE
    OBVIOUS
<1>1. PICK m \in T : \A k \in T : m <= k
    BY LeastNatural
<1>2. m # 0
    <2> DEFINE f == [n \in 0 .. 0 |-> leaf]
    <2>1. Climbs(f, leaf, proof, 0)
        BY DEF Climbs
    <2>2. QED
        BY <2>1
<1>3. m - 1 \in Nat /\ m - 1 \notin T
    BY <1>1, <1>2
<1>4. PICK f : Climbs(f, leaf, proof, m - 1)
    BY <1>3
<1> DEFINE g == [n \in 0 .. m |-> IF n = m THEN Combined(f[m - 1], proof[m]) ELSE f[n]]
<1>5. ASSUME NEW n \in 0 .. m
      PROVE  g[n] = IF n = 0 THEN leaf ELSE Combined(g[n - 1], proof[n])
    <2>1. CASE n = 0
        BY <1>2, <1>3, <1>4, <2>1 DEF Climbs
    <2>2. CASE n # 0 /\ n # m
        <3>1. n \in 0 .. (m - 1) /\ n - 1 \in 0 .. m /\ n - 1 # m
            BY <1>3, <2>2
        <3>2. f[n] = Combined(f[n - 1], proof[n])
            BY <1>4, <2>2, <3>1 DEF Climbs
        <3>3. g[n] = f[n] /\ g[n - 1] = f[n - 1]
            BY <2>2, <3>1
        <3>4. QED
            BY <2>2, <3>2, <3>3
    <2>3. CASE n # 0 /\ n = m
        <3>1. n - 1 \in 0 .. m /\ n - 1 # m
            BY <1>3, <2>3
        <3>2. g[n] = Combined(f[n - 1], proof[n]) /\ g[n - 1] = f[n - 1]
            BY <2>3, <3>1
        <3>3. QED
            BY <2>3, <3>2
    <2>4. QED
        BY <2>1, <2>2, <2>3
<1> HIDE DEF g
<1>6. g = [n \in 0 .. m |-> g[n]]
    BY DEF g
<1>7. Climbs(g, leaf, proof, m)
    BY <1>5, <1>6 DEF Climbs
<1>8. QED
    BY <1>7

LEMMA LevelsAre ==
    ASSUME NEW leaves, Len(leaves) \in Nat
    PROVE  Rises(Levels(leaves), leaves, Len(leaves))
<1>1. \E f : f = [k \in 0 .. Len(leaves) |-> IF k = 0 THEN leaves ELSE Above(f[k - 1])]
    <2>1. \E f : Rises(f, leaves, Len(leaves))
        BY LevelsExist, Zenon
    <2>2. QED
        BY <2>1, Zenon DEF Rises
<1>2. QED
    BY <1>1, Zenon DEF Levels, Rises

LEMMA WalkIs ==
    ASSUME NEW leaves, Len(leaves) \in Nat, NEW index
    PROVE  Walks(Walk(leaves, index), Levels(leaves), index, Len(leaves))
<1>1. \E w : w = [k \in 0 .. Len(leaves) |->
                      IF k = 0 THEN [at |-> index, proof |-> << >>]
                               ELSE Onward(w[k - 1], Levels(leaves)[k - 1])]
    <2>1. \E w : Walks(w, Levels(leaves), index, Len(leaves))
        BY WalksExist, Zenon
    <2>2. QED
        BY <2>1, Zenon DEF Walks
<1>2. QED
    BY <1>1, Zenon DEF Walk, Walks

LEMMA ClimbIs ==
    ASSUME NEW leaf, NEW proof, Len(proof) \in Nat
    PROVE  Climbs(Climb(leaf, proof), leaf, proof, Len(proof))
<1>1. \E acc : acc = [n \in 0 .. Len(proof) |->
                          IF n = 0 THEN leaf ELSE Combined(acc[n - 1], proof[n])]
    <2>1. \E acc : Climbs(acc, leaf, proof, Len(proof))
        BY ClimbsExist, Zenon
    <2>2. QED
        BY <2>1, Zenon DEF Climbs
<1>2. QED
    BY <1>1, Zenon DEF Climb, Climbs

-----------------------------------------------------------------------------
(* The shape of a tree.                                                    *)

LEMMA AboveList ==
    ASSUME NEW l, IsList(l), Len(l) # 0
    PROVE  /\ IsList(Above(l)) /\ Len(Above(l)) = (Len(l) + 1) \div 2
           /\ \A i \in 1 .. Len(Above(l)) :
                  Above(l)[i] = IF 2 * i <= Len(l) THEN HashInternal(l[2 * i - 1], l[2 * i])
                                                   ELSE l[2 * i - 1]
<1> DEFINE n == (Len(l) + 1) \div 2
<1>1. n \in Nat
    BY DEF IsList
<1>2. Above(l) = [i \in 1 .. n |-> Above(l)[i]]
    BY DEF Above
<1>3. IsList(Above(l)) /\ Len(Above(l)) = n
    BY <1>1, <1>2, ListOf
<1>4. ASSUME NEW i \in 1 .. n
      PROVE  Above(l)[i] = IF 2 * i <= Len(l) THEN HashInternal(l[2 * i - 1], l[2 * i])
                                             ELSE l[2 * i - 1]
    BY DEF Above
<1>5. QED
    BY <1>3, <1>4

\* The node x has its leftmost leaf d below it.
Spine(x, d) ==
    \E p : /\ p[0] = x /\ p[d][1] = "leaf"
           /\ \A j \in 0 .. d - 1 : p[j][1] = "node" /\ p[j + 1] = p[j][2]

LEMMA LeafSpine == ASSUME NEW data PROVE Spine(HashLeaf(data), 0)
<1> DEFINE p == [j \in {0} |-> HashLeaf(data)]
<1>1. p[0] = HashLeaf(data) /\ p[0][1] = "leaf"
    BY DEF HashLeaf
<1>2. 0 .. 0 - 1 = {}
    OBVIOUS
<1> HIDE DEF p
<1>3. QED
    BY <1>1, <1>2, Zenon DEF Spine

LEMMA NodeSpine ==
    ASSUME NEW x, NEW y, NEW d \in Nat, Spine(x, d)
    PROVE  Spine(HashInternal(x, y), d + 1)
<1>1. PICK p : /\ p[0] = x /\ p[d][1] = "leaf"
               /\ \A j \in 0 .. d - 1 : p[j][1] = "node" /\ p[j + 1] = p[j][2]
    BY Zenon DEF Spine
<1>2. PICK h : h = HashInternal(x, y)
    OBVIOUS
<1>3. h[1] = "node" /\ h[2] = x
    BY <1>2 DEF HashInternal
<1> DEFINE q == [j \in 0 .. d + 1 |-> IF j = 0 THEN h ELSE p[j - 1]]
<1>4. q[0] = h /\ q[d + 1] = p[d]
    OBVIOUS
<1>5. ASSUME NEW j \in 0 .. (d + 1) - 1
      PROVE  q[j][1] = "node" /\ q[j + 1] = q[j][2]
    <2>1. q[j + 1] = p[j]
        OBVIOUS
    <2>2. CASE j = 0
        BY <1>1, <1>3, <1>4, <2>1, <2>2
    <2>3. CASE j # 0
        <3>1. q[j] = p[j - 1] /\ j - 1 \in 0 .. d - 1
            BY <2>3
        <3>2. p[j - 1][1] = "node" /\ p[(j - 1) + 1] = p[j - 1][2]
            BY <1>1, <3>1
        <3>3. (j - 1) + 1 = j
            OBVIOUS
        <3>4. QED
            BY <2>1, <3>1, <3>2, <3>3
    <2>4. QED
        BY <2>2, <2>3
<1> HIDE DEF q
<1>6. q[d + 1][1] = "leaf"
    BY <1>1, <1>4
<1>7. Spine(h, d + 1)
    BY <1>4, <1>5, <1>6, Zenon DEF Spine
<1>8. QED
    BY <1>2, <1>7

LEMMA SpineNotLonger ==
    ASSUME NEW x, NEW d \in Nat, NEW e \in Nat, Spine(x, d), Spine(x, e)
    PROVE  ~ (d < e)
<1> SUFFICES ASSUME d < e PROVE FALSE
    OBVIOUS
<1>1. PICK p : /\ p[0] = x /\ p[d][1] = "leaf"
               /\ \A j \in 0 .. d - 1 : p[j][1] = "node" /\ p[j + 1] = p[j][2]
    BY Zenon DEF Spine
<1>2. PICK q : /\ q[0] = x /\ q[e][1] = "leaf"
               /\ \A j \in 0 .. e - 1 : q[j][1] = "node" /\ q[j + 1] = q[j][2]
    BY Zenon DEF Spine
<1> DEFINE T == {j \in 0 .. d : p[j] # q[j]}
<1>3. T = {}
    <2> SUFFICES ASSUME T # {} PROVE FALSE
        OBVIOUS
    <2>1. T \subseteq Nat
        OBVIOUS
    <2>2. PICK m \in T : \A k \in T : m <= k
        BY <2>1, LeastNatural
    <2>3. m # 0
        BY <1>1, <1>2
    <2>4. m - 1 \in 0 .. d - 1 /\ m - 1 \in 0 .. e - 1 /\ m - 1 \in 0 .. d /\ (m - 1) + 1 = m
        BY <2>2, <2>3
    <2>5. p[m - 1] = q[m - 1]
        BY <2>2, <2>4
    <2>6. p[m] = p[m - 1][2] /\ q[m] = q[m - 1][2]
        BY <1>1, <1>2, <2>4
    <2>7. QED
        BY <2>2, <2>5, <2>6
<1>4. p[d] = q[d]
    BY <1>3
<1>5. q[d][1] = "node"
    BY <1>2
<1>6. QED
    BY <1>1, <1>4, <1>5

\* The leftmost leaf of a node is at one depth only.
LEMMA SpineUnique ==
    ASSUME NEW x, NEW d \in Nat, NEW e \in Nat, Spine(x, d), Spine(x, e)
    PROVE  d = e
BY SpineNotLonger

LEMMA HashInternalApart ==
    ASSUME NEW a, NEW b, NEW c, NEW d, HashInternal(a, b) = HashInternal(c, d)
    PROVE  a = c /\ b = d
BY DEF HashInternal

\* l can be level k of a tree: every node has its leftmost leaf k below it, but
\* for the last, which may have been promoted.
Even(l, k) ==
    /\ IsList(l) /\ Len(l) # 0
    /\ \A i \in 1 .. Len(l) : i # Len(l) => Spine(l[i], k)
    /\ \E d \in 0 .. k : Spine(l[Len(l)], d)

LEMMA EvenList ==
    ASSUME NEW l, NEW k, Even(l, k)
    PROVE  IsList(l) /\ Len(l) \in Nat /\ Len(l) # 0 /\ DOMAIN l = 1 .. Len(l)
<1>1. IsList(l) /\ Len(l) # 0
    BY Zenon DEF Even
<1>2. Len(l) \in Nat /\ DOMAIN l = 1 .. Len(l)
    BY <1>1, Zenon DEF IsList
<1>3. QED
    BY <1>1, <1>2

LEMMA AboveEven ==
    ASSUME NEW l, NEW k \in Nat, Even(l, k)
    PROVE  Even(Above(l), k + 1)
<1> DEFINE a == Above(l)
<1>1. IsList(l) /\ Len(l) \in Nat /\ Len(l) # 0
    BY EvenList
<1>2. /\ IsList(a) /\ Len(a) = (Len(l) + 1) \div 2
      /\ \A i \in 1 .. Len(a) :
             a[i] = IF 2 * i <= Len(l) THEN HashInternal(l[2 * i - 1], l[2 * i]) ELSE l[2 * i - 1]
    BY <1>1, AboveList
<1> HIDE DEF a
<1>3. Len(a) \in Nat /\ Len(a) # 0
    BY <1>1, <1>2
<1>4. ASSUME NEW i \in 1 .. Len(a), 2 * i <= Len(l) PROVE Spine(a[i], k + 1)
    <2>1. 2 * i - 1 \in 1 .. Len(l) /\ 2 * i - 1 # Len(l)
        BY <1>1, <1>3, <1>4
    <2>2. Spine(l[2 * i - 1], k)
        BY <2>1 DEF Even
    <2>3. QED
        BY <1>2, <1>4, <2>2, NodeSpine
<1>5. ASSUME NEW i \in 1 .. Len(a), i # Len(a) PROVE Spine(a[i], k + 1)
    BY <1>1, <1>2, <1>3, <1>4, <1>5
<1>6. \E d \in 0 .. k + 1 : Spine(a[Len(a)], d)
    <2>1. Len(a) \in 1 .. Len(a)
        BY <1>3
    <2>2. CASE 2 * Len(a) <= Len(l)
        BY <1>4, <2>1, <2>2
    <2>3. CASE ~(2 * Len(a) <= Len(l))
        <3>1. 2 * Len(a) - 1 = Len(l)
            BY <1>1, <1>2, <2>3
        <3>2. a[Len(a)] = l[Len(l)]
            <4>1. a[Len(a)] = IF 2 * Len(a) <= Len(l) THEN HashInternal(l[2 * Len(a) - 1], l[2 * Len(a)])
                                                      ELSE l[2 * Len(a) - 1]
                BY <1>2, <2>1, Zenon
            <4>2. a[Len(a)] = l[2 * Len(a) - 1]
                BY <2>3, <4>1, Zenon
            <4>3. QED
                BY <3>1, <4>2
        <3>3. PICK d \in 0 .. k : Spine(l[Len(l)], d)
            BY DEF Even
        <3>4. d \in 0 .. k + 1 /\ Spine(a[Len(a)], d)
            BY <3>2, <3>3
        <3>5. QED
            BY <3>4
    <2>4. QED
        BY <2>2, <2>3
<1>7. Even(a, k + 1)
    BY <1>2, <1>3, <1>5, <1>6 DEF Even
<1>8. QED
    BY <1>7 DEF a

\* Two levels that may both be level k, with the same level above, are not of
\* different lengths.
LEMMA AboveNotLonger ==
    ASSUME NEW l, NEW m, NEW k \in Nat, Even(l, k), Even(m, k), Above(l) = Above(m)
    PROVE  ~ (Len(l) < Len(m))
<1> SUFFICES ASSUME Len(l) < Len(m) PROVE FALSE
    OBVIOUS
<1>1. IsList(l) /\ Len(l) \in Nat /\ Len(l) # 0 /\ IsList(m) /\ Len(m) \in Nat /\ Len(m) # 0
    BY EvenList
<1>2. PICK n : n = Len(Above(l))
    OBVIOUS
<1>3. n = (Len(l) + 1) \div 2 /\ n = (Len(m) + 1) \div 2
    BY <1>1, <1>2, AboveList
<1>4. Len(m) = Len(l) + 1 /\ 2 * n = Len(m) /\ n \in Nat
    BY <1>1, <1>3
<1>5. n \in 1 .. Len(Above(l)) /\ n \in 1 .. Len(Above(m)) /\ ~ (2 * n <= Len(l)) /\ 2 * n <= Len(m)
    BY <1>1, <1>2, <1>4
<1>6. Above(l)[n] = l[2 * n - 1]
    BY <1>1, <1>5, AboveList
<1>7. Above(m)[n] = HashInternal(m[2 * n - 1], m[2 * n])
    BY <1>1, <1>5, AboveList
<1>8. 2 * n - 1 = Len(l) /\ 2 * n - 1 \in 1 .. Len(m) /\ 2 * n - 1 # Len(m)
    BY <1>1, <1>4
<1>9. PICK d \in 0 .. k : Spine(l[Len(l)], d)
    BY DEF Even
<1>10. Spine(m[2 * n - 1], k)
    BY <1>8 DEF Even
<1>11. Spine(HashInternal(m[2 * n - 1], m[2 * n]), k + 1)
    BY <1>10, NodeSpine
<1>12. Spine(l[Len(l)], k + 1)
    BY <1>6, <1>7, <1>8, <1>11
<1>13. d = k + 1
    BY <1>9, <1>12, SpineUnique
<1>14. QED
    BY <1>13

\* A level is told by the one above it.
LEMMA AboveInjective ==
    ASSUME NEW l, NEW m, NEW k \in Nat, Even(l, k), Even(m, k), Above(l) = Above(m)
    PROVE  DOMAIN l = DOMAIN m /\ \A i \in DOMAIN l : l[i] = m[i]
<1>1. IsList(l) /\ Len(l) \in Nat /\ Len(l) # 0 /\ IsList(m) /\ Len(m) \in Nat /\ Len(m) # 0
    BY EvenList
<1>2. ~ (Len(l) < Len(m)) /\ ~ (Len(m) < Len(l))
    BY AboveNotLonger
<1>3. Len(l) = Len(m)
    BY <1>1, <1>2
<1>4. DOMAIN l = 1 .. Len(l) /\ DOMAIN m = 1 .. Len(l)
    BY <1>1, <1>3 DEF IsList
<1>5. ASSUME NEW i \in 1 .. Len(l) PROVE l[i] = m[i]
    <2>1. PICK n \in Nat : i = 2 * n - 1 \/ i = 2 * n
        <3>1. (i + 1) \div 2 \in Nat /\ (i = 2 * ((i + 1) \div 2) - 1 \/ i = 2 * ((i + 1) \div 2))
            BY <1>1
        <3>2. QED
            BY <3>1
    <2>2. n \in 1 .. (Len(l) + 1) \div 2
        BY <1>1, <2>1
    <2>3. n \in 1 .. Len(Above(l)) /\ n \in 1 .. Len(Above(m))
        BY <1>1, <1>3, <2>2, AboveList
    <2>4. Above(l)[n] = Above(m)[n]
        OBVIOUS
    <2>5. CASE 2 * n <= Len(l)
        <3>1. HashInternal(l[2 * n - 1], l[2 * n]) = HashInternal(m[2 * n - 1], m[2 * n])
            BY <1>1, <1>3, <2>3, <2>4, <2>5, AboveList
        <3>2. l[2 * n - 1] = m[2 * n - 1] /\ l[2 * n] = m[2 * n]
            BY <3>1, HashInternalApart
        <3>3. QED
            BY <2>1, <3>2
    <2>6. CASE ~ (2 * n <= Len(l))
        <3>1. l[2 * n - 1] = m[2 * n - 1]
            BY <1>1, <1>3, <2>3, <2>4, <2>6, AboveList
        <3>2. i = 2 * n - 1
            BY <1>1, <2>1, <2>6
        <3>3. QED
            BY <3>1, <3>2
    <2>7. QED
        BY <2>5, <2>6
<1>6. DOMAIN l = DOMAIN m
    BY <1>4, Zenon
<1>7. \A i \in DOMAIN l : l[i] = m[i]
    BY <1>4, <1>5, Zenon
<1>8. QED
    BY <1>6, <1>7, Zenon

\* What buildMerkleTree is given: the leaves of a batch that has any.
Leaves(s) ==
    /\ IsList(s) /\ Len(s) # 0 /\ s = [i \in 1 .. Len(s) |-> s[i]]
    /\ \A i \in 1 .. Len(s) : \E data : s[i] = HashLeaf(data)

LEMMA LeavesList ==
    ASSUME NEW s, Leaves(s)
    PROVE  IsList(s) /\ Len(s) \in Nat /\ Len(s) # 0
<1>1. IsList(s) /\ Len(s) # 0
    BY Zenon DEF Leaves
<1>2. Len(s) \in Nat
    BY <1>1, Zenon DEF IsList
<1>3. QED
    BY <1>1, <1>2

LEMMA LevelsStep ==
    ASSUME NEW s, Leaves(s)
    PROVE  /\ Levels(s)[0] = s
           /\ \A k \in 1 .. Len(s) : Levels(s)[k] = Above(Levels(s)[k - 1])
<1>1. Len(s) \in Nat
    BY LeavesList
<1>2. Rises(Levels(s), s, Len(s))
    BY <1>1, LevelsAre
<1>3. QED
    BY <1>1, <1>2 DEF Rises

LEMMA HalfIsLess ==
    ASSUME NEW n \in Nat, n # 0, n # 1
    PROVE  (n + 1) \div 2 <= n - 1
OBVIOUS

\* Every level is even, and as long as it is not the top, shorter than the last.
LEMMA LevelsEven ==
    ASSUME NEW s, Leaves(s)
    PROVE  \A k \in 0 .. Len(s) :
               /\ Even(Levels(s)[k], k)
               /\ Len(Levels(s)[k]) = 1 \/ Len(Levels(s)[k]) <= Len(s) - k
<1> DEFINE tree == Levels(s)
           Fits(k) == Even(tree[k], k) /\ (Len(tree[k]) = 1 \/ Len(tree[k]) <= Len(s) - k)
           T == {k \in 0 .. Len(s) : ~Fits(k)}
<1>1. IsList(s) /\ Len(s) \in Nat /\ Len(s) # 0
    BY LeavesList
<1>2. tree[0] = s /\ \A k \in 1 .. Len(s) : tree[k] = Above(tree[k - 1])
    BY LevelsStep
<1> HIDE DEF tree
<1>3. Fits(0)
    <2>1. ASSUME NEW i \in 1 .. Len(s) PROVE Spine(s[i], 0)
        BY LeafSpine DEF Leaves
    <2>2. Len(s) \in 1 .. Len(s) /\ 0 \in 0 .. 0
        BY <1>1
    <2>3. Spine(s[Len(s)], 0)
        BY <2>1, <2>2
    <2>4. Even(s, 0)
        BY <1>1, <2>1, <2>2, <2>3 DEF Even
    <2>5. QED
        BY <1>1, <1>2, <2>4
<1>4. ASSUME NEW k \in 1 .. Len(s), Fits(k - 1) PROVE Fits(k)
    <2>1. k - 1 \in Nat /\ (k - 1) + 1 = k
        OBVIOUS
    <2>2. PICK l : l = tree[k - 1]
        OBVIOUS
    <2>3. Even(l, k - 1) /\ (Len(l) = 1 \/ Len(l) <= Len(s) - (k - 1))
        BY <1>4, <2>2
    <2>4. Even(Above(l), k)
        <3>1. Even(Above(l), (k - 1) + 1)
            BY <2>1, <2>3, AboveEven, Zenon
        <3>2. QED
            BY <2>1, <3>1, Zenon
    <2>5. IsList(l) /\ Len(l) \in Nat /\ Len(l) # 0
        BY <2>3, EvenList
    <2>6. Len(Above(l)) = (Len(l) + 1) \div 2
        BY <2>5, AboveList
    <2>7. Len(Above(l)) = 1 \/ Len(Above(l)) <= Len(s) - k
        <3>1. CASE Len(l) = 1
            BY <2>6, <3>1
        <3>2. CASE Len(l) # 1
            <4>1. (Len(l) + 1) \div 2 <= Len(l) - 1
                BY <2>5, <3>2, HalfIsLess
            <4>2. QED
                BY <1>1, <2>3, <2>5, <2>6, <3>2, <4>1
        <3>3. QED
            BY <3>1, <3>2
    <2>8. tree[k] = Above(l)
        BY <1>2, <2>2
    <2>9. QED
        BY <2>4, <2>7, <2>8
<1> HIDE DEF Fits
<1>5. T = {}
    <2> SUFFICES ASSUME T # {} PROVE FALSE
        OBVIOUS
    <2>1. T \subseteq Nat
        BY <1>1
    <2>2. PICK m \in T : \A k \in T : m <= k
        BY <2>1, LeastNatural
    <2>3. m # 0
        BY <1>3, <2>2
    <2>4. m \in 1 .. Len(s) /\ m - 1 \in 0 .. Len(s) /\ m - 1 \notin T
        BY <1>1, <2>2, <2>3
    <2>5. QED
        BY <1>4, <2>2, <2>4
<1>6. \A k \in 0 .. Len(s) : Fits(k)
    BY <1>5
<1>7. QED
    BY <1>6 DEF Fits, tree

\* The top is the first level of one node.
LEMMA TopIs ==
    ASSUME NEW s, Leaves(s)
    PROVE  /\ Top(s) \in 0 .. Len(s) /\ Len(Levels(s)[Top(s)]) = 1
           /\ \A k \in 0 .. Len(s) : k < Top(s) => Len(Levels(s)[k]) # 1
<1> DEFINE K == {k \in 0 .. Len(s) : Len(Levels(s)[k]) = 1}
<1>1. IsList(s) /\ Len(s) \in Nat /\ Len(s) # 0
    BY LeavesList
<1>2. Len(s) - 1 \in 0 .. Len(s)
    BY <1>1
<1>3. Even(Levels(s)[Len(s) - 1], Len(s) - 1)
    BY <1>2, LevelsEven
<1>4. Len(Levels(s)[Len(s) - 1]) \in Nat /\ Len(Levels(s)[Len(s) - 1]) # 0
    BY <1>3, EvenList
<1>5. Len(Levels(s)[Len(s) - 1]) = 1
    <2>1. PICK n : n = Len(Levels(s)[Len(s) - 1])
        OBVIOUS
    <2>2. n = 1 \/ n <= Len(s) - (Len(s) - 1)
        BY <1>2, <2>1, LevelsEven
    <2>3. n \in Nat /\ n # 0
        BY <1>4, <2>1
    <2>4. n = 1
        <3>1. PICK m \in Nat : m = Len(s)
            BY <1>1
        <3>2. n = 1 \/ n <= m - (m - 1)
            BY <2>2, <3>1
        <3>3. QED
            BY <2>3, <3>2
    <2>5. QED
        BY <2>1, <2>4
<1>6. K \subseteq Nat /\ K # {}
    BY <1>1, <1>2, <1>5
<1>7. \E x \in K : \A y \in K : x <= y
    BY <1>6, LeastNatural
<1> HIDE DEF K
<1>8. Min(K) \in K /\ \A y \in K : Min(K) <= y
    BY <1>7, Zenon DEF Min
<1>9. Top(s) = Min(K)
    BY Zenon DEF Top, K
<1>10. PICK top : top = Top(s)
    OBVIOUS
<1>11. top \in K /\ \A y \in K : top <= y
    BY <1>8, <1>9, <1>10, Zenon
<1>12. top \in 0 .. Len(s) /\ Len(Levels(s)[top]) = 1
    BY <1>11 DEF K
<1>13. ASSUME NEW k \in 0 .. Len(s), k < top PROVE Len(Levels(s)[k]) # 1
    <2>1. k \in Nat /\ top \in Nat
        BY <1>1, <1>12
    <2>2. k \notin K
        BY <1>11, <1>13, <2>1
    <2>3. QED
        BY <2>2 DEF K
<1>14. QED
    BY <1>10, <1>12, <1>13, Zenon

LEMMA RootSpine ==
    ASSUME NEW s, Leaves(s)
    PROVE  Spine(MerkleRoot(s), Top(s))
<1>1. IsList(s) /\ Len(s) \in Nat /\ Len(s) # 0
    BY LeavesList
<1>2. PICK top : top = Top(s)
    OBVIOUS
<1>3. /\ top \in 0 .. Len(s) /\ Len(Levels(s)[top]) = 1
      /\ \A k \in 0 .. Len(s) : k < top => Len(Levels(s)[k]) # 1
    BY <1>2, TopIs
<1>4. PICK x : x = Levels(s)[top][1]
    OBVIOUS
<1>5. CASE top = 0
    <2>1. Levels(s)[0] = s
        BY LevelsStep
    <2>2. 1 \in 1 .. Len(s) /\ x = s[1]
        BY <1>1, <1>4, <1>5, <2>1
    <2>3. PICK data : x = HashLeaf(data)
        BY <2>2 DEF Leaves
    <2>4. Spine(x, 0)
        BY <2>3, LeafSpine
    <2>5. QED
        BY <1>2, <1>4, <1>5, <2>4 DEF MerkleRoot
<1>6. CASE top # 0
    <2>1. top - 1 \in 0 .. Len(s) /\ top - 1 < top /\ top \in 1 .. Len(s)
          /\ top - 1 \in Nat /\ (top - 1) + 1 = top
        BY <1>1, <1>3, <1>6
    <2>2. PICK l : l = Levels(s)[top - 1]
        OBVIOUS
    <2>3. Even(l, top - 1) /\ Len(l) # 1
        BY <1>3, <2>1, <2>2, LevelsEven
    <2>4. Levels(s)[top] = Above(l)
        BY <2>1, <2>2, LevelsStep, Zenon
    <2>5. IsList(l) /\ Len(l) \in Nat /\ Len(l) # 0
        BY <2>3, EvenList
    <2>6. 2 * 1 <= Len(l) /\ 1 \in 1 .. Len(l) /\ 1 # Len(l)
        BY <2>3, <2>5
    <2>7. 1 \in 1 .. Len(Above(l))
        BY <1>3, <2>4
    <2>8. x = HashInternal(l[2 * 1 - 1], l[2 * 1])
        BY <1>4, <2>4, <2>5, <2>6, <2>7, AboveList
    <2>9. Spine(l[1], top - 1) /\ 2 * 1 - 1 = 1
        BY <2>3, <2>6 DEF Even
    <2>10. Spine(x, (top - 1) + 1)
        BY <2>1, <2>8, <2>9, NodeSpine
    <2>11. QED
        BY <1>2, <1>4, <2>1, <2>10 DEF MerkleRoot
<1>7. QED
    BY <1>5, <1>6

\* Lists that agree everywhere are the same.
LEMMA SameLists ==
    ASSUME NEW s, NEW t, s = [i \in DOMAIN s |-> s[i]], t = [i \in DOMAIN t |-> t[i]],
           DOMAIN s = DOMAIN t, \A i \in DOMAIN s : s[i] = t[i]
    PROVE  s = t
OBVIOUS

LEMMA AboveIsList ==
    ASSUME NEW l
    PROVE  Above(l) = [i \in DOMAIN Above(l) |-> Above(l)[i]]
BY DEF Above

LEMMA LevelIsList ==
    ASSUME NEW s, Leaves(s), NEW k \in 0 .. Len(s)
    PROVE  Levels(s)[k] = [i \in DOMAIN Levels(s)[k] |-> Levels(s)[k][i]]
<1>1. CASE k = 0
    <2>1. Levels(s)[k] = s
        BY <1>1, LevelsStep
    <2>2. s = [i \in DOMAIN s |-> s[i]]
        BY DEF Leaves
    <2>3. QED
        BY <2>1, <2>2
<1>2. CASE k # 0
    <2>1. k \in 1 .. Len(s)
        BY <1>2, LeavesList
    <2>2. Levels(s)[k] = Above(Levels(s)[k - 1])
        BY <2>1, LevelsStep
    <2>3. QED
        BY <2>2, AboveIsList
<1>3. QED
    BY <1>1, <1>2

\* buildMerkleTree: a root tells the leaves of its tree and their order, for any
\* number of them: neither a leaf that is missing, nor one more, nor a node
\* promoted or combined at another level makes the same (merkle.ts:14-21).
THEOREM RootTellsLeaves ==
    ASSUME NEW s, NEW t, Leaves(s), Leaves(t), MerkleRoot(s) = MerkleRoot(t)
    PROVE  s = t
<1>1. IsList(s) /\ Len(s) \in Nat /\ Len(s) # 0 /\ IsList(t) /\ Len(t) \in Nat /\ Len(t) # 0
    BY LeavesList
<1>2. PICK top : top = Top(s)
    OBVIOUS
<1>3. top \in 0 .. Len(s) /\ top \in Nat /\ Len(Levels(s)[top]) = 1
    BY <1>1, <1>2, TopIs
<1>4. Top(t) \in 0 .. Len(t) /\ Top(t) \in Nat /\ Len(Levels(t)[Top(t)]) = 1
    BY <1>1, TopIs
<1>5. top = Top(t)
    <2>1. Spine(MerkleRoot(s), top) /\ Spine(MerkleRoot(s), Top(t))
        BY <1>2, RootSpine
    <2>2. QED
        BY <1>3, <1>4, <2>1, SpineUnique
<1>6. ASSUME NEW k \in 0 .. top
      PROVE  /\ k \in 0 .. Len(s) /\ k \in 0 .. Len(t) /\ k \in Nat
             /\ Even(Levels(s)[k], k) /\ Even(Levels(t)[k], k)
    <2>1. k \in 0 .. Len(s) /\ k \in 0 .. Len(t) /\ k \in Nat
        BY <1>1, <1>3, <1>4, <1>5
    <2>2. QED
        BY <2>1, LevelsEven
<1>7. Levels(s)[top] = Levels(t)[top]
    <2>1. PICK l : l = Levels(s)[top]
        OBVIOUS
    <2>2. PICK m : m = Levels(t)[top]
        OBVIOUS
    <2>3. top \in 0 .. top
        BY <1>3
    <2>4. Even(l, top) /\ Even(m, top) /\ Len(l) = 1 /\ Len(m) = 1
        BY <1>3, <1>4, <1>5, <1>6, <2>1, <2>2, <2>3
    <2>5. DOMAIN l = 1 .. 1 /\ DOMAIN m = 1 .. 1
        BY <2>4, EvenList
    <2>6. l[1] = m[1]
        BY <1>2, <1>5, <2>1, <2>2 DEF MerkleRoot
    <2>7. l = [i \in DOMAIN l |-> l[i]] /\ m = [i \in DOMAIN m |-> m[i]]
        BY <1>3, <1>4, <1>5, <2>1, <2>2, LevelIsList
    <2>8. l = m
        BY <2>5, <2>6, <2>7, SameLists
    <2>9. QED
        BY <2>1, <2>2, <2>8
<1>8. ASSUME NEW k \in 1 .. top, Levels(s)[k] = Levels(t)[k]
      PROVE  Levels(s)[k - 1] = Levels(t)[k - 1]
    <2>1. k - 1 \in 0 .. top /\ k \in 0 .. top
        BY <1>3
    <2>2. PICK l : l = Levels(s)[k - 1]
        OBVIOUS
    <2>3. PICK m : m = Levels(t)[k - 1]
        OBVIOUS
    <2>4. k - 1 \in Nat /\ Even(l, k - 1) /\ Even(m, k - 1)
        BY <1>6, <2>1, <2>2, <2>3
    <2>5. k \in 1 .. Len(s) /\ k \in 1 .. Len(t)
        BY <1>1, <1>6, <2>1
    <2>6. Levels(s)[k] = Above(l) /\ Levels(t)[k] = Above(m)
        BY <2>2, <2>3, <2>5, LevelsStep
    <2>7. DOMAIN l = DOMAIN m /\ \A i \in DOMAIN l : l[i] = m[i]
        <3>1. Above(l) = Above(m)
            BY <1>8, <2>6, Zenon
        <3>2. QED
            BY <2>4, <3>1, AboveInjective, Zenon
    <2>8. l = [i \in DOMAIN l |-> l[i]] /\ m = [i \in DOMAIN m |-> m[i]]
        BY <1>6, <2>1, <2>2, <2>3, LevelIsList
    <2>9. l = m
        BY <2>7, <2>8, SameLists
    <2>10. QED
        BY <2>2, <2>3, <2>9
<1>9. Levels(s)[0] = Levels(t)[0]
    <2> DEFINE T == {k \in 0 .. top : Levels(s)[k] = Levels(t)[k]}
    <2>1. T \subseteq Nat /\ top \in T
        BY <1>3, <1>7
    <2>2. PICK m \in T : \A k \in T : m <= k
        BY <2>1, LeastNatural
    <2>3. CASE m = 0
        BY <2>2, <2>3
    <2>4. CASE m # 0
        <3>1. m \in 1 .. top /\ m - 1 \in 0 .. top
            BY <1>3, <2>2, <2>4
        <3>2. Levels(s)[m - 1] = Levels(t)[m - 1]
            BY <1>8, <2>2, <3>1
        <3>3. m - 1 \in T
            BY <3>1, <3>2
        <3>4. m <= m - 1
            BY <2>2, <3>3
        <3>5. QED
            BY <3>1, <3>4
    <2>5. QED
        BY <2>3, <2>4
<1>10. Levels(s)[0] = s /\ Levels(t)[0] = t
    BY LevelsStep
<1>11. QED
    BY <1>9, <1>10

-----------------------------------------------------------------------------
(* A path leads to the root.                                               *)

\* A path with a step more is climbed as far, and then that step.
LEMMA ClimbAppend ==
    ASSUME NEW S, NEW proof \in Seq(S), NEW step \in S, NEW leaf
    PROVE  Climb(leaf, Append(proof, step))[Len(Append(proof, step))]
               = Combined(Climb(leaf, proof)[Len(proof)], step)
<1>1. PICK p : p = Append(proof, step)
    OBVIOUS
<1>2. PICK n \in Nat : n = Len(proof)
    BY LenProperties
<1>3. /\ p \in Seq(S) /\ Len(p) = n + 1 /\ p[n + 1] = step
      /\ \A i \in 1 .. n : p[i] = proof[i]
    BY <1>1, <1>2, AppendProperties
<1>4. PICK f : Climbs(f, leaf, proof, n) /\ f = Climb(leaf, proof)
    BY <1>2, ClimbIs
<1>5. PICK g : Climbs(g, leaf, p, n + 1) /\ g = Climb(leaf, p)
    BY <1>2, <1>3, ClimbIs
<1> DEFINE T == {k \in 0 .. n : f[k] # g[k]}
<1>6. T = {}
    <2> SUFFICES ASSUME T # {} PROVE FALSE
        OBVIOUS
    <2>1. T \subseteq Nat
        OBVIOUS
    <2>2. PICK m \in T : \A k \in T : m <= k
        BY <2>1, LeastNatural
    <2>3. f[0] = leaf /\ g[0] = leaf
        BY <1>4, <1>5 DEF Climbs
    <2>4. m \in 1 .. n /\ m - 1 \in 0 .. n /\ m \in 0 .. n + 1
        BY <2>2, <2>3
    <2>5. f[m - 1] = g[m - 1]
        BY <2>2, <2>4
    <2>6. f[m] = Combined(f[m - 1], proof[m])
        BY <1>4, <2>4 DEF Climbs
    <2>7. g[m] = Combined(g[m - 1], p[m])
        BY <1>5, <2>4 DEF Climbs
    <2>8. p[m] = proof[m]
        BY <1>3, <2>4
    <2>9. QED
        BY <2>2, <2>5, <2>6, <2>7, <2>8
<1>7. n \in 0 .. n /\ (n + 1) - 1 = n /\ n + 1 \in 0 .. n + 1 /\ n + 1 # 0
    OBVIOUS
<1>8. g[n] = f[n]
    BY <1>6, <1>7
<1>9. g[n + 1] = Combined(g[n], p[n + 1])
    BY <1>5, <1>7 DEF Climbs
<1>10. QED
    BY <1>1, <1>2, <1>3, <1>4, <1>5, <1>8, <1>9

\* Onward, from our place in a level to the place above it: what leaf is climbed
\* to was the node of that place, and is the one above.
LEMMA OnwardClimbs ==
    ASSUME NEW l, IsList(l), Len(l) # 0, NEW at \in 1 .. Len(l), NEW S, NEW proof \in Seq(S),
           NEW leaf, Climb(leaf, proof)[Len(proof)] = l[at]
    PROVE  LET onward == Onward([at |-> at, proof |-> proof], l) IN
           /\ onward.at \in 1 .. Len(Above(l))
           /\ \E S2 : onward.proof \in Seq(S2)
           /\ Climb(leaf, onward.proof)[Len(onward.proof)] = Above(l)[onward.at]
<1> DEFINE step == Recorded(l, at)
           S2 == S \cup {step}
<1>1. PICK onward : onward = Onward([at |-> at, proof |-> proof], l)
    BY Zenon
<1>2. PICK n \in Nat : n = Len(l)
    BY DEF IsList
<1>3. PICK up : up = (at + 1) \div 2
    OBVIOUS
<1>4. onward.at = up /\ onward.proof = IF Sibling(at) <= n THEN Append(proof, step) ELSE proof
    BY <1>1, <1>2, <1>3 DEF Onward
<1>5. Len(Above(l)) = (n + 1) \div 2
    BY <1>2, AboveList
<1>6. at \in 1 .. n
    BY <1>2
<1>7. up \in 1 .. (n + 1) \div 2
    BY <1>3, <1>6
<1>8. Above(l)[up] = IF 2 * up <= n THEN HashInternal(l[2 * up - 1], l[2 * up]) ELSE l[2 * up - 1]
    BY <1>2, <1>5, <1>7, AboveList
<1>9. proof \in Seq(S2) /\ step \in S2
    <2>1. S \subseteq S2
        OBVIOUS
    <2>2. QED
        BY <2>1, SeqMonotonic
<1> HIDE DEF step
<1>10. Climb(leaf, Append(proof, step))[Len(Append(proof, step))] = Combined(l[at], step)
    BY <1>9, ClimbAppend
<1>11. Append(proof, step) \in Seq(S2)
    BY <1>9, AppendProperties
<1> HIDE DEF S2
<1>12. CASE at % 2 = 0
    <2>1. Sibling(at) = at - 1 /\ step.hash = l[at - 1] /\ step.side = "left"
        BY <1>12 DEF Sibling, Recorded, step
    <2>2. 2 * up = at /\ at - 1 <= n /\ at <= n
        BY <1>3, <1>6, <1>12
    <2>3. Above(l)[up] = HashInternal(l[at - 1], l[at])
        BY <1>8, <2>2
    <2>4. Combined(l[at], step) = HashInternal(l[at - 1], l[at])
        BY <2>1 DEF Combined
    <2>5. onward.proof = Append(proof, step)
        BY <1>4, <2>1, <2>2
    <2>6. QED
        BY <1>1, <1>4, <1>5, <1>7, <1>10, <1>11, <2>3, <2>4, <2>5
<1>13. CASE at % 2 # 0 /\ at + 1 <= n
    <2>1. Sibling(at) = at + 1 /\ step.hash = l[at + 1] /\ step.side = "right"
        BY <1>13 DEF Sibling, Recorded, step
    <2>2. 2 * up = at + 1 /\ 2 * up - 1 = at
        BY <1>3, <1>6, <1>13
    <2>3. Above(l)[up] = HashInternal(l[at], l[at + 1])
        BY <1>8, <1>13, <2>2
    <2>4. Combined(l[at], step) = HashInternal(l[at], l[at + 1])
        BY <2>1 DEF Combined
    <2>5. onward.proof = Append(proof, step)
        BY <1>4, <1>13, <2>1
    <2>6. QED
        BY <1>1, <1>4, <1>5, <1>7, <1>10, <1>11, <2>3, <2>4, <2>5
<1>14. CASE at % 2 # 0 /\ ~ (at + 1 <= n)
    <2>1. Sibling(at) = at + 1
        BY <1>14 DEF Sibling
    <2>2. 2 * up - 1 = at /\ ~ (2 * up <= n)
        BY <1>3, <1>6, <1>14
    <2>3. Above(l)[up] = l[at]
        BY <1>8, <2>2
    <2>4. onward.proof = proof
        BY <1>4, <1>14, <2>1
    <2>5. onward.at \in 1 .. Len(Above(l))
        BY <1>4, <1>5, <1>7
    <2>6. onward.proof \in Seq(S)
        BY <2>4
    <2>7. Climb(leaf, onward.proof)[Len(onward.proof)] = Above(l)[onward.at]
        BY <1>4, <2>3, <2>4
    <2>8. QED
        BY <1>1, <2>5, <2>6, <2>7
<1>15. at % 2 = 0 \/ (at % 2 # 0 /\ at + 1 <= n) \/ (at % 2 # 0 /\ ~ (at + 1 <= n))
    OBVIOUS
<1>16. QED
    BY <1>12, <1>13, <1>14, <1>15, Zenon

\* merkleProof and verifyMerkleProof: every leaf of a tree of any size has a path
\* to its root that checks.
THEOREM LeavesHavePaths ==
    ASSUME NEW s, Leaves(s), NEW index \in 1 .. Len(s)
    PROVE  VerifyMerkleProof(s[index], MerkleProof(s, index), MerkleRoot(s))
<1>1. PICK n \in Nat : n = Len(s) /\ n # 0
    BY LeavesList
<1>2. PICK tree : tree = Levels(s)
    OBVIOUS
<1>3. PICK w : w = Walk(s, index) /\ Walks(w, tree, index, n)
    BY <1>1, <1>2, WalkIs
<1>4. tree[0] = s /\ \A k \in 1 .. n : tree[k] = Above(tree[k - 1])
    BY <1>1, <1>2, LevelsStep
<1>5. \A k \in 0 .. n : IsList(tree[k]) /\ Len(tree[k]) # 0
    BY <1>1, <1>2, LevelsEven, EvenList
<1> DEFINE There(v, k) ==
               /\ v = [at |-> v.at, proof |-> v.proof]
               /\ v.at \in 1 .. Len(tree[k])
               /\ \E S : v.proof \in Seq(S)
               /\ Climb(s[index], v.proof)[Len(v.proof)] = tree[k][v.at]
           T == {k \in 0 .. n : ~There(w[k], k)}
<1>6. There(w[0], 0)
    <2>1. PICK v : v = [at |-> index, proof |-> << >>] /\ w[0] = v
        BY <1>3 DEF Walks
    <2>2. v.proof = << >> /\ << >> \in Seq({}) /\ Len(<< >>) = 0
        BY <2>1
    <2>3. Climbs(Climb(s[index], << >>), s[index], << >>, 0)
        BY <2>2, ClimbIs
    <2>4. Climb(s[index], << >>)[0] = s[index]
        BY <2>3 DEF Climbs
    <2>5. There(v, 0)
        <3>1. \E S : v.proof \in Seq(S)
            BY <2>2, Zenon
        <3>2. QED
            BY <1>4, <2>1, <2>2, <2>4, <3>1
    <2>6. QED
        BY <2>1, <2>5
<1>7. ASSUME NEW k \in 1 .. n, There(w[k - 1], k - 1) PROVE There(w[k], k)
    <2>1. PICK v : v = w[k - 1]
        OBVIOUS
    <2>2. PICK l : l = tree[k - 1] /\ IsList(l) /\ Len(l) # 0
        BY <1>5
    <2>3. PICK S : v.proof \in Seq(S)
        BY <1>7, <2>1
    <2>4. w[k] = Onward(v, l) /\ tree[k] = Above(l)
        BY <1>3, <1>4, <2>1, <2>2 DEF Walks
    <2>5. PICK at : at = v.at
        OBVIOUS
    <2>6. PICK proof \in Seq(S) : proof = v.proof
        BY <2>3
    <2>7. /\ v = [at |-> at, proof |-> proof] /\ at \in 1 .. Len(l)
          /\ Climb(s[index], proof)[Len(proof)] = l[at]
        BY <1>7, <2>1, <2>2, <2>5, <2>6
    <2>8. PICK u : u = Onward([at |-> at, proof |-> proof], l)
        OBVIOUS
    <2>9. /\ u.at \in 1 .. Len(Above(l)) /\ \E S2 : u.proof \in Seq(S2)
          /\ Climb(s[index], u.proof)[Len(u.proof)] = Above(l)[u.at]
        BY <2>2, <2>7, <2>8, OnwardClimbs
    <2>10. u = [at |-> u.at, proof |-> u.proof]
        BY <2>8 DEF Onward
    <2>11. w[k] = u
        BY <2>4, <2>7, <2>8
    <2>12. QED
        BY <2>4, <2>9, <2>10, <2>11
<1> HIDE DEF There
<1>8. T = {}
    <2> SUFFICES ASSUME T # {} PROVE FALSE
        OBVIOUS
    <2>1. T \subseteq Nat
        OBVIOUS
    <2>2. PICK m \in T : \A k \in T : m <= k
        BY <2>1, LeastNatural
    <2>3. m # 0
        BY <1>6, <2>2
    <2>4. m \in 1 .. n /\ m - 1 \in 0 .. n /\ m - 1 \notin T
        BY <2>2, <2>3
    <2>5. QED
        BY <1>7, <2>2, <2>4
<1>9. PICK top \in 0 .. n : top = Top(s) /\ Len(tree[top]) = 1
    BY <1>1, <1>2, TopIs
<1>10. There(w[top], top)
    BY <1>8, <1>9
<1>11. PICK v : v = w[top]
    OBVIOUS
<1>12. v.at \in 1 .. 1 /\ Climb(s[index], v.proof)[Len(v.proof)] = tree[top][v.at]
    BY <1>9, <1>10, <1>11 DEF There
<1>13. MerkleProof(s, index) = v.proof /\ MerkleRoot(s) = tree[top][1]
    BY <1>2, <1>3, <1>9, <1>11 DEF MerkleProof, MerkleRoot
<1>14. v.at = 1
    BY <1>12
<1>15. QED
    BY <1>12, <1>13, <1>14 DEF VerifyMerkleProof

-----------------------------------------------------------------------------
(* What a path proves.                                                     *)

\* x is a node of the tree.
InTree(s, x) == \E k \in 0 .. Len(s) : \E i \in 1 .. Len(Levels(s)[k]) : x = Levels(s)[k][i]

\* A node that is no leaf has both parts it was combined of in the tree; and one
\* that is tagged as a leaf is a leaf.
LEMMA NodesComeFromNodes ==
    ASSUME NEW s, Leaves(s), NEW x, InTree(s, x)
    PROVE  /\ \A a, b : x = HashInternal(a, b) => InTree(s, a) /\ InTree(s, b)
           /\ \A data : x = HashLeaf(data) => \E i \in 1 .. Len(s) : s[i] = x
<1> DEFINE K == {k \in 0 .. Len(s) : \E i \in 1 .. Len(Levels(s)[k]) : x = Levels(s)[k][i]}
<1>1. Len(s) \in Nat
    BY LeavesList
<1>2. K \subseteq Nat /\ K # {}
    BY <1>1 DEF InTree
<1>3. PICK k \in K : \A j \in K : k <= j
    BY <1>2, LeastNatural
<1>4. k \in 0 .. Len(s) /\ k \in Nat
    BY <1>1
<1>5. PICK i \in 1 .. Len(Levels(s)[k]) : x = Levels(s)[k][i]
    OBVIOUS
<1>6. CASE k = 0
    <2>1. i \in 1 .. Len(s) /\ x = s[i]
        BY <1>5, <1>6, LevelsStep
    <2>2. PICK data : x = HashLeaf(data)
        BY <2>1 DEF Leaves
    <2>3. \A a, b : x # HashInternal(a, b)
        BY <2>2 DEF HashLeaf, HashInternal
    <2>4. QED
        BY <2>1, <2>3
<1>7. CASE k # 0
    <2>1. k \in 1 .. Len(s) /\ k - 1 \in 0 .. Len(s) /\ k - 1 < k
        BY <1>1, <1>4, <1>7
    <2>2. PICK l : l = Levels(s)[k - 1]
        OBVIOUS
    <2>3. IsList(l) /\ Len(l) \in Nat /\ Len(l) # 0
        BY <2>1, <2>2, LevelsEven, EvenList
    <2>4. Levels(s)[k] = Above(l)
        BY <2>1, <2>2, LevelsStep
    <2>5. i \in 1 .. (Len(l) + 1) \div 2
        BY <1>5, <2>3, <2>4, AboveList
    <2>6. x = IF 2 * i <= Len(l) THEN HashInternal(l[2 * i - 1], l[2 * i]) ELSE l[2 * i - 1]
        BY <1>5, <2>3, <2>4, AboveList
    <2>7. 2 * i - 1 \in 1 .. Len(l)
        BY <2>3, <2>5
    <2>8. 2 * i <= Len(l)
        <3> SUFFICES ASSUME ~ (2 * i <= Len(l)) PROVE FALSE
            OBVIOUS
        <3>1. x = l[2 * i - 1]
            BY <2>6
        <3>2. k - 1 \in K
            BY <2>1, <2>2, <2>7, <3>1
        <3>3. k <= k - 1
            BY <1>3, <3>2
        <3>4. QED
            BY <1>4, <3>3
    <2>9. 2 * i \in 1 .. Len(l) /\ x = HashInternal(l[2 * i - 1], l[2 * i])
        BY <2>3, <2>5, <2>6, <2>8
    <2>10. \A j \in 1 .. Len(l) : InTree(s, l[j])
        BY <2>1, <2>2 DEF InTree
    <2>11. \A a, b : x = HashInternal(a, b) => a = l[2 * i - 1] /\ b = l[2 * i]
        <3>1. SUFFICES ASSUME NEW a, NEW b, x = HashInternal(a, b)
                       PROVE  a = l[2 * i - 1] /\ b = l[2 * i]
            OBVIOUS
        <3>2. HashInternal(a, b) = HashInternal(l[2 * i - 1], l[2 * i])
            BY <2>9, <3>1
        <3>3. QED
            BY <3>2, HashInternalApart
    <2>12. \A data : x # HashLeaf(data)
        BY <2>9 DEF HashLeaf, HashInternal
    <2>13. QED
        BY <2>7, <2>9, <2>10, <2>11, <2>12
<1>8. QED
    BY <1>6, <1>7

\* verifyMerkleProof, for the sake of which leaves and nodes are hashed apart
\* (merkle.ts:9-13): whatever path is presented, of any length and
\* with any hashes, it leads to the root only from a leaf of the batch; a node
\* of the tree cannot be passed off as a leaf, nor a leaf as another's.
THEOREM PathsProveLeaves ==
    ASSUME NEW s, Leaves(s), NEW data, NEW proof, Len(proof) \in Nat,
           VerifyMerkleProof(HashLeaf(data), proof, MerkleRoot(s))
    PROVE  \E i \in 1 .. Len(s) : s[i] = HashLeaf(data)
<1>1. PICK leaf : leaf = HashLeaf(data)
    OBVIOUS
<1>2. PICK n \in Nat : n = Len(proof)
    OBVIOUS
<1>3. PICK acc : acc = Climb(leaf, proof) /\ Climbs(acc, leaf, proof, n)
    BY <1>2, ClimbIs
<1>4. acc[n] = MerkleRoot(s)
    BY <1>1, <1>2, <1>3 DEF VerifyMerkleProof
<1>5. acc[0] = leaf /\ \A m \in 1 .. n : acc[m] = Combined(acc[m - 1], proof[m])
    BY <1>3 DEF Climbs
<1>6. InTree(s, acc[n])
    <2>1. PICK top \in 0 .. Len(s) : top = Top(s) /\ Len(Levels(s)[top]) = 1
        BY TopIs
    <2>2. 1 \in 1 .. Len(Levels(s)[top]) /\ acc[n] = Levels(s)[top][1]
        BY <1>4, <2>1 DEF MerkleRoot
    <2>3. QED
        BY <2>2 DEF InTree
<1>7. ASSUME NEW m \in 1 .. n, InTree(s, acc[m]) PROVE InTree(s, acc[m - 1])
    <2>1. acc[m] = Combined(acc[m - 1], proof[m])
        BY <1>5
    <2>2. PICK x : x = acc[m]
        OBVIOUS
    <2>3. PICK y : y = acc[m - 1]
        OBVIOUS
    <2>4. PICK h : x = HashInternal(h, y) \/ x = HashInternal(y, h)
        BY <2>1, <2>2, <2>3 DEF Combined
    <2>5. InTree(s, y)
        BY <1>7, <2>2, <2>4, NodesComeFromNodes
    <2>6. QED
        BY <2>3, <2>5
<1> DEFINE T == {m \in 0 .. n : InTree(s, acc[m])}
<1>8. T \subseteq Nat /\ T # {}
    BY <1>6
<1>9. PICK m \in T : \A k \in T : m <= k
    BY <1>8, LeastNatural
<1>10. m = 0
    <2> SUFFICES ASSUME m # 0 PROVE FALSE
        OBVIOUS
    <2>1. m \in 1 .. n /\ m - 1 \in 0 .. n
        BY <1>9
    <2>2. m - 1 \in T
        BY <1>7, <1>9, <2>1
    <2>3. m <= m - 1
        BY <1>9, <2>2
    <2>4. QED
        BY <2>1, <2>3
<1>11. InTree(s, leaf)
    BY <1>5, <1>9, <1>10
<1>12. QED
    BY <1>1, <1>11, NodesComeFromNodes

-----------------------------------------------------------------------------
(* The leaves of a batch.                                                  *)

LEMMA RankInjective ==
    ASSUME NEW events \in SUBSET Event, NEW e \in events, NEW f \in events, e < f
    PROVE  Rank(events, e) # Rank(events, f)
<1> DEFINE E == {x \in events : x <= e}
           F == {x \in events : x <= f}
<1>1. e \in Nat /\ f \in Nat /\ events \subseteq Nat
    BY VerificationAssumption
<1>2. IsFiniteSet(events)
    BY VerificationAssumption, FS_Subset
<1>3. IsFiniteSet(F)
    <2>1. F \in SUBSET events
        OBVIOUS
    <2>2. QED
        BY <1>2, <2>1, FS_Subset
<1>4. E \in SUBSET F /\ f \in F /\ f \notin E
    <2>1. ASSUME NEW x \in E PROVE x \in F
        <3>1. x \in events /\ x \in Nat /\ x <= e
            BY <1>1
        <3>2. x <= f
            BY <1>1, <3>1
        <3>3. QED
            BY <3>1, <3>2
    <2>2. f <= f /\ ~ (f <= e)
        BY <1>1
    <2>3. QED
        BY <2>1, <2>2
<1> HIDE DEF E, F
<1>5. Cardinality(F) # Cardinality(E)
    BY <1>3, <1>4, FS_Subset
<1>6. QED
    BY <1>5 DEF Rank, E, F

\* The events of a batch are ranked from 1, one at each place.
LEMMA Ranks ==
    ASSUME NEW events \in SUBSET Event
    PROVE  /\ Cardinality(events) \in Nat
           /\ \A e \in events : Rank(events, e) \in 1 .. Cardinality(events)
           /\ \A e, f \in events : Rank(events, e) = Rank(events, f) => e = f
           /\ \A i \in 1 .. Cardinality(events) : \E e \in events : Rank(events, e) = i
<1> DEFINE n == Cardinality(events)
           rank == [e \in events |-> Rank(events, e)]
<1>1. events \subseteq Nat /\ IsFiniteSet(events)
    BY VerificationAssumption, FS_Subset
<1>2. n \in Nat
    BY <1>1, FS_CardinalityType
<1> HIDE DEF n
<1>3. ASSUME NEW e \in events PROVE Rank(events, e) \in 1 .. n
    <2> DEFINE E == {x \in events : x <= e}
    <2>1. E \in SUBSET events /\ e \in E
        BY <1>1
    <2> HIDE DEF E
    <2>2. IsFiniteSet(E) /\ Cardinality(E) <= n
        BY <1>1, <2>1, FS_Subset DEF n
    <2>3. Cardinality(E) \in Nat /\ Cardinality(E) # 0
        BY <2>1, <2>2, FS_CardinalityType, FS_EmptySet
    <2>4. Rank(events, e) = Cardinality(E)
        BY DEF Rank, E
    <2>5. QED
        BY <1>2, <2>2, <2>3, <2>4
<1>4. ASSUME NEW e \in events, NEW f \in events, Rank(events, e) = Rank(events, f) PROVE e = f
    <2>1. ~ (e < f) /\ ~ (f < e)
        BY <1>4, RankInjective
    <2>2. QED
        BY <1>1, <2>1
<1>5. rank \in Injection(events, 1 .. n)
    <2>1. rank \in [events -> 1 .. n]
        BY <1>3
    <2>2. \A e, f \in events : rank[e] = rank[f] => e = f
        BY <1>4
    <2>3. QED
        BY <2>1, <2>2 DEF Injection, IsInjective
<1>6. IsFiniteSet(1 .. n) /\ Cardinality(1 .. n) = n
    BY <1>2, FS_Interval
<1>7. rank \in Surjection(events, 1 .. n)
    BY <1>5, <1>6, FS_Injection DEF n
<1>8. \A i \in 1 .. n : \E e \in events : Rank(events, e) = i
    BY <1>7 DEF Surjection
<1>9. QED
    BY <1>2, <1>3, <1>4, <1>8 DEF n

LEMMA LeavesAre ==
    ASSUME NEW events \in SUBSET Event, events # {}
    PROVE  /\ Leaves(LeavesOf(events)) /\ Len(LeavesOf(events)) = Cardinality(events)
           /\ \A e \in events : LeavesOf(events)[Rank(events, e)] = HashLeaf(e)
           /\ \A i \in 1 .. Cardinality(events) :
                  \E e \in events : LeavesOf(events)[i] = HashLeaf(e)
<1> DEFINE at(i) == CHOOSE e \in events : Rank(events, e) = i
<1>1. PICK n \in Nat : n = Cardinality(events)
    BY Ranks
<1>2. n # 0
    <2>1. IsFiniteSet(events)
        BY VerificationAssumption, FS_Subset
    <2>2. QED
        BY <1>1, <2>1, FS_EmptySet
<1>3. PICK s : s = LeavesOf(events)
    OBVIOUS
<1>4. s = [i \in 1 .. n |-> HashLeaf(at(i))]
    BY <1>1, <1>3 DEF LeavesOf
<1>5. s = [i \in 1 .. n |-> s[i]]
    BY <1>4
<1>6. IsList(s) /\ Len(s) = n
    BY <1>5, ListOf
<1>7. ASSUME NEW i \in 1 .. n PROVE at(i) \in events /\ Rank(events, at(i)) = i
    <2>1. \E e \in events : Rank(events, e) = i
        BY <1>1, Ranks
    <2>2. QED
        BY <2>1
<1> HIDE DEF at
<1>8. Leaves(s)
    BY <1>2, <1>4, <1>5, <1>6 DEF Leaves
<1>9. ASSUME NEW e \in events PROVE s[Rank(events, e)] = HashLeaf(e)
    <2>1. PICK i \in 1 .. n : i = Rank(events, e)
        BY <1>1, Ranks
    <2>2. at(i) \in events /\ Rank(events, at(i)) = Rank(events, e)
        BY <1>7, <2>1
    <2>3. at(i) = e
        BY <2>2, Ranks
    <2>4. QED
        BY <1>4, <2>1, <2>3
<1>10. ASSUME NEW i \in 1 .. n PROVE \E e \in events : s[i] = HashLeaf(e)
    BY <1>4, <1>7
<1>11. QED
    BY <1>1, <1>3, <1>6, <1>8, <1>9, <1>10

\* Two sets of events have the same root only if they are the same.
LEMMA RootTellsEvents ==
    ASSUME NEW A \in SUBSET Event, NEW B \in SUBSET Event, A # {}, B # {}, RootOf[A] = RootOf[B]
    PROVE  A \subseteq B
<1>1. RootOf[A] = MerkleRoot(LeavesOf(A)) /\ RootOf[B] = MerkleRoot(LeavesOf(B))
    BY DEF RootOf
<1>2. Leaves(LeavesOf(A)) /\ Leaves(LeavesOf(B))
    BY LeavesAre
<1>3. LeavesOf(A) = LeavesOf(B)
    BY <1>1, <1>2, RootTellsLeaves
<1>4. Cardinality(A) = Cardinality(B)
    BY <1>3, LeavesAre
<1>5. SUFFICES ASSUME NEW e \in A PROVE e \in B
    OBVIOUS
<1>6. LeavesOf(A)[Rank(A, e)] = HashLeaf(e) /\ Rank(A, e) \in 1 .. Cardinality(A)
    BY LeavesAre, Ranks
<1>7. PICK f \in B : LeavesOf(B)[Rank(A, e)] = HashLeaf(f)
    BY <1>4, <1>6, LeavesAre
<1>8. HashLeaf(e) = HashLeaf(f)
    BY <1>3, <1>6, <1>7
<1>9. e = f
    BY <1>8 DEF HashLeaf
<1>10. QED
    BY <1>9

\* The proof of an event of a batch checks against the root of the batch.
LEMMA ProofsCheck ==
    ASSUME NEW events \in SUBSET Event, NEW e \in events
    PROVE  ProofValid(events, e, RootOf[events])
<1>1. RootOf[events] = MerkleRoot(LeavesOf(events))
    BY DEF RootOf
<1>2. PICK s : s = LeavesOf(events)
    OBVIOUS
<1>3. PICK i : i = Rank(events, e)
    OBVIOUS
<1>4. Leaves(s) /\ i \in 1 .. Len(s)
    BY <1>2, <1>3, LeavesAre, Ranks
<1>5. VerifyMerkleProof(s[i], MerkleProof(s, i), MerkleRoot(s))
    BY <1>4, LeavesHavePaths
<1>6. QED
    BY <1>1, <1>2, <1>3, <1>5 DEF ProofValid

-----------------------------------------------------------------------------
(* What a request knows of its batch.                                      *)

Past(w) == w.phase \in {"anchor", "ledger", "done"}

\* A request that has a root found the batch sealed; the events it has read were
\* sealed, and none that is still in the batch is missing from them.
AskedSealed(w) ==
    w.phase # "idle" =>
        /\ w.batch \in Batch
        /\ w.root # NoRoot \/ w.kind = "event" =>
               /\ sealed[w.batch] # {} /\ w.root = RootOf[sealed[w.batch]]
               /\ Past(w) /\ w.kind # "status" =>
                      Members(w.batch) \subseteq w.events /\ w.events \subseteq sealed[w.batch]
        /\ Past(w) /\ w.kind = "event" => w.event \in w.events

RecordInv ==
    /\ \A b \in Batch : sealed[b] # {} => Members(b) \subseteq sealed[b]
    /\ \A r \in Reader : AskedSealed(reader[r])

\* A sealed batch keeps what is sealed in it and takes no event in.
SealedKept ==
    \A b \in Batch : sealed[b] # {} => sealed'[b] = sealed[b] /\ Members(b)' \subseteq Members(b)

LEMMA AskedStays ==
    ASSUME NEW w, SealedKept, AskedSealed(w)
    PROVE  AskedSealed(w)'
BY DEF SealedKept, AskedSealed, Past

LEMMA IdleAsked == AskedSealed(Idle) /\ AskedSealed(Idle)'
BY DEF AskedSealed, Idle

\* So a step keeps the invariant if it leaves the batches so, and leaves every
\* request but those that it makes right.
LEMMA RecordKept ==
    ASSUME RecordInv, SealedKept,
           \A b \in Batch : sealed[b] = {} /\ sealed'[b] # {} => Members(b)' \subseteq sealed'[b],
           \A r \in Reader : reader'[r] = reader[r] \/ AskedSealed(reader[r])'
    PROVE  RecordInv'
<1>1. ASSUME NEW b \in Batch, sealed'[b] # {} PROVE Members(b)' \subseteq sealed'[b]
    BY <1>1 DEF RecordInv, SealedKept
<1>2. ASSUME NEW r \in Reader PROVE AskedSealed(reader[r])'
    <2>1. PICK w : w = reader[r]
        OBVIOUS
    <2>2. CASE reader'[r] = reader[r]
        <3>1. AskedSealed(w)
            BY <2>1 DEF RecordInv
        <3>2. AskedSealed(w)'
            BY <3>1, AskedStays
        <3>3. QED
            BY <2>1, <2>2, <3>2 DEF AskedSealed
    <2>3. QED
        BY <2>2
<1>3. QED
    BY <1>1, <1>2 DEF RecordInv

LEMMA InitRecord == Init => RecordInv
BY IdleAsked DEF Init, RecordInv

\* Whatever goes on beside the requests.
LEMMA WorldKeepsRecord ==
    ASSUME TypeOK, RecordInv, World
    PROVE  RecordInv'
<1>1. ASSUME NEW b \in Batch, NEW e \in Event, MoveEvent(e, b) PROVE RecordInv'
    <2>1. sealed' = sealed /\ reader' = reader /\ sealed[b] = {}
        BY <1>1 DEF MoveEvent
    <2>2. ASSUME NEW c \in Batch, sealed[c] # {} PROVE Members(c)' \subseteq Members(c)
        <3>1. c # b
            BY <2>1, <2>2
        <3>2. SUFFICES ASSUME NEW x \in Event, batchOf'[x] = c PROVE batchOf[x] = c
            BY DEF Members
        <3>3. batchOf \in [Event -> Batch \cup {NoBatch}]
            BY DEF TypeOK
        <3>4. CASE batchOf[e] # b /\ batchOf' = [batchOf EXCEPT ![e] = b]
            BY <3>1, <3>2, <3>3, <3>4
        <3>5. CASE batchOf[e] = b /\ batchOf' = [batchOf EXCEPT ![e] = NoBatch]
            BY <3>2, <3>3, <3>5, VerificationAssumption
        <3>6. QED
            BY <1>1, <3>4, <3>5 DEF MoveEvent
    <2>3. SealedKept
        BY <2>1, <2>2 DEF SealedKept
    <2>4. QED
        BY <2>1, <2>3, RecordKept
<1>2. ASSUME NEW b \in Batch, Seal(b) PROVE RecordInv'
    <2>1. /\ sealed[b] = {} /\ batchOf' = batchOf /\ reader' = reader
          /\ sealed' = [sealed EXCEPT ![b] = Members(b)]
        BY <1>2 DEF Seal
    <2>2. sealed \in [Batch -> SUBSET Event]
        BY DEF TypeOK
    <2>3. \A c \in Batch : Members(c)' = Members(c)
        BY <2>1 DEF Members
    <2>4. SealedKept
        BY <2>1, <2>2, <2>3 DEF SealedKept
    <2>5. \A c \in Batch : sealed[c] = {} /\ sealed'[c] # {} => Members(c)' \subseteq sealed'[c]
        BY <2>1, <2>2, <2>3
    <2>6. QED
        BY <2>1, <2>4, <2>5, RecordKept
<1>3. ASSUME batchOf' = batchOf, sealed' = sealed,
             \A r \in Reader : reader'[r] = reader[r] \/ AskedSealed(reader[r])'
      PROVE  RecordInv'
    <2>1. SealedKept
        BY <1>3 DEF SealedKept, Members
    <2>2. QED
        BY <1>3, <2>1, RecordKept
<1>4. ASSUME NEW b \in Batch, Submit(b) PROVE RecordInv'
    BY <1>3, <1>4 DEF Submit, database
<1>5. ASSUME NEW b \in Batch, NEW t \in 1 .. MaxTx, RecordAnchor(b, t) PROVE RecordInv'
    BY <1>3, <1>5 DEF RecordAnchor
<1>6. ASSUME Ingest PROVE RecordInv'
    BY <1>3, <1>6 DEF Ingest, database
<1>7. ASSUME NEW read \in inFlight, Horizon(read) PROVE RecordInv'
    <2>1. CASE TransactionAnswered(read) \/ AccountAnswered(read) \/ HorizonSilent(read)
        <3>1. batchOf' = batchOf /\ sealed' = sealed /\ reader' = reader
            BY <2>1 DEF TransactionAnswered, AccountAnswered, HorizonSilent, Over, GoOn, database
        <3>2. QED
            BY <1>3, <3>1
    <2>2. CASE Settle(read)
        <3>1. batchOf' = batchOf /\ sealed' = sealed
            BY <2>2 DEF Settle, database
        <3>2. ASSUME NEW r \in Reader PROVE reader'[r] = reader[r] \/ AskedSealed(reader[r])'
            <4>1. PICK w : w = reader[r]
                OBVIOUS
            <4>2. PICK v : v = [w EXCEPT !.phase = "done", !.says = read.says]
                OBVIOUS
            <4>3. w \in Reading
                BY <4>1 DEF TypeOK
            <4>4. /\ v.phase = "done" /\ v.batch = w.batch /\ v.root = w.root /\ v.kind = w.kind
                  /\ v.events = w.events /\ v.event = w.event
                BY <4>2, <4>3 DEF Reading
            <4>5. CASE Waiting(r, read)
                <5>1. reader'[r] = v /\ w.phase = "ledger"
                    BY <2>2, <4>1, <4>2, <4>5 DEF Settle, Waiting
                <5>2. AskedSealed(w)
                    BY <4>1 DEF RecordInv
                <5>3. AskedSealed(v)
                    BY <4>4, <5>1, <5>2 DEF AskedSealed, Past
                <5>4. AskedSealed(v)'
                    BY <3>1, <5>3 DEF AskedSealed, Past, Members
                <5>5. QED
                    BY <5>1, <5>4 DEF AskedSealed
            <4>6. CASE ~Waiting(r, read)
                BY <2>2, <4>6 DEF Settle
            <4>7. QED
                BY <4>5, <4>6
        <3>3. QED
            BY <1>3, <3>1, <3>2
    <2>3. QED
        BY <1>7, <2>1, <2>2 DEF Horizon
<1>8. ASSUME Restart PROVE RecordInv'
    <2>1. \A r \in Reader : reader'[r] = Idle
        BY <1>8 DEF Restart
    <2>2. \A r \in Reader : AskedSealed(reader[r])'
        BY <2>1, IdleAsked DEF AskedSealed
    <2>3. QED
        BY <1>3, <1>8, <2>2 DEF Restart, database
<1>9. QED
    BY <1>1, <1>2, <1>4, <1>5, <1>6, <1>7, <1>8 DEF World

\* What a request does to itself.
LEMMA RequestKeepsRecord ==
    ASSUME TypeOK, RecordInv, NEW r \in Reader, UNCHANGED database,
           NEW v, reader' = [reader EXCEPT ![r] = v], AskedSealed(v)
    PROVE  RecordInv'
<1>1. batchOf' = batchOf /\ sealed' = sealed
    BY DEF database
<1>2. SealedKept
    BY <1>1 DEF SealedKept, Members
<1>3. reader \in [Reader -> Reading]
    BY DEF TypeOK
<1>4. ASSUME NEW x \in Reader PROVE reader'[x] = reader[x] \/ AskedSealed(reader[x])'
    <2>1. CASE x = r
        <3>1. AskedSealed(v)'
            BY <1>2, AskedStays
        <3>2. reader'[x] = v
            BY <1>3, <2>1
        <3>3. QED
            BY <3>1, <3>2 DEF AskedSealed
    <2>2. CASE x # r
        BY <1>3, <2>2
    <2>3. QED
        BY <2>1, <2>2
<1>5. QED
    BY <1>1, <1>2, <1>4, RecordKept

LEMMA CallKeepsRecord ==
    ASSUME TypeOK, RecordInv, NEW r \in Reader, NEW b \in Batch,
           NEW kind \in {"report", "event", "status"}, NEW e \in Nat, Ask(r, kind, b, e)
    PROVE  RecordInv'
<1> DEFINE v == [Idle EXCEPT !.kind = kind, !.batch = b, !.root = RootOf[sealed[b]], !.event = e,
                             !.phase = IF kind = "status" THEN "anchor" ELSE "events"]
<1>1. UNCHANGED database /\ reader' = [reader EXCEPT ![r] = v] /\ (kind = "event" => sealed[b] # {})
    BY DEF Ask
<1>2. /\ v.kind = kind /\ v.batch = b /\ v.root = RootOf[sealed[b]]
      /\ v.phase = IF kind = "status" THEN "anchor" ELSE "events"
    BY DEF Idle
<1> HIDE DEF v
<1>3. sealed[b] \in SUBSET Event
    BY DEF TypeOK
<1>4. v.root # NoRoot => sealed[b] # {}
    BY <1>2, <1>3 DEF RootOf
<1>5. AskedSealed(v)
    BY <1>1, <1>2, <1>4 DEF AskedSealed, Past
<1>6. QED
    BY <1>1, <1>5, RequestKeepsRecord

LEMMA ServeKeepsRecord ==
    ASSUME TypeOK, RecordInv, NEW r \in Reader, Serve(r)
    PROVE  RecordInv'
<1>1. PICK w : w = reader[r]
    OBVIOUS
<1>2. w \in Reading /\ AskedSealed(w)
    BY <1>1 DEF TypeOK, RecordInv
<1>3. CASE ReadEvents(r)
    <2> DEFINE v == [w EXCEPT !.phase = "anchor", !.events = Members(w.batch)]
    <2>1. w.phase = "events" /\ UNCHANGED database
        BY <1>1, <1>3 DEF ReadEvents
    <2>2. \/ reader' = [reader EXCEPT ![r] = Idle]
          \/ /\ reader' = [reader EXCEPT ![r] = v]
             /\ w.kind = "event" => w.event \in Members(w.batch)
        BY <1>1, <1>3 DEF ReadEvents
    <2>3. CASE reader' = [reader EXCEPT ![r] = Idle]
        BY <2>1, <2>3, IdleAsked, RequestKeepsRecord
    <2>4. CASE reader' = [reader EXCEPT ![r] = v] /\ (w.kind = "event" => w.event \in Members(w.batch))
        <3>1. /\ v.phase = "anchor" /\ v.events = Members(w.batch) /\ v.batch = w.batch
              /\ v.root = w.root /\ v.kind = w.kind /\ v.event = w.event
            BY <1>2 DEF Reading
        <3>2. w.batch \in Batch
            BY <1>2, <2>1 DEF AskedSealed
        <3>3. sealed[w.batch] # {} => Members(w.batch) \subseteq sealed[w.batch]
            BY <3>2 DEF RecordInv
        <3> HIDE DEF v
        <3>4. AskedSealed(v)
            BY <1>2, <2>1, <2>4, <3>1, <3>2, <3>3 DEF AskedSealed, Past
        <3>5. QED
            BY <2>1, <2>4, <3>4, RequestKeepsRecord
    <2>5. QED
        BY <2>2, <2>3, <2>4
<1>4. CASE ReadAnchor(r)
    <2> DEFINE key == <<anchor[w.batch], RootOf[sealed[w.batch]]>>
               known == key \in confirmed
               asks == anchor[w.batch] # NoTx /\ ~known
               v == [w EXCEPT !.phase = IF asks THEN "ledger" ELSE "done",
                              !.asked = key, !.fresh = Fresh(key),
                              !.says = IF known THEN "confirmed"
                                       ELSE IF asks THEN "unknown" ELSE "unanchored"]
    <2>1. w.phase = "anchor" /\ UNCHANGED database /\ reader' = [reader EXCEPT ![r] = v]
        BY <1>1, <1>4 DEF ReadAnchor
    <2> HIDE DEF asks, known, key
    <2>2. /\ Past(v) /\ v.events = w.events /\ v.batch = w.batch
          /\ v.root = w.root /\ v.kind = w.kind /\ v.event = w.event
        BY <1>2 DEF Reading, Past
    <2> HIDE DEF v
    <2>3. AskedSealed(v)
        BY <1>2, <2>1, <2>2 DEF AskedSealed, Past
    <2>4. QED
        BY <2>1, <2>3, RequestKeepsRecord
<1>5. CASE Dismiss(r)
    <2>1. UNCHANGED database /\ reader' = [reader EXCEPT ![r] = Idle]
        BY <1>5 DEF Dismiss
    <2>2. QED
        BY <2>1, IdleAsked, RequestKeepsRecord
<1>6. QED
    BY <1>3, <1>4, <1>5 DEF Serve

LEMMA NextRecord ==
    ASSUME TypeOK, RecordInv, [Next]_vars
    PROVE  RecordInv'
<1>1. CASE World
    BY <1>1, WorldKeepsRecord
<1>2. ASSUME NEW r \in Reader, Serve(r) PROVE RecordInv'
    BY <1>2, ServeKeepsRecord
<1>3. ASSUME NEW r \in Reader, NEW b \in Batch, Call(r, b) PROVE RecordInv'
    <2>1. ASSUME NEW kind \in {"report", "status"}, Ask(r, kind, b, 0) PROVE RecordInv'
        BY <2>1, CallKeepsRecord
    <2>2. ASSUME NEW e \in Event, Ask(r, "event", b, e) PROVE RecordInv'
        <3>1. e \in Nat
            BY VerificationAssumption
        <3>2. QED
            BY <2>2, <3>1, CallKeepsRecord
    <2>3. QED
        BY <1>3, <2>1, <2>2 DEF Call
<1>4. CASE UNCHANGED vars
    <2>1. batchOf' = batchOf /\ sealed' = sealed /\ reader' = reader
        BY <1>4 DEF vars, database
    <2>2. SealedKept
        BY <2>1 DEF SealedKept, Members
    <2>3. QED
        BY <2>1, <2>2, RecordKept
<1>5. QED
    BY <1>1, <1>2, <1>3, <1>4 DEF Next

-----------------------------------------------------------------------------
(* The two promises to the public.                                         *)

LEMMA VerifiedOK ==
    ASSUME TypeOK, RecordInv, VerdictsAreTrue
    PROVE  VerifiedIsProof
<1> SUFFICES ASSUME NEW r \in Reader
             PROVE  LET b == reader[r].batch IN
                    /\ Answered(r, "report") /\ Heading(r) = "Independently verifiable" =>
                           reader[r].events = sealed[b] /\ OnLedger(b)
                    /\ Answered(r, "event") /\ EventProofValid(r) => reader[r].event \in sealed[b]
    BY DEF VerifiedIsProof
<1>1. PICK w : w = reader[r]
    OBVIOUS
<1>2. PICK b : b = w.batch
    OBVIOUS
<1>3. w \in Reading /\ AskedSealed(w)
    BY <1>1 DEF TypeOK, RecordInv
<1>4. w.events \in SUBSET Event
    BY <1>3 DEF Reading
<1>5. ASSUME Answered(r, "report"), Heading(r) = "Independently verifiable"
      PROVE  w.events = sealed[b] /\ OnLedger(b)
    <2>1. w.phase = "done" /\ w.kind = "report"
        BY <1>1, <1>5 DEF Answered
    <2>2. ProofState(r) = "verified"
        BY <1>5 DEF Heading, ProofState
    <2>3. w.root # NoRoot /\ w.says = "confirmed" /\ InternallyConsistent(r)
        BY <1>1, <2>2 DEF ProofState
    <2>4. w.root = RootOf[w.events] /\ w.events # {}
        BY <1>1, <2>3 DEF InternallyConsistent, RootMatchesSealedValue, RecomputedRoot, AllProofsValid
    <2>5. b \in Batch /\ sealed[b] # {} /\ w.root = RootOf[sealed[b]]
        BY <1>2, <1>3, <2>1, <2>3 DEF AskedSealed
    <2>6. sealed[b] \in SUBSET Event
        BY <2>5 DEF TypeOK
    <2>7. w.events \subseteq sealed[b] /\ sealed[b] \subseteq w.events
        BY <1>4, <2>4, <2>5, <2>6, RootTellsEvents
    <2>8. OnLedger(b)
        BY <1>1, <1>2, <2>1, <2>3 DEF VerdictsAreTrue
    <2>9. QED
        BY <2>7, <2>8
<1>6. ASSUME Answered(r, "event"), EventProofValid(r)
      PROVE  w.event \in sealed[b]
    BY <1>1, <1>2, <1>3, <1>6 DEF Answered, AskedSealed, Past
<1>7. QED
    BY <1>1, <1>2, <1>5, <1>6

LEMMA NoFalseAlarmOK ==
    ASSUME TypeOK, RecordInv
    PROVE  NoFalseAlarm
<1> SUFFICES ASSUME NEW r \in Reader, reader[r].phase = "done",
                    (reader[r].kind = "report" /\ reader[r].root # NoRoot) \/ reader[r].kind = "event",
                    Members(reader[r].batch) = sealed[reader[r].batch]
             PROVE  /\ reader[r].kind = "report" => InternallyConsistent(r)
                    /\ reader[r].kind = "event" => EventProofValid(r)
    BY DEF NoFalseAlarm, Answered
<1>1. PICK w : w = reader[r]
    OBVIOUS
<1>2. PICK b : b = w.batch
    OBVIOUS
<1>3. w \in Reading /\ AskedSealed(w)
    BY <1>1 DEF TypeOK, RecordInv
<1>4. /\ b \in Batch /\ sealed[b] # {} /\ w.root = RootOf[sealed[b]]
      /\ Members(b) \subseteq w.events /\ w.events \subseteq sealed[b]
      /\ w.kind = "event" => w.event \in w.events
    BY <1>1, <1>2, <1>3 DEF AskedSealed, Past
<1>5. w.events = sealed[b]
    BY <1>1, <1>2, <1>4
<1>6. w.events \in SUBSET Event /\ w.events # {} /\ w.root = RootOf[w.events]
    BY <1>3, <1>4, <1>5 DEF Reading
<1>7. \A e \in w.events : ProofValid(w.events, e, RootOf[w.events])
    BY <1>6, ProofsCheck
<1>8. ASSUME w.kind = "report" PROVE InternallyConsistent(r)
    BY <1>1, <1>6, <1>7, <1>8
    DEF InternallyConsistent, RootMatchesSealedValue, RecomputedRoot, AllProofsValid
<1>9. ASSUME w.kind = "event" PROVE EventProofValid(r)
    BY <1>1, <1>4, <1>6, <1>7, <1>9 DEF EventProofValid
<1>10. QED
    BY <1>1, <1>8, <1>9

LEMMA RecordInvariance == Spec => []RecordInv
<1>1. Init => RecordInv
    BY InitRecord
<1>2. TypeOK /\ RecordInv /\ [Next]_vars => RecordInv'
    BY NextRecord
<1>3. QED
    BY <1>1, <1>2, TypeCorrect, PTL DEF Spec

\* The report page and verifyEvent: what is shown as verified is what was sealed,
\* and is on the ledger, however many events there are and whatever changed
\* between the reads behind it.
THEOREM VerifiedWasSealed == Spec => []VerifiedIsProof
<1>1. TypeOK /\ RecordInv /\ VerdictsAreTrue => VerifiedIsProof
    BY VerifiedOK
<1>2. QED
    BY <1>1, TypeCorrect, RecordInvariance, VerdictsHold, PTL

\* buildAuditReport and verifyEvent: a batch that has kept its events is never
\* called inconsistent, nor one of its proofs invalid.
THEOREM SoundIsNotAlarmed == Spec => []NoFalseAlarm
<1>1. TypeOK /\ RecordInv => NoFalseAlarm
    BY NoFalseAlarmOK
<1>2. QED
    BY <1>1, TypeCorrect, RecordInvariance, PTL

-----------------------------------------------------------------------------
(* The backend's verdicts and the contract together.                        *)

\* Whoever checks a batch and reads the contract does what each of them may do,
\* so all that is proved of one holds of the whole.
THEOREM PublicDoesBoth == MCSpec => Spec /\ RegistrySpec
<1>1. MCInit => Init /\ RegistryInit
    BY DEF MCInit
<1>2. [MCNext]_<<vars, registryVars, part>> => [Next]_vars /\ [RegistryNext]_registryVars
    BY PublicAssumption DEF MCNext, Reports, Verdicts, Next
<1>3. QED
    BY <1>1, <1>2, PTL DEF MCSpec, Spec, RegistrySpec

\* Every reachable state of what the public can check is well typed.
THEOREM PublicTypeCorrect == MCSpec => []MCTypeOK
<1>1. TypeOK /\ RegistryTypeOK => MCTypeOK
    BY DEF MCTypeOK
<1>2. QED
    BY <1>1, PublicDoesBoth, TypeCorrect, RegistryTypeCorrect, PTL
=============================================================================
