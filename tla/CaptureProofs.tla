---------------------------- MODULE CaptureProofs ----------------------------
(* What pairing and the capture screen guarantee for any hubs, collectors,  *)
(* taps, sacks, photos and any depth of what waits.                         *)
(*                                                                          *)
(* The argument: the unique index lets one tap be answered well, so a phone *)
(* is paired once; every provisioning that a refresh or a drawing holds is  *)
(* of that pairing, and lists its own hub; and a photo and its hash change  *)
(* together, so whatever a commit reads of them agrees.  Drawings are put   *)
(* on the screen in the order in which they were asked for: the last one    *)
(* waiting shows the hub that is saved, and a pass that is over has left    *)
(* its guard to one of them.                                                *)
EXTENDS CaptureScreen, SequenceTheorems, TLAPS

-----------------------------------------------------------------------------
(* The inductive invariant.                                                 *)

PickedOK == picked \in Selection /\ picked.hub \in loaded

\* A tap whose answer is still to come back: what it was sent with, and that
\* the one tap answered well made the only row.
TapOK(t, a) ==
    /\ a.at \in {"sent", "looked", "stored"} => a.sent \in Selection
    /\ a.at = "stored" =>
           /\ a.waits
           /\ provisioning = NoProvisioning
           /\ devices = {[id |-> t, collector |-> a.sent.collector]}
    /\ a.waits /\ provisioning = NoProvisioning =>
           /\ PickedOK
           /\ app = "mobile" => a.sent \in Selection /\ a.sent.hub \in loaded

PairingOK ==
    /\ EnrolTypeOK
    /\ loaded \subseteq directory
    /\ loaded # {} => PickedOK
    /\ \A t \in Attempt : TapOK(t, attempt[t])

OnlyRow ==
    provisioning # NoProvisioning =>
        \E d \in devices :
            /\ devices = {d}
            /\ d.id = provisioning.device
            /\ app = "mobile" => d.collector = provisioning.collector

ProvisioningOK == OnlyRow /\ AssignedHubListed

\* What was taken before a request is of the pairing the phone still has.
PullsOK ==
    \A q \in pulls :
        /\ provisioning # NoProvisioning
        /\ q.p.device = provisioning.device /\ q.p.collector = provisioning.collector

\* Before it is paired the phone shows no capture screen, and nothing waits.
NotYetPaired ==
    provisioning = NoProvisioning => ~OnScreen /\ ops = <<>> /\ syncing = "no"

Whole(r) == r.photo = r.hash /\ r.hash # 0
Op == Drawing \cup {op \in Enqueueing : Whole(op.record)}

ScreenOK ==
    /\ sack \in Sack \ {0} /\ screen \in Screen
    /\ photo \in Shot /\ photoHash \in Shot /\ busy \in BOOLEAN
    /\ shots \in Shot /\ hashing \subseteq Shot
    /\ queue \subseteq QueuedWeighIn /\ RecordWhole
    /\ syncing \in {"no", "posting", "drawing"}
    /\ faults \in 0 .. MaxFaults

IInv ==
    /\ PairingOK /\ ProvisioningOK
    /\ pulls \subseteq Pull /\ PullsOK
    /\ ScreenOK /\ ops \in Seq(Op)
    /\ NotYetPaired

LEMMA IInvTypeOK == IInv => ScreenTypeOK
<1>1. Op \subseteq Drawing \cup Enqueueing
    BY DEF Op
<1>2. Seq(Op) \subseteq Seq(Drawing \cup Enqueueing)
    BY <1>1, SeqMonotonic
<1>3. QED
    BY <1>2 DEF IInv, PairingOK, ScreenOK, ScreenTypeOK

LEMMA InitIInv == ScreenInit => IInv
<1> SUFFICES ASSUME ScreenInit PROVE IInv
    OBVIOUS
<1> USE EnrolmentAssumption, CaptureAssumption DEF ScreenInit, EnrolInit
<1>1. EnrolTypeOK
    <2>1. attempt \in [Attempt -> Progress]
        BY DEF Progress
    <2>2. QED
        BY <2>1 DEF EnrolTypeOK
<1>2. PairingOK /\ ProvisioningOK /\ PullsOK
    BY <1>1 DEF PairingOK, TapOK, ProvisioningOK, OnlyRow, AssignedHubListed, PullsOK
<1>3. ScreenOK /\ NotYetPaired
    <2>1. 0 \in Sack /\ 1 \in Sack /\ 0 \in Shot
        BY DEF Sack, Shot
    <2>2. PairingScreen \in Screen
        BY <2>1 DEF PairingScreen, Screen
    <2>3. RecordWhole /\ NotYetPaired
        BY DEF RecordWhole, NotYetPaired, OnScreen, PairingScreen
    <2>4. 0 \in 0 .. MaxFaults
        OBVIOUS
    <2>5. sack \in Sack \ {0} /\ shots \in Shot /\ photo \in Shot /\ photoHash \in Shot
        BY <2>1
    <2>6. screen \in Screen /\ faults \in 0 .. MaxFaults
        BY <2>2, <2>4
    <2>7. /\ hashing \subseteq Shot /\ queue \subseteq QueuedWeighIn /\ busy \in BOOLEAN
          /\ syncing \in {"no", "posting", "drawing"}
        OBVIOUS
    <2>8. QED
        BY <2>3, <2>5, <2>6, <2>7, Zenon DEF ScreenOK
<1>4. ops \in Seq(Op)
    BY EmptySeq
<1>5. QED
    BY <1>2, <1>3, <1>4 DEF IInv

-----------------------------------------------------------------------------
(* Pairing.                                                                 *)

Paths == <<app, provisioning, devices, loaded, picked, directory>>

\* One tap moves, and leaves everything else of the pairing alone.
LEMMA TapMoves ==
    ASSUME PairingOK, ProvisioningOK, NEW t \in Attempt, NEW a \in Progress, TapOK(t, a),
           attempt' = [attempt EXCEPT ![t] = a], UNCHANGED Paths
    PROVE  PairingOK' /\ ProvisioningOK'
<1>1. EnrolTypeOK'
    BY DEF PairingOK, EnrolTypeOK, Paths
<1>2. ASSUME NEW u \in Attempt PROVE TapOK(u, attempt[u])'
    <2>1. (attempt'[u] = a /\ u = t) \/ attempt'[u] = attempt[u]
        BY DEF PairingOK, EnrolTypeOK
    <2>2. QED
        BY <2>1 DEF PairingOK, TapOK, PickedOK, Paths
<1>3. QED
    BY <1>1, <1>2
       DEF PairingOK, PickedOK, ProvisioningOK, OnlyRow, AssignedHubListed, Paths

LEMMA OverOK ==
    ASSUME NEW t \in Attempt
    PROVE  LET a == [at |-> "over", sent |-> NoSelection, waits |-> FALSE]
           IN  a \in Progress /\ TapOK(t, a)
BY DEF Progress, TapOK

LEMMA Ending ==
    ASSUME PairingOK, ProvisioningOK, NEW t \in Attempt, attempt' = Over(t), UNCHANGED Paths
    PROVE  PairingOK' /\ ProvisioningOK'
BY OverOK, TapMoves DEF Over

LEMMA Tapping ==
    ASSUME PairingOK, ProvisioningOK, NEW t \in Attempt,
           TapEnrol(t) \/ Refused(t) \/ GiveUp(t) \/ LookForKey(t)
    PROVE  PairingOK' /\ ProvisioningOK'
<1>1. UNCHANGED Paths
    BY DEF TapEnrol, Refused, GiveUp, LookForKey, Paths
<1>2. attempt[t] \in Progress /\ TapOK(t, attempt[t])
    BY DEF PairingOK, EnrolTypeOK
<1>3. CASE TapEnrol(t)
    <2> DEFINE a == [at |-> "sent", sent |-> picked, waits |-> TRUE]
    <2>1. a \in Progress /\ TapOK(t, a)
        BY <1>3 DEF TapEnrol, PairingOK, PickedOK, Progress, TapOK
    <2>2. QED
        BY <1>1, <1>3, <2>1, TapMoves DEF TapEnrol
<1>4. CASE attempt' = Over(t)
    BY <1>1, <1>4, Ending
<1>5. ASSUME NEW a \in Progress, attempt' = [attempt EXCEPT ![t] = a],
             a.sent = attempt[t].sent, a.waits => attempt[t].waits,
             a.at \in {"sent", "looked"} => attempt[t].at \in {"sent", "looked"},
             a.at # "stored"
      PROVE  PairingOK' /\ ProvisioningOK'
    <2>1. TapOK(t, a)
        BY <1>2, <1>5 DEF TapOK
    <2>2. QED
        BY <1>1, <1>5, <2>1, TapMoves
<1>6. CASE attempt' = [attempt EXCEPT ![t].waits = FALSE] /\ attempt[t].at \in {"sent", "looked"}
    <2> DEFINE a == [attempt[t] EXCEPT !.waits = FALSE]
    <2>1. /\ a \in Progress /\ attempt' = [attempt EXCEPT ![t] = a]
          /\ a.sent = attempt[t].sent /\ ~a.waits /\ a.at = attempt[t].at
        BY <1>2, <1>6 DEF Progress
    <2>2. QED
        BY <1>5, <1>6, <2>1
<1>7. ASSUME NEW at \in {"looked", "refused"}, attempt[t].at = "sent",
             attempt' = [attempt EXCEPT ![t].at = at]
      PROVE  PairingOK' /\ ProvisioningOK'
    <2> DEFINE a == [attempt[t] EXCEPT !.at = at]
    <2>1. /\ a \in Progress /\ attempt' = [attempt EXCEPT ![t] = a]
          /\ a.sent = attempt[t].sent /\ a.waits = attempt[t].waits /\ a.at = at
        BY <1>2, <1>7 DEF Progress
    <2>2. QED
        BY <1>5, <1>7, <2>1
<1>8. QED
    BY <1>3, <1>4, <1>6, <1>7 DEF Refused, GiveUp, Unheard, LookForKey, Answered

LEMMA Storing ==
    ASSUME PairingOK, ProvisioningOK, NEW t \in Attempt, StoreDevice(t)
    PROVE  PairingOK' /\ ProvisioningOK'
<1>1. /\ attempt[t] \in Progress /\ TapOK(t, attempt[t]) /\ attempt[t].at = "looked"
      /\ attempt[t].sent \in Selection
    BY DEF PairingOK, EnrolTypeOK, StoreDevice, TapOK
<1>2. CASE devices # {}
    <2>1. UNCHANGED Paths
        BY <1>2 DEF StoreDevice, Paths
    <2>2. CASE attempt' = Over(t)
        BY <2>1, <2>2, Ending
    <2>3. CASE attempt' = [attempt EXCEPT ![t].at = "refused"]
        <3> DEFINE a == [attempt[t] EXCEPT !.at = "refused"]
        <3>1. a \in Progress /\ attempt' = [attempt EXCEPT ![t] = a] /\ TapOK(t, a)
            BY <1>1, <2>3 DEF Progress, TapOK
        <3>2. QED
            BY <2>1, <3>1, TapMoves
    <2>4. QED
        BY <1>2, <2>2, <2>3 DEF StoreDevice, Answered
<1>3. CASE devices = {}
    <2>1. /\ devices' = {[id |-> t, collector |-> attempt[t].sent.collector]}
          /\ UNCHANGED <<app, directory, provisioning, loaded, picked>>
          /\ provisioning = NoProvisioning
        BY <1>3 DEF StoreDevice, ProvisioningOK, OnlyRow
    <2>2. devices' \subseteq Device
        BY <1>1, <2>1 DEF Device, Selection
    <2>3. PICK a \in Progress :
             /\ attempt' = [attempt EXCEPT ![t] = a]
             /\ a.waits => attempt[t].waits /\ a.sent = attempt[t].sent /\ a.at = "stored"
             /\ ~a.waits => a.at = "over"
        <3>1. CASE attempt[t].waits
            <4> DEFINE a == [attempt[t] EXCEPT !.at = "stored"]
            <4>1. /\ a \in Progress /\ attempt' = [attempt EXCEPT ![t] = a]
                  /\ a.waits /\ a.sent = attempt[t].sent /\ a.at = "stored"
                BY <1>1, <1>3, <3>1 DEF StoreDevice, Answered, Progress
            <4>2. QED
                BY <3>1, <4>1
        <3>2. CASE ~attempt[t].waits
            BY <1>3, <3>2, OverOK DEF StoreDevice, Answered, Over
        <3>3. QED
            BY <3>1, <3>2
    <2>4. EnrolTypeOK'
        BY <2>1, <2>2, <2>3 DEF PairingOK, EnrolTypeOK
    <2>5. ASSUME NEW u \in Attempt PROVE TapOK(u, attempt[u])'
        <3>1. CASE u = t
            BY <1>1, <2>1, <2>3, <3>1 DEF PairingOK, EnrolTypeOK, TapOK, PickedOK, Progress
        <3>2. CASE u # t
            BY <1>3, <2>1, <2>3, <3>2 DEF PairingOK, EnrolTypeOK, TapOK, PickedOK
        <3>3. QED
            BY <3>1, <3>2
    <2>6. QED
        BY <2>1, <2>4, <2>5
           DEF PairingOK, PickedOK, ProvisioningOK, OnlyRow, AssignedHubListed
<1>4. QED
    BY <1>2, <1>3

LEMMA Choosing ==
    ASSUME PairingOK, ProvisioningOK, SignIn \/ Pick \/ ForgetLoaded \/ CreateHub
    PROVE  PairingOK' /\ ProvisioningOK'
<1>1. UNCHANGED <<app, devices, provisioning, attempt>>
    BY DEF SignIn, Pick, ForgetLoaded, CreateHub
<1>2. directory \subseteq directory' /\ directory' \subseteq Hub
    BY DEF SignIn, Pick, ForgetLoaded, CreateHub, PairingOK, EnrolTypeOK
<1>3. \/ loaded \subseteq loaded' /\ loaded' \subseteq directory' /\ (PickedOK' \/ picked' = picked)
      \/ ForgetLoaded
    <2>1. CASE SignIn
        BY <2>1 DEF SignIn, PairingOK, EnrolTypeOK, PickedOK, Selection
    <2>2. CASE Pick
        BY <2>2 DEF Pick, PairingOK, EnrolTypeOK, PickedOK, Selection
    <2>3. CASE CreateHub
        BY <2>3 DEF CreateHub, PairingOK
    <2>4. QED
        BY <2>1, <2>2, <2>3
<1>4. EnrolTypeOK'
    BY <1>1, <1>2, <1>3 DEF PairingOK, EnrolTypeOK, ForgetLoaded, PickedOK
<1>5. ProvisioningOK'
    BY <1>1 DEF ProvisioningOK, OnlyRow, AssignedHubListed
<1>6. CASE ForgetLoaded
    BY <1>1, <1>2, <1>4, <1>5, <1>6 DEF ForgetLoaded, PairingOK, TapOK, PickedOK
<1>7. CASE ~ForgetLoaded
    <2>1. loaded \subseteq loaded' /\ loaded' \subseteq directory'
        BY <1>3, <1>7
    <2>2. PickedOK => PickedOK'
        BY <1>3, <1>7, <2>1 DEF PickedOK
    <2>3. loaded' # {} => PickedOK'
        BY <1>7, <2>2 DEF SignIn, Pick, CreateHub, PairingOK, EnrolTypeOK, PickedOK, Selection
    <2>4. \A t \in Attempt : TapOK(t, attempt[t])'
        BY <1>1, <2>1, <2>2 DEF PairingOK, TapOK
    <2>5. QED
        BY <1>4, <1>5, <2>1, <2>3, <2>4 DEF PairingOK
<1>8. QED
    BY <1>6, <1>7

\* A phone is paired by the tap that made the row, and with what its operator
\* had selected.
LEMMA PairingUp ==
    ASSUME PairingOK, ProvisioningOK, NEW t \in Attempt, SaveProvisioning(t)
    PROVE  /\ PairingOK' /\ ProvisioningOK'
           /\ provisioning = NoProvisioning /\ provisioning' \in Provisioning
<1> DEFINE over == [at |-> "over", sent |-> NoSelection, waits |-> FALSE]
           sel == SavedSelection(t)
<1>1. /\ attempt[t] \in Progress /\ attempt[t].sent \in Selection
      /\ provisioning = NoProvisioning
      /\ devices = {[id |-> t, collector |-> attempt[t].sent.collector]}
      /\ PickedOK /\ (app = "mobile" => attempt[t].sent.hub \in loaded)
    BY DEF PairingOK, EnrolTypeOK, TapOK, SaveProvisioning
<1>2. sel \in Selection /\ sel.hub \in loaded
    BY <1>1 DEF SavedSelection, PickedOK
<1>3. /\ provisioning' = [device |-> t, collector |-> sel.collector, hub |-> sel.hub,
                          hubs |-> loaded]
      /\ attempt' = [attempt EXCEPT ![t] = over]
      /\ loaded' = {} /\ picked' = NoSelection
      /\ UNCHANGED <<app, directory, devices>>
    BY DEF SaveProvisioning, Over
<1>4. provisioning' \in Provisioning /\ provisioning' # NoProvisioning
    BY <1>2, <1>3, NotPairedAssumption DEF PairingOK, EnrolTypeOK, Provisioning, Selection
<1>5. EnrolTypeOK'
    BY <1>3, <1>4, OverOK DEF PairingOK, EnrolTypeOK
<1>6. ASSUME NEW u \in Attempt PROVE TapOK(u, attempt[u])'
    <2>1. CASE u = t
        BY <1>3, <2>1 DEF TapOK, PairingOK, EnrolTypeOK
    <2>2. CASE u # t
        <3>1. attempt'[u] = attempt[u] /\ TapOK(u, attempt[u]) /\ attempt[u].at # "stored"
            BY <1>1, <1>3, <2>2 DEF TapOK, PairingOK, EnrolTypeOK
        <3>2. QED
            BY <1>4, <3>1 DEF TapOK
    <2>3. QED
        BY <2>1, <2>2
<1>7. ProvisioningOK'
    <2>1. OnlyRow'
        BY <1>1, <1>3 DEF OnlyRow, SavedSelection
    <2>2. AssignedHubListed'
        BY <1>2, <1>3 DEF AssignedHubListed
    <2>3. QED
        BY <2>1, <2>2 DEF ProvisioningOK
<1>8. QED
    BY <1>1, <1>3, <1>4, <1>5, <1>6, <1>7 DEF PairingOK

\* A paired phone keeps its pairing when its hub or its list changes.
LEMMA Rehubbing ==
    ASSUME PairingOK, ProvisioningOK, PullsOK, provisioning # NoProvisioning,
           provisioning' \in Provisioning,
           provisioning'.device = provisioning.device,
           provisioning'.collector = provisioning.collector,
           provisioning'.hub \in provisioning'.hubs,
           UNCHANGED <<app, directory, devices, loaded, picked, attempt>>, pulls' \subseteq pulls
    PROVE  PairingOK' /\ ProvisioningOK' /\ PullsOK'
<1>1. provisioning' # NoProvisioning
    BY NotPairedAssumption
<1>2. EnrolTypeOK'
    BY DEF PairingOK, EnrolTypeOK
<1>3. \A t \in Attempt : TapOK(t, attempt[t])'
    BY <1>1 DEF PairingOK, TapOK
<1>4. QED
    BY <1>1, <1>2, <1>3 DEF PairingOK, PickedOK, ProvisioningOK, OnlyRow,
                            AssignedHubListed, PullsOK

\* Nothing of the pairing changes.
LEMMA PairingSame ==
    ASSUME PairingOK, ProvisioningOK, UNCHANGED enrolVars
    PROVE  PairingOK' /\ ProvisioningOK'
BY DEF enrolVars, PairingOK, EnrolTypeOK, TapOK, PickedOK, ProvisioningOK, OnlyRow,
       AssignedHubListed

-----------------------------------------------------------------------------
(* What waits for IndexedDB.                                                *)

LEMMA DrawOK ==
    ASSUME NEW p \in Provisioning, NEW weight \in Sack,
           NEW then \in {"nothing", "sync", "release"}
    PROVE  Draw(p, weight, then) \in Op
BY DEF Draw, Op, Drawing

LEMMA HeadOK ==
    ASSUME ops \in Seq(Op), ops # <<>>
    PROVE  /\ Tail(ops) \in Seq(Op) /\ Head(ops) \in Op
           /\ Head(ops).kind # "put" => Head(ops) \in Drawing
           /\ Head(ops).kind = "put" => Head(ops) \in Enqueueing /\ Whole(Head(ops).record)
<1>1. Tail(ops) \in Seq(Op) /\ Head(ops) \in Op
    BY HeadTailProperties
<1>2. QED
    BY <1>1 DEF Op, Drawing, Enqueueing

LEMMA WaitingKept ==
    ASSUME NEW s \in Seq(Op)
    PROVE  Detached(s) \in Seq(Op)
<1>1. Len(s) \in Nat /\ DOMAIN s = 1 .. Len(s)
    BY LenProperties
<1>2. ASSUME NEW i \in 1 .. Len(s)
      PROVE  s[i] \in Op /\ (s[i].kind = "put" => [s[i] EXCEPT !.live = FALSE] \in Op)
    <2>1. s[i] \in Op
        BY <1>1, ElementOfSeq
    <2>2. QED
        BY <2>1 DEF Op, Drawing, Enqueueing, Whole
<1>3. \A i \in 1 .. Len(s) : Detached(s)[i] \in Op
    BY <1>1, <1>2 DEF Detached
<1>4. DOMAIN Detached(s) = 1 .. Len(s)
    BY <1>1 DEF Detached
<1>5. Detached(s) \in [1 .. Len(s) -> Op]
    BY <1>1, <1>3, <1>4 DEF Detached
<1>6. QED
    BY <1>1, <1>5, SeqDef
-----------------------------------------------------------------------------
(* The screen.                                                              *)

\* What a step of the screen leaves to be shown, on a phone that was paired.
LEMMA OnPairedPhone ==
    ASSUME IInv, provisioning # NoProvisioning, UNCHANGED enrolVars, pulls' \subseteq pulls,
           ScreenOK', ops' \in Seq(Op)
    PROVE  IInv'
<1>1. PairingOK' /\ ProvisioningOK'
    BY PairingSame DEF IInv
<1>2. PullsOK' /\ NotYetPaired' /\ pulls' \subseteq Pull
    BY DEF IInv, PullsOK, NotYetPaired, enrolVars
<1>3. QED
    BY <1>1, <1>2 DEF IInv

LEMMA PairedPhone ==
    ASSUME IInv, OnScreen \/ ops # <<>> \/ syncing # "no" \/ pulls # {}
    PROVE  provisioning # NoProvisioning /\ provisioning \in Provisioning
BY DEF IInv, NotYetPaired, PullsOK, PairingOK, EnrolTypeOK

LEMMA Redrawing ==
    ASSUME IInv, Repaint \/ ServeCounts \/ DrawFails \/ StoreFails \/ Drained
    PROVE  IInv'
<1>1. /\ provisioning # NoProvisioning /\ provisioning \in Provisioning
      /\ UNCHANGED enrolVars /\ UNCHANGED <<sack, screen, photo, photoHash, busy, shots,
                                            hashing, queue, pulls>>
    BY PairedPhone DEF Repaint, ServeCounts, DrawFails, StoreFails, Drained
<1>2. screen.weight \in Sack /\ ops \in Seq(Op)
    BY DEF IInv, ScreenOK, Screen
<1>3. ops' \in Seq(Op)
    <2>1. CASE Repaint
        BY <1>1, <1>2, <2>1, DrawOK, AppendProperties DEF Repaint
    <2>2. CASE ServeCounts
        <3>1. [Head(ops) EXCEPT !.kind = "all"] \in Op /\ Tail(ops) \in Seq(Op)
            BY <1>2, <2>2, HeadOK DEF ServeCounts, Op, Drawing
        <3>2. QED
            BY <2>2, <3>1, AppendProperties DEF ServeCounts
    <2>3. CASE DrawFails \/ StoreFails
        BY <1>2, <2>3, HeadOK DEF DrawFails, StoreFails
    <2>4. CASE Drained
        BY <1>1, <1>2, <2>4, DrawOK, AppendProperties DEF Drained
    <2>5. QED
        BY <2>1, <2>2, <2>3, <2>4
<1>4. syncing' \in {"no", "posting", "drawing"} /\ faults' \in 0 .. MaxFaults
    BY CaptureAssumption
       DEF Repaint, ServeCounts, DrawFails, StoreFails, Drained, AfterDrawing, IInv, ScreenOK
<1>5. ScreenOK'
    BY <1>1, <1>4 DEF IInv, ScreenOK, RecordWhole
<1>6. QED
    BY <1>1, <1>3, <1>5, OnPairedPhone

LEMMA Swapping ==
    ASSUME IInv, Swap
    PROVE  IInv'
<1>1. /\ provisioning # NoProvisioning
      /\ UNCHANGED enrolVars /\ UNCHANGED <<sack, photo, photoHash, busy, shots, hashing,
                                            queue, pulls, faults>>
    BY PairedPhone DEF Swap
<1>2. Head(ops) \in Drawing /\ Tail(ops) \in Seq(Op)
    BY HeadOK DEF Swap, IInv
<1>3. screen' \in Screen
    BY <1>2 DEF Swap, Drawing, Provisioning, Screen
<1>4. ops' \in Seq(Op)
    BY <1>2, WaitingKept DEF Swap
<1>5. syncing' \in {"no", "posting", "drawing"}
    BY DEF Swap, AfterDrawing, IInv, ScreenOK
<1>6. ScreenOK'
    BY <1>1, <1>3, <1>5 DEF IInv, ScreenOK, RecordWhole
<1>7. QED
    BY <1>1, <1>4, <1>6, OnPairedPhone

LEMMA Weighing ==
    ASSUME IInv, WriteWeight \/ Commit \/ NextSack \/ RunSync \/ PassFails
    PROVE  IInv'
<1>1. /\ UNCHANGED enrolVars
      /\ UNCHANGED <<photo, photoHash, busy, shots, hashing, queue, pulls>>
    BY DEF WriteWeight, Commit, NextSack, RunSync, PassFails
<1>2. /\ sack' \in Sack \ {0} /\ screen' \in Screen /\ syncing' \in {"no", "posting", "drawing"}
      /\ faults' \in 0 .. MaxFaults
    <2>1. sack' \in Sack \ {0}
        BY CaptureAssumption DEF WriteWeight, Commit, NextSack, RunSync, PassFails, IInv, ScreenOK,
                                     Sack
    <2>2. screen' \in Screen
        BY DEF WriteWeight, Commit, NextSack, RunSync, PassFails, IInv, ScreenOK, Screen
    <2>3. faults' \in 0 .. MaxFaults
        BY CaptureAssumption
           DEF WriteWeight, Commit, NextSack, RunSync, PassFails, IInv, ScreenOK
    <2>4. QED
        BY <2>1, <2>2, <2>3
           DEF WriteWeight, Commit, NextSack, RunSync, PassFails, IInv, ScreenOK
<1>3. ScreenOK'
    BY <1>1, <1>2 DEF IInv, ScreenOK, RecordWhole
<1>4. ops' \in Seq(Op)
    <2>1. CASE WriteWeight
        BY <2>1 DEF WriteWeight, IInv
    <2>2. CASE Commit
        <3> DEFINE r == [sack |-> sack, weight |-> screen.weight, photo |-> photo,
                         hash |-> photoHash]
        <3>1. r \in QueuedWeighIn /\ Whole(r)
            BY <2>2 DEF Commit, IInv, ScreenOK, RecordWhole, Screen, QueuedWeighIn, Whole
        <3>2. [kind |-> "put", live |-> TRUE, record |-> r] \in Op
            BY <3>1 DEF Op, Enqueueing
        <3>3. QED
            BY <2>2, <3>2, AppendProperties DEF Commit, IInv
    <2>3. CASE NextSack \/ RunSync \/ PassFails
        BY <2>3 DEF NextSack, RunSync, PassFails, IInv
    <2>4. QED
        BY <2>1, <2>2, <2>3
<1>5. CASE NextSack
    <2>1. PullsOK' /\ NotYetPaired'
        BY <1>1, <1>5 DEF NextSack, IInv, PullsOK, NotYetPaired, OnScreen, enrolVars
    <2>2. QED
        BY <1>1, <1>3, <1>4, <2>1, PairingSame DEF IInv
<1>6. CASE ~NextSack
    BY <1>1, <1>3, <1>4, <1>6, PairedPhone, OnPairedPhone DEF WriteWeight, Commit, RunSync,
        PassFails
<1>7. QED
    BY <1>5, <1>6

\* A photo and its hash change together.
LEMMA Photographing ==
    ASSUME IInv, Shoot \/ \E s \in 1 .. MaxShots : HashDone(s) \/ HashFails(s)
    PROVE  IInv'
<1>1. /\ UNCHANGED enrolVars
      /\ UNCHANGED <<sack, screen, ops, queue, syncing, pulls>>
    BY DEF Shoot, HashDone, HashFails
<1>2. /\ shots \in 0 .. MaxShots /\ MaxShots \in Nat /\ hashing \subseteq Shot
      /\ faults \in 0 .. MaxFaults /\ MaxFaults \in Nat
    BY CaptureAssumption DEF IInv, ScreenOK, Shot
<1> DEFINE Evidence ==
        /\ shots' \in Shot /\ hashing' \subseteq Shot /\ busy' \in BOOLEAN
        /\ photo' \in Shot /\ photoHash' = photo' /\ faults' \in 0 .. MaxFaults
<1>3. Evidence
    <2>1. CASE Shoot
        BY <1>2, <2>1 DEF Shoot, CanShoot, IInv, ScreenOK, RecordWhole, Shot
    <2>2. ASSUME NEW s \in 1 .. MaxShots, HashDone(s)
          PROVE  Evidence
        BY <1>2, <2>2 DEF HashDone, IInv, ScreenOK, Shot
    <2>3. ASSUME NEW s \in 1 .. MaxShots, HashFails(s)
          PROVE  Evidence
        <3>1. faults' \in 0 .. MaxFaults
            BY <1>2, <2>3 DEF HashFails
        <3>2. QED
            BY <1>2, <2>3, <3>1 DEF HashFails, IInv, ScreenOK, RecordWhole
    <2>4. QED
        BY <2>1, <2>2, <2>3
<1>4. ScreenOK'
    BY <1>1, <1>3 DEF IInv, ScreenOK, RecordWhole
<1>5. PullsOK' /\ NotYetPaired'
    BY <1>1 DEF IInv, PullsOK, NotYetPaired, OnScreen, enrolVars
<1>6. QED
    BY <1>1, <1>4, <1>5, PairingSame DEF IInv

LEMMA Queueing ==
    ASSUME IInv, Enqueued
    PROVE  IInv'
<1>1. /\ provisioning # NoProvisioning /\ provisioning \in Provisioning
      /\ UNCHANGED enrolVars /\ UNCHANGED <<sack, shots, hashing, syncing, pulls, faults>>
    BY PairedPhone DEF Enqueued
<1>2. /\ Tail(ops) \in Seq(Op)
      /\ Head(ops).record \in QueuedWeighIn /\ Whole(Head(ops).record)
    BY HeadOK DEF Enqueued, IInv, Enqueueing
<1>3. PICK weight \in Sack :
        /\ screen' = [screen EXCEPT !.weight = weight]
        /\ ops' = Append(Tail(ops), Draw(provisioning, weight, "sync"))
    <2>1. 0 \in Sack /\ screen.weight \in Sack
        BY CaptureAssumption DEF IInv, ScreenOK, Screen, Sack
    <2>2. QED
        BY <1>2, <2>1 DEF Enqueued
<1>4. ops' \in Seq(Op)
    BY <1>1, <1>2, <1>3, DrawOK, AppendProperties
<1>5. queue' = queue \cup {Head(ops).record} /\ photo' = 0 /\ photoHash' = 0 /\ busy' = FALSE
    BY DEF Enqueued
<1>6. ScreenOK'
    <2>1. screen' \in Screen
        BY <1>3 DEF IInv, ScreenOK, Screen
    <2>2. 0 \in Shot
        BY CaptureAssumption DEF Shot
    <2>3. QED
        BY <1>1, <1>2, <1>5, <2>1, <2>2 DEF IInv, ScreenOK, RecordWhole, Whole
<1>7. QED
    BY <1>1, <1>4, <1>6, OnPairedPhone
-----------------------------------------------------------------------------
(* The hub, a sync of the hub list, and the page loaded again.              *)

LEMMA Switching ==
    ASSUME IInv, SwitchHub
    PROVE  IInv'
<1>1. PICK h \in screen.choices \ {screen.hub} :
        /\ provisioning' = Selected(h)
        /\ screen' = [screen EXCEPT !.hub = h]
        /\ ops' = Append(ops, Draw(provisioning', screen.weight, "nothing"))
    BY DEF SwitchHub
<1>2. /\ provisioning # NoProvisioning /\ provisioning \in Provisioning
      /\ screen \in Screen /\ h \in Hub /\ screen.weight \in Sack
    BY PairedPhone DEF SwitchHub, IInv, ScreenOK, Screen
<1>3. /\ provisioning' \in Provisioning
      /\ provisioning'.device = provisioning.device
      /\ provisioning'.collector = provisioning.collector
      /\ provisioning'.hub \in provisioning'.hubs
    BY <1>1, <1>2 DEF Selected, Provisioning, IInv, ProvisioningOK, AssignedHubListed
<1>4. PairingOK' /\ ProvisioningOK' /\ PullsOK'
    BY <1>2, <1>3, Rehubbing DEF SwitchHub, IInv
<1>5. screen' \in Screen
    BY <1>1, <1>2 DEF Screen
<1>6. ScreenOK'
    BY <1>5 DEF SwitchHub, IInv, ScreenOK, RecordWhole
<1>7. ops' \in Seq(Op)
    BY <1>1, <1>2, <1>3, DrawOK, AppendProperties DEF IInv
<1>8. pulls' \subseteq Pull /\ NotYetPaired'
    BY <1>3, NotPairedAssumption DEF SwitchHub, IInv, NotYetPaired
<1>9. QED
    BY <1>4, <1>6, <1>7, <1>8 DEF IInv

\* syncHubs keeps what it took until its answer is there.
LEMMA Asking ==
    ASSUME IInv, SyncHubs \/ \E q \in pulls : DirectoryAnswers(q) \/ DirectoryUnreachable(q)
    PROVE  IInv'
<1>1. /\ UNCHANGED enrolVars
      /\ UNCHANGED <<sack, screen, ops, photo, photoHash, busy, shots, hashing, queue,
                     syncing, faults>>
    BY DEF SyncHubs, DirectoryAnswers, DirectoryUnreachable
<1>2. /\ provisioning # NoProvisioning /\ provisioning \in Provisioning
      /\ directory \subseteq Hub
    BY PairedPhone DEF SyncHubs, IInv, PairingOK, EnrolTypeOK
<1>3. pulls' \subseteq Pull /\ PullsOK'
    <2>1. CASE SyncHubs
        BY <1>1, <1>2, <2>1 DEF SyncHubs, IInv, PullsOK, Pull, enrolVars
    <2>2. ASSUME NEW q \in pulls, DirectoryAnswers(q)
          PROVE  pulls' \subseteq Pull /\ PullsOK'
        <3> DEFINE a == [q EXCEPT !.answer = directory]
        <3>1. q \in Pull
            BY DEF IInv
        <3>2. a \in Pull /\ a.p = q.p
            BY <1>2, <3>1 DEF Pull
        <3>3. pulls' = (pulls \ {q}) \cup {a}
            BY <2>2 DEF DirectoryAnswers
        <3>4. QED
            BY <1>1, <3>2, <3>3 DEF IInv, PullsOK, enrolVars
    <2>3. ASSUME NEW q \in pulls, DirectoryUnreachable(q)
          PROVE  pulls' \subseteq Pull /\ PullsOK'
        BY <1>1, <2>3 DEF DirectoryUnreachable, IInv, PullsOK, enrolVars
    <2>4. QED
        BY <2>1, <2>2, <2>3
<1>4. ScreenOK' /\ NotYetPaired'
    BY <1>1, <1>2 DEF IInv, ScreenOK, RecordWhole, NotYetPaired, enrolVars
<1>5. QED
    BY <1>1, <1>3, <1>4, PairingSame DEF IInv

\* Whatever it is saved over, the snapshot lists its own hub.
LEMMA Merging ==
    ASSUME IInv, NEW q \in pulls, HubsMerged(q)
    PROVE  IInv'
<1>1. /\ UNCHANGED <<app, directory, devices, loaded, picked, attempt>>
      /\ UNCHANGED <<sack, screen, photo, photoHash, busy, shots, hashing, queue, syncing,
                     faults>>
      /\ pulls' \subseteq pulls
    BY DEF HubsMerged
<1>2. /\ provisioning # NoProvisioning /\ provisioning \in Provisioning
      /\ q \in Pull /\ screen.weight \in Sack
      /\ q.p.device = provisioning.device /\ q.p.collector = provisioning.collector
    BY PairedPhone DEF IInv, PullsOK, ScreenOK, Screen
<1>3. /\ Snapshot(q) \in Provisioning
      /\ Snapshot(q).device = provisioning.device
      /\ Snapshot(q).collector = provisioning.collector
      /\ Snapshot(q).hub \in Snapshot(q).hubs
    BY <1>2 DEF Snapshot, Merged, Pull, Provisioning
<1>4. \/ UNCHANGED <<provisioning, ops>>
      \/ /\ provisioning' = Snapshot(q)
         /\ ops' = Append(ops, Draw(Snapshot(q), screen.weight, "nothing"))
    BY DEF HubsMerged
<1>5. PairingOK' /\ ProvisioningOK' /\ PullsOK' /\ provisioning' # NoProvisioning
    <2>1. provisioning'.hub \in provisioning'.hubs
        BY <1>2, <1>3, <1>4 DEF IInv, ProvisioningOK, AssignedHubListed
    <2>2. QED
        BY <1>1, <1>2, <1>3, <1>4, <2>1, Rehubbing, NotPairedAssumption DEF IInv
<1>6. ops' \in Seq(Op)
    BY <1>2, <1>3, <1>4, DrawOK, AppendProperties DEF IInv
<1>7. ScreenOK' /\ pulls' \subseteq Pull /\ NotYetPaired'
    BY <1>1, <1>5 DEF IInv, ScreenOK, RecordWhole, NotYetPaired
<1>8. QED
    BY <1>5, <1>6, <1>7 DEF IInv

LEMMA Starting ==
    ASSUME IInv, NEW t \in Attempt, Paired(t)
    PROVE  IInv'
<1>1. /\ PairingOK' /\ ProvisioningOK'
      /\ provisioning = NoProvisioning /\ provisioning' \in Provisioning
    BY PairingUp DEF Paired, IInv
<1>2. UNCHANGED <<sack, screen, photo, photoHash, busy, shots, hashing, queue, syncing,
                  pulls, faults>>
    BY DEF Paired
<1>3. pulls' \subseteq Pull /\ PullsOK'
    BY <1>1, <1>2 DEF IInv, PullsOK
<1>4. ScreenOK' /\ NotYetPaired'
    BY <1>1, <1>2, NotPairedAssumption DEF IInv, ScreenOK, RecordWhole, NotYetPaired
<1>5. ops' \in Seq(Op)
    <2>1. Draw(provisioning', 0, "nothing") \in Op
        BY <1>1, CaptureAssumption, DrawOK DEF Sack
    <2>2. <<Draw(provisioning', 0, "nothing")>> \in Seq(Op)
        BY <2>1
    <2>3. QED
        BY <2>2, EmptySeq DEF Paired
<1>6. QED
    BY <1>1, <1>3, <1>4, <1>5 DEF IInv

\* What a reload may still find written was whole when it was handed over.
LEMMA Reloading ==
    ASSUME IInv, Reload
    PROVE  IInv'
<1> DEFINE over == [at |-> "over", sent |-> NoSelection, waits |-> FALSE]
<1>1. /\ UNCHANGED <<app, directory, devices, provisioning, sack, shots>>
      /\ screen' = PairingScreen /\ photo' = 0 /\ photoHash' = 0 /\ busy' = FALSE
      /\ hashing' = {} /\ syncing' = "no" /\ pulls' = {} /\ loaded' = {}
      /\ picked' = NoSelection
    BY DEF Reload
<1>2. ASSUME NEW t \in Attempt
      PROVE  attempt'[t] \in Progress /\ TapOK(t, attempt[t])'
    <2>1. attempt[t] \in Progress /\ TapOK(t, attempt[t])
        BY DEF IInv, PairingOK, EnrolTypeOK
    <2>2. \/ attempt'[t] = attempt[t] /\ ~attempt[t].waits
          \/ attempt'[t] = over
          \/ /\ attempt'[t] = [attempt[t] EXCEPT !.waits = FALSE]
             /\ attempt[t].at \in {"sent", "looked"}
        BY DEF Reload, Unheard, Over, IInv, PairingOK, EnrolTypeOK
    <2>3. CASE attempt'[t] = attempt[t] /\ ~attempt[t].waits
        BY <2>1, <2>3 DEF TapOK
    <2>4. CASE attempt'[t] = over
        BY <2>4 DEF TapOK, Progress
    <2>5. CASE /\ attempt'[t] = [attempt[t] EXCEPT !.waits = FALSE]
               /\ attempt[t].at \in {"sent", "looked"}
        BY <2>1, <2>5 DEF TapOK, Progress
    <2>6. QED
        BY <2>2, <2>3, <2>4, <2>5
<1>3. PairingOK' /\ ProvisioningOK'
    <2>1. attempt' \in [Attempt -> Progress]
        BY <1>2 DEF Reload
    <2>2. EnrolTypeOK'
        BY <1>1, <2>1 DEF IInv, PairingOK, EnrolTypeOK
    <2>3. QED
        BY <1>1, <1>2, <2>2
           DEF IInv, PairingOK, ProvisioningOK, OnlyRow, AssignedHubListed
<1>4. queue' \subseteq QueuedWeighIn /\ \A r \in queue' : Whole(r)
    <2>1. PICK n \in 0 .. Len(ops) :
            queue' = queue \cup {ops[i].record : i \in {j \in 1 .. n : ops[j].kind = "put"}}
        BY DEF Reload
    <2>2. Len(ops) \in Nat
        BY LenProperties DEF IInv
    <2>3. ASSUME NEW j \in 1 .. n, ops[j].kind = "put"
          PROVE  ops[j].record \in QueuedWeighIn /\ Whole(ops[j].record)
        <3>1. ops[j] \in Op
            BY <2>2, ElementOfSeq DEF IInv
        <3>2. QED
            BY <2>3, <3>1 DEF Op, Drawing, Enqueueing
    <2>4. QED
        BY <2>1, <2>3 DEF IInv, ScreenOK, RecordWhole, Whole
<1>5. ScreenOK'
    <2>1. 0 \in Shot /\ 0 \in Sack
        BY CaptureAssumption DEF Shot, Sack
    <2>2. PairingScreen \in Screen
        BY <2>1 DEF PairingScreen, Screen
    <2>3. faults' \in 0 .. MaxFaults
        BY CaptureAssumption DEF Reload, IInv, ScreenOK
    <2>4. RecordWhole'
        BY <1>1, <1>4 DEF RecordWhole, Whole
    <2>5. QED
        BY <1>1, <1>4, <2>1, <2>2, <2>3, <2>4 DEF IInv, ScreenOK
<1>6. ops' \in Seq(Op) /\ (provisioning = NoProvisioning => ops' = <<>>)
    <2>1. CASE ops' = <<>>
        BY <2>1, EmptySeq
    <2>2. CASE ops' = <<Draw(provisioning, 0, "nothing")>> /\ provisioning # NoProvisioning
        <3>1. Draw(provisioning, 0, "nothing") \in Op
            BY <2>2, CaptureAssumption, DrawOK DEF Sack, IInv, PairingOK, EnrolTypeOK
        <3>2. QED
            BY <2>2, <3>1
    <2>3. QED
        BY <2>1, <2>2 DEF Reload
<1>7. PullsOK' /\ NotYetPaired' /\ pulls' \subseteq Pull
    BY <1>1, <1>6 DEF PullsOK, NotYetPaired, OnScreen, PairingScreen
<1>8. QED
    BY <1>3, <1>5, <1>6, <1>7 DEF IInv

-----------------------------------------------------------------------------
LEMMA NextIInv == IInv /\ [ScreenNext]_captureVars => IInv'
<1> SUFFICES ASSUME IInv, [ScreenNext]_captureVars PROVE IInv'
    OBVIOUS
<1>1. ASSUME UNCHANGED screenVars, PairingOK', ProvisioningOK', UNCHANGED provisioning
      PROVE  IInv'
    BY <1>1 DEF IInv, screenVars, PullsOK, ScreenOK, RecordWhole, NotYetPaired, OnScreen
<1>2. CASE UNCHANGED captureVars
    BY <1>1, <1>2, PairingSame DEF IInv, captureVars, enrolVars
<1>3. CASE EnrolStep /\ UNCHANGED screenVars
    <2>1. PairingOK' /\ ProvisioningOK'
        BY <1>3, Choosing, Tapping, Storing DEF IInv, EnrolStep
    <2>2. UNCHANGED provisioning
        BY <1>3 DEF EnrolStep, SignIn, Pick, ForgetLoaded, CreateHub, TapEnrol, Refused, GiveUp,
                    LookForKey, StoreDevice
    <2>3. QED
        BY <1>1, <1>3, <2>1, <2>2
<1>4. CASE ScreenNext /\ ~(EnrolStep /\ UNCHANGED screenVars)
    BY <1>4, Redrawing, Swapping, Weighing, Photographing, Queueing, Switching, Asking, Merging,
       Starting, Reloading
       DEF ScreenNext, ServeOldest
<1>5. QED
    BY <1>2, <1>3, <1>4

LEMMA Invariance == ScreenSpec => []IInv
BY InitIInv, NextIInv, PTL DEF ScreenSpec

-----------------------------------------------------------------------------
(* What waits, and what it is going to do.  Two facts hold besides the      *)
(* invariant: one drawing at most will release the guard of a sync pass,    *)
(* and the drawing that will be served last shows the phone's hub.  Every   *)
(* drawing goes round the queue twice ("counts", then "all"), so the last   *)
(* one to be served is the last "counts" or, without any, the last "all".   *)

Release(op) == op.kind # "put" /\ op.then = "release"

GuardHeld(s, guard) ==
    /\ guard = "drawing" <=> \E i \in 1 .. Len(s) : Release(s[i])
    /\ \A i, j \in 1 .. Len(s) : Release(s[i]) /\ Release(s[j]) => i = j

None(s, kind) == \A i \in 1 .. Len(s) : s[i].kind # kind
LastOf(s, kind, i) == s[i].kind = kind /\ \A j \in i + 1 .. Len(s) : s[j].kind # kind

HubDrawn(s, hub, shown) ==
    /\ \A i \in 1 .. Len(s) : LastOf(s, "counts", i) => s[i].p.hub = hub
    /\ None(s, "counts") => \A i \in 1 .. Len(s) : LastOf(s, "all", i) => s[i].p.hub = hub
    /\ None(s, "counts") /\ None(s, "all") => shown \in {NoHub, hub}

WaitingOK ==
    /\ GuardHeld(ops, syncing)
    /\ provisioning = NoProvisioning => screen = PairingScreen
    /\ faults = 0 /\ provisioning # NoProvisioning =>
           HubDrawn(ops, provisioning.hub, screen.hub)

\* t is s, with its commits marked detached.
Marked(s, t) ==
    /\ Len(t) = Len(s)
    /\ \A i \in 1 .. Len(s) :
           /\ t[i].kind = s[i].kind
           /\ s[i].kind # "put" => t[i].p = s[i].p /\ t[i].then = s[i].then

LEMMA DetachedMarks ==
    ASSUME NEW s \in Seq(Op)
    PROVE  Marked(s, Detached(s))
<1>1. Len(s) \in Nat /\ DOMAIN s = 1 .. Len(s) /\ Detached(s) \in Seq(Op)
    BY LenProperties, WaitingKept
<1>2. DOMAIN Detached(s) = 1 .. Len(s)
    BY <1>1 DEF Detached
<1>3. Len(Detached(s)) = Len(s)
    BY <1>1, <1>2, LenProperties
<1>4. ASSUME NEW i \in 1 .. Len(s)
      PROVE  IF s[i].kind = "put" THEN Detached(s)[i].kind = "put" ELSE Detached(s)[i] = s[i]
    <2>1. s[i] \in Op
        BY ElementOfSeq
    <2>2. Detached(s)[i] = IF s[i].kind = "put" THEN [s[i] EXCEPT !.live = FALSE] ELSE s[i]
        BY <1>1 DEF Detached
    <2>3. QED
        BY <2>1, <2>2 DEF Op, Drawing, Enqueueing
<1>5. QED
    BY <1>3, <1>4 DEF Marked

\* Marking changes nothing of the two facts.
LEMMA MarkedKeeps ==
    ASSUME NEW s \in Seq(Op), NEW t, Marked(s, t), NEW guard, NEW hub, NEW shown
    PROVE  /\ GuardHeld(s, guard) => GuardHeld(t, guard)
           /\ HubDrawn(s, hub, shown) => HubDrawn(t, hub, shown)
<1>1. Len(s) \in Nat /\ Len(t) = Len(s)
    BY LenProperties DEF Marked
<1>2. GuardHeld(s, guard) => GuardHeld(t, guard)
    <2>1. \A i \in 1 .. Len(s) : Release(t[i]) <=> Release(s[i])
        BY DEF Release, Marked
    <2>2. QED
        BY <1>1, <2>1 DEF GuardHeld
<1>4. ASSUME NEW kind
      PROVE  /\ None(t, kind) <=> None(s, kind)
             /\ \A i \in 1 .. Len(s) : LastOf(t, kind, i) <=> LastOf(s, kind, i)
    BY <1>1 DEF None, LastOf, Marked
<1>5. \A i \in 1 .. Len(s) :
          /\ LastOf(t, "counts", i) => LastOf(s, "counts", i) /\ t[i].p = s[i].p
          /\ LastOf(t, "all", i) => LastOf(s, "all", i) /\ t[i].p = s[i].p
    <2>1. \A i \in 1 .. Len(s) : LastOf(s, "counts", i) \/ LastOf(s, "all", i) => t[i].p = s[i].p
        BY DEF LastOf, Marked
    <2>2. QED
        BY <1>4, <2>1
<1>6. HubDrawn(s, hub, shown) => HubDrawn(t, hub, shown)
    <2>1. /\ None(t, "counts") <=> None(s, "counts")
          /\ None(t, "all") <=> None(s, "all")
        BY <1>4
    <2>2. QED
        BY <1>1, <1>5, <2>1 DEF HubDrawn
<1>7. QED
    BY <1>2, <1>6

\* What is appended waits behind everything else.
LEMMA AppendKeeps ==
    ASSUME NEW s \in Seq(Op), NEW x \in Op,
           NEW guard, NEW hub, NEW shown
    PROVE  /\ GuardHeld(s, guard) /\ ~Release(x) => GuardHeld(Append(s, x), guard)
           /\ (\A i \in 1 .. Len(s) : ~Release(s[i])) /\ Release(x) =>
                  GuardHeld(Append(s, x), "drawing")
           /\ x.kind = "counts" /\ x.p.hub = hub => HubDrawn(Append(s, x), hub, shown)
           /\ HubDrawn(s, hub, shown) /\ x.kind = "put" => HubDrawn(Append(s, x), hub, shown)
<1> DEFINE t == Append(s, x)
<1>1. /\ Len(s) \in Nat /\ Len(t) = Len(s) + 1 /\ t[Len(s) + 1] = x
      /\ \A i \in 1 .. Len(s) : t[i] = s[i]
    BY LenProperties, AppendProperties
<1> HIDE DEF t
<1>2. \A i \in 1 .. Len(t) : i \in 1 .. Len(s) \/ i = Len(s) + 1
    BY <1>1
<1>3. GuardHeld(s, guard) /\ ~Release(x) => GuardHeld(t, guard)
    BY <1>1, <1>2 DEF GuardHeld
<1>4. (\A i \in 1 .. Len(s) : ~Release(s[i])) /\ Release(x) => GuardHeld(t, "drawing")
    BY <1>1, <1>2 DEF GuardHeld
<1>6. x.kind = "counts" /\ x.p.hub = hub => HubDrawn(t, hub, shown)
    <2> SUFFICES ASSUME x.kind = "counts", x.p.hub = hub PROVE HubDrawn(t, hub, shown)
        OBVIOUS
    <2>1. ~None(t, "counts")
        BY <1>1 DEF None
    <2>2. ASSUME NEW i \in 1 .. Len(t), LastOf(t, "counts", i) PROVE i = Len(s) + 1
        BY <1>1, <2>2 DEF LastOf
    <2>3. QED
        BY <1>1, <2>1, <2>2 DEF HubDrawn
<1>7. HubDrawn(s, hub, shown) /\ x.kind = "put" => HubDrawn(t, hub, shown)
    <2> SUFFICES ASSUME HubDrawn(s, hub, shown), x.kind = "put" PROVE HubDrawn(t, hub, shown)
        OBVIOUS
    <2>1. ASSUME NEW kind \in {"counts", "all"}
          PROVE  /\ None(t, kind) <=> None(s, kind)
                 /\ \A i \in 1 .. Len(t) :
                        LastOf(t, kind, i) =>
                            i \in 1 .. Len(s) /\ LastOf(s, kind, i) /\ t[i] = s[i]
        <3>1. None(t, kind) <=> None(s, kind)
            BY <1>1, <1>2 DEF None
        <3>2. ASSUME NEW i \in 1 .. Len(t), LastOf(t, kind, i)
              PROVE  i \in 1 .. Len(s) /\ LastOf(s, kind, i) /\ t[i] = s[i]
            <4>1. i \in 1 .. Len(s)
                BY <1>1, <1>2, <3>2 DEF LastOf
            <4>2. \A j \in i + 1 .. Len(s) : j \in i + 1 .. Len(t) /\ t[j] = s[j]
                BY <1>1, <4>1
            <4>3. QED
                BY <1>1, <3>2, <4>1, <4>2 DEF LastOf
        <3>3. QED
            BY <3>1, <3>2
    <2>2. /\ None(t, "counts") <=> None(s, "counts")
          /\ None(t, "all") <=> None(s, "all")
        BY <2>1
    <2>3. \A i \in 1 .. Len(t) :
              /\ LastOf(t, "counts", i) => i \in 1 .. Len(s) /\ LastOf(s, "counts", i) /\ t[i] = s[i]
              /\ LastOf(t, "all", i) => i \in 1 .. Len(s) /\ LastOf(s, "all", i) /\ t[i] = s[i]
        BY <2>1
    <2>4. QED
        BY <2>2, <2>3 DEF HubDrawn
<1>8. QED
    BY <1>3, <1>4, <1>6, <1>7 DEF t

\* The oldest is served: what waits behind it moves up.
LEMMA TailKeeps ==
    ASSUME NEW s \in Seq(Op), s # <<>>, NEW guard, NEW hub, NEW shown
    PROVE  /\ GuardHeld(s, guard) =>
                  IF Release(Head(s))
                  THEN guard = "drawing" /\ \A i \in 1 .. Len(Tail(s)) : ~Release(Tail(s)[i])
                  ELSE GuardHeld(Tail(s), guard)
           /\ HubDrawn(s, hub, shown) /\ Head(s).kind = "all" =>
                  HubDrawn(Tail(s), hub, Head(s).p.hub)
           /\ HubDrawn(s, hub, shown) /\ Head(s).kind = "counts" =>
                  HubDrawn(Append(Tail(s), [Head(s) EXCEPT !.kind = "all"]), hub, shown)
<1> DEFINE t == Tail(s)
<1>1. /\ Len(s) \in Nat \ {0} /\ Len(t) = Len(s) - 1 /\ t \in Seq(Op) /\ Head(s) = s[1]
      /\ \A i \in 1 .. Len(t) : t[i] = s[i + 1]
    BY EmptySeq, HeadTailProperties
<1>2. Head(s) \in Op
    BY HeadTailProperties
<1> HIDE DEF t
<1>3. /\ \A i \in 1 .. Len(t) : i + 1 \in 1 .. Len(s)
      /\ \A i \in 1 .. Len(s) : i = 1 \/ (i - 1 \in 1 .. Len(t) /\ t[i - 1] = s[i])
    BY <1>1
<1>4. \A j \in 1 + 1 .. Len(s) : j - 1 \in 1 .. Len(t) /\ t[j - 1] = s[j]
    BY <1>1
<1>5. GuardHeld(s, guard) =>
          IF Release(Head(s)) THEN guard = "drawing" /\ \A i \in 1 .. Len(t) : ~Release(t[i])
                              ELSE GuardHeld(t, guard)
    BY <1>1, <1>3 DEF GuardHeld
<1>7. ASSUME NEW kind
      PROVE  /\ None(s, kind) <=> None(t, kind) /\ s[1].kind # kind
             /\ \A i \in 1 .. Len(t) : LastOf(t, kind, i) => LastOf(s, kind, i + 1)
    <2>1. None(s, kind) <=> None(t, kind) /\ s[1].kind # kind
        <3>1. ASSUME None(s, kind) PROVE None(t, kind) /\ s[1].kind # kind
            BY <1>1, <1>3, <3>1 DEF None
        <3>2. ASSUME None(t, kind), s[1].kind # kind, NEW i \in 1 .. Len(s)
              PROVE  s[i].kind # kind
            BY <1>3, <3>2 DEF None
        <3>3. QED
            BY <3>1, <3>2 DEF None
    <2>2. ASSUME NEW i \in 1 .. Len(t), LastOf(t, kind, i) PROVE LastOf(s, kind, i + 1)
        <3>1. \A j \in i + 2 .. Len(s) : j - 1 \in i + 1 .. Len(t) /\ t[j - 1] = s[j]
            BY <1>1, <1>3
        <3>2. (i + 1) + 1 = i + 2
            OBVIOUS
        <3>3. QED
            BY <1>1, <2>2, <3>1, <3>2 DEF LastOf
    <2>3. QED
        BY <2>1, <2>2
<1>8. HubDrawn(s, hub, shown) /\ Head(s).kind = "all" => HubDrawn(t, hub, Head(s).p.hub)
    <2> SUFFICES ASSUME HubDrawn(s, hub, shown), s[1].kind = "all"
                 PROVE  HubDrawn(t, hub, s[1].p.hub)
        BY <1>1
    <2>1. None(s, "counts") <=> None(t, "counts")
        BY <1>7
    <2>2. \A i \in 1 .. Len(t) :
              LastOf(t, "counts", i) \/ (None(t, "counts") /\ LastOf(t, "all", i)) =>
                  t[i].p.hub = hub
        BY <1>1, <1>3, <1>7, <2>1 DEF HubDrawn
    <2>3. ASSUME None(t, "counts"), None(t, "all") PROVE s[1].p.hub = hub
        <3>1. \A j \in 1 + 1 .. Len(s) : s[j].kind # "all"
            BY <1>4, <2>3 DEF None
        <3>2. LastOf(s, "all", 1)
            BY <3>1 DEF LastOf
        <3>3. QED
            BY <1>1, <2>1, <2>3, <3>2 DEF HubDrawn
    <2>4. QED
        BY <2>2, <2>3 DEF HubDrawn
<1>9. HubDrawn(s, hub, shown) /\ Head(s).kind = "counts" =>
          HubDrawn(Append(t, [Head(s) EXCEPT !.kind = "all"]), hub, shown)
    <2> SUFFICES ASSUME HubDrawn(s, hub, shown), s[1].kind = "counts"
                 PROVE  HubDrawn(Append(t, [s[1] EXCEPT !.kind = "all"]), hub, shown)
        BY <1>1
    <2>1. PICK x : x = [s[1] EXCEPT !.kind = "all"]
        OBVIOUS
    <2>2. x \in Op /\ x.kind = "all" /\ x.p = s[1].p
        BY <1>1, <1>2, <2>1 DEF Op, Drawing, Enqueueing
    <2>3. PICK u : u = Append(t, x)
        OBVIOUS
    <2>4. /\ Len(u) = Len(t) + 1 /\ u[Len(t) + 1] = x
          /\ \A i \in 1 .. Len(t) : u[i] = t[i]
        BY <1>1, <2>2, <2>3, AppendProperties
    <2>5. Len(t) \in Nat /\ \A i \in 1 .. Len(u) : i \in 1 .. Len(t) \/ i = Len(t) + 1
        BY <1>1, <2>4
    <2>6. None(u, "counts") <=> None(t, "counts")
        BY <2>2, <2>4, <2>5 DEF None
    <2>7. ASSUME NEW i \in 1 .. Len(u), LastOf(u, "counts", i) PROVE u[i].p.hub = hub
        <3>1. i \in 1 .. Len(t)
            BY <2>2, <2>4, <2>5, <2>7 DEF LastOf
        <3>2. \A j \in i + 1 .. Len(t) : j \in i + 1 .. Len(u) /\ u[j] = t[j]
            BY <2>4, <2>5, <3>1
        <3>3. LastOf(t, "counts", i)
            BY <2>4, <2>7, <3>1, <3>2 DEF LastOf
        <3>4. QED
            BY <1>1, <1>3, <1>7, <2>4, <3>1, <3>3 DEF HubDrawn
    <2>8. ASSUME None(u, "counts"), NEW i \in 1 .. Len(u), LastOf(u, "all", i)
          PROVE  u[i].p.hub = hub
        <3>1. i = Len(t) + 1
            BY <2>2, <2>4, <2>5, <2>8 DEF LastOf
        <3>2. \A j \in 1 + 1 .. Len(s) : s[j].kind # "counts"
            BY <1>4, <2>6, <2>8 DEF None
        <3>3. LastOf(s, "counts", 1)
            BY <3>2 DEF LastOf
        <3>4. QED
            BY <1>1, <2>2, <2>4, <3>1, <3>3 DEF HubDrawn
    <2>9. ~None(u, "all")
        BY <2>2, <2>4, <2>5 DEF None
    <2>10. QED
        BY <2>1, <2>3, <2>7, <2>8, <2>9 DEF HubDrawn
<1>10. QED
    BY <1>5, <1>8, <1>9 DEF t

-----------------------------------------------------------------------------
(* Every step keeps the two facts.                                          *)

LEMMA NothingWaits ==
    ASSUME NEW guard, guard # "drawing"
    PROVE  GuardHeld(<<>>, guard)
<1>1. Len(<<>>) = 0
    BY EmptySeq
<1>2. 1 .. Len(<<>>) = {}
    BY <1>1
<1>3. QED
    BY <1>2 DEF GuardHeld

LEMMA InitWaiting == ScreenInit => WaitingOK
BY NothingWaits DEF ScreenInit, EnrolInit, WaitingOK

\* A drawing is asked for, of the phone as it is now.
LEMMA DrawingKeeps ==
    ASSUME NEW s \in Seq(Op), NEW weight \in Sack, NEW then \in {"nothing", "sync", "release"},
           ops' = Append(s, Draw(provisioning', weight, then)),
           provisioning' \in Provisioning,
           IF then = "release"
           THEN syncing' = "drawing" /\ \A i \in 1 .. Len(s) : ~Release(s[i])
           ELSE GuardHeld(s, syncing')
    PROVE  WaitingOK'
<1>1. PICK x : x = Draw(provisioning', weight, then)
    OBVIOUS
<1>2. /\ x \in Op /\ x.kind = "counts" /\ x.p = provisioning'
      /\ Release(x) <=> then = "release"
    BY <1>1, DrawOK DEF Draw, Release
<1>3. ops' = Append(s, x)
    BY <1>1
<1>4. GuardHeld(ops', syncing')
    BY <1>2, <1>3, AppendKeeps
<1>6. HubDrawn(ops', provisioning'.hub, screen'.hub)
    BY <1>2, <1>3, AppendKeeps
<1>7. provisioning' # NoProvisioning
    BY NotPairedAssumption
<1>8. QED
    BY <1>4, <1>6, <1>7 DEF WaitingOK

\* The first drawing of a page that was just loaded, or paired.
LEMMA FirstDrawing ==
    ASSUME provisioning' \in Provisioning \cup {NoProvisioning},
           \/ ops' = <<>> /\ screen' = PairingScreen
           \/ /\ ops' = <<Draw(provisioning', 0, "nothing")>>
              /\ provisioning' # NoProvisioning /\ screen' = PairingScreen,
           syncing' = "no"
    PROVE  WaitingOK'
<1>1. CASE ops' = <<>> /\ screen' = PairingScreen
    <2>1. \A i \in 1 .. Len(<<>>) : FALSE
        BY EmptySeq
    <2>2. HubDrawn(ops', provisioning'.hub, screen'.hub)
        BY <1>1, <2>1 DEF HubDrawn, PairingScreen
    <2>3. QED
        BY <1>1, <2>2, NothingWaits DEF WaitingOK
<1>2. CASE /\ ops' = <<Draw(provisioning', 0, "nothing")>>
           /\ provisioning' # NoProvisioning /\ screen' = PairingScreen
    <2>1. provisioning' \in Provisioning /\ 0 \in Sack
        BY <1>2, CaptureAssumption DEF Sack
    <2>2. <<>> \in Seq(Op) /\ ops' = Append(<<>>, Draw(provisioning', 0, "nothing"))
        BY <1>2, EmptySeq
    <2>3. GuardHeld(<<>>, syncing')
        BY NothingWaits
    <2>4. QED
        BY <2>1, <2>2, <2>3, DrawingKeeps
<1>3. QED
    BY <1>1, <1>2

\* Steps that leave the screen and what waits alone.
LEMMA NothingDrawn ==
    ASSUME WaitingOK, UNCHANGED <<ops, screen, provisioning>>,
           syncing' = "drawing" <=> syncing = "drawing",
           faults' = 0 => faults = 0
    PROVE  WaitingOK'
BY DEF WaitingOK, GuardHeld

\* What the screen was and what waits, on a phone that was paired.
LEMMA ScreenParts ==
    ASSUME IInv, WaitingOK
    PROVE  /\ ops \in Seq(Op) /\ screen \in Screen /\ screen.weight \in Sack
           /\ syncing \in {"no", "posting", "drawing"} /\ faults \in Nat
           /\ GuardHeld(ops, syncing)
BY CaptureAssumption DEF IInv, ScreenOK, Screen, WaitingOK

LEMMA RedrawingWaits ==
    ASSUME IInv, WaitingOK, Repaint \/ Drained \/ SwitchHub \/ \E q \in pulls : HubsMerged(q)
    PROVE  WaitingOK'
<1>1. /\ provisioning # NoProvisioning /\ provisioning \in Provisioning
      /\ ops \in Seq(Op) /\ screen \in Screen /\ screen.weight \in Sack
      /\ GuardHeld(ops, syncing)
    BY PairedPhone, ScreenParts DEF Repaint, Drained, SwitchHub, HubsMerged
<1>2. CASE Repaint
    <2>1. /\ ops' = Append(ops, Draw(provisioning', screen.weight, "nothing"))
          /\ UNCHANGED <<provisioning, screen, syncing>>
        BY <1>2 DEF Repaint, enrolVars
    <2>2. QED
        BY <1>1, <2>1, DrawingKeeps
<1>3. CASE Drained
    <2>1. /\ ops' = Append(ops, Draw(provisioning', screen.weight, "release"))
          /\ UNCHANGED <<provisioning, screen>> /\ syncing = "posting" /\ syncing' = "drawing"
        BY <1>3 DEF Drained, enrolVars
    <2>2. \A i \in 1 .. Len(ops) : ~Release(ops[i])
        BY <1>1, <2>1 DEF GuardHeld
    <2>3. QED
        BY <1>1, <2>1, <2>2, DrawingKeeps
<1>4. CASE SwitchHub
    <2>1. PICK h \in screen.choices \ {screen.hub} :
            /\ provisioning' = Selected(h)
            /\ screen' = [screen EXCEPT !.hub = h]
            /\ ops' = Append(ops, Draw(provisioning', screen.weight, "nothing"))
        BY <1>4 DEF SwitchHub
    <2>2. provisioning' \in Provisioning
        BY <1>1, <2>1 DEF Selected, Screen, Provisioning
    <2>3. UNCHANGED syncing
        BY <1>4 DEF SwitchHub
    <2>4. QED
        BY <1>1, <2>1, <2>2, <2>3, DrawingKeeps
<1>5. ASSUME NEW q \in pulls, HubsMerged(q) PROVE WaitingOK'
    <2>1. UNCHANGED <<screen, syncing, faults>>
        BY <1>5 DEF HubsMerged
    <2>2. CASE UNCHANGED <<provisioning, ops>>
        BY <2>1, <2>2, NothingDrawn
    <2>3. CASE /\ provisioning' = Snapshot(q)
               /\ ops' = Append(ops, Draw(Snapshot(q), screen.weight, "nothing"))
        <3>1. q \in Pull
            BY DEF IInv
        <3>2. Snapshot(q) \in Provisioning
            BY <3>1 DEF Snapshot, Merged, Pull, Provisioning
        <3>3. QED
            BY <1>1, <2>1, <2>3, <3>2, DrawingKeeps
    <2>4. QED
        BY <1>5, <2>2, <2>3 DEF HubsMerged
<1>6. QED
    BY <1>2, <1>3, <1>4, <1>5

\* The oldest waiting is served, or fails.
LEMMA ServingWaits ==
    ASSUME IInv, WaitingOK, ServeCounts \/ Swap \/ DrawFails
    PROVE  WaitingOK'
<1>1. /\ provisioning # NoProvisioning /\ ops # <<>> /\ UNCHANGED provisioning
      /\ ops \in Seq(Op) /\ screen.weight \in Sack /\ faults \in Nat
      /\ syncing \in {"no", "posting", "drawing"}
      /\ GuardHeld(ops, syncing)
    BY PairedPhone, ScreenParts DEF ServeCounts, Swap, DrawFails, enrolVars
<1>2. Head(ops) \in Drawing /\ Tail(ops) \in Seq(Op)
    BY <1>1, HeadOK DEF ServeCounts, Swap, DrawFails
<1>3. PICK s \in Seq(Op), head \in Drawing : s = Tail(ops) /\ head = Head(ops)
    BY <1>2
<1>4. IF Release(head) THEN syncing = "drawing" /\ \A i \in 1 .. Len(s) : ~Release(s[i])
                       ELSE GuardHeld(s, syncing)
    BY <1>1, <1>3, TailKeeps
<1>5. Release(head) <=> head.then = "release"
    BY DEF Release, Drawing
<1>6. ASSUME AfterDrawing(head.then) PROVE GuardHeld(s, syncing')
    BY <1>1, <1>4, <1>5, <1>6 DEF AfterDrawing, GuardHeld
<1>7. CASE ServeCounts
    <2>1. PICK x : x = [head EXCEPT !.kind = "all"]
        OBVIOUS
    <2>2. x \in Op /\ (Release(x) <=> Release(head))
        BY <2>1 DEF Op, Drawing, Release
    <2>3. /\ head.kind = "counts" /\ ops' = Append(s, x)
          /\ UNCHANGED <<screen, syncing, faults>>
        BY <1>3, <1>7, <2>1 DEF ServeCounts
    <2>4. GuardHeld(ops', syncing')
        BY <1>4, <2>2, <2>3, AppendKeeps
    <2>6. faults' = 0 => HubDrawn(ops', provisioning'.hub, screen'.hub)
        BY <1>1, <1>3, <2>1, <2>3, TailKeeps DEF WaitingOK
    <2>7. QED
        BY <1>1, <2>4, <2>6 DEF WaitingOK
<1>8. CASE Swap
    <2>1. /\ head.kind = "all" /\ ops' = Detached(s) /\ UNCHANGED faults
          /\ screen' = [hub |-> head.p.hub, choices |-> head.p.hubs, weight |-> head.carried]
          /\ AfterDrawing(head.then)
        BY <1>3, <1>8 DEF Swap
    <2>2. Marked(s, ops')
        BY <2>1, DetachedMarks
    <2>3. GuardHeld(ops', syncing')
        BY <1>6, <2>1, <2>2, MarkedKeeps
    <2>4. faults' = 0 => HubDrawn(ops', provisioning'.hub, screen'.hub)
        <3> SUFFICES ASSUME faults = 0
                     PROVE  HubDrawn(ops', provisioning.hub, head.p.hub)
            BY <1>1, <2>1
        <3>1. HubDrawn(ops, provisioning.hub, screen.hub)
            BY <1>1 DEF WaitingOK
        <3>2. HubDrawn(s, provisioning.hub, head.p.hub)
            BY <1>1, <1>3, <2>1, <3>1, TailKeeps
        <3>3. QED
            BY <2>2, <3>2, MarkedKeeps
    <2>5. QED
        BY <1>1, <2>3, <2>4 DEF WaitingOK
<1>9. CASE DrawFails
    <2>1. /\ ops' = s /\ AfterDrawing(head.then) /\ faults' = faults + 1 /\ UNCHANGED screen
        BY <1>3, <1>9 DEF DrawFails
    <2>2. faults' # 0
        BY <1>1, <2>1
    <2>3. QED
        BY <1>1, <1>4, <1>6, <2>1, <2>2 DEF WaitingOK
<1>10. QED
    BY <1>7, <1>8, <1>9

\* The weight is written, or a weigh-in is committed, stored or refused.
LEMMA WeighingWaits ==
    ASSUME IInv, WaitingOK, WriteWeight \/ Commit \/ Enqueued \/ StoreFails
    PROVE  WaitingOK'
<1>1. /\ provisioning # NoProvisioning /\ provisioning \in Provisioning
      /\ UNCHANGED <<provisioning, syncing>>
      /\ ops \in Seq(Op) /\ screen \in Screen /\ screen.weight \in Sack /\ faults \in Nat
      /\ GuardHeld(ops, syncing)
    BY PairedPhone, ScreenParts DEF WriteWeight, Commit, Enqueued, StoreFails, enrolVars
<1>2. CASE WriteWeight
    <2>1. UNCHANGED <<ops, faults>> /\ screen'.hub = screen.hub
        BY <1>1, <1>2 DEF WriteWeight, Screen
    <2>2. QED
        BY <1>1, <2>1 DEF WaitingOK
<1>3. CASE Commit
    <2>1. PICK x : x = [kind |-> "put", live |-> TRUE,
                        record |-> [sack |-> sack, weight |-> screen.weight, photo |-> photo,
                                    hash |-> photoHash]]
        OBVIOUS
    <2>2. ops' = Append(ops, x) /\ UNCHANGED <<screen, faults>>
        BY <1>3, <2>1 DEF Commit
    <2>3. x \in Op /\ x.kind = "put" /\ ~Release(x)
        <3>1. x.record \in QueuedWeighIn /\ Whole(x.record)
            BY <1>3, <2>1 DEF Commit, IInv, ScreenOK, RecordWhole, Screen, QueuedWeighIn, Whole
        <3>2. QED
            BY <2>1, <3>1 DEF Op, Enqueueing, Release
    <2>4. GuardHeld(ops', syncing')
        BY <1>1, <2>2, <2>3, AppendKeeps
    <2>5. faults' = 0 => HubDrawn(ops', provisioning'.hub, screen'.hub)
        BY <1>1, <2>2, <2>3, AppendKeeps DEF WaitingOK
    <2>6. QED
        BY <1>1, <2>4, <2>5 DEF WaitingOK
<1>4. ASSUME Enqueued \/ StoreFails
      PROVE  Tail(ops) \in Seq(Op) /\ GuardHeld(Tail(ops), syncing)
    <2>1. ops # <<>> /\ Tail(ops) \in Seq(Op) /\ ~Release(Head(ops))
        BY <1>1, <1>4, HeadOK DEF Enqueued, StoreFails, Release
    <2>2. QED
        BY <1>1, <2>1, TailKeeps
<1>5. CASE Enqueued
    <2>1. PICK weight \in Sack : ops' = Append(Tail(ops), Draw(provisioning, weight, "sync"))
        <3>1. 0 \in Sack
            BY CaptureAssumption DEF Sack
        <3>2. QED
            BY <1>1, <1>5, <3>1 DEF Enqueued
    <2>2. QED
        BY <1>1, <1>4, <1>5, <2>1, DrawingKeeps
<1>7. CASE StoreFails
    <2>1. ops' = Tail(ops) /\ faults' = faults + 1 /\ UNCHANGED screen
        BY <1>7 DEF StoreFails
    <2>2. faults' # 0
        BY <1>1, <2>1
    <2>3. QED
        BY <1>1, <1>4, <1>7, <2>1, <2>2 DEF WaitingOK
<1>8. QED
    BY <1>2, <1>3, <1>5, <1>7

\* The phone is paired, or its page is loaded again.
LEMMA StartingWaits ==
    ASSUME IInv, WaitingOK, Reload \/ \E t \in Attempt : Paired(t)
    PROVE  WaitingOK'
<1>1. IInv'
    BY Reloading, Starting
<1>2. provisioning' \in Provisioning \cup {NoProvisioning}
    BY <1>1 DEF IInv, PairingOK, EnrolTypeOK
<1>3. CASE Reload
    <2>1. /\ screen' = PairingScreen /\ syncing' = "no" /\ UNCHANGED provisioning
          /\ \/ ops' = <<>>
             \/ ops' = <<Draw(provisioning, 0, "nothing")>> /\ provisioning # NoProvisioning
        BY <1>3 DEF Reload
    <2>2. QED
        BY <1>2, <2>1, FirstDrawing
<1>4. ASSUME NEW t \in Attempt, Paired(t) PROVE WaitingOK'
    <2>1. provisioning = NoProvisioning
        BY <1>4, PairingUp DEF IInv, Paired
    <2>2. screen = PairingScreen /\ syncing = "no"
        BY <2>1 DEF WaitingOK, IInv, NotYetPaired
    <2>3. /\ UNCHANGED <<screen, syncing>> /\ provisioning' # NoProvisioning
          /\ ops' = <<>> \/ ops' = <<Draw(provisioning', 0, "nothing")>>
        <3>1. provisioning' # NoProvisioning
            BY <1>4, PairingUp, NotPairedAssumption DEF IInv, Paired
        <3>2. QED
            BY <1>4, <3>1 DEF Paired
    <2>4. QED
        BY <1>2, <2>2, <2>3, FirstDrawing
<1>5. QED
    BY <1>3, <1>4

LEMMA NextWaiting == IInv /\ WaitingOK /\ [ScreenNext]_captureVars => WaitingOK'
<1> SUFFICES ASSUME IInv, WaitingOK, [ScreenNext]_captureVars PROVE WaitingOK'
    OBVIOUS
<1>1. CASE UNCHANGED captureVars \/ (EnrolStep /\ UNCHANGED screenVars)
    <2>1. UNCHANGED <<ops, screen, syncing, faults, provisioning>>
        BY <1>1 DEF captureVars, screenVars, enrolVars, EnrolStep, SignIn, Pick, ForgetLoaded, CreateHub,
                    TapEnrol, Refused, GiveUp, LookForKey, StoreDevice
    <2>2. QED
        BY <2>1, NothingDrawn
<1>2. CASE \/ Shoot \/ NextSack \/ SyncHubs \/ RunSync \/ PassFails
           \/ \E s \in 1 .. MaxShots : HashDone(s) \/ HashFails(s)
           \/ \E q \in pulls : DirectoryAnswers(q) \/ DirectoryUnreachable(q)
    <2>1. /\ UNCHANGED <<ops, screen, provisioning>>
          /\ syncing' = "drawing" <=> syncing = "drawing"
        BY <1>2 DEF Shoot, NextSack, SyncHubs, RunSync, PassFails, HashDone, HashFails,
                    DirectoryAnswers, DirectoryUnreachable, enrolVars
    <2>2. faults' = faults \/ faults' = faults + 1
        BY <1>2 DEF Shoot, NextSack, SyncHubs, RunSync, PassFails, HashDone, HashFails,
                    DirectoryAnswers, DirectoryUnreachable
    <2>3. faults' = 0 => faults = 0
        BY <2>2, ScreenParts
    <2>4. QED
        BY <2>1, <2>3, NothingDrawn
<1>3. QED
    BY <1>1, <1>2, RedrawingWaits, ServingWaits, WeighingWaits, StartingWaits
       DEF ScreenNext, ServeOldest

LEMMA WaitingInvariance == ScreenSpec => []WaitingOK
BY Invariance, InitWaiting, NextWaiting, PTL DEF ScreenSpec

\* The pairing, the screen and what waits keep their types, however the
\* handlers of main.ts interleave.
THEOREM TypeCorrect == ScreenSpec => []ScreenTypeOK
BY Invariance, IInvTypeOK, PTL

\* A phone that saved a pairing is the only device row with its key; the row is
\* the saved collector's on the mobile app, and on the PWA if the selects show
\* what was sent when the answer is handled (RegistryService.enrolDevice,
\* EnrolScreen.tsx, wireProvision).
THEOREM PairedAsEnrolled == ScreenSpec => EnrolledAsSaved
<1> DEFINE Row ==
        provisioning # NoProvisioning =>
            \E d \in devices :
                /\ devices = {d}
                /\ d.id = provisioning.device
                /\ app = "mobile" => d.collector = provisioning.collector
           Saving ==
        \A t \in Attempt :
            SaveProvisioning(t) /\ picked = attempt[t].sent =>
                \A d \in devices : d.collector = provisioning'.collector
<1>1. IInv => Row
    BY DEF IInv, ProvisioningOK, OnlyRow
<1>2. IInv => Saving
    <2> SUFFICES ASSUME IInv, NEW t \in Attempt, SaveProvisioning(t),
                        picked = attempt[t].sent, NEW d \in devices
                 PROVE  d.collector = provisioning'.collector
        OBVIOUS
    <2>1. d.collector = attempt[t].sent.collector
        BY DEF IInv, PairingOK, TapOK, SaveProvisioning
    <2>2. provisioning'.collector = attempt[t].sent.collector
        BY DEF SaveProvisioning, SavedSelection
    <2>3. QED
        BY <2>1, <2>2
<1>3. IInv /\ [ScreenNext]_captureVars => [Saving]_enrolVars
    BY <1>2
<1> HIDE DEF Row, Saving
<1>4. ScreenSpec => []Row /\ [][Saving]_enrolVars
    BY <1>1, <1>3, Invariance, PTL DEF ScreenSpec
<1>5. QED
    BY <1>4 DEF EnrolledAsSaved, Row, Saving

\* The photo stored with a weigh-in is the one whose hash was signed
\* (main.ts, the photo's change handler and commit).
THEOREM RecordsAreWhole == ScreenSpec => []RecordWhole
BY Invariance, PTL DEF IInv, ScreenOK

\* The phone's own hub is always in its list (hubs.ts, mergeHubSnapshot and
\* selectHub).
THEOREM HubIsListed == ScreenSpec => []AssignedHubListed
BY Invariance, PTL DEF IInv, ProvisioningOK

\* Once no drawing waits, and none has failed, the screen shows the hub that
\* will be signed: the last drawing to be served is the last asked for, and it
\* was asked for with the provisioning the phone has (main.ts, render and
\* captureScreen; hubs.ts, selectHub).
THEOREM ScreenFollowsHub == ScreenSpec => []ScreenShowsHub
<1>1. IInv /\ WaitingOK => ScreenShowsHub
    <2> SUFFICES ASSUME IInv, WaitingOK, OnScreen, faults = 0,
                        \A op \in Range(ops) : op.kind = "put"
                 PROVE  screen.hub = provisioning.hub
        BY DEF ScreenShowsHub
    <2>1. provisioning # NoProvisioning
        BY PairedPhone
    <2>2. \A i \in 1 .. Len(ops) : ops[i].kind = "put"
        <3>1. DOMAIN ops = 1 .. Len(ops)
            BY ScreenParts, LenProperties
        <3>2. QED
            BY <3>1 DEF Range
    <2>3. None(ops, "counts") /\ None(ops, "all")
        BY <2>2 DEF None
    <2>4. QED
        BY <2>1, <2>3 DEF WaitingOK, HubDrawn, OnScreen
<1>2. QED
    BY <1>1, Invariance, WaitingInvariance, PTL

\* A sync pass that is over has left its guard to exactly one drawing that
\* still waits, which releases it (main.ts, runSync's finally).
THEOREM GuardComesFree == ScreenSpec => []GuardIsReleased
<1>1. IInv /\ WaitingOK => GuardIsReleased
    <2> SUFFICES ASSUME IInv, WaitingOK PROVE GuardIsReleased
        OBVIOUS
    <2>1. DOMAIN ops = 1 .. Len(ops)
        BY ScreenParts, LenProperties
    <2>2. (\E op \in Range(ops) : op.kind # "put" /\ op.then = "release")
            <=> \E i \in 1 .. Len(ops) : Release(ops[i])
        BY <2>1 DEF Range, Release
    <2>3. QED
        BY <2>2 DEF WaitingOK, GuardHeld, GuardIsReleased
<1>2. QED
    BY <1>1, Invariance, WaitingInvariance, PTL

=============================================================================
