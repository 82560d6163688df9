---------------------------- MODULE CaptureScreen ----------------------------
(* The capture screen of the PWA (apps/capture/src/main.ts) on a paired     *)
(* phone.  JavaScript runs each handler without interruption up to an       *)
(* await, so one action is one such stretch: a commit, a drawing of the     *)
(* screen, a photo being hashed, a refresh of the hub list and a sync pass  *)
(* all wait somewhere, and go on with what they read before.  The drawing   *)
(* and the commit wait for IndexedDB, which answers in the order it was     *)
(* asked (ops).  Weights and photos are named after the sack or the shot    *)
(* they belong to; 0 is a blank field or no photo.                          *)
EXTENDS Enrolment, SequencesExt

CONSTANTS
    MaxSacks, MaxShots, MaxOps, MaxPulls, MaxFaults   \* bounds

ASSUME CaptureAssumption ==
    /\ MaxSacks \in Nat \ {0} /\ MaxShots \in Nat /\ MaxFaults \in Nat
    /\ MaxOps \in Nat \ {0} /\ MaxPulls \in Nat

VARIABLES
    sack,      \* the sack on the scale (the collector's world, not the app's)
    screen,    \* the document: what it shows, and what is typed into it
    ops,       \* IndexedDB requests waiting, oldest first
    photo, photoHash, busy,   \* the evidence of the weigh-in being captured
    shots,     \* photos taken so far
    hashing,   \* photos whose hashPhoto is under way
    queue,     \* weigh-ins signed and stored
    syncing,   \* syncInFlight, and where the pass is
    pulls,     \* hub directory requests under way
    faults

screenVars == <<sack, screen, ops, photo, photoHash, busy, shots, hashing,
                queue, syncing, pulls, faults>>
captureVars == <<enrolVars, screenVars>>

Sack == 0 .. MaxSacks
Shot == 0 .. MaxShots
Screen == [hub : Hub \cup {NoHub}, choices : SUBSET Hub, weight : Sack]
QueuedWeighIn == [sack : Sack, weight : Sack, photo : Shot, hash : Shot]
Drawing == [kind : {"counts", "all"}, p : Provisioning, carried : Sack,
            then : {"nothing", "sync", "release"}]
Enqueueing == [kind : {"put"}, record : QueuedWeighIn, live : BOOLEAN]
Pull == [p : Provisioning, answer : SUBSET Hub]

ScreenTypeOK ==
    /\ EnrolTypeOK
    /\ sack \in Sack \ {0}
    /\ screen \in Screen
    /\ ops \in Seq(Drawing \cup Enqueueing)
    /\ photo \in Shot /\ photoHash \in Shot /\ busy \in BOOLEAN
    /\ shots \in Shot /\ hashing \subseteq Shot
    /\ queue \subseteq QueuedWeighIn
    /\ syncing \in {"no", "posting", "drawing"}
    /\ pulls \subseteq Pull
    /\ faults \in 0 .. MaxFaults

PairingScreen == [hub |-> NoHub, choices |-> {}, weight |-> 0]

ScreenInit ==
    /\ EnrolInit
    /\ sack = 1 /\ screen = PairingScreen /\ ops = <<>>
    /\ photo = 0 /\ photoHash = 0 /\ busy = FALSE /\ shots = 0 /\ hashing = {}
    /\ queue = {} /\ syncing = "no" /\ pulls = {} /\ faults = 0

-----------------------------------------------------------------------------
(* Drawing the screen.  render carries the weight across the swap, and      *)
(* captureScreen takes the provisioning, before the queue is read.          *)

Draw(p, weight, then) ==
    [kind |-> "counts", p |-> p, carried |-> weight, then |-> then]

\* The swap replaces the document: a commit still waiting keeps the old field.
Detached(s) ==
    [i \in DOMAIN s |-> IF s[i].kind = "put" THEN [s[i] EXCEPT !.live = FALSE] ELSE s[i]]

Room == Len(ops) < MaxOps
OnScreen == screen.hub # NoHub

\* A drawing nothing else waits for: the offline event, a commit refused for
\* want of a weight or a photo or for a weight outside the hub's range.
Repaint ==
    /\ OnScreen /\ Room
    /\ ops' = Append(ops, Draw(provisioning, screen.weight, "nothing"))
    /\ UNCHANGED <<enrolVars, sack, screen, photo, photoHash, busy, shots, hashing,
                   queue, syncing, pulls, faults>>

ServeCounts ==
    /\ ops # <<>> /\ Head(ops).kind = "counts"
    /\ ops' = Append(Tail(ops), [Head(ops) EXCEPT !.kind = "all"])
    /\ UNCHANGED <<enrolVars, sack, screen, photo, photoHash, busy, shots, hashing,
                   queue, syncing, pulls, faults>>

\* What awaits a drawing goes on when it is over: commit starts a sync pass
\* (which a phone without signal skips), a sync pass releases its guard.
AfterDrawing(then) ==
    CASE then = "release" -> syncing' = "no"
      [] then = "sync" /\ syncing = "no" -> syncing' \in {"no", "posting"}
      [] OTHER -> syncing' = syncing

Swap ==
    /\ ops # <<>> /\ Head(ops).kind = "all"
    /\ screen' = [hub |-> Head(ops).p.hub, choices |-> Head(ops).p.hubs,
                  weight |-> Head(ops).carried]
    /\ ops' = Detached(Tail(ops))
    /\ AfterDrawing(Head(ops).then)
    /\ UNCHANGED <<enrolVars, sack, photo, photoHash, busy, shots, hashing, queue,
                   pulls, faults>>

\* Faulty variant: a drawing that fails ends the pass without its finally.
MutDrawFails ==
    /\ faults < MaxFaults
    /\ ops # <<>> /\ Head(ops).kind # "put"
    /\ faults' = faults + 1
    /\ ops' = Tail(ops)
    /\ UNCHANGED <<enrolVars, sack, screen, photo, photoHash, busy, shots, hashing,
                   queue, syncing, pulls>>

\* The queue cannot be read: the screen stays as it is, and says so.
DrawFails ==
    /\ faults < MaxFaults
    /\ ops # <<>> /\ Head(ops).kind # "put"
    /\ faults' = faults + 1
    /\ ops' = Tail(ops)
    /\ AfterDrawing(Head(ops).then)
    /\ UNCHANGED <<enrolVars, sack, screen, photo, photoHash, busy, shots, hashing,
                   queue, pulls>>

-----------------------------------------------------------------------------
(* The weigh-in.                                                            *)

\* The collector types the weight, or a paired scale writes its reading, of a
\* sack that is not queued yet.
WriteWeight ==
    /\ OnScreen /\ screen.weight # sack
    /\ \A r \in queue : r.sack # sack
    /\ screen' = [screen EXCEPT !.weight = sack]
    /\ UNCHANGED <<enrolVars, sack, ops, photo, photoHash, busy, shots, hashing, queue,
                   syncing, pulls, faults>>

\* The button is disabled while a photo is being hashed.
CanShoot == OnScreen /\ ~busy /\ shots < MaxShots

\* Faulty variant: the photo is adopted before it is hashed.
MutShoot ==
    /\ CanShoot
    /\ shots' = shots + 1
    /\ photo' = shots + 1
    /\ busy' = TRUE
    /\ hashing' = hashing \cup {shots + 1}
    /\ UNCHANGED <<enrolVars, sack, screen, ops, photoHash, queue, syncing, pulls,
                   faults>>

\* The camera returns a photo; hashing it takes a while.
Shoot ==
    /\ CanShoot
    /\ shots' = shots + 1
    /\ busy' = TRUE
    /\ hashing' = hashing \cup {shots + 1}
    /\ UNCHANGED <<enrolVars, sack, screen, ops, photo, photoHash, queue, syncing,
                   pulls, faults>>

\* Hash first, adopt second: photo and hash change together.
HashDone(s) ==
    /\ s \in hashing
    /\ hashing' = hashing \ {s}
    /\ photo' = s /\ photoHash' = s /\ busy' = FALSE
    /\ UNCHANGED <<enrolVars, sack, screen, ops, shots, queue, syncing, pulls, faults>>

HashFails(s) ==
    /\ faults < MaxFaults
    /\ s \in hashing
    /\ faults' = faults + 1
    /\ hashing' = hashing \ {s}
    /\ busy' = FALSE
    /\ UNCHANGED <<enrolVars, sack, screen, ops, photo, photoHash, shots, queue,
                   syncing, pulls>>

\* commit builds and signs the record and hands it to the queue.  Nothing
\* keeps a second tap out while the first waits.
Commit ==
    /\ OnScreen /\ Room
    /\ screen.weight # 0 /\ photoHash # 0
    /\ ops' = Append(ops, [kind |-> "put", live |-> TRUE,
                 record |-> [sack |-> sack, weight |-> screen.weight, photo |-> photo,
                             hash |-> photoHash]])
    /\ UNCHANGED <<enrolVars, sack, screen, photo, photoHash, busy, shots, hashing,
                   queue, syncing, pulls, faults>>

\* enqueue is answered: commit clears the evidence and the weight field it
\* read, draws the screen and then syncs.
Enqueued ==
    /\ ops # <<>> /\ Head(ops).kind = "put"
    /\ LET op == Head(ops)
           weight == IF op.live THEN 0 ELSE screen.weight
       IN /\ queue' = queue \cup {op.record}
          /\ screen' = [screen EXCEPT !.weight = weight]
          /\ ops' = Append(Tail(ops), Draw(provisioning, weight, "sync"))
    /\ photo' = 0 /\ photoHash' = 0 /\ busy' = FALSE
    /\ UNCHANGED <<enrolVars, sack, shots, hashing, syncing, pulls, faults>>

\* enqueue fails: commit ends there, and the evidence stays on the screen.
StoreFails ==
    /\ faults < MaxFaults
    /\ ops # <<>> /\ Head(ops).kind = "put"
    /\ faults' = faults + 1
    /\ ops' = Tail(ops)
    /\ UNCHANGED <<enrolVars, sack, screen, photo, photoHash, busy, shots, hashing,
                   queue, syncing, pulls>>

NextSack ==
    /\ sack < MaxSacks
    /\ \E r \in queue : r.sack = sack
    /\ sack' = sack + 1
    /\ UNCHANGED <<enrolVars, screen, ops, photo, photoHash, busy, shots, hashing,
                   queue, syncing, pulls, faults>>

-----------------------------------------------------------------------------
(* The hub.                                                                 *)

\* selectHub looks the hub up in the saved list, not in the options on screen.
Selected(h) ==
    IF h \in provisioning.hubs THEN [provisioning EXCEPT !.hub = h] ELSE provisioning

\* The select is changed.
SwitchHub ==
    /\ OnScreen /\ Room
    /\ \E h \in screen.choices \ {screen.hub} :
         LET p == Selected(h)
         IN /\ provisioning' = p
            /\ screen' = [screen EXCEPT !.hub = h]
            /\ ops' = Append(ops, Draw(p, screen.weight, "nothing"))
    /\ UNCHANGED <<app, directory, devices, loaded, picked, attempt, sack, photo,
                   photoHash, busy, shots, hashing, queue, syncing, pulls, faults>>

\* Faulty variant: a phone that is not paired asks too.
MutSyncHubs ==
    /\ app = "pwa" /\ Cardinality(pulls) < MaxPulls
    /\ pulls' = pulls \cup {[p |-> provisioning, answer |-> {}]}
    /\ UNCHANGED <<enrolVars, sack, screen, ops, photo, photoHash, busy, shots,
                   hashing, queue, syncing, faults>>

\* syncHubs takes the provisioning, and asks for the directory.
SyncHubs ==
    /\ app = "pwa" /\ provisioning # NoProvisioning /\ Cardinality(pulls) < MaxPulls
    /\ pulls' = pulls \cup {[p |-> provisioning, answer |-> {}]}
    /\ UNCHANGED <<enrolVars, sack, screen, ops, photo, photoHash, busy, shots,
                   hashing, queue, syncing, faults>>

DirectoryAnswers(q) ==
    /\ q \in pulls /\ q.answer = {}
    /\ pulls' = (pulls \ {q}) \cup {[q EXCEPT !.answer = directory]}
    /\ UNCHANGED <<enrolVars, sack, screen, ops, photo, photoHash, busy, shots,
                   hashing, queue, syncing, faults>>

\* hubChoices: the list, with the hub the phone is assigned to.
Merged(list, p) == list \cup {p.hub}

\* mergeHubSnapshot: the provisioning taken before the request, with the merged
\* list.
Snapshot(q) == [q.p EXCEPT !.hubs = Merged(q.answer, q.p)]

\* Faulty variant: only the list is taken from the refresh, so that a switch
\* made meanwhile stays.
MutHubsMergedList(q) ==
    /\ q \in pulls /\ q.answer # {} /\ Room
    /\ pulls' = pulls \ {q}
    /\ LET p == [provisioning EXCEPT !.hubs = Merged(q.answer, q.p)]
       IN /\ provisioning' = p
          /\ ops' = Append(ops, Draw(p, screen.weight, "nothing"))
    /\ UNCHANGED <<app, directory, devices, loaded, picked, attempt, sack, screen,
                   photo, photoHash, busy, shots, hashing, queue, syncing, faults>>

\* Faulty variant: the merged list is saved and the screen left alone.
MutHubsMergedSilently(q) ==
    /\ q \in pulls /\ q.answer # {}
    /\ pulls' = pulls \ {q}
    /\ provisioning' = Snapshot(q)
    /\ UNCHANGED <<app, directory, devices, loaded, picked, attempt, sack, screen, ops,
                   photo, photoHash, busy, shots, hashing, queue, syncing, faults>>

\* The answer's snapshot is saved when it changed the list.
HubsMerged(q) ==
    /\ q \in pulls /\ q.answer # {} /\ Room
    /\ pulls' = pulls \ {q}
    /\ LET p == Snapshot(q)
       IN IF p = q.p THEN UNCHANGED <<provisioning, ops>>
          ELSE /\ provisioning' = p
               /\ ops' = Append(ops, Draw(p, screen.weight, "nothing"))
    /\ UNCHANGED <<app, directory, devices, loaded, picked, attempt, sack, screen,
                   photo, photoHash, busy, shots, hashing, queue, syncing, faults>>

DirectoryUnreachable(q) ==
    /\ q \in pulls
    /\ pulls' = pulls \ {q}
    /\ UNCHANGED <<enrolVars, sack, screen, ops, photo, photoHash, busy, shots,
                   hashing, queue, syncing, faults>>

-----------------------------------------------------------------------------
(* Syncing, pairing, and the page being loaded again.                       *)

\* The button, the 60 s timer or the online event; one pass at a time.
RunSync ==
    /\ OnScreen /\ syncing = "no"
    /\ syncing' = "posting"
    /\ UNCHANGED <<enrolVars, sack, screen, ops, photo, photoHash, busy, shots,
                   hashing, queue, pulls, faults>>

\* The queue cannot be read or written: syncPending throws, and the pass ends
\* without a drawing, in the finally of runSync.
PassFails ==
    /\ syncing = "posting" /\ faults < MaxFaults
    /\ faults' = faults + 1
    /\ syncing' = "no"
    /\ UNCHANGED <<enrolVars, sack, screen, ops, photo, photoHash, busy, shots,
                   hashing, queue, pulls>>

\* drainQueue: syncPending is through, whatever became of its requests; the pass
\* ends with a drawing.
Drained ==
    /\ syncing = "posting"
    /\ syncing' = "drawing"
    /\ ops' = Append(ops, Draw(provisioning, screen.weight, "release"))
    /\ UNCHANGED <<enrolVars, sack, screen, photo, photoHash, busy, shots, hashing,
                   queue, pulls, faults>>

Paired(t) ==
    /\ SaveProvisioning(t)
    /\ ops' = IF app = "pwa" THEN <<Draw(provisioning', 0, "nothing")>> ELSE <<>>
    /\ UNCHANGED <<sack, screen, photo, photoHash, busy, shots, hashing, queue,
                   syncing, pulls, faults>>

\* The page is loaded again: only what is stored survives; a record handed to
\* IndexedDB may still be written.
Reload ==
    /\ faults < MaxFaults
    /\ faults' = faults + 1
    /\ screen' = PairingScreen
    /\ ops' = IF provisioning # NoProvisioning /\ app = "pwa"
              THEN <<Draw(provisioning, 0, "nothing")>> ELSE <<>>
    /\ \E n \in 0 .. Len(ops) :
         queue' = queue \cup {ops[i].record : i \in {j \in 1 .. n : ops[j].kind = "put"}}
    /\ photo' = 0 /\ photoHash' = 0 /\ busy' = FALSE /\ hashing' = {}
    /\ syncing' = "no" /\ pulls' = {}
    /\ loaded' = {} /\ picked' = NoSelection
    /\ attempt' = [t \in Attempt |-> IF attempt[t].waits THEN Unheard(t)[t] ELSE attempt[t]]
    /\ UNCHANGED <<app, directory, devices, provisioning, sack, shots>>

ServeOldest == ServeCounts \/ Swap \/ Enqueued

ScreenNext ==
    \/ EnrolStep /\ UNCHANGED screenVars
    \/ \E t \in Attempt : Paired(t)
    \/ ServeOldest \/ DrawFails \/ StoreFails \/ Repaint
    \/ WriteWeight \/ Shoot \/ Commit \/ NextSack
    \/ \E s \in 1 .. MaxShots : HashDone(s) \/ HashFails(s)
    \/ SwitchHub \/ SyncHubs
    \/ \E q \in pulls : DirectoryAnswers(q) \/ HubsMerged(q) \/ DirectoryUnreachable(q)
    \/ RunSync \/ Drained \/ PassFails \/ Reload

ScreenSpec == ScreenInit /\ [][ScreenNext]_captureVars

-----------------------------------------------------------------------------
\* The photo stored with a weigh-in is the one whose hash was signed, also
\* when a retake ends while a commit waits (main.ts:749-778, 805-864: "they
\* may never disagree").
RecordWhole ==
    /\ photo = photoHash
    /\ \A r \in queue : r.photo = r.hash /\ r.hash # 0

\* The phone's own hub is always in its list, although list and hub come
\* from refreshes and switches that overtake each other (main.ts:930-962,
\* hubs.ts:71-95, 119-133): a hub not listed could be neither shown nor
\* chosen back.
AssignedHubListed == provisioning # NoProvisioning => provisioning.hub \in provisioning.hubs

\* Once no drawing waits, and none has failed, the screen shows the hub that
\* will be signed, whatever order switches and refreshes came in
\* (hubs.ts:61-64: "the label on screen always describes the hub id").
ScreenShowsHub ==
    OnScreen /\ faults = 0 /\ (\A op \in Range(ops) : op.kind = "put")
        => screen.hub = provisioning.hub

\* A sync pass that is over leaves its guard to a drawing still waiting, which
\* releases it whether or not it succeeds (main.ts:883-908): otherwise the
\* phone would never sync again.
GuardIsReleased ==
    syncing = "drawing" <=>
        \E op \in Range(ops) : op.kind # "put" /\ op.then = "release"

\* What the code does not keep.  "Re-rendering replaces the whole subtree, which
\* would discard a weight the collector is part-way through typing ... Carry the
\* field across the swap" (main.ts:359-361): a weight typed while a drawing waits
\* for the queue is discarded by its swap, which carries the older text.
InputKept == [][Swap /\ screen.weight # 0 => screen'.weight = screen.weight]_captureVars

\* What the code does not keep.  "a committed weigh-in must blank it or the next one inherits it"
\* (main.ts:865-867): with nothing waiting, the field never holds the weight
\* of a sack already queued.
CommittedWeightGone ==
    OnScreen /\ ops = <<>> /\ screen.weight # 0
        => \A r \in queue : r.sack < sack => r.weight # screen.weight
=============================================================================
