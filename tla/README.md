# ProofChain in TLA+

ProofChain records weigh-ins of collected plastic on phones, groups them into
batches, seals each batch under a Merkle root and anchors the root on the
Stellar ledger, so that a buyer can check that what is sold was collected. This
directory holds TLA+ models of the parts of that chain where the order of steps
matters, the TLC configurations that check them on small instances, and TLAPS
proofs of what matters most for every value of the constants.

`PROJECT.json` maps every definition to the lines of code it models, and lists
the runs, the mutated forms each property must catch, the hazards and the
theorems.

    tlc -config MCBatch.cfg MCBatch.tla        # one run
    tlapm BatchLifecycleProofs.tla             # one module's proofs

## 1. The system

### Components

| component | where | state it keeps | operations |
|---|---|---|---|
| Batches service | `apps/backend/src/batches/batches.service.ts` | rows of `batches` (status, merkleRoot, totals), `collection_events.batchId` | create, addEvents, removeEvent, seal, advanceStatus, recordAnchor, recordAnchorFailure, pendingAnchor, queries |
| Anchor attempts, backoff | `batches/anchor-attempts.service.ts`, `anchor-backoff.ts` | rows of `anchor_attempts` | record, latestByBatch, dueForRetry |
| Anchor worker | `services/anchor-worker` | none: everything is in the cycle under way | poll, anchorOnce: fetch, submit, verify on the ledger, write back or report |
| Event intake | `apps/backend/src/events` | rows of `collection_events` | ingest, list, verify |
| Photos | `apps/backend/src/photos` | files named by digest, `photoUri` of the event | attach, put, serve |
| Mobile app (React Native) | `apps/mobile` | the queue under one AsyncStorage key, a key pair | capture, syncPending, prune, enrol, refresh the catalogue |
| Capture PWA | `apps/capture` | the queue as IndexedDB rows, a key pair, the pairing and hub list, the screen being typed into | pair, weigh, photograph, commit, switch hub, refresh hubs and catalogue, syncPending, prune |
| PWA service worker | `apps/capture/public/sw.js` | the cached page and scripts | install, activate, answer a navigation or an asset |
| Accounts | `apps/backend/src/users`, `auth` | rows of `users` | create, update, resetPassword, changeOwnPassword, login |
| Registry | `apps/backend/src/collectors` | collectors, devices, hubs | create each, enrol and revoke a device, the hub directory |
| Material catalogue | `apps/backend/src/materials` | rows of `materials` | create, update, remove, and the gates on events and batches |
| Ledger verification | `apps/backend/src/ledger` | cache of confirmed anchors, reads in flight | verify, through Horizon |
| Reports, proofs of an event | `apps/backend/src/reports`, `batches.service.ts` | none | buildAuditReport, verifyEvent, ledgerStatus |
| Shared package | `packages/shared` | none | canonical payload, hash, signature, Merkle tree and proofs |
| Contract | `contracts/batch-registry` | Soroban storage and its event stream | initialize, add and remove issuers, register, mark_credited, reads; not called by the rest yet |
| Dashboard | `apps/dashboard` | none of its own | pages: materials, batches, the report a buyer sees |
| Custody | `apps/backend/src/custody` | custody rows | record a transfer |
| Rate limiter | `apps/backend/src/common/rate-limit.guard.ts` | a counter per client | canActivate |
| Configuration, health, seeds | `apps/backend/src/{config,health,database}` | none of their own | start-up, scripts |

### How they interact

    phone queue --POST /events, /events/:id/photo--> intake --rows--> Postgres
    operator --HTTP--> batches service --rows, row locks--> Postgres
    anchor worker --GET pending, POST anchor / failure--> batches service
    anchor worker --submit, read back--> Stellar (Horizon)
    report, proof, status --> Postgres, then verification --> Horizon
    phone <--catalogue, hub directory, enrolment--> backend
    PWA <--page and scripts-- service worker <-- file server

The phones and the anchor worker talk to the backend over connections that time
out while the backend goes on serving; the backend's requests meet in Postgres
(READ COMMITTED, with a few `FOR UPDATE` reads and some unique indexes); the
worker's submissions meet in the sequence number of the Stellar account.

### What is hard, and what must hold

- **Requests that overlap in the database.** Some handlers lock what they
  decide on (seal, addEvents on their batch, the demotion of an admin) and
  some do not (addEvents on the events, advanceStatus, password saves). What
  must hold: a root covers the members, totals are those of the root, nothing
  ineligible gets in, a root is never rewritten, the last admin stays.
- **Late effects of what was given up.** A submission that timed out may land;
  a write-back whose answer was lost may have been stored; a backend call goes
  on when its worker is gone. What must hold: an AnchorRecord names a landed
  transaction with the sealed root, is written once, and fees are not paid
  without reason.
- **Offline queues.** Two sync passes, a capture, pruning at startup and an
  app kill share one store without locks. What must hold: no confirmed weigh-in
  is lost, none is stored twice, and the queue never claims what the backend
  does not have.
- **A screen that waits.** On the capture screen every drawing, commit, hash
  and refresh waits somewhere and goes on with what it read before. What must
  hold: a photo and the hash that is signed agree, the hub shown is the hub
  signed, a weight is neither lost nor inherited (it may be both, section 5), a
  sync pass gives its guard up.
- **Copies that outlive what they were copied from.** A phone's catalogue, its
  hub list, its pairing, its cached pages. What must hold: they come from the
  backend or build they are taken for, and work done with them is still accepted.
- **What the public is told.** A report is put together from several reads; a
  verdict on the ledger may be kept or shared. What must hold: "verified" is
  true, and nothing sound is called broken.
- **What must happen in the end.** A request is answered, a sealed batch gets
  anchored, a weigh-in and its photo arrive, also when the backend refused them for
  a while because it did not know what they refer to.

The hazards, each at its line, are in `PROJECT.json`.

## 2. The modules

| module | models | state and actions |
|---|---|---|
| `BatchRow` | what a batch row promises to the rest of the system (abstract) | `status`, `root`; `Create`, `Seal`, `Advance` |
| `BatchLifecycle` | the batches service, one step per SQL statement | committed rows and `batchOf`; `req` is what each request in progress holds |
| `Anchoring` | anchor worker, backend write-back, network | uses `BatchRow` for the batches; `txs`, `sequence` are the ledger's account |
| `EventIntake` | ingest, photo upload, device revocation in the backend | `rows`, `file`, `photoUri`, `gate` (what the backend knows of what a weigh-in refers to), and the `requests` being served |
| `FieldQueue` | both phone apps over `EventIntake` | `store` is the persisted queue, `pass` the sync passes, `entering` a capture |
| `Enrolment` | pairing, on both apps, and the registry behind it | `attempt` is each tap on "enrol", `devices`, `directory` the backend's rows, `provisioning` what the phone saved |
| `CaptureScreen` | the PWA's capture screen over `Enrolment` | `screen` is the document, `ops` what waits for IndexedDB, `pulls` hub refreshes, `syncing` the guard |
| `Catalogue` | the materials service and the gates that read it | `materials`, the codes used by `events` and `batches`, `req` |
| `CatalogueCopy` | a phone's copy of it, over `Catalogue` | `cache`, `backend`, `fetches`, `selection`, `signed` |
| `ServiceWorker` | sw.js between page, cache and file server | `deployed`, `shell`, `scripts`, `puts`, `load` |
| `MerkleTree` | merkle.ts, over symbolic hashes | operators only |
| `Verification` | reports, event proofs, ledger status, LedgerVerificationService | `sealed`, `anchor`, `ledger`, `ingested`; `inFlight`, `confirmed` are the service's maps; `reader` |
| `BatchRegistry` | the Soroban contract | `admin`, `issuers`, `batches`, `archived`, `published` |
| `Accounts` | users service behind the guard | `users`, `lock`, `req` |
| `BatchLifecycleProofs`, `AnchoringProofs`, `FieldQueueProofs`, `AccountsProofs`, `CaptureProofs`, `BatchRegistryProofs` | proofs about the module each is named after (`CaptureProofs`: `CaptureScreen` and `Enrolment`; `AccountsProofs` also `MCBackend`) | |
| `PhoneCopiesProofs` | proofs about `Catalogue` with `CatalogueCopy`, `ServiceWorker`, and these with `CaptureScreen` in `MCPhone` | |
| `VerificationProofs` | proofs about `Verification`, `MerkleTree`, and `Verification` with `BatchRegistry` in `MCPublic` | |
| `MCBackend` | `Anchoring` and `Accounts` in one run | |
| `MCPhone` | `CatalogueCopy`, `ServiceWorker` and `CaptureScreen` in one run | |
| `MCPublic` | `Verification` and `BatchRegistry` in one run | |
| `MCBatch`, `MCFieldQueue` | instances for TLC | |

`FieldQueue` extends `EventIntake`, `CaptureScreen` extends `Enrolment`,
`CatalogueCopy` extends `Catalogue`, `Verification` extends `MerkleTree`;
`Anchoring` runs beside `BatchRow`, which `BatchLifecycle` implements. `MCBackend`,
`MCPhone` and `MCPublic` each check components that share no step in one run: `part`
says which of them takes the steps. The runs that refute something of one such
component check its module alone.

**`BatchLifecycle`.** A transaction is a request in one of the phases of
`InTransaction`. It locks its batch from its first statement (`Start` is `SELECT
... FOR UPDATE` with the test for "open") to `Finish`; the events it has updated
are `written`, locked until then and invisible to others. addEvents is
`AddEvents`, `SelectCandidates`, `AttachOne` for each row of the UPDATE in any
order, `AttachedAll`, `RecomputeTotals`, `CommitMembers`; removeEvent joins it
after `Detach`; seal is `Seal`, `ReadMembers`, `CommitSeal`; advanceStatus has no
transaction and is `Advance`, `WriteStatus`. `Abort` is a lost connection or a
stopped process at any point. Two requests that wait for each other's rows are
resolved by Postgres (`DeadlockVictim`). A root is the set of its events, as the
code orders the leaves by (capturedAt, id) before hashing.

**`BatchRow`** is the abstract view that the anchoring side relies on;
`KeepsRowPromise` says that `BatchLifecycle` implements it (every root is a
non-empty set of events). It promises what the code keeps, which is less than the
forward-only lifecycle of the service's comment: see `batch_forward`. `Anchoring`
takes `BatchRow!Next` as its environment, so the two compose: what is shown of `Anchoring` holds for the batches service.

**`Anchoring`.** `anchorOnce` is `FetchPending`, then per batch `Submit`,
`SubmitAnswered`, `Verify`, `Report`. `Land` and `Die` are the ledger: a
transaction lands only with the next sequence number of the account. A backend
call is a record in `calls` that goes through its statements (`RecordAnchorRead`,
`RecordAnchorSave`, `RecordFailureRead`, `AttemptCount`, `AttemptInsert`) whether its
worker waits or not. `Timeout`, `WorkerCrash`, `CallCrash`, an unreadable ledger
and a rejected transaction are counted in `faults`. The length of the backoff is
abstracted: a batch that failed is in `backoff` until `FallDue`.

**`EventIntake`** serves requests in steps: `IngestLookup`, `IngestSave` for a
weigh-in, `PhotoOpen` (the file is truncated), `PhotoFill`, `PhotoRow` for a photo.
A weigh-in stands for its payload hash and a photo for its digest. The checks of
`evaluateIntegrity` are reduced to their verdict: `Bad` for those that fail by
their payload, `revoked` for the device that may be revoked meanwhile. What the
backend refuses outright, time and again, has an answer of its own ("refused"): a
weigh-in of `Doubtful` while its `gate` is shut (its schema, device, collector or hub
is unknown, which stays so, or its material is, which `CreateMaterial` may end), and
a photo of `Unfit` (empty, too large, no image, or not the one that was signed).
`CountUses` and `DeleteCode` are MaterialsService.remove as intake sees it: a material
may be deleted before, between or after the steps of a request.

**`FieldQueue`.** `WholeQueue` chooses the store: TRUE is the React Native app,
whose updates read and write the whole queue, FALSE is the PWA with a row per
record. A pass is `StartPass`, `NextRecord`, then per record `UpdateRead`/`UpdateWrite`
(marking it syncing), `Post`, `Answered` or `NoAnswer`, `SendPhoto`, and the final
update; then the second loop over the photos of synced records. A refusal is an
answer like an error: `Answered` queues the weigh-in again, or leaves the photo for
the next pass, and every later pass posts it again. `PruneSynced` and
`Drop` are pruneSynced. `Kill` loses everything but the store.

**`Accounts`.** update is `CallUpdate`, `UpdateLock`, `SelectAdmins`, `LockAdmin`,
`UpdateSave` or `UpdateRefused`. A password handler is `PasswordRead`, then hashing,
then TypeORM's save in its two statements, `SaveDiff` and `SaveWrite`. The guard
reads the account when a request comes in.

**`Enrolment`** lets several taps on "enrol" be under way at once, on either app
(`app`): `TapEnrol`, `LookForKey` and `StoreDevice` (the look-up and the insert
behind the unique index), `Answered`, `Refused`, or `Unheard` and `GiveUp` when the
answer comes late or never. What is saved is what the selects show by then on
the PWA (`SaveProvisioning`) and what was sent on the mobile app
(`SavedSelection`), as the two sources differ.

**`CaptureScreen`.** JavaScript runs a handler without interruption up to an
`await`, so an action is one such stretch. A drawing is an entry of `ops` that holds
what `render` had read (the pairing, the weight it carries over); `Swap` replaces
the document with it. A commit is `Commit`, which queues the record for
IndexedDB, and `Enqueued`, which blanks the weight of the document it knew
(`live`). `Shoot`, `HashDone` and `HashFails` are the photo; `SyncHubs`,
`DirectoryAnswers`, `HubsMerged` a refresh of the hub list, which saves over the
pairing it read; `RunSync`, `Drained` or `PassFails` a pass. `Reload` loses all but
what is stored.

**`Catalogue`.** A request is a kind of work in the phases `asked`, `loaded`,
`selected` (save's own read), and `counted` for a removal. `ours` records whether a
weigh-in was signed with a code this backend had offered, for a property only.

**`CatalogueCopy`.** A refresh remembers the address it asked (`origin`); a copy is
used only if its address is still the phone's (`ReadCache`). `from` is where an
answer truly came from. `Sign` takes a code from the picker, and the weigh-in is
at the gate of ingest any time later (`Submit`).

**`ServiceWorker`.** A build is its page and a script named after its content.
What a fetch stores is stored later, in any order (`puts`). A deployment replaces
page and scripts at once and is never rolled back to an earlier build; the
browser's own HTTP cache and caches left by an earlier version of sw.js are left
out. `load` is the app being opened; `current` says that it had a signal all along
and that nothing was deployed meanwhile.

**`MerkleTree`** has hashes as tagged tuples, which are equal only if what was
hashed is. Levels, root, path and check follow merkle.ts, an odd node being
promoted; `Walk` and `Climb` are the loops of merkleProof and verifyMerkleProof, one
level at a time.

**`Verification`.** A reader is a request for a report, an event's proof or a
status; its reads of the database are separate steps (`Ask`, `ReadEvents`,
`ReadAnchor`) while `World` fills, seals and anchors the batches. A batch is what
was sealed in it and what its events' rows say now. recordAnchor is taken as it
is: it checks no more of a transaction than that no other batch has it. A read of
the ledger is shared by its key, goes through two requests to Horizon, and ends
in `Settle`. `Heading` is what the report page prints.

**`BatchRegistry`.** A call that aborts is no step. An entry may be archived at any
time (`RunsOut`) and a call that needs it aborts until it is restored. Roots and
weights are opaque.

## 3. The runs

| run | instance | what it shows |
|---|---|---|
| `batch_lifecycle` | 2 requests at a time, 2 competing batches, 2 eligible events and 1 ineligible for each of the three reasons | members stay within the root, are eligible, and totals are those of the root; sealed events are not freed; `BatchRow` is implemented, so a root is written once and a batch never becomes open or sealed again; every request ends |
| `sealed_membership` | same | **finding**: a sealed batch can lose a member to an addEvents that read the event before |
| `batch_forward` | same | **finding**: a sold batch can fall back to processed |
| `backend` | anchoring: 1 worker, 2 batches, 2 roots, 5 transactions, 1 fault; accounts: 2 accounts, 2 requests | anchors are confirmed, written once, and not paid for without a reason; a sealed batch gets anchored; an update keeps an admin; deadlocks are resolved |
| `stale_save` | 2 accounts, 2 requests | **finding**: a password reset undoes a promotion, and no admin is left |
| `field_sync` | PWA, 2 overlapping passes, 1 weigh-in, 2 faults | nothing is lost or doubled; the queue's claims are true |
| `field_delivery` | PWA, 1 pass, 2 weigh-ins (one that may be refused outright, one quarantined and with an unfit photo), 2 faults | weigh-ins and photos arrive if the backend comes to know what they refer to and keeps knowing it, however often they were refused before |
| `mobile_lost` | mobile, 2 weigh-ins, no fault | **finding**: a confirmed weigh-in is erased by a sync pass |
| `phone` | catalogue: 2 requests, a code that is managed and one that is compiled in, 1 refresh at a time; service worker: 3 builds; screen: 2 taps, 2 collectors, 3 hubs (2 at first), 2 sacks, 2 photos, 2 waiting requests, 2 refreshes, 1 fault | field work is accepted unless its code was deleted; the picker's codes are this backend's; a new build reaches the phone; a paired phone's key has one row, with the collector the mobile app saved; photo and hash agree; the hub signed is listed and shown; the guard of a pass is released |
| `weight_inherited` | 1 hub, 2 sacks, no fault | **finding**: the weight of a committed sack is on the screen for the next |
| `used_code` | 2 requests, 2 codes | **finding**: a removal deletes a code that a weigh-in came to carry after the count |
| `public_record` | 2 batches, 3 weigh-ins, 2 readers, 2 transactions, 1 restart; 2 addresses, 1 batch id, 6 contract events | "verified" and the ledger's verdicts are true, nothing sound is called broken; the contract's events rebuild its storage and no batch is credited twice |

The findings quote what the repository says and are detailed in `PROJECT.json`.

**Bounds.** Requests come from a fixed set and are reused, so a run of the system
is unbounded in length; only what is in progress at once is bounded. Two at
once are enough for every conflict here, since each is between the rows of one
statement and one other request: two addEvents on two batches for one event, a
seal beside an addEvents or removeEvent, two demotions. Two eligible events let
two addEvents lock them in opposite orders, which is the smallest deadlock.
`MaxTx` = 5 allows both batches to be tried again after a fault and leaves room
(the liveness property would fail if the bound were what stops a batch).
`MaxFaults` counts timeouts, crashes, lost messages and rejections: one fault is
enough to have a submission land late and a write-back repeated, two to lose an
answer and then interrupt the retry. `Create` happens once per batch and a device is
revoked once. `CHECK_DEADLOCK FALSE` is used where the system may stop, because
every record is handed over or the counters are used up.
`field_sync` uses the symmetry of the two passes and checks no liveness;
`field_delivery` checks liveness without symmetry. Its two weigh-ins differ in all
that intake tells apart: `r1` is `Doubtful` (known or unknown at first, its material
added, counted and deleted any number of times, before, between and after its
requests), `r2` fails its checks and has an `Unfit` photo, so each can be refused for
ever while the other must arrive. A weigh-in arrives only if it is `Admitted`: from
some time on its gate is not shut. Without that the property fails, as it should,
since nothing obliges an admin to add a material that is gone.

The screen's part of `phone` is kept small by the constraint `OneThingAtATime` of
`MCPhone`: a weigh-in is explored on a phone whose hub list is settled, changes of
the hub list on a phone that has captured nothing, and both once pairing is over. The three
touch different variables (`photo` and `queue`, `provisioning.hubs`, `attempt`)
except through the drawing, which each of them explores. Two taps are enough for
an answer to overtake another; three hubs, two of them at first, for a
switch beside a list that grows; two entries of `ops` for a drawing
to be overtaken by a commit; two photos for a retake beside a commit.
There are three builds, so that a page can be two deployments old, and
two codes, one that only the catalogue manages and one compiled into the apps.
`public_record` asks about one batch: in the part "reports" one request on three
weigh-ins (the smallest tree with a promoted odd node), of which any may come from
or go to the other batch, and at most one transaction; in the part "verdicts" two
requests at a time, which may share a read, two transactions, one restart, and
two weigh-ins that never change batch. The contract publishes six events: an
initialisation, an issuer added, a registration, a crediting, and the issuer
removed and added again. All symmetry is of taps, collectors, passes or requests
(`PhoneSymmetry`, `PassSymmetry`), in runs that check safety only.

**Fairness.** `BatchLifecycle` and `Accounts` assume that a request whose next
statement can run is served (Node's event loop and Postgres), strongly where it
waits for a row lock, as Postgres queues the waiters of a row. No request is
assumed to come in. `Anchoring` assumes that the worker's poll loop goes on
(`index.ts` loops for ever and catches every error), that the network decides on
a transaction (time bounds), that backoff expires and that the backend serves
what reaches it; faults are not assumed to happen or to stop other than by the
bound. `FieldQueue` assumes that a running sync pass goes on and that one is
started again (the PWA's one-minute timer), and that the backend serves; that a
material is added or deleted is not assumed, and stays a condition of the two
properties (`Admitted`). `MCBackend` conjoins the fairness of its two parts; a part
that stands still satisfies its own, because nothing it is about is enabled at the
start. The
other specifications state no fairness and are checked for safety only: nothing
in the code makes a collector tap again or a buyer ask.

## 4. The proofs

Every proof is for any value of the constants that satisfies the named
assumptions of its modules, and follows one plan: an inductive invariant, one
lemma per action (or group of actions that do the same to it), and the theorem
from these by PTL. The assumptions say what kind of value a constant is; beyond
that, that there are finitely many workers (`WorkerAssumption` of `Anchoring`: the
fees are counted against them), and that there are finitely many events and the
absent batch is not one (`VerificationAssumption`: the leaves of a batch are a list,
ordered by rank).

**`BatchLifecycleProofs`** proves, from `ConstantsAssumption` alone: `TypeOK`;
`MembersWithinRoot` (`SealingIsABarrier`), `OnlyEligible` (`NothingIneligible`) and
`SealedTotals` (`TotalsAreSealed`); the action properties `RootFrozen` and
`SealedEventNotFreed`; and the refinement `KeepsRowPromise`. `RootFrozen` is in no
run of its own, because the refinement, which a run checks, implies it.
The safety properties are not inductive: nothing in them says why the members
that seal read are still the members when it commits. `IInv` adds that: a batch is
locked by one transaction and only while open (`LockedOnceAndOpen`), a batch has
a root exactly when it left "open" (`RootIffSealed`), an event row is written by
one open transaction (`EventLockedOnce`), what a transaction moves is its batch's or
eligible (`MovesAreSound`), what a seal read covers the members until it commits
(`SealReadCovers`; others may only take events away), and a status waits to be
written only over its predecessor or a later one (`AdvanceIsForward`, which the
refinement needs). There is one lemma per action, and under it one step per
conjunct the action can disturb.

**`AccountsProofs`** proves `TypeOK` and `UpdateKeepsAnAdmin` for any accounts and
requests. `RequestOK` says what a request knows at each step: the row an update
has locked is as it read it, and the admins it counted are locked by it and
still active. `Moves` states once what a step of one request may do to the rows
and locks of others, and `OneRequestMoves` that every such step preserves the
others' knowledge, so that each action has only to be shown to be such a move.
`BackendDoesBoth` says that `MCBackend` is a behaviour of `Anchoring` and of `Accounts`,
so that every theorem about either holds of it.

**`AnchoringProofs`** proves `TypeOK`, `AnchorsConfirmed`, `AnchorsFrozen`,
`OneSuccess` and `NoNeedlessFee` for any batches and workers and any number of
transactions and faults. The argument is that nothing a worker or a backend call learned is ever
taken back: a landed transaction stays landed, a written root stays (`BatchRow`),
an AnchorRecord stays. So `CallOK`, what a call knows when it is made (an anchor
call is only made for a landed transaction) and at each of its statements, holds
however late the call is served. `SuccessOnce` adds what `OneSuccess` lacks to be
inductive: a success still to be logged is the only one, and its AnchorRecord is
already there. `NoNeedlessFee` counts what landed, which no step but `Land` changes,
and so says nothing of the worker about to submit. `FeesPaid` keeps books: the
transactions of a batch that landed or still may, and the workers that may still
submit one for it (`Unpaid`: those that hold no live transaction, or, once the
batch is anchored, those that still have it on their list), are together never
more than workers and faults. A submission moves its worker from the one to the
other; a transaction that dies moves it back; a timeout or a crash, which lets a
worker forget a transaction, is a fault. It needs to know that a list holds the
batch's root and not the batch in hand (`RootsListed`, `InHand`), or a submission
would not be the worker's only one.

**`FieldQueueProofs`** proves `TypeOK`, `OneEventPerWeighIn` and `ClaimsAreTrue` for
both apps, any weigh-ins, any number of overlapping passes and any number of
faults, and `NothingLost` for the PWA (`ASSUME ~WholeQueue`; for the mobile app
`mobile_lost` refutes it). `IInv` says what each party knows: an entry, in the
store or in the memory of an update that has read it (`EntryTrue`), a pass about the
record in its hand (`PassTrue`), a request about how far it came (`RequestTrue`). As
rows and photos are never taken back (`NothingTakenBack`, the first lemma of
every step), all of it survives any delay. `OneAwaited` is needed for the answers:
a pass waits for one request at most, so that an answer is about the record in
hand. Materials that are added and deleted disturb none of it (`Operated`).
`NothingLost` then needs one more fact per step, `Kept`: an entry leaves the store only with its photo on the backend.

**`PhoneCopiesProofs`** proves, of the catalogue, `TypeOK`, `OfferedIsOurs` and
`FieldWorkKept` for any codes, requests and refreshes. A code once known stays so
until a removal deletes it, and uses only grow (`Grows`); so what a request, a copy
or a weigh-in learnt of a code when it was made (`WorkOK`, `CacheOK`, `FetchesOK`,
`SignedOK`) bounds what can have become of it. Of the service worker it proves
`ShellTypeOK` and `NewBuildReachesPhone` for any number of deployments and stores in
any order: the file server answers with its page in place of a script only for a
build that was replaced, so nothing stored or still to be stored under the name of
the newest build is a page (`ScriptsOK`, `PutsOK`). `PhoneDoesEach` says that the
composition in `MCPhone` is a behaviour of `CatalogueCopy`, `ServiceWorker` and
`CaptureScreen`, so that every theorem about one of them holds of it.

**`CaptureProofs`** proves `ScreenTypeOK`, `EnrolledAsSaved`, `RecordWhole`,
`AssignedHubListed`, `ScreenShowsHub` and `GuardIsReleased` for any hubs, collectors,
taps, sacks, photos and any depth of what waits. The unique index lets one tap be
answered well, so a phone is paired once (`TapOK`) and its row is the only one with
its key (`OnlyRow`); that the row's collector is the one saved is an action property
of the PWA, whose selects may change while it waits. Whatever a refresh or a drawing
holds is of that pairing (`PullsOK`); photo and hash change in one step, so what a
commit reads of them agrees (`Whole`). The last two properties follow from the
contents of the queue of drawings (`WaitingOK`): the last drawing that waits shows
the hub that is saved, and with none waiting the screen does (`HubDrawn`, while no
drawing has failed); and the guard of a pass is held by exactly one waiting drawing
once the pass is over (`GuardHeld`). Each is shown to survive the three things a step
does to the queue: a drawing joins its end, its head leaves, entries are marked as
overtaken.

**`VerificationProofs`** proves `TypeOK` and `VerdictsAreTrue` for any batches,
events and requests and any length of the ledger. The ledger only grows and a
sealed root never changes, so a kept confirmation stays true (`KeptOK`); a read
sent out once Horizon had a good transaction cannot be denied (`ReadOK`); a read
is cleared when it ends, so a fresh request joins no older one (`AskedOK`,
`Awaited`). `PublicDoesBoth` says that `MCPublic` is a behaviour of `Verification` and
of `BatchRegistry`.

It also proves what merkle.ts promises, for any number of leaves and no run's bound:

- `RootTellsLeaves`: two lists of leaves with the same root are the same list, even
  when their lengths differ. This is where the promotion of a last node matters: a
  promoted leaf must not be taken for a node of its level. The leftmost leaf of every
  node of level k but the last is k below it, and of the last at most k (`Spine`,
  `Even`), so the height of the tree can be read off its root (`RootSpine`), and each
  level determines the one below (`AboveInjective`, `LevelsEven`).
- `LeavesHavePaths`: the path merkleProof makes for a leaf is accepted for that leaf.
  After k levels the path climbs to the node that stands where the walk has got to
  (`OnwardClimbs`, `ClimbAppend`).
- `PathsProveLeaves`: whatever path is presented, of any length and with any hashes in
  it, a leaf hash is accepted only if it is one of the tree's leaves. This rests on the
  prefixes that keep the hashes of leaves and of nodes apart (`NodesComeFromNodes`).

From the first two follow `VerifiedWasSealed` (`VerifiedIsProof`) and `SoundIsNotAlarmed`
(`NoFalseAlarm`). What they need beyond the tree is `RecordInv`: once a batch is
sealed it only loses events, so what a request has read of it lies between what was
sealed and what is still there; a root recomputed from that is the sealed root exactly
when nothing was lost (`RootTellsEvents`). That the leaves are a list at all, in one
order, is `RankInjective`, `Ranks` and `LeavesAre`. The levels, the walk and the climb
are recursive functions; that they are defined (`LevelsExist`, `WalksExist`,
`ClimbsExist`) is shown with `LeastNatural`, as for the stream below.

**`BatchRegistryProofs`** proves `RegistryTypeOK` and `LogRebuildsRegistry` for any
addresses, batches, roots and weights and any length of the event stream. What
the stream makes of the registry is a recursive function, `Replayed`. That it is
defined at all (`ReplaysExist`), and that two streams that agree on their first n
events make the same of them (`ReplaysAgree`), is shown by taking the least length
at which it fails: `LeastNatural`, that a set of naturals has a least member, comes
from the library's theorem that `<` is well founded. With these every call has
only to be shown to publish an event that makes of the old storage the new one.

Every safety and action property that a passing run checks is stated by one of these
theorems (the `MCTypeOK` of `MCBackend` by two, one for each part). Left to TLC is liveness, which needs fairness and ENABLED: `EveryRequestEnds`
(of `BatchLifecycle` and of `Accounts`), `SealedIsAnchored`, `EveryWeighInArrives` and
`EveryPhotoArrives`.

## 5. Disagreements

Six have a run and are findings in `PROJECT.json`: `MembershipFrozen`, `StatusForward`,
`SomeAdmin`, `NothingLost` of the mobile app, `CommittedWeightGone` and
`UsedCodeStays`. The following are stated here only; where a definition is named, it
is in its module under "What the code does not keep", and TLC refutes it.

- A weight typed while a drawing waits for IndexedDB is replaced by the one the
  drawing had read, although the drawing carries the field over so as not to
  "silently eat input mid-shift" (`InputKept` in `CaptureScreen`;
  `capture/src/main.ts:363` against 359-361).
- The PWA reads its selects again after the answer to an enrolment, so it may save
  another collector than the one it enrolled its key for; every weigh-in it signs is
  then quarantined (`CollectorAsEnrolled` in `Enrolment`; `capture/src/main.ts:675-683`).
  The mobile app saves what it sent.
- A create or an edit of a material that read the catalogue before a retirement
  writes over it, and offers the material again (`RetiredComesBack` in `Catalogue`;
  `materials.service.ts:76,106` against 64-72).
- A weigh-in refused with 400 or 422 is queued again and posted in every pass, and a
  photo that attach refuses is sent in every pass, although "retrying will never
  help" (`capture/src/lib/api.ts:190`, `mobile/src/lib/api.ts:71` against the catch at
  `capture/src/lib/api.ts:128`). They hold up nothing else and do arrive if the
  backend comes to know what was missing (`EveryWeighInArrives`,
  `EveryPhotoArrives`); otherwise the collector sees them waiting for ever.
- A batch can be advanced to sold before it is anchored, and is then never offered
  to the worker again (`SoldOnlyAnchored` in `Anchoring`; `batches.service.ts:327`
  against `docs/runbook.md:326`).
- The answer to a quarantined weigh-in lost, its retry is answered as a duplicate and
  shown as synced (`QuarantineIsShown` in `FieldQueue`; `mobile/src/lib/api.ts:179`
  against 133-135).
- Storing a photo again truncates the file its event already points at
  (`PhotoStaysWhole` in `FieldQueue`; `photo-store.ts:72` against 17-19 and 65).
- Asked for a script it no longer has, the file server answers 200 with its page
  (`infra/caddy/Caddyfile`, `try_files`), and the worker stores that under the
  script's name (`AssetIsItself` in `ServiceWorker`; `sw.js:95-97` against 27). An app
  opened from the older cached page without a signal is then broken; opened with
  one it gets the newest page, so `NewBuildReachesPhone` holds. A navigation is stored
  without a test of its status, too (`sw.js:79`).
- A hub switched while the directory is being fetched is switched back, if the list
  has changed: syncHubs saves over the pairing it took before the request
  (`capture/src/main.ts:940,954`, `Snapshot` in `CaptureScreen`). The screen shows the
  old hub again, so `ScreenShowsHub` holds.
- The report page prints "Sealed and internally consistent — not yet anchored
  on-chain" over an open batch as well; its branch "Not sealed" cannot be reached
  (`report/page.tsx:61-67`, 131-142). `Heading` models what it prints.
- An anchor whose transaction has another memo is confirmed by the account's data
  entry alone, although the page tells the buyer to compare the root with that
  transaction's memo (`report/page.tsx:389-391`).
- `horizon.client.ts:86-88` and `ledger-verification.service.ts:154-156` say that a
  later batch overwrites the data entry; `anchor.ts:61` names the entry after its
  batch.
- `rate-limit.guard.ts:54` says "Sliding window"; the window is fixed.

## 6. What is not modelled

- **Custody records**: one append-only insert behind two look-ups; nothing else
  writes or depends on them but the report that lists them.
- **Rate limiting**: one counter per client in one process, updated without an
  `await` in between; nothing to interleave with.
- **Canonical payloads and signatures**: encoding and ed25519 are pure functions
  over strings and bytes. A weigh-in stands for its payload hash, and a signature
  that does not fit is one way of being `Bad` in `EventIntake`.
- **evaluateIntegrity** is reduced to its verdict (`Passes`): its checks are
  conjuncts over the payload, of which only the revocation of the device can
  change under a request.
- **Reports**: totals, CSV and layout. **Dashboard**: the pages that show what the
  API answers and keep nothing; the materials page and the report page are in
  `Catalogue` and `Verification`.
- **Registry**: creating a collector, one insert.
- **Service worker**: icons, the manifest, and caches of an earlier version.
- **Configuration, health, migrations, seeds and scripts**: no state that
  concurrent steps share.
- SHA-256 is taken to be free of collisions, in `MerkleTree` and everywhere a hash
  stands for its content.

What could still be added: an abstract specification of the PWA's queue (a set of
weigh-ins each of which is on the phone or in the backend) with its refinement.
