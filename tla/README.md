# P-Pass, specified in TLA+

P-Pass copies the photos of paired phones to a computer, over a peer-to-peer
network, and keeps them there as plain files in `originals/`. This directory
holds TLA+ modules of its daemon (`crates/daemon`, `crates/core-index`,
`crates/storage`) and of the Android app's backup engine and pairing screen, TLC
configurations that check them on small instances, and TLAPS proofs that hold
for every instance. Paths below are relative to the repository.

A phone forgets a photo on the strength of what the computer answers, so the
questions asked here are: can a receipt be wrong, can a photo be lost, stay
invisible or never be sent, can a phone join that nobody let in, and can one
that was removed still act.

## The system

| Component | State it keeps | Operations | What is hard |
|---|---|---|---|
| Delivery (`daemon/src/flow_delivery.rs`, `storage/src/flow_delivery_repo.rs`) | grant rows in SQLite; a registry of fetch tasks in memory; staging files | `offer`, `status`, `suspend`, `cancel`, `supersede`; a background task per item; expiry | handlers, tasks, sweeps and removal interleave at every await; aborts at any await; restarts |
| Unpair (`daemon/src/unpair.rs`) | none of its own | withdraw the pairing, then release the phone's tasks | requests and fetches already in flight |
| Library (`core-index/src/ingest.rs`, `rebuild.rs`; `daemon/src/reconcile.rs`, `watcher.rs`; `storage/src/asset_repo.rs`) | files in `originals/`, rows of the asset table | ingest, adopt, prune, re-home | the owner edits the same directory; four writers of rows without a common lock |
| Pairing records (`storage/src/device_repo.rs`, `db.rs`, `pairing_vault.rs`; `daemon/src/pairing_store.rs`) | vault (keychain), pairing table, copy in memory | accept, remove, align at start, clear on a new identity | two stores without a common transaction, crashes between them |
| Identity and start (`daemon/src/identity.rs`, `main.rs`, `ipc.rs`) | key in the key store; which process serves | mint, replace; single-instance claim, takeover | order of clearing and minting; a newer daemon taking over a running one |
| Pairing flow (`daemon/src/pairing.rs`, `ipc.rs`, `router.rs`, `pair-pake`; the phone's `transport/PairFlow.kt`) | tokens, a ledger of requests, the owner's queue, a task per request | scan, show, type, confirm, reject, withdraw, poll | one-time tokens, two scans of one phone, deadlines against decisions, lost replies, restarts |
| Supersede (`core-index/src/supersede.rs`, `storage/src/supersede_repo.rs`) | staged originals, aliases, pending swaps | plan, splice, commit, rename, two sweeps, finish at start | a file swap against a row update across a crash |
| Relocation (`daemon/src/relocate.rs`, `library_location.rs`) | a plan file, the place of the library | plan, rename or copy, compare, promote, point, delete, undo | each step may be the last before a restart; two folders the user also uses |
| Phone engine, Android (`backup/flow/FlowEngine.kt`, `backup/order/SqliteOrderStore.kt`) | orders, skip list, two cursors, a dirty mark | rounds: take up, scan, discover, retry, presence; commit an outcome | every read and call suspends and the user's commands run meanwhile; process death |
| Phone engine, iOS; legacy backup, data migration, transport, codecs, events, audit, diagnostics, user interfaces, infrastructure | | | not modelled, see below |

How they meet. A phone joins by the pairing flow, which ends in one call that
writes the pairing record. From then on its requests pass the authorization
check, which reads the copy of the pairings in memory. The phone's engine gives
a photo an order number and offers it; delivery's `offer` and `status` write
grant rows, which hang by foreign key off the pairing table, and spawn fetch
tasks; a task fetches through the transport, checks its row and its
authorization again, and calls `ingest`, which moves the staged file into
`originals/` and inserts a row. The watcher, the hourly pass, supersede and
relocation work on the same files and rows. Removal withdraws the pairing first
(authority, table, memory) and then makes delivery interrupt and wait for the
phone's tasks. The phone learns from the receipt that it is done, and from
presence queries that the computer has lost something.

What makes each correct:

- delivery: a receipt exists only for a photo that the library holds (or that
  the owner took out); completed is final; one fetch per tuple; the registry
  answers for exactly the tasks that live; everything told to stop stops, and
  every waiting handler is answered; polling brings a lost task back;
- unpair: once it has answered, nothing of that pairing reaches the library;
- library: an acknowledged photo stays; a delivery overwrites nothing; a rollback
  should take back only its own file (it may take the adopter's, see below); files without rows get them;
- pairing records: memory follows the authority through every failure; what was
  withdrawn stays out; a late "I am leaving" ends only the pairing it means;
  nothing of an old identity survives;
- pairing flow: a pairing is written only if the owner typed the code of a scan
  of that phone; one QR code joins one phone; a decision the owner was told
  counts, does; every request whose task lives and every waiting phone comes to an
  end;
- supersede: neither the copy nor the original is lost at any cut, and the copy
  is never sent again;
- relocation: the library is whole on one side at any time and is looked for
  where it is whole; what the user had in the new folder stays;
- phone engine: every photo that is left to do is on a way to being sent, is
  written off only if it was looked for in vain, and confirmed only for bytes the
  computer has.

## Modules

| Module | Models | Used by |
|---|---|---|
| `FlowDelivery` | delivery, the part of pairing and removal it depends on, expiry, restart | `MCFlowDelivery`, `FlowDelivery_proofs`, `FlowLedger_proofs` |
| `FlowLedger` | abstract: what delivery promises a phone about an item | refined by `FlowDelivery`, `FlowLedger_proofs` |
| `LibraryIngest` | ingest, adoption, pruning, the watcher, the owner | `MCLibraryIngest`, `LibraryIngest_proofs` |
| `PairingVault` | pairing records, vault, identity, start, takeover | `MCPairingVault`, `PairingVault_proofs` |
| `Invite` | the pairing flow, on the computer and on the phone | `MCInvite`, `Invite_proofs` |
| `Supersede` | replacing a copy by its original | `MCSupersede`, `Supersede_proofs` |
| `Relocate` | moving the library | `MCRelocate`, `Relocate_proofs` |
| `PhoneEngine` | the phone's backup engine | `MCPhoneEngine`, `PhoneEngine_proofs` |
| `*_proofs` | the proofs about the module named | |

The `MC` modules add only symmetry sets and constant values. Operators with an
underscore in their names (`Spawn_Unchecked`, `Reserve_Probes`, ...) are
deliberately broken variants of the operator that follows them, each with the
bug a comment names. No specification uses them; they are what shows that a
property can fail.

In every module a step is the code between two suspensions (an await, a lock, a
call into the disk or another process), and a process has a `pc` named for the
call it is about to make.

### FlowDelivery

Handlers (`rpc`) and tasks (`task`): an offer is `Offer`, `OfferRebind`,
`OfferDurable`, `OfferUpsert`, `OfferMatch` and a task is `Fetch`, `Verify`,
`Export`, `Exported`, `Authorize`, `HashFile`, `Lookup`, `Place`, `Insert`,
`Unstage`, `Complete`/`WriteReceipt`, `TaskExit`. An error of any call is
`TaskFail` or `RpcFail`; the abort that a cancelled token brings to the
`select!` is `TaskAbort`. `grant` is the `flow_delivery` table of the phone's
current pairing, `reg` the registry, `auth` the authorization copy, `writer` the
pairing write lock, `release` a removal in progress.

An ingest may be beaten to its row: once the file is placed, the adopter or the
watcher may index it (`AdoptPlaced`). The insert then fails as a duplicate, the
roll-back removes the file the row names, and the item is completed all the same
(`Insert` at "beaten", `RollBack`); `TaskFail` has both forms too, and a task
abandoned before its insert leaves an orphan for `Adopt`. At "insert" a unique
violation means another task's file, whose roll-back costs nothing.

Data abstracted: a photo is its hash; the library is the set of hashes with row
and file (files are told apart in `LibraryIngest`), the blob store and the
network succeed, deliver, fail or never answer. `released`, `lost`, `undone` and
`torn` are history: what was removed, by the user and by a roll-back, and whether a
half-written file came in. `Overlaps` is a fetch of an item that is being fetched
under another lease: the two share one staging path, and an instance explores it
only with the event "overlap" (see the weak points). The age of a grant is one bit, and it is only reached while no
handler of the item is in flight: the lifetime is three days, a handler's calls
are seconds.

The model allows a little more than the code: a cancelled task may still finish
the call it is in, a roll-back at "beaten" takes the content out of the library
even when the user has deleted the adopted file and another ingest has brought the
photo again, and `status`, `suspend` and `cancel` are accepted without
the authorization check. Safety holds all the more; the liveness properties do
not depend on it. The `supersede` call and the alias branch of
`has_durable_copy` are in `Supersede`.

### LibraryIngest

`file` is the directory, `row` the asset table (the hash is its key, its path is
not). `job` are ingests: of a delivery (`Flows`), whose staged file is private
here, or of a watcher batch, whose file is the owner's. A file is published by a
hard link under the first free name (`Place`); on a volume without links (event
"nolinks") `Reserve` takes the name with an empty file and `Fill` renames onto it
in a later step, whatever lies there by then. `FillFails` is the failing rename.
The reserved file may be seen, hashed and recorded like any other, as content
`Empty`. `prune` is the removal of
rows whose file is gone, by the hourly pass (row by row) or by a watcher (a
listed batch, then the deletions), `scan` the adopter. The owner's actions are
`Delete`, `Edit` and `Move`, at most `MaxEdits` of them; `Eject` takes the
volume away and `Restart` brings the daemon up with it mounted. With the event
"hasty" the owner may also touch a file between its publication and the insert of
its row. The adopter may visit files in any order (the code sorts them), and its
own storage failures are left out, as its next round repeats them.

### PairingVault

`hasVault` says which build it is, with the keychain or with the table as
authority. `vault`, `mirror` (the pairing table) and `proc[x].index` (memory) are
the three copies. `Start` to `Claim` is a daemon's start in the code's order:
load the vault, align the mirror, settle the identity (clear, rows, mark, write,
read back), claim the single instance. `AcceptArrives`/`AcceptRow`/`AcceptVault`/
`AcceptIndex` and `RemoveCheck`/`RemoveVault`/... are the two writes, serialised
by the write guard inside one process (`Busy`). `Leave` is a crash or an exit at
any step. Ids ascend, which stands for random ids that are never drawn twice.

Three pieces are there for takeovers, in which two daemons run for a moment over
the same stores: `proc[x].alone` says that no daemon was started beside `x`,
`born[id]` remembers whether the daemon that made a pairing was alone and under
which key, and `proc[x].knew` which removals were answered before `x` started.
`revoked` is what was withdrawn. The properties except exactly what a second
daemon may leave behind, so one run checks both the ordinary and the takeover
case.

### Invite

`tokens` are the QR codes, `ticket` and `task` the ledger of requests and the
decision task of each, `chan`/`inbox`/`rows` the way from the task to the owner's
queue and back, `phone` the pairing screen. A task asks for a decision
(`Hear`, `Verdict`, `Close`), exchanges codes (`Exchange`), and settles
(`Apply`, `Settle`); the owner `Look`s, `Confirm`s or finds the row gone
(`ConfirmMisses`); the phone submits, polls, checks, confirms and leaves.
The exchange waits for a withdrawal on the receiver that the wait before it has
used (`pairing.rs:882`): if the withdrawal was already taken from it there, the
poll panics and the task is gone (`Exchange`, pc "dead").
`Restart` forgets everything in memory. A code, and the PAKE session begun with
it, is the scan it belongs to; keys agree exactly when both ends used one session
and one code: the cryptography itself is not modelled.

### Supersede

`file`, `staged` and `residue` are the disk; `row`, `alias` and `pending` the
three tables; a content is its own hash, and `Redacted` says which content is a
blanked copy of which. A request is `Plan`, `Copy`, `Splice`, `Commit` (the one
transaction), `Swap` (the rename), `Clear`, with the error path of each; a start
is `Start`, then for each pending swap `FinishRename`, `FinishClear`, then the
two sweeps beside normal service. `Crash` at every step; a process id may come
back. `DirOf` says in whose folder a path lies: a delivery places in its phone's,
and a file the watcher or the adopter takes in gets that phone as its source
(`device_of`, `rebuild.rs:375`), so a copy taken in again can be replaced again.
A row's `way` remembers whether it was sent or found; `lost`, `moved` (what the
owner did to files) and `spoiled` (what a swap wrote over) are history too.

### Relocate

`from`, `to`, `staging` are the three folders by top-level entry, `plan` is
`relocation.json`, `location` the place of the library as the next start reads
it, `job` the daemon in the move. The path by renames is `RenameOne`; the path
by copies is `ClearStaging`, `CopyOne`, `Verify`, `Promote`, `PlaceOne`; both go
on with `Reconcile`, `LastCheck`, `Point`, `MarkFlipped`, `RemoveSource`,
`Finish`. Each has its failing twin, which leads to `UndoOne` or straight to
`Abandon`. A start that finds a promotion unfinished lists the old folder
(`Relist`, `RelistFails`) and deletes what was placed (`ReclaimOne`, `Reclaimed`).
Where the code does not look at an error, the step may fail without a trace:
`UndoSkips` for the deletions of an undo or a reclaim, `Cleanup` and `Reclaimed` for
the staging folder. `Look` decides at a start with a plan what has happened before.
`want` is what the user means the library to hold, `late` the names touched
after the check for them, `holes` the weak points a run has met (below).

### PhoneEngine

`photo` and `scope` are MediaStore and the chosen albums; `orders`, `skips`,
`gcur`, `scan` the phone's store; `job` the running cycle, whose `pc` is the
suspension it is in. A cycle finds its work (`Known`, `Work`), then takes photos
from the sources in the code's order: what an earlier process left in flight
(`PickLegacy`), the scan (`ScanRead`, `Scanned`), discovery past the cursor
(`Discover`), retries (`PickRetry`), presence (`Presence`). One photo is
`LookupFresh`/`LookupOrder`, `ImportFresh`/`ImportOrder` (with `Reinsert`),
`Pull`, and one commit: `Confirmed`, `SourceMissing`, `ItemFailure`, `ImportFailed`,
or `PathFailure`. A write that throws ends the round and the cycle waits (`WriteFails`).
`Surroundings` take, edit, overwrite and delete photos, bring them back from the
trash with the version they had (`Reappear`), change albums, kill the process and make the desktop lose a file; `Commands` are the
user's.

The commands may also fall between two items, where the code's thread would not
yield, which only adds interleavings. Discovery and presence read and act in one
step. A cycle that is cancelled ends where it is suspended, but for one place: while it
asks the desktop to drop its half of an order (`NonCancellable`,
`NativeFlowDeliveryPort.kt:707`) it goes on for seconds, and then inserts the order
for the new bytes. Such a cycle is in `leaving` (`Leave`); it comes back by
`LateInsert` or `LateInsertFails`, and what the user, a trigger or a new loop did
meanwhile lies between. `overtaken` remembers that a loop was started beside one
(`Overtake`). The join over the rest of the drain is one step, and so is a
`resume` while `cancelRemaining` waits itself.

The batch limits (64 and 32) are above the bounds. A trigger from outside arrives when nothing runs; while something runs
they coalesce.

## What is checked

Passing runs (TLC, complete state space):

| Run | Instance | Shows |
|---|---|---|
| `DeliveryRaces` | one photo, 2 leases, 2 receipt ids, 2 handlers, 2 task slots, no vault; status, suspend, cancel, the owner's deletion, adopter, restart | types, the registry, one task per tuple, waits, receipts, no torn photo, the ledger |
| `DeliveryAnswers` | 1 handler, 1 task and a removal, with a vault; expiry, ejection, failing acceptances and removals; fair, a polling phone | a removed phone stays silent; suspend, cancel and removal end though the network never answers; an active grant without a task gets one again |
| `LibraryFlows` | 2 deliveries, 2 paths, 2 contents, 2 edits, failures, no links, ejection, restart; no adopter | acknowledged photos stay until somebody deletes them, no delivery overwrites a file |
| `LibraryConverges` | 1 delivery, 1 watcher batch, the pass and the adopter, 1 edit, hasty owner, failures, with links; fair | no photo stays invisible |
| `PairingCrashes` | 1 phone, 2 daemons, 2 calls, 2 pairings, 2 identities; with and without a vault | memory follows the authority through crashes, failures, a new identity and a takeover |
| `SupersedeCrashes` | 3 contents, each a copy of the next, 2 paths, 2 starts, 1 failure or act of the owner | no cut loses a photo or brings the replaced copy back |
| `InviteRaces` | 2 phones, 2 QR codes, 2 requests, 2 scans, 1 restart | who joins, and what the owner was told |
| `InviteSettles` | 1 phone that scans twice, 1 restart, fair | every request ends or its task has died, and every waiting phone's wait ends |
| `RelocateCrashes` | 3 entries (the marker, photos, a plain file), one or two volumes, 1 step of the user, 2 crashes | nothing lost, the end is one of the two promised outside the weak points, other files untouched, the move ends |
| `PhoneRounds` | 2 photos, 2 events of the surroundings or the user, 1 process death, every initial choice of photos and albums in two sets, fair | the engine overlooks no photo and settles every one |

Two runs find that the code does not do what a comment or a design says (findings
in `PROJECT.json`, with the quotes):

| Run | The code says | TLC finds |
|---|---|---|
| `LibraryRollback` | a duplicate means a concurrent ingest of the content won | the adopter may have indexed this very file; the rollback removes the only copy, and the receipt is still given |
| `PhoneTwo` | only one loop runs, triggers coalesce (`04-case-matrix.md:58`) | a pause cancels a cycle that is inside `discardPartial`; resumed before that returns, the engine starts a second drain beside it, and two orders are in flight |

`TypeOK` is an invariant of the two modules whose proofs rest on it.

**Bounds.** `MaxPairings`, `MaxKeys`, `MaxEdits`, `MaxUpsets`, `MaxStarts`,
`MaxTokens`, `MaxReqs`, `MaxScans`, `MaxCrashes`, `MaxUser`, `MaxEvents` and
`MaxKills` bound how often a phone is paired, an identity minted, the directory
touched, something fails, the daemon started, a code shown, and so on; `Events`
chooses which events an instance explores, so that the interesting ones meet in
a state space TLC can finish.

- Delivery: two handlers and two tasks are enough for every race of a check with
  an act, because the code's locks are per item or global and no step looks at
  more than one other task. Two leases and two receipt ids are a grant and the one
  that replaces it, a receipt and the one an offer repeated after it might draw; the
  two leases are explored one after the other (no event "overlap"). One phone is
  enough for the removal, which waits for the tasks of one; that a successor of a
  removed pairing is told from it, for any number of phones and pairings, is proved.
  Only one release of a phone is in progress at a time.
- Library: two paths and two contents are a file, its copy and its replacement.
  `LibraryConverges` runs with links only: with the reserved names as well its
  liveness graph is beyond five minutes.
- Pairing records: two daemons are a takeover, two calls a race, two pairings an
  old one and its successor, two keys a change of identity. The proofs say the
  rest.
- Invite: one phone with two scans, and two phones with one each, are the two
  ways two requests meet.
- Supersede: three contents are the shortest chain (a copy of a copy); two starts
  are a crash and its recovery, which may crash in turn.
- Relocate: three entries are the three kinds the code treats differently; two
  crashes are one in the move and one in its repair.
- Phone: two photos are one that is passed and one behind it; two events and a
  death reach every suspension with something changed before and behind it.

Symmetry over phones, contents, slots, handlers and paths is used in safety runs
only.

**Deadlock.** `CHECK_DEADLOCK FALSE` is set for `FlowDelivery`, `PairingVault`,
`Invite`, `Supersede` and `Relocate`, whose instances come to an end: of
pairings, identities, scans and starts, or because the move is over.
`LibraryIngest` (the hourly pass always comes) and `PhoneEngine` (a periodic
trigger always comes) are checked for deadlock.

**Fairness.**

- `FlowDelivery!Fairness`: tokio polls every task and handler that was woken,
  SQL and file calls return, and a cancelled token wakes the `select!`. Nothing
  is assumed of the network, the phone or the user: a fetch may never end.
  `PollingSpec` adds what a phone that keeps polling does: infinitely many of its
  polls arrive, and infinitely many get through the database (strong fairness of
  `Status`, `StatusTouch` and `StatusSpawn`).
- `LibraryIngest!FairSpec`: the hourly pass and begun ingests go on, an ejected
  volume comes back, and storage failures stop at some time
  (`StorageRecovers`): with a disk that fails every time nothing can converge.
- `Invite!Fairness`: the tasks and their timers run, and a phone that waits
  polls. Nothing of the owner: the deadline ends what nobody decides. A task that
  died is not owed anything: `SettlesOrDied` says so.
- `Relocate`: the daemon that works goes on (`WF` of `Working`, which contains
  the next start after a crash). Nothing of the user.
- `PhoneEngine!FairSpec`: a cycle that runs goes on choosing and sending, so
  network faults cannot come without end, a cancelled cycle's last call is bounded
  (`Late`: every control call has a timeout), and the periodic trigger comes again
  and again (`SF`, for the system wakes the app when nothing runs).

## What is proved

From the assumptions on the constants alone (the bounds are numbers, `None` is
none of the values, sets that play different parts are disjoint), for every
number of phones, handlers, tasks, daemons, calls, pairings and identities, with
or without a vault; of QR codes, requests, scans and restarts; of paths, photos,
ingests and edits; of replacements and process ids; of entries of a library and
crashes of its move; of photos of a phone, retries, events and process deaths:

| Module | Theorem | States |
|---|---|---|
| `FlowDelivery_proofs` | `TypeCorrect` | `[]TypeOK` |
| | `RegistryIsExact` | `[]RegistryExact`: an entry for each task that has not exited, and only those |
| | `OneTask` | `[]OneTaskPerTuple` |
| | `WaitsAreExact` | `[]WaitsOnItsTask` |
| | `RemovedQuiet` | `[]RemovedPairingIsQuiet` |
| `FlowLedger_proofs` | `CompletedKept` | `[]CompletedHasCopy`, no overlapping leases |
| | `KeptButForTheUser` | a completed item's photo is there unless the user removed it, without the adopter, no overlapping leases |
| | `NothingTorn` | `[]NoPartialPhoto`, no overlapping leases |
| | `LedgerImplemented` | `ImplementsLedger`, that is `Ledger!Spec`, no overlapping leases |
| `PairingVault_proofs` | `TypeCorrect` | `[]TypeOK` |
| | `MemoryFollowsAuthority` | `[]IndexIsAuthority` |
| | `WithdrawnStaysOut` | `[]RevokedStaysOut` |
| | `IdentityEndsPairings` | `[]OldIdentityGone` |
| | `PairingsEndAsMeant` | `EndsAsMeant`, an action property |
| `Invite_proofs` | `OneCodeOnePhone` | `[]OneInviteOnePhone` |
| | `TypedCodesOnly` | `[]CodeWasTyped` |
| | `JoinedMeansRecorded` | `[]JoinedIsRecorded` |
| | `DecisionsCount` | `[]DecidedIsHonoured` |
| | `QueueHoldsTheLast` | `[]RowIsLastRequest` |
| `LibraryIngest_proofs` | `NeverOverwrites` | `NothingOverwritten`, an action property, with a patient owner |
| | `AckedStays` | `[]AckedIsKept`, undisturbed |
| | `LoserSparesTheCopy` | `RollbackSparesTheCopy`, an action property, undisturbed |
| `Relocate_proofs` | `NeverLost` | `[]NothingLost` |
| | `OneOfTwo` | `[]EndsInOneOfTwo`, outside the weak points it names |
| | `OthersStay` | `OthersUntouched`, an action property |
| `PhoneEngine_proofs` | `NeverForgotten` | `[]TodoIsComplete`, until overtaken |
| | `OneAtATime` | `[]OneUntilOvertaken` |
| | `AsRead` | `ConfirmedAsRead`, an action property, if never overtaken |
| | `NotWrittenOff` | `[]NothingWrittenOff`, until overtaken |
| `Supersede_proofs` | `SwapBacked` | `[]SwapIsBacked` |
| | `NothingDropped` | `[]KeptWhole` |
| | `KnownAfterwards` | `[]SupersededIsKnown`, with one phone |
| | `StartsAreWhole` | `StartsWhole`, an action property, with one phone |
| | `SweepSpares` | `SweepLosesNothing`, an action property, with one phone |

**FlowDelivery_proofs.** `TypeOK` is not inductive alone: that an offer writes a
row only for an existing pairing is part of why rows keep their shape, so
`TypeInv` adds `RowsArePaired` (the foreign key). `Registry` is `RegistryExact`
with `WaitsOnItsTask`; a wait stays exact because a task leaves the registry in
the same step that ends it (`TaskExit`, the drop guard). `Inv` is both.

`RemovedPairingIsQuiet` needs two more facts. `IdsAscend`: every pairing id
in use, in memory, in a row or in a task, was handed out, and released ones are
not given again. `RemovedIsDrained`: a task past its checks belongs to a pairing
not yet released, and while a removal drains, the task is among those it waits
for. The argument is the one of the code: `Verify` lets a task pass only if its
row is there, the row goes before the registry is read, so a task is either
seen by the removal or finds its row gone. The lemmas on `SetRow`, `CancelRow`,
`Complete`, `DropRows`, `Spawn`, `TaskExit` and `CancelTokens` are stated once
and cited per action.

**FlowLedger_proofs.** All of these assume `Apart`: no photo is fetched under two
leases at once. An item may have any number of leases and contents, one after the
other. Both phones make the lease from the number of the order (`leaseTokenFor`,
`FlowCore.kt:36` and its Swift twin), so an item of theirs never has two; the
daemon does not ask for that, and without it the theorems are false (see the weak
points). With it, tasks that share a staging
path share a tuple, so by `RegistryExact` they are one task (`OnePath`), and what
it has staged stays its own: `Staging`, "what is staged is whole from the
export's end on, what was hashed was whole, and nothing torn was moved". `Earned`
says who may write a receipt: a task at its receipt, and a handler that found a
durable copy, name a photo that is in the library or was taken out by the user or
by a roll-back,
and no step takes a photo out of both (`CopiesStay`). With `Inv`, `Staging` and
`Earned` every step maps (`NextLedger`): the upsert to `Offer`, the four
cancellations to `Cancel`, the two completions to `Complete` by `Earned`,
whatever drops rows, a restart included, to `Forget`, an insert or adoption to
`Keep`, the user's removal to `Remove`, a roll-back to `TakeBack`, and a rebind, a touch, ageing and all
other steps to stutters. `CompletedKept` then needs only the ledger's steps
(`LedgerCovers`). Without the adopter no task is ever beaten to its row, nothing is
undone, and the user is the only exception left: `KeptButForTheUser`.

**PairingVault_proofs.** The invariants build on one another:

- `Shape`: `TypeOK`, and a call belongs to a daemon that serves (`CallsHome`).
- `Turns`: one daemon serves and one call is past the write guard (`OneServes`,
  `OneCall`); a daemon that is alone is the only one up (`AloneIsOnly`); only
  builds with a vault write to it (`VaultOnly`).
- `Copies`: memory, mirror and vault of an alone daemon agree, except where a
  call stands between two of its writes, with what that call will still do.
- `Withdrawn`: no store, memory or call holds a withdrawn id unless the daemon
  that holds it was there before (`Holding`, `Named`, `OwnIds`, `Fresh`,
  `Cleared`, `Withheld`).
- `Identity`: between the clearing of the pairings and the new key nothing of the
  old is left, and no other daemon starts (`OneStarts`, `Emptied`,
  `AuthorityMine`, `MemoryMine`, `NewestKey`, `Signed`). This is #1109's order.
- `Meaning`: a removal that passed its check still meets the pairing it checked,
  because the write guard kept every other call of its daemon out.

`Copies` alone would not carry `RevokedStaysOut`: that a start reads nothing that
was withdrawn needs the withdrawn ids named in every store, through a takeover as
well; hence `Withdrawn`, which does not assume `alone`.

**Invite_proofs.** A pairing is the end of a chain of ledger entry, channel, task
and screen, and the invariant follows one request along it. `Course` says of each
request what its task, its channel and its ledger entry have in common at every
point: a task exists while the entry is pending (`Worked`); what was sent down
the channel is what the owner was told, and an open channel has carried nothing
(`Heard`); before the close nothing is decided, and a decision the select has not
seen is still in the channel (`Undecided`); after it the code of the exchange is
the one the owner was told (`Decided`); a confirmation is by the request's phone
and passes for that code alone (`Confirmed`); only a passed confirmation is
accepted, and what is accepted is written (`Ending`, `Accepted`). `DecidedIsHonoured`
and `CodeWasTyped` follow. For the phone, `OnItsOwn` keeps its screen on a request
of its own, and `Joined` keeps the code it showed; they carry `JoinedIsRecorded`.
`OneInviteOnePhone` needs that a token in the ledger is spent (`TokenSpent`), also
after a restart has forgotten the entry's state. `RowIsLastRequest` has an invariant
of its own, `QueueInv`: requests are numbered as they come (`InOrder`), what is on
its way to the queue is in order and is all that came after the first of it
(`Arrivals`). So when the queue takes the first in, every older row of its phone
is there to be replaced, and every newer request is still on its way. The theorem
is about requests with an entry of their own: a scan that gets its old request back
adds none, and a newer request may wait in the inbox while the owner looks.

**LibraryIngest_proofs.** `NeverOverwrites` is about the rename that fills a reserved
name steps after the name was found free: it replaces a file only if that is the
empty one the ingest put there (`OwnFile`), because two ingests never hold one name
(`Apart`), a watcher's job never fills one (`InPlace`), and neither pruning, adopter,
volume nor restart writes files. The owner could, so it assumes `Patient`. The other
two carry the hypothesis `Undisturbed`:
neither the watcher nor the adopter runs, and the owner does not touch a file
between its publication and its row. With the adopter the property is false
(`LibraryRollback`), so what is proved, and what `LibraryFlows` checks, is the
races of any number of fetch tasks with each other, with the pass that prunes
rows, with the owner, ejection and restarts. The invariant: only flows ingest
(`OnlyFlows`); a flow that has published a file it may take back holds a file of
its hash, at a path no other flow has published (`OwnFile`, `Apart`); a row,
an acknowledged hash and a hash a flow took for a duplicate have a file that
nobody takes back, or the owner deleted it (`RowsKept`, `AckedKept`,
`KnownKept`, all in terms of `Safe`). The strengthening is `Safe`: "has a file"
alone breaks as soon as the one file is the one a rollback is about to remove.

**Relocate_proofs.** One invariant carries all three. `Control` says at which
steps there is a plan and where the library is looked for. `FromIsWanted`: until
the place is written, the old folder or a renamed entry holds what the user
wants; `Somewhere`: every entry is whole on one side; `WholeThere`, `WholeHere`:
on which, once it is decided. `NotTheirs`, `RenamedOnes`, `NamesFree` tell the
mover's entries in the new folder from the user's: they follow the check for free
names through renames, crashes and undos. `ListedStay`, `Snapped`, `CopyFree`,
`CopyDone` follow the copies up to the last comparison; `CleanThere` and
`CleanStaging` say what an abandoned move leaves. `holes` and `late` are
excepted in the invariant exactly where the properties except them, and `OneOfTwo`
is the last step: a library looked for where it is whole, and no trace of the
move on the other side.

**PhoneEngine_proofs.** `TodoIsComplete` says that no photo left to do is
overlooked. The invariant says why (`AllFound`): it lies ahead of the discovery
cursor, or a dirty scan has not reached it, or an order for it is open, or it is
one that a lost dirty mark cost (`swept`). A cycle suspends between reading
and acting, so four conjuncts say what a reading is still worth afterwards:
`NewItem` (the photo in hand is next after the cursor, and if it has changed
since, the change lies ahead), `ScanItem` and `Batched` (the same for the scan,
unless a mark came meanwhile: `late`), `CountedZero` (a count of zero).
`Clocks` gives them the fact they turn on: a change gives a photo a generation
above every cursor. `RowsAreOld`, `ItemIsRow` and `Flights` tie the
orders to the photo in hand and say that at most one order is transferring, and
where; they carry `OneUntilOvertaken`. A cancelled cycle that has still to insert is
the last that was cancelled, nothing runs, and no order is transferring; so its
late row is the only one, until a loop is started beside it. From there the four
properties are only model-checked (`TodoIsComplete`, `NothingWrittenOff` and
`ConfirmedAsRead` by `PhoneRounds`) or false (`OneInFlight`). Only five steps end an order (`NoEnd`,
`SilentSteps`); for these, what was read is compared with what was sent
(`AsRead`) and a photo is written off only after it was looked for in vain, or if
its next order was lost between closing and opening (`NotWrittenOff`, which adds
`Quietly`: a paused engine has no cycle).

**Supersede_proofs.** Both parts use that blanking is transitive and that no
content is a copy of itself; the code accepts a piece only where the copy holds
zeros (`supersede.rs:175`), so what a copy of a copy blanks, it blanks too.
`KeepInv` is for any number of phones and requests. `Phase`: requests run only
after the pending swaps were gone through; `Originals`: every alias leads from a
copy to an original of it; `StagedMine`: a request that will rename still has
its staged file, and two that would rename one file are both in `spoiled`;
`SwapsSound`: what a pending swap waits for is staged, or already whole;
`AllKept`: an acknowledged photo is held, or backed by a pending swap. Renaming over
a copy is then harmless because the original stands for all that the copy did.

`IndexInv` says where the index points, which is what the last three need. A row,
and a request before its rename, name a path whose file shares a copy with the
content named (`RowNear`, `ReqNear`, in terms of `Near`). That is all a row is
good for while its swap is pending; otherwise its file holds the content, so the
file does or the swap waits (`HoldsOrWaits`). `AllReady`: the row a plan has read
is still there at the transaction, or the splice will refuse what was staged.
`Finishing`: a start that does not fail leaves out no pending swap, and
`StartsWhole` follows with `HoldsOrWaits`. `AliasLive`: an alias leads to a row,
unless a file taken in by the watcher or the adopter has displaced it.
A sweep of copies set aside may hold a stale list of pending swaps; its deletions
are covered because what an alias's row shows is kept through every later swap
(`Shows`, `ShowsStays`).

These facts are why the two properties ask what they ask. `Pristine`: a photo is
only as well kept as the files that share a copy with it, for a row may name one
of them. `TakenIn`: an ingest of the copy between the transaction and the rename
evicts the row of the original, and the phone is told that neither is
known, until the file is taken in again. The row's `way` tells such a row from one
that was sent.

These three assume `OnePhone`, and so one request at a time (`fetch_lock`), which
is also what `SupersedeCrashes` checks. With two phones `StartsWhole` is false
(see the weak points).

The inductive invariants were model-checked before they were proved:
`PairingVault`'s on `PairingCrashes`, also with two phones and one key;
`Invite`'s two on `InviteRaces`; `Staging` and `Earned` on `DeliveryRaces`;
`Relocate`'s on `RelocateCrashes` with three steps of the user;
`PhoneEngine`'s on `PhoneRounds`; `Supersede`'s on `SupersedeCrashes`.

Only model-checked: everything under fairness, which is out of the prover's reach:
`HandlersAnswer`, `RemovalEnds`, `OrphanRespawned`, `IndexConverges`,
`SettlesOrDied`, `WaitsEnd`, `MoveEnds`, `EveryPhotoSettles`. Every invariant and
every other action property that a passing run checks is a theorem, under the
hypotheses named above where there are any.

## Weak points the models know

Each is part of the model, and where a property would fail for it the property
excepts it by name.

Delivery and library:

- An ingest whose file the adopter or the watcher has indexed before its insert
  removes that file and answers duplicate, and the item is completed
  (`ingest.rs:265`): history `undone`, run `LibraryRollback`.
- A poll may spawn a fetch between expiry's check and its cancellation
  (`SweepCheck`, `SweepCancel`).
- Two leases of one item share one staging path (`flow_delivery.rs:1873`): with
  two at once, a half-written photo can enter the library (event "overlap").
  `NoPartialPhoto` is checked with two that follow each other, and proved with any
  number that do.
- A task aborted between place and insert leaves a file that the adopter takes in
  later, after a removal too.
- The adopter and a re-homing evict no other row of their path (`ScanInsert`, and
  `Relocate` of `LibraryIngest`); a pass looks at the path it listed, not at the
  row's by then, and at the library marker once (`PruneStat`, `PruneHere`): if the
  disk is pulled out in the middle, the rest of its rows go. Eviction and insert are
  two statements, so two rows may name one path (`Evict`, `Insert`).

Pairing:

- An acceptance that the vault refuses, or that a crash cuts off, has already
  replaced the mirror row and written the profile (`AcceptRow`, `AcceptUndo`);
  the departure mark comes after the pairing is gone.
- A newer daemon reads the pairings before it claims the instance
  (`main.rs:441`), so a phone removed in that moment stays authorized in it,
  against "from that moment on" (`unpair.rs:11`). The wait for the old process is
  bounded in the code (`ipc.rs:1309`) and not in the model.
- A phone whose first reply was lost and that scans the same QR code again gets
  its old request back, which keeps the exchange message of the first scan, while
  the phone shows a new code: the digits on its screen are refused as wrong
  (`Resubmit`).
- A withdrawal that comes in the moment the code arrives is taken from its channel by
  `await_owner` (`pairing.rs:755`) while the code is still found (`:768`);
  `exchange_code` then polls the same receiver (`:882`), which panics. The decision
  task is gone and the ticket stays pending, against the comment at `:336`, which
  takes every ticket to reach an end. `SettlesOrDied` and `WaitsEnd` except this
  (`Died`): a phone that has scanned again and got its old request back would be told
  "pending" until its own polls run out.

Supersede:

- An owner's edit between the copy into staging and the rename, as late as the
  next start, is replaced with the file (`supersede.rs:172`, `:255`, against the
  doc at line 22).
- Two phones that replace two copies by one original share a staged file
  (`supersede.rs:161`); `spoiled` keeps the account. They share the record of the
  pending swap as well, which is keyed by the new hash: the first one's
  `clear_pending_swap` (`supersede.rs:257`, `supersede_repo.rs:91`) removes the
  second's, and if the process dies before the second's rename, the row of the
  original names the old copy at the next start. It takes a watcher that has
  meanwhile evicted the original's row, for otherwise the second transaction
  finds it in the way. `StartsWhole` is therefore checked and proved with one
  phone.

Relocation (`holes`):

- "pointed": an error after the place was written takes the entries back; if the
  process then dies, the next start takes the move for done and deletes the old
  folder with them (`relocate.rs:853`, against "every final state is one of two"
  at line 25).
- "split": a crash among the renames of one volume, followed by an error that
  gives up without undoing.
- "leftover": `.p-pass-moving` stays behind an early give-up, or because its removal
  failed unnoticed (`relocate.rs:636`, `:712`, `:719`); entries that were promoted
  stay in the new folder when the old one cannot be listed at the next start (`:629`)
  or their deletion fails unnoticed (`:585`).
- A start that finds the promotion unfinished deletes what the user has since put
  under a name of the library; a rename replaces a plain file that came after the
  check; changes in the old folder after the last comparison go with it; and a
  folder that cannot be listed is taken for empty.

Phone:

- A dirty mark (album added, skip list restored) that comes while the count or a
  scan batch is being read is taken back by `finishScan` or `writeScanTo`
  (`FlowEngine.kt:913`): photos are overlooked until the next mark. History
  `swept`.
- Death between the closing of an order whose bytes changed and the insert of the
  new one, or an insert that fails there, as on a full disk, writes the version off
  as gone (`FlowEngine.kt:1220`, `:1225`; the drain catches the error, `:584`).
  History `unopened`. A file rewritten in place, with its version unchanged, while it is
  served ends the same way.
- A photo that was in the trash when its turn came is settled as gone; taken out
  again it has the version it had, and is never sent (`FlowEngine.kt:899`, `:1533`).
  `NothingWrittenOff` and `EveryPhotoSettles` count it as looked for in vain (`unread`).
- `pause`, `stopCycle` and their like wait for a cycle that cannot be cut off, and
  the engine does not: a `resume` (`:313`), or after a stop any trigger (`:516`),
  starts a second loop (`:258`), and two orders are in flight (run `PhoneTwo`,
  history `overtaken`). The late row may hide one of a later version, which is
  counted in `swept`.
- A cancel dialog that was opened before a photo was edited, sent and confirmed
  puts the confirmed photo on the skip list; if the computer then loses it,
  presence sends a photo the user skipped. That skipped photos are not sent is
  therefore no property here.
- An album is saved first and the engine told by a thread
  (`MainActivity.kt:1663`): a death between loses the mark. It is outside the
  model.

## Not modelled

- The legacy backup service, residue and inbox: for old phones, and sweeps of
  directories at start-up.
- The one-time data migrations (`migrate_local.rs`, `data_migration.rs`).
- The iOS engine: the same protocol, a second implementation; its `supersede`
  half is what `Supersede` answers.
- Of the Android engine: photos picked by hand, the replacement of copies without
  location, several volumes, imprecise generations and a rebuilt MediaStore, the
  change of desktop (`claimOwner`), the scheduling of wakes and its budget, the
  audit outbox.
- The cap of `PairFlow.kt` on the number of polls: the phone of the model polls for as
  long as it waits, and ends all the same.
- The garbage collection of partial downloads (`main.rs:838`), which is inside
  the blob store.
- Transport, decoding, thumbnails, metadata, queries, events, presence
  streams, audit, diagnostics, configuration, the platform layer, the user
  interfaces and the infrastructure: reads, I/O or pure functions that change
  none of the state above. They are most of the repository's lines.

## Plan

Done: `FlowDelivery`, `FlowLedger`, `LibraryIngest`, `PairingVault`, `Supersede`,
`Relocate`, `Invite`, `PhoneEngine`; proofs of the safety of all of them, and of
the refinement of `FlowLedger` by `FlowDelivery`.

Next, in this order:

1. Proofs: the watcher beside fetches in `LibraryIngest`; `SupersededIsKnown` and
   `SweepLosesNothing` with several phones.
2. `PhoneEngine` composed with `FlowLedger` as its desktop.
3. The change of desktop and photos picked by hand in `PhoneEngine`; the iOS
   engine.
4. Data migration, which repeats the questions of `Relocate` on other files.
