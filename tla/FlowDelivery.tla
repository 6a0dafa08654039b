---------------------------- MODULE FlowDelivery ----------------------------
(***************************************************************************)
(* The desktop side of a backup: one photo at a time is offered by a       *)
(* phone, fetched in the background, materialised into the photo library   *)
(* and acknowledged by a durable receipt.                                  *)
(*                                                                         *)
(* Translated from crates/daemon/src/flow_delivery.rs and the SQL of       *)
(* crates/storage/src/flow_delivery_repo.rs, with the part of pairing that *)
(* delivery depends on (device_repo.rs, unpair.rs).                        *)
(*                                                                         *)
(* Simplifications                                                         *)
(*  - A step is the code between two awaits: every SQL statement and every *)
(*    blocking file operation is one action, everything else interleaves.  *)
(*  - A photo is its content hash.  "library" is the set of contents that  *)
(*    has_durable_copy finds: an index row whose file exists.              *)
(*  - Files of one library are told apart in module LibraryIngest; here    *)
(*    fetch tasks, the adopter (or the watcher) and the user write to it,  *)
(*    and a content leaves the index when its file goes.                   *)
(*  - Blob store, network and free space only ever succeed or fail.        *)
(***************************************************************************)
EXTENDS Naturals, FiniteSets

CONSTANTS
    Phones,       (* control-plane NodeIds                                  *)
    Seqs,         (* queue sequences; a shipped phone uses its order id     *)
    Leases,       (* lease tokens                                           *)
    Hashes,       (* content hashes                                         *)
    Receipts,     (* receipt ids getrandom may return                       *)
    Rpcs,         (* RPC handlers that may be in flight at once             *)
    Slots,        (* fetch tasks that may be alive at once                  *)
    MaxPairings,  (* bound on the pairing records ever accepted             *)
    Vault,        (* TRUE where the pairing vault (macOS) is the authority  *)
    Events,       (* bound: the events an instance explores, of EventNames  *)
    None

EventNames == {"unpair", "status", "suspend", "cancel", "expire", "eject",
               "delete", "adopt", "restart", "overlap"}

ASSUME DeliveryAssumption ==
    /\ Events \subseteq EventNames
    /\ MaxPairings \in Nat
    /\ Vault \in BOOLEAN
    /\ None \notin Phones \cup Seqs \cup Leases \cup Hashes \cup Receipts \cup Slots

VARIABLES
    auth,         (* active_pairing: the in-memory authorization index      *)
    mirror,       (* the pairing table; grants hang off its rows            *)
    lastPairing,  (* number of pairing ids handed out so far                *)
    writer,       (* holder of pairing_write_guard                          *)
    release,      (* unpair::release in progress, per phone                 *)
    released,     (* history: pairings whose removal has been completed     *)
    grant,        (* flow_delivery rows of the phone's current pairing      *)
    task,         (* background fetch tasks                                 *)
    reg,          (* FlowTaskRegistry.entries                               *)
    staged,       (* files under .ppf/flow-staging                          *)
    library,      (* contents with an index row and a file                  *)
    orphans,      (* files in originals/ that have no index row             *)
    lost,         (* history: contents the user removed from the library    *)
    undone,       (* history: contents a task's roll-back removed from it   *)
    torn,         (* history: a half-written staging file was ingested      *)
    rpc,          (* RPC handlers                                           *)
    sweep         (* expire_stale_grants in progress                        *)

pairingVars == <<auth, mirror, lastPairing, writer, release, released>>
taskVars    == <<task, reg>>
libraryVars == <<staged, library, orphans, lost, undone, torn>>
vars == <<pairingVars, grant, taskVars, libraryVars, rpc, sweep>>

-----------------------------------------------------------------------------
(* What a request, a grant row, a task and a handler look like.            *)

PairingIds == 1..MaxPairings

Item == [phone: Phones, pairing: PairingIds, seq: Seqs, lease: Leases,
         hash: Hashes]

(* A row is completed exactly when it holds a receipt.                     *)
GrantRow ==
    {row \in [state: {"active", "cancelled", "completed"}, lease: Leases,
              hash: Hashes, receipt: Receipts \cup {None}, stale: BOOLEAN] :
       row.state = "completed" <=> row.receipt # None}

NoGrant == [state |-> "none", lease |-> None, hash |-> None,
            receipt |-> None, stale |-> FALSE]

(* Where a task stands.  AbortPcs are its awaits: only there can select!   *)
(* see the cancelled token.  "beaten" is "insert" once somebody else has   *)
(* given the placed file a row.                                            *)
AbortPcs == {"fetch", "verify", "exporting", "authorize", "drop", "lookup",
             "insert", "beaten", "receipt"}
TaskPcs  == AbortPcs \cup {"export", "hash", "place", "exit"}

TaskRec == [pc: TaskPcs, item: Item, cancel: BOOLEAN, whole: BOOLEAN]
NoTask  == [pc |-> "none", item |-> None, cancel |-> FALSE, whole |-> FALSE]

StagedFile == [by: Slots, whole: BOOLEAN]
NoFile     == [by |-> None, whole |-> FALSE]

RpcPcs == {"rebind", "durable", "upsert", "match", "complete", "touch",
           "spawn", "cancel", "interrupt", "await"}

RpcRec == [op: {"offer", "status", "suspend", "cancel"}, pc: RpcPcs,
           item: Item, durable: BOOLEAN, wait: Slots \cup {None}]
NoRpc  == [op |-> "none", pc |-> "none", item |-> None, durable |-> FALSE,
           wait |-> None]

Keys == Phones \X Seqs \X Leases
Key(i) == <<i.phone, i.seq, i.lease>>

(* The staging file name carries neither pairing nor lease.                *)
Paths == Phones \X Seqs \X Hashes
StagedPath(i) == <<i.phone, i.seq, i.hash>>

-----------------------------------------------------------------------------
(* Guards the SQL statements share.                                        *)

Row(i) == grant[i.phone][i.seq]

Stored(i) == mirror[i.phone] = i.pairing /\ Row(i).state # "none"

Matches(i) == Stored(i) /\ Row(i).lease = i.lease /\ Row(i).hash = i.hash

ExactActive(i) == Matches(i) /\ Row(i).state = "active"

SetRow(i, row) == grant' = [grant EXCEPT ![i.phone][i.seq] = row]

CancelRow(i) == SetRow(i, [Row(i) EXCEPT !.state = "cancelled"])

Running(i) == reg[Key(i)] # None

Live(s) == task[s] # NoTask

-----------------------------------------------------------------------------
Init ==
    /\ auth = [p \in Phones |-> 0]
    /\ mirror = [p \in Phones |-> 0]
    /\ lastPairing = 0
    /\ writer = None
    /\ release = [p \in Phones |-> [pc |-> "idle", id |-> 0, wait |-> {}]]
    /\ released = {}
    /\ grant = [p \in Phones |-> [s \in Seqs |-> NoGrant]]
    /\ task = [s \in Slots |-> NoTask]
    /\ reg = [k \in Keys |-> None]
    /\ staged = [f \in Paths |-> NoFile]
    /\ library = {}
    /\ orphans = {}
    /\ lost = {}
    /\ undone = {}
    /\ torn = FALSE
    /\ rpc = [r \in Rpcs |-> NoRpc]
    /\ sweep = [list |-> {}, target |-> None]

-----------------------------------------------------------------------------
(* Pairing.  A removal first takes the authorization away and then the     *)
(* rows (vault), or the other way round (no vault); an accepted pairing    *)
(* replaces the rows before it is authorized.                              *)

DropRows(p) == grant' = [grant EXCEPT ![p] = [s \in Seqs |-> NoGrant]]

AcceptBegin(p) ==
    /\ writer = None
    /\ lastPairing < MaxPairings
    /\ lastPairing' = lastPairing + 1
    /\ mirror' = [mirror EXCEPT ![p] = lastPairing + 1]
    /\ DropRows(p)
    /\ writer' = [op |-> "accept", phone |-> p]
    /\ UNCHANGED <<auth, release, released, taskVars, libraryVars, rpc, sweep>>

AcceptEnd ==
    /\ writer # None /\ writer.op = "accept"
    /\ auth' = [auth EXCEPT ![writer.phone] = mirror[writer.phone]]
    /\ writer' = None
    /\ UNCHANGED <<mirror, lastPairing, release, released, grant, taskVars,
                   libraryVars, rpc, sweep>>

(* The vault refused the record: the mirror row just written is removed.   *)
AcceptFail ==
    /\ Vault
    /\ writer # None /\ writer.op = "accept"
    /\ mirror' = [mirror EXCEPT ![writer.phone] = 0]
    /\ DropRows(writer.phone)
    /\ writer' = None
    /\ UNCHANGED <<auth, lastPairing, release, released, taskVars,
                   libraryVars, rpc, sweep>>

RemoveBegin(p) ==
    /\ "unpair" \in Events
    /\ writer = None
    /\ auth[p] # 0
    /\ release[p].pc = "idle"          \* bound: one release per phone at a time
    /\ Vault \/ mirror[p] # 0
    /\ release' = [release EXCEPT ![p].id = auth[p]]
    /\ IF Vault
         THEN /\ auth' = [auth EXCEPT ![p] = 0]
              /\ UNCHANGED <<mirror, grant>>
         ELSE /\ mirror' = [mirror EXCEPT ![p] = 0]
              /\ DropRows(p)
              /\ UNCHANGED auth
    /\ writer' = [op |-> "remove", phone |-> p]
    /\ UNCHANGED <<lastPairing, released, taskVars, libraryVars, rpc, sweep>>

RemoveEnd ==
    /\ writer # None /\ writer.op = "remove"
    /\ auth' = [auth EXCEPT ![writer.phone] = 0]
    /\ mirror' = [mirror EXCEPT ![writer.phone] = 0]
    /\ DropRows(writer.phone)
    /\ release' = [release EXCEPT ![writer.phone].pc = "interrupt"]
    /\ writer' = None
    /\ UNCHANGED <<lastPairing, released, taskVars, libraryVars, rpc, sweep>>

(* The vault has forgotten the pairing, but its row could not be deleted:  *)
(* the caller gets the error, and release is never reached.                *)
RemoveFail ==
    /\ Vault
    /\ writer # None /\ writer.op = "remove"
    /\ release' = [release EXCEPT ![writer.phone].id = 0]
    /\ writer' = None
    /\ UNCHANGED <<auth, mirror, lastPairing, released, grant, taskVars,
                   libraryVars, rpc, sweep>>

(* release_peer: interrupt_peer, then wait for every interrupted task.     *)
Registered(s) == Live(s) /\ reg[Key(task[s].item)] = s

InterruptedBy(p) == {s \in Slots : Registered(s) /\ task[s].item.phone = p}

(* mutant: an interrupted task is never told *)
CancelTokens_Nothing(S) == UNCHANGED task

CancelTokens(S) == task' = [s \in Slots |-> IF s \in S
                                             THEN [task[s] EXCEPT !.cancel = TRUE]
                                             ELSE task[s]]

ReleaseInterrupt(p) ==
    /\ release[p].pc = "interrupt"
    /\ release' = [release EXCEPT ![p].pc = "drain",
                                  ![p].wait = InterruptedBy(p)]
    /\ CancelTokens(InterruptedBy(p))
    /\ UNCHANGED <<auth, mirror, lastPairing, writer, released, grant, reg,
                   libraryVars, rpc, sweep>>

(* mutant: the removal is answered before its tasks end *)
ReleaseDone_NoWait(p) ==
    /\ release[p].pc = "drain"
    /\ released' = released \cup {<<p, release[p].id>>}
    /\ release' = [release EXCEPT ![p] = [pc |-> "idle", id |-> 0, wait |-> {}]]
    /\ UNCHANGED <<auth, mirror, lastPairing, writer, grant, taskVars,
                   libraryVars, rpc, sweep>>

ReleaseDone(p) ==
    /\ release[p].pc = "drain"
    /\ release[p].wait = {}
    /\ released' = released \cup {<<p, release[p].id>>}
    /\ release' = [release EXCEPT ![p] = [pc |-> "idle", id |-> 0, wait |-> {}]]
    /\ UNCHANGED <<auth, mirror, lastPairing, writer, grant, taskVars,
                   libraryVars, rpc, sweep>>

-----------------------------------------------------------------------------
(* The fetch task.  spawn_fetch_task registers the tuple only if no task   *)
(* holds it; TaskExit, dropped on every way out, is the only remover.      *)

(* mutant: the registry is not asked before a spawn *)
Spawn_Unchecked(i) ==
    \E s \in Slots :
      /\ ~Live(s)
      /\ reg' = [reg EXCEPT ![Key(i)] = s]
      /\ task' = [task EXCEPT ![s] = [pc |-> "fetch", item |-> i,
                                      cancel |-> FALSE, whole |-> FALSE]]

(* A fetch of the same photo for another lease, which shares the staging   *)
(* file, is alive: explored only with the event "overlap".                 *)
Overlaps(i) ==
    \E s \in Slots : Live(s) /\ StagedPath(task[s].item) = StagedPath(i)

Spawn(i) ==
    IF Running(i)
    THEN UNCHANGED taskVars
    ELSE \E s \in Slots :
           /\ Overlaps(i) => "overlap" \in Events     \* bound
           /\ ~Live(s)
           /\ reg' = [reg EXCEPT ![Key(i)] = s]
           /\ task' = [task EXCEPT ![s] = [pc |-> "fetch", item |-> i,
                                           cancel |-> FALSE, whole |-> FALSE]]

At(s, pc) == Live(s) /\ task[s].pc = pc

Goto(s, pc) == task' = [task EXCEPT ![s].pc = pc]

TaskFrame == UNCHANGED <<pairingVars, reg, rpc, sweep>>

(* Native fetch: every byte is verified against the hash by iroh-blobs.    *)
Fetch(s) ==
    /\ At(s, "fetch")
    /\ Goto(s, "verify")
    /\ UNCHANGED <<grant, libraryVars>> /\ TaskFrame

(* require_active                                                          *)
Verify(s) ==
    /\ At(s, "verify")
    /\ Goto(s, IF ExactActive(task[s].item) THEN "export" ELSE "exit")
    /\ UNCHANGED <<grant, libraryVars>> /\ TaskFrame

(* The old staging file is removed, then the export starts writing it.     *)
Export(s) ==
    /\ At(s, "export")
    /\ staged' = [staged EXCEPT ![StagedPath(task[s].item)] =
                                    [by |-> s, whole |-> FALSE]]
    /\ Goto(s, "exporting")
    /\ UNCHANGED <<grant, library, orphans, lost, undone, torn>> /\ TaskFrame

(* The last byte is written: into this path only if it still is our file.  *)
Exported(s) ==
    LET f == StagedPath(task[s].item) IN
    /\ At(s, "exporting")
    /\ staged' = IF staged[f].by = s
                    THEN [staged EXCEPT ![f] = [by |-> s, whole |-> TRUE]]
                    ELSE staged
    /\ Goto(s, "authorize")
    /\ UNCHANGED <<grant, library, orphans, lost, undone, torn>> /\ TaskFrame

(* require_authorized: the last gate before the library.                   *)
Authorize(s) ==
    LET i == task[s].item IN
    /\ At(s, "authorize")
    /\ Goto(s, IF ~ExactActive(i) THEN "exit"
               ELSE IF auth[i.phone] = i.pairing THEN "hash" ELSE "drop")
    /\ UNCHANGED <<grant, libraryVars>> /\ TaskFrame

Drop(s) ==
    /\ At(s, "drop")
    /\ IF ExactActive(task[s].item) THEN CancelRow(task[s].item)
                                    ELSE UNCHANGED grant
    /\ Goto(s, "exit")
    /\ UNCHANGED libraryVars /\ TaskFrame

(* ingest_inner: hash the staged file, look its content up, place it, and  *)
(* insert the row.                                                         *)
HashFile(s) ==
    LET f == StagedPath(task[s].item) IN
    /\ At(s, "hash")
    /\ staged[f] # NoFile
    /\ task' = [task EXCEPT ![s].pc = "lookup", ![s].whole = staged[f].whole]
    /\ UNCHANGED <<grant, libraryVars>> /\ TaskFrame

Unstage(s) == staged' = [staged EXCEPT ![StagedPath(task[s].item)] = NoFile]

Lookup(s) ==
    /\ At(s, "lookup")
    /\ IF task[s].whole /\ task[s].item.hash \in library
         THEN Unstage(s) /\ Goto(s, "receipt")
         ELSE UNCHANGED staged /\ Goto(s, "place")
    /\ UNCHANGED <<grant, library, orphans, lost, undone, torn>> /\ TaskFrame

(* The file moves to originals/.  A file that was hashed or moved          *)
(* half-written is indexed as something it is not.                         *)
Place(s) ==
    LET f == StagedPath(task[s].item) IN
    /\ At(s, "place")
    /\ staged[f] # NoFile
    /\ torn' = (torn \/ ~task[s].whole \/ ~staged[f].whole)
    /\ Unstage(s)
    /\ Goto(s, "insert")
    /\ UNCHANGED <<grant, library, orphans, lost, undone>> /\ TaskFrame

(* mutant: a failed insert still earns a receipt *)
Insert_SwallowsError(s) ==
    /\ At(s, "insert")
    /\ Unstage(s)
    /\ Goto(s, "receipt")
    /\ UNCHANGED <<grant, library, orphans, lost, undone, torn>> /\ TaskFrame

(* The adopter or the watcher comes upon the file just placed, whose       *)
(* content it does not know, and gives it a row before the task does.      *)
AdoptPlaced(s) ==
    /\ "adopt" \in Events
    /\ At(s, "insert") /\ task[s].whole /\ task[s].item.hash \notin library
    /\ library' = library \cup {task[s].item.hash}
    /\ Goto(s, "beaten")
    /\ UNCHANGED <<grant, staged, orphans, lost, undone, torn>> /\ TaskFrame

(* A failed insert removes the file at the path the task placed: if the    *)
(* row it met is that very file's, the content is gone.                    *)
RollBack(s) ==
    /\ library' = library \ {task[s].item.hash}
    /\ undone' = undone \cup (library \cap {task[s].item.hash})

(* At "insert" a unique violation means that another task won with a file  *)
(* of its own; at "beaten" there is one for certain.  Either way it is a   *)
(* Duplicate, and the staging path is cleaned.                             *)
Insert(s) ==
    /\ \/ /\ At(s, "insert")
          /\ library' = IF task[s].whole THEN library \cup {task[s].item.hash}
                                         ELSE library
          /\ UNCHANGED undone
       \/ At(s, "beaten") /\ RollBack(s)
    /\ Unstage(s)
    /\ Goto(s, "receipt")
    /\ UNCHANGED <<grant, orphans, lost, torn>> /\ TaskFrame

(* mutant: the state is set without the receipt *)
Complete_NoReceipt(i) ==
    IF ExactActive(i) THEN SetRow(i, [Row(i) EXCEPT !.state = "completed"])
                      ELSE UNCHANGED grant

(* complete_flow_grant repeats every guard of the tuple in SQL; a lost     *)
(* race leaves the row to its winner.                                      *)
Complete(i) ==
    IF ExactActive(i)
    THEN \E id \in Receipts :
           SetRow(i, [Row(i) EXCEPT !.state = "completed", !.receipt = id])
    ELSE UNCHANGED grant

WriteReceipt(s) ==
    /\ At(s, "receipt")
    /\ Complete(task[s].item)
    /\ Goto(s, "exit")
    /\ UNCHANGED libraryVars /\ TaskFrame

(* Any step may fail: network, volume gone, disk full, storage error.  A   *)
(* failed insert removes the file the task placed, a failed look for the   *)
(* path's old row leaves it.                                               *)
TaskFail(s) ==
    /\ Live(s) /\ task[s].pc # "exit"
    /\ Goto(s, "exit")
    /\ \/ UNCHANGED libraryVars
       \/ /\ At(s, "insert") /\ task[s].whole
          /\ orphans' = orphans \cup {task[s].item.hash}
          /\ UNCHANGED <<staged, library, lost, undone, torn>>
       \/ /\ At(s, "beaten") /\ RollBack(s)
          /\ UNCHANGED <<staged, orphans, lost, torn>>
    /\ UNCHANGED grant /\ TaskFrame

(* select! drops the body at an await.  Dropped between place and insert,  *)
(* nobody rolls the placed file back.                                      *)
TaskAbort(s) ==
    /\ Live(s) /\ task[s].cancel /\ task[s].pc \in AbortPcs
    /\ orphans' = IF task[s].pc = "insert" /\ task[s].whole
                    THEN orphans \cup {task[s].item.hash} ELSE orphans
    /\ Goto(s, "exit")
    /\ UNCHANGED <<grant, staged, library, lost, undone, torn>> /\ TaskFrame

(* mutant: nobody is told that a task has ended *)
TaskExit_Silent(s) ==
    LET k == Key(task[s].item) IN
    /\ At(s, "exit")
    /\ task' = [task EXCEPT ![s] = NoTask]
    /\ reg' = IF reg[k] = s THEN [reg EXCEPT ![k] = None] ELSE reg
    /\ UNCHANGED <<pairingVars, grant, libraryVars, rpc, sweep>>

(* TaskExit::drop: unregister (own generation only), then fire `exited`.   *)
TaskExit(s) ==
    LET k == Key(task[s].item) IN
    /\ At(s, "exit")
    /\ task' = [task EXCEPT ![s] = NoTask]
    /\ reg' = IF reg[k] = s THEN [reg EXCEPT ![k] = None] ELSE reg
    /\ rpc' = [r \in Rpcs |-> IF rpc[r].wait = s
                                THEN [rpc[r] EXCEPT !.wait = None]
                                ELSE rpc[r]]
    /\ release' = [p \in Phones |-> [release[p] EXCEPT !.wait = @ \ {s}]]
    /\ UNCHANGED <<auth, mirror, lastPairing, writer, released, grant,
                   libraryVars, sweep>>

(* #1260, the library's volume is being ejected: interrupt_all.            *)
InterruptAll ==
    /\ "eject" \in Events
    /\ \E s \in Slots : Registered(s) /\ ~task[s].cancel
    /\ CancelTokens({s \in Slots : Registered(s)})
    /\ UNCHANGED <<grant, libraryVars>> /\ TaskFrame

TaskStep(s) ==
    \/ Fetch(s) \/ Verify(s) \/ Export(s) \/ Exported(s) \/ Authorize(s)
    \/ Drop(s) \/ HashFile(s) \/ Lookup(s) \/ Place(s) \/ Insert(s)
    \/ WriteReceipt(s)

(* The steps that wait for no one outside this process.                    *)
LocalStep(s) == ~At(s, "fetch") /\ (TaskStep(s) \/ TaskFail(s))

-----------------------------------------------------------------------------
(* RPC handlers.  An answer frees the handler; a request that changes      *)
(* nothing before it is answered is not a step.                            *)

RpcAt(r, pc) == rpc[r] # NoRpc /\ rpc[r].pc = pc
RpcGoto(r, pc) == rpc' = [rpc EXCEPT ![r].pc = pc]
Reply(r) == rpc' = [rpc EXCEPT ![r] = NoRpc]
RpcFrame == UNCHANGED <<pairingVars, libraryVars, sweep>>

Accepted(r, op, i, pc) ==
    /\ rpc[r] = NoRpc
    /\ rpc' = [rpc EXCEPT ![r] = [op |-> op, pc |-> pc, item |-> i,
                                  durable |-> FALSE, wait |-> None]]

(* flow.offer: checked_request compares the pairing with the index.        *)
Offer(r, p, q, l, h) ==
    /\ auth[p] # 0
    /\ Accepted(r, "offer", [phone |-> p, pairing |-> auth[p], seq |-> q,
                             lease |-> l, hash |-> h], "rebind")
    /\ UNCHANGED <<grant, taskVars>> /\ RpcFrame

OfferRebind(r) ==
    LET i == rpc[r].item IN
    /\ RpcAt(r, "rebind")
    /\ IF Stored(i) /\ Row(i).state = "completed" /\ Row(i).hash = i.hash
         THEN SetRow(i, [Row(i) EXCEPT !.lease = i.lease]) /\ Reply(r)
         ELSE UNCHANGED grant /\ RpcGoto(r, "durable")
    /\ UNCHANGED taskVars /\ RpcFrame

(* has_durable_copy                                                        *)
OfferDurable(r) ==
    /\ RpcAt(r, "durable")
    /\ rpc' = [rpc EXCEPT ![r].pc = "upsert",
                          ![r].durable = rpc[r].item.hash \in library]
    /\ UNCHANGED <<grant, taskVars>> /\ RpcFrame

(* mutant: an offer overwrites a completed row *)
OfferUpsert_Overwrites(r) ==
    LET i == rpc[r].item IN
    /\ RpcAt(r, "upsert")
    /\ mirror[i.phone] = i.pairing
    /\ SetRow(i, [state |-> "active", lease |-> i.lease, hash |-> i.hash,
                  receipt |-> None, stale |-> FALSE])
    /\ RpcGoto(r, "match")
    /\ UNCHANGED taskVars /\ RpcFrame

(* A completed row is not overwritten; without a pairing row the foreign   *)
(* key refuses the insert (RpcFail).                                       *)
OfferUpsert(r) ==
    LET i == rpc[r].item IN
    /\ RpcAt(r, "upsert")
    /\ mirror[i.phone] = i.pairing
    /\ IF Row(i).state = "completed"
         THEN UNCHANGED grant
         ELSE SetRow(i, [state |-> "active", lease |-> i.lease, hash |-> i.hash,
                         receipt |-> None, stale |-> FALSE])
    /\ RpcGoto(r, "match")
    /\ UNCHANGED taskVars /\ RpcFrame

(* matching_grant, then complete_without_fetch or spawn and answer.        *)
OfferMatch(r) ==
    /\ RpcAt(r, "match")
    /\ Matches(rpc[r].item)
    /\ IF rpc[r].durable
         THEN RpcGoto(r, "complete") /\ UNCHANGED taskVars
         ELSE Spawn(rpc[r].item) /\ Reply(r)
    /\ UNCHANGED grant /\ RpcFrame

OfferComplete(r) ==
    /\ RpcAt(r, "complete")
    /\ Complete(rpc[r].item)
    /\ Reply(r)
    /\ UNCHANGED taskVars /\ RpcFrame

(* Mismatch, missing row, refused admission, storage error.                *)
RpcFail(r) ==
    /\ rpc[r] # NoRpc /\ rpc[r].pc # "await"
    /\ Reply(r)
    /\ UNCHANGED <<grant, taskVars>> /\ RpcFrame

(* status, suspend and cancel name a tuple; the handler works on the row   *)
(* it read (tuple_grant), which may change under it.                       *)
TupleItem(p, q) == [phone |-> p, pairing |-> mirror[p], seq |-> q,
                    lease |-> grant[p][q].lease, hash |-> grant[p][q].hash]

Status(r, p, q) ==
    /\ "status" \in Events
    /\ grant[p][q].state = "active"
    /\ ~Running(TupleItem(p, q))
    /\ Accepted(r, "status", TupleItem(p, q), "touch")
    /\ UNCHANGED <<grant, taskVars>> /\ RpcFrame

StatusTouch(r) ==
    LET i == rpc[r].item IN
    /\ RpcAt(r, "touch")
    /\ IF Stored(i) /\ Row(i).lease = i.lease /\ Row(i).state = "active"
         THEN SetRow(i, [Row(i) EXCEPT !.stale = FALSE])
         ELSE UNCHANGED grant
    /\ RpcGoto(r, "spawn")
    /\ UNCHANGED taskVars /\ RpcFrame

(* mutant: a poll does not respawn *)
StatusSpawn_ReplyOnly(r) ==
    /\ RpcAt(r, "spawn")
    /\ Reply(r)
    /\ UNCHANGED <<grant, taskVars>> /\ RpcFrame

StatusSpawn(r) ==
    /\ RpcAt(r, "spawn")
    /\ Spawn(rpc[r].item)
    /\ Reply(r)
    /\ UNCHANGED grant /\ RpcFrame

Suspend(r, p, q) ==
    /\ "suspend" \in Events
    /\ grant[p][q].state = "active"
    /\ Accepted(r, "suspend", TupleItem(p, q), "interrupt")
    /\ UNCHANGED <<grant, taskVars>> /\ RpcFrame

Cancel(r, p, q) ==
    /\ "cancel" \in Events
    /\ grant[p][q].state # "none"
    /\ Accepted(r, "cancel", TupleItem(p, q), "cancel")
    /\ UNCHANGED <<grant, taskVars>> /\ RpcFrame

CancelStore(r) ==
    /\ RpcAt(r, "cancel")
    /\ IF ExactActive(rpc[r].item)
         THEN CancelRow(rpc[r].item) /\ RpcGoto(r, "interrupt")
         ELSE UNCHANGED grant /\ Reply(r)
    /\ UNCHANGED taskVars /\ RpcFrame

(* mutant: the interrupter unregisters the task *)
Interrupt_Unregisters(r) ==
    LET s == reg[Key(rpc[r].item)] IN
    /\ RpcAt(r, "interrupt")
    /\ s # None
    /\ CancelTokens({s})
    /\ reg' = [reg EXCEPT ![Key(rpc[r].item)] = None]
    /\ rpc' = [rpc EXCEPT ![r].pc = "await", ![r].wait = s]
    /\ UNCHANGED grant /\ RpcFrame

(* mutant: suspend waits without cancelling *)
Interrupt_NoCancel(r) ==
    LET s == reg[Key(rpc[r].item)] IN
    /\ RpcAt(r, "interrupt")
    /\ s # None
    /\ rpc' = [rpc EXCEPT ![r].pc = "await", ![r].wait = s]
    /\ UNCHANGED <<grant, taskVars>> /\ RpcFrame

Interrupt(r) ==
    LET s == reg[Key(rpc[r].item)] IN
    /\ RpcAt(r, "interrupt")
    /\ IF s = None
         THEN Reply(r) /\ UNCHANGED task
         ELSE /\ CancelTokens({s})
              /\ rpc' = [rpc EXCEPT ![r].pc = "await", ![r].wait = s]
    /\ UNCHANGED <<grant, reg>> /\ RpcFrame

Answer(r) ==
    /\ RpcAt(r, "await")
    /\ rpc[r].wait = None
    /\ Reply(r)
    /\ UNCHANGED <<grant, taskVars>> /\ RpcFrame

RpcArrives(r) ==
    \E p \in Phones, q \in Seqs :
      \/ \E l \in Leases, h \in Hashes : Offer(r, p, q, l, h)
      \/ Status(r, p, q)
      \/ Suspend(r, p, q)
      \/ Cancel(r, p, q)

RpcStep(r) ==
    \/ OfferRebind(r) \/ OfferDurable(r) \/ OfferUpsert(r) \/ OfferMatch(r)
    \/ OfferComplete(r) \/ StatusTouch(r) \/ StatusSpawn(r) \/ CancelStore(r)
    \/ Interrupt(r) \/ Answer(r)

-----------------------------------------------------------------------------
(* The hourly expiry of grants nobody resumed, the user, a restart.        *)

Idle == sweep.list = {} /\ sweep.target = None

StaleItems == {TupleItem(x[1], x[2]) :
                 x \in {y \in Phones \X Seqs :
                          /\ grant[y[1]][y[2]].state = "active"
                          /\ grant[y[1]][y[2]].stale}}

(* GRANT_RESUME_TTL passes without an offer or a poll; three days, so no   *)
(* handler of the item is in flight.                                       *)
GrantAges(p, q) ==
    /\ "expire" \in Events
    /\ grant[p][q].state = "active" /\ ~grant[p][q].stale
    /\ \A r \in Rpcs : rpc[r] # NoRpc =>
         <<rpc[r].item.phone, rpc[r].item.seq>> # <<p, q>>
    /\ grant' = [grant EXCEPT ![p][q].stale = TRUE]
    /\ UNCHANGED <<pairingVars, taskVars, libraryVars, rpc, sweep>>

SweepSelect ==
    /\ Idle /\ StaleItems # {}
    /\ sweep' = [sweep EXCEPT !.list = StaleItems]
    /\ UNCHANGED <<pairingVars, grant, taskVars, libraryVars, rpc>>

SweepCheck(i) ==
    /\ i \in sweep.list /\ sweep.target = None
    /\ sweep' = [list |-> sweep.list \ {i},
                 target |-> IF Running(i) THEN None ELSE i]
    /\ UNCHANGED <<pairingVars, grant, taskVars, libraryVars, rpc>>

SweepCancel ==
    /\ sweep.target # None
    /\ IF ExactActive(sweep.target) THEN CancelRow(sweep.target)
                                    ELSE UNCHANGED grant
    /\ sweep' = [sweep EXCEPT !.target = None]
    /\ UNCHANGED <<pairingVars, taskVars, libraryVars, rpc>>

(* The user removes a photo; the adopter indexes a file that has no row.   *)
UserDelete(h) ==
    /\ "delete" \in Events
    /\ h \in library
    /\ library' = library \ {h}
    /\ lost' = lost \cup {h}
    /\ UNCHANGED <<pairingVars, grant, taskVars, staged, orphans, undone, torn,
                   rpc, sweep>>

Adopt(h) ==
    /\ "adopt" \in Events
    /\ h \in orphans \ library
    /\ orphans' = orphans \ {h}
    /\ library' = library \cup {h}
    /\ UNCHANGED <<pairingVars, grant, taskVars, staged, lost, undone, torn,
                   rpc, sweep>>

(* Memory is gone.  With a vault the index is read from it and align_mirror *)
(* drops rows that differ; without one the index is read from the table.    *)
Restart ==
    /\ "restart" \in Events
    /\ auth' = IF Vault THEN auth ELSE mirror
    /\ mirror' = auth'
    /\ grant' = [p \in Phones |-> IF auth'[p] = mirror[p] THEN grant[p]
                                  ELSE [q \in Seqs |-> NoGrant]]
    /\ writer' = None
    /\ release' = [p \in Phones |-> [pc |-> "idle", id |-> 0, wait |-> {}]]
    /\ task' = [s \in Slots |-> NoTask]
    /\ reg' = [k \in Keys |-> None]
    /\ rpc' = [r \in Rpcs |-> NoRpc]
    /\ sweep' = [list |-> {}, target |-> None]
    /\ orphans' = orphans \cup {task[s].item.hash : s \in
                     {t \in Slots : At(t, "insert") /\ task[t].whole}}
    /\ UNCHANGED <<lastPairing, released, staged, library, lost, undone, torn>>

Next ==
    \/ \E p \in Phones : AcceptBegin(p) \/ RemoveBegin(p)
                         \/ ReleaseInterrupt(p) \/ ReleaseDone(p)
    \/ AcceptEnd \/ AcceptFail \/ RemoveEnd \/ RemoveFail
    \/ \E s \in Slots : \/ TaskStep(s) \/ TaskFail(s) \/ TaskAbort(s)
                        \/ TaskExit(s) \/ AdoptPlaced(s)
    \/ InterruptAll
    \/ \E r \in Rpcs : RpcArrives(r) \/ RpcStep(r) \/ RpcFail(r)
    \/ \E p \in Phones, q \in Seqs : GrantAges(p, q)
    \/ SweepSelect \/ SweepCancel
    \/ \E i \in sweep.list : SweepCheck(i)
    \/ \E h \in Hashes : UserDelete(h) \/ Adopt(h)
    \/ Restart

Spec == Init /\ [][Next]_vars

-----------------------------------------------------------------------------
(* Properties.                                                             *)

(* Every variable has the shape of the code's state; a row is completed    *)
(* exactly when it holds a receipt (flow_receipt and persisted_receipt     *)
(* rely on it).                                                            *)
TypeOK ==
    /\ auth \in [Phones -> 0..MaxPairings]
    /\ mirror \in [Phones -> 0..MaxPairings]
    /\ lastPairing \in 0..MaxPairings
    /\ writer \in [op: {"accept", "remove"}, phone: Phones] \cup {None}
    /\ release \in [Phones -> [pc: {"idle", "interrupt", "drain"},
                               id: 0..MaxPairings, wait: SUBSET Slots]]
    /\ released \subseteq Phones \X (0..MaxPairings)
    /\ grant \in [Phones -> [Seqs -> GrantRow \cup {NoGrant}]]
    /\ task \in [Slots -> TaskRec \cup {NoTask}]
    /\ reg \in [Keys -> Slots \cup {None}]
    /\ staged \in [Paths -> StagedFile \cup {NoFile}]
    /\ library \subseteq Hashes
    /\ orphans \subseteq Hashes
    /\ lost \subseteq Hashes
    /\ undone \subseteq Hashes
    /\ torn \in BOOLEAN
    /\ rpc \in [Rpcs -> RpcRec \cup {NoRpc}]
    /\ sweep \in [list: SUBSET Item, target: Item \cup {None}]

(* #1084, "a registered entry always means a live task", and the converse: *)
(* a task that left the registry early could not be interrupted.           *)
RegistryExact ==
    /\ \A s \in Slots : Live(s) => reg[Key(task[s].item)] = s
    /\ \A k \in Keys : reg[k] # None =>
         Live(reg[k]) /\ Key(task[reg[k]].item) = k

(* NET-15 / #1084: however offers, polls, suspends, cancels and their      *)
(* retries interleave, two fetch tasks never work for one tuple.           *)
OneTaskPerTuple ==
    \A s, t \in Slots :
      Live(s) /\ Live(t) /\ Key(task[s].item) = Key(task[t].item) => s = t

(* A suspend or cancel answers "stopped" only for a task it told to stop,  *)
(* and never waits for one that is already gone.                           *)
WaitsOnItsTask ==
    \A r \in Rpcs : rpc[r].wait # None =>
      LET s == rpc[r].wait IN
      Live(s) /\ task[s].cancel /\ Key(task[s].item) = Key(rpc[r].item)

(* A receipt is durable evidence: the phone never offers a photo with a    *)
(* receipt again, so its content must be in the library unless the user    *)
(* himself removed it there, or a task that found its own file indexed by  *)
(* the adopter took it back (the code does, ingest.rs:265).                *)
CompletedHasCopy ==
    \A p \in Phones, q \in Seqs :
      grant[p][q].state = "completed" =>
        grant[p][q].hash \in library \cup lost \cup undone

(* No staging file is hashed or moved into originals/ half-written.        *)
NoPartialPhoto == ~torn

(* #563: once removing a pairing has been answered, no task of that        *)
(* pairing is anywhere between its checks and the library.                 *)
RemovedPairingIsQuiet ==
    \A s \in Slots :
      Live(s) /\ <<task[s].item.phone, task[s].item.pairing>> \in released
        => task[s].pc \in {"fetch", "verify", "exit"}

(* What the phone may rely on: the ledger, in which an item is completed   *)
(* once, only from active, only with its photo kept, and stays so with the *)
(* receipt it was given.                                                   *)
Ledger == INSTANCE FlowLedger WITH
    row    <- [p \in Phones |-> [q \in Seqs |->
                 [state |-> grant[p][q].state, hash |-> grant[p][q].hash,
                  receipt |-> grant[p][q].receipt]]],
    held   <- library,
    gone   <- lost,
    undone <- undone,
    Blank  <- None

ImplementsLedger == Ledger!Spec

-----------------------------------------------------------------------------
(* Fairness: tokio runs every woken task and handler, SQL and file calls   *)
(* return, a cancelled token wakes its select!.  Nothing is assumed of the *)
(* network, the phone or the user.                                         *)
Fairness ==
    /\ \A s \in Slots : WF_vars(TaskAbort(s)) /\ WF_vars(TaskExit(s))
                        /\ WF_vars(LocalStep(s))
    /\ \A r \in Rpcs : WF_vars(RpcStep(r) \/ RpcFail(r))
    /\ \A p \in Phones : WF_vars(ReleaseInterrupt(p)) /\ WF_vars(ReleaseDone(p))
    /\ WF_vars(AcceptEnd \/ AcceptFail) /\ WF_vars(RemoveEnd \/ RemoveFail)
    /\ WF_vars(SweepCancel) /\ \A i \in Item : WF_vars(SweepCheck(i))

FairSpec == Spec /\ Fairness

(* Every request is answered, whatever its task is doing when it is told   *)
(* to stop (suspend and cancel wait for the task's exit).                  *)
HandlersAnswer == \A r \in Rpcs : (rpc[r] # NoRpc) ~> (rpc[r] = NoRpc)

(* Removing a phone always gets through its queue of fetches.              *)
RemovalEnds == \A p \in Phones : (release[p].id # 0) ~> (release[p].id = 0)

(* NET-15: while the phone keeps polling and not every storage call fails, *)
(* a grant that lost its task (restart, suspend, failure, eject) gets a    *)
(* new one: it is not left "active, nothing running" for ever.             *)
Polling ==
    \A p \in Phones, q \in Seqs :
      /\ SF_vars(\E r \in Rpcs : Status(r, p, q))
      /\ \A r \in Rpcs : SF_vars(StatusTouch(r)) /\ SF_vars(StatusSpawn(r))

PollingSpec == FairSpec /\ Polling

OrphanRespawned ==
    \A p \in Phones, q \in Seqs :
      (grant[p][q].state = "active") ~>
        (grant[p][q].state # "active" \/ Running(TupleItem(p, q)))

=============================================================================
