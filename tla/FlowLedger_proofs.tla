-------------------------- MODULE FlowLedger_proofs --------------------------
(***************************************************************************)
(* FlowDelivery implements FlowLedger: what the desktop promises a phone   *)
(* about an item holds for any number of phones, items, handlers, tasks    *)
(* pairings and leases, as long as no photo is fetched under two leases at *)
(* once.  A shipped phone makes the lease from the number of its order, so *)
(* it never asks for that; two fetches would share one staging file.       *)
(***************************************************************************)
EXTENDS FlowDelivery_proofs

Apart == "overlap" \notin Events

Path(s) == StagedPath(task[s].item)

(* What a task has staged is its own, and whole from the export's end on.  *)
Ready(s) == Live(s) =>
    /\ task[s].pc = "exporting" => staged[Path(s)].by = s
    /\ task[s].pc \in {"authorize", "hash", "lookup", "place"} => staged[Path(s)].whole
    /\ task[s].pc \in {"lookup", "place", "insert"} => task[s].whole

(* No other task has the path of this one.                                 *)
OwnPath == \A s, t \in Slots : Live(s) /\ Live(t) /\ Path(s) = Path(t) => s = t

Staging == torn = FALSE /\ \A s \in Slots : Ready(s)

(* In the library, or taken out of it by the user or by a roll-back.       *)
Copies == library \cup lost \cup undone

(* Whoever may write a receipt knows of a copy.                            *)
Earned ==
    /\ \A s \in Slots : Live(s) /\ task[s].pc \in {"receipt", "beaten"} =>
         task[s].item.hash \in Copies
    /\ \A r \in Rpcs : rpc[r].durable => rpc[r].item.hash \in Copies
    /\ \A r \in Rpcs : rpc[r].pc = "complete" => rpc[r].durable

-----------------------------------------------------------------------------
(* Staging: no other task has the path of this one, since none is spawned  *)
(* while it lives.                                                         *)

LEMMA OwnPathKept ==
  ASSUME OwnPath,
         \A t \in Slots : task'[t] # NoTask =>
           task[t] # NoTask /\ task'[t].item = task[t].item
  PROVE  OwnPath'
  BY DEF OwnPath, Live, Path, StagedPath

LEMMA OwnPathSpawned ==
  ASSUME Apart, TaskType, OwnPath, NEW i \in Item, Spawn(i)
  PROVE  OwnPath'
<1>1. CASE Running(i)
  BY <1>1, OwnPathKept DEF Spawn, taskVars, OwnPath, Live, Path, StagedPath
<1>2. CASE ~Running(i)
  <2>1. PICK s \in Slots :
          /\ Overlaps(i) => "overlap" \in Events
          /\ task' = [task EXCEPT ![s] = [pc |-> "fetch", item |-> i,
                                         cancel |-> FALSE, whole |-> FALSE]]
    BY <1>2 DEF Spawn
  <2>2. \A t \in Slots : task[t] # NoTask => StagedPath(task[t].item) # StagedPath(i)
    BY <2>1 DEF Apart, Overlaps, Live
  <2>3. task'[s].item = i /\ \A t \in Slots : t # s => task'[t] = task[t]
    BY <2>1 DEF TaskType
  <2> QED
    BY <2>2, <2>3 DEF OwnPath, Live, Path, StagedPath
<1> QED
  BY <1>1, <1>2

LEMMA ReadyKept ==
  ASSUME NEW t \in Slots, Ready(t),
         task'[t] # NoTask =>
           /\ task[t] # NoTask /\ task'[t].item = task[t].item
           /\ task'[t].pc = task[t].pc /\ task'[t].whole = task[t].whole
           /\ staged'[Path(t)] = staged[Path(t)]
  PROVE  Ready(t)'
  BY DEF Ready, Live, Path, StagedPath

LEMMA StagingKept ==
  ASSUME Staging, staged' = staged, torn' = torn,
         \A t \in Slots : task'[t] # NoTask =>
           \/ task'[t].pc = "fetch"
           \/ /\ task[t] # NoTask /\ task'[t].item = task[t].item
              /\ task'[t].pc = task[t].pc /\ task'[t].whole = task[t].whole
  PROVE  Staging'
<1> SUFFICES ASSUME NEW t \in Slots PROVE Ready(t)'
  BY DEF Staging
<1>1. CASE task'[t] # NoTask /\ task'[t].pc = "fetch"
  BY <1>1 DEF Ready
<1>2. CASE ~(task'[t] # NoTask /\ task'[t].pc = "fetch")
  BY <1>2, ReadyKept DEF Staging
<1> QED
  BY <1>1, <1>2

(* A step of a task moves its own record and its own path.                 *)
LEMMA TaskMoves ==
  ASSUME TypeInv, NEW s \in Slots, TaskStep(s) \/ TaskFail(s) \/ TaskAbort(s) \/ AdoptPlaced(s)
  PROVE  /\ Live(s) /\ task[s] \in TaskRec /\ Path(s) \in Paths
         /\ \A t \in Slots : t # s => task'[t] = task[t]
         /\ \A f \in Paths : f # Path(s) => staged'[f] = staged[f]
         /\ task'[s] # NoTask /\ task'[s].item = task[s].item
         /\ ~HashFile(s) => task'[s].whole = task[s].whole
<1>0. TaskType /\ LibraryType
  BY TypeParts
<1>1. Live(s)
  BY DEF TaskStep, TaskFail, TaskAbort, AdoptPlaced, At, Fetch, Verify, Export, Exported,
         Authorize, Drop, HashFile, Lookup, Place, Insert, WriteReceipt
<1>2. task[s] \in TaskRec /\ Path(s) \in Paths
  BY <1>0, <1>1, LiveItem DEF Path, StagedPath, Paths, Item
<1>3. \A f \in Paths : f # Path(s) => staged'[f] = staged[f]
  BY <1>0 DEF TaskStep, TaskFail, TaskAbort, AdoptPlaced, Fetch, Verify, Export, Exported,
     Authorize, Drop, HashFile, Lookup, Place, Insert, WriteReceipt, Unstage,
     libraryVars, Path, LibraryType
<1>4. CASE HashFile(s)
  BY <1>0, <1>1, <1>2, <1>3, <1>4 DEF HashFile, TaskType, TaskRec, NoTask
<1>5. ASSUME NEW pc \in TaskPcs, Goto(s, pc)
      PROVE  /\ \A t \in Slots : t # s => task'[t] = task[t]
             /\ task'[s] # NoTask /\ task'[s].item = task[s].item
             /\ task'[s].whole = task[s].whole
  BY <1>0, <1>2, <1>5 DEF Goto, TaskType, TaskRec, NoTask, TaskPcs, AbortPcs
<1>6. CASE ~HashFile(s)
  <2>1. \E pc \in TaskPcs : Goto(s, pc)
    BY <1>6 DEF TaskStep, TaskFail, TaskAbort, AdoptPlaced, Fetch, Verify, Export, Exported,
       Authorize, Drop, Lookup, Place, Insert, WriteReceipt, TaskPcs, AbortPcs
  <2> QED
    BY <1>1, <1>2, <1>3, <1>5, <2>1
<1> QED
  BY <1>1, <1>2, <1>3, <1>4, <1>6

LEMMA TaskReady ==
  ASSUME TypeInv, OwnPath, Staging, NEW s \in Slots,
         TaskStep(s) \/ TaskFail(s) \/ TaskAbort(s) \/ AdoptPlaced(s)
  PROVE  Staging'
<1>0. TaskType /\ LibraryType /\ Ready(s) /\ torn = FALSE
  BY TypeParts DEF Staging
<1>1. /\ Live(s) /\ task[s] \in TaskRec /\ Path(s) \in Paths
      /\ \A t \in Slots : t # s => task'[t] = task[t]
      /\ \A f \in Paths : f # Path(s) => staged'[f] = staged[f]
      /\ task'[s].item = task[s].item /\ Path(s)' = Path(s)
      /\ ~HashFile(s) => task'[s].whole = task[s].whole
  BY TaskMoves DEF Path
<1>2. ASSUME NEW t \in Slots, t # s PROVE Ready(t)'
  <2>1. CASE Live(t)
    <3>1. Path(t) # Path(s) /\ Path(t) \in Paths
      BY <1>0, <1>1, <1>2, <2>1, LiveItem DEF OwnPath, Path, StagedPath, Paths, Item
    <3> QED
      BY <1>0, <1>1, <1>2, <3>1, ReadyKept DEF Staging
  <2>2. CASE ~Live(t)
    BY <1>1, <1>2, <2>2 DEF Ready, Live
  <2> QED
    BY <2>1, <2>2
<1>3. ASSUME NEW pc \in TaskPcs, Goto(s, pc) PROVE task'[s].pc = pc
  BY <1>0, <1>1, <1>3 DEF Goto, TaskType, TaskRec
<1>4. Ready(s)' /\ torn' = FALSE
  <2>1. CASE \/ Fetch(s) \/ Verify(s) \/ Drop(s) \/ WriteReceipt(s)
             \/ TaskFail(s) \/ TaskAbort(s) \/ AdoptPlaced(s) \/ Insert(s)
    <3>1. /\ task'[s].pc \in {"verify", "export", "exit", "receipt", "beaten"}
          /\ torn' = torn
      BY <1>3, <2>1 DEF Fetch, Verify, Drop, WriteReceipt, TaskFail, TaskAbort, AdoptPlaced, Insert,
                        libraryVars, TaskPcs, AbortPcs
    <3> QED
      BY <1>0, <3>1 DEF Ready
  <2>2. CASE Export(s)
    <3>1. task'[s].pc = "exporting" /\ staged'[Path(s)].by = s /\ torn' = torn
      BY <1>0, <1>1, <1>3, <2>2 DEF Export, Path, LibraryType, TaskPcs, AbortPcs
    <3> QED
      BY <1>0, <1>1, <3>1 DEF Ready
  <2>3. CASE Exported(s)
    <3>1. staged[Path(s)].by = s
      BY <1>0, <2>3 DEF Ready, Exported, At
    <3>2. task'[s].pc = "authorize" /\ staged'[Path(s)].whole /\ torn' = torn
      BY <1>0, <1>1, <1>3, <2>3, <3>1 DEF Exported, Path, LibraryType, TaskPcs, AbortPcs
    <3> QED
      BY <1>0, <1>1, <3>2 DEF Ready
  <2>4. CASE Authorize(s)
    <3>1. task'[s].pc \in {"exit", "hash", "drop"} /\ staged' = staged /\ torn' = torn
      BY <1>3, <2>4 DEF Authorize, libraryVars, TaskPcs, AbortPcs
    <3>2. staged[Path(s)].whole
      BY <1>0, <2>4 DEF Ready, Authorize, At
    <3> QED
      BY <1>0, <1>1, <3>1, <3>2 DEF Ready
  <2>5. CASE HashFile(s)
    <3>1. staged[Path(s)].whole = TRUE
      BY <1>0, <1>1, <2>5 DEF Ready, HashFile, At, LibraryType, StagedFile, NoFile
    <3>2. /\ task'[s].pc = "lookup" /\ task'[s].whole = staged[Path(s)].whole
          /\ staged' = staged /\ torn' = torn
      BY <1>0, <1>1, <2>5 DEF HashFile, Path, TaskType, TaskRec, libraryVars
    <3> QED
      BY <1>0, <1>1, <3>1, <3>2 DEF Ready
  <2>6. CASE Lookup(s)
    <3>1. task[s].whole /\ staged[Path(s)].whole
      BY <1>0, <2>6 DEF Ready, Lookup, At
    <3>2. /\ task'[s].pc = "receipt" \/ (task'[s].pc = "place" /\ staged' = staged)
          /\ torn' = torn
      BY <1>3, <2>6 DEF Lookup, TaskPcs, AbortPcs
    <3> QED
      BY <1>0, <1>1, <2>6, <3>1, <3>2 DEF Ready, Lookup, HashFile, At
  <2>7. CASE Place(s)
    <3>1. task[s].whole /\ staged[Path(s)].whole
      BY <1>0, <2>7 DEF Ready, Place, At
    <3>2. task'[s].pc = "insert" /\ torn' = FALSE
      BY <1>0, <1>3, <2>7, <3>1 DEF Place, Path, TaskPcs, AbortPcs
    <3> QED
      BY <1>1, <2>7, <3>1, <3>2 DEF Ready, Place, HashFile, At
  <2> QED
    BY <2>1, <2>2, <2>3, <2>4, <2>5, <2>6, <2>7 DEF TaskStep
<1> QED
  BY <1>2, <1>4 DEF Staging

LEMMA TokensReady ==
  ASSUME TypeInv, Staging, NEW S \in SUBSET Slots, \A s \in S : Live(s),
         CancelTokens(S), staged' = staged, torn' = torn
  PROVE  Staging'
<1>0. TaskType
  BY TypeParts
<1>1. \A t \in Slots : task'[t] # NoTask =>
         /\ task[t] # NoTask /\ task'[t].item = task[t].item
         /\ task'[t].pc = task[t].pc /\ task'[t].whole = task[t].whole
  BY <1>0 DEF CancelTokens, TaskType, TaskRec, NoTask, Live
<1> QED
  BY <1>1, StagingKept

LEMMA RpcReady ==
  ASSUME TypeInv, Registry, Staging, NEW r \in Rpcs,
         RpcArrives(r) \/ RpcStep(r) \/ RpcFail(r)
  PROVE  Staging'
<1>0. TaskType /\ RpcType
  BY TypeParts
<1>1. staged' = staged /\ torn' = torn
  BY DEF RpcArrives, RpcStep, RpcFail, Offer, Status, Suspend, Cancel, OfferRebind,
         OfferDurable, OfferUpsert, OfferMatch, OfferComplete, StatusTouch,
         StatusSpawn, CancelStore, Interrupt, Answer, RpcFrame, libraryVars
<1>2. CASE task' = task
  BY <1>1, <1>2, StagingKept
<1>3. CASE Spawn(rpc[r].item)
  <2>1. \A t \in Slots : task'[t] # NoTask => task'[t].pc = "fetch" \/ task'[t] = task[t]
    BY <1>0, <1>3 DEF Spawn, taskVars, TaskType
  <2> QED
    BY <1>1, <2>1, StagingKept
<1>4. CASE Interrupt(r) /\ reg[Key(rpc[r].item)] # None
  <2> DEFINE k == Key(rpc[r].item)
  <2>1. rpc[r].item \in Item
    BY <1>0, <1>4 DEF RpcType, RpcAt, RpcRec, Interrupt
  <2>2. k \in Keys
    BY <2>1 DEF Key, Keys, Item
  <2>3. reg[k] \in Slots /\ Live(reg[k])
    BY <1>0, <1>4, <2>2 DEF Registry, RegistryExact, TaskType
  <2>4. CancelTokens({reg[k]})
    BY <1>4 DEF Interrupt
  <2> QED
    BY <1>1, <2>3, <2>4, TokensReady
<1>5. task' = task \/ Spawn(rpc[r].item) \/ (Interrupt(r) /\ reg[Key(rpc[r].item)] # None)
  BY DEF RpcArrives, RpcStep, RpcFail, Offer, Status, Suspend, Cancel, OfferRebind,
         OfferDurable, OfferUpsert, OfferMatch, OfferComplete, StatusTouch,
         StatusSpawn, CancelStore, Interrupt, Answer, taskVars
<1> QED
  BY <1>2, <1>3, <1>4, <1>5

(* The steps of pairing and housekeeping, which touch no task.             *)
Elsewhere ==
    \/ \E p \in Phones : AcceptBegin(p) \/ RemoveBegin(p) \/ ReleaseDone(p)
    \/ AcceptEnd \/ AcceptFail \/ RemoveEnd \/ RemoveFail
    \/ \E p \in Phones, q \in Seqs : GrantAges(p, q)
    \/ SweepSelect \/ SweepCancel \/ \E i \in sweep.list : SweepCheck(i)
    \/ UNCHANGED vars

LEMMA ElsewhereKeeps ==
  ASSUME Elsewhere
  PROVE  UNCHANGED <<task, libraryVars, rpc>>
  BY DEF Elsewhere, AcceptBegin, AcceptEnd, AcceptFail, RemoveBegin, RemoveEnd,
         RemoveFail, ReleaseDone, GrantAges, SweepSelect, SweepCancel, SweepCheck,
         vars, taskVars

LEMMA NextOwnPath ==
  ASSUME Apart, Inv, OwnPath, [Next]_vars
  PROVE  OwnPath'
<1>0. TypeInv /\ Registry /\ TaskType /\ RpcType
  BY TypeParts DEF Inv
<1>1. CASE UNCHANGED task
  BY <1>1, OwnPathKept
<1>2. ASSUME SameTasks PROVE OwnPath'
  BY <1>2, OwnPathKept DEF SameTasks
<1>3. CASE Elsewhere \/ \E h \in Hashes : UserDelete(h) \/ Adopt(h)
  BY <1>1, <1>3, ElsewhereKeeps DEF UserDelete, Adopt, taskVars
<1>4. CASE InterruptAll \/ \E p \in Phones : ReleaseInterrupt(p)
  <2>1. PICK S \in SUBSET Slots : (\A s \in S : Live(s)) /\ CancelTokens(S)
    BY <1>4 DEF InterruptAll, ReleaseInterrupt, InterruptedBy, Registered
  <2>2. reg' = reg
    BY <1>4 DEF InterruptAll, ReleaseInterrupt, TaskFrame
  <2> QED
    BY <1>0, <1>2, <2>1, <2>2, TokensSame
<1>5. ASSUME NEW s \in Slots, TaskExit(s) PROVE OwnPath'
  <2>1. \A t \in Slots : task'[t] # NoTask => task'[t] = task[t]
    BY <1>0, <1>5 DEF TaskExit, TaskType
  <2> QED
    BY <2>1, OwnPathKept
<1>6. CASE Restart
  BY <1>6, OwnPathKept DEF Restart
<1>7. ASSUME NEW r \in Rpcs, RpcArrives(r) \/ RpcStep(r) \/ RpcFail(r) PROVE OwnPath'
  <2>1. CASE RpcAt(r, "match") \/ RpcAt(r, "spawn")
    <3>1. rpc[r].item \in Item
      BY <1>0, <2>1 DEF RpcAt, RpcType, RpcRec
    <3>2. UNCHANGED task \/ Spawn(rpc[r].item)
      BY <1>7, <2>1 DEF RpcArrives, RpcStep, RpcFail, Offer, Status, Suspend, Cancel,
         OfferRebind, OfferDurable, OfferUpsert, OfferMatch, OfferComplete,
         StatusTouch, StatusSpawn, CancelStore, Interrupt, Answer, Accepted, RpcAt,
         taskVars
    <3> QED
      BY <1>0, <1>1, <3>1, <3>2, OwnPathSpawned
  <2>2. CASE Interrupt(r) /\ reg[Key(rpc[r].item)] # None
    <3> DEFINE k == Key(rpc[r].item)
    <3>1. rpc[r].item \in Item
      BY <1>0, <2>2 DEF RpcType, RpcAt, RpcRec, Interrupt
    <3>2. k \in Keys
      BY <3>1 DEF Key, Keys, Item
    <3>3. reg[k] \in Slots /\ Live(reg[k])
      BY <1>0, <2>2, <3>2 DEF Registry, RegistryExact, TaskType
    <3>4. CancelTokens({reg[k]}) /\ reg' = reg
      BY <2>2 DEF Interrupt
    <3> QED
      BY <1>0, <1>2, <3>3, <3>4, TokensSame
  <2>3. \/ UNCHANGED task \/ RpcAt(r, "match") \/ RpcAt(r, "spawn")
        \/ Interrupt(r) /\ reg[Key(rpc[r].item)] # None
    BY <1>7 DEF RpcArrives, RpcStep, RpcFail, Offer, Status, Suspend, Cancel,
       OfferRebind, OfferDurable, OfferUpsert, OfferMatch, OfferComplete,
       StatusTouch, StatusSpawn, CancelStore, Interrupt, Answer, taskVars
  <2> QED
    BY <1>1, <2>1, <2>2, <2>3
<1> QED
  BY <1>0, <1>2, <1>3, <1>4, <1>5, <1>6, <1>7, TaskSame DEF Next, Elsewhere

LEMMA NextStaging ==
  ASSUME Inv, OwnPath, Staging, [Next]_vars
  PROVE  Staging'
<1>0. TypeInv /\ Registry /\ TaskType
  BY TypeParts DEF Inv
<1>1. CASE Elsewhere
  BY <1>1, ElsewhereKeeps, StagingKept DEF libraryVars
<1>2. CASE InterruptAll \/ \E p \in Phones : ReleaseInterrupt(p)
  <2>1. PICK S \in SUBSET Slots : (\A s \in S : Live(s)) /\ CancelTokens(S)
    BY <1>2 DEF InterruptAll, ReleaseInterrupt, InterruptedBy, Registered
  <2>2. staged' = staged /\ torn' = torn
    BY <1>2 DEF InterruptAll, ReleaseInterrupt, libraryVars
  <2> QED
    BY <1>0, <2>1, <2>2, TokensReady
<1>3. ASSUME NEW s \in Slots, TaskExit(s) PROVE Staging'
  <2>1. \A t \in Slots : task'[t] # NoTask => task'[t] = task[t]
    BY <1>0, <1>3 DEF TaskExit, TaskType
  <2> QED
    BY <1>3, <2>1, StagingKept DEF TaskExit, libraryVars
<1>4. ASSUME NEW h \in Hashes, UserDelete(h) \/ Adopt(h) PROVE Staging'
  BY <1>4, StagingKept DEF UserDelete, Adopt, taskVars
<1>5. CASE Restart
  BY <1>5, StagingKept DEF Restart
<1> QED
  BY <1>0, <1>1, <1>2, <1>3, <1>4, <1>5, TaskReady, RpcReady DEF Next, Elsewhere

-----------------------------------------------------------------------------
(* Copies: only a task that inserts or rolls back, the adopter and the     *)
(* user change what the library has.                                       *)

(* The steps of a task, or beside it, that change the library.             *)
Shelves(s) == Insert(s) \/ TaskFail(s) \/ AdoptPlaced(s)

LEMMA TaskCopies ==
  ASSUME NEW s \in Slots, TaskStep(s) \/ TaskFail(s) \/ TaskAbort(s) \/ AdoptPlaced(s),
         ~Shelves(s)
  PROVE  UNCHANGED <<library, lost, undone>>
  BY DEF Shelves, TaskStep, TaskAbort, Fetch, Verify, Export, Exported,
     Authorize, Drop, HashFile, Lookup, Place, WriteReceipt, libraryVars

LEMMA RpcCopies ==
  ASSUME NEW r \in Rpcs, RpcArrives(r) \/ RpcStep(r) \/ RpcFail(r)
  PROVE  UNCHANGED <<pairingVars, library, lost, undone>>
  BY DEF RpcArrives, RpcStep, RpcFail, Offer, Status, Suspend, Cancel, OfferRebind,
         OfferDurable, OfferUpsert, OfferMatch, OfferComplete, StatusTouch,
         StatusSpawn, CancelStore, Interrupt, Answer, RpcFrame, libraryVars

LEMMA CopiesMove ==
  ASSUME [Next]_vars
  PROVE  \/ UNCHANGED <<library, lost, undone>>
         \/ \E s \in Slots : Shelves(s)
         \/ \E h \in Hashes : UserDelete(h) \/ Adopt(h)
<1>1. CASE Elsewhere
  BY <1>1, ElsewhereKeeps DEF libraryVars
<1>2. CASE \/ InterruptAll \/ \E p \in Phones : ReleaseInterrupt(p)
           \/ \E s \in Slots : TaskExit(s)
           \/ Restart
  BY <1>2 DEF InterruptAll, ReleaseInterrupt, TaskExit, Restart, libraryVars
<1> QED
  BY <1>1, <1>2, TaskCopies, RpcCopies DEF Next, Elsewhere

LEMMA CopiesStay ==
  ASSUME [Next]_vars
  PROVE  Copies \subseteq Copies'
<1>1. CASE UNCHANGED <<library, lost, undone>>
  BY <1>1 DEF Copies
<1>2. ASSUME NEW s \in Slots, Shelves(s) PROVE Copies \subseteq Copies'
  BY <1>2 DEF Shelves, Insert, TaskFail, AdoptPlaced, RollBack, libraryVars, Copies
<1>3. ASSUME NEW g \in Hashes, UserDelete(g) \/ Adopt(g) PROVE Copies \subseteq Copies'
  BY <1>3 DEF UserDelete, Adopt, Copies
<1> QED
  BY <1>1, <1>2, <1>3, CopiesMove

(* A task comes to its receipt by a lookup that found a copy, or by the    *)
(* insert of a whole one.                                                  *)
LEMMA TaskEarned ==
  ASSUME Inv, Staging, Earned, [Next]_vars, NEW s \in Slots,
         TaskStep(s) \/ TaskFail(s) \/ TaskAbort(s) \/ AdoptPlaced(s)
  PROVE  Earned'
<1>0. TypeInv /\ TaskType /\ Live(s) /\ task[s] \in TaskRec
  BY TypeParts, TaskMoves DEF Inv
<1>1. /\ \A t \in Slots : t # s => task'[t] = task[t]
      /\ task'[s].item = task[s].item /\ rpc' = rpc
  BY <1>0, TaskMoves, TaskSame
<1>2. ASSUME NEW pc \in TaskPcs, Goto(s, pc) PROVE task'[s].pc = pc
  BY <1>0, <1>2 DEF Goto, TaskType, TaskRec
<1>3. ASSUME task'[s].pc \in {"receipt", "beaten"}
      PROVE  task[s].item.hash \in Copies'
  <2>1. CASE Lookup(s)
    <3>1. task[s].item.hash \in library
      BY <1>2, <1>3, <2>1 DEF Lookup, TaskPcs, AbortPcs
    <3> QED
      BY <3>1, CopiesStay DEF Copies
  <2>2. CASE Insert(s) /\ At(s, "insert")
    <3>1. task[s].whole
      BY <1>0, <2>2 DEF Staging, Ready, At
    <3> QED
      BY <2>2, <3>1 DEF Insert, At, Copies
  <2>4. CASE At(s, "beaten")
    BY <2>4, CopiesStay DEF Earned, At
  <2>5. CASE AdoptPlaced(s)
    BY <2>5 DEF AdoptPlaced, Copies
  <2>3. CASE ~Lookup(s) /\ ~Insert(s) /\ ~AdoptPlaced(s)
    <3>1. task'[s].pc \notin {"receipt", "beaten"}
      <4>1. CASE HashFile(s)
        BY <1>0, <4>1 DEF HashFile, TaskType, TaskRec
      <4>2. CASE ~HashFile(s)
        <5>1. \E pc \in TaskPcs \ {"receipt", "beaten"} : Goto(s, pc)
          BY <2>3, <4>2 DEF TaskStep, TaskFail, TaskAbort, Fetch, Verify, Export,
             Exported, Authorize, Drop, Place, WriteReceipt, TaskPcs, AbortPcs
        <5> QED
          BY <1>2, <5>1
      <4> QED
        BY <4>1, <4>2
    <3> QED
      BY <1>3, <3>1
  <2> QED
    BY <2>1, <2>2, <2>3, <2>4, <2>5 DEF Insert
<1>4. ASSUME NEW t \in Slots, task'[t] # NoTask, task'[t].pc \in {"receipt", "beaten"}
      PROVE  task'[t].item.hash \in Copies'
  <2>1. CASE t = s
    BY <1>1, <1>3, <1>4, <2>1
  <2>2. CASE t # s
    <3>1. task'[t] = task[t] /\ task[t].item.hash \in Copies
      BY <1>1, <1>4, <2>2 DEF Earned, Live
    <3> QED
      BY <3>1, CopiesStay
  <2> QED
    BY <2>1, <2>2
<1>5. \A r \in Rpcs : rpc'[r].durable => rpc'[r].item.hash \in Copies'
  BY <1>1, CopiesStay DEF Earned
<1> QED
  BY <1>1, <1>4, <1>5 DEF Earned, Live

(* No other step brings a task to its receipt, or lets it be beaten.       *)
LEMMA TasksEarned ==
  ASSUME Earned, [Next]_vars,
         \A t \in Slots : task'[t] # NoTask /\ task'[t].pc \in {"receipt", "beaten"} =>
           task[t] # NoTask /\ task[t].pc = task'[t].pc /\ task'[t].item = task[t].item
  PROVE  \A t \in Slots : task'[t] # NoTask /\ task'[t].pc \in {"receipt", "beaten"} =>
           task'[t].item.hash \in Copies'
  BY CopiesStay DEF Earned, Live

LEMMA TokensEarned ==
  ASSUME Inv, Earned, [Next]_vars, NEW S \in SUBSET Slots, \A s \in S : Live(s),
         CancelTokens(S)
  PROVE  \A t \in Slots : task'[t] # NoTask /\ task'[t].pc \in {"receipt", "beaten"} =>
           task'[t].item.hash \in Copies'
<1>0. TaskType
  BY TypeParts DEF Inv
<1>1. \A t \in Slots : task'[t] # NoTask =>
         task[t] # NoTask /\ task'[t].item = task[t].item /\ task'[t].pc = task[t].pc
  BY <1>0 DEF CancelTokens, TaskType, TaskRec, NoTask, Live
<1> QED
  BY <1>1, TasksEarned

(* What a handler does to its own record.                                  *)
LEMMA HandlerEarned ==
  ASSUME Inv, Earned, [Next]_vars, NEW r \in Rpcs,
         RpcArrives(r) \/ RpcStep(r) \/ RpcFail(r)
  PROVE  \A o \in Rpcs : /\ rpc'[o].durable => rpc'[o].item.hash \in Copies'
                         /\ rpc'[o].pc = "complete" => rpc'[o].durable
<1>0. RpcType /\ Copies \subseteq Copies'
  BY TypeParts, CopiesStay DEF Inv
<1> DEFINE Fine(o) == /\ rpc'[o].durable => rpc'[o].item.hash \in Copies'
                      /\ rpc'[o].pc = "complete" => rpc'[o].durable
<1>1. ASSUME NEW o \in Rpcs, rpc'[o] = rpc[o] PROVE Fine(o)
  BY <1>0, <1>1 DEF Earned
<1>2. ASSUME Reply(r) PROVE \A o \in Rpcs : Fine(o)
  <2>1. rpc'[r].durable = FALSE /\ rpc'[r].pc # "complete"
    BY <1>0, <1>2 DEF Reply, RpcType, NoRpc
  <2>2. \A o \in Rpcs : o # r => rpc'[o] = rpc[o]
    BY <1>0, <1>2 DEF Reply, RpcType
  <2> QED
    BY <1>1, <2>1, <2>2
<1>3. ASSUME NEW op, NEW i, NEW pc, pc # "complete", Accepted(r, op, i, pc)
      PROVE  \A o \in Rpcs : Fine(o)
  <2>1. rpc'[r].durable = FALSE /\ rpc'[r].pc # "complete"
    BY <1>0, <1>3 DEF Accepted, RpcType
  <2>2. \A o \in Rpcs : o # r => rpc'[o] = rpc[o]
    BY <1>0, <1>3 DEF Accepted, RpcType
  <2> QED
    BY <1>1, <2>1, <2>2
<1>4. ASSUME NEW pc, RpcGoto(r, pc), rpc[r] # NoRpc, pc = "complete" => rpc[r].durable
      PROVE  \A o \in Rpcs : Fine(o)
  <2>1. /\ rpc'[r].durable = rpc[r].durable /\ rpc'[r].item = rpc[r].item
        /\ rpc'[r].pc = pc
    BY <1>0, <1>4 DEF RpcGoto, RpcType, RpcRec
  <2>2. \A o \in Rpcs : o # r => rpc'[o] = rpc[o]
    BY <1>0, <1>4 DEF RpcGoto, RpcType
  <2> QED
    BY <1>0, <1>1, <1>4, <2>1, <2>2 DEF Earned
<1>5. CASE RpcArrives(r)
  BY <1>3, <1>5 DEF RpcArrives, Offer, Status, Suspend, Cancel
<1>6. CASE OfferDurable(r)
  <2>1. /\ rpc'[r].durable = (rpc[r].item.hash \in library)
        /\ rpc'[r].item = rpc[r].item /\ rpc'[r].pc = "upsert"
    BY <1>0, <1>6 DEF OfferDurable, RpcAt, RpcType, RpcRec
  <2>2. \A o \in Rpcs : o # r => rpc'[o] = rpc[o]
    BY <1>0, <1>6 DEF OfferDurable, RpcType
  <2> QED
    BY <1>0, <1>1, <2>1, <2>2 DEF Copies
<1>7. CASE Interrupt(r)
  <2>1. CASE Reply(r)
    BY <1>2, <2>1
  <2>2. CASE rpc' = [rpc EXCEPT ![r].pc = "await", ![r].wait = reg[Key(rpc[r].item)]]
    <3>1. /\ rpc'[r].durable = rpc[r].durable /\ rpc'[r].item = rpc[r].item
          /\ rpc'[r].pc = "await"
      BY <1>0, <1>7, <2>2 DEF Interrupt, RpcAt, RpcType, RpcRec
    <3>2. \A o \in Rpcs : o # r => rpc'[o] = rpc[o]
      BY <1>0, <2>2 DEF RpcType
    <3> QED
      BY <1>0, <1>1, <3>1, <3>2 DEF Earned
  <2> QED
    BY <1>7, <2>1, <2>2 DEF Interrupt
<1>8. CASE OfferMatch(r)
  BY <1>2, <1>4, <1>8 DEF OfferMatch, RpcAt
<1>9. CASE \/ OfferRebind(r) \/ OfferUpsert(r) \/ OfferComplete(r) \/ StatusTouch(r)
           \/ StatusSpawn(r) \/ CancelStore(r) \/ Answer(r) \/ RpcFail(r)
  <2>1. Reply(r) \/ \E pc : RpcGoto(r, pc) /\ rpc[r] # NoRpc /\ pc # "complete"
    BY <1>9 DEF OfferRebind, OfferUpsert, OfferComplete, StatusTouch, StatusSpawn,
       CancelStore, Answer, RpcFail, RpcAt
  <2> QED
    BY <1>2, <1>4, <2>1
<1> QED
  BY <1>5, <1>6, <1>7, <1>8, <1>9 DEF RpcStep

LEMMA RpcEarned ==
  ASSUME Inv, Earned, [Next]_vars, NEW r \in Rpcs,
         RpcArrives(r) \/ RpcStep(r) \/ RpcFail(r)
  PROVE  Earned'
<1>0. TaskType /\ RpcType /\ Registry
  BY TypeParts DEF Inv
<1> DEFINE TasksFine == \A t \in Slots : task'[t] # NoTask /\ task'[t].pc \in {"receipt", "beaten"} =>
                           task'[t].item.hash \in Copies'
<1>1. CASE task' = task
  <2>1. TasksFine
    BY <1>1, TasksEarned
  <2> QED
    BY <2>1, HandlerEarned DEF Earned, Live
<1>2. CASE Spawn(rpc[r].item)
  <2>1. \A t \in Slots : task'[t] # NoTask => task'[t].pc = "fetch" \/ task'[t] = task[t]
    BY <1>0, <1>2 DEF Spawn, taskVars, TaskType
  <2>2. TasksFine
    BY <2>1, TasksEarned
  <2> QED
    BY <2>2, HandlerEarned DEF Earned, Live
<1>3. CASE Interrupt(r) /\ reg[Key(rpc[r].item)] # None
  <2> DEFINE k == Key(rpc[r].item)
  <2>1. rpc[r].item \in Item
    BY <1>0, <1>3 DEF RpcType, RpcAt, RpcRec, Interrupt
  <2>2. k \in Keys
    BY <2>1 DEF Key, Keys, Item
  <2>3. reg[k] \in Slots /\ Live(reg[k])
    BY <1>0, <1>3, <2>2 DEF Registry, RegistryExact, TaskType
  <2>4. CancelTokens({reg[k]})
    BY <1>3 DEF Interrupt
  <2>5. TasksFine
    BY <2>3, <2>4, TokensEarned
  <2> QED
    BY <2>5, HandlerEarned DEF Earned, Live
<1>4. task' = task \/ Spawn(rpc[r].item) \/ (Interrupt(r) /\ reg[Key(rpc[r].item)] # None)
  BY DEF RpcArrives, RpcStep, RpcFail, Offer, Status, Suspend, Cancel, OfferRebind,
         OfferDurable, OfferUpsert, OfferMatch, OfferComplete, StatusTouch,
         StatusSpawn, CancelStore, Interrupt, Answer, taskVars
<1> QED
  BY <1>1, <1>2, <1>3, <1>4

LEMMA NextEarned ==
  ASSUME Inv, Staging, Earned, [Next]_vars
  PROVE  Earned'
<1>0. TaskType /\ Copies \subseteq Copies'
  BY TypeParts, CopiesStay DEF Inv
<1> DEFINE TasksFine == \A t \in Slots : task'[t] # NoTask /\ task'[t].pc \in {"receipt", "beaten"} =>
                           task'[t].item.hash \in Copies'
<1>1. CASE TasksFine /\ rpc' = rpc
  BY <1>0, <1>1 DEF Earned, Live
<1>2. CASE Elsewhere \/ \E h \in Hashes : UserDelete(h) \/ Adopt(h)
  <2>1. task' = task /\ rpc' = rpc
    BY <1>2, ElsewhereKeeps DEF UserDelete, Adopt, taskVars
  <2> QED
    BY <1>1, <2>1, TasksEarned
<1>3. CASE InterruptAll \/ \E p \in Phones : ReleaseInterrupt(p)
  <2>1. PICK S \in SUBSET Slots : (\A s \in S : Live(s)) /\ CancelTokens(S)
    BY <1>3 DEF InterruptAll, ReleaseInterrupt, InterruptedBy, Registered
  <2>2. rpc' = rpc
    BY <1>3 DEF InterruptAll, ReleaseInterrupt, TaskFrame
  <2> QED
    BY <1>1, <2>1, <2>2, TokensEarned
<1>4. ASSUME NEW s \in Slots, TaskExit(s) PROVE Earned'
  <2>1. \A t \in Slots : task'[t] # NoTask => task'[t] = task[t]
    BY <1>0, <1>4 DEF TaskExit, TaskType
  <2>2. TasksFine
    BY <2>1, TasksEarned
  <2>3. RpcType
    BY TypeParts DEF Inv
  <2>4. \A r \in Rpcs : /\ rpc'[r].durable = rpc[r].durable
                        /\ rpc'[r].item = rpc[r].item /\ rpc'[r].pc = rpc[r].pc
    BY <1>4, <2>3 DEF TaskExit, RpcType, RpcRec, NoRpc
  <2> QED
    BY <1>0, <2>2, <2>4 DEF Earned, Live
<1>5. CASE Restart
  BY <1>5 DEF Restart, Earned, Live, NoRpc
<1> QED
  BY <1>2, <1>3, <1>4, <1>5, TaskEarned, RpcEarned DEF Next, Elsewhere

-----------------------------------------------------------------------------
(* The refinement.  RowBar is what the ledger sees of the grant rows.      *)

RowBar == [p \in Phones |-> [q \in Seqs |->
             [state |-> grant[p][q].state, hash |-> grant[p][q].hash,
              receipt |-> grant[p][q].receipt]]]

LEMMA BarGrid == RowBar = [p \in Phones |-> [q \in Seqs |-> RowBar[p][q]]]
  BY DEF RowBar

LEMMA BarVars ==
  ASSUME RowBar' = RowBar, UNCHANGED <<library, lost, undone>>
  PROVE  UNCHANGED Ledger!vars
  BY DEF RowBar, Ledger!vars

LEMMA SameBar ==
  ASSUME \A p \in Phones, q \in Seqs :
           /\ grant'[p][q].state = grant[p][q].state
           /\ grant'[p][q].hash = grant[p][q].hash
           /\ grant'[p][q].receipt = grant[p][q].receipt
  PROVE  RowBar' = RowBar
  BY DEF RowBar

(* Editing one place of a grid.                                            *)
LEMMA GridEdit ==
  ASSUME NEW P, NEW Q, NEW f, f = [a \in P |-> [b \in Q |-> f[a][b]]],
         NEW p \in P, NEW q \in Q, NEW v
  PROVE  [f EXCEPT ![p][q] = v] =
           [a \in P |-> [b \in Q |-> IF a = p /\ b = q THEN v ELSE f[a][b]]]
<1> DEFINE g == [f EXCEPT ![p][q] = v]
<1>1. DOMAIN f = P /\ \A a \in P : f[a] = [b \in Q |-> f[a][b]]
  OBVIOUS
<1>2. g[p] = [b \in Q |-> IF b = q THEN v ELSE f[p][b]]
  BY <1>1
<1>3. \A a \in P : a # p => g[a] = f[a]
  BY <1>1
<1>4. g = [a \in P |-> g[a]]
  BY <1>1
<1>5. \A a \in P : g[a] = [b \in Q |-> IF a = p /\ b = q THEN v ELSE f[a][b]]
  BY <1>1, <1>2, <1>3
<1> HIDE DEF g
<1>6. g = [a \in P |-> [b \in Q |-> IF a = p /\ b = q THEN v ELSE f[a][b]]]
  BY <1>4, <1>5
<1> QED
  BY <1>6 DEF g

LEMMA SeenCancelled ==
  ASSUME NEW p \in Phones, NEW q \in Seqs, RowBar[p][q].state = "active",
         RowBar' = [RowBar EXCEPT ![p][q].state = "cancelled"],
         UNCHANGED <<library, lost, undone>>
  PROVE  Ledger!Cancel(p, q)
  BY DEF Ledger!Cancel, RowBar

LEMMA SeenCompleted ==
  ASSUME NEW p \in Phones, NEW q \in Seqs, NEW id, RowBar[p][q].state = "active",
         RowBar[p][q].hash \in Copies,
         RowBar' = [RowBar EXCEPT ![p][q] = [state |-> "completed",
                                             hash |-> RowBar[p][q].hash, receipt |-> id]],
         UNCHANGED <<library, lost, undone>>
  PROVE  Ledger!Complete(p, q, id)
  BY DEF Ledger!Complete, RowBar, Copies

LEMMA EditBar ==
  ASSUME NEW i \in Item, NEW row \in GrantRow, grant \in RowTypes, SetRow(i, row)
  PROVE  RowBar' = [RowBar EXCEPT ![i.phone][i.seq] =
                                  [state |-> row.state, hash |-> row.hash,
                                   receipt |-> row.receipt]]
<1>1. \A p \in Phones, q \in Seqs :
         grant'[p][q] = IF p = i.phone /\ q = i.seq THEN row ELSE grant[p][q]
  BY SetRowType
<1>2. i.phone \in Phones /\ i.seq \in Seqs
  BY DEF Item
<1> DEFINE new == [state |-> row.state, hash |-> row.hash, receipt |-> row.receipt]
<1>3. RowBar' = [p \in Phones |-> [q \in Seqs |->
                   IF p = i.phone /\ q = i.seq THEN new ELSE RowBar[p][q]]]
  BY <1>1 DEF RowBar
<1> HIDE DEF new
<1>5. [RowBar EXCEPT ![i.phone][i.seq] = new] =
        [p \in Phones |-> [q \in Seqs |->
           IF p = i.phone /\ q = i.seq THEN new ELSE RowBar[p][q]]]
  BY <1>2, BarGrid, GridEdit
<1> QED
  BY <1>3, <1>5 DEF new

LEMMA OfferBar ==
  ASSUME NEW i \in Item, grant \in RowTypes, Row(i).state # "completed",
         SetRow(i, [state |-> "active", lease |-> i.lease, hash |-> i.hash,
                    receipt |-> None, stale |-> FALSE]),
         UNCHANGED <<library, lost, undone>>
  PROVE  Ledger!Next
<1> DEFINE row == [state |-> "active", lease |-> i.lease, hash |-> i.hash,
                   receipt |-> None, stale |-> FALSE]
<1>1. i.phone \in Phones /\ i.seq \in Seqs /\ i.lease \in Leases /\ i.hash \in Hashes
  BY DEF Item
<1>2. row \in GrantRow
  BY <1>1 DEF GrantRow
<1>3. RowBar' = [RowBar EXCEPT ![i.phone][i.seq] =
                    [state |-> "active", hash |-> i.hash, receipt |-> None]]
  BY <1>2, EditBar
<1>4. RowBar[i.phone][i.seq].state # "completed"
  BY <1>1 DEF RowBar, Row
<1>5. Ledger!Offer(i.phone, i.seq, i.hash)
  BY <1>3, <1>4 DEF Ledger!Offer, RowBar
<1> QED
  BY <1>1, <1>5 DEF Ledger!Next

LEMMA CancelBar ==
  ASSUME NEW i \in Item, grant \in RowTypes, ExactActive(i), CancelRow(i),
         UNCHANGED <<library, lost, undone>>
  PROVE  Ledger!Next
<1> DEFINE row == [Row(i) EXCEPT !.state = "cancelled"]
           bar == RowBar[i.phone][i.seq]
<1>1. i.phone \in Phones /\ i.seq \in Seqs
  BY DEF Item
<1>2. Row(i) \in GrantRow /\ Row(i).state = "active"
  BY StoredRow DEF ExactActive, Matches, Stored
<1>3. /\ row \in GrantRow /\ row.state = "cancelled"
      /\ row.hash = Row(i).hash /\ row.receipt = Row(i).receipt
  BY <1>2 DEF GrantRow
<1>4. bar = [state |-> "active", hash |-> Row(i).hash, receipt |-> Row(i).receipt]
  BY <1>1, <1>2 DEF RowBar, Row
<1>5. RowBar' = [RowBar EXCEPT ![i.phone][i.seq] =
                   [state |-> "cancelled", hash |-> Row(i).hash, receipt |-> Row(i).receipt]]
  BY <1>3, EditBar DEF CancelRow
<1>6. [bar EXCEPT !.state = "cancelled"] =
        [state |-> "cancelled", hash |-> Row(i).hash, receipt |-> Row(i).receipt]
  BY <1>4
<1>7. RowBar[i.phone][i.seq].state = "active"
  BY <1>4
<1>8. RowBar' = [RowBar EXCEPT ![i.phone][i.seq].state = "cancelled"]
  BY <1>5, <1>6
<1>9. Ledger!Cancel(i.phone, i.seq)
  BY <1>1, <1>7, <1>8, SeenCancelled, Zenon
<1> QED
  BY <1>1, <1>9 DEF Ledger!Next

LEMMA CompleteBar ==
  ASSUME NEW i \in Item, grant \in RowTypes, Complete(i), i.hash \in Copies,
         UNCHANGED <<library, lost, undone>>
  PROVE  [Ledger!Next]_(Ledger!vars)
<1>1. CASE ~ExactActive(i)
  BY <1>1, SameBar, BarVars DEF Complete
<1>2. CASE ExactActive(i)
  <2>1. PICK id \in Receipts :
          SetRow(i, [Row(i) EXCEPT !.state = "completed", !.receipt = id])
    BY <1>2 DEF Complete
  <2> DEFINE row == [Row(i) EXCEPT !.state = "completed", !.receipt = id]
  <2>2. i.phone \in Phones /\ i.seq \in Seqs
    BY DEF Item
  <2>3. Row(i) \in GrantRow /\ Row(i).state = "active" /\ Row(i).hash = i.hash
    BY <1>2, StoredRow DEF ExactActive, Matches, Stored
  <2>4. /\ row \in GrantRow /\ row.state = "completed"
        /\ row.hash = Row(i).hash /\ row.receipt = id
    BY <2>3, DeliveryAssumption DEF GrantRow
  <2>5. RowBar[i.phone][i.seq].state = "active" /\ RowBar[i.phone][i.seq].hash \in Copies
    BY <2>2, <2>3 DEF RowBar, Row
  <2>6. RowBar' = [RowBar EXCEPT ![i.phone][i.seq] =
                    [state |-> "completed", hash |-> Row(i).hash, receipt |-> id]]
    BY <2>1, <2>4, EditBar
  <2>7. RowBar[i.phone][i.seq].hash = Row(i).hash
    BY <2>2 DEF RowBar, Row
  <2>8. Ledger!Complete(i.phone, i.seq, id)
    BY <2>1, <2>2, <2>5, <2>6, <2>7, SeenCompleted
  <2> QED
    BY <2>2, <2>8 DEF Ledger!Next
<1> QED
  BY <1>1, <1>2

LEMMA ForgetBar ==
  ASSUME NEW P \in SUBSET Phones, UNCHANGED <<library, lost, undone>>,
         \A p \in Phones : grant'[p] = IF p \in P THEN [q \in Seqs |-> NoGrant]
                                                 ELSE grant[p]
  PROVE  Ledger!Next
<1>1. RowBar' = [p \in Phones |-> IF p \in P
                   THEN [q \in Seqs |-> [state |-> "none", hash |-> None, receipt |-> None]]
                   ELSE RowBar[p]]
  <2>1. \A p \in Phones, q \in Seqs :
           RowBar'[p][q] = IF p \in P THEN [state |-> "none", hash |-> None, receipt |-> None]
                                      ELSE RowBar[p][q]
    <3> TAKE p \in Phones, q \in Seqs
    <3>1. CASE p \in P
      <4>1. grant'[p][q] = NoGrant
        BY <3>1
      <4>2. NoGrant.state = "none" /\ NoGrant.hash = None /\ NoGrant.receipt = None
        BY DEF NoGrant
      <4> QED
        BY <3>1, <4>1, <4>2 DEF RowBar
    <3>2. CASE p \notin P
      BY <3>2 DEF RowBar
    <3> QED
      BY <3>1, <3>2
  <2> QED
    BY <2>1 DEF RowBar
<1>2. Ledger!Forget(P)
  BY <1>1 DEF Ledger!Forget, Ledger!NoItem, RowBar
<1> QED
  BY <1>2 DEF Ledger!Next

LEMMA TouchBar ==
  ASSUME NEW i \in Item, NEW row \in GrantRow, grant \in RowTypes, SetRow(i, row),
         row.state = Row(i).state, row.hash = Row(i).hash,
         row.receipt = Row(i).receipt,
         UNCHANGED <<library, lost, undone>>
  PROVE  UNCHANGED Ledger!vars
<1>1. \A p \in Phones, q \in Seqs :
         grant'[p][q] = IF p = i.phone /\ q = i.seq THEN row ELSE grant[p][q]
  BY SetRowType
<1> QED
  BY <1>1, SameBar, BarVars DEF Row

LEMMA DropBar ==
  ASSUME NEW p \in Phones, grant \in RowTypes, DropRows(p), UNCHANGED <<library, lost, undone>>
  PROVE  Ledger!Next
<1>1. \A o \in Phones : grant'[o] = IF o \in {p} THEN [q \in Seqs |-> NoGrant]
                                                 ELSE grant[o]
  BY DEF DropRows, RowTypes
<1> QED
  BY <1>1, ForgetBar

-----------------------------------------------------------------------------
(* Every step is a step of the ledger, or one it does not see.             *)

LedgerStep == [Ledger!Next]_(Ledger!vars)

LEMMA Unseen ==
  ASSUME UNCHANGED <<grant, library, lost, undone>>
  PROVE  LedgerStep
  BY SameBar, BarVars DEF LedgerStep

LEMMA TaskLedger ==
  ASSUME Inv, Staging, Earned, NEW s \in Slots, TaskStep(s) \/ TaskFail(s) \/ TaskAbort(s) \/ AdoptPlaced(s)
  PROVE  LedgerStep
<1>0. TypeInv /\ LibraryType /\ RowType /\ Live(s) /\ task[s].item \in Item
  BY TypeParts, TaskMoves, LiveItem DEF Inv
<1> DEFINE h == task[s].item.hash
<1>3. ASSUME library' = library \cup {h}, UNCHANGED <<lost, undone, grant>>
      PROVE  LedgerStep
  <2>1. Ledger!Keep(h) /\ h \in Hashes
    BY <1>0, <1>3 DEF Ledger!Keep, Item
  <2> QED
    BY <2>1 DEF LedgerStep, Ledger!Next
<1>4. ASSUME RollBack(s), UNCHANGED <<lost, grant>> PROVE LedgerStep
  <2>1. CASE h \in library
    <3>1. Ledger!TakeBack(h)
      BY <1>4, <2>1 DEF RollBack, Ledger!TakeBack
    <3> QED
      BY <1>0, <3>1 DEF LedgerStep, Ledger!Next, Item
  <2>2. CASE h \notin library
    BY <1>4, <2>2, Unseen DEF RollBack
  <2> QED
    BY <2>1, <2>2
<1>5. CASE Insert(s) /\ At(s, "insert")
  <2>1. task[s].whole
    BY <1>0, <1>5 DEF Staging, Ready, At
  <2> QED
    BY <1>3, <1>5, <2>1 DEF Insert, At
<1>6. CASE Insert(s) /\ At(s, "beaten")
  BY <1>4, <1>6 DEF Insert, At
<1>7. CASE TaskFail(s)
  <2>1. grant' = grant /\ lost' = lost
    BY <1>7 DEF TaskFail, libraryVars
  <2>2. CASE UNCHANGED <<library, undone>>
    BY <2>1, <2>2, Unseen
  <2>3. CASE RollBack(s)
    BY <1>4, <2>1, <2>3
  <2> QED
    BY <1>7, <2>2, <2>3 DEF TaskFail, libraryVars
<1>8. CASE AdoptPlaced(s)
  BY <1>3, <1>8 DEF AdoptPlaced
<1>2. CASE ~Shelves(s)
  <2>1. UNCHANGED <<library, lost, undone>>
    BY <1>2, TaskCopies
  <2>2. CASE Drop(s) /\ ExactActive(task[s].item)
    BY <1>0, <2>1, <2>2, CancelBar DEF Drop, RowType, LedgerStep
  <2>3. CASE WriteReceipt(s)
    <3>1. Complete(task[s].item) /\ task[s].item.hash \in Copies
      BY <1>0, <2>3 DEF WriteReceipt, At, Earned
    <3> QED
      BY <1>0, <2>1, <3>1, CompleteBar DEF RowType, LedgerStep
  <2>4. grant' = grant \/ (Drop(s) /\ ExactActive(task[s].item)) \/ WriteReceipt(s)
    BY <1>2 DEF Shelves, TaskStep, TaskAbort, Fetch, Verify, Export, Exported,
                Authorize, Drop, HashFile, Lookup, Place
  <2> QED
    BY <2>1, <2>2, <2>3, <2>4, Unseen
<1> QED
  BY <1>2, <1>5, <1>6, <1>7, <1>8 DEF Shelves, Insert

LEMMA RpcLedger ==
  ASSUME Inv, Earned, NEW r \in Rpcs, RpcArrives(r) \/ RpcStep(r) \/ RpcFail(r)
  PROVE  LedgerStep
<1> DEFINE i == rpc[r].item
<1>0. /\ RpcType /\ grant \in RowTypes /\ UNCHANGED <<library, lost, undone>>
      /\ rpc[r] # NoRpc => i \in Item
  BY TypeParts, RpcCopies DEF Inv, RowType, RpcType, RpcRec
<1>1. CASE OfferRebind(r) /\ grant' # grant
  <2> DEFINE row == [Row(i) EXCEPT !.lease = i.lease]
  <2>1. i \in Item /\ Row(i).state = "completed" /\ SetRow(i, row)
    BY <1>0, <1>1 DEF OfferRebind, RpcAt
  <2>2. Row(i) \in GrantRow /\ i.lease \in Leases
    BY <1>0, <2>1, StoredRow DEF Item
  <2>3. /\ row \in GrantRow /\ row.state = Row(i).state /\ row.hash = Row(i).hash
        /\ row.receipt = Row(i).receipt
    BY <2>2 DEF GrantRow
  <2> QED
    BY <1>0, <2>1, <2>3, TouchBar DEF LedgerStep
<1>2. CASE OfferUpsert(r) /\ grant' # grant
  <2>1. /\ i \in Item /\ Row(i).state # "completed"
        /\ SetRow(i, [state |-> "active", lease |-> i.lease, hash |-> i.hash,
                      receipt |-> None, stale |-> FALSE])
    BY <1>0, <1>2 DEF OfferUpsert, RpcAt
  <2> QED
    BY <1>0, <2>1, OfferBar DEF LedgerStep
<1>3. CASE OfferComplete(r)
  <2>1. i \in Item /\ i.hash \in Copies /\ Complete(i)
    BY <1>0, <1>3 DEF OfferComplete, RpcAt, Earned
  <2> QED
    BY <1>0, <2>1, CompleteBar DEF LedgerStep
<1>4. CASE StatusTouch(r) /\ grant' # grant
  <2> DEFINE row == [Row(i) EXCEPT !.stale = FALSE]
  <2>1. i \in Item /\ Row(i).state = "active" /\ SetRow(i, row)
    BY <1>0, <1>4 DEF StatusTouch, RpcAt
  <2>2. Row(i) \in GrantRow
    BY <1>0, <2>1, StoredRow
  <2>3. /\ row \in GrantRow /\ row.state = Row(i).state /\ row.hash = Row(i).hash
        /\ row.receipt = Row(i).receipt
    BY <2>2 DEF GrantRow
  <2> QED
    BY <1>0, <2>1, <2>3, TouchBar DEF LedgerStep
<1>5. CASE CancelStore(r) /\ grant' # grant
  <2>1. i \in Item /\ ExactActive(i) /\ CancelRow(i)
    BY <1>0, <1>5 DEF CancelStore, RpcAt
  <2> QED
    BY <1>0, <2>1, CancelBar DEF LedgerStep
<1>6. \/ grant' = grant
      \/ OfferRebind(r) \/ OfferUpsert(r) \/ OfferComplete(r)
      \/ StatusTouch(r) \/ CancelStore(r)
  BY DEF RpcArrives, RpcStep, RpcFail, Offer, Status, Suspend, Cancel, OfferDurable,
         OfferMatch, StatusSpawn, Interrupt, Answer
<1> QED
  BY <1>0, <1>1, <1>2, <1>3, <1>4, <1>5, <1>6, Unseen

LEMMA ElsewhereLedger ==
  ASSUME Inv, Elsewhere
  PROVE  LedgerStep
<1>0. /\ grant \in RowTypes /\ PairingType /\ SweepType
      /\ UNCHANGED <<library, lost, undone>>
  BY TypeParts, ElsewhereKeeps DEF Inv, RowType, libraryVars
<1>1. ASSUME NEW p \in Phones, DropRows(p) PROVE LedgerStep
  BY <1>0, <1>1, DropBar DEF LedgerStep
<1>2. CASE (AcceptFail \/ RemoveEnd) /\ writer # None
  <2>1. writer.phone \in Phones /\ DropRows(writer.phone)
    BY <1>0, <1>2 DEF AcceptFail, RemoveEnd, PairingType
  <2> QED
    BY <1>1, <2>1
<1>3. ASSUME NEW p \in Phones, NEW q \in Seqs, GrantAges(p, q) PROVE LedgerStep
  <2>1. \A o \in Phones, n \in Seqs : /\ grant'[o][n].state = grant[o][n].state
                                      /\ grant'[o][n].hash = grant[o][n].hash
                                      /\ grant'[o][n].receipt = grant[o][n].receipt
    BY <1>0, <1>3 DEF GrantAges, RowTypes, GrantRow, NoGrant
  <2> QED
    BY <1>0, <2>1, SameBar, BarVars DEF LedgerStep
<1>4. CASE SweepCancel /\ grant' # grant
  <2>1. sweep.target \in Item /\ ExactActive(sweep.target) /\ CancelRow(sweep.target)
    BY <1>0, <1>4 DEF SweepCancel, SweepType
  <2> QED
    BY <1>0, <2>1, CancelBar DEF LedgerStep
<1>5. \/ grant' = grant
      \/ \E p \in Phones : DropRows(p)
      \/ (AcceptFail \/ RemoveEnd) /\ writer # None
      \/ \E p \in Phones, q \in Seqs : GrantAges(p, q)
      \/ SweepCancel
  BY DEF Elsewhere, AcceptBegin, AcceptEnd, AcceptFail, RemoveBegin, RemoveEnd,
         RemoveFail, ReleaseDone, SweepSelect, SweepCheck, vars
<1> QED
  BY <1>0, <1>1, <1>2, <1>3, <1>4, <1>5, Unseen

LEMMA NextLedger ==
  ASSUME Inv, Staging, Earned, [Next]_vars
  PROVE  LedgerStep
<1>1. CASE Elsewhere
  BY <1>1, ElsewhereLedger
<1>2. CASE \/ InterruptAll \/ \E p \in Phones : ReleaseInterrupt(p)
           \/ \E s \in Slots : TaskExit(s)
  BY <1>2, Unseen DEF InterruptAll, ReleaseInterrupt, TaskExit, libraryVars
<1>3. ASSUME NEW h \in Hashes, UserDelete(h) PROVE LedgerStep
  <2>1. /\ library' = library \ {h} /\ lost' = lost \cup {h}
        /\ undone' = undone /\ grant' = grant
    BY <1>3 DEF UserDelete
  <2>2. Ledger!Remove(h)
    BY <2>1 DEF Ledger!Remove
  <2> QED
    BY <2>2 DEF LedgerStep, Ledger!Next
<1>4. ASSUME NEW h \in Hashes, Adopt(h) PROVE LedgerStep
  <2>1. library' = library \cup {h} /\ UNCHANGED <<lost, undone, grant>>
    BY <1>4 DEF Adopt
  <2>2. Ledger!Keep(h)
    BY <2>1 DEF Ledger!Keep
  <2> QED
    BY <2>2 DEF LedgerStep, Ledger!Next
<1>5. CASE Restart
  <2> DEFINE P == {p \in Phones : auth'[p] # mirror[p]}
  <2>1. UNCHANGED <<library, lost, undone>>
    BY <1>5 DEF Restart
  <2>2. \A p \in Phones : grant'[p] = IF p \in P THEN [q \in Seqs |-> NoGrant]
                                               ELSE grant[p]
    BY <1>5 DEF Restart
  <2> QED
    BY <2>1, <2>2, ForgetBar DEF LedgerStep
<1> QED
  BY <1>1, <1>2, <1>3, <1>4, <1>5, TaskLedger, RpcLedger DEF Next, Elsewhere

LEMMA InitLedger == Init => Ledger!Init
  BY DEF Init, Ledger!Init, Ledger!NoItem, NoGrant

-----------------------------------------------------------------------------
(* The invariant, and what follows from it.                                *)

LEMMA InitStaging == Init => OwnPath /\ Staging /\ Earned
  BY DEF Init, OwnPath, Staging, Ready, Earned, Live, NoRpc

LEMMA StagingAlways == ASSUME Apart PROVE Spec => [](Inv /\ OwnPath /\ Staging /\ Earned)
<1>1. Init => Inv /\ OwnPath /\ Staging /\ Earned
  BY InitInv, InitStaging
<1>2. Inv /\ OwnPath /\ Staging /\ Earned /\ [Next]_vars
        => (Inv /\ OwnPath /\ Staging /\ Earned)'
  BY NextInv, NextOwnPath, NextStaging, NextEarned
<1> QED
  BY <1>1, <1>2, PTL DEF Spec

(* However tasks are aborted, fail, restart or overtake each other, no     *)
(* staging file is hashed or moved into originals/ half-written, as long   *)
(* as no photo is fetched under two leases at once.                        *)
THEOREM NothingTorn == Apart => (Spec => []NoPartialPhoto)
<1>1. Inv /\ Staging /\ Earned => NoPartialPhoto
  BY DEF Staging, NoPartialPhoto
<1> SUFFICES ASSUME Apart PROVE Spec => []NoPartialPhoto
  OBVIOUS
<1> QED
  BY <1>1, StagingAlways, PTL

(* What is completed after a step of the ledger was so before it, or is    *)
(* covered now.                                                            *)
LEMMA BarAt ==
  ASSUME NEW p \in Phones, NEW q \in Seqs, NEW v,
         RowBar' = [RowBar EXCEPT ![p][q] = v]
  PROVE  \A o \in Phones, n \in Seqs :
           RowBar'[o][n] = IF o = p /\ n = q THEN v ELSE RowBar[o][n]
<1>1. RowBar' = [o \in Phones |-> [n \in Seqs |->
                   IF o = p /\ n = q THEN v ELSE RowBar[o][n]]]
  BY BarGrid, GridEdit
<1> QED
  BY <1>1

LEMMA LedgerCovers ==
  ASSUME LedgerStep, NEW o \in Phones, NEW n \in Seqs, RowBar'[o][n].state = "completed"
  PROVE  RowBar'[o][n] = RowBar[o][n] \/ RowBar'[o][n].hash \in Copies
<1> DEFINE Goal == RowBar'[o][n] = RowBar[o][n] \/ RowBar'[o][n].hash \in Copies
<1>1. CASE UNCHANGED Ledger!vars \/ \E h \in Hashes : \/ Ledger!Keep(h) \/ Ledger!Remove(h)
                                                   \/ Ledger!TakeBack(h)
  BY <1>1 DEF Ledger!vars, Ledger!Keep, Ledger!Remove, Ledger!TakeBack, RowBar
<1>2. ASSUME NEW p \in Phones, NEW q \in Seqs, Ledger!Cancel(p, q) PROVE Goal
  <2>1. RowBar' = [RowBar EXCEPT ![p][q].state = "cancelled"]
    BY <1>2 DEF Ledger!Cancel, RowBar
  <2> DEFINE old == RowBar[p][q]
  <2>2. RowBar' = [RowBar EXCEPT ![p][q] =
                     [state |-> "cancelled", hash |-> grant[p][q].hash,
                      receipt |-> grant[p][q].receipt]]
    <3>1. old = [state |-> grant[p][q].state, hash |-> grant[p][q].hash,
                 receipt |-> grant[p][q].receipt]
      BY DEF RowBar
    <3>2. [old EXCEPT !.state = "cancelled"] =
            [state |-> "cancelled", hash |-> grant[p][q].hash,
             receipt |-> grant[p][q].receipt]
      BY <3>1
    <3> QED
      BY <2>1, <3>2
  <2> QED
    BY <2>2, BarAt
<1>3. ASSUME NEW p \in Phones, NEW q \in Seqs, NEW id \in Receipts,
             Ledger!Complete(p, q, id)
      PROVE  Goal
  <2> DEFINE old == RowBar[p][q]
  <2>1. old.hash \in Copies
    BY <1>3 DEF Ledger!Complete, RowBar, Copies
  <2>2. RowBar' = [RowBar EXCEPT ![p][q] = [old EXCEPT !.state = "completed",
                                                       !.receipt = id]]
    BY <1>3 DEF Ledger!Complete, RowBar
  <2>3. [old EXCEPT !.state = "completed", !.receipt = id].hash = old.hash
    BY DEF RowBar
  <2> HIDE DEF old
  <2> QED
    BY <2>1, <2>2, <2>3, BarAt
<1>4. ASSUME NEW p \in Phones, NEW q \in Seqs, NEW h \in Hashes, Ledger!Offer(p, q, h)
      PROVE  Goal
  <2>1. RowBar' = [RowBar EXCEPT ![p][q] = [state |-> "active", hash |-> h,
                                            receipt |-> None]]
    BY <1>4 DEF Ledger!Offer, RowBar
  <2> QED
    BY <2>1, BarAt
<1>5. ASSUME NEW P \in SUBSET Phones, Ledger!Forget(P) PROVE Goal
  <2>1. RowBar' = [p \in Phones |-> IF p \in P
                     THEN [q \in Seqs |-> [state |-> "none", hash |-> None,
                                            receipt |-> None]]
                     ELSE RowBar[p]]
    BY <1>5 DEF Ledger!Forget, Ledger!NoItem, RowBar
  <2> QED
    BY <2>1
<1> QED
  BY <1>1, <1>2, <1>3, <1>4, <1>5 DEF LedgerStep, Ledger!Next

LEMMA NextCompleted ==
  ASSUME CompletedHasCopy, Copies \subseteq Copies', LedgerStep
  PROVE  CompletedHasCopy'
<1> SUFFICES ASSUME NEW p \in Phones, NEW q \in Seqs, grant'[p][q].state = "completed"
             PROVE  grant'[p][q].hash \in Copies'
  BY DEF CompletedHasCopy, Copies
<1>1. /\ RowBar[p][q].state = grant[p][q].state /\ RowBar[p][q].hash = grant[p][q].hash
      /\ RowBar'[p][q].state = grant'[p][q].state
      /\ RowBar'[p][q].hash = grant'[p][q].hash
  BY DEF RowBar
<1>2. grant[p][q].state = "completed" => grant[p][q].hash \in Copies
  BY DEF CompletedHasCopy, Copies
<1> QED
  BY <1>1, <1>2, LedgerCovers

(* A receipt is durable evidence: whatever became of the task that wrote   *)
(* it, a completed item's photo is in the library unless the user himself  *)
(* removed it there or a roll-back took away the copy that the adopter had *)
(* indexed, as long as no photo is fetched under two leases at once.       *)
THEOREM CompletedKept == Apart => (Spec => []CompletedHasCopy)
<1> SUFFICES ASSUME Apart PROVE Spec => []CompletedHasCopy
  OBVIOUS
<1>1. Init => CompletedHasCopy
  BY DEF Init, CompletedHasCopy, NoGrant
<1>2. Inv /\ Staging /\ Earned /\ CompletedHasCopy /\ [Next]_vars => CompletedHasCopy'
  BY NextLedger, CopiesStay, NextCompleted
<1> QED
  BY <1>1, <1>2, StagingAlways, PTL DEF Spec

(* The adopter is the only cause: where nobody indexes a file before the   *)
(* task that placed it, no roll-back ever takes away an indexed copy, and  *)
(* a completed item's photo is gone only if the user removed it.           *)
NoneBeaten == undone = {} /\ \A s \in Slots : task[s].pc # "beaten"

LEMMA NextNoneBeaten ==
  ASSUME "adopt" \notin Events, Inv, NoneBeaten, [Next]_vars
  PROVE  NoneBeaten'
<1>0. TypeInv /\ TaskType /\ Registry
  BY TypeParts DEF Inv
<1>1. ASSUME undone' = undone, \A t \in Slots : task'[t].pc \in {task[t].pc, "fetch", "none"}
      PROVE  NoneBeaten'
  BY <1>1 DEF NoneBeaten
<1>2. ASSUME NEW s \in Slots, TaskStep(s) \/ TaskFail(s) \/ TaskAbort(s) \/ AdoptPlaced(s)
      PROVE  NoneBeaten'
  <2>1. Live(s) /\ \A t \in Slots : t # s => task'[t] = task[t]
    BY <1>0, <1>2, TaskMoves
  <2>2. ~AdoptPlaced(s) /\ ~At(s, "beaten")
    BY DEF NoneBeaten, AdoptPlaced, At
  <2>3. undone' = undone
    BY <1>2, <2>2 DEF TaskStep, TaskFail, TaskAbort, Fetch, Verify, Export, Exported,
       Authorize, Drop, HashFile, Lookup, Place, Insert, WriteReceipt, libraryVars
  <2>4. task'[s].pc # "beaten"
    <3>1. CASE HashFile(s)
      BY <1>0, <2>1, <3>1, LiveItem DEF HashFile, TaskType, TaskRec
    <3>2. CASE ~HashFile(s)
      <4>1. PICK pc \in TaskPcs \ {"beaten"} : Goto(s, pc)
        BY <1>2, <2>2, <3>2 DEF TaskStep, TaskFail, TaskAbort, Fetch, Verify, Export,
           Exported, Authorize, Drop, Lookup, Place, Insert, WriteReceipt, TaskPcs,
           AbortPcs
      <4> QED
        BY <1>0, <2>1, <4>1, LiveItem DEF Goto, TaskType, TaskRec
    <3> QED
      BY <3>1, <3>2
  <2> QED
    BY <2>1, <2>3, <2>4 DEF NoneBeaten
<1>3. CASE Elsewhere \/ \E h \in Hashes : UserDelete(h) \/ Adopt(h)
  BY <1>1, <1>3, ElsewhereKeeps DEF UserDelete, Adopt, taskVars, libraryVars
<1>4. ASSUME NEW S \in SUBSET Slots, \A s \in S : Live(s), CancelTokens(S),
             undone' = undone
      PROVE  NoneBeaten'
  <2>1. \A t \in Slots : task'[t].pc = task[t].pc
    BY <1>0, <1>4 DEF CancelTokens, TaskType, TaskRec, NoTask, Live
  <2> QED
    BY <1>1, <1>4, <2>1
<1>5. CASE InterruptAll \/ \E p \in Phones : ReleaseInterrupt(p)
  <2>1. PICK S \in SUBSET Slots : (\A s \in S : Live(s)) /\ CancelTokens(S)
    BY <1>5 DEF InterruptAll, ReleaseInterrupt, InterruptedBy, Registered
  <2> QED
    BY <1>4, <1>5, <2>1 DEF InterruptAll, ReleaseInterrupt, libraryVars
<1>6. ASSUME NEW s \in Slots, TaskExit(s) PROVE NoneBeaten'
  BY <1>0, <1>1, <1>6 DEF TaskExit, TaskType, NoTask, libraryVars
<1>7. CASE Restart
  BY <1>7 DEF Restart, NoneBeaten, NoTask
<1>8. ASSUME NEW r \in Rpcs, RpcArrives(r) \/ RpcStep(r) \/ RpcFail(r) PROVE NoneBeaten'
  <2>1. undone' = undone
    BY <1>8, RpcCopies
  <2>2. CASE task' = task
    BY <1>1, <2>1, <2>2
  <2>3. CASE Spawn(rpc[r].item)
    BY <1>0, <1>1, <2>1, <2>3 DEF Spawn, taskVars, TaskType
  <2>4. CASE Interrupt(r) /\ reg[Key(rpc[r].item)] # None
    <3> DEFINE k == Key(rpc[r].item)
    <3>1. rpc[r].item \in Item
      BY <2>4, TypeParts DEF Inv, RpcType, RpcAt, RpcRec, Interrupt
    <3>2. k \in Keys
      BY <3>1 DEF Key, Keys, Item
    <3>3. reg[k] \in Slots /\ Live(reg[k])
      BY <1>0, <2>4, <3>2 DEF Registry, RegistryExact, TaskType
    <3>4. CancelTokens({reg[k]})
      BY <2>4 DEF Interrupt
    <3> QED
      BY <1>4, <2>1, <3>3, <3>4
  <2>5. \/ task' = task \/ Spawn(rpc[r].item)
        \/ (Interrupt(r) /\ reg[Key(rpc[r].item)] # None)
    BY <1>8 DEF RpcArrives, RpcStep, RpcFail, Offer, Status, Suspend, Cancel, OfferRebind,
       OfferDurable, OfferUpsert, OfferMatch, OfferComplete, StatusTouch,
       StatusSpawn, CancelStore, Interrupt, Answer, taskVars
  <2> QED
    BY <2>2, <2>3, <2>4, <2>5
<1> QED
  BY <1>2, <1>3, <1>5, <1>6, <1>7, <1>8 DEF Next, Elsewhere

(* Without an adopter the promise of a receipt has one exception only, the *)
(* user: flow.delivered stands for a photo in originals/ and its row.      *)
THEOREM KeptButForTheUser ==
  Apart /\ "adopt" \notin Events =>
    (Spec => [](\A p \in Phones, q \in Seqs :
                  grant[p][q].state = "completed" => grant[p][q].hash \in library \cup lost))
<1> DEFINE Kept == \A p \in Phones, q \in Seqs :
                     grant[p][q].state = "completed" => grant[p][q].hash \in library \cup lost
<1> SUFFICES ASSUME Apart, "adopt" \notin Events PROVE Spec => []Kept
  OBVIOUS
<1>1. Init => NoneBeaten
  BY DEF Init, NoneBeaten, NoTask
<1>2. Inv /\ NoneBeaten /\ [Next]_vars => NoneBeaten'
  BY NextNoneBeaten
<1>3. NoneBeaten /\ CompletedHasCopy => Kept
  BY DEF NoneBeaten, CompletedHasCopy
<1>4. Spec => []NoneBeaten
  BY <1>1, <1>2, InvAlways, PTL DEF Spec
<1> QED
  BY <1>3, <1>4, CompletedKept, PTL

(* The delivery engine, with its tasks, handlers, staging files, retries,  *)
(* restarts and removals, does only what the ledger allows: an item is     *)
(* completed once, only from active, only with its photo kept or taken out *)
(* in a step of its own, and stays so, with its receipt, until the pairing *)
(* ends.                                                                   *)
THEOREM LedgerImplemented == Apart => (Spec => ImplementsLedger)
<1> SUFFICES ASSUME Apart PROVE Spec => ImplementsLedger
  OBVIOUS
<1>1. Inv /\ Staging /\ Earned /\ [Next]_vars => [Ledger!Next]_(Ledger!vars)
  BY NextLedger DEF LedgerStep
<1> QED
  BY <1>1, InitLedger, StagingAlways, PTL DEF Spec, Ledger!Spec, ImplementsLedger
=============================================================================
