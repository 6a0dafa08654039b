------------------------ MODULE FlowDelivery_proofs ------------------------
(***************************************************************************)
(* Proofs about FlowDelivery, for every number of phones, items, handlers, *)
(* tasks and pairings and every choice of Vault and Events.                *)
(***************************************************************************)
EXTENDS FlowDelivery, TLAPS

(* A row hangs off a pairing row (the foreign key of flow_delivery).       *)
RowsArePaired ==
    \A p \in Phones, q \in Seqs : grant[p][q].state # "none" => mirror[p] # 0

TypeInv == TypeOK /\ RowsArePaired

RowTypes == [Phones -> [Seqs -> GrantRow \cup {NoGrant}]]

-----------------------------------------------------------------------------
(* What the row updates preserve.                                          *)

LEMMA SetRowType ==
  ASSUME NEW i \in Item, NEW row \in GrantRow, grant \in RowTypes,
         SetRow(i, row)
  PROVE  /\ grant' \in RowTypes
         /\ \A p \in Phones, q \in Seqs :
              grant'[p][q] = IF p = i.phone /\ q = i.seq THEN row ELSE grant[p][q]
  BY DEF SetRow, Item, RowTypes

LEMMA StoredRow ==
  ASSUME NEW i \in Item, grant \in RowTypes, Row(i).state # "none"
  PROVE  Row(i) \in GrantRow
  BY DEF Row, Item, RowTypes, NoGrant

LEMMA SetRowPaired ==
  ASSUME NEW i \in Item, NEW row \in GrantRow, grant \in RowTypes, RowsArePaired,
         mirror[i.phone] = i.pairing, mirror' = mirror, SetRow(i, row)
  PROVE  grant' \in RowTypes /\ RowsArePaired'
<1>1. i.pairing # 0
  BY DEF Item, PairingIds
<1> QED
  BY <1>1, SetRowType DEF RowsArePaired

LEMMA CancelType ==
  ASSUME NEW i \in Item, grant \in RowTypes, RowsArePaired, mirror' = mirror,
         ExactActive(i), CancelRow(i)
  PROVE  grant' \in RowTypes /\ RowsArePaired'
<1>1. [Row(i) EXCEPT !.state = "cancelled"] \in GrantRow
  BY StoredRow DEF ExactActive, Matches, Stored, GrantRow
<1> QED
  BY <1>1, SetRowPaired DEF CancelRow, ExactActive, Matches, Stored

LEMMA CompleteType ==
  ASSUME NEW i \in Item, grant \in RowTypes, RowsArePaired, mirror' = mirror,
         Complete(i)
  PROVE  grant' \in RowTypes /\ RowsArePaired'
<1>1. CASE ExactActive(i)
  <2>1. PICK id \in Receipts :
          SetRow(i, [Row(i) EXCEPT !.state = "completed", !.receipt = id])
    BY <1>1 DEF Complete
  <2>2. [Row(i) EXCEPT !.state = "completed", !.receipt = id] \in GrantRow
    BY <1>1, StoredRow, DeliveryAssumption
    DEF ExactActive, Matches, Stored, GrantRow
  <2> QED
    BY <1>1, <2>1, <2>2, SetRowPaired DEF ExactActive, Matches, Stored
<1>2. CASE ~ExactActive(i)
  BY <1>2 DEF Complete, RowsArePaired
<1> QED
  BY <1>1, <1>2

LEMMA DropRowsType ==
  ASSUME NEW p \in Phones, grant \in RowTypes, RowsArePaired, DropRows(p),
         \A o \in Phones : o # p => mirror'[o] = mirror[o]
  PROVE  grant' \in RowTypes /\ RowsArePaired'
  BY DEF DropRows, RowTypes, RowsArePaired, NoGrant

-----------------------------------------------------------------------------
(* Type correctness.                                                       *)

(* Everything but the rows: the part of TypeOK each group of steps moves.  *)
PairingType ==
    /\ auth \in [Phones -> 0..MaxPairings]
    /\ lastPairing \in 0..MaxPairings
    /\ writer \in [op: {"accept", "remove"}, phone: Phones] \cup {None}
    /\ release \in [Phones -> [pc: {"idle", "interrupt", "drain"},
                               id: 0..MaxPairings, wait: SUBSET Slots]]
    /\ released \subseteq Phones \X (0..MaxPairings)

TaskType ==
    /\ task \in [Slots -> TaskRec \cup {NoTask}]
    /\ reg \in [Keys -> Slots \cup {None}]

LibraryType ==
    /\ staged \in [Paths -> StagedFile \cup {NoFile}]
    /\ library \subseteq Hashes
    /\ orphans \subseteq Hashes
    /\ lost \subseteq Hashes
    /\ undone \subseteq Hashes
    /\ torn \in BOOLEAN

RpcType == rpc \in [Rpcs -> RpcRec \cup {NoRpc}]

SweepType == sweep \in [list: SUBSET Item, target: Item \cup {None}]

RowType == /\ mirror \in [Phones -> 0..MaxPairings]
           /\ grant \in RowTypes
           /\ RowsArePaired

LEMMA TypeParts ==
  /\ TypeInv <=> /\ PairingType /\ TaskType /\ LibraryType
                 /\ RpcType /\ SweepType /\ RowType
  /\ TypeInv' <=> /\ PairingType' /\ TaskType' /\ LibraryType'
                  /\ RpcType' /\ SweepType' /\ RowType'
  BY DEF TypeInv, TypeOK, PairingType, TaskType, LibraryType, RpcType,
         SweepType, RowType, RowTypes

LEMMA InitType == Init => TypeInv
<1> SUFFICES ASSUME Init PROVE TypeInv
  OBVIOUS
<1>1. PairingType
  BY DeliveryAssumption DEF Init, PairingType
<1>2. TaskType
  BY DEF Init, TaskType
<1>3. LibraryType
  BY DEF Init, LibraryType
<1>4. RpcType
  BY DEF Init, RpcType
<1>5. SweepType
  BY DEF Init, SweepType
<1>6. RowType
  BY DeliveryAssumption DEF Init, RowType, RowTypes, RowsArePaired, NoGrant
<1> QED
  BY <1>1, <1>2, <1>3, <1>4, <1>5, <1>6, TypeParts

LEMMA GotoType ==
  ASSUME TaskType, NEW s \in Slots, Live(s), NEW pc \in TaskPcs, Goto(s, pc),
         reg' = reg
  PROVE  TaskType'
  BY DEF TaskType, Live, Goto, TaskRec, NoTask

LEMMA LiveItem ==
  ASSUME TaskType, NEW s \in Slots, Live(s)
  PROVE  task[s] \in TaskRec /\ task[s].item \in Item
  BY DEF TaskType, Live, TaskRec

LEMMA UnstageType ==
  ASSUME LibraryType, TaskType, NEW s \in Slots, Live(s), Unstage(s)
  PROVE  staged' \in [Paths -> StagedFile \cup {NoFile}]
  BY LiveItem DEF LibraryType, Unstage

(* The steps of a fetch task.                                              *)
LEMMA TaskStepType ==
  ASSUME TypeInv, NEW s \in Slots, TaskStep(s)
  PROVE  TypeInv'
<1> DEFINE i == task[s].item
<1>0. /\ PairingType /\ TaskType /\ LibraryType
      /\ RpcType /\ SweepType /\ RowType
  BY TypeParts
<1>1. TaskFrame => PairingType' /\ RpcType' /\ SweepType' /\ mirror' = mirror
                   /\ reg' = reg
  BY <1>0 DEF TaskFrame, pairingVars, PairingType, RpcType, SweepType
<1>2. UNCHANGED libraryVars => LibraryType'
  BY <1>0 DEF libraryVars, LibraryType
<1>3. mirror' = mirror /\ grant' = grant => RowType'
  BY <1>0 DEF RowType, RowsArePaired, RowTypes
<1>4. Live(s) => i \in Item /\ task[s] \in TaskRec
  BY <1>0, LiveItem
<1> USE DEF At, TaskPcs, AbortPcs, libraryVars
<1>5. CASE Fetch(s)
  BY <1>0, <1>1, <1>2, <1>3, <1>5, GotoType, TypeParts DEF Fetch
<1>6. CASE Verify(s)
  BY <1>0, <1>1, <1>2, <1>3, <1>6, GotoType, TypeParts DEF Verify
<1>7. CASE Export(s)
  <2>1. [by |-> s, whole |-> FALSE] \in StagedFile
    BY DEF StagedFile
  <2>2. staged' \in [Paths -> StagedFile \cup {NoFile}]
    <3>1. staged' = [staged EXCEPT ![StagedPath(i)] = [by |-> s, whole |-> FALSE]]
      BY <1>7 DEF Export
    <3>2. staged \in [Paths -> StagedFile \cup {NoFile}]
      BY <1>0 DEF LibraryType
    <3> HIDE DEF i
    <3> QED
      BY <2>1, <3>1, <3>2, Zenon
  <2>3. LibraryType'
    BY <1>0, <1>7, <2>2, Zenon DEF Export, LibraryType
  <2> QED
    BY <1>0, <1>1, <1>3, <1>7, <2>3, GotoType, TypeParts DEF Export
<1>8. CASE Exported(s)
  <2>1. [by |-> s, whole |-> TRUE] \in StagedFile
    BY DEF StagedFile
  <2>2. \/ staged' = staged
        \/ staged' = [staged EXCEPT ![StagedPath(i)] = [by |-> s, whole |-> TRUE]]
    BY <1>8 DEF Exported
  <2>3. staged \in [Paths -> StagedFile \cup {NoFile}]
    BY <1>0 DEF LibraryType
  <2>4. staged' \in [Paths -> StagedFile \cup {NoFile}]
    <3> HIDE DEF i
    <3> QED
      BY <2>1, <2>2, <2>3, Zenon
  <2>5. UNCHANGED <<library, orphans, lost, undone, torn>>
    BY <1>8 DEF Exported
  <2>6. LibraryType'
    BY <1>0, <2>4, <2>5 DEF LibraryType
  <2> QED
    BY <1>0, <1>1, <1>3, <1>8, <2>6, GotoType, TypeParts DEF Exported
<1>9. CASE Authorize(s)
  BY <1>0, <1>1, <1>2, <1>3, <1>9, GotoType, TypeParts DEF Authorize
<1>10. CASE Drop(s)
  <2>1. RowType'
    BY <1>0, <1>1, <1>3, <1>4, <1>10, CancelType DEF Drop, RowType
  <2> QED
    BY <1>0, <1>1, <1>2, <1>10, <2>1, GotoType, TypeParts DEF Drop
<1>11. CASE HashFile(s)
  <2>1. staged[StagedPath(i)] \in StagedFile
    BY <1>0, <1>4, <1>11 DEF HashFile, LibraryType, StagedPath, Paths, Item
  <2>2. TaskType'
    BY <1>0, <1>1, <1>4, <1>11, <2>1 DEF HashFile, TaskType, TaskRec, StagedFile
  <2> QED
    BY <1>1, <1>2, <1>3, <1>11, <2>2, TypeParts DEF HashFile
<1>12. CASE Lookup(s)
  <2>1. LibraryType'
    BY <1>0, <1>12, UnstageType DEF Lookup, LibraryType
  <2>2. TaskType'
    BY <1>0, <1>1, <1>12, GotoType DEF Lookup
  <2> QED
    BY <1>1, <1>3, <1>12, <2>1, <2>2, TypeParts DEF Lookup
<1>13. CASE Place(s)
  <2>1. LibraryType'
    BY <1>0, <1>13, UnstageType DEF Place, LibraryType
  <2> QED
    BY <1>0, <1>1, <1>3, <1>13, <2>1, GotoType, TypeParts DEF Place
<1>14. CASE Insert(s)
  <2>1. LibraryType'
    BY <1>0, <1>4, <1>14, UnstageType DEF Insert, RollBack, LibraryType, Item
  <2> QED
    BY <1>0, <1>1, <1>3, <1>14, <2>1, GotoType, TypeParts DEF Insert
<1>15. CASE WriteReceipt(s)
  <2>1. RowType'
    BY <1>0, <1>1, <1>4, <1>15, CompleteType DEF WriteReceipt, RowType
  <2> QED
    BY <1>0, <1>1, <1>2, <1>15, <2>1, GotoType, TypeParts DEF WriteReceipt
<1> QED
  BY <1>5, <1>6, <1>7, <1>8, <1>9, <1>10, <1>11, <1>12, <1>13, <1>14, <1>15
  DEF TaskStep

(* The other ends of a task, and the interrupts.                           *)
LEMMA TokensType ==
  ASSUME TaskType, NEW S \in SUBSET Slots, \A s \in S : Live(s),
         CancelTokens(S), reg' = reg
  PROVE  TaskType'
  BY DEF TaskType, CancelTokens, Live, TaskRec, NoTask

LEMMA TaskEndType ==
  ASSUME TypeInv, NEW s \in Slots,
         TaskFail(s) \/ TaskAbort(s) \/ TaskExit(s) \/ AdoptPlaced(s)
  PROVE  TypeInv'
<1> DEFINE i == task[s].item
<1>0. /\ PairingType /\ TaskType /\ LibraryType
      /\ RpcType /\ SweepType /\ RowType
  BY TypeParts
<1>1. TaskFrame => PairingType' /\ RpcType' /\ SweepType' /\ mirror' = mirror
                   /\ reg' = reg
  BY <1>0 DEF TaskFrame, pairingVars, PairingType, RpcType, SweepType
<1>2. mirror' = mirror /\ grant' = grant => RowType'
  BY <1>0 DEF RowType, RowsArePaired, RowTypes
<1>3. CASE TaskFail(s)
  <2>0. i \in Item
    BY <1>0, <1>3, LiveItem DEF TaskFail
  <2>1. LibraryType'
    BY <1>0, <1>3, <2>0 DEF TaskFail, RollBack, libraryVars, LibraryType, Item
  <2> QED
    BY <1>0, <1>1, <1>2, <1>3, <2>1, GotoType, TypeParts DEF TaskFail, TaskPcs
<1>4. CASE TaskAbort(s)
  <2>1. i \in Item
    BY <1>0, <1>4, LiveItem DEF TaskAbort
  <2>2. LibraryType'
    BY <1>0, <1>4, <2>1 DEF TaskAbort, LibraryType, Item
  <2> QED
    BY <1>0, <1>1, <1>2, <1>4, <2>2, GotoType, TypeParts DEF TaskAbort, TaskPcs
<1>5. CASE TaskExit(s)
  <2>1. i \in Item
    BY <1>0, <1>5, LiveItem DEF TaskExit, At
  <2>2. TaskType'
    BY <1>0, <1>5, <2>1 DEF TaskExit, TaskType
  <2>3. RpcType'
    <3>1. \A r \in Rpcs : rpc[r].wait = s => rpc[r] \in RpcRec
      BY <1>0, DeliveryAssumption DEF RpcType, NoRpc
    <3>2. \A r \in Rpcs : rpc[r].wait = s
                           => [rpc[r] EXCEPT !.wait = None] \in RpcRec
      BY <3>1 DEF RpcRec
    <3> QED
      BY <1>0, <1>5, <3>2 DEF TaskExit, RpcType
  <2>4. PairingType'
    BY <1>0, <1>5 DEF TaskExit, PairingType
  <2>5. LibraryType'
    BY <1>0, <1>5 DEF TaskExit, LibraryType, libraryVars
  <2>6. SweepType' /\ RowType'
    BY <1>0, <1>2, <1>5 DEF TaskExit, SweepType
  <2> QED
    BY <2>2, <2>3, <2>4, <2>5, <2>6, TypeParts
<1>6. CASE AdoptPlaced(s)
  <2>1. i \in Item
    BY <1>0, <1>6, LiveItem DEF AdoptPlaced, At
  <2>2. LibraryType'
    BY <1>0, <1>6, <2>1 DEF AdoptPlaced, LibraryType, Item
  <2> QED
    BY <1>0, <1>1, <1>2, <1>6, <2>2, GotoType, TypeParts
    DEF AdoptPlaced, At, TaskPcs, AbortPcs
<1> QED
  BY <1>3, <1>4, <1>5, <1>6

LEMMA InterruptAllType ==
  ASSUME TypeInv, InterruptAll
  PROVE  TypeInv'
<1>0. /\ PairingType /\ TaskType /\ LibraryType
      /\ RpcType /\ SweepType /\ RowType
  BY TypeParts
<1>1. TaskType'
  <2> DEFINE S == {s \in Slots : Registered(s)}
  <2>1. CancelTokens(S) /\ reg' = reg
    BY DEF InterruptAll, TaskFrame
  <2>2. S \in SUBSET Slots /\ \A s \in S : Live(s)
    BY DEF Registered
  <2> HIDE DEF S
  <2> QED
    BY <1>0, <2>1, <2>2, TokensType
<1>2. PairingType' /\ RpcType' /\ SweepType' /\ LibraryType' /\ RowType'
  BY <1>0 DEF InterruptAll, TaskFrame, pairingVars, libraryVars, PairingType,
              RpcType, SweepType, LibraryType, RowType, RowsArePaired, RowTypes
<1> QED
  BY <1>1, <1>2, TypeParts

(* Pairing.                                                                *)
LEMMA PairingStepType ==
  ASSUME TypeInv, NEW p \in Phones,
         \/ AcceptBegin(p) \/ AcceptEnd \/ AcceptFail
         \/ RemoveBegin(p) \/ RemoveEnd \/ RemoveFail
         \/ ReleaseInterrupt(p) \/ ReleaseDone(p)
  PROVE  TypeInv'
<1>0. /\ PairingType /\ TaskType /\ LibraryType
      /\ RpcType /\ SweepType /\ RowType
  BY TypeParts
<1>1. UNCHANGED <<taskVars, libraryVars, rpc, sweep>>
        => TaskType' /\ LibraryType' /\ RpcType' /\ SweepType'
  BY <1>0 DEF taskVars, libraryVars, TaskType, LibraryType, RpcType, SweepType
<1>2. writer # None => writer.phone \in Phones
  BY <1>0 DEF PairingType
<1>3. CASE AcceptBegin(p)
  <2>1. RowType'
    BY <1>0, <1>3, DropRowsType, DeliveryAssumption
    DEF AcceptBegin, RowType, PairingType
  <2>2. PairingType'
    BY <1>0, <1>3, DeliveryAssumption DEF AcceptBegin, PairingType
  <2> QED
    BY <1>1, <1>3, <2>1, <2>2, TypeParts DEF AcceptBegin
<1>4. CASE AcceptEnd
  <2>1. PairingType' /\ RowType'
    BY <1>0, <1>2, <1>4
    DEF AcceptEnd, PairingType, RowType, RowTypes, RowsArePaired
  <2> QED
    BY <1>1, <1>4, <2>1, TypeParts DEF AcceptEnd
<1>5. CASE AcceptFail
  <2>1. RowType'
    BY <1>0, <1>2, <1>5, DropRowsType, DeliveryAssumption DEF AcceptFail, RowType
  <2>2. PairingType'
    BY <1>0, <1>5 DEF AcceptFail, PairingType
  <2> QED
    BY <1>1, <1>5, <2>1, <2>2, TypeParts DEF AcceptFail
<1>6. CASE RemoveBegin(p)
  <2>1. PairingType'
    BY <1>0, <1>6, DeliveryAssumption DEF RemoveBegin, PairingType
  <2>2. CASE Vault
    BY <1>0, <1>1, <1>6, <2>1, <2>2, TypeParts
    DEF RemoveBegin, RowType, RowTypes, RowsArePaired
  <2>3. CASE ~Vault
    <3>1. RowType'
      BY <1>0, <1>6, <2>3, DropRowsType, DeliveryAssumption
      DEF RemoveBegin, RowType
    <3> QED
      BY <1>1, <1>6, <2>1, <3>1, TypeParts DEF RemoveBegin
  <2> QED
    BY <2>2, <2>3
<1>7. CASE RemoveEnd
  <2>1. RowType'
    BY <1>0, <1>2, <1>7, DropRowsType, DeliveryAssumption DEF RemoveEnd, RowType
  <2>2. PairingType'
    BY <1>0, <1>2, <1>7, DeliveryAssumption DEF RemoveEnd, PairingType
  <2> QED
    BY <1>1, <1>7, <2>1, <2>2, TypeParts DEF RemoveEnd
<1>10. CASE RemoveFail
  <2>1. RowType'
    BY <1>0, <1>10 DEF RemoveFail, RowType, RowTypes, RowsArePaired
  <2>2. PairingType'
    BY <1>0, <1>2, <1>10, DeliveryAssumption DEF RemoveFail, PairingType
  <2> QED
    BY <1>1, <1>10, <2>1, <2>2, TypeParts DEF RemoveFail
<1>8. CASE ReleaseInterrupt(p)
  <2>1. InterruptedBy(p) \in SUBSET Slots /\ \A s \in InterruptedBy(p) : Live(s)
    BY DEF InterruptedBy, Registered
  <2>2. TaskType'
    BY <1>0, <1>8, <2>1, TokensType DEF ReleaseInterrupt
  <2>3. PairingType'
    BY <1>0, <1>8, <2>1 DEF ReleaseInterrupt, PairingType
  <2>4. LibraryType' /\ RpcType' /\ SweepType' /\ RowType'
    BY <1>0, <1>8 DEF ReleaseInterrupt, LibraryType, RpcType, SweepType, RowType,
                      RowsArePaired, RowTypes, libraryVars
  <2> QED
    BY <2>2, <2>3, <2>4, TypeParts
<1>9. CASE ReleaseDone(p)
  <2>1. PairingType'
    BY <1>0, <1>9, DeliveryAssumption DEF ReleaseDone, PairingType
  <2>2. RowType'
    BY <1>0, <1>9 DEF ReleaseDone, RowType, RowsArePaired, RowTypes
  <2> QED
    BY <1>1, <1>9, <2>1, <2>2, TypeParts DEF ReleaseDone
<1> QED
  BY <1>3, <1>4, <1>5, <1>6, <1>7, <1>8, <1>9, <1>10

(* Handlers.                                                               *)
LEMMA SpawnType ==
  ASSUME TaskType, NEW i \in Item, Spawn(i)
  PROVE  TaskType'
<1>1. CASE Running(i)
  BY <1>1 DEF Spawn, taskVars, TaskType
<1>2. CASE ~Running(i)
  <2>1. PICK s \in Slots :
          /\ reg' = [reg EXCEPT ![Key(i)] = s]
          /\ task' = [task EXCEPT ![s] = [pc |-> "fetch", item |-> i,
                                          cancel |-> FALSE, whole |-> FALSE]]
    BY <1>2 DEF Spawn
  <2>2. [pc |-> "fetch", item |-> i, cancel |-> FALSE, whole |-> FALSE] \in TaskRec
    BY DEF TaskRec, TaskPcs, AbortPcs
  <2>3. reg' \in [Keys -> Slots \cup {None}]
    BY <2>1 DEF TaskType
  <2>4. task' \in [Slots -> TaskRec \cup {NoTask}]
    BY <2>1, <2>2, Zenon DEF TaskType
  <2> QED
    BY <2>3, <2>4 DEF TaskType
<1> QED
  BY <1>1, <1>2

LEMMA TupleItemType ==
  ASSUME RowType, NEW p \in Phones, NEW q \in Seqs, grant[p][q].state # "none"
  PROVE  TupleItem(p, q) \in Item
<1>1. mirror[p] \in PairingIds
  BY DeliveryAssumption DEF RowType, RowsArePaired, PairingIds
<1>2. grant[p][q] \in GrantRow
  BY DEF RowType, RowTypes, NoGrant
<1> QED
  BY <1>1, <1>2 DEF TupleItem, Item, GrantRow

LEMMA AcceptedType ==
  ASSUME RpcType, NEW r \in Rpcs, NEW i \in Item,
         NEW op \in {"offer", "status", "suspend", "cancel"}, NEW pc \in RpcPcs,
         Accepted(r, op, i, pc)
  PROVE  RpcType'
<1>1. [op |-> op, pc |-> pc, item |-> i, durable |-> FALSE, wait |-> None] \in RpcRec
  BY DEF RpcRec
<1> QED
  BY <1>1, Zenon DEF Accepted, RpcType

LEMMA RpcGotoType ==
  ASSUME RpcType, NEW r \in Rpcs, rpc[r] # NoRpc,
         \/ Reply(r)
         \/ \E pc \in RpcPcs : RpcGoto(r, pc)
  PROVE  RpcType'
<1>1. CASE Reply(r)
  BY <1>1 DEF RpcType, Reply
<1>2. CASE \E pc \in RpcPcs : RpcGoto(r, pc)
  BY <1>2 DEF RpcType, RpcGoto, RpcRec
<1> QED
  BY <1>1, <1>2

LEMMA RpcArrivesType ==
  ASSUME TypeInv, NEW r \in Rpcs, RpcArrives(r)
  PROVE  TypeInv'
<1>0. /\ PairingType /\ TaskType /\ LibraryType
      /\ RpcType /\ SweepType /\ RowType
  BY TypeParts
<1>1. PICK p \in Phones, q \in Seqs :
        \/ \E l \in Leases, h \in Hashes : Offer(r, p, q, l, h)
        \/ Status(r, p, q) \/ Suspend(r, p, q) \/ Cancel(r, p, q)
  BY DEF RpcArrives
<1>2. UNCHANGED <<grant, taskVars>> /\ RpcFrame
  BY <1>1 DEF Offer, Status, Suspend, Cancel
<1>3. PairingType' /\ TaskType' /\ LibraryType' /\ SweepType' /\ RowType'
  BY <1>0, <1>2 DEF RpcFrame, pairingVars, taskVars, libraryVars, PairingType,
                    TaskType, LibraryType, SweepType, RowType, RowsArePaired, RowTypes
<1>4. CASE \E l \in Leases, h \in Hashes : Offer(r, p, q, l, h)
  <2>1. PICK l \in Leases, h \in Hashes : Offer(r, p, q, l, h)
    BY <1>4
  <2>2. [phone |-> p, pairing |-> auth[p], seq |-> q, lease |-> l, hash |-> h] \in Item
    BY <1>0, <2>1, DeliveryAssumption DEF Offer, PairingType, Item, PairingIds
  <2> QED
    BY <1>0, <1>3, <2>1, <2>2, AcceptedType, TypeParts DEF Offer, RpcPcs
<1>5. CASE Status(r, p, q)
  BY <1>0, <1>3, <1>5, TupleItemType, AcceptedType, TypeParts DEF Status, RpcPcs
<1>6. CASE Suspend(r, p, q)
  BY <1>0, <1>3, <1>6, TupleItemType, AcceptedType, TypeParts DEF Suspend, RpcPcs
<1>7. CASE Cancel(r, p, q)
  BY <1>0, <1>3, <1>7, TupleItemType, AcceptedType, TypeParts DEF Cancel, RpcPcs
<1> QED
  BY <1>1, <1>4, <1>5, <1>6, <1>7

LEMMA RpcStepType ==
  ASSUME TypeInv, RegistryExact, NEW r \in Rpcs, RpcStep(r) \/ RpcFail(r)
  PROVE  TypeInv'
<1> DEFINE i == rpc[r].item
<1>0. /\ PairingType /\ TaskType /\ LibraryType
      /\ RpcType /\ SweepType /\ RowType
  BY TypeParts
<1>1. RpcFrame => PairingType' /\ LibraryType' /\ SweepType' /\ mirror' = mirror
  BY <1>0 DEF RpcFrame, pairingVars, libraryVars, PairingType, LibraryType, SweepType
<1>2. mirror' = mirror /\ grant' = grant => RowType'
  BY <1>0 DEF RowType, RowsArePaired, RowTypes
<1>3. UNCHANGED taskVars => TaskType'
  BY <1>0 DEF taskVars, TaskType
<1>4. rpc[r] # NoRpc => rpc[r] \in RpcRec /\ i \in Item
  BY <1>0 DEF RpcType, RpcRec
<1> USE DEF RpcAt, RpcPcs
<1>5. CASE OfferRebind(r)
  <2>1. CASE Stored(i) /\ Row(i).state = "completed" /\ Row(i).hash = i.hash
    <3>1. [Row(i) EXCEPT !.lease = i.lease] \in GrantRow
      BY <1>0, <1>4, <1>5, <2>1, StoredRow DEF OfferRebind, RowType, GrantRow, Item
    <3>2. RowType'
      BY <1>0, <1>1, <1>4, <1>5, <2>1, <3>1, SetRowPaired
      DEF OfferRebind, RowType, Stored
    <3> QED
      BY <1>0, <1>1, <1>3, <1>5, <2>1, <3>2, RpcGotoType, TypeParts DEF OfferRebind
  <2>2. CASE ~(Stored(i) /\ Row(i).state = "completed" /\ Row(i).hash = i.hash)
    BY <1>0, <1>1, <1>2, <1>3, <1>5, <2>2, RpcGotoType, TypeParts DEF OfferRebind
  <2> QED
    BY <2>1, <2>2
<1>6. CASE OfferDurable(r)
  <2> DEFINE d == i.hash \in library
  <2>1. d \in BOOLEAN
    OBVIOUS
  <2>2. rpc' = [rpc EXCEPT ![r].pc = "upsert", ![r].durable = d]
    BY <1>6 DEF OfferDurable
  <2>3. RpcType'
    <3> HIDE DEF d, i
    <3>1. rpc[r] \in RpcRec
      BY <1>4, <1>6 DEF OfferDurable
    <3>2. [rpc[r] EXCEPT !.pc = "upsert", !.durable = d] \in RpcRec
      BY <2>1, <3>1 DEF RpcRec
    <3>3. rpc' = [rpc EXCEPT ![r] = [rpc[r] EXCEPT !.pc = "upsert", !.durable = d]]
      BY <1>0, <2>2 DEF RpcType
    <3> QED
      BY <1>0, <3>2, <3>3, Zenon DEF RpcType
  <2> QED
    BY <1>0, <1>1, <1>2, <1>3, <1>6, <2>3, TypeParts DEF OfferDurable
<1>7. CASE OfferUpsert(r)
  <2>1. RpcType'
    BY <1>0, <1>7, RpcGotoType DEF OfferUpsert
  <2>2. [state |-> "active", lease |-> i.lease, hash |-> i.hash,
         receipt |-> None, stale |-> FALSE] \in GrantRow
    BY <1>4, <1>7 DEF OfferUpsert, Item, GrantRow
  <2>3. RowType'
    BY <1>0, <1>1, <1>2, <1>4, <1>7, <2>2, SetRowPaired DEF OfferUpsert, RowType
  <2> QED
    BY <1>1, <1>3, <1>7, <2>1, <2>3, TypeParts DEF OfferUpsert
<1>8. CASE OfferMatch(r)
  <2>1. RpcType'
    BY <1>0, <1>8, RpcGotoType DEF OfferMatch
  <2>2. TaskType'
    BY <1>0, <1>3, <1>4, <1>8, SpawnType DEF OfferMatch
  <2> QED
    BY <1>1, <1>2, <1>8, <2>1, <2>2, TypeParts DEF OfferMatch
<1>9. CASE OfferComplete(r)
  <2>1. RpcType'
    BY <1>0, <1>9, RpcGotoType DEF OfferComplete
  <2>2. RowType'
    BY <1>0, <1>1, <1>4, <1>9, CompleteType DEF OfferComplete, RowType
  <2> QED
    BY <1>1, <1>3, <1>9, <2>1, <2>2, TypeParts DEF OfferComplete
<1>10. CASE StatusTouch(r)
  <2>1. RpcType'
    BY <1>0, <1>10, RpcGotoType DEF StatusTouch
  <2>2. RowType'
    <3>1. CASE Stored(i) /\ Row(i).lease = i.lease /\ Row(i).state = "active"
      <4>1. [Row(i) EXCEPT !.stale = FALSE] \in GrantRow
        BY <1>0, <1>4, <1>10, <3>1, StoredRow DEF StatusTouch, RowType, GrantRow
      <4> QED
        BY <1>0, <1>1, <1>4, <1>10, <3>1, <4>1, SetRowPaired
        DEF StatusTouch, RowType, Stored
    <3>2. CASE ~(Stored(i) /\ Row(i).lease = i.lease /\ Row(i).state = "active")
      BY <1>1, <1>2, <1>10, <3>2 DEF StatusTouch
    <3> QED
      BY <3>1, <3>2
  <2> QED
    BY <1>1, <1>3, <1>10, <2>1, <2>2, TypeParts DEF StatusTouch
<1>11. CASE StatusSpawn(r)
  <2>1. RpcType'
    BY <1>0, <1>11, RpcGotoType DEF StatusSpawn
  <2> QED
    BY <1>0, <1>1, <1>2, <1>4, <1>11, <2>1, SpawnType, TypeParts DEF StatusSpawn
<1>12. CASE CancelStore(r)
  <2>1. RpcType'
    BY <1>0, <1>12, RpcGotoType DEF CancelStore
  <2>2. RowType'
    BY <1>0, <1>1, <1>2, <1>4, <1>12, CancelType DEF CancelStore, RowType
  <2> QED
    BY <1>1, <1>3, <1>12, <2>1, <2>2, TypeParts DEF CancelStore
<1>13. CASE Interrupt(r)
  <2>. DEFINE s == reg[Key(i)]
  <2>1. PairingType' /\ LibraryType' /\ SweepType' /\ RowType' /\ reg' = reg
    BY <1>1, <1>2, <1>13 DEF Interrupt
  <2>2. CASE s = None
    <3>1. TaskType'
      BY <1>0, <1>13, <2>1, <2>2 DEF Interrupt, TaskType
    <3> QED
      BY <1>0, <1>13, <2>1, <2>2, <3>1, RpcGotoType, TypeParts DEF Interrupt
  <2>3. CASE s # None
    <3>1. s \in Slots
      BY <1>0, <1>4, <1>13, <2>3
      DEF Interrupt, TaskType, Key, Keys, Item
    <3>2. TaskType'
      <4>1. task' = [t \in Slots |-> IF t \in {s} THEN [task[t] EXCEPT !.cancel = TRUE]
                                                  ELSE task[t]]
        BY <1>13, <2>3 DEF Interrupt, CancelTokens
      <4>2. Live(s)
        BY <1>4, <1>13, <2>3 DEF Interrupt, RegistryExact, Key, Keys, Item
      <4> HIDE DEF s
      <4> QED
        BY <1>0, <2>1, <3>1, <4>1, <4>2 DEF TaskType, TaskRec, NoTask, Live
    <3>3. RpcType'
      BY <1>0, <1>4, <1>13, <2>3, <3>1 DEF Interrupt, RpcType, RpcRec
    <3> QED
      BY <2>1, <3>2, <3>3, TypeParts
  <2> QED
    BY <2>2, <2>3
<1>14. CASE Answer(r)
  BY <1>0, <1>1, <1>2, <1>3, <1>14, RpcGotoType, TypeParts DEF Answer
<1>15. CASE RpcFail(r)
  BY <1>0, <1>1, <1>2, <1>3, <1>15, RpcGotoType, TypeParts DEF RpcFail
<1> QED
  BY <1>5, <1>6, <1>7, <1>8, <1>9, <1>10, <1>11, <1>12, <1>13, <1>14, <1>15
  DEF RpcStep

(* Expiry, the user, the adopter, a restart.                               *)
LEMMA HousekeepingType ==
  ASSUME TypeInv,
         \/ \E p \in Phones, q \in Seqs : GrantAges(p, q)
         \/ SweepSelect \/ SweepCancel \/ \E i \in sweep.list : SweepCheck(i)
         \/ \E h \in Hashes : UserDelete(h) \/ Adopt(h)
  PROVE  TypeInv'
<1>0. /\ PairingType /\ TaskType /\ LibraryType
      /\ RpcType /\ SweepType /\ RowType
  BY TypeParts
<1>1. UNCHANGED <<pairingVars, taskVars, rpc>>
        => PairingType' /\ TaskType' /\ RpcType' /\ mirror' = mirror
  BY <1>0 DEF pairingVars, taskVars, PairingType, TaskType, RpcType
<1>2. mirror' = mirror /\ grant' = grant => RowType'
  BY <1>0 DEF RowType, RowsArePaired, RowTypes
<1>3. UNCHANGED libraryVars => LibraryType'
  BY <1>0 DEF libraryVars, LibraryType
<1>4. UNCHANGED sweep => SweepType'
  BY <1>0 DEF SweepType
<1>5. ASSUME NEW p \in Phones, NEW q \in Seqs, GrantAges(p, q)
      PROVE  TypeInv'
  <2>1. grant[p][q] \in GrantRow
    BY <1>0, <1>5 DEF GrantAges, RowType, RowTypes, NoGrant
  <2>2. [grant[p][q] EXCEPT !.stale = TRUE] \in GrantRow
    BY <2>1 DEF GrantRow
  <2>3. grant' = [grant EXCEPT ![p][q] = [grant[p][q] EXCEPT !.stale = TRUE]]
    BY <1>0, <1>5 DEF GrantAges, RowType, RowTypes
  <2>4. RowType'
    BY <1>0, <1>1, <1>5, <2>2, <2>3 DEF GrantAges, RowType, RowTypes, RowsArePaired
  <2> QED
    BY <1>1, <1>3, <1>4, <1>5, <2>4, TypeParts DEF GrantAges
<1>6. CASE SweepSelect
  <2>1. StaleItems \subseteq Item
    BY <1>0, TupleItemType DEF StaleItems
  <2>2. SweepType'
    BY <1>0, <1>6, <2>1 DEF SweepSelect, SweepType
  <2> QED
    BY <1>1, <1>2, <1>3, <1>6, <2>2, TypeParts DEF SweepSelect
<1>7. CASE SweepCancel
  <2>1. sweep.target \in Item
    BY <1>0, <1>7 DEF SweepCancel, SweepType
  <2>2. RowType'
    BY <1>0, <1>1, <1>2, <1>7, <2>1, CancelType DEF SweepCancel, RowType
  <2>3. SweepType'
    BY <1>0, <1>7 DEF SweepCancel, SweepType
  <2> QED
    BY <1>1, <1>3, <1>7, <2>2, <2>3, TypeParts DEF SweepCancel
<1>8. ASSUME NEW i \in sweep.list, SweepCheck(i)
      PROVE  TypeInv'
  <2>1. SweepType'
    BY <1>0, <1>8 DEF SweepCheck, SweepType
  <2> QED
    BY <1>1, <1>2, <1>3, <1>8, <2>1, TypeParts DEF SweepCheck
<1>9. ASSUME NEW h \in Hashes, UserDelete(h) \/ Adopt(h)
      PROVE  TypeInv'
  <2>1. LibraryType'
    BY <1>0, <1>9 DEF UserDelete, Adopt, LibraryType
  <2> QED
    BY <1>1, <1>2, <1>4, <1>9, <2>1, TypeParts DEF UserDelete, Adopt
<1> QED
  BY <1>5, <1>6, <1>7, <1>8, <1>9

LEMMA RestartType ==
  ASSUME TypeInv, Restart
  PROVE  TypeInv'
<1>0. /\ PairingType /\ TaskType /\ LibraryType
      /\ RpcType /\ SweepType /\ RowType
  BY TypeParts
<1>1. PairingType'
  BY <1>0, DeliveryAssumption DEF Restart, PairingType, RowType
<1>2. TaskType' /\ RpcType' /\ SweepType'
  BY DEF Restart, TaskType, RpcType, SweepType
<1>3. LibraryType'
  <2>1. \A s \in Slots : At(s, "insert") => task[s].item.hash \in Hashes
    BY <1>0, LiveItem DEF At, Item
  <2> QED
    BY <1>0, <2>1 DEF Restart, LibraryType
<1>4. RowType'
  BY <1>0 DEF Restart, PairingType, RowType, RowTypes, RowsArePaired, NoGrant
<1> QED
  BY <1>1, <1>2, <1>3, <1>4, TypeParts

-----------------------------------------------------------------------------
(* The registry: a task is registered exactly while it lives, and whoever  *)
(* waits for a task waits for one that was told to stop.                   *)

Registry == RegistryExact /\ WaitsOnItsTask

(* Most steps leave the registry, and who works on what, alone.            *)
SameTasks ==
    /\ reg' = reg
    /\ \A s \in Slots :
         /\ task'[s] # NoTask <=> task[s] # NoTask
         /\ task[s] # NoTask => /\ task'[s].item = task[s].item
                                /\ task[s].cancel => task'[s].cancel

SameWaits ==
    \A r \in Rpcs : rpc'[r].wait # None =>
      rpc'[r].wait = rpc[r].wait /\ rpc'[r].item = rpc[r].item

LEMMA KeepExact ==
  ASSUME TaskType, RegistryExact, SameTasks
  PROVE  RegistryExact'
<1>1. \A s \in Slots : task'[s] # NoTask => reg'[Key(task'[s].item)] = s
  BY DEF RegistryExact, SameTasks, Live
<1>2. ASSUME NEW k \in Keys, reg'[k] # None
      PROVE  task'[reg'[k]] # NoTask /\ Key(task'[reg'[k]].item) = k
  <2>1. reg'[k] = reg[k] /\ reg[k] \in Slots
    BY <1>2 DEF TaskType, SameTasks
  <2>2. task[reg[k]] # NoTask /\ Key(task[reg[k]].item) = k
    BY <1>2, <2>1 DEF RegistryExact, Live
  <2> QED
    BY <2>1, <2>2 DEF SameTasks
<1> QED
  BY <1>1, <1>2 DEF RegistryExact, Live, Key

LEMMA KeepRegistry ==
  ASSUME TaskType, RpcType, Registry, SameTasks, SameWaits
  PROVE  Registry'
<1>1. RegistryExact'
  BY KeepExact DEF Registry
<1>2. ASSUME NEW r \in Rpcs, rpc'[r].wait # None
      PROVE  LET s == rpc'[r].wait IN
             /\ task'[s] # NoTask /\ task'[s].cancel
             /\ Key(task'[s].item) = Key(rpc'[r].item)
  <2>1. rpc[r].wait # None /\ rpc'[r].wait = rpc[r].wait /\ rpc'[r].item = rpc[r].item
    BY <1>2 DEF SameWaits
  <2>2. rpc[r].wait \in Slots
    BY <2>1 DEF RpcType, RpcRec, NoRpc
  <2>3. /\ task[rpc[r].wait] # NoTask /\ task[rpc[r].wait].cancel
        /\ Key(task[rpc[r].wait].item) = Key(rpc[r].item)
    BY <2>1 DEF Registry, WaitsOnItsTask, Live
  <2> QED
    BY <2>1, <2>2, <2>3 DEF SameTasks
<1> QED
  BY <1>1, <1>2 DEF Registry, WaitsOnItsTask, Live, Key

LEMMA GotoSame ==
  ASSUME TaskType, NEW s \in Slots, Live(s), NEW pc \in TaskPcs, Goto(s, pc),
         reg' = reg
  PROVE  SameTasks
  BY DEF TaskType, Live, Goto, SameTasks, TaskRec, NoTask, TaskPcs, AbortPcs

LEMMA TokensSame ==
  ASSUME TaskType, NEW S \in SUBSET Slots, \A s \in S : Live(s),
         CancelTokens(S), reg' = reg
  PROVE  SameTasks
  BY DEF TaskType, CancelTokens, Live, SameTasks, TaskRec, NoTask

LEMMA TaskSame ==
  ASSUME TypeInv, NEW s \in Slots, TaskStep(s) \/ TaskFail(s) \/ TaskAbort(s) \/ AdoptPlaced(s)
  PROVE  SameTasks /\ rpc' = rpc
<1>0. TaskType
  BY TypeParts
<1>1. TaskFrame /\ Live(s)
  BY DEF TaskStep, TaskFail, TaskAbort, AdoptPlaced, RollBack, At, Fetch, Verify, Export, Exported,
         Authorize, Drop, HashFile, Lookup, Place, Insert, WriteReceipt
<1>2. CASE HashFile(s)
  <2>1. task[s] \in TaskRec
    BY <1>0, <1>1, LiveItem
  <2>2. task' = [task EXCEPT ![s] = [task[s] EXCEPT
                    !.pc = "lookup", !.whole = staged[StagedPath(task[s].item)].whole]]
    BY <1>0, <1>2 DEF HashFile, TaskType
  <2>3. task'[s] # NoTask /\ task'[s].item = task[s].item
        /\ task'[s].cancel = task[s].cancel
    BY <1>0, <2>1, <2>2 DEF TaskType, TaskRec, NoTask
  <2> QED
    BY <1>0, <1>1, <2>2, <2>3 DEF TaskFrame, SameTasks, Live, TaskType
<1>3. CASE ~HashFile(s)
  <2>1. \E pc \in TaskPcs : Goto(s, pc)
    BY <1>3 DEF TaskStep, TaskFail, TaskAbort, AdoptPlaced, RollBack, Fetch, Verify, Export, Exported,
       Authorize, Drop, Lookup, Place, Insert, WriteReceipt, TaskPcs, AbortPcs
  <2> QED
    BY <1>0, <1>1, <2>1, GotoSame DEF TaskFrame
<1> QED
  BY <1>2, <1>3

(* The task leaves the registry as it ends; nobody waits for it any more.  *)
LEMMA TaskExitRegistry ==
  ASSUME TypeInv, Registry, NEW s \in Slots, TaskExit(s)
  PROVE  Registry'
<1>0. TaskType /\ RpcType
  BY TypeParts
<1>1. /\ Live(s) /\ task[s].item \in Item
      /\ reg[Key(task[s].item)] = s
      /\ task' = [task EXCEPT ![s] = NoTask]
      /\ reg' = [reg EXCEPT ![Key(task[s].item)] = None]
  BY <1>0, LiveItem DEF TaskExit, At, Registry, RegistryExact
<1>2. Key(task[s].item) \in Keys
  BY <1>1 DEF Key, Keys, Item
<1>3. RegistryExact'
  <2>1. ASSUME NEW t \in Slots, task'[t] # NoTask
        PROVE  reg'[Key(task'[t].item)] = t
    <3>1. t # s /\ task'[t] = task[t] /\ Live(t)
      BY <1>0, <1>1, <2>1 DEF TaskType, Live
    <3>2. reg[Key(task[t].item)] = t
      BY <3>1 DEF Registry, RegistryExact
    <3>3. Key(task[t].item) # Key(task[s].item) /\ Key(task[t].item) \in Keys
      BY <1>0, <1>1, <3>1, <3>2, LiveItem DEF Key, Keys, Item
    <3> QED
      BY <1>0, <1>1, <3>1, <3>2, <3>3 DEF TaskType
  <2>2. ASSUME NEW k \in Keys, reg'[k] # None
        PROVE  task'[reg'[k]] # NoTask /\ Key(task'[reg'[k]].item) = k
    <3>1. k # Key(task[s].item) /\ reg'[k] = reg[k]
      BY <1>0, <1>1, <2>2 DEF TaskType
    <3>2. reg[k] \in Slots /\ Live(reg[k]) /\ Key(task[reg[k]].item) = k
      BY <1>0, <2>2, <3>1 DEF TaskType, Registry, RegistryExact
    <3> QED
      BY <1>0, <1>1, <3>1, <3>2 DEF TaskType, Live
  <2> QED
    BY <2>1, <2>2 DEF RegistryExact, Live, Key
<1>4. WaitsOnItsTask'
  <2> SUFFICES ASSUME NEW r \in Rpcs, rpc'[r].wait # None
               PROVE  LET t == rpc'[r].wait IN
                      /\ task'[t] # NoTask /\ task'[t].cancel
                      /\ Key(task'[t].item) = Key(rpc'[r].item)
    BY DEF WaitsOnItsTask, Live, Key
  <2>1. rpc'[r] = IF rpc[r].wait = s THEN [rpc[r] EXCEPT !.wait = None]
                                     ELSE rpc[r]
    BY DEF TaskExit
  <2>2. CASE rpc[r].wait = s
    <3>1. rpc[r] \in RpcRec
      BY <1>0, <2>2, DeliveryAssumption DEF RpcType, NoRpc
    <3> QED
      BY <2>1, <2>2, <3>1 DEF RpcRec
  <2>3. CASE rpc[r].wait # s
    <3>1. rpc'[r] = rpc[r] /\ rpc[r].wait \in Slots
      BY <1>0, <2>1, <2>3 DEF RpcType, RpcRec, NoRpc
    <3> QED
      BY <1>0, <1>1, <2>3, <3>1 DEF Registry, WaitsOnItsTask, Live, TaskType, Key
  <2> QED
    BY <2>2, <2>3
<1> QED
  BY <1>3, <1>4 DEF Registry

(* try_register: the tuple had no task, so the new one is its only one.    *)
LEMMA SpawnRegistry ==
  ASSUME TypeInv, Registry, RpcType', NEW i \in Item, Spawn(i), SameWaits
  PROVE  Registry'
<1>0. TaskType /\ RpcType
  BY TypeParts
<1>1. CASE Running(i)
  <2>1. SameTasks
    BY <1>1 DEF Spawn, taskVars, SameTasks, Live
  <2> QED
    BY <1>0, <2>1, KeepRegistry
<1>2. CASE ~Running(i)
  <2> DEFINE new == [pc |-> "fetch", item |-> i, cancel |-> FALSE, whole |-> FALSE]
  <2>1. PICK s \in Slots : /\ ~Live(s)
                           /\ reg' = [reg EXCEPT ![Key(i)] = s]
                           /\ task' = [task EXCEPT ![s] = new]
    BY <1>2 DEF Spawn
  <2>2. new # NoTask /\ new.item = i
    BY DEF NoTask
  <2> HIDE DEF new
  <2>3. Key(i) \in Keys /\ reg[Key(i)] = None
    BY <1>2 DEF Running, Key, Keys, Item
  <2>4. ASSUME NEW t \in Slots, task'[t] # NoTask
        PROVE  reg'[Key(task'[t].item)] = t
    <3>1. CASE t = s
      BY <1>0, <2>1, <2>2, <2>3, <3>1 DEF TaskType
    <3>2. CASE t # s
      <4>1. task'[t] = task[t] /\ Live(t)
        BY <1>0, <2>1, <2>4, <3>2 DEF TaskType, Live
      <4>2. reg[Key(task[t].item)] = t /\ Key(task[t].item) \in Keys
        BY <1>0, <4>1, LiveItem DEF Registry, RegistryExact, Key, Keys, Item
      <4>3. Key(task[t].item) # Key(i)
        BY <2>3, <4>2, DeliveryAssumption
      <4> QED
        BY <1>0, <2>1, <4>1, <4>2, <4>3 DEF TaskType
    <3> QED
      BY <3>1, <3>2
  <2>5. ASSUME NEW k \in Keys, reg'[k] # None
        PROVE  task'[reg'[k]] # NoTask /\ Key(task'[reg'[k]].item) = k
    <3>1. CASE k = Key(i)
      BY <1>0, <2>1, <2>2, <3>1 DEF TaskType
    <3>2. CASE k # Key(i)
      <4>1. reg'[k] = reg[k]
        BY <1>0, <2>1, <3>2 DEF TaskType
      <4>2. reg[k] \in Slots /\ Live(reg[k]) /\ Key(task[reg[k]].item) = k
        BY <1>0, <2>5, <4>1 DEF TaskType, Registry, RegistryExact
      <4> QED
        BY <1>0, <2>1, <4>1, <4>2 DEF TaskType, Live
    <3> QED
      BY <3>1, <3>2
  <2>6. ASSUME NEW r \in Rpcs, rpc'[r].wait # None
        PROVE  LET t == rpc'[r].wait IN
               /\ task'[t] # NoTask /\ task'[t].cancel
               /\ Key(task'[t].item) = Key(rpc'[r].item)
    <3>1. /\ rpc'[r].wait = rpc[r].wait /\ rpc'[r].item = rpc[r].item
          /\ rpc[r].wait \in Slots
      BY <1>0, <2>6 DEF SameWaits, RpcType, RpcRec, NoRpc
    <3>2. /\ Live(rpc[r].wait) /\ task[rpc[r].wait].cancel
          /\ Key(task[rpc[r].wait].item) = Key(rpc[r].item)
      BY <2>6, <3>1 DEF Registry, WaitsOnItsTask
    <3> QED
      BY <1>0, <2>1, <3>1, <3>2 DEF TaskType, Live, Key
  <2> QED
    BY <2>4, <2>5, <2>6 DEF Registry, RegistryExact, WaitsOnItsTask, Live, Key
<1> QED
  BY <1>1, <1>2

LEMMA InterruptRegistry ==
  ASSUME TypeInv, Registry, NEW r \in Rpcs, Interrupt(r)
  PROVE  Registry'
<1> DEFINE i == rpc[r].item
           s == reg[Key(i)]
<1>0. TaskType /\ RpcType /\ RpcType'
  BY RpcStepType, TypeParts DEF RpcStep, Registry
<1>1. i \in Item /\ rpc[r] \in RpcRec
  BY <1>0 DEF Interrupt, RpcAt, RpcType, RpcRec
<1>2. CASE s = None
  <2>1. SameTasks
    BY <1>2 DEF Interrupt, SameTasks, Live
  <2>2. SameWaits
    BY <1>0, <1>2 DEF Interrupt, Reply, SameWaits, RpcType, NoRpc
  <2> QED
    BY <1>0, <2>1, <2>2, KeepRegistry
<1>3. CASE s # None
  <2>1. s \in Slots /\ Live(s) /\ Key(task[s].item) = Key(i)
    BY <1>0, <1>1, <1>3
    DEF TaskType, Registry, RegistryExact, Key, Keys, Item
  <2>2. /\ CancelTokens({s}) /\ reg' = reg
        /\ rpc' = [rpc EXCEPT ![r].pc = "await", ![r].wait = s]
    BY <1>3 DEF Interrupt
  <2> HIDE DEF s
  <2>3. SameTasks
    BY <1>0, <2>1, <2>2, TokensSame
  <2>4. task'[s].cancel /\ task'[s].item = task[s].item /\ task'[s] # NoTask
    <3>1. task'[s] = [task[s] EXCEPT !.cancel = TRUE]
      BY <2>1, <2>2 DEF CancelTokens
    <3>2. task[s] \in TaskRec
      BY <1>0, <2>1, LiveItem
    <3> QED
      BY <2>1, <2>3, <3>1, <3>2 DEF TaskRec, SameTasks, Live
  <2>5. RegistryExact'
    BY <1>0, <2>3, KeepExact DEF Registry
  <2>6. ASSUME NEW x \in Rpcs, rpc'[x].wait # None
        PROVE  LET t == rpc'[x].wait IN
               /\ task'[t] # NoTask /\ task'[t].cancel
               /\ Key(task'[t].item) = Key(rpc'[x].item)
    <3>1. CASE x = r
      <4>1. rpc'[x].wait = s /\ rpc'[x].item = i
        BY <1>0, <1>1, <2>2, <3>1 DEF RpcType, RpcRec
      <4> QED
        BY <2>1, <2>4, <4>1
    <3>2. CASE x # r
      <4>1. rpc'[x] = rpc[x] /\ rpc[x].wait \in Slots
        BY <1>0, <2>2, <2>6, <3>2 DEF RpcType, RpcRec, NoRpc
      <4>2. /\ task[rpc[x].wait] # NoTask /\ task[rpc[x].wait].cancel
            /\ Key(task[rpc[x].wait].item) = Key(rpc[x].item)
        BY <2>6, <4>1 DEF Registry, WaitsOnItsTask, Live
      <4> QED
        BY <2>3, <4>1, <4>2 DEF SameTasks
    <3> QED
      BY <3>1, <3>2
  <2> QED
    BY <2>5, <2>6 DEF Registry, WaitsOnItsTask, Live, Key
<1> QED
  BY <1>2, <1>3

LEMMA RpcRegistry ==
  ASSUME TypeInv, Registry, NEW r \in Rpcs,
         RpcArrives(r) \/ RpcStep(r) \/ RpcFail(r)
  PROVE  Registry'
<1>0. TaskType /\ RpcType
  BY TypeParts
<1>1. RpcType'
  BY RpcArrivesType, RpcStepType, TypeParts DEF Registry
<1>2. Reply(r) => SameWaits
  BY <1>0 DEF Reply, SameWaits, RpcType, NoRpc
<1>3. \A pc : rpc[r] # NoRpc /\ RpcGoto(r, pc) => SameWaits
  BY <1>0 DEF RpcGoto, SameWaits, RpcType, RpcRec
<1>4. \A op, i, pc : Accepted(r, op, i, pc) => SameWaits
  BY <1>0 DEF Accepted, SameWaits, RpcType
<1>5. UNCHANGED taskVars => SameTasks
  BY DEF taskVars, SameTasks
<1>6. CASE RpcArrives(r)
  <2>1. SameWaits /\ UNCHANGED taskVars
    BY <1>4, <1>6 DEF RpcArrives, Offer, Status, Suspend, Cancel
  <2> QED
    BY <1>0, <1>5, <2>1, KeepRegistry
<1>7. CASE OfferDurable(r)
  <2>1. SameWaits
    BY <1>0, <1>7 DEF OfferDurable, RpcAt, SameWaits, RpcType, RpcRec
  <2> QED
    BY <1>0, <1>5, <1>7, <2>1, KeepRegistry DEF OfferDurable
<1>8. CASE OfferRebind(r) \/ OfferUpsert(r) \/ OfferComplete(r)
           \/ StatusTouch(r) \/ CancelStore(r) \/ Answer(r) \/ RpcFail(r)
  <2>1. SameWaits /\ UNCHANGED taskVars
    BY <1>2, <1>3, <1>8 DEF OfferRebind, OfferUpsert, OfferComplete, StatusTouch,
                            CancelStore, Answer, RpcFail, RpcAt
  <2> QED
    BY <1>0, <1>5, <2>1, KeepRegistry
<1>9. CASE OfferMatch(r) \/ StatusSpawn(r)
  <2>1. SameWaits
    BY <1>2, <1>3, <1>9 DEF OfferMatch, StatusSpawn, RpcAt
  <2>2. rpc[r].item \in Item
    BY <1>0, <1>9 DEF OfferMatch, StatusSpawn, RpcAt, RpcType, RpcRec
  <2>3. UNCHANGED taskVars \/ Spawn(rpc[r].item)
    BY <1>9 DEF OfferMatch, StatusSpawn
  <2> QED
    BY <1>0, <1>1, <1>5, <2>1, <2>2, <2>3, KeepRegistry, SpawnRegistry
<1> QED
  BY <1>6, <1>7, <1>8, <1>9, InterruptRegistry DEF RpcStep

LEMMA OtherRegistry ==
  ASSUME TypeInv, Registry,
         \/ \E p \in Phones : AcceptBegin(p) \/ RemoveBegin(p) \/ ReleaseDone(p)
         \/ AcceptEnd \/ AcceptFail \/ RemoveEnd \/ RemoveFail
         \/ \E p \in Phones, q \in Seqs : GrantAges(p, q)
         \/ SweepSelect \/ SweepCancel \/ \E i \in sweep.list : SweepCheck(i)
         \/ \E h \in Hashes : UserDelete(h) \/ Adopt(h)
         \/ UNCHANGED vars
  PROVE  Registry'
<1>1. UNCHANGED <<taskVars, rpc>>
  BY DEF AcceptBegin, AcceptEnd, AcceptFail, RemoveBegin, RemoveEnd, RemoveFail, ReleaseDone,
         GrantAges, SweepSelect, SweepCancel, SweepCheck, UserDelete, Adopt, vars
<1>2. SameTasks /\ SameWaits
  BY <1>1 DEF taskVars, SameTasks, SameWaits
<1> QED
  BY <1>2, KeepRegistry, TypeParts

LEMMA InterruptsRegistry ==
  ASSUME TypeInv, Registry, InterruptAll \/ \E p \in Phones : ReleaseInterrupt(p)
  PROVE  Registry'
<1>0. TaskType /\ RpcType
  BY TypeParts
<1>1. PICK S \in SUBSET Slots : (\A s \in S : Live(s)) /\ CancelTokens(S)
  BY DEF InterruptAll, ReleaseInterrupt, InterruptedBy, Registered
<1>2. reg' = reg /\ rpc' = rpc
  BY DEF InterruptAll, ReleaseInterrupt, TaskFrame
<1> QED
  BY <1>0, <1>1, <1>2, TokensSame, KeepRegistry DEF SameWaits

LEMMA RestartRegistry ==
  ASSUME Restart
  PROVE  Registry'
  BY DEF Restart, Registry, RegistryExact, WaitsOnItsTask, Live, NoRpc

-----------------------------------------------------------------------------
(* The inductive invariant, and what it gives.                             *)

Inv == TypeInv /\ Registry

LEMMA InitInv == Init => Inv
<1>1. Init => Registry
  BY DEF Init, Registry, RegistryExact, WaitsOnItsTask, Live, NoRpc
<1> QED
  BY <1>1, InitType DEF Inv

LEMMA NextInv == Inv /\ [Next]_vars => Inv'
<1> SUFFICES ASSUME Inv, [Next]_vars PROVE Inv'
  OBVIOUS
<1> USE DEF Inv
<1>1. CASE \E p \in Phones : AcceptBegin(p) \/ RemoveBegin(p) \/ ReleaseDone(p)
  BY <1>1, PairingStepType, OtherRegistry
<1>2. CASE \E p \in Phones : ReleaseInterrupt(p)
  BY <1>2, PairingStepType, InterruptsRegistry
<1>3. CASE AcceptEnd \/ AcceptFail \/ RemoveEnd \/ RemoveFail
  <2>1. \E p \in Phones : TRUE
    <3>1. PairingType /\ writer # None
      BY <1>3, TypeParts DEF AcceptEnd, AcceptFail, RemoveEnd, RemoveFail
    <3> QED
      BY <3>1 DEF PairingType
  <2> QED
    BY <1>3, <2>1, PairingStepType, OtherRegistry
<1>4. CASE \E s \in Slots : TaskStep(s) \/ TaskFail(s) \/ TaskAbort(s) \/ AdoptPlaced(s)
  <2>1. TypeInv'
    BY <1>4, TaskStepType, TaskEndType
  <2>2. SameTasks /\ SameWaits
    BY <1>4, TaskSame DEF SameWaits
  <2> QED
    BY <2>1, <2>2, KeepRegistry, TypeParts
<1>5. CASE \E s \in Slots : TaskExit(s)
  BY <1>5, TaskEndType, TaskExitRegistry
<1>6. CASE InterruptAll
  BY <1>6, InterruptAllType, InterruptsRegistry
<1>7. CASE \E r \in Rpcs : RpcArrives(r) \/ RpcStep(r) \/ RpcFail(r)
  BY <1>7, RpcArrivesType, RpcStepType, RpcRegistry DEF Registry
<1>8. CASE \/ \E p \in Phones, q \in Seqs : GrantAges(p, q)
           \/ SweepSelect \/ SweepCancel \/ \E i \in sweep.list : SweepCheck(i)
           \/ \E h \in Hashes : UserDelete(h) \/ Adopt(h)
  BY <1>8, HousekeepingType, OtherRegistry
<1>9. CASE Restart
  BY <1>9, RestartType, RestartRegistry
<1>10. CASE UNCHANGED vars
  <2>1. TypeInv'
    BY <1>10 DEF vars, pairingVars, taskVars, libraryVars, TypeInv, TypeOK,
                 RowsArePaired
  <2> QED
    BY <1>10, <2>1, OtherRegistry
<1> QED
  BY <1>1, <1>2, <1>3, <1>4, <1>5, <1>6, <1>7, <1>8, <1>9, <1>10 DEF Next

THEOREM InvAlways == Spec => []Inv
  BY InitInv, NextInv, PTL DEF Spec

(* Every variable keeps the shape TypeOK gives it, and a row holds a       *)
(* receipt exactly when it is completed, in every reachable state.         *)
THEOREM TypeCorrect == Spec => []TypeOK
<1>1. Inv => TypeOK
  BY DEF Inv, TypeInv
<1> QED
  BY <1>1, InvAlways, PTL

(* The registry lists exactly the live tasks, each under its own tuple     *)
(* ("a registered entry always means a live task", and its converse).      *)
THEOREM RegistryIsExact == Spec => []RegistryExact
<1>1. Inv => RegistryExact
  BY DEF Inv, Registry
<1> QED
  BY <1>1, InvAlways, PTL

(* However many handlers offer, poll, suspend and cancel at once, no tuple *)
(* ever has two fetch tasks.                                               *)
THEOREM OneTask == Spec => []OneTaskPerTuple
<1>1. Inv => OneTaskPerTuple
  BY DEF Inv, Registry, RegistryExact, OneTaskPerTuple
<1> QED
  BY <1>1, InvAlways, PTL

(* A handler that waits for a task's end waits for a live task of its own  *)
(* tuple whose token it cancelled: suspend and cancel never report on, or  *)
(* hang on, a task that is gone.                                           *)
THEOREM WaitsAreExact == Spec => []WaitsOnItsTask
<1>1. Inv => WaitsOnItsTask
  BY DEF Inv, Registry
<1> QED
  BY <1>1, InvAlways, PTL

-----------------------------------------------------------------------------
(* Removing a pairing.  A removed id never comes back, neither in the      *)
(* index nor in the table, so a task of it that is not past its checks     *)
(* stays there; one that is past them is waited for.                       *)

IdsAscend ==
    /\ \A p \in Phones : mirror[p] <= lastPairing /\ auth[p] <= lastPairing
    /\ writer # None /\ writer.op = "remove" =>
         /\ release[writer.phone].pc = "idle"
         /\ release[writer.phone].id \in 1..lastPairing
    /\ \A p \in Phones : release[p].pc # "idle" =>
         /\ release[p].id \in 1..lastPairing
         /\ auth[p] # release[p].id /\ mirror[p] # release[p].id
    /\ \A p \in Phones, n \in 0..MaxPairings : <<p, n>> \in released =>
         /\ n \in 1..lastPairing
         /\ auth[p] # n /\ mirror[p] # n

Quiet == {"fetch", "verify", "exit"}

RemovedIsDrained ==
    \A s \in Slots : Live(s) /\ task[s].pc \notin Quiet =>
      LET p == task[s].item.phone
          n == task[s].item.pairing
      IN  /\ <<p, n>> \notin released
          /\ release[p].pc = "drain" /\ release[p].id = n => s \in release[p].wait

Removal == IdsAscend /\ RemovedIsDrained

PairingStep ==
    \/ \E p \in Phones : AcceptBegin(p) \/ RemoveBegin(p)
                         \/ ReleaseInterrupt(p) \/ ReleaseDone(p)
    \/ AcceptEnd \/ AcceptFail \/ RemoveEnd \/ RemoveFail

LEMMA IdsAscendStep ==
  ASSUME TypeInv, TypeInv', IdsAscend, PairingStep
  PROVE  IdsAscend'
<1>0. PairingType /\ RowType /\ PairingType' /\ RowType'
  BY TypeParts
<1>1. /\ \A p \in Phones : auth[p] \in Nat /\ mirror[p] \in Nat
      /\ lastPairing \in Nat /\ MaxPairings \in Nat
  BY <1>0, DeliveryAssumption DEF PairingType, RowType
<1>2. ASSUME NEW p \in Phones, AcceptBegin(p) PROVE IdsAscend'
  <2>1. /\ mirror' = [mirror EXCEPT ![p] = lastPairing + 1]
        /\ lastPairing' = lastPairing + 1 /\ auth' = auth
        /\ release' = release /\ released' = released
        /\ writer'.op = "accept"
    BY <1>2 DEF AcceptBegin
  <2> QED
    BY <1>0, <1>1, <2>1 DEF IdsAscend, PairingType, RowType
<1>3. CASE AcceptEnd
  BY <1>0, <1>1, <1>3 DEF AcceptEnd, IdsAscend, PairingType, RowType
<1>4. CASE AcceptFail
  BY <1>0, <1>1, <1>4 DEF AcceptFail, IdsAscend, PairingType, RowType
<1>5. ASSUME NEW p \in Phones, RemoveBegin(p) PROVE IdsAscend'
  <2>1. /\ release' = [release EXCEPT ![p].id = auth[p]]
        /\ writer' = [op |-> "remove", phone |-> p]
        /\ release[p].pc = "idle" /\ auth[p] # 0
        /\ lastPairing' = lastPairing /\ released' = released
    BY <1>5 DEF RemoveBegin
  <2>2. \A o \in Phones : /\ auth'[o] \in {auth[o], 0}
                          /\ mirror'[o] \in {mirror[o], 0}
    BY <1>0, <1>5 DEF RemoveBegin, PairingType, RowType
  <2>3. \A o \in Phones : /\ release'[o].pc = release[o].pc
                          /\ o # p => release'[o].id = release[o].id
    BY <1>0, <2>1 DEF PairingType
  <2>4. release'[p].id = auth[p]
    BY <1>0, <2>1 DEF PairingType
  <2>5. writer'.phone = p /\ writer'.op = "remove"
    BY <2>1
  <2>6. /\ release'[writer'.phone].pc = "idle"
        /\ release'[writer'.phone].id \in 1..lastPairing'
    BY <1>1, <2>1, <2>3, <2>4, <2>5 DEF IdsAscend
  <2>7. \A o \in Phones : release'[o].pc # "idle" =>
           /\ release'[o].id \in 1..lastPairing'
           /\ auth'[o] # release'[o].id /\ mirror'[o] # release'[o].id
    BY <1>1, <2>1, <2>2, <2>3 DEF IdsAscend
  <2>8. \A o \in Phones, n \in 0..MaxPairings : <<o, n>> \in released' =>
           /\ n \in 1..lastPairing'
           /\ auth'[o] # n /\ mirror'[o] # n
    BY <1>1, <2>1, <2>2 DEF IdsAscend
  <2>9. \A o \in Phones : mirror'[o] <= lastPairing' /\ auth'[o] <= lastPairing'
    BY <1>1, <2>1, <2>2 DEF IdsAscend
  <2> QED
    BY <2>6, <2>7, <2>8, <2>9 DEF IdsAscend
<1>6. CASE RemoveEnd
  <2> DEFINE w == writer.phone
  <2>1. /\ w \in Phones /\ writer # None /\ writer.op = "remove" /\ writer' = None
        /\ auth' = [auth EXCEPT ![w] = 0] /\ mirror' = [mirror EXCEPT ![w] = 0]
        /\ release' = [release EXCEPT ![w].pc = "interrupt"]
        /\ lastPairing' = lastPairing /\ released' = released
    BY <1>0, <1>6 DEF RemoveEnd, PairingType
  <2>2. \A o \in Phones : /\ auth'[o] = IF o = w THEN 0 ELSE auth[o]
                          /\ mirror'[o] = IF o = w THEN 0 ELSE mirror[o]
                          /\ release'[o].id = release[o].id
                          /\ o # w => release'[o].pc = release[o].pc
    BY <1>0, <2>1 DEF PairingType, RowType
  <2>3. release[w].id \in 1..lastPairing
    BY <2>1 DEF IdsAscend
  <2>4. \A o \in Phones : release'[o].pc # "idle" =>
           /\ release'[o].id \in 1..lastPairing'
           /\ auth'[o] # release'[o].id /\ mirror'[o] # release'[o].id
    BY <1>1, <2>1, <2>2, <2>3 DEF IdsAscend
  <2>5. \A o \in Phones, n \in 0..MaxPairings : <<o, n>> \in released' =>
           /\ n \in 1..lastPairing'
           /\ auth'[o] # n /\ mirror'[o] # n
    BY <1>1, <2>1, <2>2 DEF IdsAscend
  <2>6. \A o \in Phones : mirror'[o] <= lastPairing' /\ auth'[o] <= lastPairing'
    BY <1>1, <2>1, <2>2 DEF IdsAscend
  <2> QED
    BY <2>1, <2>4, <2>5, <2>6 DEF IdsAscend
<1>7. ASSUME NEW p \in Phones, ReleaseInterrupt(p) PROVE IdsAscend'
  <2>1. /\ \A o \in Phones : /\ release'[o].id = release[o].id
                             /\ release'[o].pc # "idle" => release[o].pc # "idle"
                             /\ release[o].pc = "idle" => release'[o].pc = "idle"
        /\ UNCHANGED <<auth, mirror, lastPairing, writer, released>>
    BY <1>0, <1>7 DEF ReleaseInterrupt, PairingType
  <2> QED
    BY <1>0, <2>1 DEF IdsAscend, PairingType
<1>8. ASSUME NEW p \in Phones, ReleaseDone(p) PROVE IdsAscend'
  <2>1. /\ release[p].pc = "drain"
        /\ released' = released \cup {<<p, release[p].id>>}
        /\ UNCHANGED <<auth, mirror, lastPairing, writer>>
    BY <1>8 DEF ReleaseDone
  <2>2. /\ release'[p].pc = "idle"
        /\ \A o \in Phones : o # p => release'[o] = release[o]
    BY <1>0, <1>8 DEF ReleaseDone, PairingType
  <2>3. release[p].id \in 1..lastPairing /\ auth[p] # release[p].id
        /\ mirror[p] # release[p].id
    BY <2>1 DEF IdsAscend
  <2>4. \A o \in Phones, n \in 0..MaxPairings : <<o, n>> \in released' =>
           n \in 1..lastPairing /\ auth[o] # n /\ mirror[o] # n
    BY <2>1, <2>3 DEF IdsAscend
  <2>5. writer # None /\ writer.op = "remove" =>
           writer.phone # p /\ writer.phone \in Phones
    BY <1>0, <2>1 DEF IdsAscend, PairingType
  <2> QED
    BY <2>1, <2>2, <2>4, <2>5 DEF IdsAscend
<1>9. CASE RemoveFail
  <2>1. /\ \A o \in Phones : /\ release'[o].pc = release[o].pc
                             /\ release[o].pc # "idle" => release'[o].id = release[o].id
        /\ UNCHANGED <<auth, mirror, lastPairing, released>>
        /\ writer' = None
    BY <1>0, <1>9 DEF RemoveFail, PairingType, IdsAscend
  <2> QED
    BY <1>0, <2>1 DEF IdsAscend, PairingType
<1> QED
  BY <1>2, <1>3, <1>4, <1>5, <1>6, <1>7, <1>8, <1>9 DEF PairingStep

(* Every other step keeps the ids; TaskExit only shortens the waits.       *)
LEMMA IdsAscendKeep ==
  ASSUME PairingType, IdsAscend, UNCHANGED <<auth, mirror, lastPairing, writer, released>>,
         \A p \in Phones : release'[p].pc = release[p].pc /\ release'[p].id = release[p].id
  PROVE  IdsAscend'
  BY DEF IdsAscend, PairingType

LEMMA IdsAscendRestart ==
  ASSUME TypeInv, IdsAscend, Restart
  PROVE  IdsAscend'
<1>0. PairingType /\ RowType
  BY TypeParts
<1>1. \A p \in Phones : /\ auth'[p] \in {auth[p], mirror[p]}
                        /\ mirror'[p] \in {auth[p], mirror[p]}
                        /\ release'[p].pc = "idle"
  BY DEF Restart
<1>2. writer' = None /\ lastPairing' = lastPairing /\ released' = released
  BY DEF Restart
<1> QED
  BY <1>0, <1>1, <1>2 DEF IdsAscend

(* A step that gets no task past its checks and starts no draining.        *)
LEMMA KeepDrained ==
  ASSUME PairingType, TaskType, RemovedIsDrained, released' = released,
         \A p \in Phones : release'[p].pc = "drain" =>
            release[p].pc = "drain" /\ release'[p].id = release[p].id,
         \A s \in Slots : task'[s] # NoTask /\ task'[s].pc \notin Quiet =>
            /\ task[s] # NoTask /\ task[s].pc \notin Quiet
            /\ task'[s].item = task[s].item
            /\ \A p \in Phones : release'[p].pc = "drain" /\ s \in release[p].wait
                                   => s \in release'[p].wait
  PROVE  RemovedIsDrained'
<1> SUFFICES ASSUME NEW s \in Slots, task'[s] # NoTask, task'[s].pc \notin Quiet
             PROVE  LET p == task'[s].item.phone
                        n == task'[s].item.pairing
                    IN  /\ <<p, n>> \notin released'
                        /\ release'[p].pc = "drain" /\ release'[p].id = n
                             => s \in release'[p].wait
  BY DEF RemovedIsDrained, Live, Quiet
<1>1. task[s] # NoTask /\ task[s].pc \notin Quiet /\ task'[s].item = task[s].item
  OBVIOUS
<1>2. task[s].item.phone \in Phones
  BY <1>1, LiveItem DEF Live, Item
<1> QED
  BY <1>1, <1>2 DEF RemovedIsDrained, Live

LEMMA TaskDrained ==
  ASSUME TypeInv, Removal, NEW s \in Slots,
         TaskStep(s) \/ TaskFail(s) \/ TaskAbort(s) \/ AdoptPlaced(s)
  PROVE  RemovedIsDrained'
<1>0. PairingType /\ TaskType /\ RowType
  BY TypeParts
<1>1. /\ TaskFrame /\ Live(s) /\ task[s] \in TaskRec /\ task[s].item \in Item
      /\ released' = released /\ release' = release /\ mirror' = mirror
  <2>1. TaskFrame /\ Live(s)
    BY DEF TaskStep, TaskFail, TaskAbort, AdoptPlaced, RollBack, At, Fetch, Verify, Export, Exported,
           Authorize, Drop, HashFile, Lookup, Place, Insert, WriteReceipt
  <2> QED
    BY <1>0, <2>1, LiveItem DEF TaskFrame, pairingVars
<1>2. \A t \in Slots : t # s => task'[t] = task[t]
  BY <1>0 DEF TaskStep, TaskFail, TaskAbort, AdoptPlaced, RollBack, Goto, Fetch, Verify, Export, Exported,
         Authorize, Drop, HashFile, Lookup, Place, Insert, WriteReceipt, TaskType
<1>3. task'[s].item = task[s].item
  BY <1>0, <1>1, TaskSame DEF SameTasks, Live
<1>4. CASE Verify(s) /\ ExactActive(task[s].item)
  <2> DEFINE p == task[s].item.phone
             n == task[s].item.pairing
  <2>1. p \in Phones /\ n \in 0..MaxPairings /\ mirror[p] = n
    BY <1>1, <1>4, DeliveryAssumption
    DEF ExactActive, Matches, Stored, Item, PairingIds
  <2>2. /\ <<p, n>> \notin released
        /\ ~(release[p].pc = "drain" /\ release[p].id = n)
    BY <2>1 DEF Removal, IdsAscend
  <2>3. ASSUME NEW t \in Slots, task'[t] # NoTask, task'[t].pc \notin Quiet
        PROVE  LET o == task'[t].item.phone
                   m == task'[t].item.pairing
               IN  /\ <<o, m>> \notin released'
                   /\ release'[o].pc = "drain" /\ release'[o].id = m
                        => t \in release'[o].wait
    <3>1. CASE t = s
      BY <1>1, <1>3, <2>2, <3>1
    <3>2. CASE t # s
      BY <1>1, <1>2, <2>3, <3>2 DEF Removal, RemovedIsDrained, Live
    <3> QED
      BY <3>1, <3>2
  <2> QED
    BY <2>3 DEF RemovedIsDrained, Live, Quiet
<1>5. CASE ~(Verify(s) /\ ExactActive(task[s].item))
  <2>1. task'[s].pc \notin Quiet => task[s].pc \notin Quiet
    BY <1>0, <1>1, <1>5
    DEF TaskStep, TaskFail, TaskAbort, AdoptPlaced, RollBack, At, Goto, Fetch, Verify, Export, Exported,
        Authorize, Drop, HashFile, Lookup, Place, Insert, WriteReceipt, TaskType,
        TaskRec, Quiet
  <2> QED
    BY <1>0, <1>1, <1>2, <1>3, <2>1, KeepDrained DEF Removal, Live
<1> QED
  BY <1>4, <1>5

LEMMA ReleaseDrained ==
  ASSUME TypeInv, Registry, Removal, NEW p \in Phones,
         ReleaseInterrupt(p) \/ ReleaseDone(p)
  PROVE  RemovedIsDrained'
<1>0. PairingType /\ TaskType
  BY TypeParts
<1>1. CASE ReleaseInterrupt(p)
  <2>1. /\ release' = [release EXCEPT ![p].pc = "drain", ![p].wait = InterruptedBy(p)]
        /\ released' = released /\ CancelTokens(InterruptedBy(p)) /\ reg' = reg
    BY <1>1 DEF ReleaseInterrupt
  <2>2. /\ release'[p].wait = InterruptedBy(p)
        /\ \A o \in Phones : o # p => release'[o] = release[o]
    BY <1>0, <2>1 DEF PairingType
  <2>3. \A t \in Slots : task'[t] # NoTask =>
           task[t] # NoTask /\ task'[t].item = task[t].item /\ task'[t].pc = task[t].pc
    BY <1>0, <2>1 DEF CancelTokens, TaskType, TaskRec, NoTask, InterruptedBy,
                      Registered, Live
  <2>4. ASSUME NEW t \in Slots, task'[t] # NoTask, task'[t].pc \notin Quiet
        PROVE  LET o == task'[t].item.phone
                   m == task'[t].item.pairing
               IN  /\ <<o, m>> \notin released'
                   /\ release'[o].pc = "drain" /\ release'[o].id = m
                        => t \in release'[o].wait
    <3>1. task[t] # NoTask /\ task[t].item \in Item
          /\ task'[t].item = task[t].item /\ task'[t].pc = task[t].pc
      BY <1>0, <2>3, <2>4, LiveItem DEF Live
    <3>2. CASE task[t].item.phone = p
      <4>1. t \in InterruptedBy(p)
        BY <3>1, <3>2 DEF InterruptedBy, Registered, Live, Registry, RegistryExact
      <4> QED
        BY <2>1, <2>2, <2>4, <3>1, <3>2, <4>1 DEF Removal, RemovedIsDrained, Live
    <3>3. CASE task[t].item.phone # p
      BY <2>1, <2>2, <2>4, <3>1, <3>3 DEF Removal, RemovedIsDrained, Live, Item
    <3> QED
      BY <3>2, <3>3
  <2> QED
    BY <2>4 DEF RemovedIsDrained, Live, Quiet
<1>2. CASE ReleaseDone(p)
  <2>1. /\ release[p].pc = "drain" /\ release[p].wait = {}
        /\ released' = released \cup {<<p, release[p].id>>} /\ task' = task
    BY <1>2 DEF ReleaseDone, taskVars
  <2>2. /\ release'[p].pc = "idle"
        /\ \A o \in Phones : o # p => release'[o] = release[o]
    BY <1>0, <1>2 DEF ReleaseDone, PairingType
  <2>3. ASSUME NEW t \in Slots, task[t] # NoTask, task[t].pc \notin Quiet
        PROVE  LET o == task[t].item.phone
                   m == task[t].item.pairing
               IN  /\ <<o, m>> \notin released'
                   /\ release'[o].pc = "drain" /\ release'[o].id = m
                        => t \in release'[o].wait
    <3>1. task[t].item.phone \in Phones
      BY <1>0, <2>3, LiveItem DEF Live, Item
    <3> QED
      BY <2>1, <2>2, <2>3, <3>1 DEF Removal, RemovedIsDrained, Live
  <2> QED
    BY <2>1, <2>3 DEF RemovedIsDrained, Live, Quiet
<1> QED
  BY <1>1, <1>2

LEMMA SpawnDrained ==
  ASSUME TypeInv, Removal, NEW i \in Item, Spawn(i),
         UNCHANGED <<release, released>>
  PROVE  RemovedIsDrained'
<1>0. PairingType /\ TaskType
  BY TypeParts
<1>1. \A t \in Slots : task'[t] # NoTask /\ task'[t].pc \notin Quiet =>
         task'[t] = task[t]
  BY <1>0 DEF Spawn, taskVars, TaskType, Quiet
<1> QED
  BY <1>0, <1>1, KeepDrained DEF Removal

LEMMA TokensDrained ==
  ASSUME TypeInv, Removal, NEW S \in SUBSET Slots, \A s \in S : Live(s),
         CancelTokens(S), UNCHANGED <<release, released>>
  PROVE  RemovedIsDrained'
<1>0. PairingType /\ TaskType
  BY TypeParts
<1>1. \A t \in Slots : task'[t] # NoTask =>
         task[t] # NoTask /\ task'[t].item = task[t].item /\ task'[t].pc = task[t].pc
  BY <1>0 DEF CancelTokens, TaskType, TaskRec, NoTask, Live
<1> QED
  BY <1>0, <1>1, KeepDrained DEF Removal

LEMMA PairingDrained ==
  ASSUME TypeInv, Removal,
         \/ \E p \in Phones : AcceptBegin(p) \/ RemoveBegin(p)
         \/ AcceptEnd \/ AcceptFail \/ RemoveEnd \/ RemoveFail
  PROVE  RemovedIsDrained'
<1>0. PairingType /\ TaskType
  BY TypeParts
<1>1. task' = task /\ released' = released
  BY DEF AcceptBegin, RemoveBegin, AcceptEnd, AcceptFail, RemoveEnd, RemoveFail,
         taskVars
<1>2. \A p \in Phones : release'[p].pc = "drain" =>
         /\ release[p].pc = "drain" /\ release'[p].id = release[p].id
         /\ release'[p].wait = release[p].wait
  <2>1. CASE \/ \E p \in Phones : AcceptBegin(p)
             \/ AcceptEnd \/ AcceptFail
    BY <2>1 DEF AcceptBegin, AcceptEnd, AcceptFail
  <2>2. ASSUME NEW p \in Phones, RemoveBegin(p)
        PROVE  \A o \in Phones : release'[o].pc = "drain" => release'[o] = release[o]
    BY <1>0, <2>2 DEF RemoveBegin, PairingType
  <2>3. ASSUME RemoveEnd
        PROVE  \A o \in Phones : release'[o].pc = "drain" => release'[o] = release[o]
    BY <1>0, <2>3 DEF RemoveEnd, PairingType
  <2>4. ASSUME RemoveFail
        PROVE  \A o \in Phones : release'[o].pc = "drain" =>
                  /\ release[o].pc = "drain" /\ release'[o].wait = release[o].wait
                  /\ o # writer.phone => release'[o] = release[o]
    BY <1>0, <2>4 DEF RemoveFail, PairingType
  <2>5. ASSUME RemoveFail PROVE release[writer.phone].pc = "idle"
    BY <1>0, <2>5 DEF RemoveFail, Removal, IdsAscend, PairingType
  <2> QED
    BY <2>1, <2>2, <2>3, <2>4, <2>5
<1>3. \A p \in Phones, s \in Slots :
         release'[p].pc = "drain" /\ s \in release[p].wait => s \in release'[p].wait
  BY <1>2
<1> QED
  BY <1>0, <1>1, <1>2, <1>3, KeepDrained DEF Removal

(* The end of a task takes it, and only it, out of every wait.             *)
LEMMA TaskExitRemoval ==
  ASSUME TypeInv, Removal, NEW s \in Slots, TaskExit(s)
  PROVE  Removal'
<1>0. PairingType /\ TaskType
  BY TypeParts
<1>1. /\ task' = [task EXCEPT ![s] = NoTask]
      /\ UNCHANGED <<auth, mirror, lastPairing, writer, released>>
      /\ release' = [p \in Phones |-> [release[p] EXCEPT !.wait = @ \ {s}]]
  BY DEF TaskExit
<1>2. \A p \in Phones : /\ release'[p].pc = release[p].pc
                         /\ release'[p].id = release[p].id
                         /\ release'[p].wait = release[p].wait \ {s}
  BY <1>0, <1>1 DEF PairingType
<1>3. \A t \in Slots : task'[t] # NoTask => t # s /\ task'[t] = task[t]
  BY <1>0, <1>1 DEF TaskType
<1>4. IdsAscend'
  BY <1>0, <1>1, <1>2, IdsAscendKeep DEF Removal
<1>5. RemovedIsDrained'
  BY <1>0, <1>1, <1>2, <1>3, KeepDrained DEF Removal
<1> QED
  BY <1>4, <1>5 DEF Removal

(* A step that touches neither tasks nor pairings.                         *)
LEMMA OtherRemoval ==
  ASSUME TypeInv, Removal, UNCHANGED <<pairingVars, task>>
  PROVE  Removal'
  BY DEF Removal, IdsAscend, RemovedIsDrained, Live, pairingVars

LEMMA RpcRemoval ==
  ASSUME TypeInv, Registry, Removal, NEW r \in Rpcs,
         RpcArrives(r) \/ RpcStep(r) \/ RpcFail(r)
  PROVE  Removal'
<1>0. PairingType /\ TaskType /\ RpcType
  BY TypeParts
<1>1. UNCHANGED pairingVars
  BY DEF RpcArrives, RpcStep, RpcFail, Offer, Status, Suspend, Cancel, OfferRebind,
         OfferDurable, OfferUpsert, OfferMatch, OfferComplete, StatusTouch,
         StatusSpawn, CancelStore, Interrupt, Answer, RpcFrame
<1>2. IdsAscend'
  BY <1>1 DEF Removal, IdsAscend, pairingVars
<1>3. UNCHANGED <<release, released>>
  BY <1>1 DEF pairingVars
<1>4. CASE task' = task
  BY <1>1, <1>4, OtherRemoval
<1>5. ASSUME RpcAt(r, "match") \/ RpcAt(r, "spawn"), Spawn(rpc[r].item)
      PROVE  RemovedIsDrained'
  <2>1. rpc[r].item \in Item
    BY <1>0, <1>5 DEF RpcType, RpcAt, RpcRec
  <2> QED
    BY <1>3, <1>5, <2>1, SpawnDrained
<1>6. ASSUME Interrupt(r), reg[Key(rpc[r].item)] # None
      PROVE  RemovedIsDrained'
  <2> DEFINE k == Key(rpc[r].item)
  <2>1. rpc[r].item \in Item
    BY <1>0, <1>6 DEF RpcType, RpcAt, RpcRec, Interrupt
  <2>2. k \in Keys
    BY <2>1 DEF Key, Keys, Item
  <2>3. reg[k] \in Slots /\ Live(reg[k])
    BY <1>0, <1>6, <2>2 DEF Registry, RegistryExact, TaskType
  <2>4. CancelTokens({reg[k]})
    BY <1>6 DEF Interrupt
  <2> QED
    BY <1>3, <2>3, <2>4, TokensDrained
<1>7. \/ task' = task
      \/ (RpcAt(r, "match") \/ RpcAt(r, "spawn")) /\ Spawn(rpc[r].item)
      \/ Interrupt(r) /\ reg[Key(rpc[r].item)] # None
  BY DEF RpcArrives, RpcStep, RpcFail, Offer, Status, Suspend, Cancel, OfferRebind,
         OfferDurable, OfferUpsert, OfferMatch, OfferComplete, StatusTouch,
         StatusSpawn, CancelStore, Interrupt, Answer, taskVars
<1> QED
  BY <1>2, <1>4, <1>5, <1>6, <1>7 DEF Removal

LEMMA InterruptAllDrained ==
  ASSUME TypeInv, Removal, InterruptAll
  PROVE  Removal'
<1>1. UNCHANGED pairingVars /\ CancelTokens({s \in Slots : Registered(s)})
  BY DEF InterruptAll, TaskFrame
<1>2. IdsAscend'
  BY <1>1 DEF Removal, IdsAscend, pairingVars
<1>3. \A s \in {t \in Slots : Registered(t)} : Live(s)
  BY DEF Registered
<1>4. RemovedIsDrained'
  BY <1>1, <1>3, TokensDrained DEF pairingVars
<1> QED
  BY <1>2, <1>4 DEF Removal

LEMMA InitRemoval == Init => Removal
  BY DEF Init, Removal, IdsAscend, RemovedIsDrained, Live

LEMMA NextRemoval == Inv /\ Removal /\ [Next]_vars => Removal'
<1> SUFFICES ASSUME Inv, Removal, [Next]_vars PROVE Removal'
  OBVIOUS
<1>0. TypeInv /\ Registry
  BY DEF Inv
<1>1. CASE PairingStep
  <2>1. TypeInv /\ TypeInv' /\ IdsAscend /\ PairingStep
    BY <1>0, <1>1, NextInv DEF Removal, Inv
  <2>3. IdsAscend'
    BY <2>1, IdsAscendStep
  <2>2. RemovedIsDrained'
    BY <1>0, <1>1, PairingDrained, ReleaseDrained DEF PairingStep
  <2> QED
    BY <2>2, <2>3 DEF Removal
<1>2. ASSUME NEW s \in Slots, TaskStep(s) \/ TaskFail(s) \/ TaskAbort(s) \/ AdoptPlaced(s)
      PROVE  Removal'
  <2>1. UNCHANGED pairingVars
    BY <1>2 DEF TaskStep, TaskFail, TaskAbort, AdoptPlaced, RollBack, Fetch, Verify, Export, Exported,
                Authorize, Drop, HashFile, Lookup, Place, Insert, WriteReceipt,
                TaskFrame
  <2>2. IdsAscend'
    BY <2>1 DEF Removal, IdsAscend, pairingVars
  <2> QED
    BY <1>0, <1>2, <2>2, TaskDrained DEF Removal
<1>3. CASE \E s \in Slots : TaskExit(s)
  BY <1>0, <1>3, TaskExitRemoval
<1>4. CASE InterruptAll
  BY <1>0, <1>4, InterruptAllDrained
<1>5. CASE \E r \in Rpcs : RpcArrives(r) \/ RpcStep(r) \/ RpcFail(r)
  BY <1>0, <1>5, RpcRemoval
<1>6. CASE \/ \E p \in Phones, q \in Seqs : GrantAges(p, q)
           \/ SweepSelect \/ SweepCancel \/ \E i \in sweep.list : SweepCheck(i)
           \/ \E h \in Hashes : UserDelete(h) \/ Adopt(h)
           \/ UNCHANGED vars
  <2>1. UNCHANGED <<pairingVars, task>>
    BY <1>6 DEF GrantAges, SweepSelect, SweepCancel, SweepCheck, UserDelete, Adopt,
                vars, taskVars
  <2> QED
    BY <1>0, <2>1, OtherRemoval
<1>7. CASE Restart
  <2>1. IdsAscend'
    BY <1>0, <1>7, IdsAscendRestart DEF Removal
  <2>2. RemovedIsDrained'
    BY <1>7 DEF Restart, RemovedIsDrained, Live
  <2> QED
    BY <2>1, <2>2 DEF Removal
<1> QED
  BY <1>1, <1>2, <1>3, <1>4, <1>5, <1>6, <1>7 DEF Next, PairingStep

(* Once the removal of a pairing has been answered, no task of it is past  *)
(* its checks and short of its end: unpair::release answers only after the *)
(* tasks it interrupted have gone, and none can start again under it.      *)
THEOREM RemovedQuiet == Spec => []RemovedPairingIsQuiet
<1>1. Inv /\ Removal => RemovedPairingIsQuiet
  BY DEF Removal, RemovedIsDrained, RemovedPairingIsQuiet, Quiet
<1>2. Inv /\ Removal /\ [Next]_vars => Inv' /\ Removal'
  BY NextInv, NextRemoval
<1> QED
  BY <1>1, <1>2, InitInv, InitRemoval, PTL DEF Spec

=============================================================================
