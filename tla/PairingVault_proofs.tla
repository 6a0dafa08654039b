------------------------ MODULE PairingVault_proofs ------------------------
(***************************************************************************)
(* Proofs about PairingVault, for every number of phones, daemons, calls,  *)
(* pairings and identities, and every choice of Vaults and Events.         *)
(***************************************************************************)
EXTENDS PairingVault, TLAPS

-----------------------------------------------------------------------------
(* Type correctness.  A call belongs to a daemon that serves, and is about *)
(* a phone.                                                                *)

CallsHome ==
    \A r \in Reqs :
      IF req[r].pc = "idle" THEN req[r] = NoReq
      ELSE /\ req[r].proc \in Procs /\ Serving(req[r].proc)
           /\ req[r].phone \in Phones
           /\ IF req[r].kind = "accept" THEN req[r].id \in 1..lastId
              ELSE req[r].kind = "remove" /\ req[r].by \in {"owner", "device"}

Shape == TypeOK /\ CallsHome

StoreType ==
    /\ vault \in [Phones -> Ids] /\ mirror \in [Phones -> Ids]
    /\ profile \in [Phones -> {"absent", "here", "owner", "device", "identity"}]
    /\ key \in 0..MaxKeys

MintType ==
    /\ hasVault \in BOOLEAN
    /\ lastId \in Ids /\ lastKey \in 0..MaxKeys
    /\ born \in [1..MaxPairings ->
         [phone: Phones \cup {None}, key: 0..MaxKeys, alone: BOOLEAN]]
    /\ revoked \subseteq Ids

ProcRec ==
    [st: {"down", "load", "list", "align", "settle", "clear", "rows", "mark",
          "write", "readback", "claim", "serve", "leaving"},
     index: [Phones -> Ids], key: 0..MaxKeys, read: [Phones -> Ids],
     listed: [Phones -> Ids], away: SUBSET Phones, knew: SUBSET Ids,
     alone: BOOLEAN]
ProcType == proc \in [Procs -> ProcRec]

ReqRec ==
    [pc: {"idle", "wait", "vault", "undo", "index", "rows"},
     kind: {"accept", "remove", None}, proc: Procs \cup {None},
     phone: Phones \cup {None}, id: Ids, by: {"owner", "device", None}]
ReqType == req \in [Reqs -> ReqRec]

LEMMA TypeParts ==
  /\ TypeOK <=> StoreType /\ MintType /\ ProcType /\ ReqType
  /\ TypeOK' <=> StoreType' /\ MintType' /\ ProcType' /\ ReqType'
  BY DEF TypeOK, StoreType, MintType, ProcType, ReqType,
         ProcRec, ReqRec

LEMMA NoneTypes ==
  0 \in Ids /\ NoPairings \in [Phones -> Ids]
  BY PairingAssumption DEF Ids, NoPairings

LEMMA InitShape == Init => Shape
<1> SUFFICES ASSUME Init PROVE Shape
  OBVIOUS
<1>1. StoreType /\ MintType
  BY PairingAssumption DEF Init, StoreType, MintType, Ids, NoPairings
<1>2. ProcType
  BY PairingAssumption DEF Init, ProcType, ProcRec, NoProc, Ids, NoPairings
<1>3. ReqType /\ CallsHome
  BY PairingAssumption DEF Init, ReqType, ReqRec, CallsHome, NoReq, Ids
<1> QED
  BY <1>1, <1>2, <1>3, TypeParts DEF Shape

(* A process keeps its type when a step of its start writes these fields.  *)
LEMMA ProcEdits ==
  ASSUME NEW k \in ProcRec, NEW f \in [Phones -> Ids], NEW s \in SUBSET Ids,
         NEW a \in SUBSET Phones, NEW n \in 0..MaxKeys
  PROVE  /\ [k EXCEPT !.st = "list", !.read = f, !.knew = s] \in ProcRec
         /\ [k EXCEPT !.st = "align", !.listed = f] \in ProcRec
         /\ k.read \in [Phones -> Ids]
         /\ [k EXCEPT !.st = "settle", !.index = k.read, !.away = a] \in ProcRec
         /\ [k EXCEPT !.st = IF n = 0 THEN "clear" ELSE "claim", !.key = n] \in ProcRec
         /\ [k EXCEPT !.st = "rows", !.index = f] \in ProcRec
         /\ [k EXCEPT !.st = "mark", !.index = f] \in ProcRec
         /\ [k EXCEPT !.st = "write"] \in ProcRec
         /\ [k EXCEPT !.st = "readback", !.key = n] \in ProcRec
         /\ [k EXCEPT !.st = "claim"] \in ProcRec
         /\ [k EXCEPT !.st = "serve", !.read = f, !.listed = f, !.away = a] \in ProcRec
         /\ [k EXCEPT !.st = "leaving"] \in ProcRec
         /\ [k EXCEPT !.alone = FALSE] \in ProcRec
<1>1. [k EXCEPT !.st = "list", !.read = f, !.knew = s] \in ProcRec
  BY DEF ProcRec
<1>2. [k EXCEPT !.st = "align", !.listed = f] \in ProcRec
  BY DEF ProcRec
<1>3. k.read \in [Phones -> Ids]
  BY DEF ProcRec
<1>4. [k EXCEPT !.st = "settle", !.index = k.read, !.away = a] \in ProcRec
  BY <1>3 DEF ProcRec
<1>5. [k EXCEPT !.st = IF n = 0 THEN "clear" ELSE "claim", !.key = n] \in ProcRec
  <2>1. \A st \in {"clear", "claim"} : [k EXCEPT !.st = st, !.key = n] \in ProcRec
    BY DEF ProcRec
  <2> QED
    BY <2>1
<1>6. /\ [k EXCEPT !.st = "rows", !.index = f] \in ProcRec
      /\ [k EXCEPT !.st = "mark", !.index = f] \in ProcRec
  BY DEF ProcRec
<1>7. /\ [k EXCEPT !.st = "write"] \in ProcRec
      /\ [k EXCEPT !.st = "readback", !.key = n] \in ProcRec
      /\ [k EXCEPT !.st = "claim"] \in ProcRec
  BY DEF ProcRec
<1>8. [k EXCEPT !.st = "serve", !.read = f, !.listed = f, !.away = a] \in ProcRec
  BY DEF ProcRec
<1>9. [k EXCEPT !.st = "leaving"] \in ProcRec /\ [k EXCEPT !.alone = FALSE] \in ProcRec
  BY DEF ProcRec
<1> QED
  BY <1>1, <1>2, <1>3, <1>4, <1>5, <1>6, <1>7, <1>8, <1>9

(* ... and what a step does not write, it leaves.                          *)
LEMMA NotAlone ==
  ASSUME NEW k \in ProcRec
  PROVE  LET m == [k EXCEPT !.alone = FALSE]
         IN  m.st = k.st /\ m.index = k.index /\ m.read = k.read /\ m.knew = k.knew
  BY DEF ProcRec

LEMMA ProcFields ==
  ASSUME NEW k \in ProcRec, NEW p \in Phones, NEW n \in Ids, NEW s \in SUBSET Ids
  PROVE  /\ [k EXCEPT !.index[p] = n].index = [k.index EXCEPT ![p] = n]
         /\ [k EXCEPT !.index[p] = n, !.knew = s].index = [k.index EXCEPT ![p] = n]
         /\ k.index \in [Phones -> Ids]
  BY DEF ProcRec

(* The start.                                                              *)
LEMMA StartShape ==
  ASSUME NEW x \in Procs, Shape, StartStep(x)
  PROVE  Shape'
<1> USE DEF At, Goto, ProcFrame, storeVars, mintVars
<1>0. StoreType /\ MintType /\ ProcType /\ ReqType /\ CallsHome
  BY TypeParts DEF Shape
<1>1. StoreType'
  <2>1. CASE AlignMirror(x)
    <3>1. proc[x].read \in [Phones -> Ids]
      BY <1>0 DEF ProcType, ProcRec
    <3> QED
      BY <1>0, <2>1, <3>1, NoneTypes DEF AlignMirror, StoreType
  <2>2. CASE ClearVault(x)
    BY <1>0, <2>2, NoneTypes DEF ClearVault, StoreType
  <2>5. CASE ClearRows(x)
    BY <1>0, <2>5, NoneTypes DEF ClearRows, StoreType
  <2>4. CASE MarkAway(x)
    BY <1>0, <2>4 DEF MarkAway, StoreType
  <2>3. CASE WriteKey(x)
    BY <1>0, <2>3, PairingAssumption DEF WriteKey, StoreType, MintType
  <2> QED
    BY <1>0, <2>1, <2>2, <2>3, <2>4, <2>5
    DEF StartStep, Start, LoadVault, AlignList, Settle, ReadBack, Claim, StoreType
<1>2. MintType'
  <2>1. CASE WriteKey(x)
    BY <1>0, <2>1, PairingAssumption DEF WriteKey, MintType
  <2> QED
    BY <1>0, <2>1
    DEF StartStep, Start, LoadVault, AlignList, AlignMirror, Settle, ClearVault,
        ClearRows, MarkAway, ReadBack, Claim, MintType
<1>3. ProcType'
  <2>0. /\ vault \in [Phones -> Ids] /\ mirror \in [Phones -> Ids]
        /\ key \in 0..MaxKeys /\ lastKey \in 0..MaxKeys /\ revoked \subseteq Ids
    BY <1>0 DEF StoreType, MintType
  <2>12. proc[x] \in ProcRec /\ NoPairings \in [Phones -> Ids]
    BY <1>0, NoneTypes DEF ProcType
  <2>1. CASE Start(x)
    <3> DEFINE rec == [NoProc EXCEPT !.st = IF hasVault THEN "load" ELSE "settle",
                                     !.index = IF hasVault THEN @ ELSE mirror,
                                     !.knew = revoked,
                                     !.alone = \A z \in Procs \ {x} : proc[z].st = "down"]
    <3>0. NoProc \in ProcRec
      BY NoneTypes, PairingAssumption DEF ProcRec, NoProc
    <3>1. rec \in ProcRec
      BY <2>0, <3>0 DEF ProcRec
    <3>2. \A y \in Procs : [proc[y] EXCEPT !.alone = FALSE] \in ProcRec
      BY <1>0, <2>0, ProcEdits DEF ProcType
    <3>3. proc' = [y \in Procs |-> IF y = x THEN rec ELSE [proc[y] EXCEPT !.alone = FALSE]]
      BY <2>1 DEF Start
    <3> QED
      BY <3>1, <3>2, <3>3 DEF ProcType
  <2>2. CASE LoadVault(x)
    <3>1. proc' = [proc EXCEPT ![x] = [proc[x] EXCEPT !.st = "list", !.read = vault, !.knew = revoked]]
      BY <1>0, <2>2 DEF LoadVault, ProcType
    <3>2. [proc[x] EXCEPT !.st = "list", !.read = vault, !.knew = revoked] \in ProcRec
      BY <2>0, <2>12, ProcEdits
    <3> QED
      BY <1>0, <3>1, <3>2 DEF ProcType
  <2>3. CASE AlignList(x)
    <3>1. proc' = [proc EXCEPT ![x] = [proc[x] EXCEPT !.st = "align", !.listed = mirror]]
      BY <1>0, <2>3 DEF AlignList, ProcType
    <3>2. [proc[x] EXCEPT !.st = "align", !.listed = mirror] \in ProcRec
      BY <2>0, <2>12, ProcEdits
    <3> QED
      BY <1>0, <3>1, <3>2 DEF ProcType
  <2>4. CASE AlignMirror(x)
    <3>1. proc' = [proc EXCEPT ![x] = [proc[x] EXCEPT !.st = "settle", !.index = proc[x].read,
                               !.away = {p \in Phones : proc[x].listed[p] # 0
                                           /\ proc[x].read[p] # proc[x].listed[p]}]]
      BY <1>0, <2>4 DEF AlignMirror, ProcType
    <3>0. {p \in Phones : proc[x].listed[p] # 0 /\ proc[x].read[p] # proc[x].listed[p]}
            \in SUBSET Phones
      OBVIOUS
    <3>2. [proc[x] EXCEPT !.st = "settle", !.index = proc[x].read,
                          !.away = {p \in Phones : proc[x].listed[p] # 0
                                      /\ proc[x].read[p] # proc[x].listed[p]}] \in ProcRec
      BY <2>0, <2>12, <3>0, ProcEdits
    <3> QED
      BY <1>0, <3>1, <3>2 DEF ProcType
  <2>5. CASE Settle(x)
    <3>1. proc' = [proc EXCEPT ![x] = [proc[x] EXCEPT !.st = IF key = 0 THEN "clear" ELSE "claim", !.key = key]]
      BY <1>0, <2>5 DEF Settle, ProcType
    <3>2. [proc[x] EXCEPT !.st = IF key = 0 THEN "clear" ELSE "claim", !.key = key] \in ProcRec
      BY <2>0, <2>12, ProcEdits
    <3> QED
      BY <1>0, <3>1, <3>2 DEF ProcType
  <2>6. CASE ClearVault(x)
    <3>1. proc' = [proc EXCEPT ![x] = [proc[x] EXCEPT !.st = "rows", !.index = NoPairings]]
      BY <1>0, <2>6 DEF ClearVault, ProcType
    <3>2. [proc[x] EXCEPT !.st = "rows", !.index = NoPairings] \in ProcRec
      BY <2>0, <2>12, ProcEdits
    <3> QED
      BY <1>0, <3>1, <3>2 DEF ProcType
  <2>7. CASE ClearRows(x)
    <3>1. proc' = [proc EXCEPT ![x] = [proc[x] EXCEPT !.st = "mark", !.index = NoPairings]]
      BY <1>0, <2>7 DEF ClearRows, ProcType
    <3>2. [proc[x] EXCEPT !.st = "mark", !.index = NoPairings] \in ProcRec
      BY <2>0, <2>12, ProcEdits
    <3> QED
      BY <1>0, <3>1, <3>2 DEF ProcType
  <2>8. CASE MarkAway(x)
    <3>1. proc' = [proc EXCEPT ![x] = [proc[x] EXCEPT !.st = "write"]]
      BY <1>0, <2>8 DEF MarkAway, ProcType
    <3>2. [proc[x] EXCEPT !.st = "write"] \in ProcRec
      BY <2>0, <2>12, ProcEdits
    <3> QED
      BY <1>0, <3>1, <3>2 DEF ProcType
  <2>9. CASE WriteKey(x)
    <3>1. proc' = [proc EXCEPT ![x] = [proc[x] EXCEPT !.st = "readback", !.key = lastKey + 1]]
      BY <1>0, <2>9 DEF WriteKey, ProcType
    <3>0. lastKey + 1 \in 0..MaxKeys
      BY <2>0, <2>9, PairingAssumption DEF WriteKey
    <3>2. [proc[x] EXCEPT !.st = "readback", !.key = lastKey + 1] \in ProcRec
      BY <2>0, <2>12, <3>0, ProcEdits
    <3> QED
      BY <1>0, <3>1, <3>2 DEF ProcType
  <2>10. CASE ReadBack(x)
    <3>1. proc' = [proc EXCEPT ![x] = [proc[x] EXCEPT !.st = "claim"]]
      BY <1>0, <2>10 DEF ReadBack, ProcType
    <3>2. [proc[x] EXCEPT !.st = "claim"] \in ProcRec
      BY <2>0, <2>12, ProcEdits
    <3> QED
      BY <1>0, <3>1, <3>2 DEF ProcType
  <2>11. CASE Claim(x)
    <3>1. proc' = [proc EXCEPT ![x] = [proc[x] EXCEPT !.st = "serve", !.read = NoPairings,
                               !.listed = NoPairings, !.away = {}]]
      BY <1>0, <2>11 DEF Claim, ProcType
    <3>0. {} \in SUBSET Phones
      OBVIOUS
    <3>2. [proc[x] EXCEPT !.st = "serve", !.read = NoPairings,
                               !.listed = NoPairings, !.away = {}] \in ProcRec
      BY <2>0, <2>12, <3>0, ProcEdits
    <3> QED
      BY <1>0, <3>1, <3>2 DEF ProcType
  <2> QED
    BY <2>1, <2>2, <2>3, <2>4, <2>5, <2>6, <2>7, <2>8, <2>9, <2>10, <2>11
    DEF StartStep
<1>4. req' = req /\ lastId' = lastId
  BY DEF StartStep, Start, LoadVault, AlignList, AlignMirror, Settle, ClearVault,
         ClearRows, MarkAway, WriteKey, ReadBack, Claim
<1>5. \A y \in Procs : Serving(y) => Serving(y)'
  <2>1. CASE Start(x)
    BY <1>0, <2>1 DEF Start, Serving, ProcType, ProcRec
  <2>2. CASE Claim(x)
    BY <1>0, <2>2 DEF Claim, Serving, ProcType
  <2>3. CASE LoadVault(x) \/ AlignList(x) \/ AlignMirror(x) \/ Settle(x)
    BY <1>0, <2>3 DEF LoadVault, AlignList, AlignMirror, Settle, Serving, ProcType
  <2>4. CASE ClearVault(x) \/ ClearRows(x) \/ MarkAway(x) \/ WriteKey(x) \/ ReadBack(x)
    BY <1>0, <2>4
    DEF ClearVault, ClearRows, MarkAway, WriteKey, ReadBack, Serving, ProcType
  <2> QED
    BY <2>1, <2>2, <2>3, <2>4 DEF StartStep
<1>6. CallsHome'
  BY <1>0, <1>4, <1>5 DEF CallsHome
<1> QED
  BY <1>0, <1>1, <1>2, <1>3, <1>4, <1>6, TypeParts DEF Shape, ReqType

(* The end of a daemon, and the loss of the key.                           *)
LEMMA LeaveShape ==
  ASSUME NEW x \in Procs, Shape, Leave(x)
  PROVE  Shape'
<1>0. StoreType /\ MintType /\ ProcType /\ ReqType /\ CallsHome
  BY TypeParts DEF Shape
<1>1. StoreType' /\ MintType'
  BY <1>0 DEF Leave, StoreType, MintType, storeVars, mintVars
<1>2. ProcType'
  BY <1>0, NoneTypes, PairingAssumption DEF Leave, ProcType, ProcRec, NoProc
<1>3. NoReq.pc = "idle" /\ NoReq \in ReqRec
  BY NoneTypes DEF NoReq, ReqRec
<1>4. ReqType'
  BY <1>0, <1>3 DEF Leave, ReqType
<1>5. CallsHome'
  BY <1>0, <1>3 DEF Leave, CallsHome, ReqType, ProcType, Serving, At, mintVars
<1> QED
  BY <1>1, <1>2, <1>4, <1>5, TypeParts DEF Shape

LEMMA OtherShape ==
  ASSUME Shape, LoseKey \/ (\E x, y \in Procs : StepDown(x, y))
  PROVE  Shape'
<1>0. StoreType /\ MintType /\ ProcType /\ ReqType /\ CallsHome
  BY TypeParts DEF Shape
<1>1. CASE LoseKey
  BY <1>0, <1>1, PairingAssumption, TypeParts
  DEF LoseKey, Shape, CallsHome, Serving, StoreType, MintType, ProcType, ReqType, mintVars
<1>2. CASE \E x, y \in Procs : StepDown(x, y)
  <2> PICK x \in Procs, y \in Procs : StepDown(x, y)
    BY <1>2
  <2>1. ProcType' /\ \A z \in Procs : Serving(z) => Serving(z)'
    <3>0. proc[y] \in ProcRec
      BY <1>0 DEF ProcType
    <3>1. [proc[y] EXCEPT !.st = "leaving"] \in ProcRec
      BY <3>0 DEF ProcRec
    <3>2. [proc[y] EXCEPT !.st = "leaving"].st = "leaving"
      BY <3>0 DEF ProcRec
    <3> QED
      BY <1>0, <3>1, <3>2 DEF StepDown, Goto, At, Serving, ProcType
  <2> QED
    BY <1>0, <2>1, TypeParts
    DEF StepDown, ProcFrame, Shape, CallsHome, StoreType, MintType, ReqType, mintVars, storeVars
<1> QED
  BY <1>1, <1>2

(* A call.                                                                 *)
LEMMA ArriveShape ==
  ASSUME NEW r \in Reqs, NEW x \in Procs, NEW p \in Phones, Shape,
         \/ AcceptArrives(r, x, p)
         \/ \E id \in Ids, by \in {"owner", "device"} : RemoveArrives(r, x, p, id, by)
  PROVE  Shape'
<1>0. StoreType /\ MintType /\ ProcType /\ ReqType /\ CallsHome
  BY TypeParts DEF Shape
<1>1. CASE AcceptArrives(r, x, p)
  <2>1. lastId \in Nat /\ lastId + 1 \in Ids /\ lastId + 1 \in 1..MaxPairings
    BY <1>0, <1>1, PairingAssumption DEF AcceptArrives, MintType, Ids
  <2>2. MintType'
    <3>1. proc[x].key \in 0..MaxKeys
      BY <1>0 DEF ProcType, ProcRec
    <3> QED
      BY <1>0, <1>1, <2>1, <3>1 DEF AcceptArrives, MintType
  <2>3. ReqType'
    <3> DEFINE rec == [NoReq EXCEPT !.pc = "wait", !.kind = "accept",
                                    !.proc = x, !.phone = p, !.id = lastId + 1]
    <3>1. rec \in ReqRec
      BY <2>1 DEF ReqRec, NoReq
    <3> QED
      BY <1>0, <1>1, <3>1 DEF AcceptArrives, ReqType
  <2>4. CallsHome'
    BY <1>0, <1>1, <2>1 DEF AcceptArrives, CallsHome, Serving, ReqType, NoReq
  <2> QED
    BY <1>0, <1>1, <2>2, <2>3, <2>4, TypeParts
    DEF AcceptArrives, Shape, StoreType, ProcType, storeVars
<1>2. CASE \E id \in Ids, by \in {"owner", "device"} : RemoveArrives(r, x, p, id, by)
  <2> PICK id \in Ids, by \in {"owner", "device"} : RemoveArrives(r, x, p, id, by)
    BY <1>2
  <2>1. ReqType'
    <3> DEFINE rec == [NoReq EXCEPT !.pc = "wait", !.kind = "remove",
                                    !.proc = x, !.phone = p, !.id = id, !.by = by]
    <3>1. rec \in ReqRec
      BY NoneTypes DEF ReqRec, NoReq
    <3> QED
      BY <1>0, <3>1 DEF RemoveArrives, ReqType
  <2>2. CallsHome'
    BY <1>0 DEF RemoveArrives, CallsHome, Serving, ReqType, NoReq, mintVars
  <2> QED
    BY <1>0, <2>1, <2>2, TypeParts
    DEF RemoveArrives, Shape, StoreType, MintType, ProcType, storeVars, mintVars
<1> QED
  BY <1>1, <1>2

(* How a call's step changes the calls.                                    *)
LEMMA CallMoves ==
  ASSUME NEW r \in Reqs, ReqStep(r)
  PROVE  ReqEnd(r) \/ \E pc \in {"vault", "undo", "index", "rows"} : ReqGoto(r, pc)
  BY DEF ReqStep, AcceptRow, AcceptVault, AcceptVaultFails, AcceptUndo, AcceptIndex,
         RemoveCheck, RemoveVault, RemoveVaultFails, RemoveTable, RemoveIndex,
         RemoveRows, RowsFail

LEMMA CallLives ==
  ASSUME NEW r \in Reqs, Shape, ReqStep(r)
  PROVE  /\ req[r].pc # "idle" /\ req[r] \in ReqRec
         /\ req[r].proc \in Procs /\ Serving(req[r].proc) /\ req[r].phone \in Phones
<1>1. req[r].pc # "idle"
  BY DEF ReqStep, AcceptRow, AcceptVault, AcceptVaultFails, AcceptUndo, AcceptIndex,
         RemoveCheck, RemoveVault, RemoveVaultFails, RemoveTable, RemoveIndex,
         RemoveRows, RowsFail, Enters, ReqAt
<1> QED
  BY <1>1, TypeParts DEF Shape, CallsHome, ReqType

(* Memory changes in two steps only, and nobody's state.                   *)
LEMMA CallProc ==
  ASSUME NEW r \in Reqs, Shape, ReqStep(r)
  PROVE  /\ ProcType'
         /\ \A x \in Procs : /\ proc'[x].st = proc[x].st /\ proc'[x].key = proc[x].key
                             /\ proc'[x].alone = proc[x].alone
                             /\ proc'[x].read = proc[x].read
<1>0. ProcType /\ ReqType
  BY TypeParts DEF Shape
<1> DEFINE x == req[r].proc
<1> DEFINE p == req[r].phone
<1>1. x \in Procs /\ p \in Phones /\ proc[x] \in ProcRec /\ req[r].id \in Ids
  BY <1>0, CallLives DEF ReqRec, ProcType
<1>2. CASE AcceptIndex(r)
  <2> DEFINE rec == [proc[x] EXCEPT !.index[p] = req[r].id]
  <2>1. rec \in ProcRec
    BY <1>1 DEF ProcRec
  <2>2. proc' = [proc EXCEPT ![x] = rec]
    BY <1>0, <1>1, <1>2 DEF AcceptIndex, SetIndex, ProcType, ProcRec
  <2>3. /\ rec.st = proc[x].st /\ rec.key = proc[x].key
        /\ rec.alone = proc[x].alone /\ rec.read = proc[x].read
    BY <1>1 DEF ProcRec
  <2> HIDE DEF rec
  <2> QED
    BY <1>0, <1>1, <2>1, <2>2, <2>3 DEF ProcType
<1>3. CASE RemoveIndex(r)
  <2> DEFINE gone == {proc[x].index[p]} \ {0}
  <2> DEFINE rec == [proc[x] EXCEPT !.index[p] = 0, !.knew = @ \cup gone]
  <2>1. gone \subseteq Ids
    BY <1>1 DEF ProcRec
  <2>2. rec \in ProcRec
    BY <1>1, <2>1, NoneTypes DEF ProcRec
  <2>3. proc' = [proc EXCEPT ![x] = rec]
    BY <1>0, <1>1, <1>3 DEF RemoveIndex, ProcType, ProcRec
  <2>4. /\ rec.st = proc[x].st /\ rec.key = proc[x].key
        /\ rec.alone = proc[x].alone /\ rec.read = proc[x].read
    BY <1>1 DEF ProcRec
  <2> HIDE DEF rec
  <2> QED
    BY <1>0, <1>1, <2>2, <2>3, <2>4 DEF ProcType
<1>4. CASE proc' = proc
  BY <1>0, <1>4 DEF ProcType
<1> QED
  BY <1>2, <1>3, <1>4
  DEF ReqStep, AcceptRow, AcceptVault, AcceptVaultFails, AcceptUndo,
      RemoveCheck, RemoveVault, RemoveVaultFails, RemoveTable, RemoveRows, RowsFail

LEMMA CallShape ==
  ASSUME NEW r \in Reqs, Shape, ReqStep(r)
  PROVE  Shape'
<1>0. StoreType /\ MintType /\ ProcType /\ ReqType /\ CallsHome
  BY TypeParts DEF Shape
<1>1. /\ req[r].pc # "idle" /\ req[r] \in ReqRec /\ NoReq \in ReqRec
      /\ req[r].proc \in Procs /\ req[r].phone \in Phones /\ req[r].id \in Ids
  BY CallLives, NoneTypes DEF ReqRec, NoReq
<1>2. StoreType'
  <2>1. CASE AcceptRow(r) \/ AcceptVault(r)
    BY <1>0, <1>1, <2>1 DEF AcceptRow, AcceptVault, Written, StoreType
  <2>2. CASE AcceptUndo(r) \/ RemoveVault(r)
    BY <1>0, <1>1, <2>2, NoneTypes DEF AcceptUndo, RemoveVault, ReqFrame, StoreType
  <2>3. CASE RemoveTable(r) \/ RemoveRows(r)
    <3>1. req[r].by \in {"owner", "device"}
      BY <1>0, <1>1, <2>3 DEF CallsHome, RemoveTable, RemoveRows, Enters, ReqAt
    <3> QED
      BY <1>0, <1>1, <2>3, <3>1, NoneTypes
      DEF RemoveTable, RemoveRows, Departs, ReqFrame, StoreType
  <2> QED
    BY <1>0, <2>1, <2>2, <2>3
    DEF ReqStep, AcceptVaultFails, AcceptIndex, RemoveCheck, RemoveVaultFails,
        RemoveIndex, RowsFail, ReqFrame, StoreType
<1>3. MintType'
  <2>1. CASE AcceptRow(r) \/ AcceptVault(r)
    <3>1. proc[req[r].proc].alone \in BOOLEAN
      BY <1>0, <1>1 DEF ProcType, ProcRec
    <3> QED
      BY <1>0, <2>1, <3>1 DEF AcceptRow, AcceptVault, Written, MintType
  <2>2. CASE RemoveIndex(r)
    <3>1. proc[req[r].proc].index[req[r].phone] \in Ids
      BY <1>0, <1>1 DEF ProcType, ProcRec
    <3> QED
      BY <1>0, <2>2, <3>1 DEF RemoveIndex, ReqFrame, mintVars, MintType
  <2> QED
    BY <1>0, <2>1, <2>2
    DEF ReqStep, AcceptVaultFails, AcceptUndo, AcceptIndex, RemoveCheck, RemoveVault,
        RemoveVaultFails, RemoveTable, RemoveRows, RowsFail, ReqFrame, mintVars, MintType
<1>4. lastId' = lastId
  BY DEF ReqStep, AcceptRow, AcceptVault, AcceptVaultFails, AcceptUndo, AcceptIndex,
         RemoveCheck, RemoveVault, RemoveVaultFails, RemoveTable, RemoveIndex,
         RemoveRows, RowsFail, ReqFrame, Written, mintVars
<1>5. ReqType' /\ CallsHome'
  <2>1. CASE ReqEnd(r)
    BY <1>0, <1>1, <1>4, <2>1, CallProc DEF ReqEnd, ReqType, CallsHome, Serving, At, NoReq
  <2>2. CASE \E pc \in {"vault", "undo", "index", "rows"} : ReqGoto(r, pc)
    BY <1>0, <1>1, <1>4, <2>2, CallProc DEF ReqGoto, ReqType, ReqRec, CallsHome, Serving, At
  <2> QED
    BY <2>1, <2>2, CallMoves
<1> QED
  BY <1>2, <1>3, <1>5, CallProc, TypeParts DEF Shape

LEMMA ShapeStep == Shape /\ [Next]_vars => Shape'
<1> SUFFICES ASSUME Shape, [Next]_vars PROVE Shape'
  OBVIOUS
<1>1. CASE UNCHANGED vars
  BY <1>1 DEF vars, storeVars, mintVars, Shape, TypeOK, CallsHome, Serving
<1>2. CASE \E r \in Reqs, x \in Procs, p \in Phones :
         \/ AcceptArrives(r, x, p)
         \/ \E id \in Ids, by \in {"owner", "device"} : RemoveArrives(r, x, p, id, by)
  BY <1>2, ArriveShape
<1> QED
  BY <1>1, <1>2, StartShape, LeaveShape, OtherShape, CallShape DEF Next

(* Every variable keeps the shape of the code's state.                     *)
THEOREM TypeCorrect == Spec => []TypeOK
<1>1. Init => Shape
  BY InitShape
<1>2. Shape /\ [Next]_vars => Shape'
  BY ShapeStep
<1>3. Shape => TypeOK
  BY DEF Shape
<1> QED
  BY <1>1, <1>2, <1>3, PTL DEF Spec

-----------------------------------------------------------------------------
(* One daemon serves, and in it one call writes.  A daemon that has been   *)
(* alone since it started is the only one there is, so that nobody else    *)
(* has written what it read.                                               *)

Active(r) == req[r].pc \notin {"idle", "wait"}

OneServes == \A x, y \in Procs : Serving(x) /\ Serving(y) => x = y
OneCall == \A r, s \in Reqs : Active(r) /\ Active(s) => r = s
AloneIsOnly == \A x, y \in Procs : proc[x].alone => (At(y, "down") <=> x # y)

VaultOnly ==
    ~hasVault => /\ \A x \in Procs : proc[x].st \notin {"load", "list", "align", "rows"}
                 /\ \A r \in Reqs : req[r].pc \notin {"vault", "undo", "rows"}

Turns == OneServes /\ OneCall /\ AloneIsOnly /\ VaultOnly

(* A step of a start other than its first.                                 *)
LEMMA StartMoves ==
  ASSUME NEW x \in Procs, Shape, StartStep(x), ~Start(x)
  PROVE  /\ proc[x].st \notin {"down", "serve", "leaving"}
         /\ proc'[x].st # "down" /\ proc'[x].alone = proc[x].alone
         /\ Serving(x)' => Claim(x)
         /\ \A y \in Procs \ {x} : proc'[y] = proc[y]
         /\ req' = req /\ hasVault' = hasVault
<1> USE DEF At, Goto, ProcFrame, storeVars, mintVars, Serving
<1>0. proc \in [Procs -> ProcRec]
  BY TypeParts DEF Shape, ProcType
<1>1. CASE LoadVault(x) \/ AlignList(x) \/ AlignMirror(x)
  BY <1>0, <1>1 DEF LoadVault, AlignList, AlignMirror, ProcRec
<1>2. CASE Settle(x) \/ ClearVault(x) \/ ClearRows(x)
  BY <1>0, <1>2 DEF Settle, ClearVault, ClearRows, ProcRec
<1>3. CASE MarkAway(x) \/ WriteKey(x) \/ ReadBack(x)
  BY <1>0, <1>3 DEF MarkAway, WriteKey, ReadBack, ProcRec
<1>4. CASE Claim(x)
  <2>1. /\ proc[x].st = "claim" /\ proc'[x].st = "serve"
        /\ proc'[x].alone = proc[x].alone
        /\ \A y \in Procs \ {x} : proc'[y] = proc[y]
        /\ req' = req /\ hasVault' = hasVault
    BY <1>0, <1>4 DEF Claim, ProcRec
  <2> QED
    BY <1>4, <2>1
<1> QED
  BY <1>1, <1>2, <1>3, <1>4 DEF StartStep

(* A call that steps is the only one that does.                            *)
LEMMA CallTurn ==
  ASSUME NEW r \in Reqs, Shape, Turns, ReqStep(r)
  PROVE  \A s \in Reqs \ {r} : req'[s] = req[s] /\ ~Active(s)
<1>0. ReqType /\ CallsHome
  BY TypeParts DEF Shape
<1>1. \A s \in Reqs \ {r} : req'[s] = req[s]
  BY <1>0, CallMoves DEF ReqEnd, ReqGoto, ReqType
<1>2. Active(r) \/ ~Busy(req[r].proc)
  BY DEF ReqStep, AcceptRow, AcceptVault, AcceptVaultFails, AcceptUndo, AcceptIndex,
         RemoveCheck, RemoveVault, RemoveVaultFails, RemoveTable, RemoveIndex,
         RemoveRows, RowsFail, Enters, ReqAt, Active
<1>3. ASSUME NEW s \in Reqs, s # r, Active(s) PROVE FALSE
  <2>1. req[s].proc = req[r].proc
    BY <1>0, <1>3, CallLives DEF CallsHome, Active, Turns, OneServes
  <2>2. ~Active(r)
    BY <1>3 DEF Turns, OneCall
  <2> QED
    BY <1>2, <1>3, <2>1, <2>2 DEF Busy, Active
<1> QED
  BY <1>1, <1>3

LEMMA CallVault ==
  ASSUME NEW r \in Reqs, Shape, Turns, ReqStep(r)
  PROVE  /\ hasVault' = hasVault
         /\ ~hasVault => req'[r].pc \in {"idle", "index"}
<1>1. hasVault' = hasVault
  BY DEF ReqStep, AcceptRow, AcceptVault, AcceptVaultFails, AcceptUndo, AcceptIndex,
         RemoveCheck, RemoveVault, RemoveVaultFails, RemoveTable, RemoveIndex,
         RemoveRows, RowsFail, ReqFrame, Written, mintVars
<1>2. ASSUME ~hasVault PROVE ReqEnd(r) \/ ReqGoto(r, "index")
  BY <1>2 DEF Turns, VaultOnly, ReqAt,
         ReqStep, AcceptRow, AcceptVault, AcceptVaultFails, AcceptUndo, AcceptIndex,
         RemoveCheck, RemoveVault, RemoveVaultFails, RemoveTable, RemoveIndex,
         RemoveRows, RowsFail
<1>3. req \in [Reqs -> ReqRec]
  BY TypeParts DEF Shape, ReqType
<1>4. ASSUME ReqEnd(r) PROVE req'[r].pc = "idle"
  BY <1>3, <1>4 DEF ReqEnd, NoReq
<1>5. ASSUME ReqGoto(r, "index") PROVE req'[r].pc = "index"
  BY <1>3, <1>5 DEF ReqGoto, ReqRec
<1> QED
  BY <1>1, <1>2, <1>4, <1>5

LEMMA TurnsStep == Shape /\ Turns /\ [Next]_vars => Turns'
<1> SUFFICES ASSUME Shape, Turns, [Next]_vars PROVE Turns'
  OBVIOUS
<1> USE DEF Turns, OneServes, OneCall, AloneIsOnly, VaultOnly
<1>0. ProcType /\ ReqType /\ CallsHome
  BY TypeParts DEF Shape
<1>1. CASE UNCHANGED vars
  BY <1>1 DEF vars, storeVars, mintVars, Serving, Active, At
<1>2. ASSUME NEW x \in Procs, Start(x) PROVE Turns'
  <2>1. /\ proc'[x].st \in {"load", "settle"} /\ (proc'[x].st = "load" => hasVault)
        /\ proc'[x].alone <=> \A z \in Procs \ {x} : At(z, "down")
        /\ \A y \in Procs \ {x} : proc'[y].st = proc[y].st /\ ~proc'[y].alone
        /\ req' = req /\ hasVault' = hasVault
    <3> DEFINE alone == \A z \in Procs \ {x} : At(z, "down")
    <3> DEFINE rec == [NoProc EXCEPT !.st = IF hasVault THEN "load" ELSE "settle",
                                     !.index = IF hasVault THEN @ ELSE mirror,
                                     !.knew = revoked, !.alone = alone]
    <3>1. proc' = [y \in Procs |-> IF y = x THEN rec ELSE [proc[y] EXCEPT !.alone = FALSE]]
      BY <1>2 DEF Start
    <3>2. rec.st = (IF hasVault THEN "load" ELSE "settle") /\ rec.alone = alone
      BY DEF NoProc
    <3>3. \A y \in Procs : /\ [proc[y] EXCEPT !.alone = FALSE].st = proc[y].st
                           /\ ~[proc[y] EXCEPT !.alone = FALSE].alone
      BY <1>0 DEF ProcType, ProcRec
    <3>4. req' = req /\ hasVault' = hasVault
      BY <1>2 DEF Start, ProcFrame, mintVars
    <3> HIDE DEF rec, alone
    <3>5. /\ proc'[x].st \in {"load", "settle"} /\ (proc'[x].st = "load" => hasVault)
          /\ proc'[x].alone <=> alone
      BY <3>1, <3>2
    <3> QED
      BY <3>1, <3>3, <3>4, <3>5 DEF alone
  <2> QED
    BY <2>1 DEF Serving, Active, At
<1>3. ASSUME NEW x \in Procs, StartStep(x), ~Start(x) PROVE Turns'
  <2>1. \A y \in Procs \ {x} : Serving(x)' => ~Serving(y)
    BY <1>3, StartMoves DEF Claim
  <2>2. ~hasVault => proc'[x].st \notin {"load", "list", "align", "rows"}
    BY SMTT(20), <1>0, <1>3
    DEF StartStep, LoadVault, AlignList, AlignMirror, Settle, ClearVault, ClearRows,
        MarkAway, WriteKey, ReadBack, Claim, Goto, At, ProcType, ProcRec
  <2> QED
    BY <1>3, <2>1, <2>2, StartMoves DEF Serving, Active, At
<1>4. ASSUME NEW x \in Procs, Leave(x) PROVE Turns'
  BY <1>0, <1>4 DEF Leave, At, Serving, Active, NoProc, NoReq, mintVars, ProcType, ReqType
<1>5. ASSUME NEW x \in Procs, NEW y \in Procs, StepDown(x, y) PROVE Turns'
  BY <1>0, <1>5 DEF StepDown, Goto, At, Serving, Active, ProcFrame, mintVars, ProcType, ProcRec
<1>6. CASE LoseKey
  BY <1>6 DEF LoseKey, At, Serving, Active, mintVars
<1>7. ASSUME NEW r \in Reqs, NEW x \in Procs, NEW p \in Phones,
         \/ AcceptArrives(r, x, p)
         \/ \E id \in Ids, by \in {"owner", "device"} : RemoveArrives(r, x, p, id, by)
      PROVE Turns'
  <2>1. /\ proc' = proc /\ hasVault' = hasVault /\ req'[r].pc = "wait"
        /\ \A s \in Reqs \ {r} : req'[s] = req[s]
    <3>1. CASE AcceptArrives(r, x, p)
      BY <1>0, <3>1 DEF AcceptArrives, NoReq, ReqType
    <3>2. ASSUME NEW id \in Ids, NEW by \in {"owner", "device"}, RemoveArrives(r, x, p, id, by)
          PROVE  /\ proc' = proc /\ hasVault' = hasVault /\ req'[r].pc = "wait"
                 /\ \A s \in Reqs \ {r} : req'[s] = req[s]
      BY <1>0, <3>2 DEF RemoveArrives, mintVars, NoReq, ReqType
    <3> QED
      BY <1>7, <3>1, <3>2
  <2> QED
    BY <2>1 DEF At, Serving, Active
<1>8. ASSUME NEW r \in Reqs, ReqStep(r) PROVE Turns'
  <2>1. \A s \in Reqs \ {r} : req'[s] = req[s] /\ ~Active(s)
    BY <1>8, CallTurn
  <2>2. \A x \in Procs : proc'[x].st = proc[x].st /\ proc'[x].alone = proc[x].alone
    BY <1>8, CallProc
  <2> QED
    BY <1>8, <2>1, <2>2, CallVault DEF At, Serving, Active
<1> QED
  BY <1>1, <1>2, <1>3, <1>4, <1>5, <1>6, <1>7, <1>8 DEF Next

(* What such a daemon holds in memory is the authority's, from when it has *)
(* read it, and until it has told memory of a write the next is not made.  *)
Copied(x) ==
    /\ proc[x].st \in {"list", "align"} => proc[x].read = vault
    /\ proc[x].st = "rows" => proc[x].index = NoPairings
    /\ proc[x].st \notin {"down", "load", "list", "align"} =>
         \A p \in Phones : proc[x].index[p] = Authority[p] \/ Between(x, p)
    /\ \A r \in Reqs : req[r].proc = x /\ req[r].pc = "index" =>
         Authority[req[r].phone] = IF req[r].kind = "accept" THEN req[r].id ELSE 0

Copies == \A x \in Procs : proc[x].alone => Copied(x)

LEMMA StartCopies ==
  ASSUME NEW x \in Procs, Shape, Turns, StartStep(x), proc'[x].alone,
         proc[x].alone => Copied(x)
  PROVE  Copied(x)'
<1> USE DEF At, Goto, ProcFrame, storeVars, mintVars, Authority
<1>0. StoreType /\ ProcType /\ ReqType /\ CallsHome /\ proc \in [Procs -> ProcRec]
  BY TypeParts DEF Shape, ProcType
<1>1. req' = req /\ hasVault' = hasVault
  BY DEF StartStep, Start, LoadVault, AlignList, AlignMirror, Settle, ClearVault,
         ClearRows, MarkAway, WriteKey, ReadBack, Claim
<1>2. \A r \in Reqs : req[r].proc = x => req[r].pc = "idle"
  <2>1. ~Serving(x)
    BY DEF StartStep, Start, LoadVault, AlignList, AlignMirror, Settle, ClearVault,
           ClearRows, MarkAway, WriteKey, ReadBack, Claim, Serving
  <2> QED
    BY <1>0, <2>1 DEF CallsHome
<1>3. \A p \in Phones : ~Between(x, p) /\ ~Between(x, p)'
  BY <1>1, <1>2 DEF Between
<1>4. CASE Start(x)
  <2> DEFINE rec == [NoProc EXCEPT !.st = IF hasVault THEN "load" ELSE "settle",
                                   !.index = IF hasVault THEN @ ELSE mirror,
                                   !.knew = revoked,
                                   !.alone = \A z \in Procs \ {x} : At(z, "down")]
  <2>1. proc'[x] = rec /\ vault' = vault /\ mirror' = mirror
    BY <1>4 DEF Start
  <2>2. rec.st = (IF hasVault THEN "load" ELSE "settle") /\ (~hasVault => rec.index = mirror)
    BY DEF NoProc
  <2> HIDE DEF rec
  <2> QED
    BY <1>1, <1>2, <2>1, <2>2 DEF Copied
<1>5. ASSUME ~Start(x) PROVE Copied(x) /\ proc[x].st # "down"
  BY <1>5, StartMoves
<1>6. CASE LoadVault(x)
  <2>1. proc'[x].st = "list" /\ proc'[x].read = vault /\ vault' = vault
    BY <1>0, <1>6 DEF LoadVault, ProcRec
  <2> QED
    BY <1>1, <1>2, <2>1 DEF Copied
<1>7. CASE AlignList(x)
  <2>1. /\ proc[x].st = "list" /\ proc'[x].st = "align" /\ proc'[x].read = proc[x].read
        /\ vault' = vault
    BY <1>0, <1>7 DEF AlignList, ProcRec
  <2> QED
    BY <1>1, <1>2, <1>5, <1>7, <2>1 DEF Copied, Start
<1>8. CASE AlignMirror(x)
  <2>1. /\ proc[x].st = "align" /\ proc'[x].st = "settle" /\ proc'[x].index = proc[x].read
        /\ vault' = vault /\ hasVault
    BY <1>0, <1>8 DEF AlignMirror, ProcRec, Turns, VaultOnly
  <2> QED
    BY <1>1, <1>2, <1>5, <2>1 DEF Copied, Start
<1>9. CASE Settle(x) \/ MarkAway(x) \/ WriteKey(x) \/ ReadBack(x) \/ Claim(x)
  <2>1. /\ proc[x].st \in {"settle", "mark", "write", "readback", "claim"}
        /\ proc'[x].st \in {"clear", "claim", "write", "readback", "serve"}
        /\ proc'[x].index = proc[x].index
        /\ vault' = vault /\ mirror' = mirror
    <3>1. CASE Settle(x) \/ MarkAway(x)
      BY <1>0, <3>1 DEF Settle, MarkAway, ProcRec
    <3>2. CASE WriteKey(x) \/ ReadBack(x)
      BY <1>0, <3>2 DEF WriteKey, ReadBack, ProcRec
    <3>3. CASE Claim(x)
      BY <1>0, <3>3 DEF Claim, ProcRec
    <3> QED
      BY <1>9, <3>1, <3>2, <3>3
  <2> QED
    BY <1>1, <1>2, <1>3, <1>5, <2>1 DEF Copied, Start
<1>10. CASE ClearVault(x)
  <2>1. /\ proc'[x].st = "rows" /\ proc'[x].index = NoPairings
        /\ vault' = NoPairings /\ hasVault
    BY <1>0, <1>10 DEF ClearVault, ProcRec
  <2> QED
    BY <1>1, <1>2, <2>1 DEF Copied
<1>11. CASE ClearRows(x)
  <2>1. /\ proc'[x].st = "mark" /\ proc'[x].index = NoPairings
        /\ vault' = vault /\ mirror' = NoPairings
        /\ hasVault => proc[x].st = "rows"
    BY <1>0, <1>11 DEF ClearRows, ProcRec
  <2>2. hasVault => \A p \in Phones : vault[p] = NoPairings[p]
    BY <1>3, <1>5, <2>1 DEF Copied, Start
  <2> QED
    BY <1>1, <1>2, <2>1, <2>2 DEF Copied
<1> QED
  BY <1>4, <1>6, <1>7, <1>8, <1>9, <1>10, <1>11 DEF StartStep

(* The three kinds of step of a call: it writes the authority and has to   *)
(* tell memory, it tells memory, or it does neither.                       *)
Result(r) == IF req[r].kind = "accept" THEN req[r].id ELSE 0

Writes(r) ==
    /\ proc' = proc /\ req[r].pc # "index" /\ req'[r] = [req[r] EXCEPT !.pc = "index"]
    /\ Authority' = [Authority EXCEPT ![req[r].phone] = Result(r)]
Tells(r) ==
    /\ Authority' = Authority /\ req[r].pc = "index" /\ req'[r].pc # "index"
    /\ \A p \in Phones :
         proc'[req[r].proc].index[p] = IF p = req[r].phone THEN Result(r)
                                       ELSE proc[req[r].proc].index[p]
Prepares(r) ==
    /\ proc' = proc /\ Authority' = Authority
    /\ req[r].pc # "index" /\ req'[r].pc # "index"

LEMMA CallEffect ==
  ASSUME NEW r \in Reqs, Shape, Turns, ReqStep(r)
  PROVE  Writes(r) \/ Tells(r) \/ Prepares(r)
<1> USE DEF ReqAt, Enters, Result
<1>0. /\ StoreType /\ req \in [Reqs -> ReqRec] /\ req[r] \in ReqRec
      /\ req[r].proc \in Procs /\ req[r].phone \in Phones
      /\ proc[req[r].proc] \in ProcRec
  BY TypeParts, CallLives DEF Shape, ReqType, ProcType
<1>1. hasVault' = hasVault /\ (~hasVault => req[r].pc \notin {"vault", "undo", "rows"})
  BY CallVault DEF Turns, VaultOnly
<1>2. \A pc \in {"vault", "undo", "index", "rows"} :
         ReqGoto(r, pc) => req'[r] = [req[r] EXCEPT !.pc = pc] /\ req'[r].pc = pc
  BY <1>0 DEF ReqGoto, ReqRec
<1>3. ReqEnd(r) => req'[r].pc # "index"
  BY <1>0 DEF ReqEnd, NoReq
<1>4. CASE AcceptRow(r)
  BY <1>0, <1>1, <1>2, <1>4 DEF AcceptRow, Writes, Prepares, Authority, StoreType
<1>5. CASE AcceptVault(r) \/ RemoveVault(r)
  BY <1>0, <1>1, <1>2, <1>5 DEF AcceptVault, RemoveVault, Writes, Authority, StoreType
<1>6. CASE AcceptVaultFails(r) \/ AcceptUndo(r) \/ RemoveCheck(r) \/ RemoveVaultFails(r)
           \/ RemoveRows(r) \/ RowsFail(r)
  BY <1>0, <1>1, <1>2, <1>3, <1>6
  DEF AcceptVaultFails, AcceptUndo, RemoveCheck, RemoveVaultFails, RemoveRows, RowsFail,
      Prepares, Authority
<1>7. CASE RemoveTable(r)
  BY <1>0, <1>1, <1>2, <1>3, <1>7
  DEF RemoveTable, Writes, Prepares, Authority, StoreType
<1>8. CASE AcceptIndex(r)
  <2> DEFINE x == req[r].proc
  <2>1. proc'[x] = [proc[x] EXCEPT !.index[req[r].phone] = req[r].id]
    BY <1>0, <1>8, TypeParts DEF AcceptIndex, SetIndex, Shape, ProcType
  <2>2. proc[x].index \in [Phones -> Ids] /\ req[r].id \in Ids
    BY <1>0 DEF ProcRec, ReqRec
  <2>3. proc'[x].index = [proc[x].index EXCEPT ![req[r].phone] = req[r].id]
    BY <1>0, <2>1, <2>2, ProcFields
  <2>4. \A p \in Phones :
          proc'[x].index[p] = IF p = req[r].phone THEN Result(r) ELSE proc[x].index[p]
    BY <1>0, <1>8, <2>2, <2>3 DEF AcceptIndex
  <2> QED
    BY <1>0, <1>1, <1>3, <1>8, <2>4 DEF AcceptIndex, Tells, Authority
<1>9. CASE RemoveIndex(r)
  <2>1. \A p \in Phones : proc'[req[r].proc].index[p] =
          IF p = req[r].phone THEN 0 ELSE proc[req[r].proc].index[p]
    <3> DEFINE x == req[r].proc
    <3> DEFINE gone == {proc[x].index[req[r].phone]} \ {0}
    <3>1. proc'[x] = [proc[x] EXCEPT !.index[req[r].phone] = 0, !.knew = @ \cup gone]
      BY <1>0, <1>9, TypeParts DEF RemoveIndex, Shape, ProcType
    <3>2. proc[x].index \in [Phones -> Ids] /\ proc[x].knew \cup gone \in SUBSET Ids /\ 0 \in Ids
      BY <1>0, NoneTypes DEF ProcRec
    <3>3. proc'[x].index = [proc[x].index EXCEPT ![req[r].phone] = 0]
      BY <1>0, <3>1, <3>2, ProcFields
    <3> QED
      BY <1>0, <3>2, <3>3
  <2> QED
    BY <1>0, <1>1, <1>2, <1>3, <1>9, <2>1 DEF RemoveIndex, Tells, Authority
<1> QED
  BY <1>4, <1>5, <1>6, <1>7, <1>8, <1>9 DEF ReqStep

LEMMA CallCopies ==
  ASSUME NEW r \in Reqs, NEW x \in Procs, NEW ph \in Phones,
         x = req[r].proc, ph = req[r].phone,
         Shape, Turns, ReqStep(r), Copied(x)
  PROVE  Copied(x)'
<1>0. StoreType /\ ProcType /\ ReqType /\ CallsHome
  BY TypeParts DEF Shape
<1>1. req[r] \in ReqRec /\ Serving(x)
  BY CallLives
<1>2. /\ \A s \in Reqs \ {r} : req'[s] = req[s] /\ req[s].pc # "index"
      /\ proc'[x].st \in {"serve", "leaving"}
  BY <1>1, CallTurn, CallProc DEF Active, Serving
<1>3. \A p \in Phones : proc[x].index[p] = Authority[p] \/ (p = ph /\ req[r].pc = "index")
  BY <1>1, <1>2 DEF Copied, Serving, Between
<1>4. req[r].pc = "index" => Authority[ph] = Result(r)
  BY <1>1 DEF Copied, Result
<1>5. CASE Writes(r)
  <2>1. /\ req'[r].pc = "index" /\ req'[r].kind = req[r].kind /\ req'[r].id = req[r].id
        /\ req'[r].phone = ph /\ req'[r].proc = x
    BY <1>1, <1>5 DEF Writes, ReqRec
  <2>2. /\ proc' = proc /\ Authority'[ph] = Result(r)
        /\ \A p \in Phones \ {ph} : Authority'[p] = Authority[p]
    BY <1>0, <1>5 DEF Writes, StoreType, Authority
  <2>3. Between(x, ph)'
    BY <1>1, <2>1 DEF Between
  <2>4. \A p \in Phones : proc'[x].index[p] = Authority'[p] \/ Between(x, p)'
    BY <1>3, <2>2, <2>3
  <2>5. \A s \in Reqs : req'[s].pc = "index" => s = r
    BY <1>2
  <2>6. Authority'[ph] = IF req'[r].kind = "accept" THEN req'[r].id ELSE 0
    BY <2>1, <2>2 DEF Result
  <2> QED
    BY <1>2, <2>1, <2>4, <2>5, <2>6 DEF Copied
<1>6. CASE Tells(r) \/ Prepares(r)
  <2>1. \A s \in Reqs : req'[s].pc # "index"
    BY <1>2, <1>6 DEF Tells, Prepares
  <2>2. \A p \in Phones : proc'[x].index[p] = Authority'[p]
    <3>1. CASE Tells(r)
      BY <1>3, <1>4, <3>1 DEF Tells
    <3>2. CASE Prepares(r)
      BY <1>3, <3>2 DEF Prepares
    <3> QED
      BY <1>6, <3>1, <3>2
  <2> QED
    BY <1>2, <2>1, <2>2 DEF Copied
<1> QED
  BY <1>5, <1>6, CallEffect

LEMMA CopiesStep == Shape /\ Turns /\ Copies /\ [Next]_vars => Copies'
<1> SUFFICES ASSUME Shape, Turns, Copies, [Next]_vars,
                    NEW x \in Procs, proc'[x].alone
             PROVE  Copied(x)'
  BY DEF Copies
<1>0. StoreType /\ ProcType /\ ReqType /\ CallsHome
  BY TypeParts DEF Shape
<1>1. CASE UNCHANGED vars
  BY <1>1 DEF vars, storeVars, mintVars, Copies, Copied, Between, Authority
<1>2. ASSUME NEW y \in Procs, StartStep(y) PROVE Copied(x)'
  <2>1. y = x
    <3>1. CASE Start(y)
      <4>1. \A z \in Procs \ {y} : proc'[z] = [proc[z] EXCEPT !.alone = FALSE]
        BY <3>1 DEF Start
      <4> QED
        BY <1>0, <4>1 DEF ProcType, ProcRec
    <3>2. CASE ~Start(y)
      BY <1>2, <3>2, StartMoves DEF Turns, AloneIsOnly, At
    <3> QED
      BY <3>1, <3>2
  <2> QED
    BY <1>2, <2>1, StartCopies DEF Copies
<1>3. ASSUME NEW y \in Procs, Leave(y) PROVE FALSE
  BY <1>0, <1>3 DEF Leave, NoProc, ProcType, Turns, AloneIsOnly, At
<1>4. ASSUME NEW y \in Procs, NEW z \in Procs, StepDown(y, z) PROVE FALSE
  BY <1>0, <1>4 DEF StepDown, Goto, At, ProcType, ProcRec, Turns, AloneIsOnly
<1>5. CASE LoseKey
  BY <1>5 DEF LoseKey, mintVars, Copies, Copied, Between, Authority
<1>6. ASSUME NEW r \in Reqs, NEW y \in Procs, NEW p \in Phones,
         \/ AcceptArrives(r, y, p)
         \/ \E id \in Ids, by \in {"owner", "device"} : RemoveArrives(r, y, p, id, by)
      PROVE Copied(x)'
  <2>1. /\ proc' = proc /\ hasVault' = hasVault /\ vault' = vault /\ mirror' = mirror
        /\ req[r].pc # "index" /\ req'[r].pc # "index"
        /\ \A s \in Reqs \ {r} : req'[s] = req[s]
    <3>1. CASE AcceptArrives(r, y, p)
      BY <1>0, <3>1 DEF AcceptArrives, storeVars, NoReq, ReqType
    <3>2. ASSUME NEW id \in Ids, NEW by \in {"owner", "device"}, RemoveArrives(r, y, p, id, by)
          PROVE  /\ proc' = proc /\ hasVault' = hasVault /\ vault' = vault /\ mirror' = mirror
                 /\ req[r].pc # "index" /\ req'[r].pc # "index"
                 /\ \A s \in Reqs \ {r} : req'[s] = req[s]
      BY <1>0, <3>2 DEF RemoveArrives, storeVars, mintVars, NoReq, ReqType
    <3> QED
      BY <1>6, <3>1, <3>2
  <2>2. \A s \in Reqs : (req[s].pc = "index" <=> req'[s].pc = "index")
                        /\ (req[s].pc = "index" => req'[s] = req[s])
    BY <2>1
  <2>3. \A q \in Phones : Between(x, q) => Between(x, q)'
    BY <2>2 DEF Between
  <2> QED
    BY <2>1, <2>2, <2>3 DEF Copies, Copied, Authority
<1>7. ASSUME NEW r \in Reqs, ReqStep(r) PROVE Copied(x)'
  <2>1. /\ req[r].proc \in Procs /\ req[r].phone \in Phones /\ Serving(req[r].proc)
        /\ proc[x].alone
    BY <1>7, CallLives, CallProc
  <2>2. x = req[r].proc
    BY <2>1 DEF Turns, AloneIsOnly, At, Serving
  <2> QED
    BY <1>7, <2>1, <2>2, CallCopies DEF Copies
<1> QED
  BY <1>1, <1>2, <1>3, <1>4, <1>5, <1>6, <1>7 DEF Next

(* What authorization reads comes from the authority and changes with it   *)
(* alone, as long as no other daemon has been started beside this one.     *)
THEOREM MemoryFollowsAuthority == Spec => []IndexIsAuthority
<1>1. Init => Shape /\ Turns /\ Copies
  BY InitShape DEF Init, NoProc, NoReq, Turns, OneServes, OneCall, AloneIsOnly, VaultOnly,
                   Copies, Serving, Active, At
<1>2. Shape /\ Turns /\ Copies /\ [Next]_vars => (Shape /\ Turns /\ Copies)'
  BY ShapeStep, TurnsStep, CopiesStep
<1>3. Copies => IndexIsAuthority
  BY DEF Copies, Copied, IndexIsAuthority, Serving
<1> QED
  BY <1>1, <1>2, <1>3, PTL DEF Spec

-----------------------------------------------------------------------------
(* Withdrawn pairings.  An id belongs to one phone, and to one call until  *)
(* memory has it; what a call is about to tell memory is not withdrawn;    *)
(* and the authority holds nothing that is.                                *)

Accepting(r) == req[r].kind = "accept" /\ req[r].pc # "idle"

BornFor(p, id) == id # 0 => id \in 1..lastId /\ born[id].phone = p

Holding ==
    \A x \in Procs : /\ proc[x].st = "load" => proc[x].index = NoPairings
                     /\ Serving(x) => proc[x].read = NoPairings

Named ==
    /\ \A p \in Phones : BornFor(p, Authority[p])
    /\ \A x \in Procs, p \in Phones :
         BornFor(p, proc[x].index[p]) /\ BornFor(p, proc[x].read[p])
    /\ \A r \in Reqs : Accepting(r) => born[req[r].id].phone = req[r].phone

OwnIds ==
    \A r, s \in Reqs : Accepting(r) /\ Accepting(s) /\ req[r].id = req[s].id => r = s

Fresh ==
    \A r \in Reqs : Accepting(r) =>
      /\ req[r].id \notin revoked
      /\ \A x \in Procs, p \in Phones : Serving(x) => proc[x].index[p] # req[r].id

Cleared ==
    \A r \in Reqs : req[r].pc = "index" => Authority[req[r].phone] \in {0, Result(r)}

Withheld ==
    /\ \A p \in Phones : Authority[p] \notin revoked
    /\ \A x \in Procs, p \in Phones :
         proc[x].index[p] \notin proc[x].knew /\ proc[x].read[p] \notin proc[x].knew
    /\ \A x \in Procs : proc[x].knew \subseteq revoked
    /\ revoked \subseteq 1..lastId

Withdrawn == Holding /\ Named /\ OwnIds /\ Fresh /\ Cleared /\ Withheld

LEMMA WithdrawnInit == Init => Withdrawn
  BY DEF Init, NoProc, NoReq, NoPairings, Withdrawn, Holding, Named, OwnIds, Fresh, Cleared,
         Withheld, Accepting, BornFor, Serving, Authority

(* A start reads the authority together with what is withdrawn, passes on  *)
(* what it has read, or forgets it.                                        *)
LEMMA StartReads ==
  ASSUME NEW x \in Procs, Shape, Turns, Holding, StartStep(x)
  PROVE  /\ lastId' = lastId /\ born' = born /\ revoked' = revoked /\ req' = req
         /\ \A p \in Phones : Authority'[p] \in {0, Authority[p]}
         /\ \A y \in Procs \ {x} : /\ proc'[y].index = proc[y].index
                                    /\ proc'[y].read = proc[y].read
                                    /\ proc'[y].knew = proc[y].knew
                                    /\ proc'[y].st = proc[y].st
         /\ \/ /\ proc'[x].knew = revoked
               /\ \A p \in Phones : /\ proc'[x].index[p] \in {0, Authority[p]}
                                    /\ proc'[x].read[p] \in {0, Authority[p]}
            \/ /\ proc'[x].knew = proc[x].knew
               /\ \A p \in Phones :
                    /\ proc'[x].index[p] \in {0, proc[x].index[p], proc[x].read[p]}
                    /\ proc'[x].read[p] \in {0, proc[x].read[p]}
         /\ proc'[x].st = "load" => proc'[x].index = NoPairings
         /\ Serving(x)' => Claim(x) /\ proc'[x].read = NoPairings
<1> USE DEF At, Goto, ProcFrame, storeVars, mintVars
<1>0. StoreType /\ proc \in [Procs -> ProcRec] /\ \A p \in Phones : NoPairings[p] = 0
  BY TypeParts DEF Shape, ProcType, NoPairings
<1>1. /\ lastId' = lastId /\ born' = born /\ revoked' = revoked /\ req' = req
      /\ hasVault' = hasVault
  BY DEF StartStep, Start, LoadVault, AlignList, AlignMirror, Settle, ClearVault,
         ClearRows, MarkAway, WriteKey, ReadBack, Claim
<1>2. \A p \in Phones : Authority'[p] \in {0, Authority[p]}
  <2>1. CASE AlignMirror(x)
    BY <1>1, <2>1 DEF AlignMirror, Authority, Turns, VaultOnly
  <2>2. CASE ClearVault(x) \/ ClearRows(x)
    BY <1>0, <1>1, <2>2 DEF ClearVault, ClearRows, Authority
  <2> QED
    BY <1>1, <2>1, <2>2
    DEF StartStep, Start, LoadVault, AlignList, Settle, MarkAway, WriteKey, ReadBack, Claim,
        Authority
<1>3. CASE Start(x)
  <2> DEFINE rec == [NoProc EXCEPT !.st = IF hasVault THEN "load" ELSE "settle",
                                   !.index = IF hasVault THEN @ ELSE mirror,
                                   !.knew = revoked,
                                   !.alone = \A z \in Procs \ {x} : At(z, "down")]
  <2>1. /\ proc'[x] = rec
        /\ \A y \in Procs \ {x} : proc'[y] = [proc[y] EXCEPT !.alone = FALSE]
    BY <1>3 DEF Start
  <2>2. /\ rec.st = (IF hasVault THEN "load" ELSE "settle")
        /\ rec.index = (IF hasVault THEN NoPairings ELSE mirror)
        /\ rec.read = NoPairings /\ rec.knew = revoked
    BY DEF NoProc
  <2> HIDE DEF rec
  <2>3. \A y \in Procs \ {x} : /\ proc'[y].index = proc[y].index
                               /\ proc'[y].read = proc[y].read
                               /\ proc'[y].knew = proc[y].knew
                               /\ proc'[y].st = proc[y].st
    BY <1>0, <2>1, NotAlone
  <2>4. \A p \in Phones : /\ proc'[x].index[p] \in {0, Authority[p]}
                          /\ proc'[x].read[p] \in {0, Authority[p]}
    BY <1>0, <2>1, <2>2 DEF Authority
  <2> QED
    BY <1>1, <1>2, <2>1, <2>2, <2>3, <2>4 DEF Serving
<1>4. ASSUME ~Start(x) PROVE \A y \in Procs \ {x} : proc'[y] = proc[y]
  BY <1>4, StartMoves
<1>5. CASE LoadVault(x)
  <2>1. /\ proc'[x].st = "list" /\ proc'[x].read = vault /\ proc'[x].knew = revoked
        /\ proc'[x].index = NoPairings /\ hasVault
    BY <1>0, <1>5 DEF LoadVault, ProcRec, Holding, Turns, VaultOnly
  <2> QED
    BY <1>0, <1>1, <1>2, <1>4, <1>5, <2>1 DEF LoadVault, Start, Serving, Authority
<1>6. CASE AlignList(x) \/ Settle(x) \/ MarkAway(x)
  <2>1. /\ proc'[x].st \in {"align", "clear", "claim", "write"} /\ proc'[x].read = proc[x].read
        /\ proc'[x].knew = proc[x].knew /\ proc'[x].index = proc[x].index /\ ~Start(x)
    <3>1. CASE AlignList(x)
      BY <1>0, <3>1 DEF AlignList, Start, ProcRec
    <3>2. CASE Settle(x)
      BY <1>0, <3>2 DEF Settle, Start, ProcRec
    <3>3. CASE MarkAway(x)
      BY <1>0, <3>3 DEF MarkAway, Start, ProcRec
    <3> QED
      BY <1>6, <3>1, <3>2, <3>3
  <2> QED
    BY <1>1, <1>2, <1>4, <2>1 DEF Serving
<1>7. CASE WriteKey(x) \/ ReadBack(x)
  <2>1. /\ proc'[x].st \in {"readback", "claim"} /\ proc'[x].read = proc[x].read
        /\ proc'[x].knew = proc[x].knew /\ proc'[x].index = proc[x].index /\ ~Start(x)
    <3>1. CASE WriteKey(x)
      BY <1>0, <3>1 DEF WriteKey, Start, ProcRec
    <3>2. CASE ReadBack(x)
      BY <1>0, <3>2 DEF ReadBack, Start, ProcRec
    <3> QED
      BY <1>7, <3>1, <3>2
  <2> QED
    BY <1>1, <1>2, <1>4, <2>1 DEF Serving
<1>8. CASE AlignMirror(x)
  <2>1. /\ proc'[x].st = "settle" /\ proc'[x].read = proc[x].read
        /\ proc'[x].knew = proc[x].knew /\ proc'[x].index = proc[x].read /\ ~Start(x)
    BY <1>0, <1>8 DEF AlignMirror, Start, ProcRec
  <2> QED
    BY <1>1, <1>2, <1>4, <2>1 DEF Serving
<1>9. CASE ClearVault(x) \/ ClearRows(x)
  <2>1. /\ proc'[x].st \in {"rows", "mark"} /\ proc'[x].read = proc[x].read
        /\ proc'[x].knew = proc[x].knew /\ proc'[x].index = NoPairings /\ ~Start(x)
    <3>1. CASE ClearVault(x)
      BY <1>0, <3>1 DEF ClearVault, Start, ProcRec
    <3>2. CASE ClearRows(x)
      BY <1>0, <3>2 DEF ClearRows, Start, ProcRec
    <3> QED
      BY <1>9, <3>1, <3>2
  <2> QED
    BY <1>0, <1>1, <1>2, <1>4, <2>1 DEF Serving
<1>10. CASE Claim(x)
  <2>1. /\ proc'[x].st = "serve" /\ proc'[x].read = NoPairings
        /\ proc'[x].knew = proc[x].knew /\ proc'[x].index = proc[x].index /\ ~Start(x)
    BY <1>0, <1>10 DEF Claim, Start, ProcRec
  <2> QED
    BY <1>0, <1>1, <1>2, <1>4, <1>10, <2>1
<1> QED
  BY <1>3, <1>5, <1>6, <1>7, <1>8, <1>9, <1>10 DEF StartStep

LEMMA StartWithdrawn ==
  ASSUME NEW x \in Procs, Shape, Turns, Withdrawn, StartStep(x)
  PROVE  Withdrawn'
<1> USE DEF Withdrawn
<1>0. CallsHome /\ 0 \notin revoked
  BY TypeParts DEF Shape, Withheld
<1>1. Holding'
  BY StartReads DEF Holding, Serving
<1>2. Named'
  BY StartReads DEF Named, BornFor, Accepting
<1>3. OwnIds' /\ Cleared'
  <2>1. \A r \in Reqs : req[r].pc = "index" => req[r].phone \in Phones
    BY <1>0 DEF CallsHome
  <2>2. \A r \in Reqs : Result(r)' = Result(r)
    BY StartReads DEF Result
  <2> QED
    BY <2>1, <2>2, StartReads DEF OwnIds, Cleared, Accepting
<1>4. Fresh'
  <2>1. CASE Claim(x)
    <3>1. \A r \in Reqs : ~Accepting(r)
      BY <1>0, <2>1 DEF Claim, CallsHome, Accepting, At, Serving
    <3> QED
      BY <3>1, StartReads DEF Fresh, Accepting
  <2>2. CASE ~Claim(x)
    BY <2>2, StartReads DEF Fresh, Accepting, Serving
  <2> QED
    BY <2>1, <2>2
<1>5. Withheld'
  <2>1. \A p \in Phones : Authority'[p] \notin revoked'
    BY <1>0, StartReads DEF Withheld
  <2>2. \A y \in Procs \ {x}, p \in Phones :
          proc'[y].index[p] \notin proc'[y].knew /\ proc'[y].read[p] \notin proc'[y].knew
    BY StartReads DEF Withheld
  <2>3. \A p \in Phones :
          proc'[x].index[p] \notin proc'[x].knew /\ proc'[x].read[p] \notin proc'[x].knew
    <3>1. \A p \in Phones : /\ proc[x].index[p] \notin proc[x].knew
                            /\ proc[x].read[p] \notin proc[x].knew
                            /\ Authority[p] \notin revoked
      BY DEF Withheld
    <3>2. 0 \notin proc[x].knew
      BY <1>0 DEF Withheld
    <3> QED
      BY <1>0, <3>1, <3>2, StartReads
  <2>4. \A y \in Procs : proc'[y].knew \subseteq revoked'
    BY StartReads DEF Withheld
  <2> QED
    BY <2>1, <2>2, <2>3, <2>4, StartReads DEF Withheld
<1> QED
  BY <1>1, <1>2, <1>3, <1>4, <1>5

LEMMA LeaveWithdrawn ==
  ASSUME NEW x \in Procs, Shape, Withdrawn, Leave(x)
  PROVE  Withdrawn'
<1> USE DEF Withdrawn
<1>0. ProcType /\ ReqType /\ \A p \in Phones : NoPairings[p] = 0
  BY TypeParts DEF Shape, NoPairings
<1>1. /\ lastId' = lastId /\ born' = born /\ revoked' = revoked /\ Authority' = Authority
      /\ \A y \in Procs \ {x} : proc'[y] = proc[y]
      /\ proc'[x].st = "down" /\ proc'[x].index = NoPairings /\ proc'[x].read = NoPairings
      /\ proc'[x].knew = {}
  BY <1>0 DEF Leave, NoProc, ProcType, storeVars, mintVars, Authority
<1>2. \A r \in Reqs : req'[r].pc = "idle" \/ req'[r] = req[r]
  BY <1>0 DEF Leave, NoReq, ReqType
<1>3. \A r \in Reqs : /\ Accepting(r)' => Accepting(r) /\ req'[r] = req[r]
                      /\ req'[r].pc = "index" => req'[r] = req[r]
  BY <1>2 DEF Accepting
<1>4. Holding' /\ OwnIds' /\ Cleared'
  BY <1>1, <1>3 DEF Holding, OwnIds, Cleared, Result, Serving
<1>5. Named' /\ Fresh'
  BY <1>0, <1>1, <1>3 DEF Named, BornFor, Fresh, Serving
<1>6. Withheld'
  BY <1>0, <1>1 DEF Withheld
<1> QED
  BY <1>4, <1>5, <1>6

LEMMA OtherWithdrawn ==
  ASSUME Shape, Withdrawn, LoseKey \/ (\E x, y \in Procs : StepDown(x, y))
  PROVE  Withdrawn'
<1> USE DEF Withdrawn
<1>0. ProcType
  BY TypeParts DEF Shape
<1>1. /\ lastId' = lastId /\ born' = born /\ revoked' = revoked /\ req' = req
      /\ Authority' = Authority
      /\ \A x \in Procs : /\ proc'[x].index = proc[x].index
                         /\ proc'[x].read = proc[x].read /\ proc'[x].knew = proc[x].knew
                         /\ (Serving(x)' <=> Serving(x))
                         /\ (proc'[x].st = "load" <=> proc[x].st = "load")
  <2>1. CASE LoseKey
    BY <2>1 DEF LoseKey, mintVars, Authority, Serving
  <2>2. ASSUME NEW x \in Procs, NEW y \in Procs, StepDown(x, y) 
        PROVE  /\ lastId' = lastId /\ born' = born /\ revoked' = revoked /\ req' = req
               /\ Authority' = Authority
               /\ \A z \in Procs :
                    /\ proc'[z].index = proc[z].index
                    /\ proc'[z].read = proc[z].read /\ proc'[z].knew = proc[z].knew
                    /\ (Serving(z)' <=> Serving(z))
                    /\ (proc'[z].st = "load" <=> proc[z].st = "load")
    BY <1>0, <2>2 DEF StepDown, Goto, At, ProcFrame, storeVars, mintVars, Authority,
                      Serving, ProcType, ProcRec
  <2> QED
    BY <2>1, <2>2
<1>2. Holding' /\ Named' /\ OwnIds' /\ Fresh'
  BY <1>1 DEF Holding, Named, BornFor, OwnIds, Fresh, Accepting
<1>3. Cleared' /\ Withheld'
  BY <1>1 DEF Cleared, Result, Withheld
<1> QED
  BY <1>2, <1>3

LEMMA ArriveWithdrawn ==
  ASSUME NEW r \in Reqs, NEW x \in Procs, NEW p \in Phones, Shape, Withdrawn,
         \/ AcceptArrives(r, x, p)
         \/ \E id \in Ids, by \in {"owner", "device"} : RemoveArrives(r, x, p, id, by)
  PROVE  Withdrawn'
<1> USE DEF Withdrawn
<1>0. MintType /\ ReqType /\ CallsHome
  BY TypeParts DEF Shape
<1>1. CASE AcceptArrives(r, x, p)
  <2>1. /\ lastId' = lastId + 1 /\ lastId \in Nat /\ lastId + 1 \in 1..MaxPairings
        /\ revoked' = revoked /\ proc' = proc /\ Authority' = Authority
    BY <1>0, <1>1, PairingAssumption
    DEF AcceptArrives, MintType, Ids, storeVars, Authority
  <2>2. /\ \A i \in 1..lastId : born'[i] = born[i]
        /\ born'[lastId + 1].phone = p
    BY <1>0, <1>1, <2>1 DEF AcceptArrives, MintType
  <2>3. /\ req'[r].id = lastId + 1 /\ req'[r].phone = p /\ req'[r].pc = "wait"
        /\ ~Accepting(r) /\ \A s \in Reqs \ {r} : req'[s] = req[s]
    BY <1>0, <1>1 DEF AcceptArrives, Accepting, NoReq, ReqType
  <2>4. \A s \in Reqs \ {r} : Accepting(s)' => /\ Accepting(s) /\ req'[s] = req[s]
                                              /\ req[s].id \in 1..lastId
    BY <1>0, <2>3 DEF Accepting, CallsHome
  <2>5. \A i \in 1..lastId : i # lastId + 1 /\ i \in 1..lastId'
    BY <2>1
  <2>6. Holding' /\ OwnIds'
    BY <2>1, <2>3, <2>4, <2>5 DEF Holding, OwnIds, Serving
  <2>7. \A q \in Phones : BornFor(q, Authority[q])'
    BY <2>1, <2>2, <2>5 DEF Named, BornFor
  <2>8. \A y \in Procs, q \in Phones :
          BornFor(q, proc[y].index[q])' /\ BornFor(q, proc[y].read[q])'
    BY <2>1, <2>2, <2>5 DEF Named, BornFor
  <2>9. Named'
    BY <2>2, <2>3, <2>4, <2>7, <2>8 DEF Named
  <2>10. Fresh'
    <3>1. lastId + 1 \notin revoked
      BY <2>5 DEF Withheld
    <3>2. \A y \in Procs, q \in Phones : proc[y].index[q] # lastId + 1
      BY <2>1, <2>5 DEF Named, BornFor
    <3> QED
      BY <2>1, <2>3, <2>4, <3>1, <3>2 DEF Fresh, Serving
  <2>11. Cleared' /\ Withheld'
    <3>1. \A s \in Reqs : req'[s].pc = "index" => req'[s] = req[s]
      BY <2>3
    <3> QED
      BY <2>1, <2>5, <3>1 DEF Cleared, Result, Withheld
  <2> QED
    BY <2>6, <2>9, <2>10, <2>11
<1>2. ASSUME NEW id \in Ids, NEW by \in {"owner", "device"}, RemoveArrives(r, x, p, id, by)
      PROVE  Withdrawn'
  <2>1. /\ lastId' = lastId /\ born' = born /\ revoked' = revoked /\ proc' = proc
        /\ Authority' = Authority
        /\ req'[r].kind = "remove" /\ req'[r].pc = "wait"
        /\ \A s \in Reqs \ {r} : req'[s] = req[s]
    BY <1>0, <1>2 DEF RemoveArrives, storeVars, mintVars, Authority, NoReq, ReqType
  <2>2. \A s \in Reqs : /\ Accepting(s)' => Accepting(s) /\ req'[s] = req[s]
                        /\ req'[s].pc = "index" => req'[s] = req[s]
    BY <2>1 DEF Accepting
  <2>3. Holding' /\ OwnIds' /\ Fresh'
    BY <2>1, <2>2 DEF Holding, OwnIds, Fresh, Serving
  <2>4. Named'
    BY <2>1, <2>2 DEF Named, BornFor
  <2>5. Cleared' /\ Withheld'
    BY <2>1, <2>2 DEF Cleared, Result, Withheld
  <2> QED
    BY <2>3, <2>4, <2>5
<1> QED
  BY <1>1, <1>2

(* What else a call's step changes: it may note how a pairing was made,    *)
(* and a removal notes what it has withdrawn.                              *)
Withdraws(r) ==
    /\ ReqAt(r, "remove", "index")
    /\ LET x == req[r].proc
           gone == {proc[x].index[req[r].phone]} \ {0}
       IN  revoked' = revoked \cup gone /\ proc'[x].knew = proc[x].knew \cup gone

LEMMA CallBirths ==
  ASSUME NEW r \in Reqs, Shape, ReqStep(r), NEW i \in 1..MaxPairings
  PROVE  /\ born'[i].phone = born[i].phone /\ born'[i].key = born[i].key
         /\ born'[i] # born[i] =>
              i = req[r].id /\ Accepting(r) /\ req[r].pc \in {"wait", "vault"}
<1>0. MintType
  BY TypeParts DEF Shape
<1>1. CASE AcceptRow(r) \/ AcceptVault(r)
  <2>1. /\ born' = [born EXCEPT ![req[r].id].alone = proc[req[r].proc].alone]
        /\ Accepting(r) /\ req[r].pc \in {"wait", "vault"}
    BY <1>1 DEF AcceptRow, AcceptVault, Written, Accepting, Enters, ReqAt
  <2>2. CASE i = req[r].id
    BY <1>0, <2>1, <2>2 DEF MintType
  <2>3. CASE i # req[r].id
    BY <1>0, <2>1, <2>3 DEF MintType
  <2> QED
    BY <2>2, <2>3
<1>2. CASE born' = born
  BY <1>2
<1> QED
  BY <1>1, <1>2
  DEF ReqStep, AcceptVaultFails, AcceptUndo, AcceptIndex, RemoveCheck, RemoveVault,
      RemoveVaultFails, RemoveTable, RemoveIndex, RemoveRows, RowsFail, ReqFrame, mintVars

LEMMA CallElsewhere ==
  ASSUME NEW r \in Reqs, Shape, ReqStep(r)
  PROVE  lastId' = lastId /\ \A y \in Procs \ {req[r].proc} : proc'[y] = proc[y]
<1>0. ProcType /\ req[r].proc \in Procs
  BY TypeParts, CallLives DEF Shape
<1>1. lastId' = lastId
  BY DEF ReqStep, AcceptRow, AcceptVault, AcceptVaultFails, AcceptUndo, AcceptIndex,
         RemoveCheck, RemoveVault, RemoveVaultFails, RemoveTable, RemoveIndex,
         RemoveRows, RowsFail, ReqFrame, Written, mintVars
<1>2. \A y \in Procs \ {req[r].proc} : proc'[y] = proc[y]
  <2>1. CASE AcceptIndex(r)
    BY <1>0, <2>1 DEF AcceptIndex, SetIndex, ProcType
  <2>2. CASE RemoveIndex(r)
    BY <1>0, <2>2 DEF RemoveIndex, ProcType
  <2> QED
    BY <2>1, <2>2
    DEF ReqStep, AcceptRow, AcceptVault, AcceptVaultFails, AcceptUndo, RemoveCheck,
        RemoveVault, RemoveVaultFails, RemoveTable, RemoveRows, RowsFail
<1> QED
  BY <1>1, <1>2

LEMMA CallNotes ==
  ASSUME NEW r \in Reqs, Shape, ReqStep(r)
  PROVE  \/ revoked' = revoked /\ proc'[req[r].proc].knew = proc[req[r].proc].knew
         \/ Withdraws(r)
<1>0. /\ ProcType /\ req[r].proc \in Procs /\ proc[req[r].proc] \in ProcRec
      /\ req[r].phone \in Phones
  BY TypeParts, CallLives DEF Shape, ProcType
<1>1. CASE AcceptIndex(r)
  BY <1>0, <1>1 DEF AcceptIndex, SetIndex, ProcType, ProcRec
<1>2. CASE RemoveIndex(r)
  BY <1>0, <1>2 DEF RemoveIndex, Withdraws, ProcType, ProcRec
<1> QED
  BY <1>1, <1>2
  DEF ReqStep, AcceptRow, AcceptVault, AcceptVaultFails, AcceptUndo, RemoveCheck,
      RemoveVault, RemoveVaultFails, RemoveTable, RemoveRows, RowsFail

(* An acceptance that is not over has only moved on.                       *)
LEMMA CallKeeps ==
  ASSUME NEW r \in Reqs, Shape, ReqStep(r), Accepting(r)'
  PROVE  /\ Accepting(r) /\ req'[r].id = req[r].id
         /\ req'[r].phone = req[r].phone /\ req'[r].proc = req[r].proc
         /\ req[r].pc # "index"
         /\ req'[r].pc \in {"wait", "vault"} => req[r].pc = "wait"
<1> USE DEF ReqAt, Enters
<1>0. req \in [Reqs -> ReqRec] /\ req[r] \in ReqRec /\ req[r].pc # "idle"
  BY TypeParts, CallLives DEF Shape, ReqType
<1>1. CASE ReqEnd(r)
  BY <1>0, <1>1 DEF ReqEnd, NoReq, Accepting
<1>2. ASSUME NEW pc \in {"vault", "undo", "index", "rows"}, ReqGoto(r, pc)
      PROVE  /\ req'[r].kind = req[r].kind /\ req'[r].id = req[r].id
             /\ req'[r].phone = req[r].phone /\ req'[r].proc = req[r].proc
             /\ req'[r].pc = pc
  BY <1>0, <1>2 DEF ReqGoto, ReqRec
<1>3. CASE AcceptRow(r) \/ AcceptVault(r) \/ AcceptVaultFails(r)
  BY <1>0, <1>2, <1>3 DEF AcceptRow, AcceptVault, AcceptVaultFails, Accepting
<1>4. CASE RemoveCheck(r) \/ RemoveVault(r) \/ RemoveTable(r) \/ RemoveIndex(r)
  BY <1>0, <1>1, <1>2, <1>4
  DEF RemoveCheck, RemoveVault, RemoveTable, RemoveIndex, Accepting
<1> QED
  BY <1>1, <1>3, <1>4
  DEF ReqStep, AcceptUndo, AcceptIndex, RemoveVaultFails, RemoveRows, RowsFail

LEMMA CallWithdrawn ==
  ASSUME NEW r \in Reqs, Shape, Turns, Withdrawn, ReqStep(r)
  PROVE  Withdrawn'
<1> DEFINE x == req[r].proc
<1> DEFINE ph == req[r].phone
<1>0. /\ Holding /\ Named /\ OwnIds /\ Fresh /\ Cleared /\ Withheld
      /\ CallsHome /\ StoreType /\ lastId \in 0..MaxPairings
  BY TypeParts DEF Shape, Withdrawn, MintType, Ids
<1>1. /\ req[r] \in ReqRec /\ x \in Procs /\ ph \in Phones /\ Serving(x)
      /\ Accepting(r) => req[r].id \in 1..lastId
      /\ req[r].pc # "idle"
  BY <1>0, CallLives DEF CallsHome, Accepting
<1>2. /\ \A s \in Reqs \ {r} : req'[s] = req[s] /\ ~Active(s)
      /\ \A y \in Procs : proc'[y].st = proc[y].st /\ proc'[y].read = proc[y].read
      /\ lastId' = lastId
      /\ \A y \in Procs \ {x} : proc'[y] = proc[y]
  BY CallTurn, CallProc, CallElsewhere
<1>3. \A i \in 1..lastId : born'[i].phone = born[i].phone
  BY <1>0, CallBirths, PairingAssumption
<1>4. \A s \in Reqs : Accepting(s)' =>
         /\ Accepting(s) /\ req'[s].id = req[s].id /\ req'[s].phone = req[s].phone
         /\ req[s].pc # "index"
  BY <1>2, CallKeeps DEF Accepting, Active
<1>5. Result(r) # 0 => /\ Accepting(r) /\ BornFor(ph, Result(r))
                       /\ Result(r) \notin revoked
                       /\ Result(r) = req[r].id
  BY <1>0, <1>1 DEF Result, Named, Fresh, Accepting, BornFor
<1>6. /\ \A p \in Phones : /\ Authority[p] \notin revoked
                          /\ proc[x].index[p] \notin proc[x].knew
                          /\ BornFor(p, Authority[p]) /\ BornFor(p, proc[x].index[p])
      /\ 0 \notin revoked /\ proc[x].knew \subseteq revoked
      /\ \A p \in Phones : proc[x].read[p] = 0
  BY <1>0, <1>1 DEF Withheld, Named, Holding, NoPairings
(* Memory and authority after the step. *)
<1>7. \A p \in Phones :
         /\ Authority'[p] = Authority[p] \/ (p = ph /\ Authority'[p] = Result(r))
         /\ proc'[x].index[p] = proc[x].index[p]
            \/ (p = ph /\ proc'[x].index[p] = Result(r))
  <2>1. CASE Writes(r)
    BY <1>0, <1>1, <2>1 DEF Writes, StoreType, Authority
  <2>2. CASE Tells(r)
    BY <2>2 DEF Tells
  <2>3. CASE Prepares(r)
    BY <2>3 DEF Prepares
  <2> QED
    BY <2>1, <2>2, <2>3, CallEffect
<1>8. Holding'
  <2>1. proc[x].st # "load"
    BY <1>1 DEF Serving
  <2> QED
    BY <1>0, <1>2, <2>1 DEF Holding, Serving
<1>9. Named'
  <2>1. \A p \in Phones : BornFor(p, Authority'[p])
    BY <1>5, <1>6, <1>7 DEF BornFor
  <2>2. \A p \in Phones : BornFor(p, Authority[p])'
    BY <1>2, <1>3, <2>1 DEF BornFor
  <2>3. \A p \in Phones : BornFor(p, proc'[x].index[p])
    BY <1>5, <1>6, <1>7 DEF BornFor
  <2>4. \A y \in Procs, p \in Phones : BornFor(p, proc'[y].index[p]) /\ BornFor(p, proc'[y].read[p])
    BY <1>0, <1>2, <2>3 DEF Named
  <2>5. \A y \in Procs, p \in Phones :
          BornFor(p, proc[y].index[p])' /\ BornFor(p, proc[y].read[p])'
    BY <1>2, <1>3, <2>4 DEF BornFor
  <2>6. \A s \in Reqs : Accepting(s) => req[s].id \in 1..lastId
    BY <1>0 DEF CallsHome, Accepting
  <2>7. \A s \in Reqs : Accepting(s)' => born'[req'[s].id].phone = req'[s].phone
    BY <1>0, <1>3, <1>4, <2>6 DEF Named
  <2> QED
    BY <2>2, <2>5, <2>7 DEF Named
<1>10. OwnIds'
  BY <1>0, <1>4 DEF OwnIds
<1>11. Fresh' /\ Withheld'
  <2>1. /\ \A s \in Reqs : Accepting(s)' => req[s].id # Result(r) \/ proc' = proc
        /\ Accepting(r)' => proc' = proc
    <3>1. CASE proc' = proc
      BY <3>1
    <3>2. CASE Tells(r)
      <4>1. ~Accepting(r)'
        BY <1>4, <3>2 DEF Tells
      <4>2. \A s \in Reqs : Accepting(s) => req[s].id # 0
        BY <1>0 DEF CallsHome, Accepting
      <4> QED
        BY <1>0, <1>4, <1>5, <4>1, <4>2 DEF OwnIds
    <3> QED
      BY <3>1, <3>2, CallEffect DEF Writes, Prepares
  <2>2. \A s \in Reqs, y \in Procs, p \in Phones :
          Accepting(s)' /\ Serving(y)' => proc'[y].index[p] # req'[s].id
    BY <1>0, <1>2, <1>4, <1>7, <2>1 DEF Fresh, Serving
  <2>3. CASE revoked' = revoked /\ proc'[x].knew = proc[x].knew
    <3>1. \A p \in Phones : /\ Authority'[p] \notin revoked'
                            /\ proc'[x].index[p] \notin proc'[x].knew
                            /\ proc'[x].read[p] \notin proc'[x].knew
      BY <1>1, <1>2, <1>5, <1>6, <1>7, <2>3
    <3> QED
      BY <1>0, <1>2, <1>4, <2>2, <2>3, <3>1 DEF Fresh, Withheld
  <2>4. CASE Withdraws(r)
    <3> DEFINE gone == {proc[x].index[ph]} \ {0}
    <3>1. /\ revoked' = revoked \cup gone /\ proc'[x].knew = proc[x].knew \cup gone
          /\ req[r].pc = "index" /\ Result(r) = 0
      BY <2>4 DEF Withdraws, ReqAt, Result
    <3>2. \A i \in gone : i \in 1..lastId /\ born[i].phone = ph
      BY <1>1, <1>6 DEF BornFor
    <3>3. \A p \in Phones \ {ph} : Authority[p] \notin gone /\ proc[x].index[p] \notin gone
      BY <1>1, <1>6, <3>2 DEF BornFor
    <3>4. Authority'[ph] = 0 /\ proc'[x].index[ph] = 0
      <4>1. Tells(r)
        BY <3>1, CallEffect DEF Writes, Prepares
      <4> QED
        BY <1>0, <1>1, <3>1, <4>1 DEF Tells, Cleared
    <3>5. \A p \in Phones : /\ Authority'[p] \notin revoked'
                            /\ proc'[x].index[p] \notin proc'[x].knew
                            /\ proc'[x].read[p] \notin proc'[x].knew
      <4> SUFFICES ASSUME NEW p \in Phones
                   PROVE  /\ Authority'[p] \notin revoked'
                          /\ proc'[x].index[p] \notin proc'[x].knew
                          /\ proc'[x].read[p] \notin proc'[x].knew
        OBVIOUS
      <4>0. 0 \notin revoked' /\ 0 \notin proc'[x].knew /\ proc'[x].read[p] = 0
        BY <1>1, <1>2, <1>6, <3>1
      <4>1. CASE p = ph
        BY <3>4, <4>0, <4>1
      <4>2. CASE p # ph
        <5>1. Authority'[p] = Authority[p] /\ proc'[x].index[p] = proc[x].index[p]
          BY <1>7, <4>2
        <5> QED
          BY <1>6, <3>1, <3>3, <4>0, <4>2, <5>1
      <4> QED
        BY <4>1, <4>2
    <3>6. \A s \in Reqs : Accepting(s)' => req'[s].id \notin revoked'
      BY <1>0, <1>1, <1>4, <3>1 DEF Fresh
    <3>7. revoked' \subseteq 1..lastId' /\ \A y \in Procs : proc'[y].knew \subseteq revoked'
      BY <1>0, <1>1, <1>2, <3>1, <3>2 DEF Withheld
    <3> QED
      BY <1>0, <1>2, <2>2, <3>5, <3>6, <3>7 DEF Fresh, Withheld
  <2> QED
    BY <2>3, <2>4, CallNotes
<1>12. Cleared'
  <2>1. \A s \in Reqs : req'[s].pc = "index" => s = r
    BY <1>2 DEF Active
  <2>2. req'[r].pc = "index" => Writes(r)
    BY CallEffect DEF Tells, Prepares
  <2>3. Writes(r) => /\ Authority'[ph] = Result(r) /\ req'[r].phone = ph
                     /\ Result(r)' = Result(r)
    BY <1>0, <1>1 DEF Writes, StoreType, Authority, Result, ReqRec
  <2> QED
    BY <2>1, <2>2, <2>3 DEF Cleared
<1> QED
  BY <1>8, <1>9, <1>10, <1>11, <1>12 DEF Withdrawn

LEMMA WithdrawnStep == Shape /\ Turns /\ Withdrawn /\ [Next]_vars => Withdrawn'
<1> SUFFICES ASSUME Shape, Turns, Withdrawn, [Next]_vars PROVE Withdrawn'
  OBVIOUS
<1>1. CASE UNCHANGED vars
  BY <1>1 DEF vars, storeVars, mintVars, Withdrawn, Holding, Named, OwnIds, Fresh, Cleared,
              Withheld, BornFor, Accepting, Result, Serving, Authority
<1>2. CASE \E r \in Reqs, x \in Procs, p \in Phones :
         \/ AcceptArrives(r, x, p)
         \/ \E id \in Ids, by \in {"owner", "device"} : RemoveArrives(r, x, p, id, by)
  BY <1>2, ArriveWithdrawn
<1> QED
  BY <1>1, <1>2, StartWithdrawn, LeaveWithdrawn, OtherWithdrawn, CallWithdrawn DEF Next

(* Once withdrawn, a pairing is never again authorized, neither by the     *)
(* daemon that withdrew it nor by a later start.                           *)
THEOREM WithdrawnStaysOut == Spec => []RevokedStaysOut
<1> DEFINE Inv == Shape /\ Turns /\ Withdrawn
<1>1. Init => Inv
  BY InitShape, WithdrawnInit
     DEF Init, NoProc, NoReq, Turns, OneServes, OneCall, AloneIsOnly, VaultOnly,
         Serving, Active, At
<1>2. Inv /\ [Next]_vars => Inv'
  BY ShapeStep, TurnsStep, WithdrawnStep
<1>3. Inv => RevokedStaysOut
  BY DEF Withdrawn, Withheld, RevokedStaysOut
<1> QED
  BY <1>1, <1>2, <1>3, PTL DEF Spec

-----------------------------------------------------------------------------
(* A change of identity.  One daemon at a time starts, and it mints the    *)
(* identity.  A pairing written by a daemon alone was made with the newest *)
(* one; the authority holds none while a newer is about to be minted, and  *)
(* what a start reads of it is as good until the start is over.            *)

Starting(x) == proc[x].st \notin {"down", "serve", "leaving"}

OneStarts == \A x, y \in Procs : Starting(x) /\ Starting(y) => x = y

Emptied ==
    \A x \in Procs :
      /\ proc[x].st \in {"down", "rows", "mark", "write"} => proc[x].index = NoPairings
      /\ proc[x].st = "down" => proc[x].read = NoPairings

MadeWith(id, k) == id # 0 /\ born[id].alone => born[id].key = k

Wiped(x) == proc[x].st \in {"rows", "mark", "write"}

AuthorityMine ==
    \A p \in Phones :
      /\ MadeWith(Authority[p], lastKey)
      /\ \A x \in Procs : Wiped(x) /\ Authority[p] # 0 => ~born[Authority[p]].alone

MemoryMine ==
    \A x \in Procs :
      /\ proc[x].st \in {"load", "list", "align", "settle"} =>
           \A p \in Phones : MadeWith(proc[x].index[p], lastKey)
                             /\ MadeWith(proc[x].read[p], lastKey)
      /\ proc[x].st \in {"readback", "claim", "serve", "leaving"} =>
           \A p \in Phones : MadeWith(proc[x].index[p], proc[x].key)

NewestKey ==
    /\ key \in {0, lastKey}
    /\ \A x \in Procs : /\ proc[x].st \in {"readback", "claim"} => proc[x].key = lastKey
                        /\ proc[x].alone /\ Serving(x) => proc[x].key = lastKey

Pending(r) == Accepting(r) /\ req[r].pc \in {"wait", "vault"}

Signed ==
    \A r \in Reqs :
      /\ Accepting(r) => born[req[r].id].key = proc[req[r].proc].key
      /\ Pending(r) => \A p \in Phones :
           /\ Authority[p] # req[r].id
           /\ \A x \in Procs : proc[x].index[p] # req[r].id /\ proc[x].read[p] # req[r].id

Identity == OneStarts /\ Emptied /\ AuthorityMine /\ MemoryMine /\ NewestKey /\ Signed

LEMMA IdentityInit == Init => Identity
  BY DEF Init, NoProc, NoReq, NoPairings, Identity, OneStarts, Emptied, AuthorityMine,
         MemoryMine, NewestKey, Signed, Pending, Accepting, Starting, Wiped, MadeWith,
         Serving, Authority

(* How a start's step moves it, and what it does to the identity.          *)
LEMMA StartKeys ==
  ASSUME NEW x \in Procs, Shape, Turns, Holding, NewestKey, StartStep(x)
  PROVE  /\ \/ /\ proc[x].st = "write" /\ proc'[x].st = "readback"
               /\ lastKey' = lastKey + 1 /\ key' = lastKey' /\ proc'[x].key = lastKey'
               /\ proc'[x].index = proc[x].index /\ Authority' = Authority
            \/ /\ lastKey' = lastKey /\ key' = key
               /\ \/ /\ proc[x].st \in {"down", "load", "list", "align"}
                     /\ proc'[x].st \in {"load", "list", "align", "settle"}
                  \/ /\ proc[x].st = "settle" /\ proc'[x].st = "clear"
                  \/ /\ proc[x].st = "settle" /\ proc'[x].st = "claim"
                     /\ proc'[x].key = lastKey /\ proc'[x].index = proc[x].index
                  \/ /\ proc[x].st = "clear" /\ proc'[x].st \in {"rows", "mark"}
                     /\ Authority' = NoPairings /\ proc'[x].index = NoPairings
                  \/ /\ proc[x].st = "rows" /\ proc'[x].st = "mark"
                     /\ Authority' = Authority /\ proc'[x].index = NoPairings
                  \/ /\ proc[x].st = "mark" /\ proc'[x].st = "write"
                     /\ Authority' = Authority /\ proc'[x].index = proc[x].index
                  \/ /\ proc[x].st \in {"readback", "claim"}
                     /\ proc'[x].st \in {"claim", "serve"}
                     /\ proc'[x].key = proc[x].key /\ proc'[x].index = proc[x].index
<1> USE DEF At, Goto, ProcFrame, storeVars, mintVars
<1>0. StoreType /\ proc \in [Procs -> ProcRec]
  BY TypeParts DEF Shape, ProcType
<1>1. CASE Start(x)
  <2>1. proc'[x].st = IF hasVault THEN "load" ELSE "settle"
    BY <1>1 DEF Start, NoProc
  <2> QED
    BY <1>1, <2>1 DEF Start
<1>2. CASE LoadVault(x)
  BY <1>0, <1>2 DEF LoadVault, ProcRec
<1>3. CASE AlignList(x)
  BY <1>0, <1>3 DEF AlignList, ProcRec
<1>4. CASE AlignMirror(x)
  BY <1>0, <1>4 DEF AlignMirror, ProcRec
<1>5. CASE Settle(x)
  <2>1. /\ proc[x].st = "settle" /\ proc'[x].st = (IF key = 0 THEN "clear" ELSE "claim")
        /\ proc'[x].key = key /\ proc'[x].index = proc[x].index
        /\ lastKey' = lastKey /\ key' = key
    BY <1>0, <1>5 DEF Settle, ProcRec
  <2> QED
    BY <2>1 DEF NewestKey
<1>6. CASE ClearVault(x)
  BY <1>0, <1>6 DEF ClearVault, ProcRec, Authority
<1>7. CASE ClearRows(x)
  BY <1>0, <1>7 DEF ClearRows, ProcRec, Authority
<1>8. CASE MarkAway(x)
  BY <1>0, <1>8 DEF MarkAway, ProcRec, Authority
<1>9. CASE WriteKey(x)
  BY <1>0, <1>9 DEF WriteKey, ProcRec, Authority
<1>10. CASE ReadBack(x)
  BY <1>0, <1>10 DEF ReadBack, ProcRec
<1>11. CASE Claim(x)
  BY <1>0, <1>11 DEF Claim, ProcRec
<1> QED
  BY <1>1, <1>2, <1>3, <1>4, <1>5, <1>6, <1>7, <1>8, <1>9, <1>10, <1>11 DEF StartStep

LEMMA StartAmongOthers ==
  ASSUME NEW x \in Procs, Shape, OneStarts, StartStep(x)
  PROVE  \A y \in Procs : y # x =>
           /\ ~Starting(y) /\ proc'[y].st = proc[y].st /\ proc'[y].key = proc[y].key
           /\ proc'[y].index = proc[y].index /\ proc'[y].read = proc[y].read
<1>0. proc \in [Procs -> ProcRec]
  BY TypeParts DEF Shape, ProcType
<1>1. CASE Start(x)
  <2>1. \A y \in Procs \ {x} : proc'[y] = [proc[y] EXCEPT !.alone = FALSE]
    BY <1>1 DEF Start
  <2>2. \A y \in Procs : y # x => proc[y].st \in {"down", "serve"}
    BY <1>1 DEF Start, At
  <2>3. \A y \in Procs : /\ [proc[y] EXCEPT !.alone = FALSE].st = proc[y].st
                         /\ [proc[y] EXCEPT !.alone = FALSE].key = proc[y].key
                         /\ [proc[y] EXCEPT !.alone = FALSE].index = proc[y].index
                         /\ [proc[y] EXCEPT !.alone = FALSE].read = proc[y].read
    BY <1>0 DEF ProcRec
  <2> QED
    BY <2>1, <2>2, <2>3 DEF Starting
<1>2. CASE ~Start(x)
  BY <1>2, StartMoves DEF OneStarts, Starting
<1> QED
  BY <1>1, <1>2

LEMMA StartIdentity ==
  ASSUME NEW x \in Procs, Shape, Turns, Withdrawn, Identity, StartStep(x)
  PROVE  Identity'
<1>0. /\ OneStarts /\ Emptied /\ AuthorityMine /\ MemoryMine /\ NewestKey /\ Signed
      /\ Holding /\ CallsHome
  BY TypeParts DEF Identity, Withdrawn, Shape
<1>1. \A p \in Phones : NoPairings[p] = 0
  BY DEF NoPairings
<1>2. /\ born' = born /\ req' = req
      /\ \A p \in Phones : Authority'[p] \in {0, Authority[p]}
      /\ \A y \in Procs : y # x =>
           /\ ~Starting(y) /\ proc'[y].st = proc[y].st /\ proc'[y].key = proc[y].key
           /\ proc'[y].index = proc[y].index /\ proc'[y].read = proc[y].read
      /\ \A p \in Phones :
           /\ proc'[x].index[p] \in {0, Authority[p], proc[x].index[p], proc[x].read[p]}
           /\ proc'[x].read[p] \in {0, Authority[p], proc[x].read[p]}
  BY <1>0, StartReads, StartAmongOthers
<1>3. OneStarts'
  BY <1>2 DEF OneStarts, Starting
<1>4. ~Serving(x) /\ proc'[x].st # "down"
  BY <1>0, StartKeys DEF Serving
<1>5. Emptied'
  <2>1. proc'[x].st \in {"rows", "mark", "write"} => proc'[x].index = NoPairings
    BY <1>0, StartKeys DEF Emptied
  <2> QED
    BY <1>0, <1>2, <1>4, <2>1 DEF Emptied
<1>6. AuthorityMine'
  <2>1. CASE lastKey' = lastKey
    <3>1. \A p \in Phones : MadeWith(Authority'[p], lastKey)
      BY <1>0, <1>2 DEF AuthorityMine, MadeWith
    <3>2. \A p \in Phones : Wiped(x)' /\ Authority'[p] # 0 => ~born[Authority'[p]].alone
      BY <1>0, <1>1, <1>2, <2>1, StartKeys DEF AuthorityMine, Wiped
    <3>3. \A y \in Procs \ {x} : ~Wiped(y)'
      BY <1>2 DEF Wiped, Starting
    <3> QED
      BY <1>2, <2>1, <3>1, <3>2, <3>3 DEF AuthorityMine, MadeWith
  <2>2. CASE proc[x].st = "write"
    BY <1>0, <1>2, <2>2 DEF AuthorityMine, MadeWith, Wiped
  <2> QED
    BY <1>0, <2>1, <2>2, StartKeys
<1>7. NewestKey'
  <2>1. \A y \in Procs \ {x} : proc'[y].alone /\ Serving(y)' => proc[y].st = "down"
    <3>1. ASSUME NEW y \in Procs \ {x}, proc'[y].alone, Serving(y)' PROVE FALSE
      <4>1. CASE Start(x)
        <5>1. proc'[y] = [proc[y] EXCEPT !.alone = FALSE]
          BY <4>1 DEF Start
        <5> QED
          BY <3>1, <5>1, TypeParts DEF Shape, ProcType, ProcRec
      <4>2. CASE ~Start(x)
        BY <1>2, <3>1, <4>2, StartMoves DEF Turns, AloneIsOnly, At, Serving
      <4> QED
        BY <4>1, <4>2
    <3> QED
      BY <3>1
  <2>2. \A y \in Procs \ {x} : ~(proc'[y].alone /\ Serving(y)')
    BY <1>2, <2>1 DEF Serving
  <2>3. key' \in {0, lastKey'}
    BY <1>0, StartKeys DEF NewestKey
  <2>4. proc'[x].st \in {"readback", "claim", "serve", "leaving"} => proc'[x].key = lastKey'
    BY <1>0, StartKeys DEF NewestKey
  <2>5. \A y \in Procs \ {x} : proc'[y].st \notin {"readback", "claim"}
    BY <1>2 DEF Starting
  <2> QED
    BY <2>2, <2>3, <2>4, <2>5 DEF NewestKey, Serving
<1>8. MemoryMine'
  <2>1. \A y \in Procs \ {x} :
          /\ proc'[y].st \notin {"load", "list", "align", "settle", "readback", "claim"}
          /\ proc'[y].st \in {"serve", "leaving"} =>
               \A p \in Phones : MadeWith(proc'[y].index[p], proc'[y].key)
    BY <1>0, <1>2 DEF MemoryMine, Starting
  <2>2. ASSUME proc'[x].st \in {"load", "list", "align", "settle"}, NEW p \in Phones
        PROVE  MadeWith(proc'[x].index[p], lastKey') /\ MadeWith(proc'[x].read[p], lastKey')
    <3>1. lastKey' = lastKey /\ proc[x].st \in {"down", "load", "list", "align"}
      BY <1>0, <2>2, StartKeys
    <3>2. MadeWith(proc[x].index[p], lastKey) /\ MadeWith(proc[x].read[p], lastKey)
      BY <1>0, <1>1, <3>1 DEF MemoryMine, Emptied, MadeWith
    <3>3. MadeWith(Authority[p], lastKey) /\ MadeWith(0, lastKey)
      BY <1>0 DEF AuthorityMine, MadeWith
    <3> QED
      BY <1>2, <3>1, <3>2, <3>3
  <2>3. ASSUME proc'[x].st \in {"readback", "claim", "serve", "leaving"}, NEW p \in Phones
        PROVE  MadeWith(proc'[x].index[p], proc'[x].key)
    <3>1. CASE proc[x].st = "write"
      <4>1. proc'[x].index[p] = 0
        BY <1>0, <1>1, <3>1, StartKeys DEF Emptied
      <4> QED
        BY <4>1 DEF MadeWith
    <3>2. CASE proc[x].st # "write"
      BY <1>0, <2>3, <3>2, StartKeys DEF MemoryMine, NewestKey
    <3> QED
      BY <3>1, <3>2
  <2> QED
    BY <1>2, <2>1, <2>2, <2>3 DEF MemoryMine, MadeWith
<1>9. Signed'
  <2>1. \A r \in Reqs : Accepting(r) => req[r].proc \in Procs \ {x} /\ req[r].id # 0
    BY <1>0, <1>4 DEF CallsHome, Accepting
  <2>2. \A r \in Reqs : Accepting(r)' => born'[req'[r].id].key = proc'[req'[r].proc].key
    BY <1>0, <1>2, <2>1 DEF Signed, Accepting
  <2>3. ASSUME NEW r \in Reqs, Pending(r)', NEW p \in Phones
        PROVE  /\ Authority'[p] # req'[r].id
               /\ \A y \in Procs : proc'[y].index[p] # req'[r].id /\ proc'[y].read[p] # req'[r].id
    <3>1. Pending(r) /\ req[r].id # 0 /\ req'[r].id = req[r].id
      BY <1>2, <2>1, <2>3 DEF Pending, Accepting
    <3> QED
      BY <1>0, <1>2, <3>1 DEF Signed
  <2> QED
    BY <2>2, <2>3 DEF Signed
<1> QED
  BY <1>3, <1>5, <1>6, <1>7, <1>8, <1>9 DEF Identity

LEMMA OtherIdentity ==
  ASSUME Shape, Identity,
         \/ LoseKey
         \/ \E x, y \in Procs : StepDown(x, y)
         \/ \E x \in Procs : Leave(x)
  PROVE  Identity'
<1>0. /\ OneStarts /\ Emptied /\ AuthorityMine /\ MemoryMine /\ NewestKey /\ Signed
      /\ ProcType /\ ReqType /\ CallsHome
  BY TypeParts DEF Identity, Shape
<1>1. /\ born' = born /\ lastKey' = lastKey /\ Authority' = Authority
      /\ key' \in {0, key}
  BY DEF LoseKey, StepDown, Leave, ProcFrame, Goto, At, storeVars, mintVars, Authority
<1>2. \A x \in Procs :
        \/ proc'[x] = NoProc
        \/ /\ proc'[x].st = proc[x].st \/ (proc[x].st = "serve" /\ proc'[x].st = "leaving")
           /\ proc'[x].index = proc[x].index /\ proc'[x].read = proc[x].read
           /\ proc'[x].key = proc[x].key /\ proc'[x].alone = proc[x].alone
  <2>1. CASE LoseKey
    BY <2>1 DEF LoseKey
  <2>2. ASSUME NEW x \in Procs, NEW y \in Procs, StepDown(x, y)
        PROVE  /\ \A z \in Procs : z # y => proc'[z] = proc[z]
               /\ proc[y].st = "serve" /\ proc'[y].st = "leaving"
               /\ proc'[y].index = proc[y].index /\ proc'[y].read = proc[y].read
               /\ proc'[y].key = proc[y].key /\ proc'[y].alone = proc[y].alone
    BY <1>0, <2>2 DEF StepDown, Goto, At, ProcType, ProcRec
  <2>3. CASE \E x \in Procs : Leave(x)
    BY <1>0, <2>3 DEF Leave, ProcType
  <2>4. CASE \E x, y \in Procs : StepDown(x, y)
    <3> PICK x \in Procs, y \in Procs : StepDown(x, y)
      BY <2>4
    <3> QED
      BY <2>2
  <2> QED
    BY <2>1, <2>3, <2>4
<1>3. \A r \in Reqs :
        \/ req'[r] = NoReq
        \/ /\ req'[r] = req[r]
           /\ Accepting(r) => proc'[req[r].proc].key = proc[req[r].proc].key
  <2>1. CASE \E x \in Procs : Leave(x)
    <3> PICK x \in Procs : Leave(x)
      BY <2>1
    <3>1. /\ \A y \in Procs : y # x => proc'[y] = proc[y]
          /\ \A r \in Reqs : req'[r] = IF req[r].proc = x THEN NoReq ELSE req[r]
      BY <1>0 DEF Leave, ProcType
    <3>2. \A r \in Reqs : Accepting(r) => req[r].proc \in Procs
      BY <1>0 DEF Accepting, CallsHome
    <3> QED
      BY <3>1, <3>2
  <2>2. CASE LoseKey
    BY <2>2 DEF LoseKey
  <2>3. ASSUME NEW x \in Procs, NEW y \in Procs, StepDown(x, y)
        PROVE  req' = req /\ \A z \in Procs : proc'[z].key = proc[z].key
    BY <1>0, <2>3 DEF StepDown, Goto, ProcFrame, ProcType, ProcRec
  <2>4. \A r \in Reqs : Accepting(r) => req[r].proc \in Procs
    BY <1>0 DEF Accepting, CallsHome
  <2> QED
    BY <2>1, <2>2, <2>3, <2>4
<1>4. /\ NoProc.st = "down" /\ NoProc.index = NoPairings /\ NoProc.read = NoPairings
      /\ ~NoProc.alone
      /\ NoReq.pc = "idle" /\ \A p \in Phones : NoPairings[p] = 0
  BY DEF NoProc, NoReq, NoPairings
<1>5. OneStarts' /\ Emptied'
  BY <1>0, <1>2, <1>4 DEF OneStarts, Emptied, Starting
<1>6. AuthorityMine'
  BY <1>0, <1>1, <1>2, <1>4 DEF AuthorityMine, Wiped, MadeWith
<1>7. MemoryMine'
  BY <1>0, <1>1, <1>2, <1>4 DEF MemoryMine, MadeWith
<1>8. NewestKey'
  BY <1>0, <1>1, <1>2, <1>4 DEF NewestKey, Serving
<1>9. Signed'
  <2>1. \A r \in Reqs : Accepting(r)' => Accepting(r) /\ req'[r] = req[r]
                        /\ proc'[req[r].proc].key = proc[req[r].proc].key
    BY <1>3, <1>4 DEF Accepting
  <2>2. \A r \in Reqs : Pending(r)' => Pending(r) /\ req'[r] = req[r] /\ req[r].id # 0
    BY <1>0, <2>1 DEF Pending, CallsHome, Accepting
  <2> QED
    BY <1>0, <1>1, <1>2, <1>4, <2>1, <2>2 DEF Signed
<1> QED
  BY <1>5, <1>6, <1>7, <1>8, <1>9 DEF Identity

LEMMA ArriveIdentity ==
  ASSUME NEW r \in Reqs, NEW x \in Procs, NEW p \in Phones, Shape, Withdrawn, Identity,
         \/ AcceptArrives(r, x, p)
         \/ \E id \in Ids, by \in {"owner", "device"} : RemoveArrives(r, x, p, id, by)
  PROVE  Identity'
<1>0. /\ OneStarts /\ Emptied /\ AuthorityMine /\ MemoryMine /\ NewestKey /\ Signed
      /\ Named /\ MintType /\ ReqType /\ CallsHome
  BY TypeParts DEF Identity, Withdrawn, Shape
<1>1. /\ proc' = proc /\ key' = key /\ lastKey' = lastKey /\ Authority' = Authority
      /\ ~Accepting(r)
  <2>1. CASE AcceptArrives(r, x, p)
    <3>1. /\ req[r] = NoReq /\ hasVault' = hasVault /\ storeVars' = storeVars
          /\ lastKey' = lastKey /\ proc' = proc
      BY <2>1 DEF AcceptArrives
    <3> QED
      BY <3>1 DEF storeVars, Authority, Accepting, NoReq
  <2>2. CASE \E id \in Ids, by \in {"owner", "device"} : RemoveArrives(r, x, p, id, by)
    <3>1. /\ req[r] = NoReq /\ mintVars' = mintVars /\ storeVars' = storeVars
          /\ proc' = proc
      BY <2>2 DEF RemoveArrives
    <3> QED
      BY <3>1 DEF storeVars, mintVars, Authority, Accepting, NoReq
  <2> QED
    BY <2>1, <2>2
<1>2. \A i \in 1..lastId : born'[i] = born[i]
  <2>1. CASE AcceptArrives(r, x, p)
    BY <1>0, <2>1, PairingAssumption DEF AcceptArrives, MintType, Ids
  <2>2. CASE \E id \in Ids, by \in {"owner", "device"} : RemoveArrives(r, x, p, id, by)
    BY <2>2 DEF RemoveArrives, mintVars
  <2> QED
    BY <2>1, <2>2
<1>3. \A s \in Reqs : Accepting(s)' =>
        \/ Accepting(s) /\ req'[s] = req[s] /\ req[s].id \in 1..lastId
        \/ /\ req'[s].id = lastId + 1 /\ lastId \in Nat
           /\ born'[lastId + 1].key = proc[req'[s].proc].key
  <2>1. CASE AcceptArrives(r, x, p)
    <3>1. /\ lastId \in Nat /\ lastId + 1 \in 1..MaxPairings
      BY <1>0, <2>1, PairingAssumption DEF AcceptArrives, MintType, Ids
    <3>2. /\ req'[r].id = lastId + 1 /\ req'[r].proc = x
          /\ \A s \in Reqs : s # r => req'[s] = req[s]
      BY <1>0, <2>1 DEF AcceptArrives, NoReq, ReqType
    <3>3. born'[lastId + 1].key = proc[x].key
      BY <1>0, <2>1, <3>1 DEF AcceptArrives, MintType
    <3> QED
      BY <1>0, <3>1, <3>2, <3>3 DEF Accepting, CallsHome
  <2>2. ASSUME NEW id \in Ids, NEW by \in {"owner", "device"}, RemoveArrives(r, x, p, id, by)
        PROVE  req'[r].kind = "remove" /\ \A s \in Reqs : s # r => req'[s] = req[s]
    BY <1>0, <2>2 DEF RemoveArrives, NoReq, ReqType
  <2>3. CASE \E id \in Ids, by \in {"owner", "device"} : RemoveArrives(r, x, p, id, by)
    <3>1. req'[r].kind = "remove" /\ \A s \in Reqs : s # r => req'[s] = req[s]
      BY <2>2, <2>3
    <3> QED
      BY <1>0, <3>1 DEF Accepting, CallsHome
  <2> QED
    BY <2>1, <2>3
(* Pairings that are held were made before. *)
<1>4. \A q \in Phones :
        /\ Authority[q] # 0 => born'[Authority[q]] = born[Authority[q]] /\ Authority[q] \in 1..lastId
        /\ \A y \in Procs :
             /\ proc[y].index[q] # 0 => /\ born'[proc[y].index[q]] = born[proc[y].index[q]]
                                       /\ proc[y].index[q] \in 1..lastId
             /\ proc[y].read[q] # 0 => /\ born'[proc[y].read[q]] = born[proc[y].read[q]]
                                      /\ proc[y].read[q] \in 1..lastId
  BY <1>0, <1>2 DEF Named, BornFor
<1>5. OneStarts' /\ Emptied' /\ NewestKey'
  BY <1>0, <1>1 DEF OneStarts, Emptied, NewestKey, Starting, Serving
<1>6. AuthorityMine'
  BY <1>0, <1>1, <1>4 DEF AuthorityMine, MadeWith, Wiped
<1>7. MemoryMine'
  BY <1>0, <1>1, <1>4 DEF MemoryMine, MadeWith
<1>8. Signed'
  <2>1. \A s \in Reqs : Accepting(s)' => born'[req'[s].id].key = proc[req'[s].proc].key
    BY <1>0, <1>2, <1>3 DEF Signed
  <2>2. ASSUME NEW s \in Reqs, Pending(s)', NEW q \in Phones
        PROVE  /\ Authority[q] # req'[s].id
               /\ \A y \in Procs : proc[y].index[q] # req'[s].id /\ proc[y].read[q] # req'[s].id
    <3>1. CASE Accepting(s) /\ req'[s] = req[s]
      BY <1>0, <2>2, <3>1 DEF Signed, Pending
    <3>2. CASE req'[s].id = lastId + 1 /\ lastId \in Nat
      <4>1. lastId + 1 # 0 /\ lastId + 1 \notin 1..lastId
        BY <3>2
      <4> QED
        BY <1>4, <3>2, <4>1
    <3> QED
      BY <1>3, <2>2, <3>1, <3>2 DEF Pending
  <2> QED
    BY <1>1, <2>1, <2>2 DEF Signed
<1> QED
  BY <1>5, <1>6, <1>7, <1>8 DEF Identity

(* A pairing is written with the note of who was there.                    *)
LEMMA CallSigns ==
  ASSUME NEW r \in Reqs, Shape, ReqStep(r)
  PROVE  /\ key' = key /\ lastKey' = lastKey
         /\ Writes(r) /\ Accepting(r) =>
              /\ req[r].pc \in {"wait", "vault"}
              /\ born'[req[r].id].alone = proc[req[r].proc].alone
<1>1. key' = key /\ lastKey' = lastKey
  BY DEF ReqStep, AcceptRow, AcceptVault, AcceptVaultFails, AcceptUndo, AcceptIndex,
         RemoveCheck, RemoveVault, RemoveVaultFails, RemoveTable, RemoveIndex,
         RemoveRows, RowsFail, ReqFrame, Written, mintVars
<1>2. ASSUME Writes(r), Accepting(r)
      PROVE  /\ req[r].pc \in {"wait", "vault"}
             /\ born'[req[r].id].alone = proc[req[r].proc].alone
  <2>0. /\ req \in [Reqs -> ReqRec] /\ MintType /\ req[r].id \in 1..lastId
        /\ req[r] \in ReqRec
    BY <1>2, TypeParts DEF Shape, ReqType, CallsHome, Accepting
  <2>1. req'[r].pc = "index" /\ req[r].pc # "index"
    BY <1>2, <2>0 DEF Writes, ReqRec
  <2>2. ~ReqEnd(r) /\ ~ReqGoto(r, "undo")
    BY <2>0, <2>1 DEF ReqEnd, ReqGoto, NoReq, ReqRec
  <2>3. AcceptRow(r) \/ AcceptVault(r)
    BY <1>2, <2>1, <2>2
    DEF Accepting, ReqStep, AcceptVaultFails, AcceptUndo, AcceptIndex, RemoveCheck,
        RemoveVault, RemoveVaultFails, RemoveTable, RemoveIndex, RemoveRows, RowsFail,
        Enters, ReqAt
  <2>4. /\ req[r].pc \in {"wait", "vault"}
        /\ born' = [born EXCEPT ![req[r].id].alone = proc[req[r].proc].alone]
    BY <2>3 DEF AcceptRow, AcceptVault, Written, Enters, ReqAt
  <2>5. lastId \in 0..MaxPairings /\ req[r].id \in 1..MaxPairings
    BY <2>0, PairingAssumption DEF MintType, Ids
  <2> QED
    BY <2>0, <2>4, <2>5 DEF MintType
<1> QED
  BY <1>1, <1>2

LEMMA CallIdentity ==
  ASSUME NEW r \in Reqs, NEW x \in Procs, NEW ph \in Phones,
         x = req[r].proc, ph = req[r].phone,
         Shape, Turns, Withdrawn, Identity, ReqStep(r)
  PROVE  Identity'
<1>0. /\ OneStarts /\ Emptied /\ AuthorityMine /\ MemoryMine /\ NewestKey /\ Signed
      /\ Named /\ OwnIds /\ CallsHome /\ StoreType /\ lastId \in 0..MaxPairings
  BY TypeParts DEF Identity, Withdrawn, Shape, MintType, Ids
<1>1. Serving(x) /\ req[r].pc # "idle" /\ (Accepting(r) => req[r].id # 0)
  BY <1>0, CallLives DEF CallsHome, Accepting
<1>2. /\ \A y \in Procs : /\ proc'[y].st = proc[y].st /\ proc'[y].key = proc[y].key
                          /\ proc'[y].alone = proc[y].alone /\ proc'[y].read = proc[y].read
                          /\ y # x => proc'[y].index = proc[y].index
      /\ key' = key /\ lastKey' = lastKey
      /\ \A s \in Reqs : s # r => req'[s] = req[s]
  BY CallProc, CallElsewhere, CallSigns, CallTurn
(* What is stored was made, and noted, before. *)
<1>3. \A p \in Phones :
        /\ Authority[p] # 0 => born'[Authority[p]] = born[Authority[p]]
        /\ \A y \in Procs :
             /\ proc[y].index[p] # 0 => born'[proc[y].index[p]] = born[proc[y].index[p]]
             /\ proc[y].read[p] # 0 => born'[proc[y].read[p]] = born[proc[y].read[p]]
  <2>1. \A i \in 1..lastId : born'[i] # born[i] => i = req[r].id /\ Pending(r)
    BY <1>0, CallBirths, PairingAssumption DEF Pending
  <2> QED
    BY <1>0, <2>1 DEF Named, BornFor, Signed
<1>4. \A i \in 1..lastId : born'[i].key = born[i].key
  BY <1>0, CallBirths, PairingAssumption
<1>5. \A p \in Phones :
        /\ \/ Authority'[p] = Authority[p]
           \/ p = ph /\ Authority'[p] = Result(r) /\ Writes(r)
        /\ \/ proc'[x].index[p] = proc[x].index[p]
           \/ p = ph /\ proc'[x].index[p] = Result(r) /\ Tells(r)
  <2>1. CASE Writes(r)
    BY <1>0, <2>1 DEF Writes, StoreType, Authority
  <2>2. CASE Tells(r)
    BY <2>2 DEF Tells
  <2>3. CASE Prepares(r)
    BY <2>3 DEF Prepares
  <2> QED
    BY <2>1, <2>2, <2>3, CallEffect
<1>6. Result(r) # 0 => /\ Accepting(r) /\ Result(r) = req[r].id /\ Result(r) \in 1..lastId
                       /\ born'[Result(r)].key = proc[x].key
  <2>1. Result(r) # 0 => Accepting(r) /\ Result(r) = req[r].id /\ Result(r) \in 1..lastId
    BY <1>0, <1>1 DEF Result, Accepting, CallsHome
  <2> QED
    BY <1>0, <1>4, <2>1 DEF Signed
<1>7. OneStarts' /\ NewestKey'
  BY <1>0, <1>2 DEF OneStarts, Starting, NewestKey, Serving
<1>8. Emptied'
  BY <1>0, <1>1, <1>2 DEF Emptied, Serving
<1>9. AuthorityMine'
  <2>1. ASSUME Writes(r), Result(r) # 0, born'[Result(r)].alone
        PROVE  /\ born'[Result(r)].key = lastKey
               /\ \A y \in Procs : ~Wiped(y)
    <3>1. proc[x].alone
      BY <1>6, <2>1, CallSigns
    <3>2. proc[x].key = lastKey
      BY <1>0, <1>1, <3>1 DEF NewestKey
    <3>3. \A y \in Procs : y # x => proc[y].st = "down"
      BY <3>1 DEF Turns, AloneIsOnly, At
    <3> QED
      BY <1>1, <1>6, <2>1, <3>2, <3>3 DEF Wiped, Serving
  <2>2. ASSUME NEW p \in Phones
        PROVE  /\ Authority'[p] # 0 /\ born'[Authority'[p]].alone =>
                    born'[Authority'[p]].key = lastKey
               /\ \A y \in Procs : Wiped(y) /\ Authority'[p] # 0 =>
                    ~born'[Authority'[p]].alone
    <3>1. CASE Authority'[p] = Authority[p]
      BY <1>0, <1>3, <3>1 DEF AuthorityMine, MadeWith
    <3>2. CASE Authority'[p] = Result(r) /\ Writes(r)
      BY <2>1, <3>2
    <3> QED
      BY <1>5, <3>1, <3>2
  <2> QED
    BY <1>2, <2>2 DEF AuthorityMine, MadeWith, Wiped
<1>10. MemoryMine'
  <2>1. \A y \in Procs : y # x =>
          /\ proc[y].st \in {"load", "list", "align", "settle"} =>
               \A p \in Phones : MadeWith(proc[y].index[p], lastKey)'
                                 /\ MadeWith(proc[y].read[p], lastKey)'
          /\ proc[y].st \in {"readback", "claim", "serve", "leaving"} =>
               \A p \in Phones : MadeWith(proc[y].index[p], proc[y].key)'
    BY <1>0, <1>2, <1>3 DEF MemoryMine, MadeWith
  <2>2. ASSUME NEW p \in Phones PROVE MadeWith(proc[x].index[p], proc[x].key)'
    <3>1. CASE proc'[x].index[p] = proc[x].index[p]
      <4>1. MadeWith(proc[x].index[p], proc[x].key)
        BY <1>0, <1>1 DEF MemoryMine, Serving
      <4>2. /\ proc'[x].key = proc[x].key
            /\ proc[x].index[p] # 0 =>
                 born'[proc[x].index[p]] = born[proc[x].index[p]]
        BY <1>1, <1>2, <1>3
      <4> QED
        BY <3>1, <4>1, <4>2 DEF MadeWith
    <3>2. CASE proc'[x].index[p] = Result(r)
      BY <1>2, <1>6, <3>2 DEF MadeWith
    <3> QED
      BY <1>5, <3>1, <3>2
  <2> QED
    BY <1>1, <1>2, <2>1, <2>2 DEF MemoryMine, Serving
<1>11. Signed'
  <2>1. \A s \in Reqs : Accepting(s)' =>
          /\ Accepting(s) /\ req'[s].id = req[s].id /\ req'[s].proc = req[s].proc
          /\ req[s].id \in 1..lastId /\ req[s].proc \in Procs
    BY <1>0, <1>2, CallKeeps DEF Accepting, CallsHome
  <2>2. \A s \in Reqs : Accepting(s)' => born'[req'[s].id].key = proc'[req'[s].proc].key
    BY <1>0, <1>2, <1>4, <2>1 DEF Signed
  <2>3. ASSUME NEW s \in Reqs, Pending(s)', NEW p \in Phones
        PROVE  /\ Authority'[p] # req'[s].id
               /\ \A y \in Procs : proc'[y].index[p] # req'[s].id /\ proc'[y].read[p] # req'[s].id
    <3>1. Pending(s) /\ req'[s].id = req[s].id /\ req[s].id # 0
      BY <1>2, <2>1, <2>3, CallKeeps DEF Pending
    <3>2. Result(r) # req[s].id \/ (~Writes(r) /\ ~Tells(r))
      <4>1. CASE s = r
        <5>1. req'[r].pc # "index" /\ req[r].pc # "index"
          BY <2>3, <4>1, CallKeeps DEF Pending
        <5>2. Writes(r) => req'[r].pc = "index"
          BY CallLives DEF Writes, ReqRec
        <5> QED
          BY <5>1, <5>2 DEF Tells
      <4>2. CASE s # r
        BY <1>0, <1>6, <3>1, <4>2 DEF OwnIds, Pending
      <4> QED
        BY <4>1, <4>2
    <3> QED
      BY <1>0, <1>2, <1>5, <3>1, <3>2 DEF Signed
  <2> QED
    BY <2>2, <2>3 DEF Signed
<1> QED
  BY <1>7, <1>8, <1>9, <1>10, <1>11 DEF Identity

LEMMA IdentityStep ==
  Shape /\ Turns /\ Withdrawn /\ Identity /\ [Next]_vars => Identity'
<1> SUFFICES ASSUME Shape, Turns, Withdrawn, Identity, [Next]_vars PROVE Identity'
  OBVIOUS
<1>1. CASE UNCHANGED vars
  <2>1. /\ proc' = proc /\ req' = req /\ born' = born /\ key' = key /\ lastKey' = lastKey
        /\ Authority' = Authority
    BY <1>1 DEF vars, storeVars, mintVars, Authority
  <2>2. OneStarts' /\ Emptied' /\ NewestKey'
    BY <2>1 DEF Identity, OneStarts, Emptied, NewestKey, Starting, Serving
  <2>3. AuthorityMine' /\ MemoryMine'
    BY <2>1 DEF Identity, AuthorityMine, MemoryMine, MadeWith, Wiped
  <2>4. Signed'
    BY <2>1 DEF Identity, Signed, Pending, Accepting
  <2> QED
    BY <2>2, <2>3, <2>4 DEF Identity
<1>2. CASE \E r \in Reqs, x \in Procs, p \in Phones :
         \/ AcceptArrives(r, x, p)
         \/ \E id \in Ids, by \in {"owner", "device"} : RemoveArrives(r, x, p, id, by)
  <2> PICK r \in Reqs, x \in Procs, p \in Phones :
         \/ AcceptArrives(r, x, p)
         \/ \E id \in Ids, by \in {"owner", "device"} : RemoveArrives(r, x, p, id, by)
    BY <1>2
  <2> QED
    BY ArriveIdentity
<1>3. ASSUME NEW r \in Reqs, ReqStep(r) PROVE Identity'
  BY <1>3, CallLives, CallIdentity
<1>4. ASSUME NEW x \in Procs, StartStep(x) PROVE Identity'
  BY <1>4, StartIdentity
<1>5. CASE \/ LoseKey
           \/ \E x, y \in Procs : StepDown(x, y)
           \/ \E x \in Procs : Leave(x)
  BY <1>5, OtherIdentity
<1> QED
  BY <1>1, <1>2, <1>3, <1>4, <1>5 DEF Next

(* A daemon with a new identity authorizes no pairing made with the old    *)
(* one, wherever the change was interrupted, unless another daemon was     *)
(* there when it was made.                                                 *)
THEOREM IdentityEndsPairings == Spec => []OldIdentityGone
<1> DEFINE Inv == Shape /\ Turns /\ Withdrawn /\ Identity
<1>1. Init => Inv
  BY InitShape, WithdrawnInit, IdentityInit
     DEF Init, NoProc, NoReq, Turns, OneServes, OneCall, AloneIsOnly, VaultOnly,
         Serving, Active, At
<1>2. Inv /\ [Next]_vars => Inv'
  BY ShapeStep, TurnsStep, WithdrawnStep, IdentityStep
<1>3. Inv => OldIdentityGone
  BY DEF Identity, MemoryMine, MadeWith, OldIdentityGone, Serving
<1> QED
  BY <1>1, <1>2, <1>3, PTL DEF Spec

-----------------------------------------------------------------------------
(* A removal means the pairing it is about to take out of the vault: what  *)
(* it compared was in memory, and memory follows the authority.            *)

Meaning ==
    \A r \in Reqs : ReqAt(r, "remove", "vault") /\ proc[req[r].proc].alone =>
      req[r].id \in {0, Authority[req[r].phone]}

LEMMA CallMeaning ==
  ASSUME NEW r \in Reqs, NEW x \in Procs, NEW ph \in Phones,
         x = req[r].proc, ph = req[r].phone,
         Shape, Turns, Copies, Meaning, ReqStep(r)
  PROVE  Meaning'
<1>0. req \in [Reqs -> ReqRec] /\ req[r] \in ReqRec /\ req[r].pc # "idle" /\ Serving(x)
  BY TypeParts, CallLives DEF Shape, ReqType
<1>1. \A s \in Reqs : s # r => req'[s].pc # "vault"
  BY CallTurn DEF Active
<1>2. ASSUME ReqAt(r, "remove", "vault")', proc'[x].alone, req'[r].proc = x
      PROVE  req'[r].id \in {0, Authority'[req'[r].phone]}
  <2>1. ~ReqEnd(r) /\ \A pc \in {"undo", "index", "rows"} : ~ReqGoto(r, pc)
    BY <1>0, <1>2 DEF ReqAt, ReqEnd, ReqGoto, NoReq, ReqRec
  <2>2. ReqGoto(r, "vault")
    BY <2>1, CallMoves
  <2>3. req'[r].kind = req[r].kind /\ req'[r].id = req[r].id /\ req'[r].phone = ph
    BY <1>0, <2>2 DEF ReqGoto, ReqRec
  <2>4. RemoveCheck(r)
    BY <1>2, <2>1, <2>3
    DEF ReqStep, AcceptRow, AcceptVault, AcceptVaultFails, AcceptUndo, AcceptIndex,
        RemoveVault, RemoveVaultFails, RemoveTable, RemoveIndex, RemoveRows, RowsFail,
        Enters, ReqAt
  <2>5. /\ Meant(r, proc[x].index[ph]) /\ req[r].pc = "wait"
        /\ Authority' = Authority /\ proc' = proc
    BY <2>1, <2>4 DEF RemoveCheck, Enters, ReqAt, Authority, ReqFrame, mintVars
  <2>6. ~Between(x, ph)
    BY <2>5, CallTurn DEF Between, Active
  <2>7. proc[x].index[ph] = Authority[ph]
    BY <1>0, <1>2, <2>5, <2>6 DEF Copies, Copied, Serving
  <2> QED
    BY <2>3, <2>5, <2>7 DEF Meant
<1>3. ReqAt(r, "remove", "vault")' => req'[r].proc = x
  <2>1. ReqEnd(r) => req'[r].pc = "idle"
    BY <1>0 DEF ReqEnd, NoReq
  <2>2. \A pc \in {"vault", "undo", "index", "rows"} : ReqGoto(r, pc) => req'[r].proc = x
    BY <1>0 DEF ReqGoto, ReqRec
  <2> QED
    BY <2>1, <2>2, CallMoves DEF ReqAt
<1> QED
  BY <1>1, <1>2, <1>3 DEF Meaning, ReqAt

LEMMA MeaningStep == Shape /\ Turns /\ Copies /\ Meaning /\ [Next]_vars => Meaning'
<1> SUFFICES ASSUME Shape, Turns, Copies, Meaning, [Next]_vars PROVE Meaning'
  OBVIOUS
<1> USE DEF ReqAt
<1>0. ProcType /\ ReqType /\ CallsHome
  BY TypeParts DEF Shape
<1>1. CASE UNCHANGED vars
  BY <1>1 DEF vars, storeVars, mintVars, Meaning, Authority
<1>2. ASSUME NEW x \in Procs, StartStep(x) PROVE Meaning'
  <2> SUFFICES ASSUME NEW r \in Reqs, req'[r].pc = "vault", proc'[req'[r].proc].alone
               PROVE  FALSE
    BY DEF Meaning
  <2>1. req' = req
    BY <1>2 DEF StartStep, Start, LoadVault, AlignList, AlignMirror, Settle, ClearVault,
                ClearRows, MarkAway, WriteKey, ReadBack, Claim, ProcFrame
  <2>2. req[r].proc \in Procs /\ Serving(req[r].proc)
    BY <1>0, <2>1 DEF CallsHome
  <2>3. CASE Start(x)
    <3>1. proc[x].st = "down" /\ \A y \in Procs : y # x => proc'[y] = [proc[y] EXCEPT !.alone = FALSE]
      BY <2>3 DEF Start, At
    <3>2. \A y \in Procs : ~[proc[y] EXCEPT !.alone = FALSE].alone
      BY <1>0 DEF ProcType, ProcRec
    <3> QED
      BY <2>1, <2>2, <3>1, <3>2 DEF Serving
  <2>4. CASE ~Start(x)
    BY <1>2, <2>1, <2>2, <2>4, StartMoves DEF Turns, AloneIsOnly, At, Serving
  <2> QED
    BY <2>3, <2>4
<1>3. ASSUME NEW x \in Procs, Leave(x) PROVE Meaning'
  <2>1. /\ Authority' = Authority /\ \A y \in Procs : y # x => proc'[y] = proc[y]
        /\ \A r \in Reqs : req'[r] = IF req[r].proc = x THEN NoReq ELSE req[r]
    BY <1>0, <1>3 DEF Leave, ProcType, Authority, storeVars, mintVars
  <2>2. \A r \in Reqs : req'[r].pc = "vault" => req'[r] = req[r] /\ req[r].proc # x
                                             /\ req[r].proc \in Procs
    BY <1>0, <2>1 DEF NoReq, CallsHome
  <2> QED
    BY <2>1, <2>2 DEF Meaning
<1>4. CASE LoseKey \/ \E x, y \in Procs : StepDown(x, y)
  <2>1. req' = req /\ Authority' = Authority
    BY <1>4 DEF LoseKey, StepDown, ProcFrame, Authority, storeVars, mintVars
  <2>2. CASE LoseKey
    BY <2>1, <2>2 DEF LoseKey, Meaning
  <2>3. CASE \E x, y \in Procs : StepDown(x, y)
    <3> PICK x \in Procs, y \in Procs : StepDown(x, y)
      BY <2>3
    <3>1. \A z \in Procs : proc'[z].alone = proc[z].alone
      BY <1>0 DEF StepDown, Goto, ProcType, ProcRec
    <3>2. \A r \in Reqs : req[r].pc = "vault" => req[r].proc \in Procs
      BY <1>0 DEF CallsHome
    <3> QED
      BY <2>1, <3>1, <3>2 DEF Meaning
  <2> QED
    BY <1>4, <2>2, <2>3
<1>5. CASE \E r \in Reqs, x \in Procs, p \in Phones :
         \/ AcceptArrives(r, x, p)
         \/ \E id \in Ids, by \in {"owner", "device"} : RemoveArrives(r, x, p, id, by)
  <2> PICK r \in Reqs, x \in Procs, p \in Phones :
         \/ AcceptArrives(r, x, p)
         \/ \E id \in Ids, by \in {"owner", "device"} : RemoveArrives(r, x, p, id, by)
    BY <1>5
  <2>1. proc' = proc /\ hasVault' = hasVault /\ storeVars' = storeVars
    BY DEF AcceptArrives, RemoveArrives, mintVars
  <2>2. req'[r].pc = "wait" /\ \A s \in Reqs : s # r => req'[s] = req[s]
    <3>1. CASE AcceptArrives(r, x, p)
      BY <1>0, <3>1 DEF AcceptArrives, NoReq, ReqType
    <3>2. ASSUME NEW id \in Ids, NEW by \in {"owner", "device"}, RemoveArrives(r, x, p, id, by)
          PROVE  req'[r].pc = "wait" /\ \A s \in Reqs : s # r => req'[s] = req[s]
      BY <1>0, <3>2 DEF RemoveArrives, NoReq, ReqType
    <3> QED
      BY <3>1, <3>2
  <2> QED
    BY <2>1, <2>2 DEF Meaning, Authority, storeVars
<1>6. ASSUME NEW r \in Reqs, ReqStep(r) PROVE Meaning'
  BY <1>6, CallLives, CallMeaning
<1> QED
  BY <1>1, <1>2, <1>3, <1>4, <1>5, <1>6 DEF Next

(* How a pairing leaves the authority.                                     *)
LEMMA EndsHow ==
  ASSUME Shape, Turns, Meaning, [Next]_vars,
         NEW p \in Phones, Authority[p] # 0, Authority'[p] = 0
  PROVE  \/ \E r \in Reqs : /\ req[r].kind = "remove" /\ req[r].phone = p
                            /\ req[r].id \in {0, Authority[p]} \/ ~proc[req[r].proc].alone
         \/ \E x \in Procs : At(x, "clear")
<1>0. StoreType
  BY TypeParts DEF Shape
<1>1. CASE UNCHANGED vars
  BY <1>1 DEF vars, storeVars, mintVars, Authority
<1>2. ASSUME NEW x \in Procs, StartStep(x) PROVE At(x, "clear")
  <2>1. CASE AlignMirror(x)
    BY <2>1 DEF AlignMirror, Authority, At, Turns, VaultOnly, ProcFrame, mintVars
  <2>2. CASE ClearRows(x)
    BY <2>2 DEF ClearRows, Authority, At, ProcFrame, mintVars
  <2>3. CASE ClearVault(x)
    BY <2>3 DEF ClearVault
  <2>4. CASE Start(x) \/ LoadVault(x) \/ AlignList(x) \/ Settle(x) \/ MarkAway(x)
             \/ WriteKey(x) \/ ReadBack(x) \/ Claim(x)
    <3>1. CASE Start(x)
      BY <3>1 DEF Start, ProcFrame, storeVars, mintVars, Authority
    <3>2. CASE LoadVault(x)
      BY <3>2 DEF LoadVault, ProcFrame, storeVars, mintVars, Authority
    <3>3. CASE AlignList(x)
      BY <3>3 DEF AlignList, ProcFrame, storeVars, mintVars, Authority
    <3>4. CASE Settle(x)
      BY <3>4 DEF Settle, ProcFrame, storeVars, mintVars, Authority
    <3>5. CASE MarkAway(x)
      BY <3>5 DEF MarkAway, ProcFrame, storeVars, mintVars, Authority
    <3>6. CASE WriteKey(x)
      BY <3>6 DEF WriteKey, ProcFrame, storeVars, mintVars, Authority
    <3>7. CASE ReadBack(x)
      BY <3>7 DEF ReadBack, ProcFrame, storeVars, mintVars, Authority
    <3>8. CASE Claim(x)
      BY <3>8 DEF Claim, ProcFrame, storeVars, mintVars, Authority
    <3> QED
      BY <2>4, <3>1, <3>2, <3>3, <3>4, <3>5, <3>6, <3>7, <3>8
  <2> QED
    BY <1>2, <2>1, <2>2, <2>3, <2>4 DEF StartStep
<1>3. CASE LoseKey \/ (\E x, y \in Procs : StepDown(x, y)) \/ (\E x \in Procs : Leave(x))
  BY <1>3 DEF LoseKey, StepDown, Leave, ProcFrame, storeVars, mintVars, Authority
<1>4. CASE \E r \in Reqs, x \in Procs, q \in Phones :
         \/ AcceptArrives(r, x, q)
         \/ \E id \in Ids, by \in {"owner", "device"} : RemoveArrives(r, x, q, id, by)
  <2>1. hasVault' = hasVault /\ storeVars' = storeVars
    <3>1. ASSUME NEW r \in Reqs, NEW x \in Procs, NEW q \in Phones, AcceptArrives(r, x, q)
          PROVE  hasVault' = hasVault /\ storeVars' = storeVars
      BY <3>1 DEF AcceptArrives
    <3>2. ASSUME NEW r \in Reqs, NEW x \in Procs, NEW q \in Phones, NEW id \in Ids,
                 NEW by \in {"owner", "device"}, RemoveArrives(r, x, q, id, by)
          PROVE  hasVault' = hasVault /\ storeVars' = storeVars
      BY <3>2 DEF RemoveArrives, mintVars
    <3> QED
      BY <1>4, <3>1, <3>2
  <2> QED
    BY <2>1 DEF storeVars, Authority
<1>5. ASSUME NEW r \in Reqs, ReqStep(r)
      PROVE  /\ req[r].kind = "remove" /\ req[r].phone = p
             /\ req[r].id \in {0, Authority[p]} \/ ~proc[req[r].proc].alone
  <2>1. Writes(r)
    BY <1>5, CallEffect DEF Tells, Prepares
  <2>2. /\ req[r].phone = p /\ Result(r) = 0 /\ req[r] \in ReqRec /\ req[r].pc # "idle"
        /\ req[r].kind = "accept" => req[r].id # 0
    BY <1>0, <1>5, <2>1, CallLives, TypeParts
    DEF Writes, StoreType, Authority, Shape, CallsHome
  <2>3. req[r].kind = "remove"
    BY <2>2, TypeParts, <1>5, CallLives DEF Result, Shape, CallsHome
  <2>4. req'[r].pc = "index" /\ req[r].pc # "index"
    BY <2>1, <2>2 DEF Writes, ReqRec
  <2>5. ~ReqEnd(r) /\ \A pc \in {"vault", "rows"} : ~ReqGoto(r, pc)
    BY <2>4, TypeParts DEF Shape, ReqType, ReqRec, ReqEnd, ReqGoto, NoReq
  <2>6. RemoveVault(r) \/ RemoveTable(r)
    BY <1>5, <2>3, <2>4, <2>5
    DEF ReqStep, AcceptRow, AcceptVault, AcceptVaultFails, AcceptUndo, AcceptIndex,
        RemoveCheck, RemoveVaultFails, RemoveIndex, RemoveRows, RowsFail, Enters, ReqAt
  <2>7. CASE RemoveVault(r)
    BY <2>2, <2>3, <2>7 DEF RemoveVault, Meaning, ReqAt
  <2>8. CASE RemoveTable(r)
    BY <2>2, <2>3, <2>5, <2>8 DEF RemoveTable, Meant, Authority
  <2> QED
    BY <2>2, <2>3, <2>6, <2>7, <2>8
<1> QED
  BY <1>1, <1>2, <1>3, <1>4, <1>5 DEF Next

(* A pairing ends only by a call that meant it, or with the identity it    *)
(* was made with, as long as no other daemon has been started beside the   *)
(* one that is called.                                                     *)
THEOREM PairingsEndAsMeant == Spec => EndsAsMeant
<1> DEFINE Inv == Shape /\ Turns /\ Copies /\ Meaning
<1>1. Init => Inv
  BY InitShape DEF Init, NoProc, NoReq, Turns, OneServes, OneCall, AloneIsOnly, VaultOnly,
                   Copies, Meaning, ReqAt, Serving, Active, At
<1>2. Inv /\ [Next]_vars => Inv'
  BY ShapeStep, TurnsStep, CopiesStep, MeaningStep
<1> DEFINE Ends == \A p \in Phones :
      LET id == Authority[p]
      IN  id # 0 /\ Authority'[p] = 0 =>
            \/ \E r \in Reqs : /\ req[r].kind = "remove" /\ req[r].phone = p
                               /\ \/ req[r].id \in {0, id}
                                  \/ ~proc[req[r].proc].alone
            \/ \E x \in Procs : At(x, "clear")
<1>3. Inv /\ [Next]_vars => [Ends]_vars
  <2> SUFFICES ASSUME Shape, Turns, Meaning, [Next]_vars PROVE Ends
    OBVIOUS
  <2> QED
    BY EndsHow
<1> QED
  BY <1>1, <1>2, <1>3, PTL DEF Spec, EndsAsMeant

=============================================================================
