------------------------- MODULE LibraryIngest_proofs -------------------------
(***************************************************************************)
(* What LibraryIngest's runs show on two fetch tasks, two paths and two    *)
(* contents, for any number of them.                                       *)
(***************************************************************************)
EXTENDS LibraryIngest, TLAPS

(* The shape of the state.                                                 *)
Stages == {"lookup", "exists", "place", "rehome", "fill", "refill", "evict",
           "insert", "update", "receipt"}

JobRec ==
    {NoJob} \cup [pc: Stages, hash: Contents, src: Paths \cup {None},
                  at: Paths \cup {None}]

PruneRec ==
    [pc: {"idle", "here", "list", "stat"},
     todo: SUBSET (Contents \X Paths), gone: SUBSET (Contents \X Paths)]

ScanRec ==
    [pc: {"idle", "scan", "lookup", "insert"}, todo: SUBSET Paths,
     hash: Contents \cup {None}, at: Paths \cup {None}]

Shape ==
    /\ file \in [Paths -> Contents \cup {None}]
    /\ row \in [Contents -> Paths \cup {None}]
    /\ job \in [Jobs -> JobRec]
    /\ prune \in [Pruners -> PruneRec]
    /\ scan \in ScanRec
    /\ acked \subseteq Contents
    /\ edits \in Nat
    /\ here \in BOOLEAN

-----------------------------------------------------------------------------
(* Names.  A fetch between place() and its row has a name of its own, and  *)
(* what lies there is the empty file it reserved the name with, or its     *)
(* photo.  A watcher takes a file where it lies.                           *)
Published == {"evict", "insert", "update"}
Placing   == Claiming \cup Published

OwnFile ==
    \A j \in Flows :
        /\ job[j].src = None
        /\ job[j].pc # "idle" => job[j].hash \in Hashes
        /\ job[j].pc \in Placing =>
             /\ job[j].at \in Paths
             /\ file[job[j].at] = IF job[j].pc \in Claiming THEN Empty
                                                          ELSE job[j].hash

Apart ==
    \A j, k \in Flows :
        j # k /\ job[j].pc \in Placing /\ job[k].pc \in Placing
            => job[j].at # job[k].at

InPlace ==
    \A w \in Watchers :
        job[w].pc # "idle" => job[w].src \in Paths /\ job[w].pc \notin Claiming

Names == OwnFile /\ Apart /\ InPlace

(* The user leaves a file alone that waits for its row.                    *)
Patient == "hasty" \notin Events

-----------------------------------------------------------------------------
(* Copies.  Without the watcher and the adopter, the fetch tasks alone     *)
(* bring files into the index.                                             *)
OnlyFlows ==
    /\ scan = NoScan
    /\ \A w \in Watchers : job[w] = NoJob

(* The file a fetch has published and not yet a row for, which it takes    *)
(* back when the row cannot be written.                                    *)
Revocable == {"evict", "insert"}

(* A copy that no task will take back.                                     *)
Safe(h) ==
    \E p \in Paths : file[p] = h
        /\ \A j \in Flows : job[j].pc \in Revocable => job[j].at # p

Kept(h) == Safe(h) \/ h \in lost

(* A task beyond the point where a row for its content was seen or written.*)
Known == {"exists", "rehome", "refill", "update", "receipt"}

RowsKept  == \A h \in Hashes : row[h] # None => Kept(h)
AckedKept == \A h \in acked : h \in Hashes /\ Kept(h)
KnownKept == \A j \in Flows : job[j].pc \in Known => Kept(job[j].hash)

FlowInv == OnlyFlows /\ RowsKept /\ AckedKept /\ KnownKept

(* Neither the watcher nor the adopter gives a row to a file that a fetch  *)
(* has only just published, and the user leaves such a file alone.         *)
Undisturbed == Events \cap {"watch", "adopt", "hasty"} = {}

-----------------------------------------------------------------------------
(* Records.                                                                *)

LEMMA NoJobRec == NoJob \in JobRec /\ NoPrune \in PruneRec /\ NoScan \in ScanRec
  BY DEF NoJob, JobRec, NoPrune, PruneRec, NoScan, ScanRec

(* What the table lists is a set of contents and addresses.                *)
LEMMA RecordedType == Shape => Recorded \in SUBSET (Contents \X Paths)
  BY DEF Shape, Recorded

-----------------------------------------------------------------------------
(* The shape is kept.                                                      *)

LEMMA ShapeInit == Init => Shape
  BY NoJobRec DEF Init, Shape

LEMMA Busy ==
    ASSUME NEW r \in JobRec, r.pc # "idle"
    PROVE  /\ r.pc \in Stages /\ r.hash \in Contents
           /\ r.src \in Paths \cup {None} /\ r.at \in Paths \cup {None}
           /\ \A c \in Stages : [r EXCEPT !.pc = c] \in JobRec
           /\ \A c \in Stages, p \in Paths \cup {None} :
                [r EXCEPT !.at = p, !.pc = c] \in JobRec
  <1> DEFINE Rec == [pc: Stages, hash: Contents, src: Paths \cup {None},
                     at: Paths \cup {None}]
  <1>1. r \in Rec
    BY DEF JobRec, NoJob
  <1>2. \A c \in Stages : [r EXCEPT !.pc = c] \in Rec
    BY <1>1
  <1>3. \A c \in Stages, p \in Paths \cup {None} : [r EXCEPT !.at = p, !.pc = c] \in Rec
    BY <1>1
  <1> QED BY <1>1, <1>2, <1>3 DEF JobRec

LEMMA JobMoves ==
    ASSUME Shape, NEW j \in Jobs, job[j].pc # "idle",
           NEW c \in Stages, NEW p \in Paths \cup {None}
    PROVE  /\ JobGoto(j, c) => job' \in [Jobs -> JobRec]
           /\ JobEnd(j) => job' \in [Jobs -> JobRec]
           /\ JobDone(j) => job' \in [Jobs -> JobRec]
           /\ job' = [job EXCEPT ![j].at = p, ![j].pc = c] => job' \in [Jobs -> JobRec]
  <1> DEFINE old == job[j]
  <1>1. old \in JobRec /\ job \in [Jobs -> JobRec]
    BY DEF Shape
  <1>2. /\ \A d \in Stages : [old EXCEPT !.pc = d] \in JobRec
        /\ [old EXCEPT !.at = p, !.pc = c] \in JobRec
    BY <1>1, Busy
  <1>3. "receipt" \in Stages
    BY DEF Stages
  <1> QED
    BY <1>1, <1>2, <1>3, NoJobRec DEF JobGoto, JobEnd, JobDone

LEMMA ShapeFlow ==
    ASSUME Shape
    PROVE  /\ \A h \in Hashes : FlowKnown(h) => Shape'
           /\ \A j \in Flows, h \in Hashes : FlowStart(j, h) => Shape'
           /\ \A w \in Watchers, p \in Paths : WatchStart(w, p) => Shape'
  <1>1. ASSUME NEW h \in Hashes, FlowKnown(h) PROVE Shape'
    BY <1>1 DEF FlowKnown, Shape, JobFrame, Contents
  <1>2. ASSUME NEW j \in Flows, NEW h \in Hashes, FlowStart(j, h) PROVE Shape'
    <2>1. [NoJob EXCEPT !.pc = "lookup", !.hash = h] \in JobRec
      BY DEF NoJob, JobRec, Stages, Contents
    <2> QED BY <1>2, <2>1 DEF FlowStart, Shape, JobFrame, Jobs
  <1>3. ASSUME NEW w \in Watchers, NEW p \in Paths, WatchStart(w, p) PROVE Shape'
    <2>1. [pc |-> "lookup", hash |-> file[p], src |-> p, at |-> None] \in JobRec
      BY <1>3 DEF WatchStart, Exists, JobRec, Stages, Shape
    <2> QED BY <1>3, <2>1 DEF WatchStart, Shape, JobFrame, Jobs
  <1> QED BY <1>1, <1>2, <1>3

LEMMA ShapeJob ==
    ASSUME Shape, NEW j \in Jobs, JobStep(j) \/ InsertFails(j) \/ JobFails(j)
    PROVE  Shape'
  <1> USE DEF JobFrame
  <1> DEFINE old == job[j]
  <1>0. old \in JobRec /\ job \in [Jobs -> JobRec]
    BY DEF Shape
  <1>a. old.pc # "idle"
    BY DEF JobStep, Lookup, Recheck, Place, Reserve, Homing, Fill, FillFails, Claiming,
           Adopted, Homeless, Relocate, Evict, Insert, Receipt, InsertFails, JobFails, JobAt
  <1>b. /\ old.hash \in Contents /\ old.src \in Paths \cup {None}
        /\ old.at \in Paths \cup {None}
    BY <1>0, <1>a, Busy
  <1>c. /\ \A c \in Stages, p \in Paths \cup {None} :
             /\ JobGoto(j, c) => job' \in [Jobs -> JobRec]
             /\ job' = [job EXCEPT ![j].at = p, ![j].pc = c] => job' \in [Jobs -> JobRec]
        /\ JobEnd(j) \/ JobDone(j) => job' \in [Jobs -> JobRec]
    <2>1. "receipt" \in Stages
      BY DEF Stages
    <2> QED BY <1>a, <2>1, JobMoves
  <1>1. CASE Lookup(j)
    <2> DEFINE c == IF row[job[j].hash] = None THEN "place" ELSE "exists"
    <2>1. row[old.hash] \in Paths \cup {None}
      BY <1>b DEF Shape
    <2>2. job' \in [Jobs -> JobRec]
      BY <1>1, <2>1, <1>0, <1>b, <1>c DEF Lookup, Stages
    <2> QED BY <1>1, <2>2 DEF Lookup, Shape
  <1>2. CASE Recheck(j)
    <2>1. job' \in [Jobs -> JobRec]
      BY <1>2, <1>c DEF Recheck, Stages
    <2> QED BY <1>2, <2>1 DEF Recheck, Shape
  <1>3. CASE Place(j)
    <2>1. PICK p \in Paths :
            /\ file' = [file EXCEPT ![p] = job[j].hash]
            /\ job' = [job EXCEPT ![j].at = p,
                                  ![j].pc = IF @ = "place" THEN "evict" ELSE "update"]
      BY <1>3 DEF Place, Free
    <2>2. job' \in [Jobs -> JobRec]
      BY <2>1, <1>c DEF Stages
    <2>3. file' \in [Paths -> Contents \cup {None}]
      BY <2>1, <1>b DEF Shape
    <2> QED BY <1>3, <2>2, <2>3 DEF Place, Shape
  <1>12. CASE Reserve(j)
    <2>1. PICK p \in Paths :
            /\ file' = [file EXCEPT ![p] = Empty]
            /\ job' = [job EXCEPT ![j].at = p,
                                  ![j].pc = IF @ = "place" THEN "fill" ELSE "refill"]
      BY <1>12 DEF Reserve, Free
    <2>2. job' \in [Jobs -> JobRec]
      BY <2>1, <1>c DEF Stages
    <2>3. file' \in [Paths -> Contents \cup {None}]
      BY <2>1 DEF Shape, Contents
    <2> QED BY <1>12, <2>2, <2>3 DEF Reserve, Shape
  <1>13. CASE Fill(j)
    <2>1. job' \in [Jobs -> JobRec]
      BY <1>13, <1>c DEF Fill, Stages
    <2>2. file' \in [Paths -> Contents \cup {None}]
      BY <1>13, <1>b DEF Fill, Shape
    <2> QED BY <1>13, <2>1, <2>2 DEF Fill, Shape
  <1>14. CASE FillFails(j)
    <2>1. job' \in [Jobs -> JobRec]
      BY <1>14, <1>c DEF FillFails
    <2>2. file' \in [Paths -> Contents \cup {None}]
      BY <1>14, <1>b DEF FillFails, Shape
    <2> QED BY <1>14, <2>1, <2>2 DEF FillFails, Shape
  <1>4. CASE Adopted(j)
    <2>2. job' \in [Jobs -> JobRec]
      BY <1>4, <1>b, <1>c DEF Adopted, Stages
    <2> QED BY <1>4, <2>2 DEF Adopted, Shape
  <1>5. CASE Homeless(j)
    <2>1. job' \in [Jobs -> JobRec]
      BY <1>5, <1>c DEF Homeless, Stages
    <2> QED BY <1>5, <2>1 DEF Homeless, Shape
  <1>6. CASE Relocate(j)
    <2>1. job' \in [Jobs -> JobRec]
      BY <1>6, <1>c DEF Relocate, Stages
    <2>2. row' \in [Contents -> Paths \cup {None}]
      BY <1>6, <1>b DEF Relocate, Shape
    <2> QED BY <1>6, <2>1, <2>2 DEF Relocate, Shape
  <1>7. CASE Evict(j)
    <2>1. job' \in [Jobs -> JobRec]
      BY <1>7, <1>c DEF Evict, Stages
    <2>2. row' \in [Contents -> Paths \cup {None}]
      BY <1>7 DEF Evict, Shape
    <2> QED BY <1>7, <2>1, <2>2 DEF Evict, Shape
  <1>8. CASE Insert(j)
    <2>1. job' \in [Jobs -> JobRec]
      BY <1>8, <1>c DEF Insert, Stages
    <2>2. row' \in [Contents -> Paths \cup {None}]
      BY <1>8, <1>b DEF Insert, Shape
    <2>3. file' \in [Paths -> Contents \cup {None}]
      BY <1>8, <1>b DEF Insert, RollBack, Shape
    <2> QED BY <1>8, <2>1, <2>2, <2>3 DEF Insert, Shape
  <1>9. CASE Receipt(j)
    <2>1. job' \in [Jobs -> JobRec]
      BY <1>9, <1>c DEF Receipt, Stages
    <2> QED BY <1>9, <2>1, <1>b DEF Receipt, Shape
  <1>10. CASE InsertFails(j)
    <2>1. job' \in [Jobs -> JobRec]
      BY <1>10, <1>c DEF InsertFails, Stages
    <2>2. file' \in [Paths -> Contents \cup {None}]
      BY <1>10, <1>b DEF InsertFails, RollBack, Shape
    <2> QED BY <1>10, <2>1, <2>2 DEF InsertFails, Shape
  <1>11. CASE JobFails(j)
    <2>1. job' \in [Jobs -> JobRec]
      BY <1>11, <1>c DEF JobFails, Stages
    <2> QED BY <1>11, <2>1 DEF JobFails, Shape
  <1> QED BY <1>1, <1>2, <1>3, <1>4, <1>5, <1>6, <1>7, <1>8, <1>9, <1>10, <1>11, <1>12,
          <1>13, <1>14 DEF JobStep

LEMMA ShapePrune ==
    ASSUME Shape, NEW x \in Pruners, PruneBegin(x) \/ PruneStep(x)
    PROVE  Shape'
  <1> USE DEF PruneFrame, diskVars
  <1> DEFINE old == prune[x]
  <1>0. old \in PruneRec /\ prune \in [Pruners -> PruneRec]
    BY DEF Shape
  <1>a. Recorded \in SUBSET (Contents \X Paths)
    BY RecordedType
  <1>1. CASE PruneBegin(x)
    <2>1. [NoPrune EXCEPT !.pc = "here", !.todo = Recorded] \in PruneRec
      BY <1>a DEF NoPrune, PruneRec
    <2>2. [old EXCEPT !.pc = "list"] \in PruneRec
      BY <1>0 DEF PruneRec
    <2>3. prune' \in [Pruners -> PruneRec]
      BY <1>1, <1>0, <2>1, <2>2 DEF PruneBegin
    <2> QED BY <1>1, <2>3 DEF PruneBegin, Shape
  <1>2. CASE PruneHere(x)
    <2>1. [old EXCEPT !.pc = "stat"] \in PruneRec
      BY <1>0 DEF PruneRec
    <2>2. prune' \in [Pruners -> PruneRec]
      BY <1>2, <1>0, <2>1, NoJobRec DEF PruneHere
    <2> QED BY <1>2, <2>2 DEF PruneHere, Shape
  <1>3. CASE PruneList(x)
    <2>1. [old EXCEPT !.pc = "stat", !.todo = Recorded] \in PruneRec
      BY <1>0, <1>a DEF PruneRec
    <2>2. prune' \in [Pruners -> PruneRec]
      BY <1>3, <1>0, <2>1 DEF PruneList
    <2> QED BY <1>3, <2>2 DEF PruneList, Shape
  <1>4. ASSUME NEW e \in old.todo, PruneStat(x, e) PROVE Shape'
    <2>0. e \in Contents \X Paths
      BY <1>0 DEF PruneRec
    <2> DEFINE G == IF Exists(e[2]) THEN old.gone ELSE old.gone \cup {e}
    <2>1. [old EXCEPT !.todo = old.todo \ {e}, !.gone = G] \in PruneRec
      BY <1>0, <2>0 DEF PruneRec
    <2>2. prune' = [prune EXCEPT ![x] = [old EXCEPT !.todo = old.todo \ {e}, !.gone = G]]
      BY <1>4, <1>0 DEF PruneStat
    <2>3. prune' \in [Pruners -> PruneRec]
      BY <2>1, <2>2, <1>0
    <2> QED BY <1>4, <2>3 DEF PruneStat, Shape
  <1>5. ASSUME NEW e \in old.gone, PruneDelete(x, e) PROVE Shape'
    <2>1. [old EXCEPT !.gone = old.gone \ {e}] \in PruneRec
      BY <1>0 DEF PruneRec
    <2>2. prune' \in [Pruners -> PruneRec]
      BY <1>5, <1>0, <2>1 DEF PruneDelete
    <2>3. row' \in [Contents -> Paths \cup {None}]
      BY <1>5 DEF PruneDelete, Shape
    <2> QED BY <1>5, <2>2, <2>3 DEF PruneDelete, Shape
  <1>6. CASE PruneEnd(x)
    <2>1. prune' \in [Pruners -> PruneRec]
      BY <1>6, <1>0, NoJobRec DEF PruneEnd
    <2>2. [NoScan EXCEPT !.pc = "scan", !.todo = {p \in Paths : Exists(p)}] \in ScanRec
      BY DEF NoScan, ScanRec
    <2>3. scan' \in ScanRec
      BY <1>6, <2>2 DEF PruneEnd, Shape
    <2> QED BY <1>6, <2>1, <2>3 DEF PruneEnd, Shape
  <1> QED BY <1>1, <1>2, <1>3, <1>4, <1>5, <1>6 DEF PruneStep

LEMMA ShapeScan == Shape /\ ScanStep => Shape'
  <1> SUFFICES ASSUME Shape, ScanStep PROVE Shape'
    OBVIOUS
  <1> USE DEF ScanFrame, diskVars
  <1>0. scan \in ScanRec
    BY DEF Shape
  <1>1. CASE ScanLookup
    <2>1. scan' \in ScanRec
      BY <1>1, <1>0 DEF ScanLookup, ScanRec
    <2> QED BY <1>1, <2>1 DEF ScanLookup, Shape
  <1>2. CASE ScanInsert
    <2>1. scan' \in ScanRec
      BY <1>2, <1>0, NoJobRec DEF ScanInsert, ScanRec
    <2>2. row' \in [Contents -> Paths \cup {None}]
      BY <1>2, <1>0 DEF ScanInsert, Shape, ScanRec
    <2> QED BY <1>2, <2>1, <2>2 DEF ScanInsert, Shape
  <1>3. CASE ScanEnd
    BY <1>3, NoJobRec DEF ScanEnd, Shape
  <1>4. ASSUME NEW p \in scan.todo, ScanHash(p) PROVE Shape'
    <2>1. p \in Paths
      BY <1>0 DEF ScanRec
    <2>2. scan' \in ScanRec
      BY <1>4, <1>0, <2>1, NoJobRec DEF ScanHash, ScanRec, Shape
    <2> QED BY <1>4, <2>2 DEF ScanHash, Shape
  <1> QED BY <1>1, <1>2, <1>3, <1>4 DEF ScanStep

LEMMA ShapeUser ==
    ASSUME Shape,
           \/ \E p \in Paths : Delete(p)
           \/ \E p \in Paths, h \in Hashes : Edit(p, h)
           \/ \E p, q \in Paths : Move(p, q)
    PROVE  Shape'
  BY DEF Delete, Edit, Move, UserStep, UserFrame, Shape, Contents

LEMMA ShapeWorld ==
    Shape /\ (Eject \/ Restart \/ UNCHANGED vars) => Shape'
  BY NoJobRec DEF Eject, Restart, vars, diskVars, Shape

LEMMA ShapeStep == Shape /\ [Next]_vars => Shape'
  <1> SUFFICES ASSUME Shape, [Next]_vars PROVE Shape'
    OBVIOUS
  <1>1. CASE \E h \in Hashes : FlowKnown(h)
    BY <1>1, ShapeFlow
  <1>2. CASE \E j \in Flows, h \in Hashes : FlowStart(j, h)
    BY <1>2, ShapeFlow
  <1>3. CASE \E w \in Watchers, p \in Paths : WatchStart(w, p)
    BY <1>3, ShapeFlow
  <1>4. CASE \E j \in Jobs : JobStep(j) \/ InsertFails(j) \/ JobFails(j)
    BY <1>4, ShapeJob
  <1>5. CASE \E x \in Pruners : PruneBegin(x) \/ PruneStep(x)
    BY <1>5, ShapePrune
  <1>6. CASE \/ \E p \in Paths : Delete(p)
             \/ \E p \in Paths, h \in Hashes : Edit(p, h)
             \/ \E p, q \in Paths : Move(p, q)
    BY <1>6, ShapeUser
  <1>7. CASE ScanStep \/ Eject \/ Restart \/ UNCHANGED vars
    BY <1>7, ShapeScan, ShapeWorld
  <1> QED BY <1>1, <1>2, <1>3, <1>4, <1>5, <1>6, <1>7 DEF Next

LEMMA ShapeAlways == Spec => []Shape
  <1> QED BY ShapeInit, ShapeStep, PTL DEF Spec

-----------------------------------------------------------------------------
(* Names are kept, with every event but a user's haste.                    *)

(* What place() found free is no other task's name.                        *)
LEMMA TakenNames ==
    ASSUME Names, Shape
    PROVE  \A k \in Flows : job[k].pc \in Placing =>
               job[k].at \in Paths /\ file[job[k].at] # None
  <1> SUFFICES ASSUME NEW k \in Flows, job[k].pc \in Placing
               PROVE  job[k].at \in Paths /\ file[job[k].at] # None
    OBVIOUS
  <1>1. job[k].pc # "idle"
    BY DEF Placing, Claiming, Published
  <1> QED BY <1>1, LibraryAssumption DEF Names, OwnFile

(* The step of one fetch that leaves the files of the others alone.        *)
LEMMA NamesMove ==
    ASSUME Names, NEW j \in Flows,
           \A k \in Jobs : k # j => job'[k] = job[k],
           job'[j].src = None,
           job'[j].pc # "idle" => job'[j].hash \in Hashes,
           job'[j].pc \in Placing =>
               /\ job'[j].at \in Paths
               /\ file'[job'[j].at] = IF job'[j].pc \in Claiming THEN Empty
                                                              ELSE job'[j].hash,
           \A k \in Flows : k # j /\ job[k].pc \in Placing =>
               /\ file'[job[k].at] = file[job[k].at]
               /\ job'[j].pc \in Placing => job'[j].at # job[k].at
    PROVE  Names'
  <1>0. /\ \A k \in Flows : k \in Jobs /\ (k # j => job'[k] = job[k])
        /\ \A w \in Watchers : job'[w] = job[w]
    BY LibraryAssumption DEF Jobs
  <1>1. OwnFile'
    BY <1>0 DEF OwnFile, Names
  <1>2. Apart'
    BY <1>0 DEF Apart, Names
  <1>3. InPlace'
    BY <1>0 DEF InPlace, Names
  <1> QED BY <1>1, <1>2, <1>3 DEF Names

LEMMA GoesTo ==
    ASSUME Shape, NEW j \in Flows, job[j].pc # "idle", NEW c, JobGoto(j, c)
    PROVE  /\ job'[j].pc = c /\ job'[j].src = job[j].src
           /\ job'[j].hash = job[j].hash /\ job'[j].at = job[j].at
           /\ \A k \in Jobs : k # j => job'[k] = job[k]
  <1> DEFINE old == job[j]
  <1>1. job'[j] = [old EXCEPT !.pc = c] /\ \A k \in Jobs : k # j => job'[k] = job[k]
    BY DEF JobGoto, Shape, Jobs
  <1>2. old \in [pc: Stages, hash: Contents, src: Paths \cup {None}, at: Paths \cup {None}]
    BY DEF Shape, JobRec, NoJob, Jobs
  <1> QED BY <1>1, <1>2

LEMMA GoesToAt ==
    ASSUME Shape, NEW j \in Flows, job[j].pc # "idle", NEW c \in Stages,
           NEW p \in Paths \cup {None},
           job' = [job EXCEPT ![j].at = p, ![j].pc = c]
    PROVE  /\ job'[j].pc = c /\ job'[j].src = job[j].src
           /\ job'[j].hash = job[j].hash /\ job'[j].at = p
           /\ \A k \in Jobs : k # j => job'[k] = job[k]
  <1> DEFINE old == job[j]
  <1>1. job'[j] = [old EXCEPT !.at = p, !.pc = c] /\ \A k \in Jobs : k # j => job'[k] = job[k]
    BY DEF Shape, Jobs
  <1>2. old \in [pc: Stages, hash: Contents, src: Paths \cup {None}, at: Paths \cup {None}]
    BY DEF Shape, JobRec, NoJob, Jobs
  <1>3. \A r \in [pc: Stages, hash: Contents, src: Paths \cup {None}, at: Paths \cup {None}] :
          LET n == [r EXCEPT !.at = p, !.pc = c]
          IN  n.pc = c /\ n.src = r.src /\ n.hash = r.hash /\ n.at = p
    OBVIOUS
  <1> QED BY <1>1, <1>2, <1>3

LEMMA GoesIdle ==
    ASSUME Shape, NEW j \in Flows, JobEnd(j)
    PROVE  /\ job'[j].pc = "idle" /\ job'[j].src = None
           /\ \A k \in Jobs : k # j => job'[k] = job[k]
  BY DEF JobEnd, Shape, Jobs, NoJob

(* A task at work is a flow at work.                                       *)
LEMMA AtWork ==
    ASSUME NEW j \in Jobs, JobStep(j) \/ InsertFails(j) \/ JobFails(j)
    PROVE  job[j].pc # "idle"
  BY DEF JobStep, Lookup, Recheck, Place, Reserve, Homing, Fill, FillFails, Claiming,
         Adopted, Homeless, Relocate, Evict, Insert, Receipt, InsertFails, JobFails, JobAt

(* place() under a free name, with the file or with an empty one.          *)
LEMMA NamesTaken ==
    ASSUME Names, Shape, NEW j \in Flows, Place(j) \/ Reserve(j)
    PROVE  Names'
  <1> DEFINE old == job[j]
  <1>1. PICK p \in Paths, h \in Contents, c \in Placing :
          /\ file[p] = None
          /\ file' = [file EXCEPT ![p] = h]
          /\ job' = [job EXCEPT ![j].at = p, ![j].pc = c]
          /\ h = IF c \in Claiming THEN Empty ELSE old.hash
    <2>1. old.pc # "idle" /\ old.hash \in Hashes
      BY DEF Place, Reserve, Homing, Names, OwnFile
    <2>2. CASE Place(j)
      <3> DEFINE c == IF old.pc = "place" THEN "evict" ELSE "update"
      <3>1. c \in Placing /\ c \notin Claiming /\ old.hash \in Contents
        BY <2>1 DEF Placing, Published, Claiming, Contents
      <3>2. PICK p \in Paths : /\ file[p] = None
                               /\ file' = [file EXCEPT ![p] = old.hash]
                               /\ job' = [job EXCEPT ![j].at = p, ![j].pc = c]
        BY <2>2 DEF Place, Free
      <3> QED BY <3>1, <3>2
    <2>3. CASE Reserve(j)
      <3> DEFINE c == IF old.pc = "place" THEN "fill" ELSE "refill"
      <3>1. c \in Placing /\ c \in Claiming /\ Empty \in Contents
        BY DEF Placing, Claiming, Contents
      <3>2. PICK p \in Paths : /\ file[p] = None
                               /\ file' = [file EXCEPT ![p] = Empty]
                               /\ job' = [job EXCEPT ![j].at = p, ![j].pc = c]
        BY <2>3 DEF Reserve, Free
      <3> QED BY <3>1, <3>2
    <2> QED BY <2>2, <2>3
  <1>2. old.pc # "idle" /\ old.src = None /\ old.hash \in Hashes
    BY DEF Place, Reserve, Homing, Names, OwnFile
  <1>3. /\ job'[j].pc = c /\ job'[j].src = None /\ job'[j].hash = old.hash
        /\ job'[j].at = p
        /\ \A k \in Jobs : k # j => job'[k] = job[k]
    <2>1. c \in Stages
      BY DEF Placing, Published, Claiming, Stages
    <2>2. job' = [job EXCEPT ![j].at = p, ![j].pc = c] /\ p \in Paths \cup {None}
      BY <1>1
    <2>3. /\ job'[j].pc = c /\ job'[j].src = old.src /\ job'[j].hash = old.hash
          /\ job'[j].at = p
          /\ \A k \in Jobs : k # j => job'[k] = job[k]
      <3>1. old \in [pc: Stages, hash: Contents, src: Paths \cup {None}, at: Paths \cup {None}]
        BY <1>2 DEF Shape, JobRec, NoJob, Jobs
      <3>2. job'[j] = [old EXCEPT !.at = p, !.pc = c]
            /\ \A k \in Jobs : k # j => job'[k] = job[k]
        BY <2>2 DEF Shape, Jobs
      <3> QED BY <3>1, <3>2
    <2> QED BY <1>2, <2>3
  <1>4. file'[p] = h /\ \A q \in Paths : q # p => file'[q] = file[q]
    BY <1>1 DEF Shape
  <1>5. \A k \in Flows : job[k].pc \in Placing => job[k].at \in Paths /\ job[k].at # p
    BY <1>1, TakenNames
  <1>6. \A k \in Flows : k # j /\ job[k].pc \in Placing =>
               /\ file'[job[k].at] = file[job[k].at]
               /\ job'[j].pc \in Placing => job'[j].at # job[k].at
    BY <1>3, <1>4, <1>5
  <1>7. /\ job'[j].at \in Paths
        /\ file'[job'[j].at] = IF job'[j].pc \in Claiming THEN Empty ELSE job'[j].hash
    BY <1>1, <1>3, <1>4
  <1> QED BY <1>2, <1>3, <1>6, <1>7, NamesMove

(* A step that touches no file but the one under the task's own name.      *)
LEMMA NamesOwn ==
    ASSUME Names, Shape, NEW j \in Flows, NEW p, p = job[j].at,
           \/ file' = file
           \/ job[j].pc \in Placing /\ \A q \in Paths : q # p => file'[q] = file[q]
    PROVE  \A k \in Flows : k # j /\ job[k].pc \in Placing =>
               file'[job[k].at] = file[job[k].at]
  BY DEF Names, OwnFile, Apart

LEMMA NamesFlow ==
    ASSUME Names, Shape, NEW j \in Flows,
           JobStep(j) \/ InsertFails(j) \/ JobFails(j)
    PROVE  Names'
  <1> DEFINE old == job[j]
             others == \A k \in Flows : k # j /\ job[k].pc \in Placing =>
                           file'[job[k].at] = file[job[k].at]
  <1>0. j \in Jobs
    BY DEF Jobs
  <1>a. old.pc # "idle" /\ old.src = None /\ old.hash \in Hashes
    BY <1>0, AtWork DEF Names, OwnFile
  <1>b. /\ "receipt" \notin Placing /\ "rehome" \notin Placing /\ "place" \notin Placing
        /\ "exists" \notin Placing /\ "idle" \notin Placing
        /\ {"evict", "insert", "update"} \subseteq Placing \ Claiming
        /\ "fill" \in Placing /\ "refill" \in Placing
    BY DEF Placing, Claiming, Published
  <1>c. JobDone(j) <=> JobGoto(j, "receipt")
    BY DEF JobDone
  <1>d. ASSUME NEW c, JobGoto(j, c), c \notin Placing, others PROVE Names'
    <2>1. /\ job'[j].pc = c /\ job'[j].src = None /\ job'[j].hash = old.hash
          /\ \A k \in Jobs : k # j => job'[k] = job[k]
      BY <1>a, <1>d, GoesTo
    <2> QED BY <2>1, <1>a, <1>d, NamesMove
  <1>e. ASSUME JobEnd(j), others PROVE Names'
    BY <1>b, <1>e, GoesIdle, NamesMove
  <1>f. ASSUME NEW c \in {"evict", "insert", "update"}, JobGoto(j, c), others,
               old.pc \in Placing, file'[old.at] = old.hash
        PROVE  Names'
    <2>1. /\ job'[j].pc = c /\ job'[j].src = None /\ job'[j].hash = old.hash
          /\ job'[j].at = old.at
          /\ \A k \in Jobs : k # j => job'[k] = job[k]
      BY <1>a, <1>f, GoesTo
    <2>2. /\ old.at \in Paths
          /\ \A k \in Flows : k # j /\ job[k].pc \in Placing => old.at # job[k].at
      BY <1>f DEF Names, OwnFile, Apart
    <2>3. c \in Placing /\ c \notin Claiming
      BY <1>b, <1>f
    <2> QED BY <2>1, <2>2, <2>3, <1>a, <1>f, NamesMove
  <1>g. file' = file => others
    BY NamesOwn
  <1>1. CASE Lookup(j)
    <2> DEFINE c == IF row[old.hash] = None THEN "place" ELSE "exists"
    <2>1. file' = file /\ c \notin Placing /\ c \in Stages
      BY <1>1, <1>b DEF Lookup, Stages
    <2>2. job' = [job EXCEPT ![j].at = row[old.hash], ![j].pc = c]
      BY <1>1 DEF Lookup
    <2> HIDE DEF c
    <2> DEFINE q == row[old.hash]
    <2>3. job' = [job EXCEPT ![j].at = q, ![j].pc = c] /\ q \in Paths \cup {None}
      BY <2>2, <1>a DEF Shape, Contents
    <2> HIDE DEF q
    <2>4. /\ job'[j].pc = c /\ job'[j].src = None /\ job'[j].hash = old.hash
          /\ \A k \in Jobs : k # j => job'[k] = job[k]
      BY <2>1, <2>3, <1>a, GoesToAt
    <2> QED BY <2>1, <2>4, <1>a, <1>g, NamesMove
  <1>2. CASE Recheck(j)
    BY <1>2, <1>b, <1>c, <1>d, <1>g DEF Recheck
  <1>3. CASE Place(j) \/ Reserve(j)
    BY <1>3, NamesTaken
  <1>4. CASE Fill(j)
    <2>1. old.at \in Paths /\ old.pc \in Placing
      BY <1>4 DEF Fill, Names, OwnFile, Placing
    <2>2. file'[old.at] = old.hash /\ \A q \in Paths : q # old.at => file'[q] = file[q]
      BY <1>4, <2>1 DEF Fill, Shape
    <2>3. JobGoto(j, "evict") \/ JobGoto(j, "update")
      BY <1>4 DEF Fill
    <2> QED BY <2>1, <2>2, <2>3, <1>f, NamesOwn
  <1>5. CASE FillFails(j)
    <2>1. old.pc \in Placing /\ \A q \in Paths : q # old.at => file'[q] = file[q]
      BY <1>5 DEF FillFails, Placing, Shape
    <2>2. JobEnd(j)
      BY <1>5 DEF FillFails
    <2> QED BY <2>1, <2>2, <1>e, NamesOwn
  <1>6. CASE Adopted(j)
    BY <1>6, <1>a DEF Adopted
  <1>7. CASE Homeless(j) \/ JobFails(j) \/ Receipt(j)
    <2>1. file' = file /\ JobEnd(j)
      BY <1>7 DEF Homeless, JobFails, Receipt
    <2> QED BY <2>1, <1>e, <1>g
  <1>8. CASE Relocate(j)
    <2>1. file' = file /\ JobGoto(j, "receipt")
      BY <1>8, <1>c DEF Relocate
    <2> QED BY <2>1, <1>b, <1>d, <1>g
  <1>9. CASE Evict(j)
    <2>1. file' = file /\ JobGoto(j, "insert") /\ old.pc = "evict"
      BY <1>9 DEF Evict, JobAt
    <2>2. file[old.at] = old.hash
      BY <2>1, <1>b DEF Names, OwnFile
    <2> QED BY <2>1, <2>2, <1>b, <1>f, <1>g
  <1>10. CASE Insert(j) \/ InsertFails(j)
    <2>1. old.pc = "insert" /\ (file' = file \/ RollBack(j))
      BY <1>10 DEF Insert, InsertFails, JobAt
    <2>2. file' = file \/ (old.pc \in Placing /\ \A q \in Paths : q # old.at => file'[q] = file[q])
      BY <2>1, <1>b DEF RollBack, Shape
    <2>3. JobEnd(j) \/ JobGoto(j, "receipt")
      BY <1>10, <1>c DEF Insert, InsertFails
    <2> QED BY <2>2, <2>3, <1>b, <1>d, <1>e, NamesOwn
  <1> QED BY <1>1, <1>2, <1>3, <1>4, <1>5, <1>6, <1>7, <1>8, <1>9, <1>10 DEF JobStep

(* A watcher writes no file.                                               *)
LEMMA WatcherWorks ==
    ASSUME Names, Shape, NEW w \in Watchers,
           JobStep(w) \/ InsertFails(w) \/ JobFails(w)
    PROVE  Names' /\ file' = file
  <1> DEFINE old == job[w]
  <1>0. w \in Jobs /\ w \notin Flows /\ \A k \in Flows : k \in Jobs /\ k # w
    BY LibraryAssumption DEF Jobs
  <1>1. old.pc # "idle" /\ old.src \in Paths /\ old.src # None /\ old.pc \notin Claiming
    BY <1>0, AtWork, LibraryAssumption DEF Names, InPlace
  <1>2. /\ ~Place(w) /\ ~Reserve(w) /\ ~Fill(w) /\ ~FillFails(w)
        /\ RollBack(w) => file' = file
    BY <1>1 DEF Place, Reserve, Homing, Fill, FillFails, RollBack, Shape
  <1>3. file' = file
    BY <1>2 DEF JobStep, Lookup, Recheck, Adopted, Homeless, Relocate, Evict, Insert,
       Receipt, InsertFails, JobFails
  <1>4. old \in [pc: Stages, hash: Contents, src: Paths \cup {None}, at: Paths \cup {None}]
    BY <1>0, <1>1 DEF Shape, JobRec, NoJob
  <1>5. job \in [Jobs -> JobRec]
    BY DEF Shape
  <1>6. \/ JobEnd(w)
        \/ \E c \in Stages \ Claiming : JobGoto(w, c)
        \/ \E c \in Stages \ Claiming : \E p : job' = [job EXCEPT ![w].at = p, ![w].pc = c]
    <2>1. {"rehome", "insert", "place", "exists", "evict", "update", "receipt"}
             \subseteq Stages \ Claiming
      BY DEF Stages, Claiming
    <2>2. CASE Lookup(w)
      <3> DEFINE c == IF row[old.hash] = None THEN "place" ELSE "exists"
      <3>1. c \in Stages \ Claiming
        BY <2>1
      <3>2. job' = [job EXCEPT ![w].at = row[old.hash], ![w].pc = c]
        BY <2>2 DEF Lookup
      <3> QED BY <3>1, <3>2
    <2>3. CASE Adopted(w)
      <3> DEFINE c == IF old.pc = "place" THEN "evict" ELSE "update"
      <3>1. c \in Stages \ Claiming
        BY <2>1
      <3>2. job' = [job EXCEPT ![w].at = old.src, ![w].pc = c]
        BY <2>3 DEF Adopted
      <3> QED BY <3>1, <3>2
    <2>4. CASE Recheck(w) \/ Homeless(w) \/ Relocate(w) \/ Insert(w) \/ Receipt(w)
               \/ InsertFails(w) \/ JobFails(w) \/ Evict(w)
      BY <2>1, <2>4, <1>0 DEF Recheck, Homeless, Relocate, Insert, Receipt, InsertFails,
         JobFails, Evict, JobDone
    <2> QED BY <2>2, <2>3, <2>4, <1>2 DEF JobStep
  <1>7. /\ \A k \in Jobs : k # w => job'[k] = job[k]
        /\ job'[w].pc = "idle" \/ (job'[w].src = old.src /\ job'[w].pc \notin Claiming)
    <2>1. CASE JobEnd(w)
      BY <2>1, <1>0, <1>5 DEF JobEnd, NoJob
    <2>2. ASSUME NEW c \in Stages \ Claiming, JobGoto(w, c)
          PROVE  /\ \A k \in Jobs : k # w => job'[k] = job[k]
                 /\ job'[w].src = old.src /\ job'[w].pc \notin Claiming
      <3>1. job'[w] = [old EXCEPT !.pc = c] /\ \A k \in Jobs : k # w => job'[k] = job[k]
        BY <2>2, <1>0, <1>5 DEF JobGoto
      <3> QED BY <3>1, <1>4
    <2>3. ASSUME NEW c \in Stages \ Claiming, NEW p,
                 job' = [job EXCEPT ![w].at = p, ![w].pc = c]
          PROVE  /\ \A k \in Jobs : k # w => job'[k] = job[k]
                 /\ job'[w].src = old.src /\ job'[w].pc \notin Claiming
      <3>1. job'[w] = [old EXCEPT !.at = p, !.pc = c]
            /\ \A k \in Jobs : k # w => job'[k] = job[k]
        BY <2>3, <1>0, <1>5
      <3> QED BY <3>1, <1>4
    <2> QED BY <1>6, <2>1, <2>2, <2>3
  <1>8. OwnFile' /\ Apart'
    BY <1>0, <1>3, <1>7 DEF Names, OwnFile, Apart
  <1>9. InPlace'
    BY <1>1, <1>7 DEF Names, InPlace, Jobs
  <1> QED BY <1>3, <1>8, <1>9 DEF Names

(* A patient user touches no name between place() and its row.             *)
LEMMA UserSparesNames ==
    ASSUME Names, Shape, Patient,
           \/ \E p \in Paths : Delete(p)
           \/ \E p \in Paths, h \in Hashes : Edit(p, h)
           \/ \E p, q \in Paths : Move(p, q)
    PROVE  /\ Names'
           /\ \A j \in Flows : job[j].pc \in Placing => file'[job[j].at] = file[job[j].at]
  <1>1. job' = job
    BY DEF Delete, Edit, Move, UserFrame
  <1>2. \A p \in Paths : \A e : UserStep(e, p) =>
            \A j \in Flows : job[j].pc \in Placing => job[j].at # p
    BY DEF UserStep, Settled, Patient, Placing, Claiming, Published
  <1>3. \A j \in Flows : job[j].pc \in Placing => file'[job[j].at] = file[job[j].at]
    <2>1. CASE \E p \in Paths : Delete(p)
      BY <2>1, <1>2, TakenNames DEF Delete, Shape
    <2>2. CASE \E p \in Paths, h \in Hashes : Edit(p, h)
      BY <2>2, <1>2, TakenNames DEF Edit, Shape
    <2>3. CASE \E p, q \in Paths : Move(p, q)
      BY <2>3, <1>2, TakenNames DEF Move, Shape
    <2> QED BY <2>1, <2>2, <2>3
  <1>4. OwnFile' /\ Apart' /\ InPlace'
    BY <1>1, <1>3 DEF Names, OwnFile, Apart, InPlace
  <1> QED BY <1>3, <1>4 DEF Names

LEMMA OthersLeaveFiles ==
    ASSUME \/ \E h \in Hashes : FlowKnown(h)
           \/ \E j \in Flows, h \in Hashes : FlowStart(j, h)
           \/ \E w \in Watchers, p \in Paths : WatchStart(w, p)
           \/ \E x \in Pruners : PruneBegin(x) \/ PruneStep(x)
           \/ ScanStep \/ Eject \/ Restart \/ UNCHANGED vars
    PROVE  file' = file /\ lost' = lost
  BY DEF FlowKnown, FlowStart, WatchStart, JobFrame, PruneBegin, PruneStep, PruneHere,
         PruneList, PruneStat, PruneDelete, PruneEnd, PruneFrame, ScanStep, ScanHash,
         ScanLookup, ScanInsert, ScanEnd, ScanFrame, Eject, Restart, vars, diskVars

LEMMA NamesInit == Init => Names
  <1> SUFFICES ASSUME Init PROVE Names
    OBVIOUS
  <1>1. \A j \in Jobs : job[j].pc = "idle" /\ job[j].src = None
    BY DEF Init, NoJob
  <1>2. "idle" \notin Placing
    BY DEF Placing, Claiming, Published
  <1> QED BY <1>1, <1>2 DEF Names, OwnFile, Apart, InPlace, Jobs

LEMMA NamesStep ==
    ASSUME Patient, Shape, Names, [Next]_vars
    PROVE  Names'
  <1>0. /\ \A j \in Flows : j \in Jobs
        /\ \A w \in Watchers : w \in Jobs /\ w \notin Flows
    BY LibraryAssumption DEF Jobs
  <1>1. ASSUME NEW j \in Flows, NEW h \in Hashes, FlowStart(j, h) PROVE Names'
    <2>1. /\ job'[j].pc = "lookup" /\ job'[j].src = None /\ job'[j].hash = h
          /\ \A k \in Jobs : k # j => job'[k] = job[k]
      BY <1>1 DEF FlowStart, NoJob, Shape, Jobs
    <2>2. "lookup" \notin Placing /\ file' = file
      BY <1>1 DEF Placing, Claiming, Published, FlowStart
    <2> QED BY <2>1, <2>2, NamesMove
  <1>2. ASSUME NEW w \in Watchers, NEW p \in Paths, WatchStart(w, p) PROVE Names'
    <2>1. /\ job'[w].src = p /\ job'[w].pc = "lookup"
          /\ \A k \in Jobs : k # w => job'[k] = job[k]
      BY <1>2 DEF WatchStart, Shape, Jobs
    <2>2. "lookup" \notin Claiming /\ file' = file
      BY <1>2 DEF Claiming, WatchStart
    <2>3. InPlace'
      BY <1>0, <2>1, <2>2 DEF InPlace, Names
    <2>4. OwnFile' /\ Apart'
      BY <1>0, <2>1, <2>2 DEF OwnFile, Apart, Names
    <2> QED BY <2>3, <2>4 DEF Names
  <1>3. CASE \E j \in Jobs : JobStep(j) \/ InsertFails(j) \/ JobFails(j)
    BY <1>3, NamesFlow, WatcherWorks DEF Jobs
  <1>4. CASE \/ \E p \in Paths : Delete(p)
             \/ \E p \in Paths, h \in Hashes : Edit(p, h)
             \/ \E p, q \in Paths : Move(p, q)
    BY <1>4, UserSparesNames
  <1>5. CASE Restart
    <2>1. \A j \in Jobs : job'[j].pc = "idle" /\ job'[j].src = None
      BY <1>5 DEF Restart, NoJob
    <2>2. "idle" \notin Placing
      BY DEF Placing, Claiming, Published
    <2> QED BY <2>1, <2>2, <1>0 DEF Names, OwnFile, Apart, InPlace
  <1>6. CASE \/ \E h \in Hashes : FlowKnown(h)
             \/ \E x \in Pruners : PruneBegin(x) \/ PruneStep(x)
             \/ ScanStep \/ Eject \/ UNCHANGED vars
    <2>1. file' = file
      BY <1>6, OthersLeaveFiles
    <2>2. job' = job
      BY <1>6 DEF FlowKnown, PruneBegin, PruneStep, PruneHere, PruneList, PruneStat,
         PruneDelete, PruneEnd, PruneFrame, ScanStep, ScanHash, ScanLookup, ScanInsert,
         ScanEnd, ScanFrame, Eject, vars
    <2> QED BY <2>1, <2>2 DEF Names, OwnFile, Apart, InPlace
  <1> QED BY <1>1, <1>2, <1>3, <1>4, <1>5, <1>6 DEF Next

LEMMA NamesAlways == ASSUME Patient PROVE Spec => [](Shape /\ Names)
  <1>1. Init => Shape /\ Names
    BY ShapeInit, NamesInit
  <1>2. (Shape /\ Names) /\ [Next]_vars => (Shape /\ Names)'
    BY ShapeStep, NamesStep
  <1> QED BY <1>1, <1>2, PTL DEF Spec

(* #1047: the rename that fills a reserved name replaces what lies there,  *)
(* and that is the empty file the task itself put there: no photo of       *)
(* another is, with watchers, adopter, pruning, failures and restarts, as  *)
(* long as the user leaves a file alone that waits for its row.            *)
THEOREM NeverOverwrites == Patient => (Spec => NothingOverwritten)
  <1> SUFFICES ASSUME Patient PROVE Spec => NothingOverwritten
    OBVIOUS
  <1>1. ASSUME Shape, Names, [Next]_vars, NEW p \in Paths, file[p] \in Hashes,
               edits' = edits
        PROVE  file'[p] \in {file[p], None}
    <2>0. file[p] # None /\ file[p] # Empty
      BY <1>1, LibraryAssumption
    <2>1. ASSUME NEW j \in Flows, JobStep(j) \/ InsertFails(j) \/ JobFails(j)
          PROVE  file'[p] \in {file[p], None}
      <3>1. CASE Place(j) \/ Reserve(j)
        BY <3>1, <2>0, <1>1 DEF Place, Reserve, Free, Shape
      <3>2. CASE Fill(j) \/ FillFails(j)
        <4>1. file[job[j].at] = Empty /\ job[j].at \in Paths
          BY <3>2, <1>1 DEF Fill, FillFails, Names, OwnFile, Placing
        <4> QED BY <3>2, <4>1, <2>0, <1>1 DEF Fill, FillFails, Shape
      <3>3. CASE RollBack(j) \/ file' = file
        BY <3>3, <1>1 DEF RollBack, Shape
      <3> QED BY <2>1, <3>1, <3>2, <3>3 DEF JobStep, Lookup, Recheck, Adopted, Homeless,
                 Relocate, Evict, Insert, Receipt, InsertFails, JobFails
    <2>2. CASE \E w \in Watchers : JobStep(w) \/ InsertFails(w) \/ JobFails(w)
      BY <2>2, <1>1, WatcherWorks
    <2>3. CASE \/ \E q \in Paths : Delete(q)
               \/ \E q \in Paths, h \in Hashes : Edit(q, h)
               \/ \E q, r \in Paths : Move(q, r)
      BY <1>1, <2>3 DEF Delete, Edit, Move, UserStep, Shape
    <2> QED BY <1>1, <2>1, <2>2, <2>3, OthersLeaveFiles DEF Next, Jobs
  <1>2. Shape /\ Names /\ [Next]_vars
          => [\A p \in Paths : file[p] \in Hashes /\ edits' = edits
                => file'[p] \in {file[p], None}]_vars
    BY <1>1
  <1> QED BY <1>2, NamesAlways, PTL DEF Spec, NothingOverwritten

-----------------------------------------------------------------------------
(* Copies are kept.                                                        *)

(* A step that takes no copy but a revocable one, and makes none revocable.*)
LEMMA KeptStays ==
    ASSUME lost' = lost,
           \A q \in Paths : file[q] \in Hashes =>
               \/ file'[q] = file[q]
               \/ \E k \in Flows : job[k].pc \in Revocable /\ job[k].at = q,
           \A k \in Flows : job'[k].pc \in Revocable =>
               \/ job[k].pc \in Revocable /\ job'[k].at = job[k].at
               \/ file[job'[k].at] \notin Hashes
    PROVE  \A h \in Hashes : Kept(h) => Kept(h)'
  <1> SUFFICES ASSUME NEW h \in Hashes, Safe(h) PROVE Safe(h)'
    BY DEF Kept
  <1>1. PICK q \in Paths : file[q] = h
            /\ \A k \in Flows : job[k].pc \in Revocable => job[k].at # q
    BY DEF Safe
  <1>2. file'[q] = h
    BY <1>1
  <1>3. \A k \in Flows : job'[k].pc \in Revocable => job'[k].at # q
    BY <1>1
  <1> QED BY <1>2, <1>3 DEF Safe

(* The step of one task.                                                   *)
LEMMA TaskMoves ==
    ASSUME FlowInv, Names, NEW j \in Flows,
           \A k \in Jobs : k # j => job'[k] = job[k],
           lost' = lost, scan' = scan,
           \A q \in Paths : file[q] \in Hashes =>
               file'[q] = file[q] \/ (job[j].pc \in Revocable /\ job[j].at = q),
           job'[j].pc \in Revocable =>
               \/ job[j].pc \in Revocable /\ job'[j].at = job[j].at
               \/ file[job'[j].at] \notin Hashes,
           \A h : job'[j].pc \in Known /\ job'[j].hash = h =>
               h \in Hashes /\ (Kept(h) \/ Kept(h)'),
           \A h \in Hashes : row'[h] # None => row[h] # None \/ Kept(h)',
           \A h \in acked' : h \in acked \/ (h \in Hashes /\ Kept(h))
    PROVE  FlowInv'
  <1>0. \A k \in Flows : k \in Jobs /\ (k # j => job'[k] = job[k])
    BY DEF Jobs
  <1>a. \A h \in Hashes : Kept(h) => Kept(h)'
    <2>1. \A q \in Paths : file[q] \in Hashes =>
               \/ file'[q] = file[q]
               \/ \E k \in Flows : job[k].pc \in Revocable /\ job[k].at = q
      OBVIOUS
    <2>2. \A k \in Flows : job'[k].pc \in Revocable =>
               \/ job[k].pc \in Revocable /\ job'[k].at = job[k].at
               \/ file[job'[k].at] \notin Hashes
      BY <1>0
    <2> QED BY <2>1, <2>2, KeptStays
  <1>1. OnlyFlows'
    BY LibraryAssumption DEF OnlyFlows, FlowInv, Jobs
  <1>2. RowsKept'
    <2>1. \A h \in Hashes : row'[h] # None => Kept(h)'
      BY <1>a DEF RowsKept, FlowInv
    <2> QED BY <2>1 DEF RowsKept
  <1>3. AckedKept'
    <2>1. \A h \in acked' : h \in Hashes /\ Kept(h)'
      BY <1>a DEF AckedKept, FlowInv
    <2> QED BY <2>1 DEF AckedKept
  <1>4. KnownKept'
    <2> SUFFICES ASSUME NEW k \in Flows, job'[k].pc \in Known,
                        NEW h, h = job'[k].hash
                 PROVE  Kept(h)'
      BY DEF KnownKept, Kept, Safe
    <2>1. CASE k = j
      BY <2>1, <1>a
    <2>2. CASE k # j
      <3>1. job[k].pc \in Known /\ job[k].hash = h
        BY <2>2, <1>0
      <3>2. Kept(h) /\ h \in Hashes
        BY <3>1 DEF FlowInv, KnownKept, Known, Names, OwnFile
      <3> QED BY <3>2, <1>a
    <2> QED BY <2>1, <2>2
  <1> QED BY <1>1, <1>2, <1>3, <1>4 DEF FlowInv

LEMMA FlowBegins ==
    ASSUME FlowInv, Names, Shape, NEW h \in Hashes,
           FlowKnown(h) \/ \E j \in Flows : FlowStart(j, h)
    PROVE  FlowInv'
  <1>1. CASE FlowKnown(h)
    <2>0. /\ file' = file /\ row' = row /\ job' = job /\ lost' = lost /\ scan' = scan
          /\ acked' = acked \cup {h}
      BY <1>1 DEF FlowKnown, JobFrame
    <2>1. \A g : Kept(g) => Kept(g)'
      BY <2>0 DEF Kept, Safe
    <2>2. Kept(h)
      BY <1>1 DEF FlowKnown, Durable, FlowInv, RowsKept
    <2>3. OnlyFlows'
      BY <2>0 DEF FlowInv, OnlyFlows
    <2>4. \A g \in Hashes : row'[g] # None => Kept(g)'
      BY <2>0, <2>1 DEF FlowInv, RowsKept
    <2>5. \A g \in acked' : g \in Hashes /\ Kept(g)'
      BY <2>0, <2>1, <2>2 DEF FlowInv, AckedKept
    <2>6. KnownKept'
      <3> SUFFICES ASSUME NEW k \in Flows, job'[k].pc \in Known,
                          NEW g, g = job'[k].hash
                   PROVE  Kept(g)'
        BY DEF KnownKept, Kept, Safe
      <3> QED BY <2>0, <2>1 DEF KnownKept, FlowInv
    <2> QED BY <2>3, <2>4, <2>5, <2>6 DEF FlowInv, RowsKept, AckedKept
  <1>2. ASSUME NEW j \in Flows, FlowStart(j, h) PROVE FlowInv'
    <2>1. /\ job'[j].pc = "lookup"
          /\ \A k \in Jobs : k # j => job'[k] = job[k]
      BY <1>2 DEF FlowStart, NoJob, Shape, Jobs
    <2>2. "lookup" \notin Revocable /\ "lookup" \notin Known
      BY DEF Revocable, Known
    <2>3. file' = file /\ row' = row /\ lost' = lost /\ scan' = scan /\ acked' = acked
      BY <1>2 DEF FlowStart, JobFrame
    <2> QED BY <2>1, <2>2, <2>3, TaskMoves
  <1> QED BY <1>1, <1>2

(* A task that goes on, without a change of names.                         *)
LEMMA TaskGoes ==
    ASSUME FlowInv, Names, Shape, NEW j \in Flows, job[j].pc # "idle", NEW c,
           JobGoto(j, c), lost' = lost, scan' = scan, acked' = acked,
           \A q \in Paths : file[q] \in Hashes =>
               file'[q] = file[q] \/ (job[j].pc \in Revocable /\ job[j].at = q),
           c \in Revocable => job[j].pc \in Revocable \/ file[job[j].at] \notin Hashes,
           c \in Known => \A h : h = job[j].hash => Kept(h) \/ Kept(h)',
           \A h \in Hashes : row'[h] # None => row[h] # None \/ Kept(h)'
    PROVE  FlowInv'
  <1>1. /\ job'[j].pc = c /\ job'[j].hash = job[j].hash /\ job'[j].at = job[j].at
        /\ \A k \in Jobs : k # j => job'[k] = job[k]
    BY GoesTo
  <1>2. job[j].hash \in Hashes
    BY DEF Names, OwnFile
  <1> QED BY <1>1, <1>2, TaskMoves

(* A task that gives up.                                                   *)
LEMMA TaskEnds ==
    ASSUME FlowInv, Names, Shape, NEW j \in Flows, JobEnd(j),
           lost' = lost, scan' = scan, row' = row,
           \A q \in Paths : file[q] \in Hashes =>
               file'[q] = file[q] \/ (job[j].pc \in Revocable /\ job[j].at = q),
           \A h \in acked' : h \in acked \/ (h \in Hashes /\ Kept(h))
    PROVE  FlowInv'
  <1>1. "idle" \notin Revocable /\ "idle" \notin Known
    BY DEF Revocable, Known
  <1> QED BY <1>1, GoesIdle, TaskMoves

LEMMA FlowWorks ==
    ASSUME FlowInv, Names, Shape, NEW j \in Flows,
           JobStep(j) \/ InsertFails(j) \/ JobFails(j)
    PROVE  FlowInv'
  <1> USE DEF JobFrame
  <1> DEFINE old == job[j]
             spared == \A q \in Paths : file[q] \in Hashes =>
                 file'[q] = file[q] \/ (job[j].pc \in Revocable /\ job[j].at = q)
  <1>0. j \in Jobs
    BY DEF Jobs
  <1>a. /\ old.pc # "idle" /\ old.src = None /\ old.hash \in Hashes
        /\ \A h : h = old.hash /\ old.pc \in Known => Kept(h)
        /\ \A h \in Hashes : row[h] # None => Kept(h)
    BY <1>0, AtWork DEF Names, OwnFile, FlowInv, KnownKept, RowsKept
  <1>b. /\ {"receipt", "rehome", "place", "exists", "fill", "refill", "update"}
             \cap Revocable = {}
        /\ {"place", "fill", "evict", "insert"} \cap Known = {}
        /\ {"evict", "insert"} \subseteq Revocable
        /\ {"exists", "rehome", "refill", "update", "receipt"} \subseteq Known
    BY DEF Revocable, Known
  <1>c. JobDone(j) <=> JobGoto(j, "receipt")
    BY DEF JobDone
  <1>d. file' = file => spared
    OBVIOUS
  <1>1. CASE Lookup(j)
    <2> DEFINE c == IF row[old.hash] = None THEN "place" ELSE "exists"
               q == row[old.hash]
    <2>1. /\ file' = file /\ row' = row /\ lost' = lost /\ scan' = scan /\ acked' = acked
          /\ job' = [job EXCEPT ![j].at = q, ![j].pc = c]
      BY <1>1 DEF Lookup
    <2>2. /\ q \in Paths \cup {None} /\ c \in Stages /\ c \notin Revocable
          /\ c \in Known => Kept(old.hash)
      BY <1>a, <1>b DEF Shape, Contents, Stages
    <2> HIDE DEF q, c
    <2>3. /\ job'[j].pc = c /\ job'[j].hash = old.hash
          /\ \A k \in Jobs : k # j => job'[k] = job[k]
      BY <2>1, <2>2, <1>a, GoesToAt
    <2> QED BY <2>1, <2>2, <2>3, <1>a, TaskMoves
  <1>2. CASE Recheck(j)
    <2>1. /\ file' = file /\ row' = row /\ lost' = lost /\ scan' = scan /\ acked' = acked
          /\ old.pc = "exists" /\ (JobGoto(j, "receipt") \/ JobGoto(j, "rehome"))
      BY <1>2, <1>c DEF Recheck, JobAt
    <2> QED BY <2>1, <1>a, <1>b, TaskGoes
  <1>3. CASE Place(j) \/ Reserve(j)
    <2>1. PICK p \in Paths, h \in Contents, c \in Placing :
            /\ file[p] = None
            /\ file' = [file EXCEPT ![p] = h]
            /\ job' = [job EXCEPT ![j].at = p, ![j].pc = c]
            /\ c \in Known => old.pc \in Known
      <3>1. CASE Place(j)
        <4> DEFINE c == IF old.pc = "place" THEN "evict" ELSE "update"
        <4>1. c \in Placing /\ old.hash \in Contents /\ (c \in Known => old.pc \in Known)
          BY <3>1, <1>a, <1>b DEF Placing, Published, Contents, Place, Homing
        <4>2. PICK p \in Paths : /\ file[p] = None
                                 /\ file' = [file EXCEPT ![p] = old.hash]
                                 /\ job' = [job EXCEPT ![j].at = p, ![j].pc = c]
          BY <3>1 DEF Place, Free
        <4> QED BY <4>1, <4>2
      <3>2. CASE Reserve(j)
        <4> DEFINE c == IF old.pc = "place" THEN "fill" ELSE "refill"
        <4>1. c \in Placing /\ Empty \in Contents /\ (c \in Known => old.pc \in Known)
          BY <3>2, <1>b DEF Placing, Claiming, Contents, Reserve, Homing
        <4>2. PICK p \in Paths : /\ file[p] = None
                                 /\ file' = [file EXCEPT ![p] = Empty]
                                 /\ job' = [job EXCEPT ![j].at = p, ![j].pc = c]
          BY <3>2 DEF Reserve, Free
        <4> QED BY <4>1, <4>2
      <3> QED BY <1>3, <3>1, <3>2
    <2>2. row' = row /\ acked' = acked /\ lost' = lost /\ scan' = scan
      BY <1>3 DEF Place, Reserve
    <2>3. spared
      BY <2>1, LibraryAssumption DEF Shape
    <2>4. /\ job'[j].pc = c /\ job'[j].hash = old.hash /\ job'[j].at = p
          /\ \A k \in Jobs : k # j => job'[k] = job[k]
      <3>0. job' = [job EXCEPT ![j].at = p, ![j].pc = c]
        BY <2>1
      <3>1. old \in [pc: Stages, hash: Contents, src: Paths \cup {None}, at: Paths \cup {None}]
        BY <1>a, <1>0 DEF Shape, JobRec, NoJob
      <3>2. job'[j] = [old EXCEPT !.at = p, !.pc = c]
            /\ \A k \in Jobs : k # j => job'[k] = job[k]
        BY <3>0, <1>0 DEF Shape
      <3> QED BY <3>1, <3>2
    <2>5. file[p] \notin Hashes
      BY <2>1, LibraryAssumption
    <2> QED BY <2>1, <2>2, <2>3, <2>4, <2>5, <1>a, TaskMoves
  <1>4. CASE Fill(j)
    <2>1. old.at \in Paths /\ file[old.at] = Empty
      BY <1>4 DEF Fill, Names, OwnFile, Placing
    <2>2. spared /\ file[old.at] \notin Hashes
      BY <1>4, <2>1, LibraryAssumption DEF Fill, Shape
    <2>3. \/ JobGoto(j, "evict")
          \/ JobGoto(j, "update") /\ old.pc \in Known
      BY <1>4, <1>b DEF Fill, JobAt, Claiming
    <2>4. row' = row /\ acked' = acked /\ lost' = lost /\ scan' = scan
      BY <1>4 DEF Fill
    <2>5. CASE JobGoto(j, "evict")
      BY <2>2, <2>4, <2>5, <1>a, <1>b, TaskGoes
    <2>6. CASE JobGoto(j, "update") /\ old.pc \in Known
      BY <2>2, <2>4, <2>6, <1>a, <1>b, TaskGoes
    <2> QED BY <2>3, <2>5, <2>6
  <1>5. CASE FillFails(j)
    <2>1. old.at \in Paths /\ file[old.at] = Empty
      BY <1>5 DEF FillFails, Names, OwnFile, Placing
    <2>2. spared
      BY <1>5, <2>1, LibraryAssumption DEF FillFails, Shape
    <2> QED BY <1>5, <2>2, TaskEnds DEF FillFails
  <1>6. CASE Adopted(j)
    BY <1>6, <1>a DEF Adopted
  <1>7. CASE Homeless(j) \/ JobFails(j)
    BY <1>7, <1>d, TaskEnds DEF Homeless, JobFails
  <1>8. CASE Relocate(j)
    <2>1. /\ file' = file /\ lost' = lost /\ scan' = scan /\ acked' = acked
          /\ old.pc = "update" /\ JobGoto(j, "receipt")
      BY <1>8, <1>c DEF Relocate, JobAt
    <2>2. \A h \in Hashes : row'[h] # None => row[h] # None
      BY <1>8 DEF Relocate, Shape, Contents
    <2> QED BY <2>1, <2>2, <1>a, <1>b, TaskGoes
  <1>9. CASE Evict(j)
    <2>1. /\ file' = file /\ lost' = lost /\ scan' = scan /\ acked' = acked
          /\ old.pc = "evict" /\ JobGoto(j, "insert")
      BY <1>9 DEF Evict, JobAt
    <2>2. \A h \in Hashes : row'[h] # None => row[h] # None
      BY <1>9 DEF Evict, Shape, Contents
    <2> QED BY <2>1, <2>2, <1>a, <1>b, TaskGoes
  <1>10. CASE Insert(j) /\ row[old.hash] = None
    <2>1. /\ file' = file /\ lost' = lost /\ scan' = scan /\ acked' = acked
          /\ row' = [row EXCEPT ![old.hash] = old.at]
          /\ old.pc = "insert" /\ JobGoto(j, "receipt")
      BY <1>10, <1>c DEF Insert, JobAt
    <2>2. /\ job'[j].pc = "receipt"
          /\ \A k \in Flows : k # j => job'[k] = job[k]
      BY <2>1, <1>a, GoesTo DEF Jobs
    <2>3. \A h : h = old.hash => Safe(h)'
      <3>1. old.at \in Paths /\ file[old.at] = old.hash
        BY <2>1 DEF Names, OwnFile, Placing, Published, Claiming
      <3>2. \A k \in Flows : job'[k].pc \in Revocable => job'[k].at # old.at
        BY <2>1, <2>2 DEF Names, Apart, Placing, Published, Revocable
      <3> QED BY <2>1, <3>1, <3>2 DEF Safe
    <2>4. \A h : h = old.hash => Kept(h)'
      BY <2>3 DEF Kept
    <2>5. \A h \in Hashes : row'[h] # None => row[h] # None \/ Kept(h)'
      BY <2>1, <2>4 DEF Shape, Contents
    <2> QED BY <2>1, <2>4, <2>5, <1>a, <1>b, TaskGoes
  <1>11. CASE (Insert(j) /\ row[old.hash] # None) \/ InsertFails(j)
    <2>1. /\ RollBack(j) /\ row' = row /\ lost' = lost /\ scan' = scan /\ acked' = acked
          /\ old.pc = "insert"
          /\ JobEnd(j) \/ (JobGoto(j, "receipt") /\ row[old.hash] # None)
      BY <1>11, <1>c DEF Insert, InsertFails, JobAt
    <2>2. spared
      BY <2>1, <1>b DEF RollBack, Shape
    <2>3. CASE JobEnd(j)
      BY <2>1, <2>2, <2>3, TaskEnds
    <2>4. CASE JobGoto(j, "receipt") /\ row[old.hash] # None
      BY <2>1, <2>2, <2>4, <1>a, <1>b, TaskGoes
    <2> QED BY <2>1, <2>3, <2>4
  <1>12. CASE Receipt(j)
    <2>1. /\ file' = file /\ row' = row /\ lost' = lost /\ scan' = scan
          /\ acked' = acked \cup {old.hash} /\ JobEnd(j) /\ old.pc = "receipt"
      BY <1>12 DEF Receipt, JobAt
    <2> QED BY <2>1, <1>a, <1>b, TaskEnds
  <1> QED BY <1>1, <1>2, <1>3, <1>4, <1>5, <1>6, <1>7, <1>8, <1>9, <1>10, <1>11, <1>12
          DEF JobStep, Insert

(* The rows that go are no loss, and the watcher has no task.              *)
LEMMA RowsGo ==
    ASSUME FlowInv, file' = file, lost' = lost, acked' = acked, job' = job,
           scan' = scan, \A h \in Hashes : row'[h] \in {row[h], None}
    PROVE  FlowInv'
  <1>1. \A h : Kept(h) => Kept(h)'
    BY DEF Kept, Safe
  <1>2. OnlyFlows'
    BY DEF FlowInv, OnlyFlows
  <1>3. RowsKept' /\ AckedKept'
    BY <1>1 DEF RowsKept, AckedKept, FlowInv
  <1>4. KnownKept'
    BY <1>1 DEF KnownKept, FlowInv, Kept, Safe
  <1> QED BY <1>2, <1>3, <1>4 DEF FlowInv

LEMMA OthersKeep ==
    ASSUME FlowInv, Shape, Undisturbed,
           \/ \E w \in Watchers, p \in Paths : WatchStart(w, p)
           \/ \E w \in Watchers : JobStep(w) \/ InsertFails(w) \/ JobFails(w)
           \/ \E x \in Pruners : PruneBegin(x) \/ PruneStep(x)
           \/ ScanStep \/ Eject \/ Restart \/ UNCHANGED vars
    PROVE  FlowInv'
  <1>1. "watch" \notin Events /\ "adopt" \notin Events
    BY DEF Undisturbed
  <1>2. CASE \E w \in Watchers, p \in Paths : WatchStart(w, p)
    BY <1>1, <1>2 DEF WatchStart
  <1>3. CASE \E w \in Watchers : JobStep(w) \/ InsertFails(w) \/ JobFails(w)
    <2>1. \A w \in Watchers : job[w].pc = "idle"
      BY DEF FlowInv, OnlyFlows, NoJob
    <2> QED BY <1>3, <2>1, AtWork DEF Jobs
  <1>4. CASE \E x \in Pruners : PruneBegin(x) \/ PruneStep(x)
    <2>1. /\ file' = file /\ lost' = lost /\ acked' = acked /\ job' = job
          /\ scan' = scan /\ \A h \in Hashes : row'[h] \in {row[h], None}
      BY <1>1, <1>4 DEF PruneBegin, PruneStep, PruneHere, PruneList, PruneStat,
         PruneDelete, PruneEnd, PruneFrame, diskVars, Shape, Contents
    <2> QED BY <2>1, RowsGo
  <1>5. CASE ScanStep
    <2>1. scan.pc = "idle" /\ scan.todo = {}
      BY DEF FlowInv, OnlyFlows, NoScan
    <2> QED BY <1>5, <2>1 DEF ScanStep, ScanLookup, ScanInsert, ScanEnd
  <1>6. CASE Eject \/ UNCHANGED vars
    BY <1>6, RowsGo DEF Eject, vars, diskVars
  <1>7. CASE Restart
    <2>1. \A j \in Jobs : job'[j] = NoJob
      BY <1>7 DEF Restart
    <2>2. NoJob.pc = "idle"
      BY DEF NoJob
    <2>3. "idle" \notin Revocable /\ "idle" \notin Known
      BY DEF Revocable, Known
    <2>4. /\ scan' = NoScan /\ file' = file /\ row' = row /\ acked' = acked
          /\ lost' = lost
      BY <1>7 DEF Restart
    <2>5. OnlyFlows' /\ KnownKept'
      BY <2>1, <2>2, <2>3, <2>4 DEF OnlyFlows, KnownKept, Jobs
    <2>6. \A h \in Hashes : Kept(h) => Kept(h)'
      BY <2>1, <2>2, <2>3, <2>4, KeptStays DEF Jobs
    <2> QED BY <2>4, <2>5, <2>6 DEF RowsKept, AckedKept, FlowInv
  <1> QED BY <1>2, <1>3, <1>4, <1>5, <1>6, <1>7

(* The user takes copies away, but what he takes is counted as lost, and a *)
(* file that waits for its row he leaves alone.                            *)
LEMMA UserKeeps ==
    ASSUME FlowInv, Names, Shape, Undisturbed,
           \/ \E p \in Paths : Delete(p)
           \/ \E p \in Paths, h \in Hashes : Edit(p, h)
           \/ \E p, q \in Paths : Move(p, q)
    PROVE  FlowInv'
  <1>1. job' = job /\ row' = row /\ acked' = acked /\ scan' = scan
    BY DEF Delete, Edit, Move, UserFrame
  <1>2. \A h \in Hashes : Kept(h) => Kept(h)'
    <2> SUFFICES ASSUME NEW h \in Hashes, Kept(h) PROVE Kept(h)'
      OBVIOUS
    <2>0. lost \subseteq lost'
      BY DEF Delete, Edit, Move, Removed
    <2>1. CASE h \in lost
      BY <2>0, <2>1 DEF Kept
    <2>2. CASE Safe(h)
      <3>1. PICK x \in Paths : file[x] = h
                /\ \A j \in Flows : job[j].pc \in Revocable => job[j].at # x
        BY <2>2 DEF Safe
      <3>2. h # None
        BY LibraryAssumption
      <3>3. CASE file'[x] = h
        BY <3>1, <3>3, <1>1 DEF Kept, Safe
      <3>4. CASE file'[x] # h /\ h \in lost'
        BY <3>4 DEF Kept
      <3>5. CASE file'[x] # h /\ h \notin lost'
        <4>1. PICK q \in Paths : Move(x, q)
          BY <3>1, <3>2, <3>5 DEF Delete, Edit, Move, Removed, Shape
        <4>2. file[q] = None /\ file'[q] = h
          BY <4>1, <3>1 DEF Move, Shape
        <4>3. \A j \in Flows : job[j].pc \in Revocable => job[j].at # q
          BY <4>2, TakenNames DEF Revocable, Placing, Published
        <4> QED BY <4>2, <4>3, <1>1 DEF Kept, Safe
      <3> QED BY <3>3, <3>4, <3>5
    <2> QED BY <2>1, <2>2 DEF Kept
  <1>3. OnlyFlows'
    BY <1>1 DEF FlowInv, OnlyFlows
  <1>4. RowsKept' /\ AckedKept'
    BY <1>1, <1>2 DEF RowsKept, AckedKept, FlowInv
  <1>5. KnownKept'
    <2> SUFFICES ASSUME NEW k \in Flows, job'[k].pc \in Known,
                        NEW h, h = job'[k].hash
                 PROVE  Kept(h)'
      BY DEF KnownKept, Kept, Safe
    <2>1. h \in Hashes /\ Kept(h)
      BY <1>1 DEF Known, FlowInv, Names, OwnFile, KnownKept
    <2> QED BY <2>1, <1>2
  <1> QED BY <1>3, <1>4, <1>5 DEF FlowInv

LEMMA FlowInvInit == Init => FlowInv
  <1> SUFFICES ASSUME Init PROVE FlowInv
    OBVIOUS
  <1>1. /\ \A j \in Jobs : job[j] = NoJob
        /\ \A h \in Hashes : row[h] = None
        /\ acked = {} /\ scan = NoScan
    BY DEF Init, Contents
  <1>2. NoJob.pc = "idle" /\ "idle" \notin Known
    BY DEF NoJob, Known
  <1> QED BY <1>1, <1>2 DEF FlowInv, OnlyFlows, RowsKept, AckedKept, KnownKept, Jobs

LEMMA FlowInvStep ==
    ASSUME Undisturbed, Shape, Names, FlowInv, [Next]_vars
    PROVE  FlowInv'
  <1>1. CASE \E h \in Hashes : FlowKnown(h)
    BY <1>1, FlowBegins
  <1>2. CASE \E j \in Flows, h \in Hashes : FlowStart(j, h)
    BY <1>2, FlowBegins
  <1>3. CASE \E j \in Flows : JobStep(j) \/ InsertFails(j) \/ JobFails(j)
    BY <1>3, FlowWorks
  <1>4. CASE \/ \E w \in Watchers, p \in Paths : WatchStart(w, p)
             \/ \E w \in Watchers : JobStep(w) \/ InsertFails(w) \/ JobFails(w)
             \/ \E x \in Pruners : PruneBegin(x) \/ PruneStep(x)
             \/ ScanStep \/ Eject \/ Restart \/ UNCHANGED vars
    BY <1>4, OthersKeep
  <1>5. CASE \/ \E p \in Paths : Delete(p)
             \/ \E p \in Paths, h \in Hashes : Edit(p, h)
             \/ \E p, q \in Paths : Move(p, q)
    BY <1>5, UserKeeps
  <1> QED BY <1>1, <1>2, <1>3, <1>4, <1>5 DEF Next, Jobs

LEMMA FlowInvAlways == ASSUME Undisturbed PROVE Spec => [](Shape /\ Names /\ FlowInv)
  <1>1. Undisturbed /\ Patient
    BY DEF Undisturbed, Patient
  <1>2. Init => Shape /\ Names /\ FlowInv
    BY ShapeInit, NamesInit, FlowInvInit
  <1>3. (Shape /\ Names /\ FlowInv) /\ [Next]_vars => (Shape /\ Names /\ FlowInv)'
    BY <1>1, ShapeStep, NamesStep, FlowInvStep
  <1> QED BY <1>2, <1>3, PTL DEF Spec

(* ADR-006: a photo whose receipt is written stays a file in originals/    *)
(* until the user takes it away, whatever races, fails, is ejected and     *)
(* restarts: as long as no watcher and no adopter gives a row to a file    *)
(* that a fetch has only just published, and the user leaves such a file   *)
(* alone.  (Where they do, RollbackSparesTheCopy fails, and this with it.) *)
THEOREM AckedStays == Undisturbed => (Spec => []AckedIsKept)
  <1> SUFFICES ASSUME Undisturbed PROVE Spec => []AckedIsKept
    OBVIOUS
  <1>1. FlowInv => AckedIsKept
    BY DEF FlowInv, AckedKept, Kept, Safe, AckedIsKept, Held
  <1> QED BY <1>1, FlowInvAlways, PTL

(* The same for what the index records: the loser of a race of fetches     *)
(* takes its own file back, and never with it the last copy.  The run      *)
(* LibraryRollback shows that the adopter alone is enough to break this.   *)
THEOREM LoserSparesTheCopy == Undisturbed => (Spec => RollbackSparesTheCopy)
  <1> SUFFICES ASSUME Undisturbed PROVE Spec => RollbackSparesTheCopy
    OBVIOUS
  <1>1. ASSUME Shape, Names, FlowInv, [Next]_vars, edits' = edits,
               NEW h \in Hashes, Held(h), row[h] # None
        PROVE  Held(h)' \/ h \in lost
    <2> SUFFICES ASSUME Safe(h) PROVE Held(h)'
      BY <1>1 DEF FlowInv, RowsKept, Kept
    <2>1. PICK x \in Paths : file[x] = h
              /\ \A j \in Flows : job[j].pc \in Revocable => job[j].at # x
      BY DEF Safe
    <2>a. h # None /\ h # Empty
      BY LibraryAssumption
    <2>2. ASSUME NEW j \in Flows, JobStep(j) \/ InsertFails(j) \/ JobFails(j)
          PROVE  file'[x] = file[x]
      <3>2. CASE file' = file
        BY <3>2
      <3>3. CASE Place(j) \/ Reserve(j)
        BY <3>3, <2>1, <2>a, <1>1 DEF Place, Reserve, Free, Shape
      <3>4. CASE Fill(j) \/ FillFails(j)
        <4>1. file[job[j].at] = Empty
          BY <3>4, <1>1 DEF Fill, FillFails, Names, OwnFile, Placing
        <4> QED BY <3>4, <4>1, <2>1, <2>a, <1>1 DEF Fill, FillFails, Shape
      <3>5. CASE RollBack(j) /\ JobAt(j, "insert")
        <4>1. job[j].at # x
          BY <3>5, <2>1 DEF JobAt, Revocable
        <4> QED BY <3>5, <4>1, <1>1 DEF RollBack, Shape
      <3> QED BY <2>2, <3>2, <3>3, <3>4, <3>5 DEF JobStep, Lookup, Recheck, Adopted,
                 Homeless, Relocate, Evict, Insert, Receipt, InsertFails, JobFails
    <2>3. CASE \E w \in Watchers : JobStep(w) \/ InsertFails(w) \/ JobFails(w)
      BY <2>3, <2>1, <1>1, WatcherWorks DEF Held
    <2>4. CASE \/ \E p \in Paths : Delete(p)
               \/ \E p \in Paths, g \in Hashes : Edit(p, g)
               \/ \E p, q \in Paths : Move(p, q)
      BY <2>4, <1>1 DEF Delete, Edit, Move, UserStep, Shape
    <2> QED BY <1>1, <2>1, <2>2, <2>3, <2>4, OthersLeaveFiles DEF Next, Held, Jobs
  <1>2. Shape /\ Names /\ FlowInv /\ [Next]_vars
          => [edits' = edits =>
                \A h \in Hashes : Held(h) /\ row[h] # None => Held(h)' \/ h \in lost]_vars
    BY <1>1
  <1> QED BY <1>2, FlowInvAlways, PTL DEF Spec, RollbackSparesTheCopy
=============================================================================
