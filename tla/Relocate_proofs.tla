---------------------------- MODULE Relocate_proofs ----------------------------
(***************************************************************************)
(* What Relocate's run shows on three entries, one step of the user and    *)
(* two crashes, for any number of them.                                    *)
(***************************************************************************)
EXTENDS Relocate, TLAPS

(* The shape of the state.                                                 *)
Things == {None, "old", "new", "own"}
Dir    == [Names -> Things]

Stages == {"down", "serve", "missing", "abandon", "relist", "reclaim", "look", "names",
           "rename", "unread", "copy", "promote", "place", "reconcile", "last",
           "undo", "unplace", "point", "mark", "remove"}

JobRec  == [pc: Stages, todo: SUBSET Names, done: SUBSET Names, snap: Dir,
            renamed: BOOLEAN]
PlanRec == [on: BOOLEAN, flipped: BOOLEAN, promoting: BOOLEAN]

Shape ==
    /\ from \in Dir /\ to \in Dir /\ staging \in Dir
    /\ want \in [Names -> {None, "old", "new"}]
    /\ late \subseteq Names
    /\ plan \in PlanRec /\ job \in JobRec
    /\ location \in {"from", "to"} /\ oneVolume \in BOOLEAN
    /\ holes \subseteq {"split", "pointed", "leftover"}

-----------------------------------------------------------------------------
(* Where the daemon stands, and what that says of the plan and the place.  *)
Resting == {"down", "serve", "missing"}
Early   == {"relist", "reclaim", "look", "names"}
Copying == {"unread", "copy", "promote", "place", "last"}

(* The library has not been pointed elsewhere.                             *)
Back == location = "from"

Control ==
    /\ ~plan.on => plan = NoPlan /\ job.pc \in Resting
    /\ ~Back => job.pc \in Resting \cup {"mark", "remove", "undo", "abandon"}
    /\ ~Back /\ job.pc \in {"undo", "abandon"} => "pointed" \in holes
    /\ "pointed" \in holes \/ plan.flipped \/ job.pc \in {"mark", "remove"} => ~Back
    /\ job.pc \in Early \cup {"rename"} => job.renamed
    /\ job.pc \in Copying \cup {"unplace"} => ~job.renamed
    /\ ~job.renamed /\ job.pc \in {"place", "reconcile", "last", "undo", "unplace", "point", "mark"}
         => plan.promoting
    /\ job.pc \in Early \cup {"unread", "copy", "promote"} => job.done = {}

(* What the old folder holds of the library is as the user wants it, and   *)
(* a thing of his comes there only by an undo.                             *)
FromIsWanted ==
    Back => \A n \in Names : /\ from[n] \in Ours => from[n] = want[n]
                             /\ n \notin late => from[n] # "own"

Somewhere ==
    "pointed" \notin holes => \A n \in Names : Holds(from, n) \/ Holds(to, n)

(* The old folder is not needed any more.                                  *)
Settled == ~Back \/ At("point") \/ (At("reconcile") /\ job.renamed)

WholeThere == "pointed" \notin holes /\ Settled => \A n \in Names : Holds(to, n)

(* The entries that stand in the new folder and that an undo would take    *)
(* back.                                                                   *)
Brought ==
    IF job.pc \in {"undo", "unplace"} THEN job.todo
    ELSE IF job.pc \in {"rename", "place", "reconcile", "last", "point", "mark"}
      THEN job.done ELSE {}

NotTheirs == \A n \in Brought : n \notin late => to[n] # "own"

RenamedOnes ==
    Back /\ job.renamed =>
        \A n \in Brought : /\ to[n] \in Ours => to[n] = want[n] /\ from[n] = None
                           /\ from[n] # "own"

NamesFree == At("rename") => \A n \in job.todo : n \notin late => to[n] = None

(* From the snapshot on, a copy is compared with it.                       *)
Compared == job.pc \in Copying \cup {"names"} \/ (At("reconcile") /\ ~job.renamed)

(* What may be deleted in the new folder, since the old one has it.        *)
Listed ==
    IF Compared THEN Present(job.snap)
    ELSE IF ~job.renamed /\ job.pc \in {"undo", "unplace", "point"} THEN Brought
    ELSE IF At("reclaim") THEN job.todo ELSE {}

ListedStay == Back => \A n \in Listed : Holds(from, n)

(* An entry does not come back to what the snapshot says of it.            *)
Snapped ==
    Compared => \A n \in Names : n \notin late =>
        job.snap[n] # "own" /\ (job.snap[n] = "new" => from[n] = "new")

CopyFree ==
    /\ job.pc \in {"unread", "copy"} =>
         \A n \in Names : n \notin late /\ from[n] = job.snap[n] /\ from[n] # None
           => to[n] = None
    /\ At("promote") =>
         /\ staging = job.snap
         /\ \A n \in Present(job.snap) : n \notin late => to[n] = None
    /\ At("place") =>
         \A n \in job.todo : staging[n] = job.snap[n] /\ (n \notin late => to[n] = None)

CopyDone ==
    /\ At("place") => Present(job.snap) = job.todo \cup job.done
    /\ At("last") \/ (At("reconcile") /\ ~job.renamed) => Present(job.snap) = job.done
    /\ job.pc \in {"place", "last"} \/ (At("reconcile") /\ ~job.renamed) =>
         \A n \in job.done : n \notin late =>
           to[n] = job.snap[n] \/ from[n] # job.snap[n]

(* For a library that the user has not moved or copied himself.            *)
WholeHere ==
    byHand = "no" /\ Back /\ "split" \notin holes =>
        \A n \in Names : Holds(from, n) \/ (job.renamed /\ n \in Brought)

CleanThere ==
    byHand = "no" /\ Back /\ holes = {} /\ (plan.promoting => job.pc \notin {"down", "relist", "reclaim"})
        => \A n \in Names : to[n] \in Ours => n \in Brought

CleanStaging ==
    byHand = "no" /\ Back /\ holes = {}
      /\ (~plan.on \/ job.pc \in {"abandon", "rename", "reconcile", "last", "point", "undo"})
        => staging = Empty

MoveInv ==
    /\ Control /\ FromIsWanted /\ Somewhere /\ WholeThere
    /\ NotTheirs /\ RenamedOnes /\ NamesFree
    /\ ListedStay /\ Snapped /\ CopyFree /\ CopyDone
    /\ WholeHere /\ CleanThere /\ CleanStaging

-----------------------------------------------------------------------------
(* Folders and the daemon's record.                                        *)

LEMMA DirEdit ==
    ASSUME NEW d \in Dir, NEW n \in Names, NEW v \in Things
    PROVE  /\ [d EXCEPT ![n] = v] \in Dir
           /\ [d EXCEPT ![n] = v][n] = v
           /\ \A m \in Names : m # n => [d EXCEPT ![n] = v][m] = d[m]
  BY DEF Dir

LEMMA EmptyDir == Empty \in Dir /\ \A n \in Names : Empty[n] = None
  BY DEF Empty, Dir, Things

LEMMA DirFacts ==
    /\ Empty \in Dir
    /\ \A n \in Names : Empty[n] = None
    /\ None \in Things /\ Ours \subseteq Things /\ "own" \in Things
    /\ None \notin Ours /\ "own" \notin Ours /\ None # "own"
    /\ Things = Ours \cup {None, "own"}
    /\ \A d \in Dir, n \in Names : d[n] \in Things
    /\ \A d \in Dir : \A n : n \in Present(d) <=> n \in Names /\ d[n] # None
  BY EmptyDir, RelocateAssumption DEF Dir, Things, Ours, Present

LEMMA GotoFacts ==
    ASSUME Shape, NEW c \in Stages, Goto(c)
    PROVE  /\ job' \in JobRec
           /\ job'.pc = c /\ job'.todo = job.todo /\ job'.done = job.done
           /\ job'.snap = job.snap /\ job'.renamed = job.renamed
  BY DEF Shape, JobRec, Goto

LEMMA UndoFacts ==
    ASSUME Shape, NEW c \in {"undo", "unplace"},
           job' = [job EXCEPT !.pc = c, !.todo = job.done]
    PROVE  /\ job' \in JobRec
           /\ job'.pc = c /\ job'.todo = job.done /\ job'.done = job.done
           /\ job'.snap = job.snap /\ job'.renamed = job.renamed
  BY DEF Shape, JobRec, Stages

(* What is left of a staging folder is noted.                              *)
LEMMA CleanupFacts ==
    ASSUME Shape, Cleanup
    PROVE  /\ staging' \in Dir
           /\ holes' \in {holes, holes \cup {"leftover"}}
           /\ holes' # {} \/ staging' = Empty
  <1>1. PICK left \in SUBSET Present(staging) :
          /\ staging' = Only(staging, left)
          /\ holes' = IF left = {} THEN holes ELSE holes \cup {"leftover"}
    BY DEF Cleanup
  <1>2. Only(staging, left) \in Dir
    BY DirFacts DEF Only, Dir, Shape
  <1>3. left = {} => Only(staging, left) = Empty
    BY DEF Only, Empty
  <1> QED BY <1>1, <1>2, <1>3

LEMMA JobFacts ==
    ASSUME Shape
    PROVE  /\ job.pc \in Stages /\ job.todo \subseteq Names /\ job.done \subseteq Names
           /\ job.snap \in Dir /\ job.renamed \in BOOLEAN
  BY DEF Shape, JobRec

LEMMA TakeFacts ==
    ASSUME Shape, NEW n \in Names
    PROVE  /\ job' = [job EXCEPT !.todo = @ \ {n}] =>
                /\ job' \in JobRec
                /\ job'.pc = job.pc /\ job'.todo = job.todo \ {n} /\ job'.done = job.done
                /\ job'.snap = job.snap /\ job'.renamed = job.renamed
           /\ job' = [job EXCEPT !.todo = @ \ {n}, !.done = @ \cup {n}] =>
                /\ job' \in JobRec
                /\ job'.pc = job.pc /\ job'.todo = job.todo \ {n}
                /\ job'.done = job.done \cup {n}
                /\ job'.snap = job.snap /\ job'.renamed = job.renamed
  <1> DEFINE T == job.todo \ {n}
             D == job.done \cup {n}
  <1>1. job \in JobRec /\ T \in SUBSET Names /\ D \in SUBSET Names
    BY JobFacts DEF Shape
  <1>2. /\ [job EXCEPT !.todo = @ \ {n}] = [job EXCEPT !.todo = T]
        /\ [job EXCEPT !.todo = @ \ {n}, !.done = @ \cup {n}] = [job EXCEPT !.todo = T, !.done = D]
    BY <1>1 DEF JobRec
  <1> HIDE DEF T, D
  <1>3. [job EXCEPT !.todo = T] \in JobRec /\ [job EXCEPT !.todo = T, !.done = D] \in JobRec
    BY <1>1 DEF JobRec
  <1>4. /\ [job EXCEPT !.todo = T].pc = job.pc /\ [job EXCEPT !.todo = T].todo = T
        /\ [job EXCEPT !.todo = T].done = job.done /\ [job EXCEPT !.todo = T].snap = job.snap
        /\ [job EXCEPT !.todo = T].renamed = job.renamed
    BY <1>1 DEF JobRec
  <1>5. /\ [job EXCEPT !.todo = T, !.done = D].pc = job.pc
        /\ [job EXCEPT !.todo = T, !.done = D].todo = T
        /\ [job EXCEPT !.todo = T, !.done = D].done = D
        /\ [job EXCEPT !.todo = T, !.done = D].snap = job.snap
        /\ [job EXCEPT !.todo = T, !.done = D].renamed = job.renamed
    BY <1>1 DEF JobRec
  <1> QED BY <1>2, <1>3, <1>4, <1>5 DEF T, D

LEMMA IdleFacts ==
    /\ Idle \in JobRec /\ Idle.pc = "down" /\ Idle.todo = {} /\ Idle.done = {}
    /\ Idle.renamed /\ NoPlan \in PlanRec /\ ~NoPlan.on /\ ~NoPlan.promoting
    /\ ~NoPlan.flipped
  BY DirFacts DEF Idle, JobRec, Stages, NoPlan, PlanRec

-----------------------------------------------------------------------------
(* A turn: the daemon goes elsewhere, and what the folders hold is what it *)
(* was.  Nothing is claimed of more entries than before.                   *)
LEMMA TurnTo ==
    ASSUME Shape, MoveInv, Control',
           UNCHANGED <<from, to, want, late, byHand, oneVolume, location>>,
           "pointed" \in holes' <=> "pointed" \in holes,
           Brought' \subseteq Brought,
           Brought' = {} \/ job'.renamed = job.renamed,
           Listed' \subseteq Listed \cup Present(from),
           WholeThere', NamesFree', Snapped', CopyFree', CopyDone',
           WholeHere', CleanThere', CleanStaging'
    PROVE  MoveInv'
  <1>1. FromIsWanted' /\ Somewhere'
    BY DEF MoveInv, FromIsWanted, Somewhere, Holds, Back
  <1>2. NotTheirs' /\ RenamedOnes'
    BY DEF MoveInv, NotTheirs, RenamedOnes, Back
  <1>3. Back => \A n \in Names : n \in Present(from) => Holds(from, n)
    BY DirFacts DEF MoveInv, FromIsWanted, Holds, Shape
  <1>4. ListedStay'
    BY <1>3 DEF MoveInv, ListedStay, Holds, Back, Present
  <1> QED BY <1>1, <1>2, <1>4 DEF MoveInv

LEMMA Turn ==
    ASSUME Shape, MoveInv, Control',
           UNCHANGED <<from, to, want, late, byHand, oneVolume, location>>,
           "pointed" \in holes' <=> "pointed" \in holes,
           job'.pc \notin Copying \cup {"names", "rename", "point", "reconcile"},
           Brought' \subseteq Brought,
           Brought' = {} \/ job'.renamed = job.renamed,
           Listed' \subseteq Listed \cup Present(from),
           WholeHere', CleanThere', CleanStaging'
    PROVE  MoveInv'
  <1>1. WholeThere' /\ NamesFree'
    BY DEF MoveInv, WholeThere, Settled, Holds, Back, NamesFree, At
  <1>2. Snapped' /\ CopyFree' /\ CopyDone'
    BY DEF Snapped, CopyFree, CopyDone, Compared, Copying, At
  <1> QED BY <1>1, <1>2, TurnTo

(* The move is given up: what it has brought over is taken back, or noted. *)
LEMMA GivesUp ==
    ASSUME Shape, MoveInv, Goto("abandon"), plan.on, At("reclaim") => FALSE,
           UNCHANGED <<from, to, want, late, byHand, oneVolume, location, plan>>, staging' \in Dir,
           holes' \in {holes, holes \cup {"split"}, holes \cup {"leftover"}},
           Back \/ "pointed" \in holes,
           "split" \in holes' \/ Brought = {} \/ ~job.renamed,
           byHand = "no" /\ Back =>
               holes' # {} \/ (Brought = {} /\ staging' = Empty /\ job.pc \notin {"down", "relist"})
    PROVE  Shape' /\ MoveInv'
  <1> USE DEF At
  <1>1. job'.pc = "abandon" /\ job' \in JobRec /\ job'.renamed = job.renamed
    BY GotoFacts DEF Stages
  <1>2. Shape'
    BY <1>1 DEF Shape
  <1>3. Brought' = {} /\ Listed' = {}
    BY <1>1 DEF Brought, Listed, Compared, Copying
  <1>4. Control'
    BY <1>1 DEF MoveInv, Control, Resting, Early, Copying, Back
  <1>5. WholeHere'
    BY DEF MoveInv, WholeHere, Holds, Back
  <1>6. CleanThere'
    BY DEF MoveInv, CleanThere, Back
  <1>7. CleanStaging'
    BY <1>1 DEF MoveInv, CleanStaging, Back
  <1>8. MoveInv'
    BY <1>1, <1>3, <1>4, <1>5, <1>6, <1>7, Turn DEF Copying
  <1> QED BY <1>2, <1>8

LEMMA GiveUps ==
    ASSUME Shape, MoveInv,
           \/ LookFails \/ (ListNames /\ first_conflict) \/ SubsetFails \/ Unreadable
           \/ (Verify /\ ~(staging = job.snap /\ from = job.snap))
           \/ CopyFails \/ ScanFails \/ Undone \/ RelistFails
    PROVE  Shape' /\ MoveInv'
  <1> USE DEF Still, givens, userVars, dirVars
  <1>0. /\ ~plan.on => job.pc \in Resting
        /\ location = "to" /\ At("undo") => "pointed" \in holes
        /\ location \in {"from", "to"}
        /\ location = "to" => job.pc \in Resting \cup {"mark", "remove", "undo", "abandon"}
        /\ job.pc \in Copying \cup {"unplace"} => ~job.renamed
        /\ job.pc \in {"relist", "look", "names", "unread", "copy", "promote"} => Brought = {}
        /\ Undoing => Brought = job.todo
    BY DEF MoveInv, Control, Back, Shape, Brought, At, Early, Undoing
  <1>1. staging \in Dir /\ Empty \in Dir
    BY DirFacts DEF Shape
  <1>2. CASE LookFails
    BY <1>0, <1>1, <1>2, GivesUp DEF LookFails, GiveUpEarly, PassStaging, Resting, Back, At
  <1>3. CASE ListNames /\ first_conflict
    BY <1>0, <1>1, <1>3, GivesUp DEF ListNames, GiveUpEarly, PassStaging, Resting, Back, At
  <1>4. CASE SubsetFails
    BY <1>0, <1>1, <1>4, GivesUp DEF SubsetFails, Resting, Back, At
  <1>5. CASE Unreadable
    BY <1>0, <1>1, <1>5, GivesUp DEF Unreadable, GiveUpEarly, PassStaging, Resting, Back, At, Copying
  <1>6. CASE Verify /\ ~(staging = job.snap /\ from = job.snap)
    BY <1>0, <1>1, <1>6, CleanupFacts, GivesUp DEF Verify, Resting, Back, At, Copying
  <1>7. CASE CopyFails
    BY <1>0, <1>1, <1>7, CleanupFacts, GivesUp DEF CopyFails, Resting, Back, At, Copying
  <1>8. CASE ScanFails
    BY <1>0, <1>1, <1>8, GivesUp DEF ScanFails, Resting, Back, At, Copying
  <1>9. CASE Undone
    <2>1. At("undo") /\ Back /\ byHand = "no" /\ holes = {} => staging = Empty
      BY DEF MoveInv, CleanStaging, At
    <2>2. Brought = {} /\ (At("undo") \/ At("unplace"))
      BY <1>9, <1>0 DEF Undone, Undoing, At
    <2>3. /\ Goto("abandon") /\ plan.on /\ job.pc \notin {"reclaim", "down", "relist"}
          /\ Back \/ "pointed" \in holes
      BY <1>9, <1>0 DEF Undone, Undoing, At, Back, Resting
    <2>4. /\ UNCHANGED <<from, to, want, late, byHand, oneVolume, location, plan>>
          /\ holes' \in {holes, holes \cup {"leftover"}} /\ staging' \in Dir
          /\ At("unplace") => holes' # {} \/ staging' = Empty
          /\ ~At("unplace") => staging' = staging /\ holes' = holes
      BY <1>1, <1>9, CleanupFacts DEF Undone
    <2>5. byHand = "no" /\ Back => holes' # {} \/ staging' = Empty
      BY <2>1, <2>2, <2>4 DEF At
    <2> QED BY <2>2, <2>3, <2>4, <2>5, GivesUp DEF At
  <1>10. CASE RelistFails
    BY <1>0, <1>1, <1>10, GivesUp DEF RelistFails, Resting, Back, At
  <1> QED BY <1>2, <1>3, <1>4, <1>5, <1>6, <1>7, <1>8, <1>9, <1>10

(* The move is taken back: what was brought over is to be undone.          *)
LEMMA Undoes ==
    ASSUME Shape, MoveInv, Back,
           UNCHANGED <<dirVars, want, late, byHand, oneVolume, location, plan, holes>>,
           \/ /\ job' = [job EXCEPT !.pc = "undo", !.todo = job.done]
              /\ job.pc \in {"rename", "reconcile", "last", "point"}
           \/ /\ job' = [job EXCEPT !.pc = "unplace", !.todo = job.done]
              /\ job.pc = "place"
    PROVE  Shape' /\ MoveInv'
  <1> USE DEF At, dirVars
  <1> DEFINE c == IF job.pc = "place" THEN "unplace" ELSE "undo"
  <1>0. /\ job.pc = "place" => c = "unplace"
        /\ job.pc # "place" => c = "undo" /\ job.pc \in {"rename", "reconcile", "last", "point"}
        /\ c \in {"undo", "unplace"} /\ job' = [job EXCEPT !.pc = c, !.todo = job.done]
    OBVIOUS
  <1> HIDE DEF c
  <1>1. /\ job' \in JobRec /\ job'.pc = c /\ job'.todo = job.done
        /\ job'.renamed = job.renamed
    BY <1>0, UndoFacts
  <1>2. Shape'
    BY <1>0, <1>1 DEF Shape
  <1>3. Brought' = Brought
    BY <1>0, <1>1 DEF Brought
  <1>4. Control'
    BY <1>0, <1>1 DEF MoveInv, Control, Resting, Early, Copying, Back
  <1>5. Listed' \subseteq Listed
    <2>1. ~job.renamed => Brought \subseteq Listed
      <3>1. ~job.renamed => job.pc \in {"place", "reconcile", "last", "point"}
        BY DEF MoveInv, Control, Early
      <3>2. ~job.renamed /\ job.pc # "point" => job.done \subseteq Present(job.snap)
        BY <3>1 DEF MoveInv, CopyDone
      <3> QED BY <3>1, <3>2 DEF Brought, Listed, Compared, Copying
    <2>2. Listed' = IF job.renamed THEN {} ELSE Brought
      BY <1>0, <1>1, <1>3 DEF Listed, Compared, Copying
    <2> QED BY <2>1, <2>2
  <1>6. WholeHere'
    BY <1>0, <1>1, <1>3 DEF MoveInv, WholeHere, Holds, Back
  <1>7. CleanThere'
    BY <1>0, <1>3 DEF MoveInv, CleanThere, Back
  <1>8. CleanStaging'
    BY <1>0, <1>1 DEF MoveInv, CleanStaging, Control, Resting, Back, Copying
  <1>9. MoveInv'
    BY <1>0, <1>1, <1>3, <1>4, <1>5, <1>6, <1>7, <1>8, Turn DEF Copying
  <1> QED BY <1>2, <1>9

LEMMA TakesBack ==
    ASSUME Shape, MoveInv,
           \/ RenameFails
           \/ (RenameChecked /\ (Present(from) # {} \/ Only(to, job.done) # job.snap))
           \/ PlaceFails
           \/ (Reconcile /\ \E n \in Indexed : job.snap[n] # None /\ to[n] = None)
           \/ IndexFails \/ (LastCheck /\ from # job.snap)
           \/ (PointFails /\ location' = location)
    PROVE  Shape' /\ MoveInv'
  <1>1. job.pc \in {"rename", "place", "reconcile", "last", "point"}
    BY DEF RenameFails, RenameChecked, PlaceFails, Reconcile, IndexFails, LastCheck,
           PointFails, At
  <1>2. Back
    BY <1>1 DEF MoveInv, Control, Resting
  <1>3. PointFails /\ location' = location => holes' = holes
    BY <1>2 DEF PointFails, Back
  <1>4. /\ UNCHANGED <<dirVars, want, late, byHand, oneVolume, location, plan, holes>>
        /\ \/ /\ job' = [job EXCEPT !.pc = "undo", !.todo = job.done]
              /\ job.pc \in {"rename", "reconcile", "last", "point"}
           \/ /\ job' = [job EXCEPT !.pc = "unplace", !.todo = job.done]
              /\ job.pc = "place"
    BY <1>3 DEF RenameFails, RenameChecked, PlaceFails, Reconcile, IndexFails, LastCheck,
           PointFails, Still, givens, userVars, Undo, At
  <1> QED BY <1>2, <1>4, Undoes

(* After the place of the library was written an error is not made good:   *)
(* nothing is claimed but that the user's things are his.                  *)
LEMMA Pointed ==
    ASSUME Shape, MoveInv, Undo(job.done), location' = "to", holes' = holes \cup {"pointed"},
           UNCHANGED <<dirVars, want, late, byHand, oneVolume, plan>>, plan.on,
           job.pc \in {"point", "mark"}, At("mark") => ~Back
    PROVE  Shape' /\ MoveInv'
  <1> USE DEF At, dirVars
  <1>1. /\ job' \in JobRec /\ job'.pc = "undo" /\ job'.todo = job.done
        /\ job'.renamed = job.renamed
    BY UndoFacts DEF Undo
  <1>2. Shape'
    BY <1>1 DEF Shape
  <1>3. Brought' = Brought
    BY <1>1 DEF Brought
  <1>4. Control'
    BY <1>1 DEF MoveInv, Control, Resting, Early, Copying, Back
  <1>5. NotTheirs'
    BY <1>3 DEF MoveInv, NotTheirs
  <1>6. /\ FromIsWanted' /\ Somewhere' /\ WholeThere' /\ RenamedOnes' /\ ListedStay'
        /\ WholeHere' /\ CleanThere' /\ CleanStaging'
    BY DEF FromIsWanted, Somewhere, WholeThere, RenamedOnes, ListedStay, WholeHere,
           CleanThere, CleanStaging, Back
  <1>7. NamesFree' /\ Snapped' /\ CopyFree' /\ CopyDone'
    BY <1>1 DEF NamesFree, Snapped, CopyFree, CopyDone, Compared, Copying
  <1> QED BY <1>2, <1>4, <1>5, <1>6, <1>7 DEF MoveInv

LEMMA PointsFail ==
    ASSUME Shape, MoveInv, (PointFails /\ location' # location) \/ MarkFails
    PROVE  Shape' /\ MoveInv'
  <1>1. job.pc \in {"point", "mark"} /\ plan.on
    BY DEF PointFails, MarkFails, At, MoveInv, Control, Resting
  <1>2. At("mark") => ~Back
    BY DEF MoveInv, Control, At
  <1>3. /\ Undo(job.done) /\ location' = "to" /\ holes' = holes \cup {"pointed"}
        /\ UNCHANGED <<dirVars, want, late, byHand, oneVolume, plan>>
    BY <1>2 DEF PointFails, MarkFails, Still, givens, userVars, Back, Shape
  <1> QED BY <1>1, <1>2, <1>3, Pointed

-----------------------------------------------------------------------------
(* Starts, ends and crashes.                                               *)

LEMMA Planned == Shape /\ MoveInv /\ PlanMove => Shape' /\ MoveInv'
  <1> SUFFICES ASSUME Shape, MoveInv, PlanMove PROVE Shape' /\ MoveInv'
    OBVIOUS
  <1> USE DEF At, Still, givens, userVars, dirVars
  <1>1. /\ plan' \in PlanRec /\ plan'.on /\ ~plan'.flipped /\ ~plan'.promoting
        /\ job' = job /\ job.pc \in {"serve", "missing"} /\ Back
    BY DEF PlanMove, NoPlan, PlanRec, Back
  <1>2. Shape'
    BY <1>1 DEF PlanMove, Shape
  <1>3. Control'
    BY <1>1 DEF PlanMove, MoveInv, Control, Resting, Early, Copying, Back
  <1>4. Brought' = {} /\ Listed' = {}
    BY <1>1 DEF Brought, Listed, Compared, Copying
  <1>5. WholeHere' /\ CleanThere' /\ CleanStaging'
    <2>1. Brought = {}
      BY <1>1 DEF Brought
    <2> QED BY <1>1, <1>4, <2>1 DEF PlanMove, MoveInv, WholeHere, CleanThere, CleanStaging, Holds, Back
  <1>6. MoveInv'
    BY <1>1, <1>3, <1>4, <1>5, Turn DEF PlanMove, Copying
  <1> QED BY <1>2, <1>6

(* The daemon goes down: it has nothing half done, or the crash is noted.  *)
LEMMA GoesDown ==
    ASSUME Shape, MoveInv, job'.pc = "down", job' \in JobRec,
           UNCHANGED <<dirVars, want, late, byHand, oneVolume, location>>,
           holes' \in {holes, holes \cup {"split"}}, plan' \in {plan, NoPlan},
           plan' # plan => At("abandon") \/ At("remove"),
           ~(At("abandon") /\ plan' = plan) \/ plan.on,
           Back /\ job.renamed /\ Brought # {} =>
               "split" \in holes' \/ \A n \in Brought : want[n] = None \/ to[n] = None,
           At("mark") \/ At("remove") => ~Back
    PROVE  Shape' /\ MoveInv'
  <1> USE DEF At, dirVars
  <1>1. Shape'
    BY IdleFacts DEF Shape
  <1>2. Brought' = {} /\ Listed' = {}
    BY DEF Brought, Listed, Compared, Copying
  <1>3. Control'
    BY IdleFacts DEF MoveInv, Control, Resting, Early, Copying, Back
  <1>4. Back /\ job.renamed /\ "split" \notin holes' =>
           \A n \in Brought : Holds(from, n) /\ to[n] \notin Ours
    <2> SUFFICES ASSUME Back, job.renamed, "split" \notin holes', NEW n \in Brought
                 PROVE  Holds(from, n) /\ to[n] \notin Ours
      OBVIOUS
    <2>1. n \in Names
      BY JobFacts DEF Brought
    <2>2. Holds(from, n) \/ Holds(to, n)
      BY <2>1 DEF MoveInv, Somewhere, Control
    <2>3. to[n] \in Ours => to[n] = want[n]
      BY DEF MoveInv, RenamedOnes
    <2> QED BY <2>1, <2>2, <2>3, DirFacts DEF Holds
  <1>5. WholeHere'
    BY <1>2, <1>4 DEF MoveInv, WholeHere, Holds, Back
  <1>6. CleanThere'
    <2>1. ~job.renamed /\ Brought # {} => plan.promoting
      BY DEF MoveInv, Control, Brought
    <2>2. At("abandon") => Brought = {}
      BY DEF Brought
    <2> SUFFICES ASSUME byHand = "no", Back, holes' = {}, ~plan'.promoting, NEW n \in Names
                 PROVE  to[n] \notin Ours
      BY DEF CleanThere, Back
    <2>3. ~plan.promoting \/ At("abandon")
      OBVIOUS
    <2>4. to[n] \in Ours => n \in Brought
      BY <2>3 DEF MoveInv, CleanThere
    <2> QED BY <1>4, <2>1, <2>2, <2>3, <2>4
  <1>7. CleanStaging'
    BY IdleFacts DEF MoveInv, CleanStaging, Back
  <1>8. MoveInv'
    BY <1>2, <1>3, <1>5, <1>6, <1>7, Turn DEF Copying
  <1> QED BY <1>1, <1>8

LEMMA Downs ==
    ASSUME Shape, MoveInv, Exit \/ Abandon \/ Crash \/ Finish
    PROVE  Shape' /\ MoveInv'
  <1> USE DEF At, Still, givens, userVars, dirVars
  <1>0. At("mark") \/ At("remove") => ~Back
    BY DEF MoveInv, Control
  <1>1. CASE Exit
    <2>1. Brought = {}
      BY <1>1 DEF Exit, Brought
    <2> QED BY <1>0, <1>1, <2>1, GotoFacts, GoesDown DEF Exit, Stages
  <1>2. CASE Abandon
    <2>1. Brought = {} /\ plan.on
      BY <1>2 DEF Abandon, Brought, MoveInv, Control, Resting
    <2> QED BY <1>0, <1>2, <2>1, GotoFacts, GoesDown DEF Abandon, Stages
  <1>3. CASE Finish
    <2>1. Brought = {} /\ plan.on
      BY <1>3 DEF Finish, Brought, MoveInv, Control, Resting
    <2> QED BY <1>0, <1>3, <2>1, GotoFacts, GoesDown DEF Finish, Stages
  <1>4. CASE Crash
    <2>1. job' \in JobRec /\ job'.pc = "down"
      BY <1>4, IdleFacts DEF Crash
    <2>2. holes' \in {holes, holes \cup {"split"}}
      BY <1>4 DEF Crash
    <2>3. Back /\ job.renamed /\ Brought # {} =>
               "split" \in holes' \/ \A n \in Brought : want[n] = None \/ to[n] = None
      <3> SUFFICES ASSUME Back, job.renamed, Brought # {}
                   PROVE  "split" \in holes' \/ \A n \in Brought : want[n] = None \/ to[n] = None
        OBVIOUS
      <3>1. job.pc \in {"rename", "undo", "reconcile", "point"}
        BY <1>0 DEF Brought, MoveInv, Control, Copying
      <3>2. Brought \subseteq Names
        BY JobFacts DEF Brought
      <3>3. "split" \in holes' \/ Present(to) \cap Present(want) = {}
        BY <1>4, <3>1 DEF Crash
      <3> QED BY <3>2, <3>3 DEF Present
    <2>4. plan' = plan /\ UNCHANGED <<dirVars, want, late, byHand, oneVolume, location>>
      BY <1>4 DEF Crash
    <2>5. At("abandon") => plan.on
      BY DEF MoveInv, Control, Resting
    <2> QED BY <1>0, <2>1, <2>2, <2>3, <2>4, <2>5, GoesDown
  <1> QED BY <1>1, <1>2, <1>3, <1>4

LEMMA Starts == Shape /\ MoveInv /\ Start => Shape' /\ MoveInv'
  <1> SUFFICES ASSUME Shape, MoveInv, Start PROVE Shape' /\ MoveInv'
    OBVIOUS
  <1> USE DEF At, Still, givens, userVars, dirVars
  <1> DEFINE c == IF ~plan.on
                    THEN IF HasId(IF location = "to" THEN to ELSE from)
                           THEN "serve" ELSE "missing"
                  ELSE IF already_repointed THEN "remove"
                  ELSE IF plan.promoting THEN "relist" ELSE "look"
  <1>1. c \in {"serve", "missing", "remove", "relist", "look"}
    OBVIOUS
  <1>2. /\ job' \in JobRec /\ job'.pc = c /\ job'.todo = {} /\ job'.done = {}
        /\ job'.renamed
    <2>1. job' = [Idle EXCEPT !.pc = c]
      BY DEF Start
    <2> HIDE DEF c
    <2> QED BY <1>1, <2>1, IdleFacts DEF JobRec, Stages
  <1>3. Shape'
    BY <1>2 DEF Start, Shape
  <1>4. /\ c = "remove" => location = "to" /\ plan.on
        /\ c \in {"relist", "look"} => location = "from" /\ plan.on
        /\ c \in {"serve", "missing"} => ~plan.on
        /\ plan.promoting => c \in {"remove", "relist"}
    BY IdleFacts DEF already_repointed, Shape, MoveInv, Control, Back
  <1> HIDE DEF c
  <1>5. job.pc = "down" /\ Brought = {}
    BY DEF Start, Brought
  <1>6. /\ UNCHANGED <<dirVars, want, late, byHand, oneVolume, location, plan, holes>>
    BY DEF Start
  <1>7. Control'
    BY <1>1, <1>2, <1>4, <1>5, <1>6 DEF MoveInv, Control, Resting, Early, Copying, Back
  <1>8. Brought' = {} /\ Listed' \subseteq Present(from)
    BY <1>1, <1>2 DEF Brought, Listed, Compared, Copying
  <1>9. WholeHere' /\ CleanThere' /\ CleanStaging'
    <2>1. WholeHere'
      BY <1>5, <1>6, <1>8 DEF MoveInv, WholeHere, Holds, Back
    <2>2. CleanThere'
      BY <1>2, <1>4, <1>5, <1>6, <1>8 DEF MoveInv, CleanThere, Back
    <2>3. CleanStaging'
      BY <1>1, <1>2, <1>5, <1>6 DEF MoveInv, CleanStaging, Back
    <2> QED BY <2>1, <2>2, <2>3
  <1>10. MoveInv'
    BY <1>1, <1>2, <1>6, <1>7, <1>8, <1>9, Turn DEF Copying
  <1> QED BY <1>3, <1>10

LEMMA Relists == Shape /\ MoveInv /\ Relist => Shape' /\ MoveInv'
  <1> SUFFICES ASSUME Shape, MoveInv, Relist PROVE Shape' /\ MoveInv'
    OBVIOUS
  <1> USE DEF At, Still, givens, userVars, dirVars
  <1>1. /\ job' \in JobRec /\ job'.pc = "reclaim" /\ job'.todo = Present(from)
        /\ job'.done = job.done /\ job'.renamed = job.renamed /\ job.pc = "relist"
    <2>1. Present(from) \in SUBSET Names
      BY DEF Present
    <2> QED BY <2>1 DEF Relist, Shape, JobRec, Stages
  <1>2. UNCHANGED <<dirVars, want, late, byHand, oneVolume, location, plan, holes>>
    BY DEF Relist
  <1>3. Shape'
    BY <1>1, <1>2 DEF Shape
  <1>4. Control'
    BY <1>1, <1>2 DEF MoveInv, Control, Resting, Early, Copying, Back
  <1>5. Brought' = {} /\ Brought = {} /\ Listed' \subseteq Present(from)
    BY <1>1 DEF Brought, Listed, Compared, Copying
  <1>6. WholeHere'
    BY <1>2, <1>5 DEF MoveInv, WholeHere, Holds, Back
  <1>7. CleanThere' /\ CleanStaging'
    BY <1>1, <1>2, <1>5 DEF MoveInv, CleanThere, CleanStaging, Back
  <1>8. MoveInv'
    BY <1>1, <1>2, <1>4, <1>5, <1>6, <1>7, Turn DEF Copying
  <1> QED BY <1>3, <1>8

LEMMA Reclaims == Shape /\ MoveInv /\ Reclaimed => Shape' /\ MoveInv'
  <1> SUFFICES ASSUME Shape, MoveInv, Reclaimed PROVE Shape' /\ MoveInv'
    OBVIOUS
  <1> USE DEF At, Still, givens, userVars, dirVars
  <1>1. /\ job' \in JobRec /\ job'.pc = "look" /\ job'.done = job.done
        /\ job'.renamed = job.renamed /\ job.pc = "reclaim"
    BY GotoFacts DEF Reclaimed, Stages
  <1>2. /\ UNCHANGED <<from, to, want, late, byHand, oneVolume, location, plan>>
        /\ staging' \in Dir /\ holes \subseteq holes'
        /\ holes' \subseteq holes \cup {"leftover"}
        /\ (\E n \in Names : to[n] \in Ours) => holes' # {}
    <2>1. PICK left \in SUBSET Present(staging) :
            /\ staging' = Only(staging, left)
            /\ holes' = IF left # {} \/ \E n \in Names : to[n] \in Ours
                          THEN holes \cup {"leftover"} ELSE holes
      BY DEF Reclaimed
    <2>2. staging' \in Dir
      BY <2>1, DirFacts DEF Only, Dir, Shape
    <2> QED BY <2>1, <2>2 DEF Reclaimed
  <1>3. Shape'
    BY <1>1, <1>2, DirFacts DEF Shape
  <1>4. Control'
    BY <1>1, <1>2 DEF MoveInv, Control, Resting, Early, Copying, Back
  <1>5. Brought' = {} /\ Listed' = {} /\ Brought = {}
    BY <1>1 DEF Brought, Listed, Compared, Copying
  <1>6. WholeHere'
    BY <1>2, <1>5 DEF MoveInv, WholeHere, Holds, Back
  <1>7. CleanThere'
    BY <1>2 DEF CleanThere
  <1>8. CleanStaging'
    BY <1>1, <1>4 DEF CleanStaging, Control, Resting
  <1>9. MoveInv'
    BY <1>1, <1>2, <1>4, <1>5, <1>6, <1>7, <1>8, Turn DEF Copying
  <1> QED BY <1>3, <1>9

(* The new place is written, then the plan marked.                         *)
LEMMA Points ==
    ASSUME Shape, MoveInv, Point \/ MarkFlipped
    PROVE  Shape' /\ MoveInv'
  <1> USE DEF At, Still, givens, userVars, dirVars
  <1>1. /\ job' \in JobRec /\ job'.pc \in {"mark", "remove"} /\ job'.done = job.done
        /\ job.pc = "point" => job'.pc = "mark"
        /\ job'.renamed = job.renamed /\ job.pc \in {"point", "mark"}
        /\ location' = "to"
    BY GotoFacts DEF Point, MarkFlipped, Stages, MoveInv, Control, Back, Shape
  <1>2. plan' \in PlanRec /\ plan'.on = plan.on /\ plan'.promoting = plan.promoting
        /\ plan.on
    BY DEF Point, MarkFlipped, Shape, PlanRec, MoveInv, Control, Resting
  <1>3. UNCHANGED <<dirVars, want, late, byHand, oneVolume, holes>>
    BY DEF Point, MarkFlipped
  <1>4. Shape'
    BY <1>1, <1>2, <1>3 DEF Shape
  <1>5. Control'
    BY <1>1, <1>2, <1>3 DEF MoveInv, Control, Resting, Early, Copying, Back
  <1>6. WholeThere' /\ Somewhere'
    BY <1>1, <1>3 DEF MoveInv, WholeThere, Settled, Holds, Somewhere, Control, Back
  <1>7. NotTheirs'
    BY <1>1, <1>3 DEF MoveInv, NotTheirs, Brought
  <1>8. /\ FromIsWanted' /\ RenamedOnes' /\ ListedStay' /\ WholeHere' /\ CleanThere'
        /\ CleanStaging'
    BY <1>1 DEF FromIsWanted, RenamedOnes, ListedStay, WholeHere, CleanThere, CleanStaging,
                Back
  <1>9. NamesFree' /\ Snapped' /\ CopyFree' /\ CopyDone'
    BY <1>1 DEF NamesFree, Snapped, CopyFree, CopyDone, Compared, Copying
  <1> QED BY <1>4, <1>5, <1>6, <1>7, <1>8, <1>9 DEF MoveInv

-----------------------------------------------------------------------------
(* Looking, listing, and the choice of the way.                            *)

LEMMA Looks == Shape /\ MoveInv /\ Look => Shape' /\ MoveInv'
  <1> SUFFICES ASSUME Shape, MoveInv, Look PROVE Shape' /\ MoveInv'
    OBVIOUS
  <1> USE DEF At, Still, givens, userVars, dirVars
  <1>0. job.pc = "look" /\ job.renamed /\ job.done = {} /\ Brought = {} /\ Back /\ plan.on
    BY DEF Look, MoveInv, Control, Early, Brought, Back, Resting
  <1>1. UNCHANGED <<dirVars, want, late, byHand, oneVolume, location, plan, holes>>
    BY DEF Look
  <1>2. /\ job' \in JobRec /\ job'.pc \in {"point", "names"}
        /\ job'.done = {} /\ job'.renamed
        /\ job'.pc = "point" => HasId(to) /\ Present(from) = {}
        /\ job'.pc = "names" => job'.snap = from
    <2>1. CASE HasId(to) /\ Present(from) = {}
      BY <1>0, <2>1, GotoFacts DEF Look, Stages
    <2>2. CASE ~(HasId(to) /\ Present(from) = {})
      <3>1. job' = [job EXCEPT !.pc = "names", !.snap = from] /\ from \in Dir
        BY <2>2 DEF Look, Shape
      <3> QED BY <1>0, <3>1 DEF Shape, JobRec, Stages
    <2> QED BY <2>1, <2>2
  <1>3. Shape'
    BY <1>1, <1>2 DEF Shape
  <1>4. Control'
    BY <1>0, <1>1, <1>2 DEF MoveInv, Control, Resting, Early, Copying, Back
  <1>5. Brought' = {} /\ Listed' \subseteq Present(from)
    BY <1>1, <1>2 DEF Brought, Listed, Compared, Copying
  <1>6. WholeThere'
    BY <1>0, <1>1, <1>2, DirFacts DEF MoveInv, WholeThere, Settled, Somewhere, Holds, Back, Shape
  <1>7. NamesFree' /\ CopyFree' /\ CopyDone'
    BY <1>2 DEF NamesFree, CopyFree, CopyDone, Copying
  <1>8. Snapped'
    BY <1>0, <1>1, <1>2 DEF MoveInv, Snapped, Compared, Copying, FromIsWanted
  <1>9. WholeHere'
    BY <1>0, <1>1, <1>5 DEF MoveInv, WholeHere, Holds, Back
  <1>10. byHand = "no" /\ holes = {} => \A n \in Names : to[n] \notin Ours
    BY <1>0 DEF MoveInv, CleanThere
  <1>11. CleanThere'
    BY <1>1, <1>10 DEF CleanThere
  <1>12. CleanStaging'
    BY <1>0, <1>1, <1>2, <1>10, RelocateAssumption DEF CleanStaging, HasId
  <1>13. MoveInv'
    BY <1>1, <1>4, <1>5, <1>6, <1>7, <1>8, <1>9, <1>11, <1>12, TurnTo
  <1> QED BY <1>3, <1>13

LEMMA Lists == Shape /\ MoveInv /\ ListNames /\ ~first_conflict => Shape' /\ MoveInv'
  <1> SUFFICES ASSUME Shape, MoveInv, ListNames, ~first_conflict PROVE Shape' /\ MoveInv'
    OBVIOUS
  <1> USE DEF At, Still, givens, userVars, dirVars
  <1>0. job.pc = "names" /\ Brought = {} /\ Back /\ plan.on
    BY DEF ListNames, MoveInv, Control, Early, Brought, Back, Resting
  <1>1. UNCHANGED <<dirVars, want, late, byHand, oneVolume, location, plan>>
    BY DEF ListNames
  <1>2. /\ job' \in JobRec /\ job'.todo = Present(from) /\ job'.done = {}
        /\ job'.snap = job.snap
        /\ \/ job'.pc = "rename" /\ job'.renamed /\ PassStaging
           \/ job'.pc = "unread" /\ ~job'.renamed /\ holes' = holes
    <2>1. PICK same \in {oneVolume, FALSE} :
            /\ job' = [job EXCEPT !.todo = Present(from), !.done = {},
                                  !.renamed = same,
                                  !.pc = IF same THEN "rename" ELSE "unread"]
            /\ IF same THEN PassStaging ELSE UNCHANGED holes
      BY DEF ListNames
    <2>2. same \in BOOLEAN /\ Present(from) \in SUBSET Names
      BY DEF Shape, Present
    <2>3. CASE same = TRUE
      <3>1. job' = [job EXCEPT !.todo = Present(from), !.done = {},
                               !.renamed = TRUE, !.pc = "rename"]
        BY <2>1, <2>3
      <3> QED BY <2>1, <2>2, <2>3, <3>1 DEF Shape, JobRec, Stages
    <2>4. CASE same = FALSE
      <3>1. job' = [job EXCEPT !.todo = Present(from), !.done = {},
                               !.renamed = FALSE, !.pc = "unread"]
        BY <2>1, <2>4
      <3> QED BY <2>1, <2>2, <2>4, <3>1 DEF Shape, JobRec, Stages
    <2> QED BY <2>2, <2>3, <2>4
  <1>a. /\ holes' \in {holes, holes \cup {"leftover"}}
        /\ job'.pc = "rename" /\ holes' = {} => staging = Empty
    BY <1>2 DEF PassStaging
  <1>b. \A n \in Names : from[n] # None => to[n] = None
    BY DEF first_conflict, Present
  <1>3. Shape'
    BY <1>1, <1>2, <1>a DEF Shape
  <1>4. Control'
    BY <1>0, <1>1, <1>2, <1>a DEF MoveInv, Control, Resting, Early, Copying, Back
  <1>5. Brought' = {} /\ Listed' \subseteq Listed
    BY <1>0, <1>1, <1>2 DEF Brought, Listed, Compared, Copying
  <1>6. WholeThere' /\ NamesFree'
    BY <1>0, <1>1, <1>2, <1>b DEF WholeThere, Settled, NamesFree, Present, Back
  <1>7. Snapped'
    BY <1>0, <1>1, <1>2 DEF MoveInv, Snapped, Compared, Copying
  <1>8. CopyFree' /\ CopyDone'
    BY <1>1, <1>2, <1>b DEF CopyFree, CopyDone
  <1>9. WholeHere'
    BY <1>0, <1>1, <1>5, <1>a DEF MoveInv, WholeHere, Holds, Back
  <1>10. CleanThere'
    BY <1>0, <1>1, <1>5, <1>a DEF MoveInv, CleanThere, Back
  <1>11. CleanStaging'
    BY <1>1, <1>2, <1>a, <1>0 DEF CleanStaging
  <1>12. MoveInv'
    BY <1>1, <1>4, <1>5, <1>6, <1>7, <1>8, <1>9, <1>10, <1>11, <1>a, TurnTo
  <1> QED BY <1>3, <1>12

-----------------------------------------------------------------------------
(* The copy, up to the comparison, and the last looks.                     *)

LEMMA CopyTurns ==
    ASSUME Shape, MoveInv,
           \/ ClearStaging \/ CopyOne
           \/ (Verify /\ staging = job.snap /\ from = job.snap)
           \/ Promote \/ Placed
    PROVE  Shape' /\ MoveInv'
  <1> USE DEF At, Still, givens, userVars, dirVars
  <1>0. /\ job.pc \in {"unread", "copy", "promote", "place"} /\ ~job.renamed
        /\ Back /\ plan.on
        /\ job.pc # "place" => job.done = {}
        /\ job.pc = "place" => plan.promoting
    BY DEF ClearStaging, CopyOne, Verify, Promote, Placed, MoveInv, Control, Copying, Resting
  <1>1. /\ UNCHANGED <<from, to, want, late, byHand, oneVolume, location>>
        /\ holes' \in {holes, holes \cup {"leftover"}}
    BY CleanupFacts DEF ClearStaging, CopyOne, Verify, Promote, Placed
  <1>2. /\ job' \in JobRec /\ job'.done = job.done /\ job'.snap = job.snap
        /\ job'.renamed = job.renamed
        /\ \/ job.pc = "unread" /\ job'.pc = "copy"
           \/ job.pc = "copy" /\ job'.pc = "copy"
           \/ job.pc = "copy" /\ job'.pc = "promote" /\ staging' = staging
                /\ staging = job.snap /\ from = job.snap
           \/ job.pc = "promote" /\ job'.pc = "place" /\ job'.todo = Present(job.snap)
                /\ plan'.promoting /\ staging' = staging
           \/ job.pc = "place" /\ job'.pc = "reconcile" /\ job.todo = {}
    <2>1. CASE ClearStaging
      BY <2>1, GotoFacts DEF ClearStaging, Stages
    <2>2. CASE CopyOne
      <3>1. PICK n \in job.todo : job' = [job EXCEPT !.todo = @ \ {n}]
        BY <2>2 DEF CopyOne
      <3>2. n \in Names
        BY JobFacts
      <3> QED BY <2>2, <3>1, <3>2, TakeFacts DEF CopyOne
    <2>3. CASE Verify /\ staging = job.snap /\ from = job.snap
      BY <2>3, GotoFacts DEF Verify, Stages
    <2>4. CASE Promote
      <3>1. /\ job' = [job EXCEPT !.pc = "place", !.todo = Present(job.snap)]
            /\ Present(job.snap) \in SUBSET Names
            /\ plan' = [plan EXCEPT !.promoting = TRUE]
        BY <2>4 DEF Promote, Present
      <3> QED BY <2>4, <3>1 DEF Promote, Shape, JobRec, PlanRec, Stages
    <2>5. CASE Placed
      BY <2>5, GotoFacts DEF Placed, Stages
    <2> QED BY <2>1, <2>2, <2>3, <2>4, <2>5
  <1>3. plan' \in PlanRec /\ plan'.on /\ plan'.flipped = plan.flipped
        /\ (plan.promoting => plan'.promoting)
    BY <1>0 DEF Shape, PlanRec, ClearStaging, CopyOne, Verify, Promote, Placed
  <1>4. staging' \in Dir
    <2>1. CASE CopyOne
      <3>1. PICK n \in job.todo : staging' = [staging EXCEPT ![n] = from[n]]
        BY <2>1 DEF CopyOne
      <3>2. n \in Names /\ from[n] \in Things /\ staging \in Dir
        BY JobFacts, DirFacts DEF Shape
      <3> QED BY <3>1, <3>2, DirEdit
    <2>2. CASE ClearStaging \/ Placed
      BY <2>2, CleanupFacts DEF ClearStaging, Placed
    <2>3. CASE Verify /\ staging = job.snap /\ from = job.snap
      BY <2>3 DEF Verify, Shape
    <2>4. CASE Promote
      BY <2>4 DEF Promote, Shape
    <2> QED BY <2>1, <2>2, <2>3, <2>4
  <1>5. Shape'
    BY <1>1, <1>2, <1>3, <1>4 DEF Shape
  <1>6. Control'
    BY <1>0, <1>1, <1>2, <1>3 DEF MoveInv, Control, Resting, Early, Copying, Back
  <1>7. Listed = Present(job.snap) /\ Listed' = Present(job.snap) /\ Compared /\ Compared'
    BY <1>0, <1>2 DEF Listed, Compared, Copying, Present
  <1>8. Brought' = Brought
    BY <1>0, <1>2 DEF Brought
  <1>9. WholeThere' /\ NamesFree'
    BY <1>0, <1>1, <1>2 DEF WholeThere, Settled, NamesFree, Back
  <1>10. Snapped'
    BY <1>1, <1>2, <1>7 DEF MoveInv, Snapped
  <1>11. CopyFree'
    BY <1>0, <1>1, <1>2 DEF MoveInv, CopyFree, Present
  <1>12. CopyDone'
    <2>1. Present(job.snap)' = Present(job.snap)
      BY <1>2 DEF Present
    <2>2. CASE job.pc = "place"
      BY <1>0, <1>1, <1>2, <2>1, <2>2 DEF MoveInv, CopyDone
    <2>3. CASE job.pc # "place"
      BY <1>0, <1>1, <1>2, <2>1, <2>3 DEF CopyDone
    <2> QED BY <2>2, <2>3
  <1>13. WholeHere'
    BY <1>0, <1>1, <1>2, <1>8 DEF MoveInv, WholeHere, Holds, Back
  <1>14. CleanThere'
    BY <1>0, <1>1, <1>8 DEF MoveInv, CleanThere, Back
  <1>15. CleanStaging'
    <2>1. CASE Placed
      BY <2>1, CleanupFacts DEF Placed, CleanStaging
    <2>2. CASE ~Placed
      <3>1. job'.pc \in {"copy", "promote", "place"}
        BY <1>2, <2>2 DEF ClearStaging, CopyOne, Verify, Promote, Goto
      <3> QED BY <1>3, <3>1 DEF CleanStaging
    <2> QED BY <2>1, <2>2
  <1>16. MoveInv'
    BY <1>1, <1>2, <1>6, <1>7, <1>8, <1>9, <1>10, <1>11, <1>12, <1>13, <1>14, <1>15, TurnTo
  <1> QED BY <1>5, <1>16

(* The comparisons that end well.                                          *)
LEMMA Checks ==
    ASSUME Shape, MoveInv,
           \/ (RenameChecked /\ ~(Present(from) # {} \/ Only(to, job.done) # job.snap))
           \/ (Reconcile /\ ~\E n \in Indexed : job.snap[n] # None /\ to[n] = None)
           \/ (LastCheck /\ from = job.snap)
    PROVE  Shape' /\ MoveInv'
  <1> USE DEF At, Still, givens, userVars, dirVars
  <1>0. job.pc \in {"rename", "reconcile", "last"} /\ Back /\ plan.on
    BY DEF RenameChecked, Reconcile, LastCheck, MoveInv, Control, Resting
  <1>1. UNCHANGED <<dirVars, want, late, byHand, oneVolume, location, plan, holes>>
    BY DEF RenameChecked, Reconcile, LastCheck
  <1>2. /\ job' \in JobRec /\ job'.done = job.done /\ job'.snap = job.snap
        /\ job'.renamed = job.renamed
        /\ \/ job.pc = "rename" /\ job'.pc = "reconcile" /\ Present(from) = {}
           \/ job.pc = "reconcile" /\ job'.pc = "point" /\ job.renamed
           \/ job.pc = "reconcile" /\ job'.pc = "last" /\ ~job.renamed
           \/ job.pc = "last" /\ job'.pc = "point" /\ from = job.snap
    BY GotoFacts DEF RenameChecked, Reconcile, LastCheck, Stages
  <1>a. (job.pc = "rename" => job.renamed) /\ (job.pc = "last" => ~job.renamed)
        /\ (~job.renamed => plan.promoting)
    BY <1>0 DEF MoveInv, Control, Copying
  <1>3. Shape'
    BY <1>1, <1>2 DEF Shape
  <1>4. Control'
    BY <1>0, <1>1, <1>2, <1>a DEF MoveInv, Control, Resting, Early, Copying, Back
  <1>5. Brought' = job.done /\ Brought = job.done
    BY <1>0, <1>2 DEF Brought
  <1>6. ~job.renamed => /\ Listed = Present(job.snap) /\ Present(job.snap) = job.done
                        /\ Present(job.snap)' = Present(job.snap)
    BY <1>0, <1>2, <1>a DEF Listed, Compared, Copying, MoveInv, CopyDone, Present
  <1>7. Listed' \subseteq Listed
    BY <1>0, <1>2, <1>5, <1>6, <1>a DEF Listed, Compared, Copying
  <1>8. WholeThere'
    <2>1. CASE job.pc = "rename"
      BY <1>0, <1>1, <2>1, <1>2, DirFacts
         DEF MoveInv, WholeThere, Settled, Somewhere, Holds, Back, Shape
    <2>2. CASE job.pc = "reconcile"
      BY <1>0, <1>1, <2>2, <1>2, <1>a DEF MoveInv, WholeThere, Settled, Holds, Back
    <2>3. CASE job.pc = "last"
      <3>1. ASSUME NEW n \in Names, want[n] # None, n \notin late, "pointed" \notin holes
            PROVE  to[n] = want[n]
        <4>1. CASE n \in job.done
          <5>1. from[n] = want[n]
            BY <1>0, <1>6, <1>a, <2>3, <3>1, <4>1 DEF MoveInv, ListedStay, Holds
          <5>2. to[n] = job.snap[n]
            BY <1>2, <2>3, <3>1, <4>1 DEF MoveInv, CopyDone
          <5> QED BY <1>2, <2>3, <5>1, <5>2
        <4>2. CASE n \notin job.done
          <5>1. from[n] = None
            BY <1>2, <1>6, <1>a, <2>3, <4>2 DEF Present
          <5> QED BY <3>1, <5>1 DEF MoveInv, Somewhere, Holds
        <4> QED BY <4>1, <4>2
      <3> QED BY <1>1, <3>1 DEF WholeThere, Holds
    <2> QED BY <1>0, <2>1, <2>2, <2>3
  <1>9. NamesFree' /\ CopyFree'
    BY <1>2 DEF NamesFree, CopyFree
  <1>10. Snapped'
    BY <1>0, <1>1, <1>2, <1>a DEF MoveInv, Snapped, Compared, Copying
  <1>11. CopyDone'
    BY <1>0, <1>1, <1>2, <1>6, <1>a DEF MoveInv, CopyDone
  <1>12. WholeHere'
    BY <1>0, <1>1, <1>2, <1>5 DEF MoveInv, WholeHere, Holds, Back
  <1>13. CleanThere'
    BY <1>0, <1>1, <1>5 DEF MoveInv, CleanThere, Back
  <1>14. CleanStaging'
    BY <1>0, <1>1, <1>2, <1>a DEF MoveInv, CleanStaging, Back
  <1>15. MoveInv'
    BY <1>1, <1>2, <1>4, <1>5, <1>7, <1>8, <1>9, <1>10, <1>11, <1>12, <1>13, <1>14, TurnTo
  <1> QED BY <1>3, <1>15

-----------------------------------------------------------------------------
(* The steps that move entries.                                            *)

LEMMA Skips == Shape /\ MoveInv /\ UndoSkips => Shape' /\ MoveInv'
  <1> SUFFICES ASSUME Shape, MoveInv, UndoSkips PROVE Shape' /\ MoveInv'
    OBVIOUS
  <1> USE DEF At, Still, givens, userVars, dirVars
  <1>1. UNCHANGED <<dirVars, want, late, byHand, oneVolume, location, plan>>
    BY DEF UndoSkips
  <1>2. PICK n \in job.todo : job' = [job EXCEPT !.todo = @ \ {n}]
    BY DEF UndoSkips
  <1>3. /\ job' \in JobRec /\ job.pc \in {"undo", "unplace", "reclaim"} /\ job'.pc = job.pc
        /\ job'.todo = job.todo \ {n} /\ job'.done = job.done /\ job'.renamed = job.renamed
    BY <1>2, JobFacts, TakeFacts DEF UndoSkips, Undoing
  <1>4. /\ holes' \in {holes \cup {"split"}, holes \cup {"leftover"}}
        /\ job.renamed /\ job.pc # "reclaim" => "split" \in holes'
    BY <1>3 DEF UndoSkips, Undoing
  <1>5. Shape'
    BY <1>1, <1>3, <1>4 DEF Shape
  <1>6. Control'
    BY <1>1, <1>3, <1>4 DEF MoveInv, Control, Resting, Early, Copying, Back
  <1>7. Brought' \subseteq Brought /\ Listed' \subseteq Listed
    BY <1>3 DEF Brought, Listed, Compared, Copying
  <1>8. WholeHere'
    <2>1. job.pc = "reclaim" => Brought = {}
      BY DEF Brought
    <2> QED BY <1>1, <1>3, <1>4, <1>7, <2>1 DEF MoveInv, WholeHere, Holds, Back
  <1>9. CleanThere' /\ CleanStaging'
    BY <1>4 DEF CleanThere, CleanStaging
  <1>10. MoveInv'
    BY <1>1, <1>3, <1>4, <1>6, <1>7, <1>8, <1>9, Turn DEF Copying
  <1> QED BY <1>5, <1>10

(* A rename moves an entry to a free name, or one whose owner came late.   *)
LEMMA Renames == Shape /\ MoveInv /\ RenameOne => Shape' /\ MoveInv'
  <1> SUFFICES ASSUME Shape, MoveInv, RenameOne PROVE Shape' /\ MoveInv'
    OBVIOUS
  <1> USE DEF At, Still, givens, userVars
  <1>1. PICK n \in job.todo :
          /\ from[n] # None
          /\ to' = [to EXCEPT ![n] = from[n]]
          /\ from' = [from EXCEPT ![n] = None]
          /\ job' = [job EXCEPT !.todo = @ \ {n}, !.done = @ \cup {n}]
    BY DEF RenameOne
  <1>2. n \in Names /\ from[n] \in Things /\ None \in Things
    BY JobFacts, DirFacts DEF Shape
  <1>3. /\ job' \in JobRec /\ job.pc = "rename" /\ job'.pc = "rename"
        /\ job'.todo = job.todo \ {n} /\ job'.done = job.done \cup {n}
        /\ job'.snap = job.snap /\ job'.renamed = job.renamed
    BY <1>1, <1>2, TakeFacts DEF RenameOne
  <1>4. job.renamed /\ Back
    BY <1>3 DEF MoveInv, Control, Back, Resting
  <1>5. UNCHANGED <<staging, want, late, byHand, oneVolume, location, plan, holes>>
    BY DEF RenameOne
  <1>6. /\ from' \in Dir /\ to' \in Dir
        /\ from'[n] = None /\ to'[n] = from[n]
        /\ \A m \in Names : m # n => from'[m] = from[m] /\ to'[m] = to[m]
    BY <1>1, <1>2 DEF Shape, Dir
  <1>7. Shape'
    BY <1>3, <1>5, <1>6 DEF Shape
  <1>8. Control'
    BY <1>3, <1>4, <1>5 DEF MoveInv, Control, Resting, Early, Copying, Back
  <1>9. Brought' = Brought \cup {n} /\ Brought \subseteq Names /\ Listed' = {}
    BY <1>3, <1>4, JobFacts DEF Brought, Listed, Compared, Copying
  <1>10. /\ from[n] \in Ours => from[n] = want[n]
         /\ n \notin late => from[n] \in Ours /\ to[n] = None
    BY <1>1, <1>2, <1>3, <1>4, DirFacts DEF MoveInv, FromIsWanted, NamesFree
  <1>11. FromIsWanted'
    BY <1>4, <1>5, <1>6, DirFacts DEF MoveInv, FromIsWanted, Back
  <1>12. Somewhere'
    <2>1. Holds(to, n)'
      BY <1>2, <1>5, <1>6, <1>10 DEF Holds
    <2> QED BY <1>5, <1>6, <2>1 DEF MoveInv, Somewhere, Holds
  <1>13. WholeThere' /\ ListedStay' /\ Snapped' /\ CopyFree' /\ CopyDone'
    BY <1>3, <1>4, <1>5, <1>9 DEF WholeThere, Settled, ListedStay, Snapped, CopyFree, CopyDone,
                           Compared, Copying, Back
  <1>14. NotTheirs'
    BY <1>5, <1>6, <1>9, <1>10, DirFacts DEF MoveInv, NotTheirs
  <1>15. RenamedOnes'
    BY <1>4, <1>5, <1>6, <1>9, <1>10, DirFacts DEF MoveInv, RenamedOnes, Back
  <1>16. NamesFree'
    BY <1>3, <1>5, <1>6, JobFacts DEF MoveInv, NamesFree
  <1>17. WholeHere'
    BY <1>3, <1>4, <1>5, <1>6, <1>9 DEF MoveInv, WholeHere, Holds, Back
  <1>18. CleanThere'
    BY <1>3, <1>4, <1>5, <1>6, <1>9 DEF MoveInv, CleanThere, Back
  <1>19. CleanStaging'
    BY <1>3, <1>4, <1>5 DEF MoveInv, CleanStaging, Back
  <1> QED BY <1>7, <1>8, <1>11, <1>12, <1>13, <1>14, <1>15, <1>16, <1>17, <1>18, <1>19
          DEF MoveInv

(* Renaming out of the staging folder, where the copy is.                  *)
LEMMA Places == Shape /\ MoveInv /\ PlaceOne => Shape' /\ MoveInv'
  <1> SUFFICES ASSUME Shape, MoveInv, PlaceOne PROVE Shape' /\ MoveInv'
    OBVIOUS
  <1> USE DEF At, Still, givens, userVars
  <1>1. PICK n \in job.todo :
          /\ to' = [to EXCEPT ![n] = staging[n]]
          /\ staging' = [staging EXCEPT ![n] = None]
          /\ job' = [job EXCEPT !.todo = @ \ {n}, !.done = @ \cup {n}]
    BY DEF PlaceOne
  <1>2. n \in Names /\ staging[n] \in Things /\ None \in Things
    BY JobFacts, DirFacts DEF Shape
  <1>3. /\ job' \in JobRec /\ job.pc = "place" /\ job'.pc = "place"
        /\ job'.todo = job.todo \ {n} /\ job'.done = job.done \cup {n}
        /\ job'.snap = job.snap /\ job'.renamed = job.renamed
    BY <1>1, <1>2, TakeFacts DEF PlaceOne
  <1>4. ~job.renamed /\ Back /\ plan.promoting /\ plan.on
    BY <1>3 DEF MoveInv, Control, Copying, Back, Resting
  <1>5. UNCHANGED <<from, want, late, byHand, oneVolume, location, plan, holes>>
    BY DEF PlaceOne
  <1>6. /\ staging' \in Dir /\ to' \in Dir
        /\ to'[n] = staging[n]
        /\ \A m \in Names : m # n => staging'[m] = staging[m] /\ to'[m] = to[m]
    BY <1>1, <1>2 DEF Shape, Dir
  <1>7. Shape'
    BY <1>3, <1>5, <1>6 DEF Shape
  <1>8. Control'
    BY <1>3, <1>4, <1>5 DEF MoveInv, Control, Resting, Early, Copying, Back
  <1>9. /\ Brought' = Brought \cup {n} /\ Brought = job.done /\ Brought \subseteq Names
        /\ Listed = Present(job.snap) /\ Listed' = Present(job.snap)
        /\ Present(job.snap)' = Present(job.snap) /\ Compared /\ Compared'
        /\ Present(job.snap) = job.todo \cup job.done
    BY <1>3, JobFacts DEF Brought, Listed, Compared, Copying, Present, MoveInv, CopyDone
  <1>10. staging[n] = job.snap[n] /\ (n \notin late => to[n] = None /\ staging[n] # "own")
    BY <1>2, <1>3, <1>9 DEF MoveInv, CopyFree, Snapped
  <1>11. FromIsWanted'
    BY <1>5 DEF MoveInv, FromIsWanted, Back
  <1>12. Somewhere'
    <2>1. Holds(from, n)
      BY <1>4, <1>9 DEF MoveInv, ListedStay
    <2> QED BY <1>5, <1>6, <2>1 DEF MoveInv, Somewhere, Holds
  <1>13. WholeThere' /\ RenamedOnes' /\ NamesFree'
    BY <1>3, <1>4, <1>5 DEF WholeThere, Settled, RenamedOnes, NamesFree, Back
  <1>14. NotTheirs'
    BY <1>5, <1>6, <1>9, <1>10 DEF MoveInv, NotTheirs
  <1>15. ListedStay'
    BY <1>5, <1>9 DEF MoveInv, ListedStay, Holds, Back
  <1>16. Snapped'
    BY <1>3, <1>5, <1>9 DEF MoveInv, Snapped
  <1>17. CopyFree'
    BY <1>3, <1>5, <1>6, JobFacts DEF MoveInv, CopyFree
  <1>18. CopyDone'
    BY <1>3, <1>5, <1>6, <1>9, <1>10 DEF MoveInv, CopyDone
  <1>19. WholeHere'
    BY <1>3, <1>4, <1>5 DEF MoveInv, WholeHere, Holds, Back
  <1>20. CleanThere'
    BY <1>3, <1>5, <1>6, <1>9 DEF MoveInv, CleanThere, Back
  <1>21. CleanStaging'
    BY <1>3, <1>4, <1>5 DEF CleanStaging
  <1> QED BY <1>7, <1>8, <1>11, <1>12, <1>13, <1>14, <1>15, <1>16, <1>17, <1>18, <1>19,
             <1>20, <1>21 DEF MoveInv

(* Moved::undo deletes a copy that the old folder has, or renames an entry *)
(* back whose name is free there.                                          *)
LEMMA UndoesOne == Shape /\ MoveInv /\ UndoOne => Shape' /\ MoveInv'
  <1> SUFFICES ASSUME Shape, MoveInv, UndoOne PROVE Shape' /\ MoveInv'
    OBVIOUS
  <1> USE DEF At, Still, givens, userVars
  <1>1. PICK n \in job.todo :
          /\ IF ~job.renamed
               THEN to' = [to EXCEPT ![n] = None] /\ UNCHANGED from
             ELSE IF to[n] # None /\ CanRename(n, from)
               THEN /\ from' = [from EXCEPT ![n] = to[n]]
                    /\ to' = [to EXCEPT ![n] = None]
               ELSE UNCHANGED <<from, to>>
          /\ job' = [job EXCEPT !.todo = @ \ {n}]
    BY DEF UndoOne
  <1>2. n \in Names /\ to[n] \in Things /\ None \in Things
    BY JobFacts, DirFacts DEF Shape
  <1>3. /\ job' \in JobRec /\ job.pc \in {"undo", "unplace"} /\ job'.pc = job.pc
        /\ job'.todo = job.todo \ {n} /\ job'.done = job.done
        /\ job'.snap = job.snap /\ job'.renamed = job.renamed
    BY <1>1, <1>2, TakeFacts DEF UndoOne, Undoing
  <1>4. ~Back => "pointed" \in holes
    BY <1>3 DEF MoveInv, Control, Resting
  <1>5. UNCHANGED <<staging, want, late, byHand, oneVolume, location, plan, holes>>
    BY DEF UndoOne
  <1>6. /\ from' \in Dir /\ to' \in Dir
        /\ \A m \in Names : m # n => from'[m] = from[m] /\ to'[m] = to[m]
        /\ \/ ~job.renamed /\ to'[n] = None /\ from' = from
           \/ job.renamed /\ to[n] # None /\ from'[n] = to[n] /\ to'[n] = None
           \/ job.renamed /\ (to[n] = None \/ from[n] # None)
                /\ from'[n] = from[n] /\ to'[n] = to[n]
    BY <1>1, <1>2 DEF Shape, Dir, CanRename
  <1>7. Shape'
    BY <1>3, <1>5, <1>6 DEF Shape
  <1>8. Control'
    BY <1>3, <1>5 DEF MoveInv, Control, Resting, Early, Copying, Back
  <1>9. /\ Brought' = Brought \ {n} /\ n \in Brought /\ Brought \subseteq Names
        /\ Listed = (IF job.renamed THEN {} ELSE Brought)
        /\ Listed' \subseteq Listed
    BY <1>3, JobFacts DEF Brought, Listed, Compared, Copying
  <1>10. /\ Back /\ job.renamed => /\ to[n] \in Ours => to[n] = want[n] /\ from[n] = None
                                   /\ from[n] # "own"
         /\ n \notin late => to[n] # "own"
         /\ Back /\ ~job.renamed => Holds(from, n)
    BY <1>9 DEF MoveInv, RenamedOnes, NotTheirs, ListedStay
  <1>11. FromIsWanted'
    BY <1>5, <1>6, <1>10 DEF MoveInv, FromIsWanted, Back
  <1>12. Back => \A m \in Names : (Holds(from, m) => Holds(from, m)')
                              /\ (Holds(to, m) => Holds(from, m)' \/ Holds(to, m)')
    BY <1>5, <1>6, <1>10, DirFacts DEF Holds
  <1>13. Somewhere'
    BY <1>4, <1>5, <1>12 DEF MoveInv, Somewhere
  <1>14. WholeThere' /\ NamesFree' /\ Snapped' /\ CopyFree' /\ CopyDone'
    BY <1>3, <1>4, <1>5 DEF WholeThere, Settled, NamesFree, Snapped, CopyFree, CopyDone,
                           Compared, Copying, Back
  <1>15. NotTheirs'
    BY <1>5, <1>6, <1>9 DEF MoveInv, NotTheirs
  <1>16. RenamedOnes'
    BY <1>3, <1>5, <1>6, <1>9 DEF MoveInv, RenamedOnes, Back
  <1>17. ListedStay'
    BY <1>5, <1>9, <1>12, JobFacts DEF MoveInv, ListedStay, Back
  <1>18. WholeHere'
    <2>1. Back /\ job.renamed /\ "pointed" \notin holes => Holds(from, n)'
      BY <1>2, <1>5, <1>6, <1>10, DirFacts DEF MoveInv, Somewhere, Holds
    <2>2. Back => "pointed" \notin holes
      BY DEF MoveInv, Control
    <2> QED BY <1>3, <1>5, <1>9, <1>12, <2>1, <2>2 DEF MoveInv, WholeHere, Back
  <1>19. CleanThere'
    <2>1. Back => to'[n] \notin Ours
      BY <1>6, <1>10, DirFacts
    <2> QED BY <1>3, <1>5, <1>6, <1>9, <2>1 DEF MoveInv, CleanThere, Back
  <1>20. CleanStaging'
    BY <1>3, <1>5 DEF MoveInv, CleanStaging, Back
  <1> QED BY <1>7, <1>8, <1>11, <1>13, <1>14, <1>15, <1>16, <1>17, <1>18, <1>19, <1>20
          DEF MoveInv

(* After a crash in the promotion, what has a name of the library in the   *)
(* new folder is deleted: the old folder has it.                           *)
LEMMA ReclaimsOne == Shape /\ MoveInv /\ ReclaimOne => Shape' /\ MoveInv'
  <1> SUFFICES ASSUME Shape, MoveInv, ReclaimOne PROVE Shape' /\ MoveInv'
    OBVIOUS
  <1> USE DEF At, Still, givens, userVars
  <1>1. PICK n \in job.todo : /\ to' = [to EXCEPT ![n] = None]
                              /\ job' = [job EXCEPT !.todo = @ \ {n}]
    BY DEF ReclaimOne
  <1>2. n \in Names /\ None \in Things
    BY JobFacts, DirFacts
  <1>3. /\ job' \in JobRec /\ job.pc = "reclaim" /\ job'.pc = "reclaim"
        /\ job'.todo = job.todo \ {n} /\ job'.done = job.done
        /\ job'.snap = job.snap /\ job'.renamed = job.renamed
    BY <1>1, <1>2, TakeFacts DEF ReclaimOne
  <1>4. job.renamed /\ Back /\ plan.on
    BY <1>3 DEF MoveInv, Control, Early, Back, Resting
  <1>5. UNCHANGED <<from, staging, want, late, byHand, oneVolume, location, plan, holes>>
    BY DEF ReclaimOne
  <1>6. /\ to' \in Dir /\ to'[n] = None
        /\ \A m \in Names : m # n => to'[m] = to[m]
    BY <1>1, <1>2 DEF Shape, Dir
  <1>7. Shape'
    BY <1>3, <1>5, <1>6 DEF Shape
  <1>8. Control'
    BY <1>3, <1>4, <1>5 DEF MoveInv, Control, Resting, Early, Copying, Back
  <1>9. /\ Brought = {} /\ Brought' = {} /\ Listed = job.todo /\ Listed' = job.todo \ {n}
    BY <1>3 DEF Brought, Listed, Compared, Copying
  <1>10. Holds(from, n)
    BY <1>4, <1>9 DEF MoveInv, ListedStay
  <1>11. FromIsWanted' /\ Somewhere'
    BY <1>5, <1>6, <1>10 DEF MoveInv, FromIsWanted, Somewhere, Holds, Back
  <1>12. WholeThere' /\ NamesFree' /\ Snapped' /\ CopyFree' /\ CopyDone'
    BY <1>3, <1>4, <1>5 DEF WholeThere, Settled, NamesFree, Snapped, CopyFree, CopyDone,
                           Compared, Copying, Back
  <1>13. NotTheirs' /\ RenamedOnes'
    BY <1>9 DEF NotTheirs, RenamedOnes
  <1>14. ListedStay'
    BY <1>4, <1>5, <1>9, JobFacts DEF MoveInv, ListedStay, Holds
  <1>15. WholeHere'
    BY <1>4, <1>5, <1>9 DEF MoveInv, WholeHere, Holds, Back
  <1>16. CleanThere'
    BY <1>3, <1>4, <1>5, <1>6, <1>9, DirFacts DEF MoveInv, CleanThere, Back
  <1>17. CleanStaging'
    BY <1>3, <1>4, <1>5 DEF CleanStaging
  <1> QED BY <1>7, <1>8, <1>11, <1>12, <1>13, <1>14, <1>15, <1>16, <1>17 DEF MoveInv

(* The old folder is deleted once the library is looked for in the new one.*)
LEMMA Removes == Shape /\ MoveInv /\ RemoveSource => Shape' /\ MoveInv'
  <1> SUFFICES ASSUME Shape, MoveInv, RemoveSource PROVE Shape' /\ MoveInv'
    OBVIOUS
  <1> USE DEF At, Still, givens, userVars
  <1>1. UNCHANGED <<to, staging, want, late, byHand, oneVolume, location, plan, job, holes>>
    BY DEF RemoveSource
  <1>2. job.pc = "remove" /\ ~Back /\ ~Back'
    BY <1>1 DEF RemoveSource, MoveInv, Control, Back
  <1>3. from' \in Dir
    BY DirFacts DEF RemoveSource, Shape, Dir
  <1>4. Shape'
    BY <1>1, <1>3 DEF Shape
  <1>5. Control'
    BY <1>1 DEF MoveInv, Control, Back
  <1>6. WholeThere' /\ Somewhere'
    BY <1>1, <1>2 DEF MoveInv, WholeThere, Settled, Somewhere, Holds
  <1>7. /\ FromIsWanted' /\ RenamedOnes' /\ ListedStay' /\ WholeHere' /\ CleanThere'
        /\ CleanStaging'
    BY <1>2 DEF FromIsWanted, RenamedOnes, ListedStay, WholeHere, CleanThere, CleanStaging
  <1>8. NotTheirs' /\ NamesFree' /\ Snapped' /\ CopyFree' /\ CopyDone'
    BY <1>1, <1>2 DEF NotTheirs, Brought, NamesFree, Snapped, CopyFree, CopyDone, Compared,
                      Copying
  <1> QED BY <1>4, <1>5, <1>6, <1>7, <1>8 DEF MoveInv

-----------------------------------------------------------------------------
(* The user's steps.                                                       *)

LEMMA UserKeeps ==
    ASSUME UserStep
    PROVE  /\ UNCHANGED <<staging, oneVolume, byHand, plan, location, job, holes>>
           /\ Brought' = Brought /\ Listed' = Listed /\ Settled' = Settled
           /\ Back' = Back /\ Compared' = Compared
           /\ (Control => Control') /\ (CleanStaging => CleanStaging')
  <1>1. UNCHANGED <<staging, oneVolume, byHand, plan, location, job, holes>>
    BY DEF UserStep, givens
  <1>2. Brought' = Brought /\ Back' = Back /\ Compared' = Compared /\ Settled' = Settled
    BY <1>1 DEF Brought, Back, Compared, At, Settled
  <1>3. Listed' = Listed
    BY <1>1, <1>2 DEF Listed, Present, At
  <1> QED BY <1>1, <1>2, <1>3 DEF Control, CleanStaging, At

(* In a comparison, done has only what the snapshot has.                   *)
LEMMA DoneIsListed ==
    ASSUME Shape, MoveInv, job.pc \in {"place", "last"} \/ (At("reconcile") /\ ~job.renamed)
    PROVE  /\ job.done \subseteq Listed /\ Listed = Present(job.snap) /\ Compared /\ Back
  <1>1. Compared /\ Listed = Present(job.snap)
    BY DEF Listed, Compared, Copying
  <1>2. Back
    BY DEF MoveInv, Control, Back, Resting, At
  <1> QED BY <1>1, <1>2 DEF MoveInv, CopyDone, At

(* A change in the old folder, which the library is still looked for in.   *)
LEMMA EditsFrom ==
    ASSUME Shape, MoveInv, UserStep, NEW n \in Names, NEW e \in {"new", None},
           Back, from[n] = want[n], from[n] \in {"old", None}, from[n] = None => e = "new",
           from' = [from EXCEPT ![n] = e], want' = [want EXCEPT ![n] = e], to' = to,
           late' = IF Committed THEN late \cup {n} ELSE late
    PROVE  Shape' /\ MoveInv'
  <1>1. /\ UNCHANGED <<staging, oneVolume, byHand, plan, location, job, holes>>
        /\ Brought' = Brought /\ Listed' = Listed /\ Settled' = Settled
        /\ Back' = Back /\ Compared' = Compared
        /\ Control' /\ CleanStaging'
    BY UserKeeps DEF MoveInv
  <1>2. /\ from' \in Dir /\ from'[n] = e /\ e # "own" /\ e # "old"
        /\ \A m \in Names : m # n => from'[m] = from[m]
        /\ want' \in [Names -> {None, "old", "new"}] /\ want'[n] = e
        /\ \A m \in Names : m # n => want'[m] = want[m]
    BY RelocateAssumption DEF Shape, Dir, Things
  <1>3. /\ late \subseteq late' /\ late' \subseteq Names
        /\ Settled => n \in late'
        /\ \A m \in Names : m # n /\ m \notin late' => m \notin late
    BY DEF Shape, Committed, Settled, Back
  <1> HIDE DEF UserStep
  <1>4. Shape'
    BY <1>1, <1>2, <1>3 DEF Shape
  <1>5. /\ \A m \in Names : Holds(from, m) => Holds(from, m)'
        /\ \A m \in Names : m # n /\ Holds(to, m) => Holds(to, m)'
        /\ Holds(from, n)'
    BY <1>2, <1>3 DEF Holds
  <1>6. FromIsWanted'
    BY <1>1, <1>2, <1>3 DEF MoveInv, FromIsWanted
  <1>7. Somewhere'
    BY <1>1, <1>5 DEF MoveInv, Somewhere
  <1>8. WholeThere'
    BY <1>1, <1>3, <1>5 DEF MoveInv, WholeThere, Holds
  <1>9. NotTheirs'
    BY <1>1, <1>3 DEF MoveInv, NotTheirs
  <1>10. RenamedOnes'
    <2>1. Brought \subseteq Names
      BY JobFacts DEF Brought
    <2>2. job.renamed /\ n \in Brought => to[n] \notin Ours
      BY DirFacts DEF MoveInv, RenamedOnes, Ours
    <2> QED BY <1>1, <1>2, <2>1, <2>2 DEF MoveInv, RenamedOnes
  <1>11. NamesFree'
    BY <1>1, <1>3 DEF MoveInv, NamesFree, At
  <1>12. ListedStay'
    <2>1. Listed \subseteq Names
      BY JobFacts DEF Listed, Brought, Present
    <2> QED BY <1>1, <1>5, <2>1 DEF MoveInv, ListedStay
  <1>13. Compared /\ n \notin late' =>
           job.snap[n] # "new" /\ (job.snap[n] # e \/ job.snap[n] = None)
    BY <1>2, <1>3, RelocateAssumption DEF MoveInv, Snapped
  <1>14. Snapped'
    BY <1>1, <1>2, <1>3, <1>13 DEF MoveInv, Snapped
  <1>15. CopyFree'
    <2>1. ASSUME job.pc \in {"unread", "copy"}, NEW m \in Names, m \notin late',
                 from'[m] = job.snap[m], from'[m] # None
          PROVE  to[m] = None
      <3>1. Compared
        BY <2>1 DEF Compared, Copying
      <3>2. m # n
        BY <1>2, <1>13, <2>1, <3>1
      <3> QED BY <1>2, <1>3, <2>1, <3>2 DEF MoveInv, CopyFree
    <2>2. At("promote") => /\ staging = job.snap
                           /\ \A m \in Present(job.snap) : m \notin late' => to[m] = None
      BY <1>3 DEF MoveInv, CopyFree
    <2>3. At("place") => \A m \in job.todo : staging[m] = job.snap[m]
                                           /\ (m \notin late' => to[m] = None)
      BY <1>3 DEF MoveInv, CopyFree
    <2> QED BY <1>1, <2>1, <2>2, <2>3 DEF CopyFree, At, Present
  <1>16. CopyDone'
    <2>1. ASSUME job.pc \in {"place", "last"} \/ (At("reconcile") /\ ~job.renamed),
                 NEW m \in job.done, m \notin late'
          PROVE  to[m] = job.snap[m] \/ from'[m] # job.snap[m]
      <3>1. Compared /\ m \in Names /\ job.snap[m] # None
        BY <2>1, DoneIsListed, JobFacts, DirFacts
      <3>2. CASE m = n
        BY <1>2, <1>13, <2>1, <3>1, <3>2
      <3>3. CASE m # n
        BY <1>2, <1>3, <2>1, <3>1, <3>3 DEF MoveInv, CopyDone
      <3> QED BY <3>2, <3>3
    <2>2. /\ At("place") => Present(job.snap) = job.todo \cup job.done
          /\ At("last") \/ (At("reconcile") /\ ~job.renamed) => Present(job.snap) = job.done
      BY DEF MoveInv, CopyDone
    <2> QED BY <1>1, <2>1, <2>2 DEF CopyDone, At, Present
  <1>17. WholeHere'
    BY <1>1, <1>5 DEF MoveInv, WholeHere
  <1>18. CleanThere'
    BY <1>1 DEF MoveInv, CleanThere
  <1> QED BY <1>1, <1>4, <1>6, <1>7, <1>8, <1>9, <1>10, <1>11, <1>12, <1>14, <1>15, <1>16,
             <1>17, <1>18 DEF MoveInv

(* A change in the new folder, of what the old one does not have.          *)
LEMMA EditsTo ==
    ASSUME Shape, MoveInv, UserStep, NEW n \in Names, NEW e \in {"new", None},
           ~(Back /\ from[n] = "old"), want[n] = "old", to[n] = "old",
           to' = [to EXCEPT ![n] = e], want' = [want EXCEPT ![n] = e], from' = from,
           late' = late
    PROVE  Shape' /\ MoveInv'
  <1>1. /\ UNCHANGED <<staging, oneVolume, byHand, plan, location, job, holes>>
        /\ Brought' = Brought /\ Listed' = Listed /\ Settled' = Settled
        /\ Back' = Back /\ Compared' = Compared
        /\ Control' /\ CleanStaging'
    BY UserKeeps DEF MoveInv
  <1>2. /\ to' \in Dir /\ to'[n] = e /\ e # "own" /\ "old" # None /\ "old" \in Ours
        /\ \A m \in Names : m # n => to'[m] = to[m]
        /\ want' \in [Names -> {None, "old", "new"}] /\ want'[n] = e
        /\ \A m \in Names : m # n => want'[m] = want[m]
    BY RelocateAssumption DEF Shape, Dir, Things, Ours
  <1>3. Shape'
    BY <1>1, <1>2 DEF Shape
  <1>4. /\ \A m \in Names : Holds(to, m) => Holds(to, m)'
        /\ \A m \in Names : m # n /\ Holds(from, m) => Holds(from, m)'
        /\ Holds(to, n)'
    BY <1>2 DEF Holds
  <1>5. Back => /\ from[n] \notin Ours
                /\ Holds(from, n) => n \in late
                /\ Holds(from, n) => Holds(from, n)'
    BY <1>2 DEF MoveInv, FromIsWanted, Holds
  <1>6. FromIsWanted'
    BY <1>1, <1>2, <1>5 DEF MoveInv, FromIsWanted
  <1>7. Somewhere'
    BY <1>1, <1>4 DEF MoveInv, Somewhere
  <1>8. WholeThere'
    BY <1>1, <1>4 DEF MoveInv, WholeThere
  <1>9. NotTheirs'
    BY <1>1, <1>2, JobFacts DEF MoveInv, NotTheirs, Brought
  <1>10. RenamedOnes'
    <2>1. Brought \subseteq Names
      BY JobFacts DEF Brought
    <2> QED BY <1>1, <1>2, <2>1 DEF MoveInv, RenamedOnes
  <1>11. NamesFree'
    BY <1>1, <1>2, JobFacts DEF MoveInv, NamesFree, At
  <1>12. ListedStay'
    <2>1. Listed \subseteq Names
      BY JobFacts DEF Listed, Brought, Present
    <2> QED BY <1>1, <1>4, <1>5, <2>1 DEF MoveInv, ListedStay
  <1>13. Snapped'
    BY <1>1 DEF MoveInv, Snapped
  <1>14. CopyFree'
    <2>1. job.pc \in {"unread", "copy"} =>
             \A m \in Names : m \notin late /\ from[m] = job.snap[m] /\ from[m] # None
               => to'[m] = None
      BY <1>2 DEF MoveInv, CopyFree
    <2>2. At("promote") => /\ staging = job.snap
                           /\ \A m \in Present(job.snap) : m \notin late => to'[m] = None
      BY <1>2, JobFacts, DirFacts DEF MoveInv, CopyFree
    <2>3. At("place") => \A m \in job.todo : staging[m] = job.snap[m]
                                           /\ (m \notin late => to'[m] = None)
      BY <1>2, JobFacts DEF MoveInv, CopyFree
    <2> QED BY <1>1, <2>1, <2>2, <2>3 DEF CopyFree, At, Present
  <1>15. CopyDone'
    <2>1. ASSUME job.pc \in {"place", "last"} \/ (At("reconcile") /\ ~job.renamed),
                 NEW m \in job.done, m \notin late
          PROVE  to'[m] = job.snap[m] \/ from[m] # job.snap[m]
      <3>1. Back /\ m \in Listed /\ m \in Names
        BY <2>1, DoneIsListed, JobFacts
      <3>2. m # n
        BY <1>5, <2>1, <3>1 DEF MoveInv, ListedStay
      <3> QED BY <1>2, <2>1, <3>1, <3>2 DEF MoveInv, CopyDone
    <2>2. /\ At("place") => Present(job.snap) = job.todo \cup job.done
          /\ At("last") \/ (At("reconcile") /\ ~job.renamed) => Present(job.snap) = job.done
      BY DEF MoveInv, CopyDone
    <2> QED BY <1>1, <2>1, <2>2 DEF CopyDone, At, Present
  <1>16. WholeHere'
    BY <1>1, <1>4, <1>5 DEF MoveInv, WholeHere
  <1>17. CleanThere'
    BY <1>1, <1>2 DEF MoveInv, CleanThere
  <1> QED BY <1>1, <1>3, <1>6, <1>7, <1>8, <1>9, <1>10, <1>11, <1>12, <1>13, <1>14, <1>15,
             <1>16, <1>17 DEF MoveInv

LEMMA Edits ==
    ASSUME Shape, MoveInv, NEW n \in Names, NEW e \in {"new", None}, Edit(n, e)
    PROVE  Shape' /\ MoveInv'
  <1>1. CASE location = "from" /\ from[n] = "old"
    BY <1>1, EditsFrom, RelocateAssumption DEF Edit, Back
  <1>2. CASE ~(location = "from" /\ from[n] = "old")
    BY <1>2, EditsTo DEF Edit, Back
  <1> QED BY <1>1, <1>2

LEMMA Adds ==
    ASSUME Shape, MoveInv, NEW n \in Names, Add(n)
    PROVE  Shape' /\ MoveInv'
  BY EditsFrom DEF Add, Back

(* A thing of the user's in the new folder.                                *)
LEMMA Puts ==
    ASSUME Shape, MoveInv, NEW n \in Names, Put(n)
    PROVE  Shape' /\ MoveInv'
  <1>1. /\ UNCHANGED <<staging, oneVolume, byHand, plan, location, job, holes>>
        /\ Brought' = Brought /\ Listed' = Listed /\ Settled' = Settled
        /\ Back' = Back /\ Compared' = Compared
        /\ Control' /\ CleanStaging' /\ from' = from /\ want' = want
    BY UserKeeps DEF MoveInv, Put
  <1>2. /\ to[n] = None /\ to' \in Dir /\ to'[n] = "own"
        /\ \A m \in Names : m # n => to'[m] = to[m]
    BY DEF Put, Shape, Dir, Things
  <1>3. /\ late \subseteq late' /\ late' \subseteq Names
        /\ job.pc \notin Resting \cup {"look", "names"} => n \in late'
        /\ \A m \in Names : m # n /\ m \notin late' => m \notin late
    BY DEF Put, Shape, Resting
  <1>4. Shape'
    BY <1>1, <1>2, <1>3 DEF Shape
  <1>5. \A m \in Names : /\ Holds(to, m) => Holds(to, m)'
                         /\ Holds(from, m) => Holds(from, m)'
    BY <1>1, <1>2, <1>3 DEF Holds
  <1>6. FromIsWanted' /\ Somewhere' /\ WholeThere' /\ WholeHere'
    BY <1>1, <1>3, <1>5 DEF MoveInv, FromIsWanted, Somewhere, WholeThere, WholeHere
  <1>7. ListedStay'
    <2>1. Listed \subseteq Names
      BY JobFacts DEF Listed, Brought, Present
    <2> QED BY <1>1, <1>5, <2>1 DEF MoveInv, ListedStay
  <1>8. Brought \subseteq Names /\ (n \in Brought => n \in late')
    BY <1>3, JobFacts DEF Brought, Resting, At
  <1>9. NotTheirs'
    BY <1>1, <1>2, <1>3, <1>8 DEF MoveInv, NotTheirs
  <1>10. RenamedOnes'
    BY <1>1, <1>2, <1>8, DirFacts DEF MoveInv, RenamedOnes
  <1>11. NamesFree'
    BY <1>1, <1>2, <1>3, JobFacts DEF MoveInv, NamesFree, At, Resting
  <1>12. Snapped'
    BY <1>1, <1>3 DEF MoveInv, Snapped
  <1>13. CopyFree'
    <2>1. job.pc \in {"unread", "copy"} =>
             \A m \in Names : m \notin late' /\ from[m] = job.snap[m] /\ from[m] # None
               => to'[m] = None
      BY <1>2, <1>3 DEF MoveInv, CopyFree, Resting
    <2>2. At("promote") => /\ staging = job.snap
                           /\ \A m \in Present(job.snap) : m \notin late' => to'[m] = None
      BY <1>2, <1>3, JobFacts, DirFacts DEF MoveInv, CopyFree, Resting, At
    <2>3. At("place") => \A m \in job.todo : staging[m] = job.snap[m]
                                           /\ (m \notin late' => to'[m] = None)
      BY <1>2, <1>3, JobFacts DEF MoveInv, CopyFree, Resting, At
    <2> QED BY <1>1, <2>1, <2>2, <2>3 DEF CopyFree, At, Present
  <1>14. CopyDone'
    <2>1. job.pc \in {"place", "last"} \/ (At("reconcile") /\ ~job.renamed) =>
             \A m \in job.done : m \notin late' =>
               to'[m] = job.snap[m] \/ from[m] # job.snap[m]
      BY <1>2, <1>3, JobFacts DEF MoveInv, CopyDone, Resting, At
    <2>2. /\ At("place") => Present(job.snap) = job.todo \cup job.done
          /\ At("last") \/ (At("reconcile") /\ ~job.renamed) => Present(job.snap) = job.done
      BY DEF MoveInv, CopyDone
    <2> QED BY <1>1, <2>1, <2>2 DEF CopyDone, At, Present
  <1>15. CleanThere'
    BY <1>1, <1>2, DirFacts DEF MoveInv, CleanThere
  <1> QED BY <1>1, <1>4, <1>6, <1>7, <1>9, <1>10, <1>11, <1>12, <1>13, <1>14, <1>15
          DEF MoveInv

-----------------------------------------------------------------------------
(* The invariant holds throughout.                                         *)

LEMMA MoveInit == Init => Shape /\ MoveInv
  <1> SUFFICES ASSUME Init PROVE Shape /\ MoveInv
    OBVIOUS
  <1>1. PICK lib \in {Names, Names \ Files} :
          /\ want = [n \in Names |-> IF n \in lib THEN "old" ELSE None]
          /\ from = IF byHand = "moved" THEN Empty ELSE want
          /\ to = IF byHand = "no" THEN Empty ELSE want
    BY DEF Init
  <1>2. /\ want \in [Names -> {None, "old", "new"}] /\ want \in Dir
        /\ \A n \in Names : want[n] # "own" /\ want[n] # "new"
    BY <1>1, RelocateAssumption DEF Dir, Things
  <1>3. /\ staging = Empty /\ plan = NoPlan /\ location = "from" /\ job = Idle
        /\ late = {} /\ holes = {} /\ oneVolume \in BOOLEAN
        /\ byHand \in {"no", "moved", "copied"}
    BY DEF Init
  <1> HIDE DEF Init
  <1>4. Shape
    BY <1>1, <1>2, <1>3, DirFacts, IdleFacts DEF Shape
  <1>5. Control
    BY <1>3, IdleFacts DEF Control, Resting, Back, Early, Copying
  <1>6. /\ \A n \in Names : from[n] \in {None, want[n]} /\ to[n] \in {None, want[n]}
        /\ \A n \in Names : from[n] = want[n] \/ to[n] = want[n]
        /\ byHand = "no" => \A n \in Names : from[n] = want[n] /\ to[n] = None
    BY <1>1, <1>3, DirFacts
  <1>7. Brought = {} /\ Listed = {}
    BY <1>3, IdleFacts DEF Brought, Listed, Compared, Copying, At
  <1>8. FromIsWanted /\ Somewhere /\ WholeHere
    BY <1>2, <1>6, DirFacts DEF FromIsWanted, Somewhere, WholeHere, Holds
  <1>9. WholeThere /\ NamesFree /\ Snapped /\ CopyFree /\ CopyDone
    BY <1>3, IdleFacts DEF WholeThere, Settled, Back, NamesFree, Snapped, CopyFree, CopyDone,
                           Compared, Copying, At
  <1>10. NotTheirs /\ RenamedOnes /\ ListedStay
    BY <1>7 DEF NotTheirs, RenamedOnes, ListedStay
  <1>11. CleanThere /\ CleanStaging
    BY <1>3, <1>6, DirFacts DEF CleanThere, CleanStaging
  <1> QED BY <1>4, <1>5, <1>8, <1>9, <1>10, <1>11 DEF MoveInv

LEMMA Stutters == Shape /\ MoveInv /\ UNCHANGED vars => Shape' /\ MoveInv'
  <1> SUFFICES ASSUME Shape, MoveInv, UNCHANGED vars PROVE Shape' /\ MoveInv'
    OBVIOUS
  <1>1. /\ UNCHANGED <<from, to, staging, oneVolume, byHand, plan, location, job, want, late,
                       holes>>
    BY DEF vars, dirVars, givens, userVars
  <1>2. Brought' = Brought /\ Listed' = Listed /\ Settled' = Settled /\ Back' = Back
        /\ Compared' = Compared
    BY <1>1 DEF Brought, Listed, Settled, Back, Compared, At, Present
  <1>3. Shape'
    BY <1>1 DEF Shape
  <1>4. \A n \in Names : Holds(from, n)' = Holds(from, n) /\ Holds(to, n)' = Holds(to, n)
    BY <1>1 DEF Holds
  <1>5. /\ Control' /\ FromIsWanted' /\ NotTheirs' /\ RenamedOnes' /\ NamesFree'
        /\ Snapped' /\ CopyFree' /\ CopyDone' /\ CleanThere' /\ CleanStaging'
    BY <1>1, <1>2 DEF MoveInv, Control, FromIsWanted, NotTheirs, RenamedOnes, NamesFree,
                      Snapped, CopyFree, CopyDone, CleanThere, CleanStaging, At, Present
  <1>6. Listed \subseteq Names
    BY JobFacts DEF Listed, Brought, Present
  <1>7. Somewhere' /\ WholeThere' /\ ListedStay' /\ WholeHere'
    BY <1>1, <1>2, <1>4, <1>6 DEF MoveInv, Somewhere, WholeThere, ListedStay, WholeHere
  <1> QED BY <1>3, <1>5, <1>7 DEF MoveInv

LEMMA MoveStep == Shape /\ MoveInv /\ [Next]_vars => Shape' /\ MoveInv'
  <1> SUFFICES ASSUME Shape, MoveInv, [Next]_vars PROVE Shape' /\ MoveInv'
    OBVIOUS
  <1>1. CASE \/ LookFails \/ SubsetFails \/ Unreadable \/ CopyFails \/ ScanFails \/ Undone
          \/ RelistFails
    BY <1>1, GiveUps
  <1>2. CASE \/ RenameFails \/ PlaceFails \/ IndexFails
    BY <1>2, TakesBack
  <1>3. CASE ListNames
    BY <1>3, GiveUps, Lists
  <1>4. CASE RenameChecked
    BY <1>4, TakesBack, Checks
  <1>5. CASE Verify
    BY <1>5, GiveUps, CopyTurns
  <1>6. CASE Reconcile
    BY <1>6, TakesBack, Checks
  <1>7. CASE LastCheck
    BY <1>7, TakesBack, Checks
  <1>8. CASE PointFails \/ MarkFails
    BY <1>8, TakesBack, PointsFail
  <1>9. CASE Exit \/ Abandon \/ Crash \/ Finish
    BY <1>9, Downs
  <1>10. CASE PlanMove
    BY <1>10, Planned
  <1>11. CASE Start
    BY <1>11, Starts
  <1>12. CASE Relist \/ Reclaimed
    BY <1>12, Relists, Reclaims
  <1>13. CASE Point \/ MarkFlipped
    BY <1>13, Points
  <1>14. CASE Look
    BY <1>14, Looks
  <1>15. CASE ClearStaging \/ CopyOne \/ Promote \/ Placed
    BY <1>15, CopyTurns
  <1>16. CASE UndoSkips
    BY <1>16, Skips
  <1>17. CASE RenameOne
    BY <1>17, Renames
  <1>18. CASE PlaceOne
    BY <1>18, Places
  <1>19. CASE UndoOne
    BY <1>19, UndoesOne
  <1>20. CASE ReclaimOne
    BY <1>20, ReclaimsOne
  <1>21. CASE RemoveSource
    BY <1>21, Removes
  <1>22. CASE \E n \in Names, e \in {"new", None} : Edit(n, e)
    BY <1>22, Edits
  <1>23. CASE \E n \in Names : Add(n) \/ Put(n)
    BY <1>23, Adds, Puts
  <1>24. CASE UNCHANGED vars
    BY <1>24, Stutters
  <1> QED BY <1>1, <1>2, <1>3, <1>4, <1>5, <1>6, <1>7, <1>8, <1>9, <1>10, <1>11, <1>12, <1>13,
             <1>14, <1>15, <1>16, <1>17, <1>18, <1>19, <1>20, <1>21, <1>22, <1>23, <1>24
          DEF Next, Working

LEMMA MoveAlways == Spec => [](Shape /\ MoveInv)
  BY MoveInit, MoveStep, PTL DEF Spec

-----------------------------------------------------------------------------
(* What the library is promised.                                           *)

(* Wherever the move fails or crashes, and as often, what the user means   *)
(* the library to hold is in the old folder or in the new one, unless it   *)
(* was changed in the old one after the last comparison or an error came   *)
(* after the new place was written (relocate.rs, main.rs).                 *)
THEOREM NeverLost == Spec => []NothingLost
  <1>1. MoveInv => NothingLost
    BY DEF MoveInv, Somewhere, NothingLost
  <1> QED BY <1>1, MoveAlways, PTL

(* With no plan left, the library is whole in the place where it is looked *)
(* for, and if that is the old one nothing of it is in the new one: for    *)
(* every plan that was given up or finished, after any crashes, outside    *)
(* the weak points that the steps name in holes (relocate.rs).             *)
THEOREM OneOfTwo == Spec => []EndsInOneOfTwo
  <1>1. Shape /\ MoveInv => EndsInOneOfTwo
    <2> SUFFICES ASSUME Shape, MoveInv, ~plan.on, byHand = "no"
                 PROVE  \/ location = "to"
                           /\ ("pointed" \in holes \/ \A n \in Names : Holds(to, n))
                        \/ /\ location = "from"
                           /\ ("split" \in holes \/ \A n \in Names : Holds(from, n))
                           /\ \/ holes # {}
                              \/ staging = Empty /\ \A n \in Names : to[n] \notin Ours
      BY DEF EndsInOneOfTwo
    <2>1. plan = NoPlan /\ job.pc \in Resting /\ Brought = {} /\ ~plan.promoting
      BY IdleFacts DEF MoveInv, Control, Brought, Resting, At
    <2>2. CASE location = "to"
      BY <2>2 DEF MoveInv, WholeThere, Settled, Back
    <2>3. CASE location = "from"
      BY <2>1, <2>3 DEF MoveInv, WholeHere, CleanThere, CleanStaging, Back
    <2> QED BY <2>2, <2>3 DEF Shape
  <1> QED BY <1>1, MoveAlways, PTL

(* No step of the move replaces, deletes or takes away a thing of the      *)
(* user's that was in the new folder when the names were compared, but the *)
(* start after a crash in the promotion (relocate.rs: move_library_with,   *)
(* Moved::undo).                                                           *)
THEOREM OthersStay == Spec => OthersUntouched
  <1>1. Shape /\ MoveInv /\ [Next]_vars =>
          [\A n \in Names : to[n] = "own" /\ n \notin late =>
             to'[n] = "own" \/ At("reclaim")]_vars
    <2> SUFFICES ASSUME Shape, MoveInv, Next, NEW n \in Names, to[n] = "own", n \notin late,
                        ~At("reclaim"), to'[n] # "own"
                 PROVE  FALSE
      OBVIOUS
    <2>1. to' # to
      OBVIOUS
    <2>2. \/ RenameOne \/ PlaceOne \/ UndoOne
          \/ \E m \in Names, e \in {"new", None} : Edit(m, e)
          \/ \E m \in Names : Put(m)
      <3>1. ~ReclaimOne
        BY DEF ReclaimOne
      <3> QED BY <2>1, <3>1
           DEF Next, Working, Exit, Start, Abandon, Relist, RelistFails, Reclaimed, Look, LookFails, ListNames,
               RenameFails, RenameChecked, SubsetFails, Unreadable, ClearStaging, CopyOne,
               Verify, CopyFails, ScanFails, Promote, PlaceFails, Placed, Reconcile, IndexFails,
               LastCheck, UndoSkips, Undone, Point, PointFails, MarkFlipped, MarkFails,
               RemoveSource, Finish, PlanMove, Crash, Add, dirVars
    <2>3. to \in Dir /\ None # "own" /\ "old" # "own"
      BY RelocateAssumption DEF Shape
    <2>4. CASE RenameOne
      BY <2>3, <2>4, JobFacts DEF RenameOne, MoveInv, NamesFree, Dir
    <2>5. CASE PlaceOne
      BY <2>3, <2>5, JobFacts DEF PlaceOne, MoveInv, CopyFree, Dir
    <2>6. CASE UndoOne
      <3>1. Brought = job.todo
        BY <2>6 DEF UndoOne, Undoing, Brought
      <3>2. n \notin job.todo
        BY <3>1 DEF MoveInv, NotTheirs
      <3> QED BY <2>3, <2>6, <3>2, JobFacts DEF UndoOne, Dir
    <2>7. CASE \E m \in Names, e \in {"new", None} : Edit(m, e)
      BY <2>3, <2>7 DEF Edit, Dir
    <2>8. CASE \E m \in Names : Put(m)
      BY <2>3, <2>8 DEF Put, Dir
    <2> QED BY <2>2, <2>4, <2>5, <2>6, <2>7, <2>8
  <1> QED BY <1>1, MoveAlways, PTL DEF Spec, OthersUntouched
=============================================================================
