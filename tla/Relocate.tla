------------------------------ MODULE Relocate ------------------------------
(***************************************************************************)
(* Moving the whole library to a folder the user has chosen.  A plan is    *)
(* written down and the daemon restarts; what starts then does nothing but *)
(* the move: entry by entry by renaming on one volume, else by a copy into *)
(* a staging folder, a comparison, and renaming out of it.  Then the place *)
(* of the library is set, and only then the old folder is deleted.  Every  *)
(* error before that takes back what was done and gives the plan up; after *)
(* a crash the plan is still there and the next start goes on.             *)
(*                                                                         *)
(* Translated from crates/daemon: relocate.rs, and its callers in main.rs, *)
(* ipc.rs and library_location.rs.                                         *)
(*                                                                         *)
(* Simplifications                                                         *)
(*  - A folder is its top-level entries.  What the library has under a     *)
(*    name is "old", or "new" once the user has changed it, which a        *)
(*    comparison of size and time tells apart.  "own" is a thing of the    *)
(*    user's in the new folder.                                            *)
(*  - Moving an entry, copying it and deleting it is one step each.        *)
(*  - leftover takes a folder it cannot list for an empty one; here it      *)
(*    can list.  A listing that fails, fails whole.                        *)
(*  - Checks that only refuse (nested folders, network disks, space) are   *)
(*    left out; the move goes from one folder to one other.                *)
(*  - The user does not make an entry anew under a name that the move has  *)
(*    just taken out of the old folder.                                    *)
(***************************************************************************)
EXTENDS Naturals, FiniteSets

CONSTANTS
    Names,       (* top-level entries                                       *)
    Marker,      (* .ppf, which holds the id of the library                 *)
    Files,       (* entries that are plain files: a rename replaces them    *)
    Indexed,     (* entries that hold photos of the index                   *)
    MaxUser,     (* bound on the steps of the user                          *)
    MaxCrashes,  (* bound on crashes                                        *)
    None

ASSUME RelocateAssumption ==
    /\ Marker \in Names \ Files /\ Files \subseteq Names /\ Indexed \subseteq Names
    /\ MaxUser \in Nat /\ MaxCrashes \in Nat
    /\ None \notin {"old", "new", "own"}

VARIABLES
    from, to, staging, (* the old folder, the new one, .p-pass-moving in it *)
    oneVolume,         (* both are on one volume                            *)
    byHand,            (* what the user did before asking: "no", "moved" or *)
                       (* "copied" the library                              *)
    plan,              (* relocation.json                                   *)
    location,          (* the place of the library, as a start reads it     *)
    job,               (* the daemon: where it stands, the entries before   *)
                       (* it and behind it, the snapshot, how it moves      *)
    want,              (* history: what the user means the library to hold  *)
    late,              (* history: names touched after the check for them   *)
    holes,             (* history: known weak points this run has met       *)
    userSteps, crashes (* counted against the bounds                        *)

dirVars  == <<from, to, staging>>
userVars == <<want, late, userSteps>>
givens   == <<oneVolume, byHand>>
vars == <<dirVars, givens, plan, location, job, userVars, holes, crashes>>

Ours == {"old", "new"}
Empty == [n \in Names |-> None]
Present(dir) == {n \in Names : dir[n] # None}
Only(dir, names) == [n \in Names |-> IF n \in names THEN dir[n] ELSE None]

NoPlan == [on |-> FALSE, flipped |-> FALSE, promoting |-> FALSE]
Idle == [pc |-> "down", todo |-> {}, done |-> {}, snap |-> Empty, renamed |-> TRUE]

(* read_library_id                                                         *)
HasId(dir) == dir[Marker] \in Ours

At(pc) == job.pc = pc

Init ==
    /\ oneVolume \in BOOLEAN
    /\ byHand \in {"no", "moved", "copied"}
    /\ \E lib \in {Names, Names \ Files} :
         /\ want = [n \in Names |-> IF n \in lib THEN "old" ELSE None]
         /\ from = IF byHand = "moved" THEN Empty ELSE want
         /\ to = IF byHand = "no" THEN Empty ELSE want
    /\ staging = Empty
    /\ plan = NoPlan /\ location = "from"
    /\ job = Idle
    /\ late = {} /\ holes = {}
    /\ userSteps = 0 /\ crashes = 0

-----------------------------------------------------------------------------
(* Frames.                                                                 *)

Still == UNCHANGED <<givens, userVars, crashes>>
Goto(pc) == job' = [job EXCEPT !.pc = pc]

(* undo_names comes next, for these names.                                 *)
Undo(names) == job' = [job EXCEPT !.pc = "undo", !.todo = names]

(* remove_dir_all of the staging folder.  Its errors are not looked at: what *)
(* could not be deleted stays.                                             *)
Cleanup ==
    \E left \in SUBSET Present(staging) :
        /\ staging' = Only(staging, left)
        /\ holes' = IF left = {} THEN holes ELSE holes \cup {"leftover"}

(* mutant: the new folder's things by the names of the library are not seen *)
first_conflict_None == FALSE

first_conflict == Present(from) \cap Present(to) # {}

-----------------------------------------------------------------------------
(* Asking for the move, and starts.                                        *)

(* relocate_resp, plan: the new folder is this library already, or has     *)
(* nothing by the names of the library.  The daemon exits soon after.      *)
PlanMove ==
    /\ job.pc \in {"serve", "missing"} /\ location = "from" /\ ~plan.on
    /\ \/ HasId(to)
       \/ from[Marker] # None /\ ~first_conflict /\ to[Marker] # "own"
    /\ plan' = [NoPlan EXCEPT !.on = TRUE]
    /\ UNCHANGED <<dirVars, location, job, holes>> /\ Still

Exit ==
    /\ job.pc \in {"serve", "missing"} /\ plan.on
    /\ Goto("down")
    /\ UNCHANGED <<dirVars, plan, location, holes>> /\ Still

already_repointed == plan.flipped \/ location = "to"

(* main: with a plan, this process only moves; else it opens the library,  *)
(* or waits where there is none.                                           *)
Start ==
    /\ At("down")
    /\ job' = [Idle EXCEPT
         !.pc = IF ~plan.on
                  THEN IF HasId(IF location = "to" THEN to ELSE from)
                         THEN "serve" ELSE "missing"
                ELSE IF already_repointed THEN "remove"
                ELSE IF plan.promoting THEN "relist" ELSE "look"]
    /\ UNCHANGED <<dirVars, plan, location, holes>> /\ Still

Crash ==
    /\ ~At("down") /\ crashes < MaxCrashes
    /\ job' = Idle
    /\ holes' = IF job.renamed /\ Present(to) \cap Present(want) # {}
                   /\ job.pc \in {"rename", "undo", "reconcile", "point"}
                  THEN holes \cup {"split"} ELSE holes
    /\ crashes' = crashes + 1
    /\ UNCHANGED <<dirVars, givens, plan, location, userVars>>

(* abandon: the reason is kept for the window, the plan is not.            *)
Abandon ==
    /\ At("abandon")
    /\ plan' = NoPlan
    /\ Goto("down")
    /\ UNCHANGED <<dirVars, location, holes>> /\ Still

-----------------------------------------------------------------------------
(* move_library_with, up to the choice of the way.                         *)

(* The last run was renaming out of its staging folder: what has a name of *)
(* the library in the new folder is its own, and goes.                     *)
Relist ==
    /\ At("relist")
    /\ job' = [job EXCEPT !.pc = "reclaim", !.todo = Present(from)]
    /\ UNCHANGED <<dirVars, plan, location, holes>> /\ Still

(* The names of the library cannot be listed: the plan is given up with    *)
(* what was placed, and the staging folder, still in the new folder.       *)
RelistFails ==
    /\ At("relist")
    /\ Goto("abandon")
    /\ holes' = holes \cup {"leftover"}
    /\ UNCHANGED <<dirVars, plan, location>> /\ Still

ReclaimOne ==
    /\ At("reclaim")
    /\ \E n \in job.todo :
         /\ to' = [to EXCEPT ![n] = None]
         /\ job' = [job EXCEPT !.todo = @ \ {n}]
    /\ UNCHANGED <<from, staging, plan, location, holes>> /\ Still

(* A name that the user has taken out of the library meanwhile stays, and  *)
(* so does what could not be deleted.                                      *)
Reclaimed ==
    /\ At("reclaim") /\ job.todo = {}
    /\ \E left \in SUBSET Present(staging) :
         /\ staging' = Only(staging, left)
         /\ holes' = IF left # {} \/ \E n \in Names : to[n] \in Ours
                       THEN holes \cup {"leftover"} ELSE holes
    /\ Goto("look")
    /\ UNCHANGED <<from, to, plan, location>> /\ Still

(* mutant: the library's id in the new folder is enough *)
Look_IdIsEnough ==
    /\ At("look")
    /\ IF HasId(to)
         THEN Goto("point")
         ELSE job' = [job EXCEPT !.pc = "names", !.snap = from]
    /\ UNCHANGED <<dirVars, plan, location, holes>> /\ Still

(* The library may be there already; else the snapshot is taken.           *)
Look ==
    /\ At("look")
    /\ IF HasId(to) /\ Present(from) = {}
         THEN Goto("point")
         ELSE job' = [job EXCEPT !.pc = "names", !.snap = from]
    /\ UNCHANGED <<dirVars, plan, location, holes>> /\ Still

(* A staging folder that an earlier run has left is not looked at.         *)
PassStaging == holes' = IF staging # Empty THEN holes \cup {"leftover"} ELSE holes
GiveUpEarly == Goto("abandon") /\ PassStaging

(* Any listing of a folder may fail.                                       *)
LookFails ==
    /\ job.pc \in {"look", "names"}
    /\ GiveUpEarly
    /\ UNCHANGED <<dirVars, plan, location>> /\ Still

(* The entries are listed, and the new folder checked again.  A volume     *)
(* that cannot be read counts as another one.                              *)
ListNames ==
    /\ At("names")
    /\ IF first_conflict
         THEN GiveUpEarly
         ELSE \E same \in {oneVolume, FALSE} :
                /\ job' = [job EXCEPT !.todo = Present(from), !.done = {},
                                      !.renamed = same,
                                      !.pc = IF same THEN "rename" ELSE "unread"]
                /\ IF same THEN PassStaging ELSE UNCHANGED holes
    /\ UNCHANGED <<dirVars, plan, location>> /\ Still

-----------------------------------------------------------------------------
(* On one volume.                                                          *)

(* A directory in the way stops a rename, a file is replaced.              *)
CanRename(n, dir) == dir[n] = None \/ n \in Files

RenameOne ==
    /\ At("rename")
    /\ \E n \in job.todo :
         /\ from[n] # None /\ CanRename(n, to)
         /\ to' = [to EXCEPT ![n] = from[n]]
         /\ from' = [from EXCEPT ![n] = None]
         /\ job' = [job EXCEPT !.todo = @ \ {n}, !.done = @ \cup {n}]
    /\ UNCHANGED <<staging, plan, location, holes>> /\ Still

(* The entry is gone, the name is taken, the system refuses.               *)
RenameFails ==
    /\ At("rename") /\ job.todo # {}
    /\ Undo(job.done)
    /\ UNCHANGED <<dirVars, plan, location, holes>> /\ Still

(* Nothing may be left in the old folder, nothing differ in the new one.   *)
RenameChecked ==
    /\ At("rename") /\ job.todo = {}
    /\ IF Present(from) # {} \/ Only(to, job.done) # job.snap
         THEN Undo(job.done) ELSE Goto("reconcile")
    /\ UNCHANGED <<dirVars, plan, location, holes>> /\ Still

(* subset cannot read the new folder: an error, and nothing is taken back. *)
SubsetFails ==
    /\ At("rename") /\ job.todo = {} /\ Present(from) = {}
    /\ Goto("abandon")
    /\ holes' = holes \cup {"split"}
    /\ UNCHANGED <<dirVars, plan, location>> /\ Still

-----------------------------------------------------------------------------
(* Across volumes.                                                         *)

(* first_unreadable                                                        *)
Unreadable ==
    /\ At("unread")
    /\ GiveUpEarly
    /\ UNCHANGED <<dirVars, plan, location>> /\ Still

ClearStaging ==
    /\ At("unread")
    /\ Cleanup
    /\ Goto("copy")
    /\ UNCHANGED <<from, to, plan, location>> /\ Still

CopyOne ==
    /\ At("copy")
    /\ \E n \in job.todo :
         /\ staging' = [staging EXCEPT ![n] = from[n]]
         /\ job' = [job EXCEPT !.todo = @ \ {n}]
    /\ UNCHANGED <<from, to, plan, location, holes>> /\ Still

(* The copy is what the snapshot says, and the source still is.            *)
Verify ==
    /\ At("copy") /\ job.todo = {}
    /\ IF staging = job.snap /\ from = job.snap
         THEN Goto("promote") /\ UNCHANGED <<staging, holes>>
         ELSE Goto("abandon") /\ Cleanup
    /\ UNCHANGED <<from, to, plan, location>> /\ Still

(* The copy tool, or saving the plan.                                      *)
CopyFails ==
    /\ job.pc \in {"copy", "promote"}
    /\ Cleanup
    /\ Goto("abandon")
    /\ UNCHANGED <<from, to, plan, location>> /\ Still

(* A listing of the copy, or the last one of the source: what is in the    *)
(* new folder stays.                                                       *)
ScanFails ==
    /\ \/ At("copy") /\ job.todo = {}
       \/ At("last")
    /\ Goto("abandon")
    /\ holes' = holes \cup {"leftover"}
    /\ UNCHANGED <<dirVars, plan, location>> /\ Still

(* mutant: the plan does not say that renaming begins *)
Promote_Unsaved ==
    /\ At("promote")
    /\ job' = [job EXCEPT !.pc = "place", !.todo = Present(job.snap)]
    /\ UNCHANGED <<dirVars, plan, location, holes>> /\ Still

Promote ==
    /\ At("promote")
    /\ plan' = [plan EXCEPT !.promoting = TRUE]
    /\ job' = [job EXCEPT !.pc = "place", !.todo = Present(job.snap)]
    /\ UNCHANGED <<dirVars, location, holes>> /\ Still

PlaceOne ==
    /\ At("place")
    /\ \E n \in job.todo :
         /\ CanRename(n, to)
         /\ to' = [to EXCEPT ![n] = staging[n]]
         /\ staging' = [staging EXCEPT ![n] = None]
         /\ job' = [job EXCEPT !.todo = @ \ {n}, !.done = @ \cup {n}]
    /\ UNCHANGED <<from, plan, location, holes>> /\ Still

(* What was placed is taken back, and then the staging folder goes.        *)
PlaceFails ==
    /\ At("place") /\ job.todo # {}
    /\ job' = [job EXCEPT !.pc = "unplace", !.todo = job.done]
    /\ UNCHANGED <<dirVars, plan, location, holes>> /\ Still

Placed ==
    /\ At("place") /\ job.todo = {}
    /\ Cleanup
    /\ Goto("reconcile")
    /\ UNCHANGED <<from, to, plan, location>> /\ Still

-----------------------------------------------------------------------------
(* Both ways again.                                                        *)

(* Every photo of the index that the snapshot holds must be there.         *)
Reconcile ==
    /\ At("reconcile")
    /\ IF \E n \in Indexed : job.snap[n] # None /\ to[n] = None
         THEN Undo(job.done)
         ELSE Goto(IF job.renamed THEN "point" ELSE "last")
    /\ UNCHANGED <<dirVars, plan, location, holes>> /\ Still

IndexFails ==
    /\ At("reconcile")
    /\ Undo(job.done)
    /\ UNCHANGED <<dirVars, plan, location, holes>> /\ Still

(* The source is compared with the snapshot for the last time.             *)
LastCheck ==
    /\ At("last")
    /\ IF from = job.snap THEN Goto("point") ELSE Undo(job.done)
    /\ UNCHANGED <<dirVars, plan, location, holes>> /\ Still

(* Moved::undo.  An entry that cannot be renamed back stays; a copy is     *)
(* deleted.                                                                *)
Undoing == job.pc \in {"undo", "unplace"}

UndoOne ==
    /\ Undoing
    /\ \E n \in job.todo :
         /\ IF ~job.renamed
              THEN to' = [to EXCEPT ![n] = None] /\ UNCHANGED from
            ELSE IF to[n] # None /\ CanRename(n, from)
              THEN /\ from' = [from EXCEPT ![n] = to[n]]
                   /\ to' = [to EXCEPT ![n] = None]
              ELSE UNCHANGED <<from, to>>
         /\ job' = [job EXCEPT !.todo = @ \ {n}]
    /\ UNCHANGED <<staging, plan, location, holes>> /\ Still

(* Errors of undo_names are not looked at, those of the reclaim included.  *)
UndoSkips ==
    /\ Undoing \/ At("reclaim")
    /\ \E n \in job.todo : job' = [job EXCEPT !.todo = @ \ {n}]
    /\ holes' = holes \cup {IF Undoing /\ job.renamed THEN "split" ELSE "leftover"}
    /\ UNCHANGED <<dirVars, plan, location>> /\ Still

Undone ==
    /\ Undoing /\ job.todo = {}
    /\ IF At("unplace") THEN Cleanup ELSE UNCHANGED <<staging, holes>>
    /\ Goto("abandon")
    /\ UNCHANGED <<from, to, plan, location>> /\ Still

(* complete: the new place is written, the plan marked, the source deleted.*)
Point ==
    /\ At("point")
    /\ location' = "to"
    /\ Goto("mark")
    /\ UNCHANGED <<dirVars, plan, holes>> /\ Still

(* LibraryLocation::set fails, perhaps after it has written the place.     *)
PointFails ==
    /\ At("point")
    /\ \/ UNCHANGED <<location, holes>>
       \/ location' = "to" /\ holes' = holes \cup {"pointed"}
    /\ Undo(job.done)
    /\ UNCHANGED <<dirVars, plan>> /\ Still

MarkFlipped ==
    /\ At("mark")
    /\ plan' = [plan EXCEPT !.flipped = TRUE]
    /\ Goto("remove")
    /\ UNCHANGED <<dirVars, location, holes>> /\ Still

MarkFails ==
    /\ At("mark")
    /\ holes' = holes \cup {"pointed"}
    /\ Undo(job.done)
    /\ UNCHANGED <<dirVars, plan, location>> /\ Still

(* finish_flipped, remove_source: only where the new place has the id.     *)
RemoveSource ==
    /\ At("remove") /\ HasId(to)
    /\ \E n \in Present(from) : from' = [from EXCEPT ![n] = None]
    /\ UNCHANGED <<to, staging, plan, location, job, holes>> /\ Still

(* mutant: the plan stays until the old folder is gone *)
Finish_Gone ==
    /\ At("remove") /\ Present(from) = {}
    /\ plan' = NoPlan
    /\ Goto("down")
    /\ UNCHANGED <<dirVars, location, holes>> /\ Still

(* All is gone, or it cannot be deleted and the window says so.            *)
Finish ==
    /\ At("remove")
    /\ plan' = NoPlan
    /\ Goto("down")
    /\ UNCHANGED <<dirVars, location, holes>> /\ Still

-----------------------------------------------------------------------------
(* The user, who has both folders open.                                    *)

UserStep ==
    /\ userSteps < MaxUser
    /\ userSteps' = userSteps + 1
    /\ UNCHANGED <<staging, givens, plan, location, job, holes, crashes>>

(* The old folder has been compared for the last time.                     *)
Committed ==
    location = "to" \/ At("point") \/ (At("reconcile") /\ job.renamed)

(* A change, or the removal, of what the library holds under a name.       *)
Edit(n, e) ==
    /\ want[n] = "old"
    /\ want' = [want EXCEPT ![n] = e]
    /\ IF location = "from" /\ from[n] = "old"
         THEN /\ from' = [from EXCEPT ![n] = e]
              /\ late' = IF Committed THEN late \cup {n} ELSE late
              /\ UNCHANGED to
         ELSE /\ to[n] = "old"
              /\ to' = [to EXCEPT ![n] = e]
              /\ UNCHANGED <<from, late>>
    /\ UserStep

(* Something new in the library's folder.                                  *)
Add(n) ==
    /\ location = "from" /\ want[n] = None /\ from[n] = None
    /\ from' = [from EXCEPT ![n] = "new"]
    /\ want' = [want EXCEPT ![n] = "new"]
    /\ late' = IF Committed THEN late \cup {n} ELSE late
    /\ UNCHANGED to /\ UserStep

(* Something else in the new folder.                                       *)
Put(n) ==
    /\ to[n] = None
    /\ to' = [to EXCEPT ![n] = "own"]
    /\ late' = IF job.pc \in {"down", "serve", "missing", "look", "names"}
                 THEN late ELSE late \cup {n}
    /\ UNCHANGED <<from, want>> /\ UserStep

-----------------------------------------------------------------------------
Working ==
    \/ Exit \/ Start \/ Abandon
    \/ Relist \/ RelistFails \/ ReclaimOne \/ Reclaimed \/ Look \/ LookFails \/ ListNames
    \/ RenameOne \/ RenameFails \/ RenameChecked \/ SubsetFails
    \/ Unreadable \/ ClearStaging \/ CopyOne \/ Verify \/ CopyFails \/ ScanFails
    \/ Promote \/ PlaceOne \/ PlaceFails \/ Placed
    \/ Reconcile \/ IndexFails \/ LastCheck
    \/ UndoOne \/ UndoSkips \/ Undone
    \/ Point \/ PointFails \/ MarkFlipped \/ MarkFails \/ RemoveSource \/ Finish

Next ==
    \/ Working \/ PlanMove \/ Crash
    \/ \E n \in Names, e \in {"new", None} : Edit(n, e)
    \/ \E n \in Names : Add(n) \/ Put(n)

(* The daemon is started whenever it is down, and works.                   *)
Spec == Init /\ [][Next]_vars /\ WF_vars(Working)

-----------------------------------------------------------------------------
(* Properties.                                                             *)

Holds(dir, n) == want[n] # None /\ n \notin late => dir[n] = want[n]

(* "Every final state is one of two": after whatever errors and crashes,   *)
(* what the user means the library to hold is in the old or the new        *)
(* folder, unless it was changed in the old one after the last comparison, *)
(* or an error came after the new place was written.                       *)
NothingLost ==
    "pointed" \in holes \/ \A n \in Names : Holds(from, n) \/ Holds(to, n)

(* "We touch nothing that was in there": a thing of the user's in the new  *)
(* folder stays, if it was there when the names were compared.  Excepted   *)
(* is the start after a crash in the promotion, which takes every name of  *)
(* the library for its own.                                                *)
OthersUntouched ==
    [][\A n \in Names : to[n] = "own" /\ n \notin late =>
         to'[n] = "own" \/ At("reclaim")]_vars

(* The two final states: the library is whole in the new place and that is *)
(* where it is looked for, or it is whole in the old place, is looked for  *)
(* there, and nothing of it is in the new one.  The steps name in holes    *)
(* where the code leaves it at less: "split" (an entry could not be taken  *)
(* back, or a crash in the renaming was followed by an error), "leftover"  *)
(* (a folder could not be listed or deleted, and what was copied stays)    *)
(* and "pointed" (the step after the new place was written failed).        *)
EndsInOneOfTwo ==
    ~plan.on /\ byHand = "no" =>
      \/ location = "to" /\ ("pointed" \in holes \/ \A n \in Names : Holds(to, n))
      \/ /\ location = "from"
         /\ ("split" \in holes \/ \A n \in Names : Holds(from, n))
         /\ (holes # {} \/ (staging = Empty /\ \A n \in Names : to[n] \notin Ours))

(* Whatever fails, and wherever it crashes, the move comes to an end and   *)
(* the daemon is not left in it.                                           *)
MoveEnds == plan.on ~> ~plan.on

=============================================================================
