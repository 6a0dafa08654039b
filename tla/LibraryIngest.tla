--------------------------- MODULE LibraryIngest ---------------------------
(***************************************************************************)
(* The photo library on disk and its index.  originals/ belongs to the     *)
(* user as well as to the daemon: fetch tasks put files there, the user    *)
(* edits, moves and deletes them, and three parts of the daemon bring the  *)
(* index back in line: the directory watcher, the hourly reconcile pass    *)
(* and its adopter.                                                        *)
(*                                                                         *)
(* Translated from crates/core-index (ingest.rs, rebuild.rs), the asset    *)
(* table of crates/storage, and crates/daemon (reconcile.rs, watcher.rs).  *)
(*                                                                         *)
(* Simplifications                                                         *)
(*  - A step is the code between two awaits or two file operations.        *)
(*  - A file is its content hash, a file of no bytes is Empty.  The name   *)
(*    place() chooses is any free path.  hard_link takes a name and fills  *)
(*    it at once; where links fail, a name is taken with an empty file and *)
(*    filled by a rename, which are two steps.                             *)
(*  - The staging file of a fetch is private to its job here; how it is    *)
(*    shared is modelled in FlowDelivery.                                  *)
(*  - Thumbnails, audit rows and MIME types are left out.                  *)
(***************************************************************************)
EXTENDS Naturals, FiniteSets

CONSTANTS
    Paths,      (* relative paths under originals/                          *)
    Hashes,     (* contents of photos                                       *)
    Empty,      (* the content of a file of no bytes                        *)
    Flows,      (* fetch tasks that ingest one staged file each             *)
    Watchers,   (* batches of the directory watcher that may overlap        *)
    MaxEdits,   (* bound on what the user does to originals/                *)
    Events,     (* bound: the events an instance explores, of EventNames    *)
    Pass,       (* the hourly pass, as opposed to a watcher                 *)
    None

EventNames == {"watch", "adopt", "delete", "edit", "move", "hasty", "fail",
               "eject", "restart", "nolinks"}

ASSUME LibraryAssumption ==
    /\ Events \subseteq EventNames
    /\ MaxEdits \in Nat
    /\ None \notin Paths \cup Hashes \cup {Empty}
    /\ Empty \notin Hashes
    /\ Flows \cap Watchers = {}
    /\ Pass \notin Flows \cup Watchers

VARIABLES
    file,    (* the content of each path                                    *)
    row,     (* the asset table: hash is its primary key, rel_path is not   *)
    job,     (* ingest_inner in progress                                    *)
    prune,   (* removal of rows whose file is gone                          *)
    scan,    (* index_missing_files in progress                             *)
    acked,   (* contents whose receipt is written                           *)
    lost,    (* history: contents the user took away                        *)
    edits,   (* what the user has done so far, up to MaxEdits               *)
    here     (* the library's volume is mounted                             *)

diskVars == <<file, here, edits, lost>>
vars == <<diskVars, row, job, prune, scan, acked>>

Jobs     == Flows \cup Watchers
Pruners  == Watchers \cup {Pass}
Contents == Hashes \cup {Empty}

NoJob   == [pc |-> "idle", hash |-> None, src |-> None, at |-> None]
NoPrune == [pc |-> "idle", todo |-> {}, gone |-> {}]
NoScan  == [pc |-> "idle", todo |-> {}, hash |-> None, at |-> None]

(* Path::exists                                                            *)
Exists(p) == here /\ file[p] # None

Held(h) == \E p \in Paths : file[p] = h

Recorded == {<<h, row[h]>> : h \in {x \in Contents : row[x] # None}}

Init ==
    /\ file = [p \in Paths |-> None]
    /\ row = [h \in Contents |-> None]
    /\ job = [j \in Jobs |-> NoJob]
    /\ prune = [x \in Pruners |-> NoPrune]
    /\ scan = NoScan
    /\ acked = {}
    /\ lost = {}
    /\ edits = 0
    /\ here = TRUE

-----------------------------------------------------------------------------
(* ingest_inner.  src is None for a staged file, whose home is still to be *)
(* found, and the path itself for a file that lies in originals/ already.  *)

JobAt(j, pc) == job[j].pc = pc
JobGoto(j, pc) == job' = [job EXCEPT ![j].pc = pc]
JobEnd(j) == job' = [job EXCEPT ![j] = NoJob]

(* A fetch goes on to its receipt; the watcher has nothing more to do.     *)
JobDone(j) == IF j \in Flows THEN JobGoto(j, "receipt") ELSE JobEnd(j)

JobFrame == UNCHANGED <<here, edits, lost, prune, scan>>

(* has_durable_copy, asked when the photo is offered.                      *)
Durable(h) == row[h] # None /\ Exists(row[h])

FlowKnown(h) ==
    /\ Durable(h)
    /\ acked' = acked \cup {h}
    /\ UNCHANGED <<file, row, job>> /\ JobFrame

FlowStart(j, h) ==
    /\ JobAt(j, "idle")
    /\ here
    /\ ~Durable(h)
    /\ job' = [job EXCEPT ![j] = [NoJob EXCEPT !.pc = "lookup", !.hash = h]]
    /\ UNCHANGED <<file, row, acked>> /\ JobFrame

(* The watcher hashes a file it found in a changed directory.              *)
WatchStart(w, p) ==
    /\ "watch" \in Events
    /\ JobAt(w, "idle") /\ prune[w] = NoPrune
    /\ Exists(p)
    /\ job' = [job EXCEPT ![w] = [pc |-> "lookup", hash |-> file[p],
                                  src |-> p, at |-> None]]
    /\ UNCHANGED <<file, row, acked>> /\ JobFrame

Lookup(j) ==
    /\ JobAt(j, "lookup")
    /\ job' = [job EXCEPT ![j].at = row[job[j].hash],
                          ![j].pc = IF row[job[j].hash] = None THEN "place"
                                                                ELSE "exists"]
    /\ UNCHANGED <<file, row, acked>> /\ JobFrame

(* The recorded address holds a file: a duplicate.  Otherwise the content  *)
(* has moved house.                                                        *)
Recheck(j) ==
    /\ JobAt(j, "exists")
    /\ IF Exists(job[j].at) THEN JobDone(j) ELSE JobGoto(j, "rehome")
    /\ UNCHANGED <<file, row, acked>> /\ JobFrame

(* A file without a home, and the names it may get.                        *)
Homing(j) == job[j].pc \in {"place", "rehome"} /\ job[j].src = None /\ here

Free == {p \in Paths : file[p] = None}

(* place: hard_link under the first free name.                             *)
Place(j) ==
    /\ Homing(j)
    /\ \E p \in Free :
         /\ file' = [file EXCEPT ![p] = job[j].hash]
         /\ job' = [job EXCEPT ![j].at = p,
                               ![j].pc = IF @ = "place" THEN "evict" ELSE "update"]
    /\ UNCHANGED <<row, acked>> /\ JobFrame

(* mutant: the name is looked for, and not taken with a file of its own *)
Reserve_Probes(j) ==
    /\ "nolinks" \in Events
    /\ Homing(j)
    /\ \E p \in Free :
         job' = [job EXCEPT ![j].at = p,
                            ![j].pc = IF @ = "place" THEN "fill" ELSE "refill"]
    /\ UNCHANGED <<file, row, acked>> /\ JobFrame

(* No link can be made: create_new takes the name, *)
Reserve(j) ==
    /\ "nolinks" \in Events
    /\ Homing(j)
    /\ \E p \in Free :
         /\ file' = [file EXCEPT ![p] = Empty]
         /\ job' = [job EXCEPT ![j].at = p,
                               ![j].pc = IF @ = "place" THEN "fill" ELSE "refill"]
    /\ UNCHANGED <<row, acked>> /\ JobFrame

(* and a rename puts the whole file there, over whatever lies there by now. *)
Claiming == {"fill", "refill"}

Fill(j) ==
    /\ job[j].pc \in Claiming /\ here
    /\ file' = [file EXCEPT ![job[j].at] = job[j].hash]
    /\ JobGoto(j, IF JobAt(j, "fill") THEN "evict" ELSE "update")
    /\ UNCHANGED <<row, acked>> /\ JobFrame

FillFails(j) ==
    /\ job[j].pc \in Claiming
    /\ here => "fail" \in Events
    /\ file' = [file EXCEPT ![job[j].at] = IF here THEN None ELSE @]
    /\ JobEnd(j)
    /\ UNCHANGED <<row, acked>> /\ JobFrame

(* rel_inside_originals: the user's own place is kept.                     *)
Adopted(j) ==
    /\ job[j].pc \in {"place", "rehome"}
    /\ job[j].src # None /\ Exists(job[j].src)
    /\ job' = [job EXCEPT ![j].at = job[j].src,
                          ![j].pc = IF @ = "place" THEN "evict" ELSE "update"]
    /\ UNCHANGED <<file, row, acked>> /\ JobFrame

(* The source is gone, or place() finds no name or no volume.              *)
Homeless(j) ==
    /\ job[j].pc \in {"place", "rehome"}
    /\ IF job[j].src # None THEN ~Exists(job[j].src)
                            ELSE ~here \/ Free = {}
    /\ JobEnd(j)
    /\ UNCHANGED <<file, row, acked>> /\ JobFrame

(* update_asset_rel_path: no row, no effect.                               *)
Relocate(j) ==
    /\ JobAt(j, "update")
    /\ row' = [row EXCEPT ![job[j].hash] = IF @ = None THEN None ELSE job[j].at]
    /\ JobDone(j)
    /\ UNCHANGED <<file, acked>> /\ JobFrame

(* hash_at_rel_path, then delete_asset of another content's row: some one  *)
(* row of those that name the path.                                        *)
Occupants(j) == {h \in Contents : row[h] = job[j].at}

Evict(j) ==
    /\ JobAt(j, "evict")
    /\ \/ /\ Occupants(j) = {} \/ job[j].hash \in Occupants(j)
          /\ JobGoto(j, "insert")
          /\ UNCHANGED row
       \/ \E h \in Occupants(j) \ {job[j].hash} :
            /\ row' = [row EXCEPT ![h] = None]
            /\ JobGoto(j, "insert")
    /\ UNCHANGED <<file, acked>> /\ JobFrame

(* Only a file the job itself brought in is rolled back, whatever lies     *)
(* under its name by now.                                                  *)
RollBack(j) ==
    file' = [file EXCEPT ![job[j].at] =
               IF job[j].src = None /\ here THEN None ELSE @]

(* A unique violation is a lost race, and a duplicate.                     *)
Insert(j) ==
    /\ JobAt(j, "insert")
    /\ IF row[job[j].hash] = None
         THEN /\ row' = [row EXCEPT ![job[j].hash] = job[j].at]
              /\ UNCHANGED file
         ELSE RollBack(j) /\ UNCHANGED row
    /\ JobDone(j)
    /\ UNCHANGED acked /\ JobFrame

(* mutant: an insert that failed still earns a receipt *)
InsertFails_Done(j) ==
    /\ "fail" \in Events
    /\ JobAt(j, "insert")
    /\ RollBack(j)
    /\ JobDone(j)
    /\ UNCHANGED <<row, acked>> /\ JobFrame

InsertFails(j) ==
    /\ "fail" \in Events
    /\ JobAt(j, "insert")
    /\ RollBack(j)
    /\ JobEnd(j)
    /\ UNCHANGED <<row, acked>> /\ JobFrame

Receipt(j) ==
    /\ JobAt(j, "receipt")
    /\ acked' = acked \cup {job[j].hash}
    /\ JobEnd(j)
    /\ UNCHANGED <<file, row>> /\ JobFrame

(* Another error, or the task is dropped at an await: nothing is undone.   *)
(* place() has no await.                                                   *)
JobFails(j) ==
    /\ "fail" \in Events
    /\ job[j].pc \notin {"idle"} \cup Claiming
    /\ JobEnd(j)
    /\ UNCHANGED <<file, row, acked>> /\ JobFrame

JobStep(j) == \/ Lookup(j) \/ Recheck(j) \/ Place(j) \/ Reserve(j) \/ Fill(j)
              \/ FillFails(j) \/ Adopted(j) \/ Homeless(j) \/ Relocate(j)
              \/ Evict(j) \/ Insert(j) \/ Receipt(j)

-----------------------------------------------------------------------------
(* Rows whose file is gone: Reconcile::run_once for the whole table, the   *)
(* watcher's reconcile_under for a changed directory, after its ingest.    *)

PruneFrame == UNCHANGED <<diskVars, job, acked>>

(* The pass lists the table, then looks for the library's marker; a watcher *)
(* looks first.  #1253, library_here: a missing library is not a deleted   *)
(* photo.                                                                  *)
PruneBegin(x) ==
    /\ prune[x] = NoPrune
    /\ IF x = Pass
         THEN /\ scan = NoScan
              /\ prune' = [prune EXCEPT ![x] = [NoPrune EXCEPT !.pc = "here",
                                                              !.todo = Recorded]]
         ELSE /\ "watch" \in Events /\ JobAt(x, "idle") /\ here
              /\ prune' = [prune EXCEPT ![x].pc = "list"]
    /\ UNCHANGED <<row, scan>> /\ PruneFrame

PruneHere(x) ==
    /\ prune[x].pc = "here"
    /\ prune' = [prune EXCEPT ![x] = IF here THEN [@ EXCEPT !.pc = "stat"] ELSE NoPrune]
    /\ UNCHANGED <<row, scan>> /\ PruneFrame

PruneList(x) ==
    /\ prune[x].pc = "list"
    /\ prune' = [prune EXCEPT ![x] = [@ EXCEPT !.pc = "stat", !.todo = Recorded]]
    /\ UNCHANGED <<row, scan>> /\ PruneFrame

(* mutant: a row is believed without a look at the disk *)
PruneStat_Trusts(x, e) ==
    /\ prune[x].pc = "stat" /\ e \in prune[x].todo
    /\ prune' = [prune EXCEPT ![x].todo = @ \ {e}]
    /\ UNCHANGED <<row, scan>> /\ PruneFrame

(* The pass removes a row before it looks at the next, a watcher looks at  *)
(* all of them first.                                                      *)
PruneStat(x, e) ==
    /\ prune[x].pc = "stat" /\ e \in prune[x].todo
    /\ x = Pass => prune[x].gone = {}
    /\ prune' = [prune EXCEPT ![x].todo = @ \ {e},
                              ![x].gone = IF Exists(e[2]) THEN @ ELSE @ \cup {e}]
    /\ UNCHANGED <<row, scan>> /\ PruneFrame

(* remove_asset: by hash, wherever the row points by now.                  *)
PruneDelete(x, e) ==
    /\ prune[x].pc = "stat" /\ e \in prune[x].gone
    /\ x = Pass \/ prune[x].todo = {}
    /\ row' = [row EXCEPT ![e[1]] = None]
    /\ prune' = [prune EXCEPT ![x].gone = @ \ {e}]
    /\ UNCHANGED scan /\ PruneFrame

(* The hourly pass goes on to adopt the files that have no row.            *)
PruneEnd(x) ==
    /\ prune[x].pc = "stat" /\ prune[x].todo = {} /\ prune[x].gone = {}
    /\ prune' = [prune EXCEPT ![x] = NoPrune]
    /\ scan' = IF x = Pass /\ "adopt" \in Events
                 THEN [NoScan EXCEPT !.pc = "scan", !.todo = {p \in Paths : Exists(p)}]
                 ELSE scan
    /\ UNCHANGED row /\ PruneFrame

PruneStep(x) == \/ PruneHere(x) \/ PruneList(x) \/ PruneEnd(x)
                \/ \E e \in prune[x].todo : PruneStat(x, e)
                \/ \E e \in prune[x].gone : PruneDelete(x, e)

-----------------------------------------------------------------------------
(* index_missing_files: a row for every file whose content has none.       *)

ScanFrame == UNCHANGED <<diskVars, job, prune, acked>>

(* A file that vanished since the walk ends the round; an empty one is     *)
(* passed over.                                                            *)
ScanHash(p) ==
    /\ scan.pc = "scan" /\ p \in scan.todo
    /\ scan' = IF ~Exists(p) THEN NoScan
                ELSE IF file[p] = Empty THEN [scan EXCEPT !.todo = @ \ {p}]
                ELSE [pc |-> "lookup", todo |-> scan.todo \ {p},
                      hash |-> file[p], at |-> p]
    /\ UNCHANGED row /\ ScanFrame

ScanLookup ==
    /\ scan.pc = "lookup"
    /\ scan' = [scan EXCEPT !.pc = IF row[scan.hash] = None THEN "insert" ELSE "scan"]
    /\ UNCHANGED row /\ ScanFrame

(* The window between the two is lost without an error; a file that is gone *)
(* by now may end the round here too.                                      *)
ScanInsert ==
    /\ scan.pc = "insert"
    /\ \/ /\ row' = [row EXCEPT ![scan.hash] = IF @ = None THEN scan.at ELSE @]
          /\ scan' = [scan EXCEPT !.pc = "scan"]
       \/ /\ ~Exists(scan.at)
          /\ scan' = NoScan
          /\ UNCHANGED row
    /\ ScanFrame

ScanEnd ==
    /\ scan.pc = "scan" /\ scan.todo = {}
    /\ scan' = NoScan
    /\ UNCHANGED row /\ ScanFrame

ScanStep == \/ ScanLookup \/ ScanInsert \/ ScanEnd
            \/ \E p \in scan.todo : ScanHash(p)

-----------------------------------------------------------------------------
(* The user, the volume, the process.                                      *)

UserFrame == UNCHANGED <<row, job, prune, scan, acked, here>>

(* A file between place() and its row.  Only a hasty user touches it.      *)
Settled(p) == \A j \in Flows : job[j].at = p => job[j].pc \in {"exists", "receipt"}

UserStep(event, p) ==
    /\ event \in Events
    /\ Settled(p) \/ "hasty" \in Events
    /\ here /\ edits < MaxEdits
    /\ edits' = edits + 1

Removed(p) == lost' = lost \cup ({file[p]} \cap Hashes)

Delete(p) ==
    /\ UserStep("delete", p)
    /\ file[p] # None
    /\ file' = [file EXCEPT ![p] = None]
    /\ Removed(p)
    /\ UserFrame

(* A new file, a copy, or an edit of the content in place.                 *)
Edit(p, h) ==
    /\ UserStep("edit", p)
    /\ file[p] # h
    /\ file' = [file EXCEPT ![p] = h]
    /\ Removed(p)
    /\ UserFrame

Move(p, q) ==
    /\ UserStep("move", p)
    /\ file[p] # None /\ file[q] = None
    /\ file' = [file EXCEPT ![p] = None, ![q] = file[p]]
    /\ UNCHANGED lost
    /\ UserFrame

(* The volume goes; a second later the process leaves (arm_library_watch). *)
Eject ==
    /\ "eject" \in Events
    /\ here
    /\ here' = FALSE
    /\ UNCHANGED <<file, row, job, prune, scan, acked, lost, edits>>

(* A start, with the volume back if it had gone.                           *)
Restart ==
    /\ IF here THEN "restart" \in Events ELSE TRUE
    /\ here' = TRUE
    /\ job' = [j \in Jobs |-> NoJob]
    /\ prune' = [x \in Pruners |-> NoPrune]
    /\ scan' = NoScan
    /\ UNCHANGED <<file, row, acked, lost, edits>>

Next ==
    \/ \E h \in Hashes : FlowKnown(h)
    \/ \E j \in Flows, h \in Hashes : FlowStart(j, h)
    \/ \E w \in Watchers, p \in Paths : WatchStart(w, p)
    \/ \E j \in Jobs : JobStep(j) \/ InsertFails(j) \/ JobFails(j)
    \/ \E x \in Pruners : PruneBegin(x) \/ PruneStep(x)
    \/ ScanStep
    \/ \E p \in Paths : Delete(p)
    \/ \E p \in Paths, h \in Hashes : Edit(p, h)
    \/ \E p, q \in Paths : Move(p, q)
    \/ Eject \/ Restart

Spec == Init /\ [][Next]_vars

-----------------------------------------------------------------------------
(* Properties.                                                             *)

(* ADR-006, "originals is the truth": a photo whose receipt is written is  *)
(* a file in originals/, unless the user took it away himself.             *)
AckedIsKept == \A h \in acked : Held(h) \/ h \in lost

(* #1047, place(): two fetches never end under one name, and no photo in   *)
(* originals/ is replaced by another one, although the rename that fills a *)
(* reserved name replaces whatever lies there.                             *)
NothingOverwritten ==
    [][\A p \in Paths : file[p] \in Hashes /\ edits' = edits
         => file'[p] \in {file[p], None}]_vars

(* insert_asset: "Duplicate hash is an error ... lost a race with a        *)
(* concurrent ingest of the same content".  The loser takes its own file   *)
(* back, and never with it the last copy of a photo the index records.     *)
RollbackSparesTheCopy ==
    [][edits' = edits =>
         \A h \in Hashes : Held(h) /\ row[h] # None => Held(h)' \/ h \in lost]_vars

(* The hourly pass keeps coming; its steps and those of an ingest that has *)
(* begun are taken.  Nothing is assumed of the user or the watcher.        *)
Fairness ==
    /\ WF_vars(PruneBegin(Pass)) /\ WF_vars(ScanStep)
    /\ \A x \in Pruners : WF_vars(PruneStep(x))
    /\ \A j \in Jobs : WF_vars(JobStep(j))
    /\ WF_vars(~here /\ Restart)

(* Storage does not fail, and tasks are not interrupted, for ever.         *)
StorageRecovers ==
    \A j \in Jobs : /\ <>[][~InsertFails(j)]_vars /\ <>[][~JobFails(j)]_vars
                    /\ <>[][~FillFails(j)]_vars

FairSpec == Spec /\ Fairness /\ StorageRecovers

(* IDX-01: a photo in originals/ does not stay invisible: its content gets *)
(* a row, and a row that names a file.                                     *)
Visible(h) == row[h] # None /\ file[row[h]] # None

IndexConverges == \A h \in Hashes : Held(h) ~> (Visible(h) \/ ~Held(h))

=============================================================================
