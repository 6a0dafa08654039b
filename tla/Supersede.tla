------------------------------- MODULE Supersede -------------------------------
(***************************************************************************)
(* #851: a phone first sent a copy of a photo from which its operating     *)
(* system had blanked the location, and can now send the original.  The    *)
(* original replaces the copy under the same path: it is spliced beside    *)
(* the library, the index is changed in one transaction that also leaves a *)
(* pending swap, and only then is the file renamed over the copy.          *)
(*                                                                         *)
(* Translated from crates/core-index/src/supersede.rs, the two tables of   *)
(* crates/storage/src/supersede_repo.rs, FlowDelivery::supersede and the   *)
(* start in crates/daemon/src/main.rs.                                     *)
(*                                                                         *)
(* Simplifications                                                         *)
(*  - A step is the code between two awaits or two file operations; the    *)
(*    copy into staging and the splice are one step each.                  *)
(*  - The reads of one decision (a row, its alias, whether its file is     *)
(*    there) are one step.                                                 *)
(*  - A file is its content, and a content its hash.                       *)
(*  - What else changes files and rows (deliveries, the watcher, the hourly *)
(*    pass) is one step per file here; LibraryIngest takes it apart.       *)
(***************************************************************************)
EXTENDS Naturals, FiniteSets

CONSTANTS
    Paths,     (* relative paths under originals/                           *)
    Contents,  (* contents of files                                         *)
    Redacted,  (* pairs: a copy, and an original it differs from in zeros   *)
    Phones,
    DirOf,     (* whose folder each path lies in: a phone's, or nobody's    *)
    Reqs,      (* flow.supersede requests under way                         *)
    Pids,      (* process ids of the daemon; one may come back              *)
    MaxUpsets, (* bound on failures and on what the user does to originals/ *)
    MaxStarts, (* bound on starts of the daemon                             *)
    None

(* What a copy has blanked, a copy of the copy has blanked as well; and a   *)
(* content is no copy of itself.                                           *)
ASSUME SupersedeAssumption ==
    /\ Redacted \subseteq Contents \X Contents
    /\ \A a, b, c \in Contents :
         <<a, b>> \in Redacted /\ <<b, c>> \in Redacted => <<a, c>> \in Redacted
    /\ \A c \in Contents : <<c, c>> \notin Redacted
    /\ DirOf \in [Paths -> Phones \cup {None}]
    /\ MaxUpsets \in Nat /\ MaxStarts \in Nat
    /\ None \notin Paths \cup Contents \cup Phones \cup Pids

VARIABLES
    file,     (* the content of each path                                   *)
    staged,   (* .ppf/supersede-staging: one file per new hash and pid      *)
    residue,  (* .ppf/superseded: copies an earlier version has set aside   *)
    row,      (* the asset table: rel_path and src_device by hash; and, as  *)
              (* history, the way the row came about: its photo was "sent",  *)
              (* or its file "found" by the watcher or the adopter          *)
    alias,    (* asset_alias: what a hash was replaced by                   *)
    pending,  (* asset_swap_pending: rel_path and pid of the staged file    *)
    req,      (* requests                                                   *)
    daemon,   (* the process: its phase, pid, and finish_pending_swaps      *)
    starts,   (* starts so far, up to MaxStarts                             *)
    upsets,   (* failures and what the user has done, up to MaxUpsets       *)
    acked,    (* history: contents a phone has been told are kept           *)
    lost,     (* history: contents the user deleted or wrote over           *)
    spoiled,  (* history: contents a swap wrote over that was not theirs,   *)
              (* or whose staged file was taken while it was waited for     *)
    moved     (* history: contents the user has moved                       *)

diskVars == <<file, staged, residue>>
dbVars   == <<row, alias, pending>>
userVars == <<lost, moved>>
vars     == <<diskVars, dbVars, req, daemon, starts, upsets, userVars, acked, spoiled>>

NoRow  == [at |-> None, src |-> None, way |-> None]
NoSwap == [at |-> None, pid |-> None]
NoDaemon == [st |-> "down", pid |-> None, todo |-> {}, now |-> None,
             failed |-> FALSE, seen |-> None]
NoReq  == [pc |-> "idle", phone |-> None, old |-> None, new |-> None,
           at |-> None, read |-> NoRow]

(* A content, and every copy it can stand in for.                          *)
StandsFor(c) == {c} \cup {a \in Contents : <<a, c>> \in Redacted}

Held(c) == \E p \in Paths : file[p] # None /\ c \in StandsFor(file[p])

(* The row's file is there: Path::exists.                                  *)
HasFile(asset) == asset.at \in {p \in Paths : file[p] # None}

(* has_durable_copy                                                        *)
Durable(c) ==
    HasFile(row[IF row[c] = NoRow /\ alias[c] # None THEN alias[c] ELSE c])

Empty ==
    /\ file = [p \in Paths |-> None]
    /\ row = [c \in Contents |-> NoRow]
    /\ alias = [c \in Contents |-> None]
    /\ residue = {} /\ acked = {}

(* What the version before #1182 leaves: a photo replaced, its copy aside. *)
Legacy ==
    /\ \E r \in Redacted, p \in Paths, ph \in Phones :
         /\ DirOf[p] = ph
         /\ file = [q \in Paths |-> IF q = p THEN r[2] ELSE None]
         /\ row = [c \in Contents |-> IF c = r[2] THEN [at |-> p, src |-> ph, way |-> "sent"]
                                                  ELSE NoRow]
         /\ alias = [c \in Contents |-> IF c = r[1] THEN r[2] ELSE None]
         /\ residue = {r[1]} /\ acked = {r[1], r[2]}

Init ==
    /\ Empty \/ Legacy
    /\ staged = [s \in Contents \X Pids |-> None]
    /\ pending = [c \in Contents |-> NoSwap]
    /\ req = [r \in Reqs |-> NoReq]
    /\ daemon = NoDaemon
    /\ starts = 0 /\ upsets = 0 /\ lost = {} /\ moved = {}
    /\ spoiled = {}

-----------------------------------------------------------------------------
(* Starts.  finish_pending_swaps comes before the startup reconcile and    *)
(* before any request; a failure is only logged.                           *)

StartFrame == UNCHANGED <<residue, row, alias, userVars, acked>>
Calm  == UNCHANGED upsets
Upset == upsets < MaxUpsets /\ upsets' = upsets + 1

(* mutant: only swaps of a process with the same id are finished *)
Start_OwnPid(pid) ==
    /\ daemon.st = "down"
    /\ starts < MaxStarts
    /\ starts' = starts + 1
    /\ daemon' = [NoDaemon EXCEPT !.st = "finish", !.pid = pid,
                     !.todo = {c \in Contents : pending[c].pid = pid}]
    /\ UNCHANGED <<spoiled, file, staged, pending, req>> /\ StartFrame /\ Calm

Start(pid) ==
    /\ daemon.st = "down"
    /\ starts < MaxStarts
    /\ starts' = starts + 1
    /\ daemon' = [NoDaemon EXCEPT !.st = "finish", !.pid = pid,
                     !.todo = {c \in Contents : pending[c] # NoSwap}]
    /\ UNCHANGED <<spoiled, file, staged, pending, req>> /\ StartFrame /\ Calm

(* swap_in: where the staged file is, it is renamed over whatever lies at  *)
(* the path; where it is not, an earlier swap got that far.                *)
SwapRename(c, pid, p) ==
    IF staged[<<c, pid>>] # None
      THEN /\ file' = [file EXCEPT ![p] = staged[<<c, pid>>]]
           /\ staged' = [staged EXCEPT ![<<c, pid>>] = None]
           /\ spoiled' = spoiled \cup
                ((IF file[p] = None THEN {} ELSE StandsFor(file[p]))
                   \ StandsFor(staged[<<c, pid>>]))
      ELSE UNCHANGED <<file, staged, spoiled>>

FinishRename(c) ==
    /\ daemon.st = "finish" /\ daemon.now = None /\ c \in daemon.todo
    /\ SwapRename(c, pending[c].pid, pending[c].at)
    /\ daemon' = [daemon EXCEPT !.now = c, !.todo = @ \ {c}]
    /\ UNCHANGED <<pending, req, starts>> /\ StartFrame /\ Calm

FinishClear(c) ==
    /\ daemon.st = "finish" /\ daemon.now = c
    /\ pending' = [pending EXCEPT ![c] = NoSwap]
    /\ daemon' = [daemon EXCEPT !.now = None]
    /\ UNCHANGED <<spoiled, file, staged, req, starts>> /\ StartFrame /\ Calm

(* The first failure ends it, with the swaps that are still to come.       *)
FinishFails ==
    /\ daemon.st = "finish"
    /\ daemon.now # None \/ daemon.todo # {}
    /\ Upset
    /\ daemon' = [daemon EXCEPT !.st = "serve", !.todo = {}, !.now = None,
                                !.failed = TRUE]
    /\ UNCHANGED <<spoiled, file, staged, pending, req, starts>> /\ StartFrame

FinishEnd ==
    /\ daemon.st = "finish" /\ daemon.now = None /\ daemon.todo = {}
    /\ daemon' = [daemon EXCEPT !.st = "serve"]
    /\ UNCHANGED <<spoiled, file, staged, pending, req, starts>> /\ StartFrame /\ Calm

(* Process and requests are gone; disk and database stay.                  *)
Crash ==
    /\ daemon.st # "down"
    /\ daemon' = NoDaemon
    /\ req' = [r \in Reqs |-> NoReq]
    /\ UNCHANGED <<spoiled, file, staged, pending, starts>> /\ StartFrame /\ Calm

-----------------------------------------------------------------------------
(* flow.supersede, one at a time for each phone (fetch_lock).              *)

ReqAt(r, pc) == req[r].pc = pc
ReqGoto(r, pc) == req' = [req EXCEPT ![r].pc = pc]

(* A refusal or an error: the phone learns nothing is replaced.            *)
ReqEnd(r) == req' = [req EXCEPT ![r] = NoReq] /\ UNCHANGED acked

Replaced(r) ==
    /\ req' = [req EXCEPT ![r] = NoReq]
    /\ acked' = acked \cup {req[r].new}

(* The path of staged_rel, and the removal of what lies there: by that     *)
(* name a pending swap and the request of another phone may wait for it.   *)
Mine(r) == <<req[r].new, daemon.pid>>

Awaited(r) ==
    \/ pending[req[r].new].pid = daemon.pid
    \/ \E s \in Reqs \ {r} : req[s].new = req[r].new /\ req[s].pc \in {"commit", "swap"}

Stage(r, c) ==
    /\ staged' = [staged EXCEPT ![Mine(r)] = c]
    /\ spoiled' = IF Awaited(r) /\ staged[Mine(r)] = req[r].new /\ c # req[r].new
                    THEN spoiled \cup StandsFor(req[r].new) ELSE spoiled
Unstage(r) == Stage(r, None)

FailFrame == UNCHANGED <<residue, daemon, starts, userVars>>
ReqFrame == FailFrame /\ Calm

Locked(p) == \E r \in Reqs : req[r].phone = p

(* plan_supersede, once the request has the lock: one that waits for it is *)
(* one that has not come yet.  A repeated request is answered from the     *)
(* alias; otherwise the copy is a row of this phone, and its file is there. *)
Plan(r, p, old, new) ==
    /\ daemon.st = "serve"
    /\ req[r] = NoReq /\ old # new /\ ~Locked(p)
    /\ \/ /\ alias[old] = new /\ Durable(new)
          /\ acked' = acked \cup {new}
          /\ UNCHANGED req
       \/ /\ ~(alias[old] = new /\ Durable(new))
          /\ row[old].src = p /\ HasFile(row[old])
          /\ req' = [req EXCEPT ![r] = [NoReq EXCEPT !.pc = "fetch", !.phone = p,
                              !.old = old, !.new = new, !.at = row[old].at]]
          /\ UNCHANGED acked
    /\ UNCHANGED <<spoiled, file, staged, dbVars>> /\ ReqFrame

(* The ranges are too large, do not arrive or are of another size.         *)
Refuse(r) ==
    /\ ReqAt(r, "fetch")
    /\ ReqEnd(r)
    /\ UNCHANGED <<spoiled, file, staged, dbVars>> /\ ReqFrame

(* The byte ranges of the original are there, checked against its hash;    *)
(* apply_supersede looks the row up again, and goes on with the path of    *)
(* the plan.                                                               *)
ApplyRow(r) ==
    /\ ReqAt(r, "fetch")
    /\ IF row[req[r].old] = NoRow
         THEN ReqEnd(r)
         ELSE /\ req' = [req EXCEPT ![r].pc = "copy", ![r].read = row[req[r].old]]
              /\ UNCHANGED acked
    /\ UNCHANGED <<spoiled, file, staged, dbVars>> /\ ReqFrame

Copy(r) ==
    /\ ReqAt(r, "copy")
    /\ Stage(r, file[req[r].at])
    /\ IF file[req[r].at] # None THEN ReqGoto(r, "splice") /\ UNCHANGED acked
                                 ELSE ReqEnd(r)
    /\ UNCHANGED <<file, dbVars>> /\ ReqFrame

(* What was copied must be the old content, and the pieces may differ from *)
(* it only where it has zeros; the result must be the new content.  What   *)
(* fails that is removed.                                                  *)
Splice(r) ==
    /\ ReqAt(r, "splice")
    /\ IF staged[Mine(r)] = req[r].old /\ <<req[r].old, req[r].new>> \in Redacted
         THEN Stage(r, req[r].new) /\ ReqGoto(r, "commit") /\ UNCHANGED acked
         ELSE Unstage(r) /\ ReqEnd(r)
    /\ UNCHANGED <<file, dbVars>> /\ ReqFrame

(* An io error while staging: the file is removed.                         *)
StageFails(r) ==
    /\ req[r].pc \in {"copy", "splice"}
    /\ Upset
    /\ Unstage(r) /\ ReqEnd(r)
    /\ UNCHANGED <<file, dbVars>> /\ FailFrame

(* mutant: older aliases keep naming the copy that is replaced now *)
Retarget_None(old, new) == [alias EXCEPT ![old] = new]

Retarget(old, new) ==
    [c \in Contents |-> IF c = old \/ alias[c] = old THEN new ELSE alias[c]]

(* mutant: the pending swap is not recorded *)
Commit_NoPending(r) ==
    /\ ReqAt(r, "commit")
    /\ row[req[r].new] = NoRow
    /\ row' = [row EXCEPT ![req[r].old] = NoRow, ![req[r].new] = req[r].read]
    /\ alias' = Retarget(req[r].old, req[r].new)
    /\ ReqGoto(r, "swap")
    /\ UNCHANGED <<pending, spoiled, file, staged, acked>> /\ ReqFrame

(* supersede_asset, one transaction; a row of the new hash is in the way.  *)
Commit(r) ==
    /\ ReqAt(r, "commit")
    /\ row[req[r].new] = NoRow
    /\ row' = [row EXCEPT ![req[r].old] = NoRow, ![req[r].new] = req[r].read]
    /\ alias' = Retarget(req[r].old, req[r].new)
    /\ pending' = [pending EXCEPT ![req[r].new] =
                      [at |-> req[r].read.at, pid |-> daemon.pid]]
    /\ ReqGoto(r, "swap")
    /\ UNCHANGED <<spoiled, file, staged, acked>> /\ ReqFrame

CommitFails(r) ==
    /\ ReqAt(r, "commit")
    /\ (row[req[r].new] # NoRow /\ Calm) \/ Upset
    /\ ReqGoto(r, "undo")
    /\ UNCHANGED <<spoiled, file, staged, dbVars, acked>> /\ FailFrame

(* #1183: the staged file goes, unless a pending swap names it or nobody   *)
(* can tell.                                                               *)
Undo(r) ==
    /\ ReqAt(r, "undo")
    /\ \/ pending[req[r].new] = NoSwap /\ Unstage(r) /\ Calm
       \/ pending[req[r].new] # NoSwap /\ UNCHANGED <<staged, spoiled>> /\ Calm
       \/ Upset /\ UNCHANGED <<staged, spoiled>>
    /\ ReqEnd(r)
    /\ UNCHANGED <<file, dbVars>> /\ FailFrame

Swap(r) ==
    /\ ReqAt(r, "swap")
    /\ SwapRename(req[r].new, daemon.pid, req[r].at)
    /\ ReqGoto(r, "clear")
    /\ UNCHANGED <<dbVars, acked>> /\ ReqFrame

Clear(r) ==
    /\ ReqAt(r, "clear")
    /\ pending' = [pending EXCEPT ![req[r].new] = NoSwap]
    /\ Replaced(r)
    /\ UNCHANGED <<spoiled, file, staged, row, alias>> /\ ReqFrame

(* The rename or the clearing fails; the next start has another try.       *)
SwapFails(r) ==
    /\ req[r].pc \in {"swap", "clear"}
    /\ Upset
    /\ ReqEnd(r)
    /\ UNCHANGED <<spoiled, file, staged, dbVars>> /\ FailFrame

ReqStep(r) ==
    \/ Refuse(r) \/ ApplyRow(r) \/ Copy(r) \/ Splice(r) \/ StageFails(r)
    \/ Commit(r) \/ CommitFails(r) \/ Undo(r) \/ Swap(r) \/ Clear(r) \/ SwapFails(r)

-----------------------------------------------------------------------------
(* The sweeps, at any time while the daemon serves (residue.rs).           *)

SweepFrame == Calm /\ UNCHANGED <<spoiled, file, dbVars, req, starts, userVars, acked>>

(* mutant: what a pending swap waits for is swept too *)
SweepStaging_Pending(c, pid) ==
    /\ daemon.st = "serve"
    /\ staged[<<c, pid>>] # None /\ pid # daemon.pid
    /\ staged' = [staged EXCEPT ![<<c, pid>>] = None]
    /\ UNCHANGED <<residue, daemon>> /\ SweepFrame

(* sweep_supersede_staging.  It reads the pending swaps before the files,  *)
(* but only this process adds some, and its files are not touched.         *)
SweepStaging(c, pid) ==
    /\ daemon.st = "serve"
    /\ staged[<<c, pid>>] # None /\ pid # daemon.pid
    /\ pending[c] = NoSwap
    /\ staged' = [staged EXCEPT ![<<c, pid>>] = None]
    /\ UNCHANGED <<residue, daemon>> /\ SweepFrame

(* sweep_superseded_residue: it reads the pending swaps once ...           *)
SweepBegin ==
    /\ daemon.st = "serve" /\ residue # {}
    /\ daemon' = [daemon EXCEPT !.seen = {c \in Contents : pending[c] # NoSwap}]
    /\ UNCHANGED <<staged, residue>> /\ SweepFrame

(* mutant: a copy goes when its original has a row *)
SweepResidue_AnyRow(a) ==
    /\ daemon.st = "serve" /\ a \in residue
    /\ daemon.seen # None
    /\ alias[a] # None /\ row[alias[a]] # NoRow
    /\ alias[a] \notin daemon.seen
    /\ residue' = residue \ {a}
    /\ daemon' = [daemon EXCEPT !.seen = IF residue' = {} THEN None ELSE @]
    /\ UNCHANGED staged /\ SweepFrame

(* ... and then takes the copies one by one.                               *)
SweepResidue(a) ==
    /\ daemon.st = "serve" /\ a \in residue
    /\ daemon.seen # None
    /\ alias[a] # None /\ HasFile(row[alias[a]])
    /\ alias[a] \notin daemon.seen
    /\ residue' = residue \ {a}
    /\ daemon' = [daemon EXCEPT !.seen = IF residue' = {} THEN None ELSE @]
    /\ UNCHANGED staged /\ SweepFrame

-----------------------------------------------------------------------------
(* The other writers of files and rows while the daemon serves.            *)

OtherFrame == UNCHANGED <<staged, residue, alias, pending, req, daemon, starts>>

(* A phone offers a photo: it is known, or fetched and given a free path.  *)
Deliver(p, c) ==
    /\ daemon.st = "serve"
    /\ acked' = acked \cup {c}
    /\ IF Durable(c)
         THEN UNCHANGED <<file, row>>
         ELSE \E q \in Paths :
                /\ DirOf[q] = p /\ file[q] = None
                /\ file' = [file EXCEPT ![q] = c]
                /\ row' = [row EXCEPT ![c] =
                             IF @ = NoRow THEN [at |-> q, src |-> p, way |-> "sent"]
                                          ELSE [@ EXCEPT !.at = q]]
    /\ UNCHANGED <<spoiled, userVars>> /\ OtherFrame /\ Calm

(* The watcher or the adopter finds a file whose content has no living     *)
(* row.  Its folder tells whose it is (device_of), so that what a phone's  *)
(* folder holds may be replaced in its turn.  The watcher's ingest deletes *)
(* a row of another content that names the path; a re-homing and the       *)
(* adopter do not.                                                         *)
Index(p) ==
    /\ daemon.st = "serve"
    /\ file[p] # None
    /\ LET c == file[p]
           others == {d \in Contents \ {c} : row[d].at = p}
       IN  /\ ~HasFile(row[c])
           /\ \/ /\ row[c] # NoRow
                 /\ row' = [row EXCEPT ![c].at = p]
              \/ /\ row[c] = NoRow
                 /\ \E evicted \in {{}} \cup {{d} : d \in others} :
                      row' = [d \in Contents |->
                                IF d = c THEN [at |-> p, src |-> DirOf[p], way |-> "found"]
                                ELSE IF d \in evicted THEN NoRow ELSE row[d]]
    /\ UNCHANGED <<spoiled, file, userVars, acked>> /\ OtherFrame /\ Calm

(* A row whose file is gone is removed.                                    *)
Prune(c) ==
    /\ daemon.st = "serve"
    /\ row[c] # NoRow /\ ~HasFile(row[c])
    /\ row' = [row EXCEPT ![c] = NoRow]
    /\ UNCHANGED <<spoiled, file, userVars, acked>> /\ OtherFrame /\ Calm

(* The user, whether or not the daemon runs.                               *)
UserFrame == UNCHANGED <<row, acked, spoiled>> /\ OtherFrame

Delete(p) ==
    /\ Upset
    /\ file[p] # None
    /\ file' = [file EXCEPT ![p] = None]
    /\ lost' = lost \cup StandsFor(file[p])
    /\ UNCHANGED moved /\ UserFrame

Edit(p, c) ==
    /\ Upset
    /\ file[p] \notin {None, c}
    /\ file' = [file EXCEPT ![p] = c]
    /\ lost' = lost \cup StandsFor(file[p])
    /\ UNCHANGED moved /\ UserFrame

Move(p, q) ==
    /\ Upset
    /\ file[p] # None /\ file[q] = None
    /\ file' = [file EXCEPT ![p] = None, ![q] = file[p]]
    /\ moved' = moved \cup StandsFor(file[p])
    /\ UNCHANGED lost /\ UserFrame

Daemon ==
    \/ \E pid \in Pids : Start(pid)
    \/ \E c \in Contents : FinishRename(c) \/ FinishClear(c)
    \/ FinishFails \/ FinishEnd \/ Crash
    \/ \E c \in Contents, pid \in Pids : SweepStaging(c, pid)
    \/ SweepBegin \/ \E a \in Contents : SweepResidue(a)
    \/ \E p \in Phones, c \in Contents : Deliver(p, c)
    \/ \E p \in Paths : Index(p)
    \/ \E c \in Contents : Prune(c)

User ==
    \/ \E p \in Paths : Delete(p)
    \/ \E p \in Paths, c \in Contents : Edit(p, c)
    \/ \E p, q \in Paths : Move(p, q)

Next ==
    \/ Daemon
    \/ User
    \/ \E r \in Reqs, p \in Phones, old, new \in Contents : Plan(r, p, old, new)
    \/ \E r \in Reqs : ReqStep(r)

Spec == Init /\ [][Next]_vars

-----------------------------------------------------------------------------
(* Properties.                                                             *)

(* What a pending swap waits for is there, whatever was cut off: staged,   *)
(* or in the library already (supersede.rs: one that has a pending swap is *)
(* always left to finish_pending_swaps).                                   *)
Backed(c) == staged[<<c, pending[c].pid>>] = c

SwapIsBacked ==
    \A c \in Contents :
      pending[c] # NoSwap => Backed(c) \/ Held(c) \/ c \in lost \cup spoiled

(* A photo a phone was told is kept is in the library, as itself or as an  *)
(* original that stands for it, or about to be: no crash, failure or       *)
(* repetition of a swap loses both.                                        *)
KeptWhole ==
    \A a \in acked \ (lost \cup spoiled) :
      \/ Held(a)
      \/ \E c \in Contents : /\ a \in StandsFor(c)
                              /\ pending[c] # NoSwap /\ Backed(c)

(* The contents that share a copy with this one.                           *)
Kin(c) == {d \in Contents : StandsFor(d) \cap StandsFor(c) # {}}

Touched == lost \cup moved \cup spoiled
Pristine(c) == \A d \in Kin(c) : StandsFor(d) \cap Touched = {}

(* The watcher or the adopter has given a kindred file a row.              *)
TakenIn(c) == \E d \in Kin(c) \ {c} : row[d].way = "found"

(* A replaced hash still counts as kept, through any chain of              *)
(* replacements: otherwise its phone sends the redacted copy again.  Only  *)
(* an ingest of the copy between the transaction and the rename defers it. *)
SupersededIsKnown ==
    \A a \in Contents :
      alias[a] # None /\ Pristine(alias[a]) /\ ~TakenIn(alias[a]) => Durable(a)

(* main.rs: the startup reconcile never meets an old copy under the row of *)
(* its original, if the pending swaps could be finished.                   *)
StartsWhole ==
    [][daemon.st = "finish" /\ daemon'.st = "serve" /\ ~daemon'.failed =>
         \A c \in Contents :
           /\ row[c] # NoRow
           /\ StandsFor(c) \cap Touched = {}
           => <<file[row[c].at], c>> \notin Redacted]_vars

(* #1182: a copy an earlier version has set aside is deleted only while    *)
(* the file its row names holds all of it, though the sweep's list of      *)
(* pending swaps may be stale and the file be about to be replaced.        *)
SweepLosesNothing ==
    [][\A a \in residue \ residue' :
         LET asset == row[alias[a]]
         IN  /\ HasFile(asset)
             /\ Pristine(alias[a]) /\ ~TakenIn(alias[a])
                  => a \in StandsFor(file[asset.at])]_vars

=============================================================================
