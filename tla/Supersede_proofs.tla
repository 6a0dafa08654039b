--------------------------- MODULE Supersede_proofs ---------------------------
(***************************************************************************)
(* What Supersede's run shows on three contents, two starts and one        *)
(* failure, for any number of them.                                        *)
(***************************************************************************)
EXTENDS Supersede, TLAPS

(* The shape of the state.                                                 *)
Row     == [at: Paths, src: Phones \cup {None}, way: {"sent", "found"}]
PendRec == [at: Paths, pid: Pids]
ReqFields(pcs, reads) ==
    [pc: pcs, phone: Phones, old: Contents, new: Contents, at: Paths, read: reads]
ReadOnes == {"copy", "splice", "commit", "undo", "swap", "clear"}
ReqRec == {NoReq} \cup ReqFields({"fetch"}, {NoRow}) \cup ReqFields(ReadOnes, Row)
DaemonRec ==
    [st: {"down", "finish", "serve"}, pid: Pids \cup {None}, todo: SUBSET Contents,
     now: Contents \cup {None}, failed: BOOLEAN, seen: (SUBSET Contents) \cup {None}]

Shape ==
    /\ file \in [Paths -> Contents \cup {None}]
    /\ staged \in [Contents \X Pids -> Contents \cup {None}]
    /\ residue \subseteq Contents
    /\ row \in [Contents -> Row \cup {NoRow}]
    /\ alias \in [Contents -> Contents \cup {None}]
    /\ pending \in [Contents -> PendRec \cup {NoSwap}]
    /\ req \in [Reqs -> ReqRec]
    /\ daemon \in DaemonRec
    /\ starts \in Nat /\ upsets \in Nat
    /\ acked \subseteq Contents /\ lost \subseteq Contents
    /\ spoiled \subseteq Contents /\ moved \subseteq Contents

-----------------------------------------------------------------------------
(* No photo is lost, for any number of requests at a time.                 *)

(* Requests run while the daemon serves; swaps are finished before that.   *)
Phase ==
    /\ \A r \in Reqs : req[r] # NoReq => daemon.st = "serve"
    /\ daemon.st # "down" => daemon.pid \in Pids
    /\ daemon.st # "finish" => daemon.now = None /\ daemon.todo = {}
    /\ daemon.now \notin daemon.todo
    /\ \A c \in daemon.todo : pending[c] # NoSwap

(* Nothing is replaced but by an original of it.                           *)
Spliced(r) == req[r].pc \in {"commit", "undo", "swap", "clear"}
Originals ==
    /\ \A a \in Contents : alias[a] # None => <<a, alias[a]>> \in Redacted
    /\ \A r \in Reqs : Spliced(r) => <<req[r].old, req[r].new>> \in Redacted

(* All of a content is in the library, or accounted for.                   *)
Safe(a)  == Held(a) \/ a \in lost \cup spoiled
Whole(c) == \A a \in StandsFor(c) : Safe(a)
Taken(c) == StandsFor(c) \subseteq spoiled

(* A request that will rename its staged file still has it.                *)
Renames(r) == req[r].pc \in {"commit", "swap"}
StagedMine ==
    /\ \A r \in Reqs : Renames(r) => staged[Mine(r)] = req[r].new \/ Taken(req[r].new)
    /\ \A r, s \in Reqs :
         r # s /\ Renames(r) /\ Renames(s) /\ req[r].new = req[s].new => Taken(req[r].new)
    /\ \A r \in Reqs : req[r].pc = "clear" => Whole(req[r].new)

(* A pending swap has its file, or is done.                                *)
SwapsSound ==
    /\ \A c \in Contents : pending[c] # NoSwap => Backed(c) \/ Whole(c)
    /\ daemon.now # None => Whole(daemon.now)

(* What the index or a phone counts on is there, or about to be.           *)
Kept(a) ==
    \/ Safe(a)
    \/ \E c \in Contents : a \in StandsFor(c) /\ pending[c] # NoSwap /\ Backed(c)

AllKept ==
    /\ \A c \in Contents : row[c] # NoRow => \A a \in StandsFor(c) : Kept(a)
    /\ \A a \in acked : Kept(a)

KeepInv == Phase /\ Originals /\ StagedMine /\ SwapsSound /\ AllKept

-----------------------------------------------------------------------------
(* Where the index points, with one phone and so one request at a time.    *)
OnePhone == \A p, q \in Phones : p = q

Clean(c)   == StandsFor(c) \cap Touched = {}
Near(p, c) == p \in Paths /\ file[p] # None /\ StandsFor(file[p]) \cap StandsFor(c) # {}

OneRequest == \A r, s \in Reqs : r # s => req[r] = NoReq \/ req[s] = NoReq

RowNear == \A c \in Contents : row[c] # NoRow /\ Clean(c) => Near(row[c].at, c)

Unswapped == {"fetch", "copy", "splice", "commit"}
ReqNear ==
    \A r \in Reqs :
      req[r].pc \in Unswapped /\ Clean(req[r].old) => Near(req[r].at, req[r].old)

(* The row the plan has read is still there when the transaction replaces  *)
(* it, or what was staged is not the copy and the splice refuses it.       *)
Planned(r, asset) == asset.at = req[r].at /\ asset.src = req[r].phone
InPlace(r)   == file[req[r].at] = req[r].old
Accepted(r)  == req[r].pc = "commit" \/ (req[r].pc = "splice" /\ staged[Mine(r)] = req[r].old)
Ready(r) ==
    /\ req[r].pc \in {"fetch", "copy"} /\ Clean(req[r].old) /\ InPlace(r) =>
         Planned(r, row[req[r].old]) /\ (req[r].pc = "copy" => req[r].read = row[req[r].old])
    /\ Accepted(r) /\ Clean(req[r].old) =>
         InPlace(r) /\ Planned(r, row[req[r].old]) /\ req[r].read = row[req[r].old]
    /\ req[r].pc \in {"swap", "clear"} /\ Clean(req[r].new) =>
         /\ Planned(r, req[r].read)
         /\ pending[req[r].new] = [at |-> req[r].at, pid |-> daemon.pid]
    /\ req[r].pc = "clear" /\ Clean(req[r].new) => staged[Mine(r)] # req[r].new
AllReady == \A r \in Reqs : Ready(r)

(* The file a row names holds its content, or its swap is yet to come.     *)
Waits(c) == pending[c] # NoSwap /\ pending[c].at = row[c].at /\ Backed(c)
HoldsOrWaits ==
    \A c \in Contents :
      row[c] # NoRow /\ Clean(c) => c \in StandsFor(file[row[c].at]) \/ Waits(c)

(* finish_pending_swaps leaves out none.                                   *)
Finishing ==
    daemon.st = "finish" =>
      /\ \A c \in Contents : pending[c] # NoSwap => c \in daemon.todo \/ c = daemon.now
      /\ daemon.now # None => ~Backed(daemon.now)

(* What a copy was replaced by has a row whose file holds that copy; or a  *)
(* kindred file that holds it was found, and took the row's place.         *)
Shows(a, c) == row[c] # NoRow /\ file[row[c].at] # None /\ a \in StandsFor(file[row[c].at])
Displaced(a, c) == \E d \in Kin(c) \ {c} : row[d].way = "found" /\ Shows(a, d)
AliasLive ==
    \A a \in Contents :
      alias[a] # None /\ Pristine(alias[a]) => Shows(a, alias[a]) \/ Displaced(a, alias[a])

IndexInv ==
    /\ OneRequest /\ RowNear /\ ReqNear /\ AllReady /\ HoldsOrWaits /\ Finishing
    /\ AliasLive

-----------------------------------------------------------------------------
(* Contents and their copies.                                              *)

LEMMA Stands ==
    /\ \A c \in Contents : StandsFor(c) \subseteq Contents /\ c \in StandsFor(c)
    /\ \A a, b \in Contents : a \in StandsFor(b) <=> a = b \/ <<a, b>> \in Redacted
    /\ \A c \in Contents : \A b \in StandsFor(c) : StandsFor(b) \subseteq StandsFor(c)
    /\ None \notin Contents
  <1>1. /\ \A a, b, c \in Contents :
             <<a, b>> \in Redacted /\ <<b, c>> \in Redacted => <<a, c>> \in Redacted
        /\ None \notin Contents
    BY SupersedeAssumption
  <1>2. \A c \in Contents : StandsFor(c) \subseteq Contents /\ c \in StandsFor(c)
    BY DEF StandsFor
  <1>3. \A a, b \in Contents : a \in StandsFor(b) <=> a = b \/ <<a, b>> \in Redacted
    BY DEF StandsFor
  <1>4. ASSUME NEW c \in Contents, NEW b \in StandsFor(c), NEW a \in StandsFor(b)
        PROVE  a \in StandsFor(c)
    <2>1. b \in Contents
      BY <1>2
    <2>2. a \in Contents
      BY <1>2, <2>1
    <2>3. a = b \/ <<a, b>> \in Redacted
      BY <1>3, <1>4, <2>1, <2>2
    <2>4. b = c \/ <<b, c>> \in Redacted
      BY <1>3, <1>4, <2>1
    <2>5. a = c \/ <<a, c>> \in Redacted
      BY <1>1, <2>1, <2>2, <2>3, <2>4
    <2> QED BY <1>3, <2>2, <2>5
  <1>5. \A c \in Contents : \A b \in StandsFor(c) : StandsFor(b) \subseteq StandsFor(c)
    BY <1>4
  <1> QED BY <1>1, <1>2, <1>3, <1>5

LEMMA NotItself == \A c \in Contents : <<c, c>> \notin Redacted
  BY SupersedeAssumption

LEMMA Nones == None \notin Paths /\ None \notin Contents /\ None \notin Phones /\ None \notin Pids
  BY SupersedeAssumption

(* Rows.                                                                   *)
LEMMA RowFacts ==
    ASSUME Shape, NEW c \in Contents
    PROVE  /\ row[c] \in Row \cup {NoRow}
           /\ row[c] # NoRow <=> row[c] \in Row
           /\ row[c] # NoRow <=> row[c].at \in Paths
           /\ row[c] # NoRow <=> row[c].at # None
           /\ row[c].src \in Phones \cup {None}
           /\ row[c].src # None => row[c] # NoRow
           /\ row[c] = NoRow => row[c].src = None
           /\ HasFile(row[c]) <=> row[c] # NoRow /\ file[row[c].at] # None
  BY Nones DEF Shape, Row, NoRow, HasFile

LEMMA SwapFacts ==
    ASSUME Shape, NEW c \in Contents
    PROVE  /\ pending[c] \in PendRec \cup {NoSwap}
           /\ pending[c] # NoSwap <=> pending[c] \in PendRec
           /\ pending[c] # NoSwap <=> pending[c].pid \in Pids
           /\ pending[c] # NoSwap => pending[c].at \in Paths
  BY Nones DEF Shape, PendRec, NoSwap

(* Requests.                                                               *)
LEMMA ReqFacts ==
    ASSUME Shape, NEW r \in Reqs
    PROVE  /\ req[r] \in ReqRec
           /\ req[r].pc \in {"idle", "fetch"} \cup ReadOnes
           /\ req[r].pc = "idle" <=> req[r] = NoReq
           /\ req[r] # NoReq =>
                req[r].phone \in Phones /\ req[r].old \in Contents /\ req[r].new \in Contents
                /\ req[r].at \in Paths
           /\ req[r].phone \in Phones <=> req[r] # NoReq
           /\ req[r].pc \in ReadOnes => req[r].read \in Row
           /\ req[r].pc = "fetch" => req[r].read = NoRow
  <1>1. req[r] \in ReqRec
    BY DEF Shape
  <1>2. CASE req[r] = NoReq
    BY <1>1, <1>2, Nones DEF NoReq, ReadOnes
  <1>3. CASE req[r] # NoReq
    BY <1>1, <1>3, Nones DEF NoReq, ReqRec, ReqFields, ReadOnes
  <1> QED BY <1>2, <1>3

LEMMA DaemonFacts ==
    ASSUME Shape
    PROVE  /\ daemon.st \in {"down", "finish", "serve"} /\ daemon.pid \in Pids \cup {None}
           /\ daemon.todo \subseteq Contents /\ daemon.now \in Contents \cup {None}
           /\ daemon.failed \in BOOLEAN /\ daemon.seen \in (SUBSET Contents) \cup {None}
  BY DEF Shape, DaemonRec

LEMMA Nobody ==
    /\ NoRow.at = None /\ NoRow.src = None /\ NoSwap.pid = None /\ NoSwap.at = None
    /\ NoReq.pc = "idle" /\ NoReq.phone = None
    /\ NoReq \in ReqRec /\ NoDaemon \in DaemonRec
    /\ NoDaemon.st = "down" /\ NoDaemon.pid = None /\ NoDaemon.todo = {}
    /\ NoDaemon.now = None /\ NoDaemon.seen = None
  <1>1. NoRow.at = None /\ NoRow.src = None /\ NoSwap.pid = None /\ NoSwap.at = None
    BY DEF NoRow, NoSwap
  <1>2. NoReq.pc = "idle" /\ NoReq.phone = None /\ NoReq \in ReqRec
    BY DEF NoReq, ReqRec
  <1>3. NoDaemon \in DaemonRec
    BY DEF NoDaemon, DaemonRec
  <1>4. /\ NoDaemon.st = "down" /\ NoDaemon.pid = None /\ NoDaemon.todo = {}
        /\ NoDaemon.now = None /\ NoDaemon.seen = None
    BY DEF NoDaemon
  <1> QED BY <1>1, <1>2, <1>3, <1>4

(* A request goes on: nothing else of it changes, and no other request.    *)
LEMMA Goes ==
    ASSUME Shape, NEW r \in Reqs, NEW v \in ReadOnes, req[r].pc \in ReadOnes, ReqGoto(r, v)
    PROVE  /\ req' \in [Reqs -> ReqRec]
           /\ \A s \in Reqs : s # r => req'[s] = req[s]
           /\ req'[r].pc = v /\ req'[r].phone = req[r].phone
           /\ req'[r].old = req[r].old /\ req'[r].new = req[r].new
           /\ req'[r].at = req[r].at /\ req'[r].read = req[r].read
  <1> DEFINE q == [req[r] EXCEPT !.pc = v]
  <1>1. req \in [Reqs -> ReqRec] /\ req' = [req EXCEPT ![r] = q]
    BY DEF Shape, ReqGoto
  <1>2. req[r] \in ReqFields(ReadOnes, Row)
    BY <1>1 DEF ReqRec, ReqFields, NoReq, ReadOnes
  <1>3. /\ q \in ReqFields(ReadOnes, Row)
        /\ q.pc = v /\ q.phone = req[r].phone /\ q.old = req[r].old /\ q.new = req[r].new
        /\ q.at = req[r].at /\ q.read = req[r].read
    BY <1>2 DEF ReqFields
  <1> HIDE DEF q
  <1> QED BY <1>1, <1>3 DEF ReqRec

LEMMA Ends ==
    ASSUME Shape, NEW r \in Reqs, req' = [req EXCEPT ![r] = NoReq]
    PROVE  /\ req' \in [Reqs -> ReqRec] /\ req'[r] = NoReq
           /\ \A s \in Reqs : s # r => req'[s] = req[s]
  BY Nobody DEF Shape

Planning(p, old, new, pa) ==
    [NoReq EXCEPT !.pc = "fetch", !.phone = p, !.old = old, !.new = new, !.at = pa]

LEMMA Plans ==
    ASSUME NEW p \in Phones, NEW old \in Contents, NEW new \in Contents, NEW pa \in Paths,
           NEW q, q = Planning(p, old, new, pa)
    PROVE  /\ q \in ReqRec
           /\ q.pc = "fetch" /\ q.phone = p /\ q.old = old
           /\ q.new = new /\ q.at = pa /\ q.read = NoRow
  <1>1. /\ q \in ReqFields({"fetch"}, {NoRow})
        /\ q.pc = "fetch" /\ q.phone = p /\ q.old = old /\ q.new = new /\ q.at = pa /\ q.read = NoRow
    BY DEF NoReq, ReqFields, Planning
  <1> QED BY <1>1 DEF ReqRec

LEMMA Reads ==
    ASSUME Shape, NEW r \in Reqs, req[r].pc = "fetch", NEW w \in Row,
           req' = [req EXCEPT ![r].pc = "copy", ![r].read = w]
    PROVE  /\ req' \in [Reqs -> ReqRec]
           /\ \A s \in Reqs : s # r => req'[s] = req[s]
           /\ req'[r].pc = "copy" /\ req'[r].phone = req[r].phone
           /\ req'[r].old = req[r].old /\ req'[r].new = req[r].new
           /\ req'[r].at = req[r].at /\ req'[r].read = w
  <1> DEFINE q == [req[r] EXCEPT !.pc = "copy", !.read = w]
  <1>1. req \in [Reqs -> ReqRec]
    BY DEF Shape
  <1>2. req' = [req EXCEPT ![r] = q]
    BY <1>1
  <1>3. req[r] \in ReqFields({"fetch"}, {NoRow})
    BY <1>1 DEF ReqRec, ReqFields, NoReq, ReadOnes
  <1>4. /\ q \in ReqFields(ReadOnes, Row)
        /\ q.pc = "copy" /\ q.phone = req[r].phone /\ q.old = req[r].old /\ q.new = req[r].new
        /\ q.at = req[r].at /\ q.read = w
    BY <1>3 DEF ReqFields, ReadOnes
  <1> HIDE DEF q
  <1> QED BY <1>1, <1>2, <1>4 DEF ReqRec

-----------------------------------------------------------------------------
(* The process.                                                            *)

LEMMA StartMakes ==
    ASSUME Shape, NEW pid \in Pids, Start(pid)
    PROVE  /\ daemon' \in DaemonRec /\ daemon'.st = "finish" /\ daemon'.pid = pid
           /\ daemon'.todo = {c \in Contents : pending[c] # NoSwap}
           /\ daemon'.now = None /\ daemon'.seen = None
  <1> DEFINE td == {c \in Contents : pending[c] # NoSwap}
  <1>1. td \in SUBSET Contents
    OBVIOUS
  <1>2. daemon' = [NoDaemon EXCEPT !.st = "finish", !.pid = pid, !.todo = td]
    BY DEF Start
  <1> HIDE DEF td
  <1>3. NoDaemon \in DaemonRec
    BY Nobody
  <1>4. /\ daemon'.st = "finish" /\ daemon'.pid = pid /\ daemon'.todo = td
        /\ daemon'.now = NoDaemon.now /\ daemon'.seen = NoDaemon.seen
    BY <1>2, <1>3 DEF DaemonRec
  <1>5. daemon' \in DaemonRec
    BY <1>1, <1>2, <1>3 DEF DaemonRec
  <1> QED BY <1>4, <1>5, Nobody DEF td

LEMMA FinishMakes ==
    ASSUME Shape, NEW c \in Contents
    PROVE  /\ FinishRename(c) =>
                /\ daemon' \in DaemonRec /\ daemon'.st = daemon.st /\ daemon'.pid = daemon.pid
                /\ daemon'.todo = daemon.todo \ {c} /\ daemon'.now = c /\ daemon'.seen = daemon.seen
           /\ FinishClear(c) =>
                /\ daemon' \in DaemonRec /\ daemon'.st = daemon.st /\ daemon'.pid = daemon.pid
                /\ daemon'.todo = daemon.todo /\ daemon'.now = None /\ daemon'.seen = daemon.seen
  <1>1. daemon \in DaemonRec
    BY DEF Shape
  <1>2. ASSUME FinishRename(c)
        PROVE  /\ daemon' \in DaemonRec /\ daemon'.st = daemon.st /\ daemon'.pid = daemon.pid
               /\ daemon'.todo = daemon.todo \ {c} /\ daemon'.now = c /\ daemon'.seen = daemon.seen
    <2> DEFINE td == daemon.todo \ {c}
    <2>1. td \in SUBSET Contents
      BY DaemonFacts
    <2>2. daemon' = [daemon EXCEPT !.now = c, !.todo = td]
      BY <1>2 DEF FinishRename
    <2> HIDE DEF td
    <2>3. daemon' \in DaemonRec
      BY <1>1, <2>1, <2>2 DEF DaemonRec
    <2>4. /\ daemon'.st = daemon.st /\ daemon'.pid = daemon.pid /\ daemon'.todo = td
          /\ daemon'.now = c /\ daemon'.seen = daemon.seen
      BY <1>1, <2>2 DEF DaemonRec
    <2> QED BY <2>3, <2>4 DEF td
  <1>3. ASSUME FinishClear(c)
        PROVE  /\ daemon' \in DaemonRec /\ daemon'.st = daemon.st /\ daemon'.pid = daemon.pid
               /\ daemon'.todo = daemon.todo /\ daemon'.now = None /\ daemon'.seen = daemon.seen
    <2>1. daemon' = [daemon EXCEPT !.now = None]
      BY <1>3 DEF FinishClear
    <2> QED BY <1>1, <2>1 DEF DaemonRec
  <1> QED BY <1>2, <1>3

LEMMA ServeMakes ==
    ASSUME Shape, FinishFails \/ FinishEnd
    PROVE  /\ daemon' \in DaemonRec /\ daemon'.st = "serve" /\ daemon'.pid = daemon.pid
           /\ daemon'.todo = {} /\ daemon'.now = None
           /\ daemon'.seen = daemon.seen
           /\ FinishFails => daemon'.failed
  <1>1. daemon \in DaemonRec
    BY DEF Shape
  <1>2. CASE FinishFails
    <2>1. daemon' = [daemon EXCEPT !.st = "serve", !.todo = {}, !.now = None, !.failed = TRUE]
      BY <1>2 DEF FinishFails
    <2>2. daemon' \in DaemonRec
      BY <1>1, <2>1 DEF DaemonRec
    <2>3. /\ daemon'.st = "serve" /\ daemon'.pid = daemon.pid /\ daemon'.todo = {}
          /\ daemon'.now = None /\ daemon'.seen = daemon.seen
      BY <1>1, <2>1 DEF DaemonRec
    <2>4. daemon'.failed = TRUE
      BY <1>1, <2>1 DEF DaemonRec
    <2> QED BY <2>2, <2>3, <2>4
  <1>3. CASE FinishEnd
    <2>1. daemon' = [daemon EXCEPT !.st = "serve"] /\ daemon.now = None /\ daemon.todo = {}
      BY <1>3 DEF FinishEnd
    <2>2. daemon.st = "finish"
      BY <1>3 DEF FinishEnd
    <2>3. daemon' \in DaemonRec
      BY <1>1, <2>1 DEF DaemonRec
    <2>4. /\ daemon'.st = "serve" /\ daemon'.pid = daemon.pid /\ daemon'.todo = daemon.todo
          /\ daemon'.now = daemon.now /\ daemon'.seen = daemon.seen
      BY <1>1, <2>1 DEF DaemonRec
    <2>5. FinishFails => daemon'.failed
      <3>1. SUFFICES ASSUME FinishFails PROVE daemon'.failed
        OBVIOUS
      <3>2. daemon' = [daemon EXCEPT !.st = "serve", !.todo = {}, !.now = None, !.failed = TRUE]
        BY <3>1 DEF FinishFails
      <3>3. daemon'.failed = TRUE
        BY <1>1, <3>2 DEF DaemonRec
      <3> QED BY <3>3
    <2> QED BY <2>1, <2>3, <2>4, <2>5
  <1> QED BY <1>2, <1>3

LEMMA SweepMakes ==
    ASSUME Shape
    PROVE  /\ SweepBegin =>
                /\ daemon' \in DaemonRec /\ daemon'.st = daemon.st /\ daemon'.pid = daemon.pid
                /\ daemon'.todo = daemon.todo /\ daemon'.now = daemon.now
                /\ daemon'.seen = {c \in Contents : pending[c] # NoSwap}
           /\ \A a \in Contents : SweepResidue(a) =>
                /\ daemon' \in DaemonRec /\ daemon'.st = daemon.st /\ daemon'.pid = daemon.pid
                /\ daemon'.todo = daemon.todo /\ daemon'.now = daemon.now
                /\ daemon'.seen \in {None, daemon.seen}
  <1>1. daemon \in DaemonRec
    BY DEF Shape
  <1>2. ASSUME NEW sn \in (SUBSET Contents) \cup {None}, daemon' = [daemon EXCEPT !.seen = sn]
        PROVE  /\ daemon' \in DaemonRec /\ daemon'.st = daemon.st /\ daemon'.pid = daemon.pid
               /\ daemon'.todo = daemon.todo /\ daemon'.now = daemon.now /\ daemon'.seen = sn
    BY <1>1, <1>2 DEF DaemonRec
  <1>3. ASSUME SweepBegin
        PROVE  /\ daemon' \in DaemonRec /\ daemon'.st = daemon.st /\ daemon'.pid = daemon.pid
               /\ daemon'.todo = daemon.todo /\ daemon'.now = daemon.now
               /\ daemon'.seen = {c \in Contents : pending[c] # NoSwap}
    <2>1. daemon' = [daemon EXCEPT !.seen = {c \in Contents : pending[c] # NoSwap}]
      BY <1>3 DEF SweepBegin
    <2>2. {c \in Contents : pending[c] # NoSwap} \in SUBSET Contents
      OBVIOUS
    <2> QED BY <1>2, <2>1, <2>2
  <1>4. ASSUME NEW a \in Contents, SweepResidue(a)
        PROVE  /\ daemon' \in DaemonRec /\ daemon'.st = daemon.st /\ daemon'.pid = daemon.pid
               /\ daemon'.todo = daemon.todo /\ daemon'.now = daemon.now
               /\ daemon'.seen \in {None, daemon.seen}
    <2>1. daemon' = [daemon EXCEPT !.seen = IF residue' = {} THEN None ELSE daemon.seen]
      BY <1>4 DEF SweepResidue
    <2>2. (IF residue' = {} THEN None ELSE daemon.seen) \in (SUBSET Contents) \cup {None}
      BY DaemonFacts
    <2> QED BY <1>2, <2>1, <2>2
  <1> QED BY <1>3, <1>4

-----------------------------------------------------------------------------
(* The disk.                                                               *)

LEMMA StageFacts ==
    ASSUME Shape, NEW r \in Reqs, req[r].new \in Contents, daemon.pid \in Pids,
           NEW x \in Contents \cup {None}, Stage(r, x)
    PROVE  /\ Mine(r) \in Contents \X Pids
           /\ staged' \in [Contents \X Pids -> Contents \cup {None}]
           /\ staged'[Mine(r)] = x
           /\ \A k \in Contents \X Pids : k # Mine(r) => staged'[k] = staged[k]
           /\ spoiled \subseteq spoiled' /\ spoiled' \subseteq Contents
           /\ Awaited(r) /\ staged[Mine(r)] = req[r].new /\ x # req[r].new
                => StandsFor(req[r].new) \subseteq spoiled'
  <1>1. Mine(r) \in Contents \X Pids
    BY DEF Mine
  <1>2. /\ staged' \in [Contents \X Pids -> Contents \cup {None}]
        /\ staged'[Mine(r)] = x
        /\ \A k \in Contents \X Pids : k # Mine(r) => staged'[k] = staged[k]
    BY <1>1 DEF Stage, Shape
  <1>3. StandsFor(req[r].new) \subseteq Contents /\ spoiled \subseteq Contents
    BY Stands DEF Shape
  <1> QED BY <1>1, <1>2, <1>3 DEF Stage

LEMMA RenameFacts ==
    ASSUME Shape, NEW c \in Contents, NEW pid \in Pids, NEW p \in Paths, SwapRename(c, pid, p)
    PROVE  /\ file' \in [Paths -> Contents \cup {None}]
           /\ staged' \in [Contents \X Pids -> Contents \cup {None}]
           /\ spoiled \subseteq spoiled' /\ spoiled' \subseteq Contents
           /\ \A q \in Paths : q # p => file'[q] = file[q]
           /\ \A k \in Contents \X Pids : k # <<c, pid>> => staged'[k] = staged[k]
           /\ staged[<<c, pid>>] = None => UNCHANGED <<file, staged, spoiled>>
           /\ staged[<<c, pid>>] # None => file'[p] = staged[<<c, pid>>]
           /\ staged'[<<c, pid>>] = None
           /\ file[p] # None => /\ file'[p] # None
                                /\ \A a \in StandsFor(file[p]) :
                                     a \in StandsFor(file'[p]) \/ a \in spoiled'
  <1>1. /\ file \in [Paths -> Contents \cup {None}] /\ <<c, pid>> \in Contents \X Pids
        /\ staged \in [Contents \X Pids -> Contents \cup {None}] /\ spoiled \subseteq Contents
        /\ staged[<<c, pid>>] \in Contents \cup {None} /\ file[p] \in Contents \cup {None}
    BY DEF Shape
  <1>2. CASE staged[<<c, pid>>] = None
    BY <1>1, <1>2 DEF SwapRename
  <1>3. CASE staged[<<c, pid>>] # None
    <2>1. /\ file' = [file EXCEPT ![p] = staged[<<c, pid>>]]
          /\ staged' = [staged EXCEPT ![<<c, pid>>] = None]
          /\ spoiled' = spoiled \cup
                ((IF file[p] = None THEN {} ELSE StandsFor(file[p]))
                   \ StandsFor(staged[<<c, pid>>]))
      BY <1>3 DEF SwapRename
    <2>2. /\ file' \in [Paths -> Contents \cup {None}] /\ file'[p] = staged[<<c, pid>>]
          /\ \A q \in Paths : q # p => file'[q] = file[q]
      BY <1>1, <2>1
    <2>3. /\ staged' \in [Contents \X Pids -> Contents \cup {None}]
          /\ \A k \in Contents \X Pids : k # <<c, pid>> => staged'[k] = staged[k]
          /\ staged'[<<c, pid>>] = None
      BY <1>1, <2>1
    <2>4. spoiled \subseteq spoiled' /\ spoiled' \subseteq Contents
      BY <1>1, <2>1, Stands
    <2>5. file[p] # None => \A a \in StandsFor(file[p]) :
             a \in StandsFor(file'[p]) \/ a \in spoiled'
      BY <2>1, <2>2
    <2> QED BY <1>1, <1>3, <2>2, <2>3, <2>4, <2>5
  <1> QED BY <1>2, <1>3

(* Who writes what.                                                        *)
LEMMA RowMoves ==
    ASSUME [Next]_vars
    PROVE  \/ UNCHANGED row
           \/ \E p \in Phones, c \in Contents : Deliver(p, c) /\ ~Durable(c)
           \/ \E p \in Paths : Index(p)
           \/ \E c \in Contents : Prune(c)
           \/ \E r \in Reqs : Commit(r)
  BY DEF Next, Daemon, User, ReqStep, vars, dbVars, diskVars, userVars, Start, FinishRename, FinishClear,
     FinishFails, FinishEnd, Crash, SweepStaging, SweepBegin, SweepResidue, Deliver, Delete, Edit, Move,
     Plan, Refuse, ApplyRow, Copy, Splice, StageFails, CommitFails, Undo, Swap, Clear, SwapFails,
     StartFrame, FailFrame, ReqFrame, SweepFrame, OtherFrame, UserFrame

LEMMA AliasMoves ==
    ASSUME [Next]_vars
    PROVE  UNCHANGED alias \/ \E r \in Reqs : Commit(r)
  BY DEF Next, Daemon, User, ReqStep, vars, dbVars, diskVars, userVars, Start, FinishRename, FinishClear,
     FinishFails, FinishEnd, Crash, SweepStaging, SweepBegin, SweepResidue, Deliver, Delete, Edit, Move,
     Plan, Refuse, ApplyRow, Copy, Splice, StageFails, CommitFails, Undo, Swap, Clear, SwapFails,
     StartFrame, FailFrame, ReqFrame, SweepFrame, OtherFrame, UserFrame, Index, Prune

LEMMA PendingMoves ==
    ASSUME [Next]_vars
    PROVE  \/ UNCHANGED pending
           \/ \E c \in Contents : FinishClear(c)
           \/ \E r \in Reqs : Commit(r) \/ Clear(r)
  BY DEF Next, Daemon, User, ReqStep, vars, dbVars, diskVars, userVars, Start, FinishRename,
     FinishFails, FinishEnd, Crash, SweepStaging, SweepBegin, SweepResidue, Deliver, Delete, Edit, Move,
     Plan, Refuse, ApplyRow, Copy, Splice, StageFails, CommitFails, Undo, Swap, SwapFails,
     StartFrame, FailFrame, ReqFrame, SweepFrame, OtherFrame, UserFrame, Index, Prune

(* What is staged: by a request that goes from copy or splice, or gives up. *)
Stages(r) == Copy(r) \/ Splice(r) \/ StageFails(r) \/ Undo(r)

LEMMA StagedMoves ==
    ASSUME [Next]_vars
    PROVE  \/ UNCHANGED <<staged, spoiled>>
           \/ \E c \in Contents : FinishRename(c)
           \/ \E r \in Reqs : Swap(r) \/ Stages(r)
           \/ UNCHANGED spoiled /\ \E c \in Contents, pid \in Pids : SweepStaging(c, pid)
  BY DEF Next, Daemon, User, ReqStep, vars, dbVars, diskVars, userVars, Start, FinishClear,
     FinishFails, FinishEnd, Crash, SweepStaging, SweepBegin, SweepResidue, Deliver, Delete, Edit, Move,
     Plan, Refuse, ApplyRow, CommitFails, Commit, Clear, SwapFails, Stages,
     StartFrame, FailFrame, ReqFrame, SweepFrame, OtherFrame, UserFrame, Index, Prune

LEMMA FileMoves ==
    ASSUME [Next]_vars
    PROVE  \/ UNCHANGED <<file, lost, moved>>
           \/ \E c \in Contents : FinishRename(c)
           \/ \E r \in Reqs : Swap(r)
           \/ \E p \in Phones, c \in Contents : Deliver(p, c) /\ ~Durable(c)
           \/ User
  BY DEF Next, Daemon, ReqStep, vars, dbVars, diskVars, userVars, Start, FinishClear,
     FinishFails, FinishEnd, Crash, SweepStaging, SweepBegin, SweepResidue, Deliver,
     Plan, Refuse, ApplyRow, Copy, Splice, StageFails, CommitFails, Undo, Commit, Clear, SwapFails,
     StartFrame, FailFrame, ReqFrame, SweepFrame, OtherFrame, Index, Prune

LEMMA ReqMoves ==
    ASSUME [Next]_vars
    PROVE  \/ UNCHANGED req
           \/ Crash
           \/ \E r \in Reqs, p \in Phones, old, new \in Contents : Plan(r, p, old, new)
           \/ \E r \in Reqs : ReqStep(r)
  BY DEF Next, Daemon, User, vars, dbVars, diskVars, userVars, Start, FinishRename, FinishClear,
     FinishFails, FinishEnd, SweepStaging, SweepBegin, SweepResidue, Deliver, Delete, Edit, Move,
     StartFrame, FailFrame, ReqFrame, SweepFrame, OtherFrame, UserFrame, Index, Prune

LEMMA DaemonMoves ==
    ASSUME [Next]_vars
    PROVE  \/ UNCHANGED daemon
           \/ \E pid \in Pids : Start(pid)
           \/ \E c \in Contents : FinishRename(c) \/ FinishClear(c)
           \/ FinishFails \/ FinishEnd \/ Crash
           \/ SweepBegin \/ \E a \in Contents : SweepResidue(a)
  BY DEF Next, Daemon, User, ReqStep, vars, dbVars, diskVars, userVars, SweepStaging, Deliver, Delete, Edit, Move,
     Plan, Refuse, ApplyRow, Copy, Splice, StageFails, CommitFails, Undo, Commit, Swap, Clear, SwapFails,
     StartFrame, FailFrame, ReqFrame, SweepFrame, OtherFrame, UserFrame, Index, Prune

LEMMA AckMoves ==
    ASSUME [Next]_vars
    PROVE  \/ UNCHANGED acked
           \/ \E p \in Phones, c \in Contents : Deliver(p, c)
           \/ \E r \in Reqs, p \in Phones, old, new \in Contents :
                Plan(r, p, old, new) /\ alias[old] = new /\ Durable(new) /\ acked' = acked \cup {new}
           \/ \E r \in Reqs : Clear(r)
  <1>1. ASSUME NEW r \in Reqs, NEW p \in Phones, NEW old \in Contents, NEW new \in Contents,
               Plan(r, p, old, new)
        PROVE  UNCHANGED acked \/ (alias[old] = new /\ Durable(new) /\ acked' = acked \cup {new})
    BY <1>1 DEF Plan
  <1>2. ASSUME NEW r \in Reqs, ReqStep(r) PROVE UNCHANGED acked \/ Clear(r)
    BY <1>2 DEF ReqStep, Refuse, ApplyRow, Copy, Splice, StageFails, CommitFails, Undo, Commit, Swap,
       SwapFails, ReqEnd
  <1>3. CASE UNCHANGED vars
    BY <1>3 DEF vars
  <1>4. CASE Daemon
    BY <1>4 DEF Daemon, Start, FinishRename, FinishClear, FinishFails, FinishEnd, Crash, SweepStaging,
       SweepBegin, SweepResidue, StartFrame, SweepFrame, Index, Prune
  <1>5. CASE User
    BY <1>5 DEF User, Delete, Edit, Move, UserFrame
  <1> QED BY <1>1, <1>2, <1>3, <1>4, <1>5 DEF Next

-----------------------------------------------------------------------------
(* The turn a request takes.                                               *)

Same(r) ==
    /\ req'[r].phone = req[r].phone /\ req'[r].old = req[r].old
    /\ req'[r].new = req[r].new /\ req'[r].at = req[r].at

LEMMA Turn ==
    ASSUME Shape, NEW r \in Reqs, ReqStep(r)
    PROVE  /\ req' \in [Reqs -> ReqRec] /\ \A s \in Reqs : s # r => req'[s] = req[s]
           /\ UNCHANGED daemon /\ req[r] # NoReq
           /\ \/ req'[r] = NoReq
              \/ /\ Same(r) /\ ApplyRow(r) /\ req[r].pc = "fetch" /\ req'[r].pc = "copy"
                 /\ row[req[r].old] # NoRow /\ req'[r].read = row[req[r].old]
              \/ /\ Same(r) /\ req'[r].read = req[r].read
                 /\ \/ Copy(r) /\ req[r].pc = "copy" /\ req'[r].pc = "splice"
                    \/ Splice(r) /\ req[r].pc = "splice" /\ req'[r].pc = "commit"
                       /\ staged[Mine(r)] = req[r].old /\ <<req[r].old, req[r].new>> \in Redacted
                       /\ Stage(r, req[r].new)
                    \/ Commit(r) /\ req[r].pc = "commit" /\ req'[r].pc = "swap"
                    \/ CommitFails(r) /\ req[r].pc = "commit" /\ req'[r].pc = "undo"
                    \/ Swap(r) /\ req[r].pc = "swap" /\ req'[r].pc = "clear"
  <1> DEFINE G == /\ req' \in [Reqs -> ReqRec] /\ \A s \in Reqs : s # r => req'[s] = req[s]
             E == req' = [req EXCEPT ![r] = NoReq]
  <1>0. E => G /\ req'[r] = NoReq
    BY Ends
  <1>1. ASSUME NEW v \in ReadOnes, req[r].pc \in ReadOnes, ReqGoto(r, v)
        PROVE  G /\ Same(r) /\ req'[r].read = req[r].read /\ req'[r].pc = v
    BY <1>1, Goes DEF Same
  <1>2. UNCHANGED daemon
    BY DEF ReqStep, Refuse, ApplyRow, Copy, Splice, StageFails, Commit, CommitFails, Undo, Swap, Clear,
           SwapFails, ReqFrame, FailFrame
  <1>3. req[r] # NoReq
    <2>1. req[r].pc # "idle"
      BY DEF ReqStep, Refuse, ApplyRow, Copy, Splice, StageFails, Commit, CommitFails, Undo, Swap, Clear,
             SwapFails, ReqAt
    <2> QED BY <2>1, ReqFacts
  <1>4. CASE Refuse(r) \/ StageFails(r) \/ Undo(r) \/ Clear(r) \/ SwapFails(r)
    <2>1. E
      BY <1>4 DEF Refuse, StageFails, Undo, Clear, SwapFails, ReqEnd, Replaced
    <2> QED BY <1>0, <1>2, <1>3, <2>1
  <1>5. CASE ApplyRow(r)
    <2>1. CASE row[req[r].old] = NoRow
      BY <1>0, <1>2, <1>3, <1>5, <2>1 DEF ApplyRow, ReqEnd
    <2>2. CASE row[req[r].old] # NoRow
      <3> DEFINE w == row[req[r].old]
      <3>1. w \in Row
        BY <1>3, <2>2, ReqFacts, RowFacts
      <3>2. req[r].pc = "fetch" /\ req' = [req EXCEPT ![r].pc = "copy", ![r].read = w]
        BY <1>5, <2>2 DEF ApplyRow, ReqAt
      <3> HIDE DEF w
      <3>3. G /\ Same(r) /\ req'[r].pc = "copy" /\ req'[r].read = w
        BY <3>1, <3>2, Reads DEF Same
      <3> QED BY <1>2, <1>3, <1>5, <2>2, <3>2, <3>3 DEF w
    <2> QED BY <2>1, <2>2
  <1>6. CASE Copy(r)
    <2>1. req[r].pc = "copy" /\ (E \/ ReqGoto(r, "splice"))
      BY <1>6 DEF Copy, ReqAt, ReqEnd
    <2> QED BY <1>0, <1>1, <1>2, <1>3, <1>6, <2>1 DEF ReadOnes
  <1>7. CASE Splice(r)
    <2>1. /\ req[r].pc = "splice"
          /\ \/ E
             \/ /\ ReqGoto(r, "commit") /\ staged[Mine(r)] = req[r].old
                /\ <<req[r].old, req[r].new>> \in Redacted /\ Stage(r, req[r].new)
      BY <1>7 DEF Splice, ReqAt, ReqEnd
    <2> QED BY <1>0, <1>1, <1>2, <1>3, <1>7, <2>1 DEF ReadOnes
  <1>8. CASE Commit(r)
    <2>1. req[r].pc = "commit" /\ ReqGoto(r, "swap")
      BY <1>8 DEF Commit, ReqAt
    <2> QED BY <1>1, <1>2, <1>3, <1>8, <2>1 DEF ReadOnes
  <1>9. CASE CommitFails(r)
    <2>1. req[r].pc = "commit" /\ ReqGoto(r, "undo")
      BY <1>9 DEF CommitFails, ReqAt
    <2> QED BY <1>1, <1>2, <1>3, <1>9, <2>1 DEF ReadOnes
  <1>10. CASE Swap(r)
    <2>1. req[r].pc = "swap" /\ ReqGoto(r, "clear")
      BY <1>10 DEF Swap, ReqAt
    <2> QED BY <1>1, <1>2, <1>3, <1>10, <2>1 DEF ReadOnes
  <1> QED BY <1>4, <1>5, <1>6, <1>7, <1>8, <1>9, <1>10 DEF ReqStep

(* A new request, if its answer is not known already.                      *)
LEMMA PlanFacts ==
    ASSUME Shape, NEW r \in Reqs, NEW p \in Phones, NEW old \in Contents, NEW new \in Contents,
           Plan(r, p, old, new)
    PROVE  /\ daemon.st = "serve" /\ UNCHANGED <<file, staged, spoiled, dbVars, daemon, lost, moved>>
           /\ req' \in [Reqs -> ReqRec] /\ \A s \in Reqs : s # r => req'[s] = req[s]
           /\ \/ UNCHANGED req
              \/ /\ req[r] = NoReq /\ ~Locked(p) /\ row[old].src = p /\ HasFile(row[old])
                 /\ req'[r].pc = "fetch" /\ req'[r].phone = p /\ req'[r].old = old
                 /\ req'[r].new = new /\ req'[r].at = row[old].at
  <1>1. daemon.st = "serve" /\ UNCHANGED <<file, staged, spoiled, dbVars, daemon, lost, moved>>
    BY DEF Plan, ReqFrame, FailFrame, userVars
  <1>2. CASE UNCHANGED req
    BY <1>1, <1>2 DEF Shape
  <1>3. CASE ~UNCHANGED req
    <2>1. /\ req[r] = NoReq /\ ~Locked(p) /\ row[old].src = p /\ HasFile(row[old])
          /\ req' = [req EXCEPT ![r] = [NoReq EXCEPT !.pc = "fetch", !.phone = p,
                              !.old = old, !.new = new, !.at = row[old].at]]
      BY <1>3 DEF Plan
    <2>2. row[old].at \in Paths
      BY <2>1, RowFacts
    <2>3. PICK pa \in Paths : pa = row[old].at
      BY <2>2
    <2>4. PICK q : q = Planning(p, old, new, pa)
      OBVIOUS
    <2>6. req' = [req EXCEPT ![r] = q] /\ req \in [Reqs -> ReqRec]
      BY <2>1, <2>3, <2>4 DEF Planning, Shape
    <2>7. /\ q \in ReqRec /\ q.pc = "fetch" /\ q.phone = p /\ q.old = old /\ q.new = new
          /\ q.at = pa
      BY <2>4, Plans
    <2>5. /\ req' \in [Reqs -> ReqRec] /\ \A s \in Reqs : s # r => req'[s] = req[s]
          /\ req'[r].pc = "fetch" /\ req'[r].phone = p /\ req'[r].old = old
          /\ req'[r].new = new /\ req'[r].at = pa
      BY <2>6, <2>7
    <2> QED BY <1>1, <2>1, <2>3, <2>5
  <1> QED BY <1>2, <1>3

LEMMA PhaseNext ==
    ASSUME Shape, Phase, [Next]_vars
    PROVE  Phase'
  <1>0. /\ \A r \in Reqs : req[r] # NoReq => daemon.st = "serve"
        /\ daemon.st # "down" => daemon.pid \in Pids
        /\ daemon.st # "finish" => daemon.now = None /\ daemon.todo = {}
        /\ daemon.now \notin daemon.todo
        /\ \A c \in daemon.todo : pending[c] # NoSwap
    BY DEF Phase
  <1>1. CASE UNCHANGED daemon
    <2>1. ASSUME NEW r \in Reqs, req'[r] # NoReq PROVE daemon.st = "serve"
      <3>1. CASE UNCHANGED req
        BY <1>0, <2>1, <3>1
      <3>2. CASE Crash
        BY <2>1, <3>2 DEF Crash
      <3>3. ASSUME NEW s \in Reqs, NEW p \in Phones, NEW old \in Contents, NEW new \in Contents,
                   Plan(s, p, old, new)
            PROVE  daemon.st = "serve"
        BY <3>3, PlanFacts
      <3>4. ASSUME NEW s \in Reqs, ReqStep(s) PROVE daemon.st = "serve"
        BY <3>4, Turn, <1>0
      <3> QED BY <3>1, <3>2, <3>3, <3>4, ReqMoves
    <2>2. ASSUME NEW c \in daemon.todo PROVE pending'[c] # NoSwap
      <3>1. daemon.st = "finish" /\ pending[c] # NoSwap /\ c # daemon.now
        BY <1>0, <2>2
      <3>2. CASE UNCHANGED pending
        BY <3>1, <3>2
      <3>3. ASSUME NEW d \in Contents, FinishClear(d) PROVE pending'[c] # NoSwap
        BY <3>1, <3>3, DaemonFacts DEF FinishClear, Shape
      <3>4. ASSUME NEW r \in Reqs, Commit(r) \/ Clear(r) PROVE FALSE
        <4>1. ReqStep(r)
          BY <3>4 DEF ReqStep
        <4> QED BY <4>1, <3>1, <1>0, Turn
      <3> QED BY <3>2, <3>3, <3>4, PendingMoves
    <2>3. daemon'.todo = daemon.todo
      BY <1>1
    <2>4. \A c \in daemon'.todo : pending'[c] # NoSwap
      BY <2>2, <2>3
    <2> QED BY <1>0, <1>1, <2>1, <2>4 DEF Phase
  <1>2. ASSUME NEW pid \in Pids, Start(pid) PROVE Phase'
    <2>1. UNCHANGED <<req, pending>> /\ daemon.st = "down"
      BY <1>2 DEF Start
    <2>2. \A r \in Reqs : req'[r] = NoReq
      BY <1>0, <2>1
    <2> QED BY <1>2, <2>1, <2>2, StartMakes, Nones DEF Phase
  <1>3. ASSUME NEW c \in Contents, FinishRename(c) \/ FinishClear(c) PROVE Phase'
    <2>1. daemon.st = "finish" /\ UNCHANGED req
      BY <1>3 DEF FinishRename, FinishClear
    <2>2. CASE FinishRename(c)
      <3>1. UNCHANGED pending /\ c \in daemon.todo
        BY <2>2 DEF FinishRename
      <3> QED BY <1>0, <2>1, <2>2, <3>1, FinishMakes DEF Phase
    <2>3. CASE FinishClear(c)
      <3>1. daemon.now = c /\ \A d \in Contents : d # c => pending'[d] = pending[d]
        BY <2>3 DEF FinishClear, Shape
      <3>2. \A d \in daemon'.todo : pending'[d] # NoSwap
        BY <1>0, <2>3, <3>1, FinishMakes, DaemonFacts
      <3> QED BY <1>0, <2>1, <2>3, <3>2, FinishMakes, DaemonFacts, Nones DEF Phase
    <2> QED BY <1>3, <2>2, <2>3
  <1>4. CASE FinishFails \/ FinishEnd
    <2>1. UNCHANGED req /\ daemon.st = "finish"
      BY <1>4 DEF FinishFails, FinishEnd
    <2> QED BY <1>0, <1>4, <2>1, ServeMakes DEF Phase
  <1>5. CASE Crash
    <2>1. daemon' = NoDaemon /\ \A r \in Reqs : req'[r] = NoReq
      BY <1>5 DEF Crash
    <2> QED BY <2>1, Nobody DEF Phase
  <1>6. CASE SweepBegin \/ \E a \in Contents : SweepResidue(a)
    <2>1. UNCHANGED <<req, pending>>
      BY <1>6 DEF SweepBegin, SweepResidue, SweepFrame, dbVars
    <2>2. /\ daemon'.st = daemon.st /\ daemon'.pid = daemon.pid
          /\ daemon'.todo = daemon.todo /\ daemon'.now = daemon.now
      BY <1>6, SweepMakes
    <2> QED BY <1>0, <2>1, <2>2 DEF Phase
  <1> QED BY <1>1, <1>2, <1>3, <1>4, <1>5, <1>6, DaemonMoves

(* Deliver and Index, taken apart.                                         *)
LEMMA DeliverFacts ==
    ASSUME Shape, NEW p \in Phones, NEW c \in Contents, Deliver(p, c), ~Durable(c)
    PROVE  \E q \in Paths, w \in Row :
             /\ file[q] = None /\ w.at = q
             /\ file' = [file EXCEPT ![q] = c] /\ row' = [row EXCEPT ![c] = w]
  <1>1. PICK q \in Paths :
          /\ file[q] = None
          /\ file' = [file EXCEPT ![q] = c]
          /\ row' = [row EXCEPT ![c] = IF row[c] = NoRow
                                         THEN [at |-> q, src |-> p, way |-> "sent"]
                                         ELSE [row[c] EXCEPT !.at = q]]
    BY DEF Deliver
  <1>2. CASE row[c] = NoRow
    <2>1. PICK w : w = [at |-> q, src |-> p, way |-> "sent"]
      OBVIOUS
    <2>2. w \in Row /\ w.at = q /\ row' = [row EXCEPT ![c] = w]
      BY <1>1, <1>2, <2>1 DEF Row
    <2> QED BY <1>1, <2>2
  <1>3. CASE row[c] # NoRow
    <2>1. PICK w : w = [row[c] EXCEPT !.at = q]
      OBVIOUS
    <2>2. row[c] \in Row
      BY <1>3, RowFacts
    <2>3. w \in Row /\ w.at = q
      BY <2>1, <2>2 DEF Row
    <2>4. row' = [row EXCEPT ![c] = w]
      BY <1>1, <1>3, <2>1
    <2> QED BY <1>1, <2>3, <2>4
  <1> QED BY <1>2, <1>3

LEMMA IndexFacts ==
    ASSUME Shape, NEW p \in Paths, Index(p)
    PROVE  \E w \in Row :
             /\ w.at = p /\ (row[file[p]] = NoRow => w.way = "found")
             /\ file[p] \in Contents /\ ~HasFile(row[file[p]])
             /\ row' \in [Contents -> Row \cup {NoRow}]
             /\ row'[file[p]] = w
             /\ \A d \in Contents \ {file[p]} :
                  row'[d] = row[d] \/ (row'[d] = NoRow /\ row[d].at = p /\ row[file[p]] = NoRow)
  <1>1. PICK c \in Contents : c = file[p] /\ ~HasFile(row[c])
    BY DEF Index, Shape
  <1>2. CASE row[c] # NoRow
    <2>1. row' = [row EXCEPT ![c].at = p]
      BY <1>1, <1>2 DEF Index
    <2>2. PICK w : w = [row[c] EXCEPT !.at = p]
      OBVIOUS
    <2>3. row[c] \in Row
      BY <1>2, RowFacts
    <2>4. w \in Row /\ w.at = p
      BY <2>2, <2>3 DEF Row
    <2>5. row' = [row EXCEPT ![c] = w]
      BY <2>1, <2>2
    <2>6. /\ row' \in [Contents -> Row \cup {NoRow}] /\ row'[c] = w
          /\ \A d \in Contents \ {c} : row'[d] = row[d]
      BY <2>4, <2>5 DEF Shape
    <2> QED BY <1>1, <1>2, <2>4, <2>6
  <1>3. CASE row[c] = NoRow
    <2>1. PICK ev \in {{}} \cup {{d} : d \in {d \in Contents \ {c} : row[d].at = p}} :
            row' = [d \in Contents |->
                      IF d = c THEN [at |-> p, src |-> DirOf[p], way |-> "found"]
                      ELSE IF d \in ev THEN NoRow ELSE row[d]]
      BY <1>1, <1>3 DEF Index
    <2>2. PICK w : w = [at |-> p, src |-> DirOf[p], way |-> "found"]
      OBVIOUS
    <2>3. DirOf[p] \in Phones \cup {None}
      BY SupersedeAssumption
    <2>4. w \in Row /\ w.at = p /\ w.way = "found"
      BY <2>2, <2>3 DEF Row
    <2>5. /\ row' = [d \in Contents |-> IF d = c THEN w ELSE IF d \in ev THEN NoRow ELSE row[d]]
          /\ \A d \in ev : d \in Contents /\ d # c /\ row[d].at = p
      BY <2>1, <2>2
    <2>6. row' \in [Contents -> Row \cup {NoRow}] /\ row'[c] = w
      BY <2>4, <2>5 DEF Shape
    <2>7. \A d \in Contents \ {c} : row'[d] = row[d] \/ (row'[d] = NoRow /\ row[d].at = p)
      BY <2>5
    <2> QED BY <1>1, <1>3, <2>4, <2>6, <2>7
  <1> QED BY <1>2, <1>3

LEMMA PruneFacts ==
    ASSUME Shape, NEW c \in Contents, Prune(c)
    PROVE  /\ row[c] # NoRow /\ ~HasFile(row[c])
           /\ row' \in [Contents -> Row \cup {NoRow}] /\ row'[c] = NoRow
           /\ \A d \in Contents : d # c => row'[d] = row[d]
  BY DEF Prune, Shape

LEMMA CommitFacts ==
    ASSUME Shape, Phase, NEW r \in Reqs, Commit(r)
    PROVE  /\ req[r].pc = "commit" /\ req[r].old \in Contents /\ req[r].new \in Contents
           /\ req[r].read \in Row /\ row[req[r].new] = NoRow
           /\ daemon.pid \in Pids /\ daemon.st = "serve"
           /\ row' \in [Contents -> Row \cup {NoRow}] /\ row'[req[r].new] = req[r].read
           /\ req[r].old # req[r].new => row'[req[r].old] = NoRow
           /\ \A d \in Contents \ {req[r].old, req[r].new} : row'[d] = row[d]
           /\ alias' \in [Contents -> Contents \cup {None}]
           /\ \A a \in Contents :
                alias'[a] = IF a = req[r].old \/ alias[a] = req[r].old THEN req[r].new ELSE alias[a]
           /\ pending' \in [Contents -> PendRec \cup {NoSwap}]
           /\ pending'[req[r].new] \in PendRec
           /\ pending'[req[r].new].at = req[r].read.at /\ pending'[req[r].new].pid = daemon.pid
           /\ \A d \in Contents : d # req[r].new => pending'[d] = pending[d]
           /\ UNCHANGED <<file, staged, residue, spoiled, lost, moved, daemon, acked>>
  <1>1. req[r].pc = "commit" /\ row[req[r].new] = NoRow
    BY DEF Commit, ReqAt
  <1>2. /\ req[r].old \in Contents /\ req[r].new \in Contents /\ req[r].read \in Row
        /\ req[r] # NoReq
    BY <1>1, ReqFacts DEF ReadOnes
  <1>3. daemon.pid \in Pids /\ daemon.st = "serve"
    BY <1>2 DEF Phase
  <1>4. PICK o \in Contents, n \in Contents, w \in Row : o = req[r].old /\ n = req[r].new /\ w = req[r].read
    BY <1>2
  <1>5. row' = [row EXCEPT ![o] = NoRow, ![n] = w]
    BY <1>4 DEF Commit
  <1>6. /\ row' \in [Contents -> Row \cup {NoRow}] /\ row'[n] = w
        /\ o # n => row'[o] = NoRow
        /\ \A d \in Contents \ {o, n} : row'[d] = row[d]
    BY <1>5 DEF Shape
  <1>7. /\ alias' \in [Contents -> Contents \cup {None}]
        /\ \A a \in Contents : alias'[a] = IF a = o \/ alias[a] = o THEN n ELSE alias[a]
    <2>1. alias' = [c \in Contents |-> IF c = o \/ alias[c] = o THEN n ELSE alias[c]]
      BY <1>4 DEF Commit, Retarget
    <2> QED BY <2>1 DEF Shape
  <1>8. PICK q : q = [at |-> w.at, pid |-> daemon.pid]
    OBVIOUS
  <1>9. q \in PendRec /\ q.at = w.at /\ q.pid = daemon.pid
    <2>1. w.at \in Paths
      BY DEF Row
    <2> QED BY <1>3, <1>8, <2>1 DEF PendRec
  <1>10. pending' = [pending EXCEPT ![n] = q]
    BY <1>4, <1>8 DEF Commit
  <1>11. /\ pending' \in [Contents -> PendRec \cup {NoSwap}] /\ pending'[n] = q
         /\ \A d \in Contents : d # n => pending'[d] = pending[d]
    BY <1>9, <1>10 DEF Shape
  <1>12. UNCHANGED <<file, staged, residue, spoiled, lost, moved, daemon, acked>>
    BY DEF Commit, ReqFrame, FailFrame, userVars
  <1> HIDE DEF Commit
  <1> QED BY <1>1, <1>2, <1>3, <1>4, <1>6, <1>7, <1>9, <1>11, <1>12

LEMMA ClearFacts ==
    ASSUME Shape, Phase, NEW c \in Contents, \/ FinishClear(c)
                                             \/ \E r \in Reqs : Clear(r) /\ c = req[r].new
    PROVE  /\ pending' \in [Contents -> PendRec \cup {NoSwap}] /\ pending'[c] = NoSwap
           /\ \A d \in Contents : d # c => pending'[d] = pending[d]
           /\ UNCHANGED <<file, staged, row, alias, residue, spoiled, lost, moved>>
  BY DEF FinishClear, Clear, Replaced, StartFrame, ReqFrame, FailFrame, userVars, Shape

(* What Stages does, in all its ways.                                      *)
LEMMA StagesFacts ==
    ASSUME Shape, Phase, NEW r \in Reqs, Stages(r)
    PROVE  /\ req[r] # NoReq /\ req[r].new \in Contents /\ daemon.pid \in Pids
           /\ UNCHANGED <<file, residue, row, alias, pending, lost, moved, daemon>>
           /\ \E x \in Contents \cup {None} :
                \/ x = req[r].new /\ Stage(r, x) /\ Splice(r) /\ staged[Mine(r)] = req[r].old
                   /\ <<req[r].old, req[r].new>> \in Redacted
                \/ x = file[req[r].at] /\ Stage(r, x) /\ Copy(r)
                \/ x = None /\ Stage(r, x) /\ req'[r] = NoReq /\ ~Undo(r)
                \/ x = None /\ Stage(r, x) /\ req'[r] = NoReq /\ Undo(r) /\ pending[req[r].new] = NoSwap
                \/ UNCHANGED <<staged, spoiled>> /\ req'[r] = NoReq
           /\ staged' \in [Contents \X Pids -> Contents \cup {None}] /\ spoiled' \subseteq Contents
           /\ spoiled \subseteq spoiled'
  <1>1. ReqStep(r)
    BY DEF Stages, ReqStep
  <1>2. req[r] # NoReq /\ req[r].new \in Contents /\ req[r].at \in Paths /\ daemon.pid \in Pids
    BY <1>1, Turn, ReqFacts DEF Phase
  <1>3. UNCHANGED <<file, residue, row, alias, pending, lost, moved, daemon>>
    BY DEF Stages, Copy, Splice, StageFails, Undo, ReqFrame, FailFrame, dbVars, userVars
  <1>4. \E x \in Contents \cup {None} :
                \/ x = req[r].new /\ Stage(r, x) /\ Splice(r) /\ staged[Mine(r)] = req[r].old
                   /\ <<req[r].old, req[r].new>> \in Redacted
                \/ x = file[req[r].at] /\ Stage(r, x) /\ Copy(r)
                \/ x = None /\ Stage(r, x) /\ req'[r] = NoReq /\ ~Undo(r)
                \/ x = None /\ Stage(r, x) /\ req'[r] = NoReq /\ Undo(r) /\ pending[req[r].new] = NoSwap
                \/ UNCHANGED <<staged, spoiled>> /\ req'[r] = NoReq
    <2>1. CASE Copy(r)
      <3>1. file[req[r].at] \in Contents \cup {None} /\ Stage(r, file[req[r].at])
        BY <1>2, <2>1 DEF Copy, Shape
      <3> QED BY <2>1, <3>1
    <2>2. ASSUME ReqEnd(r) PROVE req'[r] = NoReq
      BY <2>2, Ends DEF ReqEnd
    <2>3. CASE Undo(r)
      <3>1. \/ Stage(r, None) /\ pending[req[r].new] = NoSwap
            \/ UNCHANGED <<staged, spoiled>>
        BY <2>3 DEF Undo, Unstage
      <3> QED BY <2>2, <2>3, <3>1 DEF Undo
    <2>4. CASE Splice(r)
      <3>1. \/ /\ Stage(r, req[r].new) /\ staged[Mine(r)] = req[r].old
               /\ <<req[r].old, req[r].new>> \in Redacted
            \/ Stage(r, None) /\ ReqEnd(r)
        BY <2>4 DEF Splice, Unstage
      <3>2. ~Undo(r)
        BY <2>4 DEF Splice, Undo, ReqAt
      <3> QED BY <1>2, <2>2, <2>4, <3>1, <3>2
    <2>5. CASE StageFails(r)
      <3>1. Stage(r, None) /\ ReqEnd(r)
        BY <2>5 DEF StageFails, Unstage
      <3>2. ~Undo(r)
        BY <2>5 DEF StageFails, Undo, ReqAt
      <3> QED BY <2>2, <2>5, <3>1, <3>2
    <2> QED BY <2>1, <2>3, <2>4, <2>5 DEF Stages
  <1>5. /\ staged' \in [Contents \X Pids -> Contents \cup {None}] /\ spoiled' \subseteq Contents
        /\ spoiled \subseteq spoiled'
    <2>1. PICK x \in Contents \cup {None} : Stage(r, x) \/ UNCHANGED <<staged, spoiled>>
      BY <1>4
    <2>2. CASE Stage(r, x)
      BY <1>2, <2>2, StageFacts
    <2>3. CASE UNCHANGED <<staged, spoiled>>
      BY <2>3 DEF Shape
    <2> QED BY <2>1, <2>2, <2>3
  <1> QED BY <1>2, <1>3, <1>4, <1>5

(* The beginning.                                                          *)
LEMMA InitFacts ==
    ASSUME Init
    PROVE  /\ \/ Empty
              \/ \E o \in Contents, n \in Contents, p \in Paths, ph \in Phones :
                   /\ <<o, n>> \in Redacted
                   /\ file = [q \in Paths |-> IF q = p THEN n ELSE None]
                   /\ row = [c \in Contents |-> IF c = n THEN [at |-> p, src |-> ph, way |-> "sent"]
                                                   ELSE NoRow]
                   /\ alias = [c \in Contents |-> IF c = o THEN n ELSE None]
                   /\ residue = {o} /\ acked = {o, n}
           /\ staged = [s \in Contents \X Pids |-> None]
           /\ pending = [c \in Contents |-> NoSwap]
           /\ req = [r \in Reqs |-> NoReq]
           /\ daemon = NoDaemon
           /\ starts = 0 /\ upsets = 0 /\ lost = {} /\ moved = {} /\ spoiled = {}
  <1>1. CASE Legacy
    <2>1. PICK r \in Redacted, p \in Paths, ph \in Phones :
            /\ file = [q \in Paths |-> IF q = p THEN r[2] ELSE None]
            /\ row = [c \in Contents |-> IF c = r[2] THEN [at |-> p, src |-> ph, way |-> "sent"]
                                                   ELSE NoRow]
            /\ alias = [c \in Contents |-> IF c = r[1] THEN r[2] ELSE None]
            /\ residue = {r[1]} /\ acked = {r[1], r[2]}
      BY <1>1 DEF Legacy
    <2>2. r \in Contents \X Contents
      BY SupersedeAssumption
    <2>3. r[1] \in Contents /\ r[2] \in Contents /\ <<r[1], r[2]>> \in Redacted
      BY <2>2
    <2> QED BY <2>1, <2>3 DEF Init
  <1> QED BY <1>1 DEF Init

LEMMA ShapeInit ==
    ASSUME Init
    PROVE  Shape
  <1>1. /\ file \in [Paths -> Contents \cup {None}] /\ residue \subseteq Contents
        /\ row \in [Contents -> Row \cup {NoRow}] /\ alias \in [Contents -> Contents \cup {None}]
        /\ acked \subseteq Contents
    <2>1. CASE Empty
      BY <2>1 DEF Empty
    <2>2. CASE ~Empty
      <3>1. PICK o \in Contents, n \in Contents, p \in Paths, ph \in Phones :
                   /\ <<o, n>> \in Redacted
                   /\ file = [q \in Paths |-> IF q = p THEN n ELSE None]
                   /\ row = [c \in Contents |-> IF c = n THEN [at |-> p, src |-> ph, way |-> "sent"]
                                                   ELSE NoRow]
                   /\ alias = [c \in Contents |-> IF c = o THEN n ELSE None]
                   /\ residue = {o} /\ acked = {o, n}
        BY <2>2, InitFacts
      <3>2. [at |-> p, src |-> ph, way |-> "sent"] \in Row
        BY DEF Row
      <3> QED BY <3>1, <3>2
    <2> QED BY <2>1, <2>2
  <1>2. /\ staged \in [Contents \X Pids -> Contents \cup {None}]
        /\ pending \in [Contents -> PendRec \cup {NoSwap}]
        /\ req \in [Reqs -> ReqRec] /\ daemon \in DaemonRec
        /\ starts \in Nat /\ upsets \in Nat
        /\ lost \subseteq Contents /\ spoiled \subseteq Contents /\ moved \subseteq Contents
    BY InitFacts, Nobody
  <1> QED BY <1>1, <1>2 DEF Shape

(* The user.                                                               *)
LEMMA UserFacts ==
    ASSUME Shape, User
    PROVE  /\ UNCHANGED <<staged, residue, row, alias, pending, req, daemon, starts, acked, spoiled>>
           /\ \E p \in Paths : \E t \in {lost', moved'} :
                /\ file[p] # None /\ file[p] \in Contents
                /\ StandsFor(file[p]) \subseteq t
                /\ \A q \in Paths : q # p /\ file[q] # None => file'[q] = file[q]
           /\ file' \in [Paths -> Contents \cup {None}]
           /\ lost \subseteq lost' /\ moved \subseteq moved'
           /\ lost' \subseteq Contents /\ moved' \subseteq Contents
           /\ upsets' \in Nat
           /\ \A p \in Paths : \A a \in StandsFor(file[p]) :
                file[p] # None =>
                  a \in lost' \/ \E q \in Paths : file'[q] # None /\ a \in StandsFor(file'[q])
  <1>1. UNCHANGED <<staged, residue, row, alias, pending, req, daemon, starts, acked, spoiled>>
    BY DEF User, Delete, Edit, Move, UserFrame, OtherFrame
  <1>2. upsets' \in Nat
    BY DEF User, Delete, Edit, Move, Upset, Shape
  <1>3. ASSUME NEW p \in Paths, Delete(p) \/ \E c \in Contents : Edit(p, c)
        PROVE  /\ file[p] # None /\ file[p] \in Contents
               /\ lost' = lost \cup StandsFor(file[p]) /\ moved' = moved
               /\ \A q \in Paths : q # p => file'[q] = file[q]
               /\ file' \in [Paths -> Contents \cup {None}]
    BY <1>3 DEF Delete, Edit, Shape
  <1>4. ASSUME NEW p \in Paths, NEW q \in Paths, Move(p, q)
        PROVE  /\ file[p] # None /\ file[p] \in Contents
               /\ moved' = moved \cup StandsFor(file[p]) /\ lost' = lost
               /\ p # q /\ file[q] = None /\ file'[q] = file[p]
               /\ \A s \in Paths \ {p, q} : file'[s] = file[s]
               /\ file' \in [Paths -> Contents \cup {None}]
    <2>1. file[p] # None /\ file[q] = None /\ p # q
      BY <1>4 DEF Move
    <2>2. file' = [file EXCEPT ![p] = None, ![q] = file[p]]
      BY <1>4 DEF Move
    <2>3. moved' = moved \cup StandsFor(file[p]) /\ lost' = lost
      BY <1>4 DEF Move
    <2> QED BY <2>1, <2>2, <2>3 DEF Shape
  <1> DEFINE Goal ==
           /\ \E p \in Paths : \E t \in {lost', moved'} :
                /\ file[p] # None /\ file[p] \in Contents
                /\ StandsFor(file[p]) \subseteq t
                /\ \A q \in Paths : q # p /\ file[q] # None => file'[q] = file[q]
           /\ file' \in [Paths -> Contents \cup {None}]
           /\ lost \subseteq lost' /\ moved \subseteq moved'
           /\ lost' \subseteq Contents /\ moved' \subseteq Contents
           /\ \A p \in Paths : \A a \in StandsFor(file[p]) :
                file[p] # None =>
                  a \in lost' \/ \E q \in Paths : file'[q] # None /\ a \in StandsFor(file'[q])
  <1>5. ASSUME NEW p \in Paths, Delete(p) \/ \E c \in Contents : Edit(p, c)
        PROVE  Goal
    <2>1. lost \subseteq Contents /\ moved \subseteq Contents
      BY DEF Shape
    <2>2. ASSUME NEW q \in Paths, NEW a \in StandsFor(file[q]), file[q] # None
          PROVE  a \in lost' \/ \E s \in Paths : file'[s] # None /\ a \in StandsFor(file'[s])
      <3>1. CASE q = p
        BY <1>3, <1>5, <2>2, <3>1
      <3>2. CASE q # p
        <4>1. file'[q] = file[q]
          BY <1>3, <1>5, <3>2
        <4> QED BY <2>2, <4>1
      <3> QED BY <3>1, <3>2
    <2>3. StandsFor(file[p]) \subseteq Contents
      BY <1>3, <1>5, Stands
    <2> QED BY <1>3, <1>5, <2>1, <2>2, <2>3
  <1>6. ASSUME NEW p \in Paths, NEW q \in Paths, Move(p, q)
        PROVE  Goal
    <2>1. lost \subseteq Contents /\ moved \subseteq Contents
      BY DEF Shape
    <2>2. ASSUME NEW s \in Paths, NEW a \in StandsFor(file[s]), file[s] # None
          PROVE  a \in lost' \/ \E u \in Paths : file'[u] # None /\ a \in StandsFor(file'[u])
      <3>1. CASE s = p
        <4>1. file'[q] = file[s]
          BY <1>4, <1>6, <3>1
        <4> QED BY <2>2, <4>1
      <3>2. CASE s # p
        <4>1. file'[s] = file[s]
          BY <1>4, <1>6, <2>2, <3>2
        <4> QED BY <2>2, <4>1
      <3> QED BY <3>1, <3>2
    <2>3. StandsFor(file[p]) \subseteq Contents
      BY <1>4, <1>6, Stands
    <2>4. \A s \in Paths : s # p /\ file[s] # None => file'[s] = file[s]
      BY <1>4, <1>6
    <2> QED BY <1>4, <1>6, <2>1, <2>2, <2>3, <2>4
  <1>7. Goal
    BY <1>5, <1>6 DEF User
  <1> HIDE DEF Goal
  <1>8. Goal /\ UNCHANGED <<staged, residue, row, alias, pending, req, daemon, starts, acked, spoiled>> /\ upsets' \in Nat
    BY <1>1, <1>2, <1>7
  <1> QED BY <1>8 DEF Goal

LEMMA ShapeNext ==
    ASSUME Shape, Phase, [Next]_vars
    PROVE  Shape'
  <1>1. /\ file' \in [Paths -> Contents \cup {None}]
        /\ lost' \subseteq Contents /\ moved' \subseteq Contents
    <2>1. CASE UNCHANGED <<file, lost, moved>>
      BY <2>1 DEF Shape
    <2>2. ASSUME NEW c \in Contents, FinishRename(c)
          PROVE  file' \in [Paths -> Contents \cup {None}] /\ UNCHANGED <<lost, moved>>
      <3>1. c \in daemon.todo /\ SwapRename(c, pending[c].pid, pending[c].at)
        BY <2>2 DEF FinishRename
      <3>2. pending[c].pid \in Pids /\ pending[c].at \in Paths
        BY <3>1, SwapFacts DEF Phase
      <3>3. UNCHANGED <<lost, moved>>
        BY <2>2 DEF FinishRename, StartFrame, userVars
      <3> QED BY <3>1, <3>2, <3>3, RenameFacts
    <2>3. ASSUME NEW r \in Reqs, Swap(r)
          PROVE  file' \in [Paths -> Contents \cup {None}] /\ UNCHANGED <<lost, moved>>
      <3>1. req[r].pc = "swap" /\ SwapRename(req[r].new, daemon.pid, req[r].at)
        BY <2>3 DEF Swap, ReqAt
      <3>2. req[r].new \in Contents /\ req[r].at \in Paths /\ daemon.pid \in Pids
        BY <3>1, ReqFacts DEF Phase
      <3>3. UNCHANGED <<lost, moved>>
        BY <2>3 DEF Swap, ReqFrame, FailFrame, userVars
      <3> QED BY <3>1, <3>2, <3>3, RenameFacts
    <2>4. ASSUME NEW p \in Phones, NEW c \in Contents, Deliver(p, c), ~Durable(c)
          PROVE  file' \in [Paths -> Contents \cup {None}] /\ UNCHANGED <<lost, moved>>
      BY <2>4 DEF Deliver, userVars, Shape
    <2>5. CASE User
      BY <2>5, UserFacts
    <2>6. lost \subseteq Contents /\ moved \subseteq Contents
      BY DEF Shape
    <2> QED BY <2>1, <2>2, <2>3, <2>4, <2>5, <2>6, FileMoves
  <1>2. staged' \in [Contents \X Pids -> Contents \cup {None}] /\ spoiled' \subseteq Contents
    <2>1. CASE UNCHANGED <<staged, spoiled>>
      BY <2>1 DEF Shape
    <2>2. ASSUME NEW c \in Contents, FinishRename(c)
          PROVE  staged' \in [Contents \X Pids -> Contents \cup {None}] /\ spoiled' \subseteq Contents
      <3>1. c \in daemon.todo /\ SwapRename(c, pending[c].pid, pending[c].at)
        BY <2>2 DEF FinishRename
      <3>2. pending[c].pid \in Pids /\ pending[c].at \in Paths
        BY <3>1, SwapFacts DEF Phase
      <3> QED BY <3>1, <3>2, RenameFacts
    <2>3. ASSUME NEW r \in Reqs, Swap(r)
          PROVE  staged' \in [Contents \X Pids -> Contents \cup {None}] /\ spoiled' \subseteq Contents
      <3>1. req[r].pc = "swap" /\ SwapRename(req[r].new, daemon.pid, req[r].at)
        BY <2>3 DEF Swap, ReqAt
      <3>2. req[r].new \in Contents /\ req[r].at \in Paths /\ daemon.pid \in Pids
        BY <3>1, ReqFacts DEF Phase
      <3> QED BY <3>1, <3>2, RenameFacts
    <2>4. ASSUME NEW r \in Reqs, Stages(r)
          PROVE  staged' \in [Contents \X Pids -> Contents \cup {None}] /\ spoiled' \subseteq Contents
      BY <2>4, StagesFacts
    <2>5. ASSUME NEW c \in Contents, NEW pid \in Pids, SweepStaging(c, pid)
          PROVE  staged' \in [Contents \X Pids -> Contents \cup {None}] /\ UNCHANGED spoiled
      BY <2>5 DEF SweepStaging, SweepFrame, Shape
    <2>6. spoiled \subseteq Contents
      BY DEF Shape
    <2> QED BY <2>1, <2>2, <2>3, <2>4, <2>5, <2>6, StagedMoves
  <1>3. row' \in [Contents -> Row \cup {NoRow}]
    <2>1. ASSUME NEW p \in Phones, NEW c \in Contents, Deliver(p, c), ~Durable(c)
          PROVE  row' \in [Contents -> Row \cup {NoRow}]
      <3>1. PICK w \in Row : row' = [row EXCEPT ![c] = w]
        BY <2>1, DeliverFacts
      <3> QED BY <3>1 DEF Shape
    <2>2. ASSUME NEW p \in Paths, Index(p) PROVE row' \in [Contents -> Row \cup {NoRow}]
      BY <2>2, IndexFacts
    <2>3. CASE UNCHANGED row
      BY <2>3 DEF Shape
    <2>4. ASSUME NEW r \in Reqs, Commit(r) PROVE row' \in [Contents -> Row \cup {NoRow}]
      BY <2>4, CommitFacts
    <2> QED BY <2>1, <2>2, <2>3, <2>4, RowMoves, PruneFacts
  <1>4. alias' \in [Contents -> Contents \cup {None}]
    <2>1. CASE UNCHANGED alias
      BY <2>1 DEF Shape
    <2> QED BY <2>1, AliasMoves, CommitFacts
  <1>5. pending' \in [Contents -> PendRec \cup {NoSwap}]
    <2>1. CASE UNCHANGED pending
      BY <2>1 DEF Shape
    <2>2. ASSUME NEW r \in Reqs, Clear(r) PROVE pending' \in [Contents -> PendRec \cup {NoSwap}]
      <3>1. req[r].new \in Contents
        BY <2>2, ReqFacts DEF Clear, ReqAt
      <3> QED BY <2>2, <3>1, ClearFacts
    <2> QED BY <2>1, <2>2, PendingMoves, CommitFacts, ClearFacts
  <1>6. req' \in [Reqs -> ReqRec]
    <2>1. CASE UNCHANGED req
      BY <2>1 DEF Shape
    <2>2. CASE Crash
      BY <2>2, Nobody DEF Crash
    <2> QED BY <2>1, <2>2, ReqMoves, Turn, PlanFacts
  <1>7. daemon' \in DaemonRec
    <2>1. CASE UNCHANGED daemon
      BY <2>1 DEF Shape
    <2>2. CASE Crash
      BY <2>2, Nobody DEF Crash
    <2> QED BY <2>1, <2>2, DaemonMoves, StartMakes, FinishMakes, ServeMakes, SweepMakes
  <1>8. starts' \in Nat /\ upsets' \in Nat
    <2>1. starts \in Nat /\ upsets \in Nat
      BY DEF Shape
    <2>2. starts' \in {starts, starts + 1}
      BY DEF Next, Daemon, User, ReqStep, vars, dbVars, diskVars, userVars, Start, FinishRename, FinishClear,
     FinishFails, FinishEnd, Crash, SweepStaging, SweepBegin, SweepResidue, Deliver, Delete, Edit, Move,
     Plan, Refuse, ApplyRow, Copy, Splice, StageFails, CommitFails, Undo, Swap, Clear, SwapFails, Commit,
     StartFrame, FailFrame, ReqFrame, SweepFrame, OtherFrame, UserFrame, Index, Prune
    <2>3. upsets' \in {upsets, upsets + 1}
      BY DEF Next, Daemon, User, ReqStep, vars, Calm, Upset, Start, FinishRename, FinishClear,
     FinishFails, FinishEnd, Crash, SweepStaging, SweepBegin, SweepResidue, Deliver, Delete, Edit, Move,
     Plan, Refuse, ApplyRow, Copy, Splice, StageFails, CommitFails, Undo, Swap, Clear, SwapFails, Commit,
     ReqFrame, SweepFrame, Index, Prune
    <2> QED BY <2>1, <2>2, <2>3
  <1>9. residue' \subseteq Contents
    <2>1. residue' \subseteq residue
      BY DEF Next, Daemon, User, ReqStep, vars, diskVars, Start, FinishRename, FinishClear,
     FinishFails, FinishEnd, Crash, SweepStaging, SweepBegin, SweepResidue, Deliver, Delete, Edit, Move,
     Plan, Refuse, ApplyRow, Copy, Splice, StageFails, CommitFails, Undo, Swap, Clear, SwapFails, Commit,
     StartFrame, FailFrame, ReqFrame, SweepFrame, OtherFrame, UserFrame, Index, Prune
    <2> QED BY <2>1 DEF Shape
  <1>10. acked' \subseteq Contents
    <2>1. acked \subseteq Contents
      BY DEF Shape
    <2>2. ASSUME NEW p \in Phones, NEW c \in Contents, Deliver(p, c) PROVE acked' \subseteq Contents
      BY <2>1, <2>2 DEF Deliver
    <2>3. ASSUME NEW r \in Reqs, Clear(r) PROVE acked' \subseteq Contents
      <3>1. req[r].new \in Contents
        BY <2>3, ReqFacts DEF Clear, ReqAt
      <3> QED BY <2>1, <2>3, <3>1 DEF Clear, Replaced
    <2> QED BY <2>1, <2>2, <2>3, AckMoves
  <1> QED BY <1>1, <1>2, <1>3, <1>4, <1>5, <1>6, <1>7, <1>8, <1>9, <1>10 DEF Shape

LEMMA KeepInit ==
    ASSUME Init
    PROVE  KeepInv /\ IndexInv
  <1>1. /\ pending = [c \in Contents |-> NoSwap] /\ req = [r \in Reqs |-> NoReq]
        /\ daemon = NoDaemon
    BY InitFacts
  <1>2. /\ \A r \in Reqs : req[r] = NoReq /\ req[r].pc = "idle"
        /\ \A c \in Contents : pending[c] = NoSwap
        /\ daemon.st = "down" /\ daemon.todo = {} /\ daemon.now = None /\ daemon.seen = None
    BY <1>1, Nobody
  <1>3. Phase /\ StagedMine /\ SwapsSound
    BY <1>2 DEF Phase, StagedMine, SwapsSound, Renames
  <1>4. OneRequest /\ ReqNear /\ AllReady /\ Finishing
    <2>1. \A r \in Reqs : Ready(r)
      BY <1>2 DEF Ready, Accepted
    <2> QED BY <1>2, <2>1 DEF OneRequest, ReqNear, AllReady, Finishing, Unswapped
  <1>5. \A r \in Reqs : ~Spliced(r)
    BY <1>2 DEF Spliced
  <1>6. CASE Empty
    <2>1. /\ \A c \in Contents : row[c] = NoRow /\ alias[c] = None
          /\ acked = {}
      BY <1>6 DEF Empty
    <2> QED BY <1>3, <1>4, <1>5, <2>1
         DEF KeepInv, IndexInv, Originals, AllKept, RowNear, HoldsOrWaits, AliasLive
  <1>7. CASE ~Empty
    <2>1. PICK o \in Contents, n \in Contents, p \in Paths, ph \in Phones :
                   /\ <<o, n>> \in Redacted
                   /\ file = [q \in Paths |-> IF q = p THEN n ELSE None]
                   /\ row = [c \in Contents |-> IF c = n THEN [at |-> p, src |-> ph, way |-> "sent"]
                                                   ELSE NoRow]
                   /\ alias = [c \in Contents |-> IF c = o THEN n ELSE None]
                   /\ residue = {o} /\ acked = {o, n}
      BY <1>7, InitFacts
    <2>2. /\ file[p] = n /\ row[n].at = p /\ row[n] # NoRow
          /\ \A c \in Contents : row[c] # NoRow => c = n
          /\ \A a \in Contents : alias[a] # None => a = o /\ alias[a] = n
          /\ n # None /\ n \in StandsFor(n) /\ o \in StandsFor(n)
      <3>1. row[n].at = p /\ row[n] # NoRow
        BY <2>1, Nones DEF NoRow
      <3> QED BY <2>1, <3>1, Stands
    <2>3. \A a \in StandsFor(n) : Kept(a)
      <3>1. \A a \in StandsFor(n) : Held(a)
        BY <2>1, <2>2 DEF Held
      <3> QED BY <3>1 DEF Kept, Safe
    <2>4. Originals
      BY <1>5, <2>1, <2>2 DEF Originals
    <2>5. AllKept
      BY <2>1, <2>2, <2>3 DEF AllKept
    <2>6. RowNear /\ HoldsOrWaits /\ AliasLive
      <3>1. Near(p, n)
        BY <2>1, <2>2 DEF Near
      <3>2. \A c \in Contents : row[c] # NoRow => Near(row[c].at, c) /\ c \in StandsFor(file[row[c].at])
        BY <2>2, <3>1
      <3>3. \A a \in Contents : alias[a] # None => Shows(a, alias[a])
        BY <2>2 DEF Shows
      <3>4. RowNear
        BY <3>2 DEF RowNear
      <3>5. HoldsOrWaits
        BY <3>2 DEF HoldsOrWaits
      <3>6. AliasLive
        BY <3>3 DEF AliasLive
      <3> QED BY <3>4, <3>5, <3>6
    <2> QED BY <1>3, <1>4, <2>4, <2>5, <2>6 DEF KeepInv, IndexInv
  <1> QED BY <1>6, <1>7

-----------------------------------------------------------------------------
(* What a step leaves of the files.                                        *)

Stays(p) ==
    \/ StandsFor(file[p]) \subseteq Touched'
    \/ /\ file'[p] # None
       /\ \A a \in StandsFor(file[p]) : a \in StandsFor(file'[p]) \/ a \in spoiled'

Remains(p) ==
    \A a \in StandsFor(file[p]) :
      a \in lost' \cup spoiled' \/ \E q \in Paths : file'[q] # None /\ a \in StandsFor(file'[q])

Onward(p) ==
    /\ file'[p] # None
    /\ \A a \in StandsFor(file[p]) : a \in StandsFor(file'[p]) \/ a \in spoiled'

Renaming ==
    \E c \in Contents, pid \in Pids, p \in Paths :
      /\ SwapRename(c, pid, p) /\ UNCHANGED <<lost, moved, row, alias>>
      /\ \/ FinishRename(c) /\ pid = pending[c].pid /\ p = pending[c].at /\ pending[c] # NoSwap
         \/ \E r \in Reqs : Swap(r) /\ c = req[r].new /\ pid = daemon.pid /\ p = req[r].at

LEMMA RenamingIs ==
    ASSUME Shape, Phase, (\E c \in Contents : FinishRename(c)) \/ (\E r \in Reqs : Swap(r))
    PROVE  Renaming
  <1>1. ASSUME NEW c \in Contents, FinishRename(c) PROVE Renaming
    <2>1. c \in daemon.todo /\ SwapRename(c, pending[c].pid, pending[c].at)
      BY <1>1 DEF FinishRename
    <2>2. pending[c].pid \in Pids /\ pending[c].at \in Paths /\ pending[c] # NoSwap
      BY <2>1, SwapFacts DEF Phase
    <2>3. UNCHANGED <<lost, moved, row, alias>>
      BY <1>1 DEF FinishRename, StartFrame, userVars
    <2> QED BY <1>1, <2>1, <2>2, <2>3 DEF Renaming
  <1>2. ASSUME NEW r \in Reqs, Swap(r) PROVE Renaming
    <2>1. req[r].pc = "swap" /\ SwapRename(req[r].new, daemon.pid, req[r].at)
      BY <1>2 DEF Swap, ReqAt
    <2>2. req[r].new \in Contents /\ req[r].at \in Paths /\ daemon.pid \in Pids
      BY <2>1, ReqFacts DEF Phase
    <2>3. UNCHANGED <<lost, moved, row, alias>>
      BY <1>2 DEF Swap, ReqFrame, FailFrame, userVars, dbVars
    <2> QED BY <1>2, <2>1, <2>2, <2>3 DEF Renaming
  <1> QED BY <1>1, <1>2

LEMMA SpoiledGrows ==
    ASSUME Shape, Phase, [Next]_vars
    PROVE  spoiled \subseteq spoiled'
  <1>1. Renaming => spoiled \subseteq spoiled'
    BY RenameFacts DEF Renaming
  <1> QED BY <1>1, RenamingIs, StagedMoves, StagesFacts

LEMMA FilesStay ==
    ASSUME Shape, Phase, [Next]_vars
    PROVE  /\ lost \subseteq lost' /\ moved \subseteq moved' /\ spoiled \subseteq spoiled'
           /\ Touched \subseteq Touched'
           /\ \A p \in Paths : file[p] # None => Stays(p)
           /\ \A a \in Contents : Safe(a) => Safe(a)'
  <1> DEFINE Goal ==
           /\ lost \subseteq lost' /\ moved \subseteq moved'
           /\ \A p \in Paths : file[p] # None => Stays(p)
           /\ \A p \in Paths : file[p] # None => Remains(p)
  <1>1. spoiled \subseteq spoiled'
    BY SpoiledGrows
  <1>2. ASSUME \A p \in Paths : file[p] # None => Onward(p), UNCHANGED <<lost, moved>>
        PROVE  Goal
    <2>1. \A p \in Paths : Onward(p) => Stays(p)
      BY DEF Onward, Stays
    <2>2. \A p \in Paths : Onward(p) => Remains(p)
      BY DEF Onward, Remains
    <2>3. lost \subseteq lost' /\ moved \subseteq moved'
      BY <1>2
    <2> QED BY <1>2, <2>1, <2>2, <2>3
  <1>3. ASSUME UNCHANGED <<file, lost, moved>> PROVE Goal
    <2>1. \A p \in Paths : file[p] # None => Onward(p)
      BY <1>3 DEF Onward
    <2> QED BY <1>2, <1>3, <2>1
  <1>4. ASSUME Renaming PROVE Goal
    <2>1. PICK c \in Contents, pid \in Pids, p \in Paths :
             SwapRename(c, pid, p) /\ UNCHANGED <<lost, moved>>
      BY <1>4 DEF Renaming
    <2>2. ASSUME NEW q \in Paths, file[q] # None PROVE Onward(q)
      BY <2>1, <2>2, RenameFacts DEF Onward
    <2> QED BY <1>2, <2>1, <2>2
  <1>5. ASSUME NEW ph \in Phones, NEW c \in Contents, Deliver(ph, c), ~Durable(c) PROVE Goal
    <2>1. PICK q \in Paths : file[q] = None /\ file' = [file EXCEPT ![q] = c]
      BY <1>5, DeliverFacts
    <2>2. \A p \in Paths : file[p] # None => Onward(p)
      BY <2>1 DEF Shape, Onward
    <2>3. UNCHANGED <<lost, moved>>
      BY <1>5 DEF Deliver, userVars
    <2> QED BY <1>2, <2>2, <2>3
  <1>6. ASSUME User PROVE Goal
    <2>1. lost \subseteq lost' /\ moved \subseteq moved'
      BY <1>6, UserFacts
    <2>2. ASSUME NEW q \in Paths, file[q] # None PROVE Stays(q)
      <3>1. PICK p \in Paths : \E t \in {lost', moved'} :
               /\ StandsFor(file[p]) \subseteq t
               /\ \A s \in Paths : s # p /\ file[s] # None => file'[s] = file[s]
        BY <1>6, UserFacts
      <3>2. StandsFor(file[p]) \subseteq Touched'
        BY <3>1 DEF Touched
      <3>3. CASE q = p
        BY <3>1, <3>2, <3>3 DEF Stays
      <3>4. CASE q # p
        BY <2>2, <3>1, <3>4 DEF Stays
      <3> QED BY <3>3, <3>4
    <2>3. \A p \in Paths : \A a \in StandsFor(file[p]) :
                file[p] # None =>
                  a \in lost' \/ \E q \in Paths : file'[q] # None /\ a \in StandsFor(file'[q])
      BY <1>6, UserFacts
    <2>4. \A p \in Paths : file[p] # None => Remains(p)
      BY <2>3 DEF Remains
    <2> QED BY <2>1, <2>2, <2>4
  <1>7. Goal
    BY <1>3, <1>4, <1>5, <1>6, FileMoves, RenamingIs
  <1>8. \A a \in Contents : Safe(a) => Safe(a)'
    <2>1. SUFFICES ASSUME NEW a \in Contents, Safe(a) PROVE Safe(a)'
      OBVIOUS
    <2>2. CASE a \in lost \cup spoiled
      BY <1>1, <1>7, <2>2 DEF Safe
    <2>3. CASE Held(a)
      <3>1. PICK p \in Paths : file[p] # None /\ a \in StandsFor(file[p])
        BY <2>3 DEF Held
      <3>2. a \in lost' \cup spoiled' \/ \E q \in Paths : file'[q] # None /\ a \in StandsFor(file'[q])
        BY <1>7, <3>1 DEF Remains
      <3> QED BY <3>2 DEF Safe, Held
    <2> QED BY <2>1, <2>2, <2>3 DEF Safe
  <1>9. Touched \subseteq Touched'
    BY <1>1, <1>7 DEF Touched
  <1> HIDE DEF Goal
  <1>10. lost \subseteq lost' /\ moved \subseteq moved' /\ \A p \in Paths : file[p] # None => Stays(p)
    BY <1>7 DEF Goal
  <1> QED BY <1>1, <1>8, <1>9, <1>10

WholeNext(c) == \A a \in StandsFor(c) : Safe(a)'
TakenNext(c) == StandsFor(c) \subseteq spoiled'

LEMMA Afterwards ==
    ASSUME Shape, Phase, [Next]_vars, NEW c \in Contents
    PROVE  /\ Whole(c) => WholeNext(c)
           /\ Taken(c) => TakenNext(c) /\ Whole(c)
           /\ Clean(c)' => Clean(c)
           /\ \A p \in Paths : Near(p, c) /\ Clean(c)' => Near(p, c)'
           /\ \A p \in Paths : file[p] # None /\ c \in StandsFor(file[p]) /\ Clean(c)' =>
                file'[p] # None /\ c \in StandsFor(file'[p])
  <1>1. /\ spoiled \subseteq spoiled' /\ Touched \subseteq Touched' /\ spoiled' \subseteq Touched'
        /\ \A p \in Paths : file[p] # None => Stays(p)
        /\ \A a \in Contents : Safe(a) => Safe(a)'
        /\ StandsFor(c) \subseteq Contents /\ c \in StandsFor(c)
    BY FilesStay, Stands DEF Touched
  <1>2. Whole(c) => WholeNext(c)
    BY <1>1 DEF Whole, WholeNext
  <1>3. Taken(c) => TakenNext(c) /\ Whole(c)
    BY <1>1 DEF Taken, TakenNext, Whole, Safe
  <1>4. Clean(c)' => Clean(c)
    BY <1>1 DEF Clean
  <1>5. ASSUME NEW p \in Paths, file[p] # None, NEW a \in StandsFor(c), a \in StandsFor(file[p]), Clean(c)'
        PROVE  file'[p] # None /\ a \in StandsFor(file'[p])
    <2>1. a \notin Touched'
      BY <1>5 DEF Clean
    <2>2. Stays(p)
      BY <1>1, <1>5
    <2> QED BY <1>1, <1>5, <2>1, <2>2 DEF Stays
  <1>6. ASSUME NEW p \in Paths, Near(p, c), Clean(c)' PROVE Near(p, c)'
    <2>1. PICK a \in StandsFor(c) : a \in StandsFor(file[p]) /\ file[p] # None
      BY <1>6 DEF Near
    <2>2. file'[p] # None /\ a \in StandsFor(file'[p])
      BY <1>5, <1>6, <2>1
    <2> QED BY <2>1, <2>2 DEF Near
  <1>7. \A p \in Paths : file[p] # None /\ c \in StandsFor(file[p]) /\ Clean(c)' =>
                file'[p] # None /\ c \in StandsFor(file'[p])
    BY <1>1, <1>5
  <1> QED BY <1>2, <1>3, <1>4, <1>6, <1>7

(* While a request goes on, the process does.                              *)
LEMMA ReqAlive ==
    ASSUME Shape, Phase, [Next]_vars, NEW r \in Reqs, req'[r] # NoReq
    PROVE  /\ daemon.st = "serve" /\ daemon'.st = "serve" /\ daemon'.pid = daemon.pid
           /\ daemon.pid \in Pids
           /\ \A c \in Contents : ~FinishRename(c) /\ ~FinishClear(c)
           /\ \/ req'[r] = req[r]
              \/ ReqStep(r)
              \/ \E p \in Phones, old, new \in Contents : Plan(r, p, old, new) /\ req[r] = NoReq
  <1>1. /\ \/ req'[r] = req[r]
           \/ ReqStep(r)
           \/ \E p \in Phones, old, new \in Contents : Plan(r, p, old, new) /\ req[r] = NoReq
        /\ ~Crash
    <2>1. CASE UNCHANGED req
      <3>1. ~Crash
        BY <2>1 DEF Crash
      <3> QED BY <2>1, <3>1
    <2>2. CASE Crash
      BY <2>2 DEF Crash
    <2>3. ASSUME NEW s \in Reqs, NEW p \in Phones, NEW old \in Contents, NEW new \in Contents,
                 Plan(s, p, old, new)
          PROVE  /\ \/ req'[r] = req[r]
                    \/ Plan(r, p, old, new) /\ req[r] = NoReq
                 /\ ~Crash
      <3>1. daemon.st = "serve" /\ UNCHANGED daemon
        BY <2>3, PlanFacts
      <3>2. ~Crash
        BY <3>1, Nobody DEF Crash
      <3>3. CASE s = r
        BY <2>3, <3>2, <3>3 DEF Plan
      <3>4. CASE s # r
        BY <2>3, <3>2, <3>4, PlanFacts
      <3> QED BY <3>3, <3>4
    <2>4. ASSUME NEW s \in Reqs, ReqStep(s)
          PROVE  /\ req'[r] = req[r] \/ ReqStep(r)
                 /\ ~Crash
      <3>1. req[s] # NoReq /\ UNCHANGED daemon
        BY <2>4, Turn
      <3>2. daemon.st = "serve"
        BY <3>1 DEF Phase
      <3>3. ~Crash
        BY <3>1, <3>2, Nobody DEF Crash
      <3>4. s # r => req'[r] = req[r]
        BY <2>4, Turn
      <3> QED BY <2>4, <3>3, <3>4
    <2> QED BY <2>1, <2>2, <2>3, <2>4, ReqMoves
  <1>2. daemon.st = "serve"
    <2>1. CASE req[r] # NoReq
      BY <2>1 DEF Phase
    <2>2. CASE req[r] = NoReq
      <3>1. ~ReqStep(r)
        BY <2>2, Turn
      <3>2. PICK p \in Phones, old \in Contents, new \in Contents : Plan(r, p, old, new)
        BY <1>1, <2>2, <3>1
      <3> QED BY <3>2 DEF Plan
    <2> QED BY <2>1, <2>2
  <1>3. daemon.pid \in Pids
    BY <1>2 DEF Phase
  <1>4. daemon'.st = "serve" /\ daemon'.pid = daemon.pid
    <2>1. UNCHANGED daemon \/ SweepBegin \/ \E a \in Contents : SweepResidue(a)
      BY <1>1, <1>2, DaemonMoves DEF Start, FinishRename, FinishClear, FinishFails, FinishEnd
    <2> QED BY <1>2, <2>1, SweepMakes
  <1>5. \A c \in Contents : ~FinishRename(c) /\ ~FinishClear(c)
    BY <1>2 DEF FinishRename, FinishClear
  <1> QED BY <1>1, <1>2, <1>3, <1>4, <1>5

LEMMA OriginalsNext ==
    ASSUME Shape, Phase, Originals, [Next]_vars
    PROVE  Originals'
  <1>1. ASSUME NEW r \in Reqs, Spliced(r)' PROVE <<req'[r].old, req'[r].new>> \in Redacted
    <2>1. req'[r].pc \in {"commit", "undo", "swap", "clear"}
      BY <1>1 DEF Spliced
    <2>2. req'[r] # NoReq
      BY <2>1, Nobody
    <2>3. CASE req'[r] = req[r]
      BY <2>1, <2>3 DEF Originals, Spliced
    <2>4. CASE ReqStep(r)
      <3>1. \/ Spliced(r) \/ <<req[r].old, req[r].new>> \in Redacted
        BY <2>1, <2>2, <2>4, Turn DEF Spliced
      <3>2. Same(r)
        BY <2>2, <2>4, Turn
      <3> QED BY <3>1, <3>2 DEF Originals, Same
    <2>5. ASSUME NEW p \in Phones, NEW old \in Contents, NEW new \in Contents,
                 Plan(r, p, old, new), req[r] = NoReq
          PROVE  FALSE
      BY <2>1, <2>2, <2>5, PlanFacts
    <2> QED BY <2>2, <2>3, <2>4, <2>5, ReqAlive
  <1>2. ASSUME NEW a \in Contents, alias'[a] # None PROVE <<a, alias'[a]>> \in Redacted
    <2>1. CASE UNCHANGED alias
      BY <1>2, <2>1 DEF Originals
    <2>2. ASSUME NEW r \in Reqs, Commit(r) PROVE <<a, alias'[a]>> \in Redacted
      <3>1. /\ req[r].pc = "commit" /\ req[r].old \in Contents /\ req[r].new \in Contents
            /\ alias'[a] = IF a = req[r].old \/ alias[a] = req[r].old THEN req[r].new ELSE alias[a]
        BY <2>2, CommitFacts
      <3>2. <<req[r].old, req[r].new>> \in Redacted
        BY <3>1 DEF Originals, Spliced
      <3>3. CASE a = req[r].old
        BY <3>1, <3>2, <3>3
      <3>4. CASE a # req[r].old /\ alias[a] = req[r].old
        <4>1. <<a, req[r].old>> \in Redacted
          BY <3>1, <3>4, Nones DEF Originals
        <4>2. <<a, req[r].new>> \in Redacted
          BY <3>1, <3>2, <4>1, SupersedeAssumption
        <4> QED BY <3>1, <3>4, <4>2
      <3>5. CASE a # req[r].old /\ alias[a] # req[r].old
        BY <1>2, <3>1, <3>5 DEF Originals
      <3> QED BY <3>3, <3>4, <3>5
    <2> QED BY <2>1, <2>2, AliasMoves
  <1> QED BY <1>1, <1>2 DEF Originals

(* A staged original that is renamed is in the library whole.              *)
LEMMA RenamedWhole ==
    ASSUME Shape, NEW c \in Contents, NEW pid \in Pids, NEW p \in Paths,
           SwapRename(c, pid, p), staged[<<c, pid>>] = c
    PROVE  WholeNext(c)
  <1>1. file'[p] = c /\ c # None
    BY RenameFacts, Nones
  <1>2. \A a \in StandsFor(c) : Held(a)'
    BY <1>1 DEF Held
  <1> QED BY <1>2 DEF WholeNext, Safe

(* What is staged for this process stays, or the swap it is for is done, or *)
(* it is taken from a request or a swap that waits for it.                 *)
LEMMA StagedStays ==
    ASSUME Shape, Phase, StagedMine, [Next]_vars, NEW c \in Contents, NEW pid \in Pids,
           staged[<<c, pid>>] = c,
           \/ pending[c].pid = pid /\ pending[c] # NoSwap
           \/ pid = daemon.pid /\ \E r \in Reqs : Renames(r) /\ req'[r] = req[r] /\ req[r].new = c
    PROVE  staged'[<<c, pid>>] = c \/ TakenNext(c) \/ (Renaming /\ WholeNext(c))
  <1> DEFINE Goal == staged'[<<c, pid>>] = c \/ TakenNext(c) \/ (Renaming /\ WholeNext(c))
  <1>1. ASSUME UNCHANGED <<staged, spoiled>> PROVE Goal
    BY <1>1
  <1>2. ASSUME Renaming PROVE Goal
    <2>1. PICK d \in Contents, i \in Pids, p \in Paths : SwapRename(d, i, p)
      BY <1>2 DEF Renaming
    <2>2. CASE d = c /\ i = pid
      BY <1>2, <2>1, <2>2, RenamedWhole
    <2>3. CASE ~(d = c /\ i = pid)
      <3>1. <<c, pid>> # <<d, i>> /\ <<c, pid>> \in Contents \X Pids
        BY <2>3
      <3>2. staged'[<<c, pid>>] = staged[<<c, pid>>]
        BY <2>1, <3>1, RenameFacts
      <3> QED BY <3>2
    <2> QED BY <2>2, <2>3
  <1>3. ASSUME NEW s \in Reqs, Stages(s) PROVE Goal
    <2>1. /\ req[s] # NoReq /\ req[s].new \in Contents /\ daemon.pid \in Pids
      BY <1>3, StagesFacts
    <2>2. PICK x \in Contents \cup {None} : \/ Stage(s, x) /\ ~Undo(s)
                                            \/ Stage(s, x) /\ Undo(s) /\ pending[req[s].new] = NoSwap
                                            \/ UNCHANGED <<staged, spoiled>>
      <3>1. PICK x \in Contents \cup {None} :
                \/ x = req[s].new /\ Stage(s, x) /\ Splice(s)
                \/ x = file[req[s].at] /\ Stage(s, x) /\ Copy(s)
                \/ x = None /\ Stage(s, x) /\ req'[s] = NoReq /\ ~Undo(s)
                \/ x = None /\ Stage(s, x) /\ req'[s] = NoReq /\ Undo(s) /\ pending[req[s].new] = NoSwap
                \/ UNCHANGED <<staged, spoiled>> /\ req'[s] = NoReq
        BY <1>3, StagesFacts
      <3>2. (Splice(s) \/ Copy(s)) => ~Undo(s)
        BY DEF Splice, Copy, Undo, ReqAt
      <3> QED BY <3>1, <3>2
    <2>3. CASE UNCHANGED <<staged, spoiled>>
      BY <1>1, <2>3
    <2>4. ASSUME Stage(s, x) PROVE Goal
      <3>1. CASE Mine(s) # <<c, pid>>
        <4>1. staged'[<<c, pid>>] = staged[<<c, pid>>]
          BY <2>1, <2>4, <3>1, StageFacts
        <4> QED BY <4>1
      <3>2. CASE Mine(s) = <<c, pid>>
        <4>1. req[s].new = c /\ daemon.pid = pid
          BY <3>2 DEF Mine
        <4>2. Awaited(s)
          <5>1. CASE pending[c].pid = pid
            BY <4>1, <5>1 DEF Awaited
          <5>2. ASSUME NEW r \in Reqs, Renames(r), req'[r] = req[r], req[r].new = c PROVE Awaited(s)
            <6>1. r # s
              <7>1. req[s].pc \in {"copy", "splice", "undo"}
                BY <1>3 DEF Stages, Copy, Splice, StageFails, Undo, ReqAt
              <7> QED BY <5>2, <7>1 DEF Renames
            <6> QED BY <4>1, <5>2, <6>1 DEF Awaited, Renames
          <5> QED BY <5>1, <5>2
        <4>3. x = c \/ TakenNext(c)
          BY <2>1, <2>4, <3>2, <4>1, <4>2, StageFacts DEF TakenNext
        <4>4. staged'[<<c, pid>>] = x
          BY <2>1, <2>4, <3>2, StageFacts
        <4> QED BY <4>3, <4>4
      <3> QED BY <3>1, <3>2
    <2> QED BY <2>2, <2>3, <2>4
  <1>4. ASSUME NEW d \in Contents, NEW i \in Pids, SweepStaging(d, i) PROVE Goal
    <2>1. <<d, i>> # <<c, pid>>
      BY <1>4 DEF SweepStaging
    <2>2. staged' = [staged EXCEPT ![<<d, i>>] = None]
      BY <1>4 DEF SweepStaging
    <2>3. staged'[<<c, pid>>] = staged[<<c, pid>>]
      BY <2>1, <2>2 DEF Shape
    <2> QED BY <2>3
  <1>5. (\E d \in Contents : FinishRename(d)) \/ (\E r \in Reqs : Swap(r)) => Renaming
    BY RenamingIs
  <1> HIDE DEF Goal
  <1>6. Goal
    BY <1>1, <1>2, <1>3, <1>4, <1>5, StagedMoves
  <1> QED BY <1>6 DEF Goal

LEMMA StagedMineNext ==
    ASSUME Shape, Shape', Phase, Originals, StagedMine, [Next]_vars
    PROVE  StagedMine'
  <1>1. ASSUME NEW r \in Reqs, Renames(r)'
        PROVE  /\ req'[r] # NoReq /\ Mine(r)' = <<req'[r].new, daemon.pid>> /\ daemon.pid \in Pids
               /\ \/ req'[r] = req[r] /\ Renames(r)
                  \/ Same(r) /\ Splice(r) /\ staged[Mine(r)] = req[r].old /\ Stage(r, req[r].new)
                     /\ <<req[r].old, req[r].new>> \in Redacted
                  \/ Same(r) /\ Commit(r) /\ Renames(r)
    <2>1. req'[r].pc \in {"commit", "swap"}
      BY <1>1 DEF Renames
    <2>2. req'[r] # NoReq
      BY <2>1, Nobody
    <2>3. Mine(r)' = <<req'[r].new, daemon.pid>> /\ daemon.pid \in Pids
      BY <2>2, ReqAlive DEF Mine
    <2>4. CASE req'[r] = req[r]
      BY <2>1, <2>2, <2>3, <2>4 DEF Renames
    <2>5. CASE ReqStep(r)
      <3>1. \/ Same(r) /\ Splice(r) /\ staged[Mine(r)] = req[r].old /\ Stage(r, req[r].new)
               /\ <<req[r].old, req[r].new>> \in Redacted
            \/ Same(r) /\ Commit(r) /\ req[r].pc = "commit"
        BY <2>1, <2>2, <2>5, Turn
      <3> QED BY <2>2, <2>3, <3>1 DEF Renames
    <2>6. ASSUME NEW p \in Phones, NEW old \in Contents, NEW new \in Contents,
                 Plan(r, p, old, new), req[r] = NoReq
          PROVE  FALSE
      BY <2>1, <2>2, <2>6, PlanFacts
    <2> QED BY <2>2, <2>4, <2>5, <2>6, ReqAlive
  <1>2. ASSUME NEW r \in Reqs, Renames(r)'
        PROVE  staged'[Mine(r)'] = req'[r].new \/ TakenNext(req'[r].new)
    <2>1. req'[r].new \in Contents /\ daemon.pid \in Pids /\ Mine(r)' = <<req'[r].new, daemon.pid>>
      <3>1. req'[r] \in ReqRec /\ req'[r] # NoReq
        BY <1>1, <1>2 DEF Shape
      <3>2. req'[r].new \in Contents
        BY <3>1 DEF ReqRec, ReqFields
      <3> QED BY <1>1, <1>2, <3>2
    <2>2. CASE req'[r] = req[r] /\ Renames(r)
      <3>1. staged[Mine(r)] = req[r].new \/ Taken(req[r].new)
        BY <2>2 DEF StagedMine
      <3>2. CASE Taken(req[r].new)
        BY <2>1, <2>2, <3>2, Afterwards
      <3>3. CASE staged[Mine(r)] = req[r].new /\ ~Taken(req[r].new)
        <4>1. staged[<<req[r].new, daemon.pid>>] = req[r].new
          BY <3>3 DEF Mine
        <4>2. \/ staged'[<<req[r].new, daemon.pid>>] = req[r].new \/ TakenNext(req[r].new)
              \/ Renaming
          BY <2>1, <2>2, <4>1, StagedStays
        <4>3. ASSUME Renaming PROVE staged'[<<req[r].new, daemon.pid>>] = req[r].new
          <5>1. PICK d \in Contents, i \in Pids, p \in Paths :
                   /\ SwapRename(d, i, p)
                   /\ FinishRename(d) \/ \E s \in Reqs : Swap(s) /\ d = req[s].new
            BY <4>3 DEF Renaming
          <5>2. ~FinishRename(d)
            BY <1>1, <1>2, ReqAlive
          <5>3. PICK s \in Reqs : Swap(s) /\ d = req[s].new
            BY <5>1, <5>2
          <5>4. req[s].pc = "swap" /\ ReqStep(s)
            BY <5>3 DEF Swap, ReqAt, ReqStep
          <5>5. r # s
            BY <2>2, <5>3, <5>4, Turn DEF Swap, ReqGoto, Renames, Copy, Splice, Commit, CommitFails, ReqAt
          <5>6. d # req[r].new
            BY <2>2, <3>3, <5>3, <5>4, <5>5 DEF StagedMine, Renames
          <5>7. <<req[r].new, daemon.pid>> # <<d, i>> /\ <<req[r].new, daemon.pid>> \in Contents \X Pids
            BY <2>1, <2>2, <5>6
          <5> QED BY <4>1, <5>1, <5>7, RenameFacts
        <4> QED BY <2>1, <2>2, <4>2, <4>3
      <3> QED BY <3>1, <3>2, <3>3
    <2>3. CASE Same(r) /\ Stage(r, req[r].new)
      <3>1. Mine(r) = Mine(r)' /\ req[r].new \in Contents /\ req'[r].new = req[r].new
        BY <2>1, <2>3 DEF Same, Mine
      <3>2. staged'[Mine(r)] = req[r].new
        BY <2>1, <2>3, <3>1, StageFacts
      <3> QED BY <3>1, <3>2
    <2>4. CASE Same(r) /\ Commit(r) /\ Renames(r)
      <3>1. Mine(r) = Mine(r)' /\ req'[r].new = req[r].new
        BY <2>1, <2>4 DEF Same, Mine
      <3>2. staged' = staged /\ spoiled' = spoiled
        BY <2>4, CommitFacts
      <3>3. staged[Mine(r)] = req[r].new \/ Taken(req[r].new)
        BY <2>4 DEF StagedMine
      <3> QED BY <3>1, <3>2, <3>3 DEF Taken, TakenNext
    <2> QED BY <1>1, <1>2, <2>2, <2>3, <2>4
  <1>3. ASSUME NEW r \in Reqs, NEW s \in Reqs, r # s, Renames(r)', Renames(s)', req'[r].new = req'[s].new
        PROVE  TakenNext(req'[r].new)
    <2>1. req'[r].new \in Contents
      <3>1. req'[r] \in ReqRec /\ req'[r] # NoReq
        BY <1>1, <1>3 DEF Shape
      <3> QED BY <3>1 DEF ReqRec, ReqFields
    <2>2. ASSUME NEW t \in Reqs, NEW u \in Reqs, t # u, Renames(u), req[t].new = req[u].new,
                 Splice(t), staged[Mine(t)] = req[t].old, <<req[t].old, req[t].new>> \in Redacted
          PROVE  Taken(req[t].new)
      <3>1. Mine(t) = Mine(u)
        BY <2>2 DEF Mine
      <3>2. req[t].old # req[t].new
        <4>1. req[t].new \in Contents
          BY <2>2, SupersedeAssumption
        <4> QED BY <2>2, <4>1, NotItself
      <3> QED BY <2>2, <3>1, <3>2 DEF StagedMine
    <2>3. CASE Renames(r) /\ Renames(s) /\ req[r].new = req'[r].new /\ req[s].new = req'[s].new
      <3>1. Taken(req[r].new)
        BY <1>3, <2>3 DEF StagedMine
      <3> QED BY <2>1, <2>3, <3>1, Afterwards
    <2>4. ASSUME NEW t \in Reqs, Splice(t) \/ Commit(t) PROVE \A u \in Reqs : u # t => req'[u] = req[u]
      <3>1. ReqStep(t)
        BY <2>4 DEF ReqStep
      <3> QED BY <3>1, Turn
    <2>5. ASSUME NEW t \in Reqs, NEW u \in Reqs, t # u, Renames(t)', Renames(u)', req'[t].new = req'[u].new,
                 Same(t), Splice(t), staged[Mine(t)] = req[t].old, <<req[t].old, req[t].new>> \in Redacted
          PROVE  TakenNext(req'[t].new)
      <3>1. req'[u] = req[u]
        BY <2>4, <2>5
      <3>2. Renames(u)
        BY <2>5, <3>1 DEF Renames
      <3>3. req[t].new = req[u].new /\ req'[t].new = req[t].new /\ req[t].new \in Contents
        BY <2>5, <3>1, SupersedeAssumption DEF Same
      <3> QED BY <2>2, <2>5, <3>2, <3>3, Afterwards
    <2>6. CASE Splice(r) /\ Same(r) /\ staged[Mine(r)] = req[r].old /\ <<req[r].old, req[r].new>> \in Redacted
      BY <1>3, <2>5, <2>6
    <2>7. CASE Splice(s) /\ Same(s) /\ staged[Mine(s)] = req[s].old /\ <<req[s].old, req[s].new>> \in Redacted
      BY <1>3, <2>5, <2>7
    <2>8. ASSUME NEW t \in Reqs, Same(t) PROVE req'[t].new = req[t].new
      BY <2>8 DEF Same
    <2> QED BY <1>1, <1>3, <2>3, <2>6, <2>7, <2>8
  <1>4. ASSUME NEW r \in Reqs, req'[r].pc = "clear" PROVE WholeNext(req'[r].new)
    <2>1. req'[r] # NoReq
      BY <1>4, Nobody
    <2>2. CASE req'[r] = req[r]
      <3>1. req[r].new \in Contents /\ Whole(req[r].new)
        BY <1>4, <2>1, <2>2, ReqFacts DEF StagedMine
      <3> QED BY <2>2, <3>1, Afterwards
    <2>3. CASE ReqStep(r)
      <3>1. Same(r) /\ Swap(r) /\ req[r].pc = "swap"
        BY <1>4, <2>1, <2>3, Turn
      <3>2. /\ req[r].new \in Contents /\ req[r].at \in Paths /\ daemon.pid \in Pids
            /\ req'[r].new = req[r].new
        BY <2>1, <3>1, ReqFacts, ReqAlive DEF Same
      <3>3. staged[Mine(r)] = req[r].new \/ Taken(req[r].new)
        BY <3>1 DEF StagedMine, Renames
      <3>4. CASE Taken(req[r].new)
        BY <3>2, <3>4, Afterwards
      <3>5. CASE staged[Mine(r)] = req[r].new
        <4>1. SwapRename(req[r].new, daemon.pid, req[r].at)
          BY <3>1 DEF Swap
        <4> QED BY <3>2, <3>5, <4>1, RenamedWhole DEF Mine
      <3> QED BY <3>3, <3>4, <3>5
    <2>4. ASSUME NEW p \in Phones, NEW old \in Contents, NEW new \in Contents,
                 Plan(r, p, old, new), req[r] = NoReq
          PROVE  FALSE
      BY <1>4, <2>1, <2>4, PlanFacts
    <2> QED BY <2>1, <2>2, <2>3, <2>4, ReqAlive
  <1>5. \A r \in Reqs : Renames(r)' => staged'[Mine(r)'] = req'[r].new \/ TakenNext(req'[r].new)
    BY <1>2
  <1>6. \A r \in Reqs : req'[r].pc = "clear" => WholeNext(req'[r].new)
    BY <1>4
  <1>7. \A r, s \in Reqs :
          r # s /\ Renames(r)' /\ Renames(s)' /\ req'[r].new = req'[s].new => TakenNext(req'[r].new)
    BY <1>3
  <1> QED BY <1>5, <1>6, <1>7 DEF StagedMine, Taken, TakenNext, Whole, WholeNext

LEMMA SwapsSoundNext ==
    ASSUME Shape, Shape', Phase, StagedMine, SwapsSound, [Next]_vars
    PROVE  SwapsSound'
  <1>1. ASSUME NEW c \in Contents, pending'[c] # NoSwap PROVE Backed(c)' \/ WholeNext(c)
    <2>1. CASE pending'[c] = pending[c]
      <3>1. PICK i \in Pids : i = pending[c].pid
        BY <1>1, <2>1, SwapFacts
      <3>2. CASE Whole(c)
        BY <3>2, Afterwards
      <3>3. CASE staged[<<c, i>>] = c
        <4>1. staged'[<<c, i>>] = c \/ TakenNext(c) \/ WholeNext(c)
          BY <1>1, <2>1, <3>1, <3>3, StagedStays
        <4>2. TakenNext(c) => WholeNext(c)
          BY DEF TakenNext, WholeNext, Safe
        <4> QED BY <2>1, <3>1, <4>1, <4>2 DEF Backed
      <3> QED BY <1>1, <2>1, <3>1, <3>2, <3>3 DEF SwapsSound, Backed
    <2>2. ASSUME NEW r \in Reqs, Commit(r), c = req[r].new PROVE Backed(c)' \/ WholeNext(c)
      <3>1. req[r].pc = "commit" /\ pending'[c].pid = daemon.pid /\ staged' = staged
        BY <2>2, CommitFacts
      <3>2. staged[Mine(r)] = c \/ Taken(c)
        BY <2>2, <3>1 DEF StagedMine, Renames
      <3>3. CASE Taken(c)
        BY <3>3, Afterwards
      <3>4. CASE staged[Mine(r)] = c
        BY <2>2, <3>1, <3>4 DEF Backed, Mine
      <3> QED BY <3>2, <3>3, <3>4
    <2>3. ASSUME NEW r \in Reqs, Clear(r) PROVE pending'[c] = pending[c]
      <3>1. req[r].new \in Contents
        BY <2>3, ReqFacts DEF Clear, ReqAt
      <3> QED BY <1>1, <2>3, <3>1, ClearFacts
    <2> QED BY <1>1, <2>1, <2>2, <2>3, PendingMoves, ClearFacts, CommitFacts
  <1>2. daemon'.now # None => WholeNext(daemon'.now)
    <2>1. SUFFICES ASSUME daemon'.now # None PROVE WholeNext(daemon'.now)
      OBVIOUS
    <2>2. CASE daemon'.now = daemon.now
      <3>1. daemon.now \in Contents /\ Whole(daemon.now)
        BY <2>1, <2>2, DaemonFacts DEF SwapsSound
      <3> QED BY <2>2, <3>1, Afterwards
    <2>3. ASSUME NEW c \in Contents, FinishRename(c) PROVE WholeNext(daemon'.now)
      <3>1. /\ c \in daemon.todo /\ SwapRename(c, pending[c].pid, pending[c].at)
            /\ daemon'.now = c
        BY <2>3, FinishMakes DEF FinishRename
      <3>2. pending[c].pid \in Pids /\ pending[c].at \in Paths /\ pending[c] # NoSwap
        BY <3>1, SwapFacts DEF Phase
      <3>3. Whole(c) => WholeNext(c)
        BY Afterwards
      <3>4. Backed(c) => WholeNext(c)
        BY <3>1, <3>2, RenamedWhole DEF Backed
      <3> QED BY <3>1, <3>2, <3>3, <3>4 DEF SwapsSound
    <2>4. CASE Crash
      BY <2>1, <2>4, Nobody DEF Crash
    <2> QED BY <2>1, <2>2, <2>3, <2>4, DaemonMoves, StartMakes, FinishMakes, ServeMakes, SweepMakes
  <1>3. \A c \in Contents : pending'[c] # NoSwap => Backed(c)' \/ WholeNext(c)
    BY <1>1
  <1> QED BY <1>2, <1>3 DEF SwapsSound, Whole, WholeNext

KeptNext(a) ==
    \/ Safe(a)'
    \/ \E c \in Contents : a \in StandsFor(c) /\ pending'[c] # NoSwap /\ Backed(c)'

LEMMA KeptStays ==
    ASSUME Shape, Phase, StagedMine, SwapsSound, SwapsSound', [Next]_vars
    PROVE  \A a \in Contents : Kept(a) => KeptNext(a)
  <1>1. SUFFICES ASSUME NEW a \in Contents, Kept(a) PROVE KeptNext(a)
    OBVIOUS
  <1>2. CASE Safe(a)
    BY <1>2, FilesStay DEF KeptNext
  <1>3. ASSUME NEW c \in Contents, a \in StandsFor(c), pending[c] # NoSwap, Backed(c)
        PROVE  KeptNext(a)
    <2>1. CASE pending'[c] # NoSwap
      BY <1>3, <2>1 DEF SwapsSound, Whole, KeptNext
    <2>2. CASE pending'[c] = NoSwap
      <3>1. Whole(c)
        <4>1. ASSUME NEW d \in Contents, FinishClear(d) PROVE Whole(c)
          <5>1. c = d /\ daemon.now = d /\ d # None
            BY <1>3, <2>2, <4>1, ClearFacts, Nones DEF FinishClear
          <5> QED BY <5>1 DEF SwapsSound
        <4>2. ASSUME NEW r \in Reqs, Clear(r) PROVE Whole(c)
          <5>1. req[r].new \in Contents /\ req[r].pc = "clear"
            BY <4>2, ReqFacts DEF Clear, ReqAt
          <5>2. c = req[r].new
            BY <1>3, <2>2, <4>2, <5>1, ClearFacts
          <5> QED BY <5>1, <5>2 DEF StagedMine
        <4>3. ASSUME NEW r \in Reqs, Commit(r) PROVE FALSE
          <5>1. pending'[req[r].new] # NoSwap /\ \A d \in Contents : d # req[r].new => pending'[d] = pending[d]
            <6>1. pending'[req[r].new] \in PendRec
              BY <4>3, CommitFacts
            <6>2. pending'[req[r].new] # NoSwap
              BY <6>1, Nones DEF PendRec, NoSwap
            <6> QED BY <4>3, <6>2, CommitFacts
          <5> QED BY <1>3, <2>2, <5>1
        <4> QED BY <1>3, <2>2, <4>1, <4>2, <4>3, PendingMoves
      <3> QED BY <1>3, <3>1, FilesStay, Stands DEF Whole, KeptNext
    <2> QED BY <2>1, <2>2
  <1> QED BY <1>1, <1>2, <1>3 DEF Kept

LEMMA DurableKept ==
    ASSUME Shape, Originals, AllKept, NEW c \in Contents, Durable(c)
    PROVE  Kept(c)
  <1>1. PICK d \in Contents :
          /\ HasFile(row[d])
          /\ d = c \/ (row[c] = NoRow /\ alias[c] # None /\ d = alias[c])
    <2>1. alias[c] \in Contents \cup {None}
      BY DEF Shape
    <2> QED BY <2>1 DEF Durable
  <1>2. row[d] # NoRow
    BY <1>1, RowFacts
  <1>3. c \in StandsFor(d)
    BY <1>1, Stands DEF Originals
  <1> QED BY <1>2, <1>3 DEF AllKept

LEMMA AllKeptNext ==
    ASSUME Shape, Shape', Phase, Originals, StagedMine, SwapsSound, SwapsSound', AllKept, [Next]_vars
    PROVE  AllKept'
  <1>0. \A a \in Contents : Kept(a) => KeptNext(a)
    BY KeptStays
  <1>1. ASSUME NEW q \in Paths, NEW c \in Contents, file'[q] = c
        PROVE  \A a \in StandsFor(c) : KeptNext(a)
    <2>1. \A a \in StandsFor(c) : Held(a)'
      BY <1>1, Nones DEF Held
    <2> QED BY <2>1 DEF KeptNext, Safe
  <1>2. ASSUME NEW p \in Phones, NEW c \in Contents, Deliver(p, c), ~Durable(c)
        PROVE  /\ \A a \in StandsFor(c) : KeptNext(a)
               /\ \A d \in Contents : d # c => row'[d] = row[d]
    <2>1. PICK q \in Paths, w \in Row : file' = [file EXCEPT ![q] = c] /\ row' = [row EXCEPT ![c] = w]
      BY <1>2, DeliverFacts
    <2>2. file'[q] = c /\ \A d \in Contents : d # c => row'[d] = row[d]
      BY <2>1 DEF Shape
    <2> QED BY <1>1, <2>2
  <1>3. ASSUME NEW c \in Contents, row'[c] # NoRow PROVE \A a \in StandsFor(c) : KeptNext(a)
    <2>1. CASE row'[c] = row[c]
      BY <1>0, <1>3, <2>1, Stands DEF AllKept
    <2>2. ASSUME NEW p \in Phones, NEW d \in Contents, Deliver(p, d), ~Durable(d)
          PROVE  row'[c] = row[c] \/ \A a \in StandsFor(c) : KeptNext(a)
      BY <1>2, <2>2
    <2>3. ASSUME NEW p \in Paths, Index(p)
          PROVE  row'[c] = row[c] \/ \A a \in StandsFor(c) : KeptNext(a)
      <3>1. CASE c = file[p]
        <4>1. file' = file
          BY <2>3 DEF Index
        <4> QED BY <1>1, <3>1, <4>1
      <3>2. CASE c # file[p]
        BY <1>3, <2>3, <3>2, IndexFacts
      <3> QED BY <3>1, <3>2
    <2>4. ASSUME NEW d \in Contents, Prune(d) PROVE row'[c] = row[c]
      BY <1>3, <2>4, PruneFacts
    <2>5. ASSUME NEW r \in Reqs, Commit(r)
          PROVE  row'[c] = row[c] \/ \A a \in StandsFor(c) : KeptNext(a)
      <3>1. CASE c = req[r].new
        <4>1. pending'[c] # NoSwap
          <5>1. pending'[c] \in PendRec
            BY <2>5, <3>1, CommitFacts
          <5> QED BY <5>1, Nones DEF PendRec, NoSwap
        <4> QED BY <4>1 DEF SwapsSound, Whole, KeptNext
      <3>2. CASE c # req[r].new
        BY <1>3, <2>5, <3>2, CommitFacts
      <3> QED BY <3>1, <3>2
    <2> QED BY <2>1, <2>2, <2>3, <2>4, <2>5, RowMoves
  <1>4. ASSUME NEW a \in acked' PROVE KeptNext(a)
    <2>1. ASSUME NEW b \in acked PROVE KeptNext(b)
      BY <1>0, <2>1 DEF AllKept, Shape
    <2>2. ASSUME NEW p \in Phones, NEW c \in Contents, Deliver(p, c) PROVE KeptNext(a)
      <3>1. acked' = acked \cup {c}
        BY <2>2 DEF Deliver
      <3>2. CASE Durable(c)
        BY <1>0, <1>4, <2>1, <3>1, <3>2, DurableKept
      <3>3. CASE ~Durable(c)
        BY <1>2, <1>4, <2>1, <2>2, <3>1, <3>3, Stands
      <3> QED BY <3>2, <3>3
    <2>3. ASSUME NEW new \in Contents, Durable(new), acked' = acked \cup {new} PROVE KeptNext(a)
      BY <1>0, <1>4, <2>1, <2>3, DurableKept
    <2>4. ASSUME NEW r \in Reqs, Clear(r) PROVE KeptNext(a)
      <3>1. req[r].new \in Contents /\ req[r].pc = "clear"
        BY <2>4, ReqFacts DEF Clear, ReqAt
      <3>2. acked' = acked \cup {req[r].new}
        BY <2>4 DEF Clear, Replaced
      <3>3. Safe(req[r].new)
        BY <3>1, Stands DEF StagedMine, Whole
      <3>4. KeptNext(req[r].new)
        BY <1>0, <3>1, <3>3 DEF Kept
      <3> QED BY <1>4, <2>1, <3>2, <3>4
    <2> QED BY <1>4, <2>1, <2>2, <2>3, <2>4, AckMoves
  <1>5. \A c \in Contents : row'[c] # NoRow => \A a \in StandsFor(c) : KeptNext(a)
    BY <1>3
  <1>6. \A a \in acked' : KeptNext(a)
    BY <1>4
  <1> QED BY <1>5, <1>6 DEF AllKept, Kept, KeptNext

(* Whatever is asked, cut off or repeated, by any number of requests.      *)
LEMMA Keeps == Spec => [](Shape /\ KeepInv)
  <1>1. Init => Shape /\ KeepInv
    BY ShapeInit, KeepInit
  <1>2. Shape /\ KeepInv /\ [Next]_vars => (Shape /\ KeepInv)'
    <2>1. SUFFICES ASSUME Shape, KeepInv, [Next]_vars PROVE (Shape /\ KeepInv)'
      OBVIOUS
    <2>2. Phase /\ Originals /\ StagedMine /\ SwapsSound /\ AllKept
      BY <2>1 DEF KeepInv
    <2>3. Shape' /\ Phase' /\ Originals'
      BY <2>1, <2>2, ShapeNext, PhaseNext, OriginalsNext
    <2>4. StagedMine' /\ SwapsSound'
      BY <2>1, <2>2, <2>3, StagedMineNext, SwapsSoundNext
    <2>5. AllKept'
      BY <2>1, <2>2, <2>3, <2>4, AllKeptNext
    <2> QED BY <2>3, <2>4, <2>5 DEF KeepInv
  <1> QED BY <1>1, <1>2, PTL DEF Spec

(* What a pending swap waits for is staged, or in the library: for any     *)
(* number of requests, phones, starts and failures (supersede_asset,       *)
(* finish_pending_swaps and the sweep of staged files).                    *)
THEOREM SwapBacked == Spec => []SwapIsBacked
  <1>1. Shape /\ KeepInv => SwapIsBacked
    <2>1. SUFFICES ASSUME Shape, KeepInv, NEW c \in Contents, pending[c] # NoSwap
                   PROVE  Backed(c) \/ Held(c) \/ c \in lost \cup spoiled
      BY DEF SwapIsBacked
    <2>2. Backed(c) \/ Whole(c)
      BY <2>1 DEF KeepInv, SwapsSound
    <2> QED BY <2>2, Stands DEF Whole, Safe
  <1> QED BY <1>1, Keeps, PTL

(* No photo a phone was told is kept is lost by a swap that is cut off,    *)
(* repeated or tried again, however many run at once (supersede.rs).       *)
THEOREM NothingDropped == Spec => []KeptWhole
  <1>1. Shape /\ KeepInv => KeptWhole
    BY DEF KeepInv, AllKept, Kept, Safe, KeptWhole
  <1> QED BY <1>1, Keeps, PTL

-----------------------------------------------------------------------------
(* One phone: where the index points.                                      *)

CleanNext(c)    == StandsFor(c) \cap Touched' = {}
PristineNext(c) == \A d \in Kin(c) : CleanNext(d)
NearNext(p, c)  == p \in Paths /\ file'[p] # None /\ StandsFor(file'[p]) \cap StandsFor(c) # {}

LEMMA Later ==
    ASSUME Shape, Phase, [Next]_vars, NEW c \in Contents
    PROVE  /\ CleanNext(c) => Clean(c)
           /\ PristineNext(c) => Pristine(c) /\ CleanNext(c)
           /\ \A p \in Paths : Near(p, c) /\ CleanNext(c) => NearNext(p, c)
           /\ \A p \in Paths, a \in StandsFor(c) :
                file[p] # None /\ a \in StandsFor(file[p]) /\ CleanNext(c) =>
                  file'[p] # None /\ a \in StandsFor(file'[p])
  <1>1. /\ Touched \subseteq Touched' /\ spoiled' \subseteq Touched'
        /\ \A p \in Paths : file[p] # None => Stays(p)
    BY FilesStay DEF Touched
  <1>2. c \in StandsFor(c) /\ StandsFor(c) \subseteq Contents /\ c \in Kin(c)
    BY Stands DEF Kin
  <1>3. CleanNext(c) => Clean(c)
    BY <1>1 DEF CleanNext, Clean
  <1>4. PristineNext(c) => Pristine(c) /\ CleanNext(c)
    BY <1>1, <1>2 DEF PristineNext, CleanNext, Pristine
  <1>5. \A p \in Paths, a \in StandsFor(c) :
                file[p] # None /\ a \in StandsFor(file[p]) /\ CleanNext(c) =>
                  file'[p] # None /\ a \in StandsFor(file'[p])
    <2>1. SUFFICES ASSUME NEW p \in Paths, NEW a \in StandsFor(c), file[p] # None,
                          a \in StandsFor(file[p]), CleanNext(c)
                   PROVE  file'[p] # None /\ a \in StandsFor(file'[p])
      OBVIOUS
    <2>2. a \notin Touched' /\ Stays(p)
      BY <1>1, <2>1 DEF CleanNext
    <2> QED BY <1>1, <2>1, <2>2 DEF Stays
  <1>6. \A p \in Paths : Near(p, c) /\ CleanNext(c) => NearNext(p, c)
    BY <1>5 DEF Near, NearNext
  <1> QED BY <1>3, <1>4, <1>5, <1>6

LEMMA Copies ==
    ASSUME NEW c \in Contents
    PROVE  /\ Kin(c) \subseteq Contents /\ c \in Kin(c)
           /\ Pristine(c) => \A d \in Kin(c) : Clean(d)
           /\ \A b \in StandsFor(c) : b \in Kin(c)
           /\ \A b \in StandsFor(c) : Clean(c) => Clean(b)
           /\ \A p : Near(p, c) /\ file[p] \in Contents => file[p] \in Kin(c)
  BY Stands DEF Kin, Pristine, Clean, Near

(* A row whose file is near counts, and nothing indexes its content anew.  *)
LEMMA NearHas ==
    ASSUME Shape, NEW c \in Contents, row[c] # NoRow, file[row[c].at] # None
    PROVE  /\ HasFile(row[c]) /\ Durable(c)
           /\ ~Prune(c)
           /\ \A p \in Paths : Index(p) => file[p] # c
  <1>1. HasFile(row[c])
    BY RowFacts
  <1> QED BY <1>1 DEF Durable, Prune, Index

(* A kindred file's new row takes the place of this one, at its path.      *)
Evicted(c) ==
    LET p == row[c].at
    IN  /\ file[p] \in Contents /\ file[p] # c /\ UNCHANGED file
        /\ row'[file[p]] # NoRow /\ row'[file[p]].at = p /\ row'[file[p]].way = "found"

(* A row that is new or changed, but for the transaction's, is a file's.   *)
LEMMA RowChanges ==
    ASSUME Shape, Phase, [Next]_vars, NEW c \in Contents, row'[c] # row[c]
    PROVE  \/ /\ row'[c] = NoRow /\ row[c] # NoRow
              /\ \/ file[row[c].at] = None
                 \/ \E r \in Reqs : Commit(r) /\ c = req[r].old
                 \/ Evicted(c)
           \/ row'[c].at \in Paths /\ file'[row'[c].at] = c
              /\ ~(row[c] # NoRow /\ file[row[c].at] # None)
              /\ ~(\E r \in Reqs : Commit(r))
           \/ \E r \in Reqs : Commit(r) /\ c = req[r].new /\ row'[c] = req[r].read
  <1>1. ASSUME NEW p \in Phones, NEW d \in Contents, Deliver(p, d), ~Durable(d)
        PROVE  /\ row'[c].at \in Paths /\ file'[row'[c].at] = c
               /\ ~(row[c] # NoRow /\ file[row[c].at] # None)
               /\ ~(\E r \in Reqs : Commit(r))
    <2>1. PICK q \in Paths, w \in Row :
            w.at = q /\ file[q] = None /\ file' = [file EXCEPT ![q] = d] /\ row' = [row EXCEPT ![d] = w]
      BY <1>1, DeliverFacts
    <2>2. c = d /\ row'[c] = w /\ file'[q] = d
      BY <2>1 DEF Shape
    <2>3. \A r \in Reqs : ~Commit(r)
      BY <2>1, <2>2, CommitFacts, Nones
    <2> QED BY <1>1, <2>1, <2>2, <2>3, NearHas
  <1>2. ASSUME NEW p \in Paths, Index(p)
        PROVE  \/ row'[c] = NoRow /\ row[c] # NoRow /\ Evicted(c)
               \/ row'[c].at \in Paths /\ file'[row'[c].at] = c
                  /\ ~(row[c] # NoRow /\ file[row[c].at] # None)
                  /\ ~(\E r \in Reqs : Commit(r))
    <2>1. CASE c # file[p]
      <3>1. PICK w \in Row :
              /\ w.at = p /\ (row[file[p]] = NoRow => w.way = "found") /\ file[p] \in Contents
              /\ row'[file[p]] = w
              /\ row'[c] = NoRow /\ row[c].at = p /\ row[file[p]] = NoRow
        BY <1>2, <2>1, IndexFacts
      <3>2. row[c] # NoRow /\ w # NoRow /\ w.way = "found"
        BY <3>1, Nones DEF NoRow, Row
      <3>3. UNCHANGED file
        BY <1>2 DEF Index
      <3> QED BY <2>1, <3>1, <3>2, <3>3 DEF Evicted
    <2>2. CASE c = file[p]
      <3>1. row'[c].at = p /\ file' = file
        BY <1>2, <2>2, IndexFacts DEF Index
      <3>2. \A r \in Reqs : ~Commit(r)
        <4>1. SUFFICES ASSUME NEW r \in Reqs, Commit(r) PROVE FALSE
          OBVIOUS
        <4>2. req' # req
          <5>1. ReqStep(r)
            BY <4>1 DEF ReqStep
          <5>2. req[r].pc = "commit" /\ req[r] # NoReq
            BY <4>1, <5>1, Turn DEF Commit, ReqAt
          <5>3. req'[r].pc = "swap"
            BY <4>1, <5>2, Goes DEF Commit, ReadOnes
          <5> QED BY <5>2, <5>3
        <4>3. req' = req
          BY <1>2 DEF Index, OtherFrame
        <4> QED BY <4>2, <4>3
      <3> QED BY <1>2, <2>2, <3>1, <3>2, NearHas
    <2> QED BY <2>1, <2>2
  <1>3. ASSUME NEW d \in Contents, Prune(d)
        PROVE  row'[c] = NoRow /\ row[c] # NoRow /\ file[row[c].at] = None
    BY <1>3, PruneFacts, RowFacts
  <1>4. ASSUME NEW r \in Reqs, Commit(r)
        PROVE  \/ row'[c] = NoRow /\ row[c] # NoRow /\ c = req[r].old
               \/ c = req[r].new /\ row'[c] = req[r].read
    BY <1>4, CommitFacts
  <1> QED BY <1>1, <1>2, <1>3, <1>4, RowMoves

LEMMA OneRequestNext ==
    ASSUME OnePhone, Shape, Phase, OneRequest, [Next]_vars
    PROVE  OneRequest'
  <1>1. ASSUME NEW r \in Reqs, NEW s \in Reqs, r # s, req'[r] # NoReq, req'[s] # NoReq,
               req[r] = NoReq
        PROVE  FALSE
    <2>1. ~ReqStep(r)
      BY <1>1, Turn
    <2>2. PICK p \in Phones, old \in Contents, new \in Contents : Plan(r, p, old, new)
      BY <1>1, <2>1, ReqAlive
    <2>3. ~Locked(p) /\ req'[s] = req[s]
      BY <1>1, <2>2, PlanFacts
    <2>4. req[s].phone \in Phones
      BY <1>1, <2>3, ReqFacts
    <2> QED BY <2>3, <2>4 DEF Locked, OnePhone
  <1>2. ASSUME NEW r \in Reqs, NEW s \in Reqs, r # s, req'[r] # NoReq, req'[s] # NoReq
        PROVE  FALSE
    <2>1. req[r] # NoReq /\ req[s] # NoReq
      BY <1>1, <1>2
    <2> QED BY <1>2, <2>1 DEF OneRequest
  <1> QED BY <1>2 DEF OneRequest

(* What the transaction of the one request finds.                          *)
LEMMA CommitReady ==
    ASSUME Shape, Phase, Originals, AllReady, NEW r \in Reqs, Commit(r), Clean(req[r].old)
    PROVE  /\ InPlace(r) /\ Planned(r, row[req[r].old]) /\ req[r].read = row[req[r].old]
           /\ req[r].read.at = req[r].at /\ req[r].at \in Paths
           /\ row[req[r].old] # NoRow
           /\ file[req[r].at] = req[r].old /\ req[r].old \in StandsFor(req[r].new)
           /\ req[r].old # req[r].new
  <1>1. req[r].pc = "commit" /\ req[r].old \in Contents /\ req[r].new \in Contents
    BY CommitFacts
  <1>2. req[r] # NoReq
    BY <1>1, Nobody
  <1>3. req[r].at \in Paths /\ req[r].phone \in Phones
    BY <1>2, ReqFacts
  <1>4. InPlace(r) /\ Planned(r, row[req[r].old]) /\ req[r].read = row[req[r].old]
    BY <1>1 DEF AllReady, Ready, Accepted
  <1>5. req[r].read.at = req[r].at
    BY <1>4 DEF Planned
  <1>6. row[req[r].old] # NoRow
    BY <1>1, <1>3, <1>4, Nones, RowFacts DEF Planned
  <1>7. <<req[r].old, req[r].new>> \in Redacted
    BY <1>1 DEF Originals, Spliced
  <1>8. req[r].old \in StandsFor(req[r].new) /\ req[r].old # req[r].new
    BY <1>1, <1>7, Stands, NotItself
  <1> QED BY <1>3, <1>4, <1>5, <1>6, <1>8 DEF InPlace

LEMMA RowNearNext ==
    ASSUME Shape, Shape', Phase, Originals, RowNear, AllReady, [Next]_vars
    PROVE  RowNear'
  <1>1. ASSUME NEW c \in Contents, row'[c] # NoRow, CleanNext(c)
        PROVE  NearNext(row'[c].at, c)
    <2>1. Clean(c) /\ c \in StandsFor(c)
      BY <1>1, Later, Stands
    <2>2. CASE row'[c] = row[c]
      <3>1. Near(row[c].at, c) /\ row[c].at \in Paths
        BY <1>1, <2>1, <2>2, RowFacts DEF RowNear
      <3> QED BY <1>1, <2>2, <3>1, Later
    <2>3. CASE row'[c].at \in Paths /\ file'[row'[c].at] = c
      BY <2>1, <2>3, Nones DEF NearNext
    <2>4. ASSUME NEW r \in Reqs, Commit(r), c = req[r].new, row'[c] = req[r].read
          PROVE  NearNext(row'[c].at, c)
      <3>1. req[r].old \in Contents /\ file' = file /\ req[r].pc = "commit"
        BY <2>4, CommitFacts
      <3>2. Clean(req[r].old)
        <4>1. <<req[r].old, c>> \in Redacted
          BY <2>4, <3>1 DEF Originals, Spliced
        <4> QED BY <2>1, <3>1, <4>1, Copies, Stands
      <3>3. /\ row'[c].at = req[r].at /\ req[r].at \in Paths
            /\ file[req[r].at] = req[r].old /\ req[r].old \in StandsFor(c)
        BY <2>4, <3>2, CommitReady
      <3>4. req[r].old \in StandsFor(req[r].old) /\ req[r].old # None
        BY <3>1, Stands, Nones
      <3> QED BY <3>1, <3>3, <3>4 DEF NearNext
    <2> QED BY <1>1, <2>2, <2>3, <2>4, RowChanges
  <1>2. \A c \in Contents : row'[c] # NoRow /\ CleanNext(c) => NearNext(row'[c].at, c)
    BY <1>1
  <1> QED BY <1>2 DEF RowNear, Near, NearNext, Clean, CleanNext

LEMMA ReqNearNext ==
    ASSUME Shape, Shape', Phase, RowNear, ReqNear, [Next]_vars
    PROVE  ReqNear'
  <1>1. ASSUME NEW r \in Reqs, req'[r].pc \in Unswapped, CleanNext(req'[r].old)
        PROVE  NearNext(req'[r].at, req'[r].old)
    <2>1. req'[r] # NoReq
      BY <1>1, Nobody DEF Unswapped
    <2>2. req'[r].old \in Contents
      <3>1. req'[r] \in ReqRec
        BY DEF Shape
      <3> QED BY <2>1, <3>1 DEF ReqRec, ReqFields
    <2>3. PICK o \in Contents : o = req'[r].old
      BY <2>2
    <2>4. Clean(o) /\ CleanNext(o)
      BY <1>1, <2>3, Later
    <2>5. CASE req[r] # NoReq /\ req'[r].at = req[r].at /\ req'[r].old = req[r].old /\ req[r].pc \in Unswapped
      <3>1. Near(req[r].at, o) /\ req[r].at \in Paths
        BY <2>3, <2>4, <2>5, ReqFacts DEF ReqNear
      <3> QED BY <2>3, <2>4, <2>5, <3>1, Later
    <2>6. CASE req'[r] = req[r]
      BY <1>1, <2>1, <2>5, <2>6
    <2>7. CASE ReqStep(r)
      <3>1. req[r] # NoReq /\ Same(r) /\ req[r].pc \in Unswapped
        BY <1>1, <2>1, <2>7, Turn DEF Unswapped
      <3> QED BY <2>5, <3>1 DEF Same
    <2>8. ASSUME NEW p \in Phones, NEW old \in Contents, NEW new \in Contents,
                 Plan(r, p, old, new), req[r] = NoReq
          PROVE  NearNext(req'[r].at, req'[r].old)
      <3>1. HasFile(row[old]) /\ req'[r].old = old /\ req'[r].at = row[old].at
        BY <2>1, <2>8, PlanFacts
      <3>2. row[old] # NoRow /\ row[old].at \in Paths
        BY <3>1, RowFacts
      <3>3. Near(row[old].at, old)
        BY <2>3, <2>4, <3>1, <3>2 DEF RowNear
      <3> QED BY <2>3, <2>4, <3>1, <3>2, <3>3, Later
    <2> QED BY <2>1, <2>6, <2>7, <2>8, ReqAlive
  <1>2. \A r \in Reqs : req'[r].pc \in Unswapped /\ CleanNext(req'[r].old) =>
                          NearNext(req'[r].at, req'[r].old)
    BY <1>1
  <1> QED BY <1>2 DEF ReqNear, Near, NearNext, Clean, CleanNext

(* While the one request goes on, nobody else renames, stages or commits.  *)
LEMMA Alone ==
    ASSUME OneRequest, Shape, Phase, [Next]_vars, NEW r \in Reqs, req[r] # NoReq
    PROVE  /\ \A s \in Reqs : s # r => ~ReqStep(s)
           /\ \A s \in Reqs : s # r => ~Commit(s) /\ ~Swap(s) /\ ~Stages(s) /\ ~Clear(s)
  <1>1. ASSUME NEW s \in Reqs, s # r PROVE ~ReqStep(s)
    <2>1. req[s] = NoReq
      BY <1>1 DEF OneRequest
    <2> QED BY <2>1, Turn
  <1>2. ASSUME NEW s \in Reqs, s # r PROVE ~Commit(s) /\ ~Swap(s) /\ ~Stages(s) /\ ~Clear(s)
    BY <1>1, <1>2 DEF ReqStep, Stages
  <1> QED BY <1>1, <1>2

LEMMA Idles ==
    ASSUME OneRequest, Shape, Phase, [Next]_vars, NEW r \in Reqs, req[r] # NoReq, req'[r] = req[r]
    PROVE  /\ ~ReqStep(r)
           /\ \A s \in Reqs : ~Commit(s) /\ ~Swap(s) /\ ~Stages(s) /\ ~Clear(s)
           /\ \A c \in Contents : ~FinishRename(c) /\ ~FinishClear(c)
           /\ UNCHANGED pending
           /\ daemon'.pid = daemon.pid /\ daemon.pid \in Pids /\ Mine(r)' = Mine(r)
           /\ staged'[Mine(r)] = staged[Mine(r)]
  <1>1. ~ReqStep(r)
    <2>1. SUFFICES ASSUME ReqStep(r) PROVE FALSE
      OBVIOUS
    <2> QED BY <2>1, Turn
  <1>2. \A s \in Reqs : ~Commit(s) /\ ~Swap(s) /\ ~Stages(s) /\ ~Clear(s)
    BY <1>1, Alone DEF ReqStep, Stages
  <1>3. \A c \in Contents : ~FinishRename(c) /\ ~FinishClear(c)
    BY ReqAlive
  <1>4. UNCHANGED pending
    BY <1>2, <1>3, PendingMoves
  <1>5. daemon'.pid = daemon.pid /\ daemon.pid \in Pids
    BY ReqAlive
  <1>6. Mine(r)' = Mine(r)
    BY <1>5 DEF Mine
  <1>7. staged'[Mine(r)] = staged[Mine(r)]
    <2>1. CASE UNCHANGED staged
      BY <2>1
    <2>2. ASSUME NEW c \in Contents, NEW pid \in Pids, SweepStaging(c, pid)
          PROVE  staged'[Mine(r)] = staged[Mine(r)]
      <3>1. Mine(r) \in Contents \X Pids
        BY <1>5, ReqFacts DEF Mine
      <3>2. <<c, pid>> # Mine(r) /\ staged' = [staged EXCEPT ![<<c, pid>>] = None]
        BY <2>2 DEF SweepStaging, Mine
      <3> QED BY <3>1, <3>2 DEF Shape
    <2> QED BY <1>2, <1>3, <2>1, <2>2, StagedMoves
  <1> QED BY <1>1, <1>2, <1>3, <1>4, <1>5, <1>6, <1>7

LEMMA FileSteady ==
    ASSUME OneRequest, Shape, Phase, [Next]_vars, NEW r \in Reqs, req[r] # NoReq, req'[r] # NoReq,
           ~Swap(r), NEW p \in Paths, NEW c \in Contents, Near(p, c), CleanNext(c)
    PROVE  file'[p] = file[p]
  <1>1. \A s \in Reqs : ~Swap(s)
    BY Alone
  <1>2. \A d \in Contents : ~FinishRename(d)
    BY ReqAlive
  <1>3. ASSUME NEW ph \in Phones, NEW d \in Contents, Deliver(ph, d), ~Durable(d)
        PROVE  file'[p] = file[p]
    <2>1. PICK q \in Paths : file[q] = None /\ file' = [file EXCEPT ![q] = d]
      BY <1>3, DeliverFacts
    <2> QED BY <2>1 DEF Shape, Near
  <1>4. CASE User
    <2>1. PICK q \in Paths : \E t \in {lost', moved'} :
             /\ StandsFor(file[q]) \subseteq t
             /\ \A s \in Paths : s # q /\ file[s] # None => file'[s] = file[s]
      BY <1>4, UserFacts
    <2>2. StandsFor(file[q]) \subseteq Touched'
      BY <2>1 DEF Touched
    <2>3. q # p
      BY <2>2 DEF Near, CleanNext
    <2> QED BY <2>1, <2>3 DEF Near
  <1> QED BY <1>1, <1>2, <1>3, <1>4, FileMoves

LEMMA RowSteady ==
    ASSUME OneRequest, Shape, Phase, [Next]_vars, NEW r \in Reqs, req[r] # NoReq,
           ~Commit(r), NEW c \in Contents, row[c] # NoRow, file[row[c].at] = c
    PROVE  row'[c] = row[c]
  <1>1. \A s \in Reqs : ~Commit(s)
    BY Alone
  <1>2. c # None
    BY Nones
  <1> QED BY <1>1, <1>2, RowChanges DEF Evicted

LEMMA PlannedFacts ==
    ASSUME Shape, NEW r \in Reqs, req[r] # NoReq, InPlace(r), Planned(r, row[req[r].old])
    PROVE  row[req[r].old] # NoRow /\ file[row[req[r].old].at] = req[r].old
  <1>1. row[req[r].old].at = req[r].at /\ req[r].at \in Paths /\ req[r].old \in Contents
    BY ReqFacts DEF Planned
  <1> QED BY <1>1, RowFacts DEF InPlace

PlannedNext(r, asset) == asset.at = req'[r].at /\ asset.src = req'[r].phone
AcceptedNext(r) ==
    \/ req'[r].pc = "commit"
    \/ req'[r].pc = "splice" /\ staged'[<<req'[r].new, daemon'.pid>>] = req'[r].old
ReadyNext(r) ==
    /\ req'[r].pc \in {"fetch", "copy"} /\ CleanNext(req'[r].old) /\ file'[req'[r].at] = req'[r].old =>
         /\ PlannedNext(r, row'[req'[r].old])
         /\ req'[r].pc = "copy" => req'[r].read = row'[req'[r].old]
    /\ AcceptedNext(r) /\ CleanNext(req'[r].old) =>
         /\ file'[req'[r].at] = req'[r].old /\ PlannedNext(r, row'[req'[r].old])
         /\ req'[r].read = row'[req'[r].old]
    /\ req'[r].pc \in {"swap", "clear"} /\ CleanNext(req'[r].new) =>
         /\ PlannedNext(r, req'[r].read)
         /\ pending'[req'[r].new] = [at |-> req'[r].at, pid |-> daemon'.pid]
    /\ req'[r].pc = "clear" /\ CleanNext(req'[r].new) =>
         staged'[<<req'[r].new, daemon'.pid>>] # req'[r].new

LEMMA ReadyPrimed ==
    ASSUME NEW r \in Reqs, ReadyNext(r)
    PROVE  Ready(r)'
  BY DEF ReadyNext, Ready, InPlace, Planned, PlannedNext, Accepted, AcceptedNext, Mine, Clean, CleanNext

(* The steps of the one request, seen from what is ready.                  *)
LEMMA ReadyIdle ==
    ASSUME OneRequest, Shape, Shape', Phase, ReqNear, AllReady, [Next]_vars,
           NEW r \in Reqs, req[r] # NoReq, req'[r] = req[r]
    PROVE  ReadyNext(r)
  <1>0. /\ UNCHANGED pending /\ daemon'.pid = daemon.pid /\ Mine(r)' = Mine(r)
        /\ staged'[Mine(r)] = staged[Mine(r)] /\ ~Swap(r) /\ ~Commit(r)
    BY Idles
  <1>1. req[r].old \in Contents /\ req[r].new \in Contents /\ req[r].at \in Paths
    BY ReqFacts
  <1>2. PICK o \in Contents, n \in Contents : o = req[r].old /\ n = req[r].new
    BY <1>1
  <1>3. /\ CleanNext(o) => Clean(o)
        /\ CleanNext(n) => Clean(n)
    BY Later
  <1>4. Ready(r)
    BY DEF AllReady
  <1>5. ASSUME CleanNext(o), req[r].pc \in Unswapped PROVE file'[req[r].at] = file[req[r].at]
    <2>1. Near(req[r].at, o)
      BY <1>2, <1>3, <1>5 DEF ReqNear
    <2> QED BY <1>0, <1>1, <1>5, <2>1, FileSteady
  <1>6. ASSUME InPlace(r), Planned(r, row[o]) PROVE row'[o] = row[o]
    <2>1. row[o] # NoRow /\ file[row[o].at] = o
      BY <1>2, <1>6, PlannedFacts
    <2> QED BY <1>0, <2>1, RowSteady
  <1>7. (\A w : PlannedNext(r, w) <=> Planned(r, w)) /\ (AcceptedNext(r) <=> Accepted(r))
    BY <1>0 DEF Planned, PlannedNext, Accepted, AcceptedNext, Mine
  <1>8. ASSUME req[r].pc \in {"fetch", "copy"}, CleanNext(o), file'[req[r].at] = o
        PROVE  Planned(r, row'[o]) /\ (req[r].pc = "copy" => req[r].read = row'[o])
    <2>1. InPlace(r)
      BY <1>2, <1>5, <1>8 DEF InPlace, Unswapped
    <2> QED BY <1>2, <1>3, <1>4, <1>6, <1>8, <2>1 DEF Ready
  <1>9. ASSUME Accepted(r), CleanNext(o)
        PROVE  file'[req[r].at] = o /\ Planned(r, row'[o]) /\ req[r].read = row'[o]
    <2>1. InPlace(r) /\ Planned(r, row[o]) /\ req[r].read = row[o]
      BY <1>2, <1>3, <1>4, <1>9 DEF Ready
    <2>2. req[r].pc \in Unswapped
      BY <1>9 DEF Accepted, Unswapped
    <2> QED BY <1>2, <1>5, <1>6, <1>9, <2>1, <2>2 DEF InPlace
  <1>10. ASSUME req[r].pc \in {"swap", "clear"}, CleanNext(n)
         PROVE  /\ Planned(r, req[r].read)
                /\ pending'[n] = [at |-> req[r].at, pid |-> daemon'.pid]
    BY <1>0, <1>2, <1>3, <1>4, <1>10 DEF Ready
  <1>11. ASSUME req[r].pc = "clear", CleanNext(n) PROVE staged'[<<n, daemon'.pid>>] # n
    BY <1>0, <1>2, <1>3, <1>4, <1>11 DEF Ready, Mine
  <1>12. /\ req'[r].pc = req[r].pc /\ req'[r].old = o /\ req'[r].new = n /\ req'[r].at = req[r].at
         /\ req'[r].read = req[r].read
    BY <1>2
  <1> QED BY <1>7, <1>8, <1>9, <1>10, <1>11, <1>12 DEF ReadyNext

LEMMA ReadyStep ==
    ASSUME Shape, Shape', Phase, Originals, AllReady, [Next]_vars,
           NEW r \in Reqs, ReqStep(r), req'[r] # NoReq
    PROVE  ReadyNext(r)
  <1>1. req[r] # NoReq /\ Same(r) /\ UNCHANGED daemon
    BY Turn
  <1>2. /\ req[r].old \in Contents /\ req[r].new \in Contents /\ req[r].at \in Paths
        /\ daemon.pid \in Pids
    BY <1>1, ReqFacts DEF Phase
  <1>3. PICK o \in Contents, n \in Contents : o = req[r].old /\ n = req[r].new
    BY <1>2
  <1>4. /\ req'[r].old = o /\ req'[r].new = n /\ req'[r].at = req[r].at
        /\ (\A w : PlannedNext(r, w) <=> Planned(r, w)) /\ <<req'[r].new, daemon'.pid>> = Mine(r)
    BY <1>1, <1>3 DEF Same, Planned, PlannedNext, Mine
  <1>5. Ready(r) /\ (CleanNext(o) => Clean(o)) /\ (CleanNext(n) => Clean(n))
    BY Later DEF AllReady
  <1>6. CASE ApplyRow(r) /\ req[r].pc = "fetch" /\ req'[r].pc = "copy" /\ req'[r].read = row[req[r].old]
    <2>1. file' = file /\ row' = row
      BY <1>6 DEF ApplyRow, dbVars
    <2>2. ASSUME CleanNext(o), file'[req[r].at] = o
          PROVE  Planned(r, row'[o]) /\ req'[r].read = row'[o]
      BY <1>3, <1>5, <1>6, <2>1, <2>2 DEF Ready, InPlace
    <2> QED BY <1>4, <1>6, <2>2 DEF ReadyNext, AcceptedNext
  <1>7. CASE Copy(r) /\ req[r].pc = "copy" /\ req'[r].pc = "splice" /\ req'[r].read = req[r].read
    <2>1. file' = file /\ row' = row /\ Stage(r, file[req[r].at])
      BY <1>7 DEF Copy, dbVars
    <2>2. file[req[r].at] \in Contents \cup {None}
      BY <1>2 DEF Shape
    <2>3. staged'[Mine(r)] = file[req[r].at]
      BY <1>2, <2>1, <2>2, StageFacts
    <2>4. ASSUME AcceptedNext(r), CleanNext(o)
          PROVE  file'[req[r].at] = o /\ Planned(r, row'[o]) /\ req'[r].read = row'[o]
      <3>1. InPlace(r)
        BY <1>3, <1>4, <1>7, <2>3, <2>4 DEF AcceptedNext, InPlace
      <3> QED BY <1>3, <1>5, <1>7, <2>1, <2>4, <3>1 DEF Ready, InPlace
    <2> QED BY <1>4, <1>7, <2>4 DEF ReadyNext
  <1>8. CASE Splice(r) /\ req[r].pc = "splice" /\ req'[r].pc = "commit" /\ req'[r].read = req[r].read
             /\ staged[Mine(r)] = req[r].old
    <2>1. file' = file /\ row' = row
      BY <1>8 DEF Splice, dbVars
    <2>2. ASSUME CleanNext(o)
          PROVE  file'[req[r].at] = o /\ Planned(r, row'[o]) /\ req'[r].read = row'[o]
      BY <1>3, <1>5, <1>8, <2>1, <2>2 DEF Ready, Accepted, InPlace
    <2> QED BY <1>4, <1>8, <2>2 DEF ReadyNext
  <1>9. CASE Commit(r) /\ req[r].pc = "commit" /\ req'[r].pc = "swap" /\ req'[r].read = req[r].read
    <2>1. ASSUME CleanNext(n)
          PROVE  /\ Planned(r, req'[r].read)
                 /\ pending'[n] = [at |-> req[r].at, pid |-> daemon'.pid]
      <3>1. <<o, n>> \in Redacted
        BY <1>3, <1>9 DEF Originals, Spliced
      <3>2. Clean(req[r].old)
        BY <1>3, <1>5, <2>1, <3>1, Copies, Stands
      <3>3. Planned(r, req[r].read) /\ req[r].read.at = req[r].at
        BY <1>9, <3>2, CommitReady
      <3>4. pending' = [pending EXCEPT ![n] = [at |-> req[r].read.at, pid |-> daemon.pid]]
        BY <1>3, <1>9 DEF Commit
      <3> QED BY <1>1, <1>9, <3>3, <3>4 DEF Shape
    <2> QED BY <1>4, <1>9, <2>1 DEF ReadyNext, AcceptedNext
  <1>10. CASE req'[r].pc = "undo"
    BY <1>10 DEF ReadyNext, AcceptedNext
  <1>11. CASE Swap(r) /\ req[r].pc = "swap" /\ req'[r].pc = "clear" /\ req'[r].read = req[r].read
    <2>1. SwapRename(req[r].new, daemon.pid, req[r].at) /\ pending' = pending
      BY <1>11 DEF Swap, dbVars
    <2>2. staged'[Mine(r)] = None
      BY <1>2, <2>1, RenameFacts DEF Mine
    <2>3. ASSUME CleanNext(n)
          PROVE  /\ Planned(r, req'[r].read)
                 /\ pending'[n] = [at |-> req[r].at, pid |-> daemon'.pid]
      BY <1>1, <1>3, <1>5, <1>11, <2>1, <2>3 DEF Ready
    <2> QED BY <1>4, <1>11, <2>2, <2>3, Nones DEF ReadyNext, AcceptedNext
  <1> QED BY <1>1, <1>6, <1>7, <1>8, <1>9, <1>10, <1>11, Turn

LEMMA AllReadyNext ==
    ASSUME OneRequest, Shape, Shape', Phase, Originals, ReqNear, AllReady, [Next]_vars
    PROVE  AllReady'
  <1>1. ASSUME NEW r \in Reqs PROVE ReadyNext(r)
    <2>1. CASE req'[r] = NoReq
      <3>1. req'[r].pc = "idle"
        BY <2>1, Nobody
      <3> QED BY <3>1 DEF ReadyNext, AcceptedNext
    <2>2. CASE req'[r] # NoReq /\ req'[r] = req[r]
      BY <2>2, ReadyIdle
    <2>3. CASE req'[r] # NoReq /\ ReqStep(r)
      BY <2>3, ReadyStep
    <2>4. ASSUME NEW p \in Phones, NEW old \in Contents, NEW new \in Contents,
                 Plan(r, p, old, new), req[r] = NoReq, req'[r] # NoReq
          PROVE  ReadyNext(r)
      <3>1. /\ row[old].src = p /\ req'[r].pc = "fetch" /\ req'[r].phone = p /\ req'[r].old = old
            /\ req'[r].at = row[old].at /\ row' = row
        BY <2>4, PlanFacts DEF dbVars
      <3>2. PlannedNext(r, row'[old])
        BY <3>1 DEF PlannedNext
      <3> QED BY <3>1, <3>2 DEF ReadyNext, AcceptedNext
    <2> QED BY <2>1, <2>2, <2>3, <2>4, ReqAlive
  <1> QED BY <1>1, ReadyPrimed DEF AllReady

HoldsNext(c) == c \in StandsFor(file'[row'[c].at])
WaitsNext(c) == pending'[c] # NoSwap /\ pending'[c].at = row'[c].at /\ Backed(c)'

LEMMA HoldsStay ==
    ASSUME Shape, Phase, RowNear, [Next]_vars, NEW c \in Contents, row[c] # NoRow, CleanNext(c),
           row'[c] = row[c], c \in StandsFor(file[row[c].at])
    PROVE  HoldsNext(c)
  <1>1. Clean(c) /\ c \in StandsFor(c)
    BY Later, Stands
  <1>2. Near(row[c].at, c) /\ row[c].at \in Paths
    BY <1>1, RowFacts DEF RowNear
  <1>3. file[row[c].at] # None
    BY <1>2 DEF Near
  <1> QED BY <1>1, <1>2, <1>3, Later DEF HoldsNext

(* The one request's swap is over the path of the row it made.             *)
LEMMA SwapsOver ==
    ASSUME Shape, Phase, AllReady, [Next]_vars, NEW c \in Contents, Clean(c),
           pending[c] # NoSwap, Backed(c), Renaming
    PROVE  \/ UNCHANGED pending /\ Backed(c)'
           \/ file'[pending[c].at] = c
  <1>1. PICK d \in Contents, i \in Pids, p \in Paths :
          /\ SwapRename(d, i, p)
          /\ \/ FinishRename(d) /\ i = pending[d].pid /\ p = pending[d].at
             \/ \E r \in Reqs : Swap(r) /\ d = req[r].new /\ i = daemon.pid /\ p = req[r].at
    BY DEF Renaming
  <1>2. pending[c].pid \in Pids /\ c # None
    BY SwapFacts, Nones
  <1>3. UNCHANGED pending
    BY <1>1 DEF FinishRename, Swap, dbVars
  <1>4. CASE d = c /\ i = pending[c].pid
    <2>1. file'[p] = c
      BY <1>1, <1>2, <1>4, RenameFacts DEF Backed
    <2>2. p = pending[c].at
      <3>1. ASSUME NEW r \in Reqs, Swap(r), c = req[r].new, p = req[r].at PROVE p = pending[c].at
        <4>1. req[r].pc = "swap"
          BY <3>1 DEF Swap, ReqAt
        <4>2. pending[c] = [at |-> req[r].at, pid |-> daemon.pid]
          BY <3>1, <4>1 DEF AllReady, Ready
        <4> QED BY <3>1, <4>2
      <3> QED BY <1>1, <1>4, <3>1
    <2> QED BY <2>1, <2>2
  <1>5. CASE ~(d = c /\ i = pending[c].pid)
    <2>1. <<c, pending[c].pid>> # <<d, i>> /\ <<c, pending[c].pid>> \in Contents \X Pids
      BY <1>2, <1>5
    <2>2. staged'[<<c, pending[c].pid>>] = staged[<<c, pending[c].pid>>]
      BY <1>1, <2>1, RenameFacts
    <2> QED BY <1>3, <2>2 DEF Backed
  <1> QED BY <1>4, <1>5

LEMMA HoldsOrWaitsNext ==
    ASSUME Shape, Shape', KeepInv, RowNear, AllReady, HoldsOrWaits, Finishing, [Next]_vars
    PROVE  HoldsOrWaits'
  <1>0. Phase /\ Originals /\ StagedMine /\ SwapsSound
    BY DEF KeepInv
  <1>1. ASSUME NEW c \in Contents, row'[c] # NoRow, CleanNext(c)
        PROVE  HoldsNext(c) \/ WaitsNext(c)
    <2>1. Clean(c) /\ c \in StandsFor(c) /\ c # None
      BY <1>0, <1>1, Later, Stands, Nones
    <2>2. c \notin spoiled /\ c \notin spoiled'
      BY <1>1, <2>1 DEF Clean, CleanNext, Touched
    <2>3. CASE row'[c] # row[c] /\ row'[c].at \in Paths /\ file'[row'[c].at] = c
      BY <2>1, <2>3 DEF HoldsNext
    <2>4. ASSUME NEW r \in Reqs, Commit(r), c = req[r].new
          PROVE  WaitsNext(c)
      <3>1. /\ req[r].pc = "commit" /\ staged' = staged /\ row'[c] = req[r].read
            /\ pending'[c] \in PendRec
            /\ pending'[c].at = req[r].read.at /\ pending'[c].pid = daemon.pid
        BY <1>0, <2>4, CommitFacts
      <3>2. pending'[c] # NoSwap
        BY <3>1, Nones DEF PendRec, NoSwap
      <3>3. staged[Mine(r)] = c
        BY <1>0, <2>1, <2>2, <2>4, <3>1 DEF StagedMine, Renames, Taken
      <3>4. Backed(c)'
        BY <2>4, <3>1, <3>3 DEF Backed, Mine
      <3> QED BY <3>1, <3>2, <3>4 DEF WaitsNext
    <2>5. CASE row'[c] = row[c] /\ c \in StandsFor(file[row[c].at])
      BY <1>0, <1>1, <2>5, HoldsStay
    <2>6. ASSUME row'[c] = row[c], Waits(c), pending'[c] = pending[c]
          PROVE  HoldsNext(c) \/ WaitsNext(c)
      <3>1. PICK i \in Pids : i = pending[c].pid
        BY <2>6, SwapFacts DEF Waits
      <3>2. CASE Renaming
        <4>1. Backed(c)' \/ file'[row'[c].at] = c
          BY <1>0, <2>1, <2>6, <3>2, SwapsOver DEF Waits
        <4> QED BY <2>1, <2>6, <4>1 DEF HoldsNext, WaitsNext, Waits
      <3>3. CASE ~Renaming
        <4>1. staged'[<<c, i>>] = c \/ TakenNext(c)
          BY <1>0, <2>6, <3>1, <3>3, StagedStays DEF Waits, Backed
        <4>2. ~TakenNext(c)
          BY <2>1, <2>2 DEF TakenNext
        <4> QED BY <2>6, <3>1, <4>1, <4>2 DEF WaitsNext, Waits, Backed
      <3> QED BY <3>2, <3>3
    <2>7. ASSUME row'[c] = row[c], pending'[c] # pending[c], Waits(c),
                 \A r \in Reqs : ~Commit(r)
          PROVE  FALSE
      <3>1. ASSUME NEW d \in Contents, FinishClear(d) PROVE FALSE
        <4>1. d = c
          BY <1>0, <2>7, <3>1, ClearFacts
        <4>2. daemon.st = "finish" /\ daemon.now = c
          BY <3>1, <4>1 DEF FinishClear
        <4> QED BY <2>1, <2>7, <4>2 DEF Finishing, Waits
      <3>2. ASSUME NEW r \in Reqs, Clear(r) PROVE FALSE
        <4>1. req[r].new \in Contents /\ req[r].pc = "clear"
          BY <3>2, ReqFacts DEF Clear, ReqAt
        <4>2. c = req[r].new
          BY <1>0, <2>7, <3>2, <4>1, ClearFacts
        <4>3. /\ pending[c] = [at |-> req[r].at, pid |-> daemon.pid]
              /\ staged[Mine(r)] # c
          BY <2>1, <4>1, <4>2 DEF AllReady, Ready
        <4> QED BY <2>7, <4>2, <4>3 DEF Waits, Backed, Mine
      <3> QED BY <2>7, <3>1, <3>2, PendingMoves
    <2>8. ASSUME NEW r \in Reqs, Commit(r), c # req[r].new PROVE pending'[c] = pending[c]
      BY <1>0, <2>8, CommitFacts
    <2>9. CASE row'[c] = row[c]
      <3>1. c \in StandsFor(file[row[c].at]) \/ Waits(c)
        BY <1>1, <2>1, <2>9 DEF HoldsOrWaits
      <3> QED BY <2>4, <2>5, <2>6, <2>7, <2>8, <2>9, <3>1
    <2> QED BY <1>0, <1>1, <2>3, <2>4, <2>9, RowChanges
  <1>2. \A c \in Contents : row'[c] # NoRow /\ CleanNext(c) => HoldsNext(c) \/ WaitsNext(c)
    BY <1>1
  <1> QED BY <1>2 DEF HoldsOrWaits, HoldsNext, WaitsNext, Waits, Clean, CleanNext

LEMMA FinishingNext ==
    ASSUME Shape, Phase, Finishing, [Next]_vars
    PROVE  Finishing'
  <1>1. SUFFICES ASSUME daemon'.st = "finish"
                 PROVE  /\ \A c \in Contents : pending'[c] # NoSwap => c \in daemon'.todo \/ c = daemon'.now
                        /\ daemon'.now # None =>
                             staged'[<<daemon'.now, pending'[daemon'.now].pid>>] # daemon'.now
    BY DEF Finishing, Backed
  <1>2. CASE UNCHANGED daemon
    <2>1. daemon.st = "finish" /\ \A r \in Reqs : req[r] = NoReq
      BY <1>1, <1>2 DEF Phase
    <2>2. \A r \in Reqs : ~ReqStep(r)
      BY <2>1, Turn
    <2>3. \A c \in Contents : ~FinishRename(c) /\ ~FinishClear(c)
      <3>1. ASSUME NEW c \in Contents, FinishRename(c) PROVE FALSE
        BY <1>2, <3>1, FinishMakes, Nones DEF FinishRename
      <3>2. ASSUME NEW c \in Contents, FinishClear(c) PROVE FALSE
        BY <1>2, <3>2, FinishMakes, Nones DEF FinishClear
      <3> QED BY <3>1, <3>2
    <2>4. UNCHANGED pending
      BY <2>2, <2>3, PendingMoves DEF ReqStep
    <2>5. UNCHANGED staged
      BY <2>1, <2>2, <2>3, StagedMoves DEF ReqStep, Stages, SweepStaging
    <2> QED BY <1>2, <2>1, <2>4, <2>5 DEF Finishing, Backed
  <1>3. ASSUME NEW pid \in Pids, Start(pid)
        PROVE  daemon'.now = None /\ \A c \in Contents : pending'[c] # NoSwap => c \in daemon'.todo
    <2>1. UNCHANGED pending
      BY <1>3 DEF Start
    <2> QED BY <1>3, <2>1, StartMakes
  <1>4. ASSUME NEW c \in Contents, FinishRename(c)
        PROVE  /\ \A d \in Contents : pending'[d] # NoSwap => d \in daemon'.todo \/ d = daemon'.now
               /\ staged'[<<daemon'.now, pending'[daemon'.now].pid>>] # daemon'.now
    <2>1. /\ daemon.st = "finish" /\ daemon.now = None /\ c \in daemon.todo /\ UNCHANGED pending
          /\ SwapRename(c, pending[c].pid, pending[c].at)
      BY <1>4 DEF FinishRename
    <2>2. pending[c].pid \in Pids /\ pending[c].at \in Paths
      BY <2>1, SwapFacts DEF Phase
    <2>3. staged'[<<c, pending[c].pid>>] = None
      BY <2>1, <2>2, RenameFacts
    <2>4. daemon'.todo = daemon.todo \ {c} /\ daemon'.now = c
      BY <1>4, FinishMakes
    <2> QED BY <2>1, <2>3, <2>4, Nones DEF Finishing
  <1>5. ASSUME NEW c \in Contents, FinishClear(c)
        PROVE  /\ \A d \in Contents : pending'[d] # NoSwap => d \in daemon'.todo
               /\ daemon'.now = None
    <2>1. daemon.st = "finish" /\ daemon.now = c
      BY <1>5 DEF FinishClear
    <2>2. daemon'.todo = daemon.todo /\ daemon'.now = None
      BY <1>5, FinishMakes
    <2> QED BY <1>5, <2>1, <2>2, ClearFacts DEF Finishing
  <1>6. ~(FinishFails \/ FinishEnd)
    BY <1>1, ServeMakes
  <1>7. ~Crash
    BY <1>1, Nobody DEF Crash
  <1>8. ~(SweepBegin \/ \E a \in Contents : SweepResidue(a))
    BY <1>1, SweepMakes DEF SweepBegin, SweepResidue
  <1> QED BY <1>2, <1>3, <1>4, <1>5, <1>6, <1>7, <1>8, DaemonMoves

ShowsNext(a, c) ==
    row'[c] # NoRow /\ file'[row'[c].at] # None /\ a \in StandsFor(file'[row'[c].at])
DisplacedNext(a, c) == \E d \in Kin(c) \ {c} : row'[d].way = "found" /\ ShowsNext(a, d)

(* The file that shows a copy keeps a row: its own, that of what replaced  *)
(* it, or that of the kindred content it was found to have.                *)
LEMMA ShowsStays ==
    ASSUME Shape, Phase, Originals, AllReady, [Next]_vars, NEW x \in Contents,
           NEW a \in StandsFor(x), NEW d \in Kin(x), PristineNext(x), Shows(a, d)
    PROVE  \/ ShowsNext(a, d) /\ row'[d] = row[d]
           \/ \E e \in Kin(x) : ShowsNext(a, e) /\ row'[e].way = "found"
           \/ \E r \in Reqs : /\ Commit(r) /\ d = req[r].old /\ req[r].new \in Kin(x)
                               /\ ShowsNext(a, req[r].new) /\ row'[req[r].new] = row[d]
  <1>1. d \in Contents /\ Pristine(x) /\ CleanNext(x) /\ Clean(d) /\ a \in Contents
    BY Later, Copies, Stands
  <1>2. /\ row[d] # NoRow /\ file[row[d].at] # None /\ row[d].at \in Paths
        /\ a \in StandsFor(file[row[d].at]) /\ file[row[d].at] \in Contents
    BY <1>1, RowFacts DEF Shows, Shape
  <1>3. CASE row'[d] = row[d]
    <2>1. file'[row[d].at] # None /\ a \in StandsFor(file'[row[d].at])
      BY <1>1, <1>2, Later
    <2> QED BY <1>2, <1>3, <2>1 DEF ShowsNext
  <1>4. CASE Evicted(d)
    <2>1. PICK e \in Contents : e = file[row[d].at]
      BY <1>2
    <2>2. row'[e] # NoRow /\ row'[e].at = row[d].at /\ row'[e].way = "found" /\ file' = file
      BY <1>4, <2>1 DEF Evicted
    <2>3. e \in Kin(x)
      BY <1>2, <2>1 DEF Kin
    <2> QED BY <1>2, <2>1, <2>2, <2>3 DEF ShowsNext
  <1>5. ASSUME NEW r \in Reqs, Commit(r), d = req[r].old
        PROVE  /\ req[r].new \in Kin(x)
               /\ ShowsNext(a, req[r].new) /\ row'[req[r].new] = row[d]
    <2>1. /\ req[r].new \in Contents /\ row'[req[r].new] = req[r].read /\ file' = file
      BY <1>5, CommitFacts
    <2>2. req[r].read = row[d] /\ d \in StandsFor(req[r].new)
      BY <1>1, <1>5, CommitReady
    <2>3. StandsFor(d) \subseteq StandsFor(req[r].new)
      BY <2>1, <2>2, Stands
    <2>4. StandsFor(d) \cap StandsFor(x) # {}
      BY DEF Kin
    <2>5. req[r].new \in Kin(x)
      BY <2>1, <2>3, <2>4 DEF Kin
    <2> QED BY <1>2, <2>1, <2>2, <2>5 DEF ShowsNext
  <1>6. ASSUME NEW r \in Reqs, Commit(r), d = req[r].new PROVE FALSE
    BY <1>2, <1>6, CommitFacts
  <1> QED BY <1>1, <1>2, <1>3, <1>4, <1>5, <1>6, RowChanges

LEMMA AliasLiveNext ==
    ASSUME Shape, Shape', Phase, Originals, AllReady, AliasLive, [Next]_vars
    PROVE  AliasLive'
  <1>1. ASSUME NEW a \in Contents, alias'[a] # None, PristineNext(alias'[a])
        PROVE  ShowsNext(a, alias'[a]) \/ DisplacedNext(a, alias'[a])
    <2>1. PICK x \in Contents : x = alias'[a]
      BY <1>1 DEF Shape
    <2>2. Pristine(x) /\ CleanNext(x) /\ Clean(x) /\ x \in Kin(x)
      BY <1>1, <2>1, Later, Copies
    <2>3. a \in StandsFor(x)
      <3>1. Originals'
        BY OriginalsNext
      <3>2. <<a, x>> \in Redacted
        BY <1>1, <2>1, <3>1 DEF Originals
      <3> QED BY <3>2, Stands
    <2>4. ASSUME NEW r \in Reqs, Commit(r) PROVE x # req[r].old
      <3>1. /\ req[r].old \in Contents /\ req[r].new \in Contents /\ req[r].pc = "commit"
            /\ alias'[a] = IF a = req[r].old \/ alias[a] = req[r].old THEN req[r].new ELSE alias[a]
        BY <2>4, CommitFacts
      <3>2. req[r].old # req[r].new
        BY <3>1, NotItself DEF Originals, Spliced
      <3> QED BY <2>1, <3>1, <3>2
    <2>5. ASSUME alias[a] = x PROVE ShowsNext(a, x) \/ DisplacedNext(a, x)
      <3>1. CASE Shows(a, x)
        <4>1. \/ ShowsNext(a, x)
              \/ \E e \in Kin(x) : ShowsNext(a, e) /\ row'[e].way = "found"
          BY <1>1, <2>1, <2>2, <2>3, <2>4, <3>1, ShowsStays
        <4> QED BY <4>1 DEF DisplacedNext
      <3>2. CASE Displaced(a, x)
        <4>1. PICK d \in Kin(x) \ {x} : row[d].way = "found" /\ Shows(a, d)
          BY <3>2 DEF Displaced
        <4>2. PICK e \in Kin(x) : ShowsNext(a, e) /\ row'[e].way = "found"
          BY <1>1, <2>1, <2>2, <2>3, <4>1, ShowsStays
        <4> QED BY <4>2 DEF DisplacedNext
      <3> QED BY <2>2, <2>5, <3>1, <3>2, Nones DEF AliasLive
    <2>6. ASSUME NEW r \in Reqs, Commit(r), alias[a] # x PROVE ShowsNext(a, x)
      <3>1. /\ req[r].old \in Contents /\ req[r].new \in Contents /\ req[r].pc = "commit"
            /\ row'[req[r].new] = req[r].read /\ file' = file
            /\ alias'[a] = IF a = req[r].old \/ alias[a] = req[r].old THEN req[r].new ELSE alias[a]
        BY <2>6, CommitFacts
      <3>2. x = req[r].new /\ (a = req[r].old \/ alias[a] = req[r].old)
        BY <2>1, <2>6, <3>1
      <3>3. <<req[r].old, x>> \in Redacted
        BY <2>6, <3>1, <3>2 DEF Originals, Spliced
      <3>4. Clean(req[r].old)
        BY <2>2, <3>1, <3>3, Copies, Stands
      <3>5. /\ req[r].read.at = req[r].at /\ file[req[r].at] = req[r].old
            /\ req[r].read = row[req[r].old] /\ row[req[r].old] # NoRow
        BY <2>6, <3>4, CommitReady
      <3>6. a \in StandsFor(req[r].old)
        <4>1. CASE a = req[r].old
          BY <3>1, <4>1, Stands
        <4>2. CASE alias[a] = req[r].old
          BY <3>1, <4>2, Stands, Nones DEF Originals
        <4> QED BY <3>2, <4>1, <4>2
      <3> QED BY <3>1, <3>2, <3>5, <3>6, Nones DEF ShowsNext
    <2>7. alias[a] = x \/ \E r \in Reqs : Commit(r)
      BY <2>1, AliasMoves
    <2> QED BY <2>1, <2>5, <2>6, <2>7
  <1>2. \A a \in Contents : alias'[a] # None /\ PristineNext(alias'[a]) =>
          ShowsNext(a, alias'[a]) \/ DisplacedNext(a, alias'[a])
    BY <1>1
  <1> QED BY <1>2 DEF AliasLive, Displaced, DisplacedNext, Pristine, PristineNext, CleanNext,
                      Shows, ShowsNext

LEMMA IndexedRight == OnePhone => (Spec => [](Shape /\ KeepInv /\ IndexInv))
  <1> SUFFICES ASSUME OnePhone PROVE Spec => [](Shape /\ KeepInv /\ IndexInv)
    OBVIOUS
  <1>1. Init => IndexInv
    BY KeepInit
  <1>2. IndexInv /\ Shape /\ KeepInv /\ [Next]_vars /\ (Shape /\ KeepInv)' => IndexInv'
    <2>1. SUFFICES ASSUME IndexInv, Shape, KeepInv, [Next]_vars, Shape', KeepInv' PROVE IndexInv'
      OBVIOUS
    <2>2. Phase /\ Originals
      BY <2>1 DEF KeepInv
    <2>3. /\ OneRequest /\ RowNear /\ ReqNear /\ AllReady /\ HoldsOrWaits /\ Finishing
          /\ AliasLive
      BY <2>1 DEF IndexInv
    <2>4. OneRequest' /\ RowNear' /\ ReqNear'
      BY <2>1, <2>2, <2>3, OneRequestNext, RowNearNext, ReqNearNext
    <2>5. AllReady' /\ HoldsOrWaits'
      BY <2>1, <2>2, <2>3, AllReadyNext, HoldsOrWaitsNext
    <2>6. Finishing' /\ AliasLive'
      BY <2>1, <2>2, <2>3, FinishingNext, AliasLiveNext
    <2> QED BY <2>4, <2>5, <2>6 DEF IndexInv
  <1> QED BY <1>1, <1>2, Keeps, PTL DEF Spec

LEMMA OneShape == OnePhone => (Spec => [](Shape /\ Phase /\ Originals /\ RowNear /\ HoldsOrWaits
                                          /\ Finishing /\ AliasLive))
  <1>1. Shape /\ KeepInv /\ IndexInv =>
          Shape /\ Phase /\ Originals /\ RowNear /\ HoldsOrWaits /\ Finishing /\ AliasLive
    BY DEF KeepInv, IndexInv
  <1> QED BY <1>1, IndexedRight, PTL

LEMMA DisplacedTakenIn ==
    ASSUME NEW a, NEW c \in Contents, Displaced(a, c)
    PROVE  TakenIn(c)
  BY DEF Displaced, TakenIn

LEMMA RowHas ==
    ASSUME Shape, RowNear, NEW c \in Contents, row[c] # NoRow, Clean(c)
    PROVE  HasFile(row[c]) /\ file[row[c].at] \in Contents
  <1>1. Near(row[c].at, c)
    BY DEF RowNear
  <1> QED BY <1>1, RowFacts DEF Near, Shape

(* With one phone, a photo that was replaced is known for ever as kept,    *)
(* through any number of replacements, crashes and failures, so long as    *)
(* the user leaves it and its copies where they are and no ingest came     *)
(* between a transaction and its rename (has_durable_copy).                *)
THEOREM KnownAfterwards == OnePhone => (Spec => []SupersededIsKnown)
  <1>1. Shape /\ Originals /\ RowNear /\ AliasLive => SupersededIsKnown
    <2>1. SUFFICES ASSUME Shape, Originals, RowNear, AliasLive, NEW a \in Contents, alias[a] # None,
                          Pristine(alias[a]), ~TakenIn(alias[a])
                   PROVE  Durable(a)
      BY DEF SupersededIsKnown
    <2>2. PICK x \in Contents : x = alias[a]
      BY <2>1 DEF Shape
    <2>3. a \in Kin(x) /\ Clean(a) /\ Clean(x)
      <3>1. a \in StandsFor(x)
        BY <2>1, <2>2, Stands DEF Originals
      <3> QED BY <2>1, <2>2, <3>1, Copies
    <2>4. row[x] # NoRow
      BY <2>1, <2>2, DisplacedTakenIn DEF AliasLive, Shows
    <2>5. HasFile(row[x])
      BY <2>1, <2>3, <2>4, RowHas
    <2>6. row[a] # NoRow => HasFile(row[a])
      BY <2>1, <2>3, RowHas
    <2> QED BY <2>1, <2>2, <2>5, <2>6 DEF Durable
  <1> QED BY <1>1, OneShape, PTL

(* With one phone, the startup reconcile finds no old copy under the row   *)
(* of its original, if the pending swaps could be finished (main.rs).      *)
THEOREM StartsAreWhole == OnePhone => (Spec => StartsWhole)
  <1> DEFINE Begins == daemon.st = "finish" /\ daemon'.st = "serve" /\ ~daemon'.failed
             Fits == \A c \in Contents :
                         /\ row[c] # NoRow
                         /\ StandsFor(c) \cap Touched = {}
                         => <<file[row[c].at], c>> \notin Redacted
  <1>1. Shape /\ Phase /\ RowNear /\ HoldsOrWaits /\ Finishing /\ [Next]_vars
          => [Begins => Fits]_vars
    <2>1. SUFFICES ASSUME Shape, Phase, RowNear, HoldsOrWaits, Finishing, [Next]_vars, Begins,
                          NEW c \in Contents, row[c] # NoRow, Clean(c)
                   PROVE  <<file[row[c].at], c>> \notin Redacted
      BY DEF Clean
    <2>2. daemon.now = None /\ daemon.todo = {}
      <3>1. ASSUME FinishFails PROVE FALSE
        BY <2>1, <3>1, ServeMakes
      <3>2. CASE FinishEnd
        BY <3>2 DEF FinishEnd
      <3>3. daemon' # daemon
        BY <2>1
      <3>4. ~Crash
        BY <2>1, Nobody DEF Crash
      <3>5. \A d \in Contents : ~FinishRename(d) /\ ~FinishClear(d)
        BY <2>1, FinishMakes
      <3>6. /\ \A pid \in Pids : ~Start(pid)
            /\ ~SweepBegin /\ \A a \in Contents : ~SweepResidue(a)
        BY <2>1 DEF Start, SweepBegin, SweepResidue
      <3> QED BY <2>1, <3>1, <3>2, <3>3, <3>4, <3>5, <3>6, DaemonMoves
    <2>3. pending[c] = NoSwap
      BY <2>1, <2>2, Nones DEF Finishing
    <2>4. c \in StandsFor(file[row[c].at]) /\ file[row[c].at] \in Contents
      BY <2>1, <2>3, RowHas DEF HoldsOrWaits, Waits
    <2>5. PICK f \in Contents : f = file[row[c].at] /\ c \in StandsFor(f)
      BY <2>4
    <2>6. <<f, c>> \notin Redacted
      <3>1. SUFFICES ASSUME <<f, c>> \in Redacted PROVE FALSE
        OBVIOUS
      <3>2. c = f \/ <<c, f>> \in Redacted
        BY <2>5, Stands
      <3>3. <<c, c>> \in Redacted
        BY <3>1, <3>2, SupersedeAssumption
      <3> QED BY <3>3, NotItself
    <2> QED BY <2>5, <2>6
  <1>2. StartsWhole <=> [][Begins => Fits]_vars
    BY DEF StartsWhole
  <1> HIDE DEF Begins, Fits
  <1> QED BY <1>1, <1>2, OneShape, PTL DEF Spec

(* With one phone, the sweep of what an earlier version has set aside      *)
(* deletes a copy only while the file its alias's row names holds all of   *)
(* it, though its list of pending swaps be stale (residue.rs, #1182).      *)
THEOREM SweepSpares == OnePhone => (Spec => SweepLosesNothing)
  <1> DEFINE Spared == \A a \in residue \ residue' :
         LET asset == row[alias[a]]
         IN  /\ HasFile(asset)
             /\ Pristine(alias[a]) /\ ~TakenIn(alias[a])
                  => a \in StandsFor(file[asset.at])
  <1>1. Shape /\ Phase /\ AliasLive /\ [Next]_vars
          => [Spared]_vars
    <2>1. SUFFICES ASSUME Shape, Phase, AliasLive, [Next]_vars,
                          NEW a \in residue \ residue'
                   PROVE  LET asset == row[alias[a]]
                          IN  /\ HasFile(asset)
                              /\ Pristine(alias[a]) /\ ~TakenIn(alias[a])
                                   => a \in StandsFor(file[asset.at])
      OBVIOUS
    <2>2. SweepResidue(a)
      BY <2>1 DEF Next, Daemon, User, ReqStep, vars, diskVars, Start, FinishRename, FinishClear,
     FinishFails, FinishEnd, Crash, SweepStaging, SweepBegin, SweepResidue, Deliver, Delete, Edit, Move,
     Plan, Refuse, ApplyRow, Copy, Splice, StageFails, CommitFails, Undo, Swap, Clear, SwapFails, Commit,
     StartFrame, FailFrame, ReqFrame, SweepFrame, OtherFrame, UserFrame, Index, Prune
    <2>3. /\ daemon.seen # None /\ alias[a] # None /\ HasFile(row[alias[a]])
          /\ alias[a] \notin daemon.seen
      BY <2>2 DEF SweepResidue
    <2>4. PICK x \in Contents : x = alias[a] /\ a \in Contents
      BY <2>1, <2>3 DEF Shape
    <2>5. ASSUME Pristine(x), ~TakenIn(x) PROVE a \in StandsFor(file[row[x].at])
      BY <2>3, <2>4, <2>5, DisplacedTakenIn, <2>1 DEF AliasLive, Shows
    <2> QED BY <2>3, <2>4, <2>5
  <1>2. SweepLosesNothing <=> [][Spared]_vars
    BY DEF SweepLosesNothing
  <1> HIDE DEF Spared
  <1> QED BY <1>1, <1>2, OneShape, PTL DEF Spec

=============================================================================
