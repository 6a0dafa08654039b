----------------------------- MODULE PhoneEngine -----------------------------
(***************************************************************************)
(* The phone's backup engine (Android): which photo is sent next, and how  *)
(* the answer is written down.  backup/flow/FlowEngine.kt decides,         *)
(* backup/order/SqliteOrderStore.kt keeps.                                 *)
(*                                                                         *)
(* Nothing stores what is left to do: it is what MediaStore lists in the   *)
(* chosen albums, less the skip list, less the photos whose current order  *)
(* is settled.  A full difference is slow, so the engine keeps two         *)
(* cursors: G over MediaStore's generations, which only newly found photos *)
(* move, and S over photo ids, which counts while the scan is marked       *)
(* dirty.  All writes happen on one thread, but every read of MediaStore   *)
(* and every call to the desktop suspends, and the user's commands run in  *)
(* between.  `job.pc' names the suspension the running cycle is in.        *)
(*                                                                         *)
(* One MediaStore volume with precise generations; every photo stands for  *)
(* an album of its own.                                                    *)
(***************************************************************************)
EXTENDS Integers, Sequences, FiniteSets, FiniteSetsExt

CONSTANTS
    N,             \* MediaStore ids are 1..N
    MaxFailures,   \* OrderStore.MAX_FAILURES
    Events,        \* what the surroundings do, of the names used below
    MaxEvents,     \* bound: how often they do it
    MaxKills,      \* bound: how often the process is killed
    Taken, Chosen, \* the photos, the albums there may be at the start
    None

ASSUME PhoneEngineAssumption ==
    /\ N \in Nat \ {0} /\ MaxFailures \in Nat \ {0} /\ MaxEvents \in Nat
    /\ MaxKills \in Nat
    /\ Taken \subseteq SUBSET (1..N) /\ Chosen \subseteq SUBSET (1..N)
    /\ None \notin Nat \X Nat

VARIABLES
    photo,     \* MediaStore: generation (0: not listed), version, bytes
    scope,     \* photos in the chosen albums
    orders,    \* the order table; an order's id is its index
    skips,     \* the skip list
    gcur,      \* G: <<generation, id>>, or None before the first round
    scan,      \* the scan's dirty mark and its cursor S
    paused,    \* the user's pause
    waiting,   \* a wait reason is recorded
    pending,   \* triggers not yet taken up
    job,       \* the running cycle
    dialog,    \* photos, with versions, an open "cancel the rest" dialog counts
    desk,      \* <<order, bytes>>: orders the desktop has finished
    kept,      \* <<photo, bytes>>: files the desktop has
    events,    \* events so far
    kills,     \* and process deaths
    leaving,   \* cancelled cycles that have still to insert an order
    swept,     \* photos overlooked after a mark was undone (history)
    unread,    \* <<photo, version>>: its file was not there (history)
    unopened,  \* <<photo, version>>: closed, the next order lost (history)
    overtaken  \* a loop was started while a cycle was leaving (history)

media  == <<photo, scope>>
store  == <<orders, skips, gcur, scan>>
intent == <<paused, waiting, pending, dialog>>
remote == <<desk, kept>>
aside  == <<leaving, unopened, overtaken>>
ghosts == <<swept, unread, aside>>
count  == <<events, kills>>
vars   == <<media, store, intent, job, remote, count, ghosts>>

Photos == 1..N
Open    == {"pending", "transferring", "failed"}
Settled == {"confirmed", "sourceGone"}

-----------------------------------------------------------------------------
(* The store.                                                              *)

(* The order of p with the largest id, 0 when it has none.                 *)
Current(p) == Max({0} \cup {i \in DOMAIN orders : orders[i].media = p})

(* Current orders in one of `states', id above `after'.                    *)
InStates(states, after) ==
    {i \in DOMAIN orders : /\ i > after /\ orders[i].state \in states
                           /\ i = Current(orders[i].media)}

NewOrder(p, ver, bytes, state) ==
    [media |-> p, ver |-> ver, hash |-> bytes, state |-> state,
     tries |-> 0, gone |-> FALSE]

Dirty == [dirty |-> TRUE, cursor |-> 0]
Clean == [dirty |-> FALSE, cursor |-> 0]

AdvanceScan(id) == [scan EXCEPT !.cursor = Max({@, id})]

Before(a, b) == a[1] < b[1] \/ (a[1] = b[1] /\ a[2] < b[2])
AdvanceG(to) == IF Before(gcur, to) THEN to ELSE gcur

-----------------------------------------------------------------------------
(* What is left to do.                                                     *)

Listed  == {p \in Photos : photo[p].gen > 0}
InScope == Listed \cap scope
At(p)   == <<photo[p].gen, p>>
Beyond  == {p \in InScope : gcur # None /\ Before(gcur, At(p))}

(* The current order of p is of this version and in one of `states'.       *)
Has(p, ver, states) ==
    LET i == Current(p)
    IN  i > 0 /\ orders[i].ver = ver /\ orders[i].state \in states

IsTodo(p)  == p \notin skips /\ ~Has(p, photo[p].ver, Settled)
TodoTargets == {p \in InScope : IsTodo(p)}

CountTodo ==
    IF scan.dirty THEN TodoTargets
    ELSE {p \in Beyond : IsTodo(p)}
         \cup (({orders[i].media : i \in InStates(Open, 0)} \cap scope) \ skips)

(* A scan or a discovery makes a new order for this snapshot.              *)
NeedsNewOrder(p, ver) ==
    /\ p \notin skips
    /\ ~Has(p, ver, Settled \cup Open)

-----------------------------------------------------------------------------
(* The cycle.                                                              *)

NoItem == [order |-> 0, media |-> 0, ver |-> 0, gen |-> 0, origin |-> "none"]

(* `legacy', `retry', `handled' and `asked' are the round's; `batch' is    *)
(* what a scan has read, `zero' what a count has; `late' says the scan was *)
(* marked dirty after that (history).                                      *)
Off == [pc |-> "off", reconcile |-> FALSE, ask |-> FALSE, legacy |-> 0,
        retry |-> 0, handled |-> {}, asked |-> FALSE, batch |-> << >>,
        zero |-> FALSE, item |-> NoItem, hash |-> 0, again |-> FALSE,
        late |-> FALSE]

Go(pc) == [job EXCEPT !.pc = pc]
Next1  == [job EXCEPT !.pc = "pick", !.item = NoItem, !.hash = 0,
                      !.again = FALSE]

(* The round is over: the drain looks at the triggers once more.           *)
End(wait) ==
    /\ job' = IF pending = {} THEN Off ELSE [Off EXCEPT !.pc = "begin"]
    /\ waiting' = wait
    /\ UNCHANGED <<paused, pending, dialog>>

Happens(e) ==
    e \in Events /\ events < MaxEvents /\ events' = events + 1 /\ UNCHANGED kills
Quiet == UNCHANGED <<count, ghosts>>

(* Photos left to do that neither cursor nor an open order nor the cycle   *)
(* leads to.                                                               *)
Found(p) ==
    \/ gcur = None \/ p \in Beyond
    \/ scan.dirty /\ p > scan.cursor
    \/ Has(p, photo[p].ver, Open)
    \/ job.item.media = p /\ job.item.ver = photo[p].ver
Overlooked == {p \in TodoTargets : ~Found(p)}

(* A write by a cycle that had read before the scan was marked dirty may   *)
(* undo the mark; what it then overlooks is noted.                         *)
Sweep == swept' = IF job.late THEN swept \cup Overlooked' ELSE swept

(* A cancelled cycle cannot be cut off while it asks the desktop to drop   *)
(* what it has of an order: it comes back, seconds later, and inserts the  *)
(* order for the new bytes.  Whoever cancelled it waits for that (`wait':  *)
(* and then records a wait reason), the engine does not: a loop may start  *)
(* beside it.                                                              *)
Leave(wait) ==
    leaving' = IF job.pc # "reinsert" THEN leaving
               ELSE leaving \cup {[media |-> job.item.media,
                                  ver |-> orders[job.item.order].ver,
                                  hash |-> job.hash, wait |-> wait, last |-> TRUE]}

Overtake ==
    /\ leaving' = {[c EXCEPT !.last = FALSE] : c \in leaving}
    /\ overtaken' = (overtaken \/ leaving # {})

(* A trigger: recorded, and the loop started when it is not running.       *)
Wake(kind, j) ==
    IF paused THEN pending' = pending /\ job' = j /\ UNCHANGED <<leaving, overtaken>>
    ELSE /\ pending' = pending \cup {kind}
         /\ IF j.pc = "off" THEN job' = [j EXCEPT !.pc = "begin"] /\ Overtake
            ELSE job' = j /\ UNCHANGED <<leaving, overtaken>>

Marked == [job EXCEPT !.late = job.pc # "off"]
-----------------------------------------------------------------------------
(* Photos come, are edited, are overwritten without MediaStore noticing,   *)
(* go, for good or into the trash, and come back from there with their     *)
(* version and a new generation; the desktop loses a file.                 *)

Changed(p, gen, ver, bytes) ==
    photo' = [photo EXCEPT ![p] = [gen |-> gen, ver |-> ver, bytes |-> bytes]]

Untouched == UNCHANGED <<store, intent, job>>

(* A burst: every photo of it has the same generation.                     *)
Take(burst) ==
    /\ Happens("take") /\ burst # {} /\ burst \cap Listed = {}
    /\ \A p \in burst : photo[p].ver = 0
    /\ photo' = [p \in Photos |->
                    IF p \in burst THEN [gen |-> 1 + events', ver |-> 1, bytes |-> 1]
                    ELSE photo[p]]
    /\ Untouched /\ UNCHANGED <<scope, remote, ghosts>>

Edit(p) ==
    /\ Happens("edit") /\ p \in Listed
    /\ Changed(p, 1 + events', photo[p].ver + 1, photo[p].bytes + 1)
    /\ Untouched /\ UNCHANGED <<scope, remote, ghosts>>

Overwrite(p) ==
    /\ Happens("overwrite") /\ p \in Listed
    /\ Changed(p, photo[p].gen, photo[p].ver, photo[p].bytes + 1)
    /\ Untouched /\ UNCHANGED <<scope, remote, ghosts>>

Delete(p) ==
    /\ Happens("delete") /\ p \in Listed
    /\ Changed(p, 0, photo[p].ver, photo[p].bytes)
    /\ Untouched /\ UNCHANGED <<scope, remote, ghosts>>

Reappear(p) ==
    /\ Happens("untrash") /\ p \notin Listed /\ photo[p].ver > 0
    /\ Changed(p, 1 + events', photo[p].ver, photo[p].bytes)
    /\ Untouched /\ UNCHANGED <<scope, remote, ghosts>>

Lose(f) ==
    /\ Happens("lose") /\ f \in kept
    /\ kept' = kept \ {f}
    /\ Untouched /\ UNCHANGED <<media, desk, ghosts>>

-----------------------------------------------------------------------------
(* Commands and triggers, each run to its end on the writer thread.        *)

(* An album is chosen: the settings are saved, then the engine is told.    *)
AddScope(p) ==
    /\ Happens("scope") /\ p \notin scope
    /\ scope' = scope \cup {p}
    /\ scan' = Dirty /\ Wake("check", Marked) /\ swept' = {}
    /\ UNCHANGED <<photo, orders, skips, gcur, paused, waiting, dialog, remote, unread,
                   unopened>>

DropScope(p) ==
    /\ Happens("scope") /\ p \in scope
    /\ scope' = scope \ {p}
    /\ Untouched /\ UNCHANGED <<photo, remote, ghosts>>

(* A trigger from outside.  While a cycle runs it only joins `pending',    *)
(* as the user's commands below do; here it comes when nothing runs.       *)
Trigger(kind) ==
    /\ job.pc = "off" /\ ~paused
    /\ Wake(kind, job)
    /\ UNCHANGED <<media, store, paused, waiting, dialog, remote, count, swept, unread,
                   unopened>>

(* The cycle is cancelled wherever it is suspended.                        *)
Pause ==
    /\ Happens("pause") /\ job.pc # "off"
    /\ paused' = TRUE /\ pending' = {} /\ job' = Off /\ Leave(FALSE)
    /\ UNCHANGED <<media, store, waiting, dialog, remote, swept, unread, unopened,
                   overtaken>>

(* The network or the foreground service is lost.                          *)
StopCycle ==
    /\ Happens("stop") /\ job.pc # "off"
    /\ waiting' = (waiting \/ job.pc # "reinsert")
    /\ pending' = {} /\ job' = Off /\ Leave(TRUE)
    /\ UNCHANGED <<media, store, paused, dialog, remote, swept, unread, unopened,
                   overtaken>>

Resume ==
    /\ paused
    /\ paused' = FALSE /\ waiting' = FALSE
    /\ pending' = {"check"} /\ job' = [Off EXCEPT !.pc = "begin"] /\ Overtake
    /\ UNCHANGED <<media, store, dialog, remote, count, swept, unread, unopened>>

MayCancel == paused \/ (waiting /\ job.pc = "off")

RemainingSnapshot ==
    /\ "cancel" \in Events /\ dialog = None /\ MayCancel
    /\ dialog' = {<<p, photo[p].ver>> : p \in TodoTargets}
    /\ Quiet /\ UNCHANGED <<media, store, paused, waiting, pending, job, remote>>

(* Only while paused or waiting, and when the cycle cancelled last has     *)
(* ended.  Photos settled since the dialog stay settled.                   *)
CancelRemaining ==
    LET chosen == {t \in dialog : ~Has(t[1], t[2], Settled)}
        names  == {t[1] : t \in chosen}
    IN  /\ dialog # None /\ MayCancel /\ \A c \in leaving : ~c.last
        /\ skips' = skips \cup names
        /\ orders' = [i \in DOMAIN orders |->
               IF i \in InStates(Open, 0) /\ orders[i].media \in names
               THEN [orders[i] EXCEPT !.state = "skipped"] ELSE orders[i]]
        /\ paused' = FALSE /\ waiting' = FALSE /\ pending' = {} /\ job' = Off
        /\ dialog' = None
        /\ Quiet /\ UNCHANGED <<media, gcur, scan, remote>>

RestoreSkipped ==
    /\ Happens("restore") /\ skips # {}
    /\ skips' = {} /\ scan' = Dirty /\ Wake("check", Marked) /\ swept' = {}
    /\ UNCHANGED <<media, orders, gcur, paused, waiting, dialog, remote, unread, unopened>>

RetryFailed ==
    /\ Happens("retry") /\ InStates({"failed"}, 0) # {}
    /\ orders' = [i \in DOMAIN orders |->
           IF i \in InStates({"failed"}, 0)
           THEN [orders[i] EXCEPT !.state = "pending"] ELSE orders[i]]
    /\ Wake("check", job)
    /\ UNCHANGED <<media, skips, gcur, scan, paused, waiting, dialog, remote, swept, unread,
                   unopened>>

(* An order is closed and the next one not open yet: by the cycle, or by   *)
(* one that is leaving, too.                                               *)
NotReopened == IF job.pc = "reinsert" THEN {<<job.item.media, job.item.ver>>} ELSE {}
Reopening   == NotReopened \cup {<<c.media, c.ver>> : c \in leaving}

(* Android kills the process; what is in the store stays.                  *)
Kill ==
    /\ kills < MaxKills /\ kills' = kills + 1
    /\ job' = Off /\ pending' = {} /\ dialog' = None /\ leaving' = {}
    /\ unopened' = unopened \cup Reopening
    /\ UNCHANGED <<media, store, paused, waiting, remote, events, swept, unread, overtaken>>

-----------------------------------------------------------------------------
(* A cycle up to the first photo.                                          *)

(* prepareCursors, reconcileSourcePresence.                                *)
Begin ==
    LET reconcile == pending \cap {"check", "periodic"} # {}
    IN  /\ job.pc = "begin"
        /\ job' = [job EXCEPT !.pc = "count", !.reconcile = reconcile,
                              !.ask = "periodic" \in pending]
        /\ pending' = {}
        /\ IF gcur = None
           THEN /\ gcur' = <<Max({0} \cup {photo[p].gen : p \in Photos}), N>>
                /\ scan' = Dirty
           ELSE UNCHANGED <<gcur, scan>>
        /\ orders' = [i \in DOMAIN orders |->
               IF /\ reconcile /\ i \in InStates({"confirmed"}, 0)
                  /\ orders[i].media \in scope
               THEN [orders[i] EXCEPT !.gone = orders[i].media \notin Listed]
               ELSE orders[i]]
        /\ Quiet /\ UNCHANGED <<media, skips, paused, waiting, dialog, remote>>

Count ==
    /\ job.pc = "count"
    /\ job' = [job EXCEPT !.pc = "counted", !.zero = CountTodo = {}, !.late = FALSE]
    /\ Quiet /\ UNCHANGED <<media, store, intent, remote>>

(* Nothing left: a dirty scan would find nothing, so the mark is cleared.  *)
Counted ==
    /\ job.pc = "counted"
    /\ scan' = IF job.zero /\ scan.dirty THEN Clean ELSE scan
    /\ job' = [Go("work") EXCEPT !.zero = FALSE]
    /\ UNCHANGED <<media, orders, skips, gcur, intent, remote, count, unread, aside>>
    /\ Sweep

(* discoveryStep: the first photo after G that needs an order, and G moved *)
(* past those before it that need none.                                    *)
Wanted == {p \in Beyond : NeedsNewOrder(p, photo[p].ver)}
First(S) == CHOOSE p \in S : \A q \in S : p = q \/ Before(At(p), At(q))
Passed == {p \in Beyond : \A q \in Wanted : Before(At(p), At(q))}
PastG == IF Passed = {} THEN gcur
         ELSE At(CHOOSE p \in Passed : \A q \in Passed : p = q \/ Before(At(q), At(p)))

(* hasWork; then the probe and the foreground service, or waiting.         *)
Known ==
    \/ InStates({"transferring"}, 0) # {}
    \/ \E i \in InStates({"pending"}, 0) : orders[i].media \in scope
    \/ scan.dirty

(* mutant: the last attempt is never made *)
Retriable_OffByOne(i) ==
    /\ orders[i].media \in scope
    /\ orders[i].state = "failed" => orders[i].tries < MaxFailures - 1

Retriable(i) ==
    /\ orders[i].media \in scope
    /\ orders[i].state = "failed" => orders[i].tries < MaxFailures

Work ==
    LET other == /\ job.reconcile
                 /\ \/ \E i \in InStates({"failed"}, 0) : Retriable(i)
                    \/ job.ask /\ InStates({"confirmed"}, 0) # {}
    IN  /\ job.pc = "work"
        /\ gcur' = IF Known THEN gcur ELSE PastG
        /\ IF Known \/ Wanted # {} \/ other
           THEN job' = Go("pick") /\ waiting' = FALSE
                /\ UNCHANGED <<paused, pending, dialog>>
           ELSE End(FALSE)
        /\ Quiet /\ UNCHANGED <<media, orders, skips, scan, remote>>

(* Conditions, route, probe, foreground service: one of them says wait.    *)
Hold ==
    /\ Happens("stop") /\ job.pc \in {"work", "pick"}
    /\ End(TRUE)
    /\ UNCHANGED <<media, store, remote, ghosts>>

-----------------------------------------------------------------------------
(* pickNext: an interrupted order, the scan, new photos, retries, the      *)
(* photos the desktop has lost.                                            *)

Legacy == InStates({"transferring"}, job.legacy)

Existing(i, j) ==
    IF i \in job.handled THEN End(FALSE)
    ELSE /\ job' = [j EXCEPT !.pc = "lookup", !.handled = @ \cup {i},
                 !.item = [order |-> i, media |-> orders[i].media,
                           ver |-> orders[i].ver, gen |-> 0, origin |-> "order"]]
         /\ UNCHANGED intent

Fresh(p, ver, origin) ==
    job' = [job EXCEPT !.pc = "lookup", !.batch = << >>,
                !.item = [order |-> 0, media |-> p, ver |-> ver,
                          gen |-> photo[p].gen, origin |-> origin]]

PickLegacy ==
    /\ job.pc = "pick" /\ Legacy # {}
    /\ Existing(Min(Legacy), [job EXCEPT !.legacy = Min(Legacy)])
    /\ Quiet /\ UNCHANGED <<media, store, remote>>

(* mutant: the scan comes before what was interrupted *)
ScanRead_First ==
    /\ job.pc = "pick" /\ scan.dirty
    /\ job' = [job EXCEPT !.pc = "scanned", !.late = FALSE, !.batch =
                  [p \in {q \in InScope : q > scan.cursor} |-> photo[p].ver]]
    /\ Quiet /\ UNCHANGED <<media, store, intent, remote>>

(* scanStep reads ...                                                      *)
ScanRead ==
    /\ job.pc = "pick" /\ Legacy = {} /\ scan.dirty
    /\ job' = [job EXCEPT !.pc = "scanned", !.late = FALSE, !.batch =
                  [p \in {q \in InScope : q > scan.cursor} |-> photo[p].ver]]
    /\ Quiet /\ UNCHANGED <<media, store, intent, remote>>

(* ... and then acts on what it has read: clears the mark at the end, or   *)
(* takes the first photo that needs an order and moves S past the others.  *)
Scanned ==
    LET ids    == DOMAIN job.batch
        wanted == {p \in ids : NeedsNewOrder(p, job.batch[p])}
        passed == {p \in ids : \A q \in wanted : p < q}
    IN  /\ job.pc = "scanned"
        /\ scan' = IF ids = {} THEN Clean ELSE AdvanceScan(Max({0} \cup passed))
        /\ IF wanted # {} THEN Fresh(Min(wanted), job.batch[Min(wanted)], "scan")
           ELSE job' = [job EXCEPT !.batch = << >>,
                           !.pc = IF ids = {} THEN "discover" ELSE "pick"]
        /\ UNCHANGED <<media, orders, skips, gcur, intent, remote, count, unread, aside>>
        /\ Sweep

(* mutant: the cursor passes a photo when it is taken up *)
Discover_Eager ==
    /\ \/ job.pc = "discover"
       \/ job.pc = "pick" /\ Legacy = {} /\ ~scan.dirty
    /\ gcur' = IF Wanted # {} THEN At(First(Wanted)) ELSE PastG
    /\ IF Wanted # {} THEN Fresh(First(Wanted), photo[First(Wanted)].ver, "new")
       ELSE job' = Go("retry")
    /\ Quiet /\ UNCHANGED <<media, orders, skips, scan, intent, remote>>

Discover ==
    /\ \/ job.pc = "discover"
       \/ job.pc = "pick" /\ Legacy = {} /\ ~scan.dirty
    /\ gcur' = PastG
    /\ IF Wanted # {} THEN Fresh(First(Wanted), photo[First(Wanted)].ver, "new")
       ELSE job' = Go("retry")
    /\ Quiet /\ UNCHANGED <<media, orders, skips, scan, intent, remote>>

Retries ==
    {i \in InStates(IF job.reconcile THEN {"pending", "failed"} ELSE {"pending"},
                    job.retry) : Retriable(i)}

PickRetry ==
    /\ job.pc = "retry" /\ Retries # {}
    /\ Existing(Min(Retries), [job EXCEPT !.retry = Min(Retries)])
    /\ Quiet /\ UNCHANGED <<media, store, remote>>

(* runRemotePresence: confirmed photos the desktop no longer has get a new *)
(* order; the desktop answers "complete" for the old one.                  *)
Missing ==
    {i \in InStates({"confirmed"}, 0) :
        /\ <<orders[i].media, orders[i].hash>> \notin kept
        /\ orders[i].media \in scope /\ ~orders[i].gone}

Presence ==
    /\ job.pc = "retry" /\ Retries = {} /\ job.reconcile /\ ~job.asked
    /\ Missing # {}
    /\ \E ids \in [1..Cardinality(Missing) -> Missing] :
         /\ \A k, l \in DOMAIN ids : k < l => ids[k] < ids[l]
         /\ orders' = orders \o [k \in DOMAIN ids |->
                NewOrder(orders[ids[k]].media, orders[ids[k]].ver,
                         orders[ids[k]].hash, "pending")]
    /\ job' = [Go("pick") EXCEPT !.asked = TRUE]
    /\ Quiet /\ UNCHANGED <<media, skips, gcur, scan, intent, remote>>

Finish ==
    /\ job.pc = "retry" /\ Retries = {}
    /\ ~job.reconcile \/ job.asked \/ Missing = {}
    /\ End(FALSE)
    /\ Quiet /\ UNCHANGED <<media, store, remote>>

-----------------------------------------------------------------------------
(* One photo.                                                              *)

Item == job.item
Row  == orders[Item.order]

(* Progress.write: with the outcome, and only for new photos.              *)
Advance ==
    /\ gcur' = IF Item.origin = "new" THEN AdvanceG(<<Item.gen, Item.media>>)
               ELSE gcur
    /\ scan' = IF Item.origin = "scan" THEN AdvanceScan(Item.media) ELSE scan
Stay == UNCHANGED <<gcur, scan>>

(* An order's outcome, if it is still open.                                *)
Turn(i, state, tries) ==
    orders' = [orders EXCEPT ![i].state = state, ![i].tries = @ + tries]
Add(row) == orders' = Append(orders, row)

Here == Item.media \in Listed

LookupFresh ==
    /\ job.pc = "lookup" /\ Item.order = 0
    /\ IF Item.media \in InScope
       THEN job' = [Go("import") EXCEPT !.item.ver = photo[Item.media].ver] /\ Stay
       ELSE job' = Next1 /\ Advance
    /\ UNCHANGED <<media, orders, skips, intent, remote, count, unread, aside>>
    /\ Sweep

(* An order is checked against the photo, its version and the scope.       *)
LookupOrder ==
    /\ job.pc = "lookup" /\ Item.order # 0
    /\ IF ~Here \/ photo[Item.media].ver # Row.ver
       THEN Turn(Item.order, "sourceGone", 0) /\ job' = Next1
       ELSE IF Item.media \notin scope
       THEN /\ IF Row.state = "transferring" THEN Turn(Item.order, "pending", 0)
               ELSE UNCHANGED orders
            /\ job' = Next1
       ELSE job' = Go("import") /\ UNCHANGED orders
    /\ unread' = IF Here THEN unread ELSE unread \cup {<<Item.media, Item.ver>>}
    /\ Stay /\ UNCHANGED <<media, skips, intent, remote, count, swept, aside>>

(* The bytes are read.  An order whose bytes have changed under the same   *)
(* version is closed, and the new bytes get an order of their own.         *)
ImportFresh ==
    LET bytes == photo[Item.media].bytes
    IN  /\ job.pc = "import" /\ Item.order = 0 /\ Here
        /\ Add(NewOrder(Item.media, Item.ver, bytes, "transferring"))
        /\ job' = [Go("deliver") EXCEPT !.item.order = Len(orders) + 1, !.hash = bytes]
        /\ Stay /\ Quiet /\ UNCHANGED <<media, skips, intent, remote>>

(* mutant: the new bytes wait for a scan to find them *)
ImportOrder_NoNewOrder ==
    LET bytes == photo[Item.media].bytes
    IN  /\ job.pc = "import" /\ Item.order # 0 /\ Here
        /\ IF Row.hash \notin {0, bytes}
           THEN /\ Turn(Item.order, "sourceGone", 0)
                /\ job' = Next1
           ELSE /\ orders' = [orders EXCEPT ![Item.order].state = "transferring",
                                            ![Item.order].hash = bytes]
                /\ job' = [Go("deliver") EXCEPT !.hash = bytes]
        /\ Stay /\ Quiet /\ UNCHANGED <<media, skips, intent, remote>>

(* mutant: the order goes on with the bytes as they are now *)
ImportOrder_AnyBytes ==
    LET bytes == photo[Item.media].bytes
    IN  /\ job.pc = "import" /\ Item.order # 0 /\ Here
        /\ orders' = [orders EXCEPT ![Item.order].state = "transferring",
                                    ![Item.order].hash = IF @ = 0 THEN bytes ELSE @]
        /\ job' = [Go("deliver") EXCEPT !.hash = bytes]
        /\ Stay /\ Quiet /\ UNCHANGED <<media, skips, intent, remote>>

ImportOrder ==
    LET bytes == photo[Item.media].bytes
    IN  /\ job.pc = "import" /\ Item.order # 0 /\ Here
        /\ IF Row.hash \notin {0, bytes}
           THEN /\ Turn(Item.order, "sourceGone", 0)
                /\ job' = [Go("reinsert") EXCEPT !.hash = bytes]
           ELSE /\ orders' = [orders EXCEPT ![Item.order].state = "transferring",
                                            ![Item.order].hash = bytes]
                /\ job' = [Go("deliver") EXCEPT !.hash = bytes]
        /\ Stay /\ Quiet /\ UNCHANGED <<media, skips, intent, remote>>

Reinsert ==
    /\ job.pc = "reinsert"
    /\ Add(NewOrder(Item.media, Row.ver, job.hash, "transferring"))
    /\ job' = [Go("deliver") EXCEPT !.item.order = Len(orders) + 1]
    /\ Stay /\ Quiet /\ UNCHANGED <<media, skips, intent, remote>>

(* A cancelled cycle comes back from the desktop: it still inserts the     *)
(* order, and goes no further.  Beside a later loop the row may hide one   *)
(* of a later version.                                                     *)
LateInsert(c) ==
    /\ Add(NewOrder(c.media, c.ver, c.hash, "transferring"))
    /\ leaving' = leaving \ {c} /\ waiting' = (waiting \/ c.wait)
    /\ swept' = IF c.last \/ photo[c.media].ver = c.ver THEN swept
                ELSE swept \cup {c.media}
    /\ UNCHANGED <<media, skips, gcur, scan, paused, pending, dialog, job, remote, count,
                   unread, unopened, overtaken>>

(* Its insert throws, as when the phone's storage is full.                 *)
LateInsertFails(c) ==
    /\ "fail" \in Events /\ UNCHANGED count
    /\ leaving' = leaving \ {c} /\ waiting' = TRUE
    /\ unopened' = unopened \cup {<<c.media, c.ver>>}
    /\ UNCHANGED <<media, store, paused, pending, dialog, job, remote, swept, unread,
                   overtaken>>

(* MediaStore lists it and the file is not there: settled for this         *)
(* version.                                                                *)
ImportMissing ==
    /\ job.pc = "import"
    /\ IF Here THEN Happens("unread") ELSE UNCHANGED count
    /\ IF Item.order = 0
       THEN Add(NewOrder(Item.media, Item.ver, 0, "sourceGone")) /\ Advance
       ELSE Turn(Item.order, "sourceGone", 0) /\ Stay
    /\ job' = Next1
    /\ unread' = unread \cup {<<Item.media, Item.ver>>}
    /\ UNCHANGED <<media, skips, intent, remote, aside>>
    /\ Sweep

(* Two attempts to read it failed.                                         *)
ImportFailed ==
    /\ Happens("fail") /\ job.pc = "import"
    /\ IF Item.order = 0
       THEN /\ Add([NewOrder(Item.media, Item.ver, 0, "failed") EXCEPT !.tries = 1])
            /\ Advance
       ELSE Turn(Item.order, "failed", 1) /\ Stay
    /\ job' = Next1
    /\ UNCHANGED <<media, skips, intent, remote, unread, aside>>
    /\ Sweep

(* The desktop pulls the bytes, unless it has finished this order before.  *)
Pull ==
    /\ job.pc = "deliver" /\ \A d \in desk : d[1] # Item.order
    /\ desk' = desk \cup {<<Item.order, job.hash>>}
    /\ kept' = kept \cup {<<Item.media, job.hash>>}
    /\ Quiet /\ UNCHANGED <<media, store, intent, job>>

(* deliverAndCommit: outcome, cursor and audit in one transaction.         *)
Commit(state, tries) ==
    /\ job.pc = "deliver"
    /\ Turn(Item.order, state, tries) /\ Advance
    /\ job' = Next1
    /\ UNCHANGED <<media, skips, intent, remote>>

(* A receipt for other bytes counts as a failure.                          *)
Confirmed ==
    \E d \in desk :
        /\ d[1] = Item.order
        /\ IF d[2] = job.hash THEN Commit("confirmed", 0) ELSE Commit("failed", 1)
        /\ Sweep /\ UNCHANGED <<count, unread, aside>>

(* The file was deleted or rewritten while it was served.                  *)
SourceMissing ==
    /\ job.pc = "deliver" /\ \A d \in desk : d[1] # Item.order
    /\ photo[Item.media].bytes # job.hash \/ ~Here
    /\ Commit("sourceGone", 0)
    /\ unread' = unread \cup {<<Item.media, Item.ver>>}
    /\ Sweep /\ UNCHANGED <<count, aside>>

(* An item failure is tried once more, then recorded.                      *)
ItemFailure ==
    /\ job.pc = "deliver" /\ Happens("fail")
    /\ IF job.again THEN Commit("failed", 1)
       ELSE /\ job' = [job EXCEPT !.again = TRUE]
            /\ UNCHANGED <<media, store, intent, remote>>
    /\ Sweep /\ UNCHANGED <<unread, aside>>

(* Path, peer, pairing or version: the order stays as it is, the cycle     *)
(* waits.                                                                  *)
PathFailure ==
    /\ job.pc = "deliver" /\ Happens("stop")
    /\ End(TRUE)
    /\ UNCHANGED <<media, store, remote, ghosts>>

(* A write throws: the transaction is rolled back, the round is over, and  *)
(* the cycle waits.                                                        *)
WriteFails ==
    /\ Happens("fail")
    /\ job.pc \in {"counted", "scanned", "discover", "retry", "lookup", "import",
                   "reinsert", "deliver"}
    /\ End(TRUE)
    /\ unopened' = unopened \cup NotReopened
    /\ UNCHANGED <<media, store, remote, swept, unread, leaving, overtaken>>

-----------------------------------------------------------------------------
Init ==
    /\ \E taken \in Taken :
           photo = [p \in Photos |-> IF p \in taken THEN [gen |-> 1, ver |-> 1, bytes |-> 1]
                                     ELSE [gen |-> 0, ver |-> 0, bytes |-> 0]]
    /\ scope \in Chosen
    /\ orders = << >> /\ skips = {} /\ gcur = None /\ scan = Clean
    /\ paused = FALSE /\ waiting = FALSE /\ pending = {} /\ job = Off
    /\ dialog = None /\ desk = {} /\ kept = {} /\ events = 0
    /\ kills = 0
    /\ swept = {} /\ unread = {}
    /\ leaving = {} /\ unopened = {} /\ overtaken = FALSE

Surroundings ==
    \/ \E burst \in SUBSET Photos : Take(burst)
    \/ \E p \in Photos : \/ Edit(p) \/ Overwrite(p) \/ Delete(p) \/ Reappear(p)
                         \/ AddScope(p) \/ DropScope(p)
    \/ \E f \in kept : Lose(f)

Commands ==
    \/ \E kind \in {"wake", "periodic"} : Trigger(kind)
    \/ Pause \/ StopCycle \/ Resume \/ RemainingSnapshot \/ CancelRemaining
    \/ RestoreSkipped \/ RetryFailed \/ Kill

Choosing ==
    \/ Begin \/ Count \/ Counted \/ Work
    \/ PickLegacy \/ ScanRead \/ Scanned \/ Discover \/ PickRetry \/ Presence
    \/ Finish

Sending ==
    \/ LookupFresh \/ LookupOrder \/ ImportFresh \/ ImportOrder \/ Reinsert
    \/ ImportMissing \/ Pull \/ Confirmed \/ SourceMissing

Faults == Hold \/ ImportFailed \/ ItemFailure \/ PathFailure \/ WriteFails

Late    == \E c \in leaving : LateInsert(c)
Leaving == Late \/ \E c \in leaving : LateInsertFails(c)

Next == Surroundings \/ Commands \/ Choosing \/ Sending \/ Faults \/ Leaving

Spec == Init /\ [][Next]_vars

(* The cycle goes on while the process lives, a cancelled one's call is    *)
(* bounded; WorkManager's periodic run comes again and again.              *)
FairSpec ==
    /\ Spec
    /\ WF_vars(Choosing) /\ WF_vars(Sending) /\ WF_vars(Late)
    /\ SF_vars(Trigger("periodic"))

-----------------------------------------------------------------------------
(* Properties.                                                             *)

(* Every photo left to do is on a way to being sent: after G, or after S   *)
(* of a dirty scan, or in an open order, or in the cycle's hands.  The     *)
(* quick count, and with it every later round, sees nothing else.          *)
TodoIsComplete == Overlooked \subseteq swept

(* A photo is written off as gone, in the version it has, only if the      *)
(* phone looked for it or its file in vain, or if its order was closed for *)
(* other bytes and a death of the process or a full disk came before the   *)
(* next one: that photo is then not sent in this version.                  *)
NothingWrittenOff ==
    \A p \in Photos :
        Has(p, photo[p].ver, {"sourceGone"}) =>
            <<p, photo[p].ver>> \in unread \cup unopened \cup Reopening

(* One order at a time is in flight, whatever was interrupted before: no   *)
(* second loop runs.                                                       *)
OneInFlight == \A i, k \in DOMAIN orders :
    orders[i].state = "transferring" /\ orders[k].state = "transferring" => i = k

(* It holds until a loop is started beside a cancelled cycle that has      *)
(* still to insert its order.                                              *)
OneUntilOvertaken == ~overtaken => OneInFlight

(* Once confirmed, an order says: these bytes, read for this delivery, are *)
(* what the desktop stored under this number.                              *)
ConfirmedAsRead ==
    [][\A i \in DOMAIN orders :
           /\ orders[i].state # "confirmed" /\ orders'[i].state = "confirmed"
           => <<i, job.hash>> \in desk /\ orders'[i].hash = job.hash]_vars

(* A photo the user wants kept is, in the end, on the desktop, or has      *)
(* failed as often as it may, unless the user stays paused.                *)
Accounted(p) ==
    LET i == Current(p)
    IN  \/ p \notin InScope \/ p \in skips \cup swept
        \/ /\ i > 0 /\ orders[i].ver = photo[p].ver
           /\ \/ orders[i].state = "sourceGone"
              \/ orders[i].state = "failed" /\ orders[i].tries >= MaxFailures
              \/ orders[i].state = "confirmed" /\ <<p, orders[i].hash>> \in kept
EveryPhotoSettles == \A p \in Photos : []<>(paused \/ Accounted(p))

=============================================================================
