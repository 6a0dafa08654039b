----------------------------- MODULE Invite_proofs -----------------------------
(***************************************************************************)
(* What Invite's runs show on two phones and two codes, for any number of  *)
(* phones, codes, requests, scans and restarts.                            *)
(***************************************************************************)
EXTENDS Invite, TLAPS

(* The shape of the state.                                                 *)
States == {"none", "pending", "accepted", "denied", "expired", "failed", "swept"}
Ends   == {None, "cancelled", "expired", "denied", "codeWrong", "accept", "accepted"}

TicketRec ==
    [peer: Phones \cup {None}, token: Tokens \cup {None}, state: States,
     cancel: BOOLEAN, pakeB: Typed \cup {None}, session: BOOLEAN,
     checked: {None} \cup [by: Codes, ok: BOOLEAN]]

TaskRec ==
    [pc: {"none", "wait", "close", "exchange", "clear", "apply", "settle", "dead"},
     pakeA: Codes \cup {None}, heard: Decisions \cup {None},
     withdrew: BOOLEAN, end: Ends]

ChanRec == [st: {"none", "open", "sent", "dropped", "closed"},
            said: Decisions \cup {None}]

PhoneRec == [pc: {"idle", "poll", "confirm", "joined"}, scan: 0..MaxScans,
             req: Reqs \cup {None}, sentA: BOOLEAN]

Shape ==
    /\ tokens \in [Tokens -> {"fresh", "open", "used", "gone"}]
    /\ ticket \in [Reqs -> TicketRec]
    /\ task \in [Reqs -> TaskRec]
    /\ chan \in [Reqs -> ChanRec]
    /\ paired \in [Phones -> Reqs \cup {None}]
    /\ phone \in [Phones -> PhoneRec]
    /\ scans \in 0..MaxScans
    /\ wrote \subseteq Reqs
    /\ told \in [Reqs -> Decisions \cup {None}]

(* A token that stands in the ledger lets nobody in any more.              *)
TokenSpent ==
    \A r \in Reqs : ticket[r].token # None =>
        ticket[r].token \in Tokens /\ tokens[ticket[r].token] \in {"used", "gone"}

(* A number that is not given yet.                                         *)
Unused(r) ==
    ticket[r].state = "none" =>
        ticket[r] = NoTicket /\ told[r] = None /\ r \notin wrote

(* A task works on a request that is pending, and on none else.            *)
Worked(r) == task[r].pc # "none" <=> Pending(r)

(* The channel: what was sent is what the owner was told, once.            *)
Heard(r) ==
    /\ chan[r].st = "sent" => told[r] = chan[r].said /\ told[r] \in Decisions
    /\ chan[r].st \in {"open", "dropped"} => told[r] = None
    /\ chan[r].st = "open" => task[r].pc \in {"wait", "close"}

(* Before the close nothing is decided.                                    *)
Undecided(r) ==
    task[r].pc \in {"wait", "close"} =>
        /\ chan[r].st \in {"open", "sent", "dropped"}
        /\ ticket[r].pakeB = None /\ r \notin wrote
        /\ task[r].pc = "wait" => task[r].heard = None
        /\ task[r].heard # None => chan[r].st = "sent" /\ task[r].heard = chan[r].said

(* How the task ends is settled before the verdict is applied.             *)
Ending(r) ==
    /\ task[r].pc = "clear" => task[r].end \in {"cancelled", "expired"}
    /\ task[r].pc = "apply" =>
         task[r].end \in {"cancelled", "expired", "denied", "codeWrong", "accept"}
    /\ task[r].pc = "settle" =>
         task[r].end \in {"cancelled", "expired", "denied", "codeWrong", "accepted"}

(* After it, what the owner was told is what the exchange uses, or the end.*)
Decided(r) ==
    /\ ticket[r].pakeB # None => told[r] = ticket[r].pakeB
    /\ ticket[r].session \/ task[r].pc \in {"exchange", "clear"} => ticket[r].pakeB # None
    /\ task[r].pc \in {"apply", "settle"} /\ told[r] # None =>
         told[r] = ticket[r].pakeB \/ (told[r] = Reject /\ task[r].end = "denied")
    /\ ticket[r].state \in {"accepted", "denied", "expired", "failed"} /\ told[r] # None =>
         told[r] = ticket[r].pakeB \/ (told[r] = Reject /\ ticket[r].state = "denied")

(* A key confirmation belongs to the request's phone, and passes only for  *)
(* the code the owner typed.                                               *)
Confirmed(r) ==
    ticket[r].checked # None =>
        /\ ticket[r].checked \in [by: Codes, ok: BOOLEAN]
        /\ ticket[r].pakeB # None
        /\ ticket[r].checked.by[1] = Peer(r)
        /\ ticket[r].checked.ok => ticket[r].checked.by = ticket[r].pakeB

Passed(r) == ticket[r].checked # None /\ ticket[r].checked.ok = TRUE

(* What is accepted has passed, and is written.                            *)
Accepted(r) ==
    /\ task[r].pc = "apply" /\ task[r].end = "accept" => Passed(r)
    /\ task[r].pc = "settle" /\ task[r].end = "accepted" => r \in wrote
    /\ ticket[r].state = "accepted" => r \in wrote
    /\ r \in wrote => Passed(r) /\ Peer(r) \in Phones /\ paired[Peer(r)] # None
    /\ Pending(r) => Peer(r) \in Phones

Course(r) ==
    Unused(r) /\ Worked(r) /\ Heard(r) /\ Undecided(r) /\ Ending(r)
    /\ Decided(r) /\ Confirmed(r) /\ Accepted(r)

(* The screen of a phone is that of a request of its own.                  *)
OnItsOwn ==
    \A p \in Phones : phone[p].pc # "idle" =>
        /\ phone[p].req \in Reqs /\ Peer(phone[p].req) = p
        /\ ticket[phone[p].req].state # "none"
        /\ phone[p].scan > 0

(* A phone that has joined showed the code that was typed.                 *)
Joined ==
    \A p \in Phones : phone[p].pc = "joined" =>
        phone[p].req \in wrote /\ told[phone[p].req] = Code(p)

(* Requests are numbered as they come, each for a phone.                   *)
Asked(r) == ticket[r].state # "none"
InOrder ==
    \A r \in Reqs : Asked(r) =>
        Peer(r) \in Phones /\ \A s \in Reqs : s < r => Asked(s)

Queued ==
    /\ rows \subseteq Reqs /\ inbox \in Seq(Reqs)
    /\ \A s \in rows : Asked(s)
    /\ \A i \in DOMAIN inbox : Asked(inbox[i])

(* What is on its way to the queue is in order, and is all that came after *)
(* the first of it.                                                        *)
Arrivals ==
    /\ \A i, j \in DOMAIN inbox : i < j => inbox[i] < inbox[j]
    /\ \A i \in DOMAIN inbox, r \in Reqs :
         Asked(r) /\ inbox[i] < r => r \in ToSet(inbox)

QueueInv == InOrder /\ Queued /\ Arrivals /\ RowIsLastRequest

-----------------------------------------------------------------------------
(* The shape.                                                              *)

(* None is no code, no decision, no phone and no request.                  *)
LEMMA Constants ==
    /\ None \notin Decisions /\ Reject \notin Typed
    /\ None \notin Phones /\ None \notin Reqs /\ None \notin Codes
    /\ MaxScans \in Nat /\ Codes \subseteq Typed /\ Typed \subseteq Decisions
    /\ Reject \in Decisions /\ Wrong \in Typed
  BY InviteAssumption DEF InviteAssumption, Typed, Decisions

(* A record keeps its type when a field gets a value of the field's.       *)
LEMMA TicketEdits ==
  ASSUME NEW k \in TicketRec
  PROVE  /\ \A x \in States : [k EXCEPT !.state = x] \in TicketRec
         /\ \A x \in BOOLEAN : [k EXCEPT !.session = x] \in TicketRec
         /\ \A x \in BOOLEAN : [k EXCEPT !.cancel = x] \in TicketRec
         /\ \A x \in Typed : [k EXCEPT !.pakeB = x, !.session = TRUE] \in TicketRec
         /\ \A x \in [by: Codes, ok: BOOLEAN] :
              [k EXCEPT !.session = FALSE, !.checked = x] \in TicketRec
<1> DEFINE Checks == {None} \cup [by: Codes, ok: BOOLEAN]
<1>1. TicketRec = [peer: Phones \cup {None}, token: Tokens \cup {None}, state: States,
                   cancel: BOOLEAN, pakeB: Typed \cup {None}, session: BOOLEAN,
                   checked: Checks]
  BY DEF TicketRec
<1>2. [by: Codes, ok: BOOLEAN] \subseteq Checks
  OBVIOUS
<1> HIDE DEF Checks
<1> QED
  BY <1>1, <1>2

LEMMA TaskEdits ==
  ASSUME NEW k \in TaskRec
  PROVE  \A pc \in {"wait", "close", "exchange", "clear", "apply", "settle", "dead"} :
           /\ [k EXCEPT !.pc = pc] \in TaskRec
           /\ [k EXCEPT !.pc = pc, !.withdrew = TRUE] \in TaskRec
           /\ \A x \in Decisions \cup {None} : [k EXCEPT !.pc = pc, !.heard = x] \in TaskRec
           /\ \A x \in Ends : [k EXCEPT !.pc = pc, !.end = x] \in TaskRec
  BY DEF TaskRec

LEMMA CodeOnScreen ==
  ASSUME Shape, OnItsOwn, NEW p \in Phones, phone[p].pc # "idle"
  PROVE  Code(p) \in Codes /\ Code(p)[1] = p
<1>1. phone[p].scan \in 1..MaxScans
  BY Constants DEF Shape, PhoneRec, OnItsOwn
<1> QED
  BY <1>1 DEF Code, Codes

(* Rows that leave drop their senders and do nothing else to the channels. *)
Drops(q) ==
    chan' = [r \in Reqs |-> IF r \in q /\ chan[r].st = "open"
                              THEN Channel("dropped") ELSE chan[r]]

LEMMA InitShape == Init => Shape
  BY Constants DEF Init, Shape, NoTicket, NoTask, Channel, TicketRec, TaskRec, ChanRec,
                   PhoneRec, States, Ends, Decisions

LEMMA DropsShape ==
  ASSUME Shape, NEW q, Drops(q), tokens' = tokens, ledger' = ledger, paired' = paired,
         phone' = phone, scans' = scans, wrote' = wrote, told' = told
  PROVE  Shape'
<1>1. Channel("dropped") \in ChanRec
  BY DEF Channel, ChanRec
<1> QED
  BY <1>1 DEF Shape, Drops, ledger

LEMMA TokenShape ==
  ASSUME Shape, NEW t \in Tokens, ShowCode(t) \/ CodeEnds(t)
  PROVE  Shape'
  BY DEF Shape, ShowCode, CodeEnds, TokenFrame, ledger, queue, history

LEMMA SubmitShape ==
  ASSUME Shape, NEW p \in Phones, NEW t \in Tokens, NEW r \in Reqs, Submit(p, t, r)
  PROVE  Shape'
<1>1. scans' \in 0..MaxScans /\ scans' \in 1..MaxScans
  BY Constants DEF Submit, MayScan, Shape
<1>2. <<p, scans'>> \in Codes
  BY <1>1 DEF Codes
<1>3. ticket'[r] \in TicketRec /\ ticket' \in [Reqs -> TicketRec]
  <2>1. [NoTicket EXCEPT !.peer = p, !.token = t, !.state = "pending"] \in TicketRec
    BY DEF NoTicket, TicketRec, States
  <2> QED
    BY <2>1 DEF Shape, Submit, Accept
<1>4. task' \in [Reqs -> TaskRec]
  <2>1. [NoTask EXCEPT !.pc = "wait", !.pakeA = <<p, scans'>>] \in TaskRec
    BY <1>2 DEF NoTask, TaskRec, Ends
  <2> QED
    BY <2>1 DEF Shape, Submit, Accept
<1>5. chan' \in [Reqs -> ChanRec]
  <2>1. Channel("open") \in ChanRec
    BY DEF Channel, ChanRec
  <2> QED
    BY <2>1 DEF Shape, Submit, Accept
<1>6. phone' \in [Phones -> PhoneRec]
  <2>1. [pc |-> "poll", scan |-> scans', req |-> r, sentA |-> FALSE] \in PhoneRec
    BY <1>1 DEF PhoneRec
  <2> QED
    BY <2>1 DEF Shape, Submit, Shows
<1>7. tokens' \in [Tokens -> {"fresh", "open", "used", "gone"}]
  BY DEF Shape, Submit, UseToken
<1> QED
  BY <1>1, <1>3, <1>4, <1>5, <1>6, <1>7 DEF Shape, Submit, history

LEMMA ResubmitShape ==
  ASSUME Shape, NEW p \in Phones, NEW r \in Reqs, Resubmit(p, r)
  PROVE  Shape'
<1>1. scans' \in 0..MaxScans
  BY Constants DEF Resubmit, MayScan, Shape
<1>2. [pc |-> "poll", scan |-> scans', req |-> r, sentA |-> FALSE] \in PhoneRec
  BY <1>1 DEF PhoneRec
<1> QED
  BY <1>1, <1>2 DEF Shape, Resubmit, Shows, ledger, queue, history

LEMMA ConfirmShape ==
  ASSUME Shape, NEW r \in Reqs, NEW d \in Decisions, Confirm(r, d)
  PROVE  Shape'
<1>1. Channel("dropped") \in ChanRec /\ [st |-> "sent", said |-> d] \in ChanRec
  BY DEF Channel, ChanRec
<1>2. chan' \in [Reqs -> ChanRec]
  BY <1>1 DEF Confirm, Shape
<1>3. told' \in [Reqs -> Decisions \cup {None}]
  BY DEF Confirm, Shape
<1> QED
  BY <1>2, <1>3 DEF Shape, Confirm, RowFrame, ledger

LEMMA TaskShape ==
  ASSUME Shape, NEW r \in Reqs, Ending(r), TaskStep(r)
  PROVE  Shape'
<1>1. ticket[r] \in TicketRec /\ task[r] \in TaskRec /\ chan[r] \in ChanRec
  BY DEF Shape
<1>2. CASE Hear(r)
  <2>1. task' \in [Reqs -> TaskRec]
    <3>1. chan[r].said \in Decisions \cup {None}
      BY <1>1 DEF ChanRec
    <3>2. CASE task' = [task EXCEPT ![r].pc = "close", ![r].heard = chan[r].said]
      BY <1>1, <3>1, <3>2, TaskEdits DEF Shape
    <3>3. CASE task' = [task EXCEPT ![r].pc = "close", ![r].withdrew = TRUE]
      BY <1>1, <3>3, TaskEdits DEF Shape
    <3>4. CASE task' = [task EXCEPT ![r].pc = "close"]
      BY <1>1, <3>4, TaskEdits DEF Shape
    <3> QED
      BY <1>2, <3>2, <3>3, <3>4 DEF Hear
  <2> QED
    BY <1>2, <2>1 DEF Hear, Shape, LedgerFrame, PairFrame, TaskFrame
<1>3. CASE Close(r)
  <2>1. Verdict(r) \in Decisions \cup {None}
    BY <1>1 DEF Verdict, TaskRec, ChanRec
  <2>2. NoVerdict(r) \in Ends
    BY DEF NoVerdict, Ends
  <2>3. task' \in [Reqs -> TaskRec]
    <3>1. CASE task' = [task EXCEPT ![r].pc = "exchange"]
      BY <1>1, <3>1, TaskEdits DEF Shape
    <3>2. ASSUME NEW e \in Ends, task' = [task EXCEPT ![r].pc = "apply", ![r].end = e]
          PROVE  task' \in [Reqs -> TaskRec]
      BY <1>1, <3>2, TaskEdits DEF Shape
    <3>3. "denied" \in Ends
      BY DEF Ends
    <3> QED
      BY <1>3, <2>2, <3>1, <3>2, <3>3 DEF Close
  <2>4. ticket' \in [Reqs -> TicketRec]
    <3>1. CASE ticket' = [ticket EXCEPT ![r].pakeB = Verdict(r), ![r].session = TRUE]
               /\ Verdict(r) \in Typed
      BY <1>1, <3>1, TicketEdits DEF Shape
    <3>2. CASE ticket' = ticket
      BY <3>2 DEF Shape
    <3> QED
      BY <1>3, <3>1, <3>2 DEF Close
  <2>5. chan' \in [Reqs -> ChanRec]
    BY <1>3 DEF Close, Shape, Channel, ChanRec
  <2> QED
    BY <1>3, <2>3, <2>4, <2>5 DEF Close, Shape, PairFrame, TaskFrame
<1>4. CASE Exchange(r)
  <2>1. task' \in [Reqs -> TaskRec]
    <3>1. ASSUME NEW pc \in {"apply", "clear"}, NEW e \in Ends,
                 task' = [task EXCEPT ![r].pc = pc, ![r].end = e]
          PROVE  task' \in [Reqs -> TaskRec]
      BY <1>1, <3>1, TaskEdits DEF Shape
    <3>2. CASE task' = [task EXCEPT ![r].pc = "dead"]
      BY <1>1, <3>2, TaskEdits DEF Shape
    <3>3. {"accept", "codeWrong", "cancelled", "expired"} \subseteq Ends
      BY DEF Ends
    <3> QED
      BY <1>4, <3>1, <3>2, <3>3 DEF Exchange
  <2> QED
    BY <1>4, <2>1 DEF Exchange, Shape, LedgerFrame, PairFrame, TaskFrame
<1>5. CASE Clear(r)
  <2>1. task' \in [Reqs -> TaskRec]
    BY <1>1, <1>5, TaskEdits DEF Clear, Shape
  <2>2. ticket' \in [Reqs -> TicketRec]
    BY <1>1, <1>5, TicketEdits DEF Clear, Shape
  <2> QED
    BY <1>5, <2>1, <2>2 DEF Clear, Shape, PairFrame, TaskFrame
<1>6. CASE Apply(r)
  <2>1. task' \in [Reqs -> TaskRec]
    <3>1. ASSUME NEW e \in Ends, task' = [task EXCEPT ![r].pc = "settle", ![r].end = e]
          PROVE  task' \in [Reqs -> TaskRec]
      BY <1>1, <3>1, TaskEdits DEF Shape
    <3>2. CASE task' = [task EXCEPT ![r].pc = "settle"]
      BY <1>1, <3>2, TaskEdits DEF Shape
    <3>3. {"accepted", "denied"} \subseteq Ends
      BY DEF Ends
    <3> QED
      BY <1>6, <3>1, <3>2, <3>3 DEF Apply
  <2>2. paired' \in [Phones -> Reqs \cup {None}] /\ wrote' \subseteq Reqs
    BY <1>6 DEF Apply, Shape, PairFrame
  <2> QED
    BY <1>6, <2>1, <2>2 DEF Apply, Shape, LedgerFrame, TaskFrame
<1>7. CASE Settle(r)
  <2>1. task' \in [Reqs -> TaskRec]
    BY <1>7 DEF Settle, Shape, TaskRec, NoTask, Ends
  <2>2. StateOf(task[r].end) \in States
    BY <1>7 DEF Settle, At, Ending, StateOf, States
  <2>3. ticket' \in [Reqs -> TicketRec]
    BY <1>1, <1>7, <2>2 DEF Settle, Shape, TicketRec
  <2> QED
    BY <1>7, <2>1, <2>3 DEF Settle, Shape, PairFrame, TaskFrame
<1> QED
  BY <1>2, <1>3, <1>4, <1>5, <1>6, <1>7 DEF TaskStep

LEMMA SweepShape ==
  ASSUME Shape, NEW r \in Reqs, Sweep(r)
  PROVE  Shape'
<1>1. ticket' \in [Reqs -> TicketRec]
  BY TicketEdits DEF Sweep, Shape, States
<1> QED
  BY <1>1 DEF Sweep, Shape, queue, history

LEMMA PhoneShape ==
  ASSUME Shape, OnItsOwn, NEW p \in Phones, PhoneStep(p) \/ Leave(p)
  PROVE  Shape'
<1>1. phone[p] \in PhoneRec /\ phone[p].pc # "idle"
  BY DEF Shape, PhoneStep, Poll, ConfirmCheck, Leave
<1>2. phone[p].req \in Reqs /\ Mine(p) \in TicketRec /\ Code(p) \in Codes
  BY <1>1, CodeOnScreen DEF OnItsOwn, Shape, Mine
<1>3. phone' \in [Phones -> PhoneRec]
  BY <1>1 DEF PhoneStep, Poll, ConfirmCheck, Leave, Goto, Shape, PhoneRec
<1>4. ticket' \in [Reqs -> TicketRec]
  <2>1. CASE UNCHANGED ticket
    BY <2>1 DEF Shape
  <2>2. CASE Leave(p) /\ ticket' = [ticket EXCEPT ![phone[p].req].cancel = TRUE]
    BY <1>2, <2>2 DEF Shape, TicketRec, Mine
  <2>3. CASE ticket' = [ticket EXCEPT ![phone[p].req].session = FALSE,
                     ![phone[p].req].checked = [by |-> Code(p), ok |-> Verifies(p)]]
    <3>1. [by |-> Code(p), ok |-> Verifies(p)] \in [by: Codes, ok: BOOLEAN]
      BY <1>2 DEF Verifies
    <3> QED
      BY <1>2, <2>3, <3>1 DEF Shape, TicketRec, Mine
  <2> QED
    BY <2>1, <2>2, <2>3 DEF PhoneStep, Poll, ConfirmCheck, Leave
<1> QED
  BY <1>3, <1>4 DEF PhoneStep, Poll, ConfirmCheck, Leave, PhoneFrame, Shape, queue, history

LEMMA RestartShape ==
  ASSUME Shape, Restart
  PROVE  Shape'
<1>1. NoTicket \in TicketRec /\ NoTask \in TaskRec /\ Channel("none") \in ChanRec
  BY DEF NoTicket, NoTask, Channel, TicketRec, TaskRec, ChanRec, States, Ends
<1>2. ASSUME NEW r \in Reqs PROVE [ticket[r] EXCEPT !.state = "swept"] \in TicketRec
  BY TicketEdits DEF Shape, States
<1> QED
  BY <1>1, <1>2 DEF Restart, Shape, history

-----------------------------------------------------------------------------
(* The course of a request.                                                *)

(* What a step leaves alone keeps its course: a pairing once made stays.   *)
LEMMA CourseKept ==
  ASSUME NEW s \in Reqs, Course(s),
         ticket'[s] = ticket[s], task'[s] = task[s], chan'[s] = chan[s],
         told'[s] = told[s], s \in wrote' <=> s \in wrote,
         \A p \in Phones : paired[p] # None => paired'[p] # None
  PROVE  Course(s)'
<1>1. Unused(s)' /\ Worked(s)' /\ Heard(s)' /\ Undecided(s)' /\ Ending(s)'
  BY DEF Course, Unused, Worked, Pending, Heard, Undecided, Ending
<1>2. Decided(s)' /\ Confirmed(s)'
  BY DEF Course, Decided, Confirmed, Peer
<1>3. Accepted(s)'
  BY DEF Course, Accepted, Passed, Peer, Pending
<1> QED
  BY <1>1, <1>2, <1>3 DEF Course

Courses == \A r \in Reqs : Course(r)

LEMMA InitCourses == Init => Courses
  BY Constants DEF Init, Courses, Course, Unused, Worked, Pending, Heard, Undecided, Ending,
                   Decided, Confirmed, Accepted, Passed, Peer, NoTicket, NoTask, Channel

LEMMA DropsCourses ==
  ASSUME Shape, Courses, NEW q, Drops(q), ledger' = ledger, paired' = paired,
         wrote' = wrote, told' = told
  PROVE  Courses'
<1> SUFFICES ASSUME NEW s \in Reqs PROVE Course(s)'
  BY DEF Courses
<1>0. Course(s) /\ ticket'[s] = ticket[s] /\ task'[s] = task[s] /\ told'[s] = told[s]
  BY DEF Courses, ledger
<1>1. CASE chan'[s] = chan[s]
  BY <1>0, <1>1, CourseKept
<1>2. CASE chan[s].st = "open" /\ chan'[s] = [st |-> "dropped", said |-> None]
  <2>1. Unused(s)' /\ Worked(s)' /\ Heard(s)' /\ Ending(s)'
    BY <1>0, <1>2 DEF Course, Unused, Worked, Pending, Heard, Ending
  <2>2. Undecided(s)'
    BY <1>0, <1>2 DEF Course, Undecided
  <2>3. Decided(s)' /\ Confirmed(s)' /\ Accepted(s)'
    BY <1>0 DEF Course, Decided, Confirmed, Accepted, Passed, Peer, Pending
  <2> QED
    BY <2>1, <2>2, <2>3 DEF Course
<1> QED
  BY <1>1, <1>2 DEF Drops, Channel

LEMMA SubmitCourses ==
  ASSUME Shape, Courses, NEW p \in Phones, NEW t \in Tokens, NEW r \in Reqs, Submit(p, t, r)
  PROVE  Courses'
<1> SUFFICES ASSUME NEW s \in Reqs PROVE Course(s)'
  BY DEF Courses
<1>0. Course(s) /\ told'[s] = told[s] /\ wrote' = wrote /\ paired' = paired
  BY DEF Courses, Submit, history
<1>1. CASE s # r
  <2>1. ticket'[s] = ticket[s] /\ task'[s] = task[s] /\ chan'[s] = chan[s]
    BY <1>1 DEF Submit, Accept, Shape
  <2> QED
    BY <1>0, <2>1, CourseKept
<1>2. CASE s = r
  <2>1. told[r] = None /\ r \notin wrote
    BY <1>0, <1>2 DEF Course, Unused, Submit
  <2>2. /\ ticket'[r] = [NoTicket EXCEPT !.peer = p, !.token = t, !.state = "pending"]
        /\ task'[r] = [NoTask EXCEPT !.pc = "wait", !.pakeA = <<p, scans'>>]
        /\ chan'[r] = Channel("open")
    BY DEF Submit, Accept, Shape
  <2>3. Unused(r)' /\ Worked(r)' /\ Heard(r)' /\ Undecided(r)' /\ Ending(r)'
    BY <1>0, <1>2, <2>1, <2>2
    DEF Unused, Worked, Pending, Heard, Undecided, Ending, NoTicket, NoTask, Channel
  <2>4. Decided(r)' /\ Confirmed(r)' /\ Accepted(r)'
    BY <1>0, <1>2, <2>1, <2>2
    DEF Decided, Confirmed, Accepted, Pending, Peer, NoTicket, NoTask
  <2> QED
    BY <1>2, <2>3, <2>4 DEF Course
<1> QED
  BY <1>1, <1>2

LEMMA ConfirmCourses ==
  ASSUME Shape, Courses, NEW r \in Reqs, NEW d \in Decisions, Confirm(r, d)
  PROVE  Courses'
<1> DEFINE sent == r \notin over /\ chan[r].st = "open"
<1>1. CASE ~sent
  <2>1. Drops(rows \ rows') /\ told' = told
    BY <1>1 DEF Confirm, Drops
  <2> QED
    BY <2>1, DropsCourses DEF Confirm, RowFrame
<1>2. CASE sent
  <2> SUFFICES ASSUME NEW s \in Reqs PROVE Course(s)'
    BY DEF Courses
  <2>0. Course(s) /\ ticket'[s] = ticket[s] /\ task'[s] = task[s] /\ wrote' = wrote /\ paired' = paired
    BY DEF Courses, Confirm, RowFrame, ledger
  <2>1. CASE s = r
    <3>1. chan'[r] = [st |-> "sent", said |-> d] /\ told'[r] = d
      BY <1>2 DEF Confirm, Shape
    <3>2. task[r].pc \in {"wait", "close"} /\ ticket[r].state = "pending" /\ told[r] = None
      BY <1>2, <2>0, <2>1 DEF Course, Heard, Worked, Pending
    <3>3. Unused(r)' /\ Worked(r)' /\ Heard(r)' /\ Ending(r)'
      BY <2>0, <2>1, <3>1, <3>2 DEF Course, Unused, Worked, Pending, Heard, Ending
    <3>4. Undecided(r)'
      BY <1>2, <2>0, <2>1, <3>1, <3>2 DEF Course, Undecided
    <3>5. Decided(r)' /\ Confirmed(r)' /\ Accepted(r)'
      BY <1>2, <2>0, <2>1, <3>1, <3>2
      DEF Course, Undecided, Decided, Confirmed, Accepted, Passed, Peer, Pending
    <3> QED
      BY <2>1, <3>3, <3>4, <3>5 DEF Course
  <2>2. CASE s # r /\ chan'[s] = chan[s]
    <3>1. told'[s] = told[s]
      BY <1>2, <2>2 DEF Confirm, Shape
    <3> QED
      BY <2>0, <2>2, <3>1, CourseKept
  <2>3. CASE s # r /\ chan[s].st = "open" /\ chan'[s] = [st |-> "dropped", said |-> None]
    <3>1. told'[s] = told[s]
      BY <1>2, <2>3 DEF Confirm, Shape
    <3>2. Unused(s)' /\ Worked(s)' /\ Heard(s)' /\ Ending(s)'
      BY <2>0, <2>3, <3>1 DEF Course, Unused, Worked, Pending, Heard, Ending
    <3>3. Undecided(s)'
      BY <2>0, <2>3 DEF Course, Undecided
    <3>4. Decided(s)' /\ Confirmed(s)' /\ Accepted(s)'
      BY <2>0, <3>1 DEF Course, Decided, Confirmed, Accepted, Passed, Peer, Pending
    <3> QED
      BY <3>2, <3>3, <3>4 DEF Course
  <2> QED
    BY <1>2, <2>1, <2>2, <2>3 DEF Confirm, Channel
<1> QED
  BY <1>1, <1>2

(* The steps of a task.                                                    *)
LEMMA TaskElsewhere ==
  ASSUME Shape, NEW r \in Reqs, TaskStep(r)
  PROVE  /\ told' = told
         /\ \A p \in Phones : paired[p] # None => paired'[p] # None
         /\ \A s \in Reqs : s # r =>
              /\ ticket'[s] = ticket[s] /\ task'[s] = task[s] /\ chan'[s] = chan[s]
              /\ s \in wrote' <=> s \in wrote
<1>1. CASE Hear(r)
  BY <1>1 DEF Hear, Shape, LedgerFrame, PairFrame, TaskFrame
<1>2. CASE Close(r)
  BY <1>2 DEF Close, Shape, PairFrame, TaskFrame
<1>3. CASE Exchange(r)
  BY <1>3 DEF Exchange, Shape, LedgerFrame, PairFrame, TaskFrame
<1>4. CASE Clear(r)
  BY <1>4 DEF Clear, Shape, PairFrame, TaskFrame
<1>5. CASE Apply(r)
  BY <1>5, Constants DEF Apply, Shape, LedgerFrame, PairFrame, TaskFrame
<1>6. CASE Settle(r)
  BY <1>6 DEF Settle, Shape, PairFrame, TaskFrame
<1> QED
  BY <1>1, <1>2, <1>3, <1>4, <1>5, <1>6 DEF TaskStep

LEMMA HearCourse ==
  ASSUME Shape, NEW r \in Reqs, Course(r), Hear(r)
  PROVE  Course(r)'
<1>0. task[r] \in TaskRec /\ chan[r] \in ChanRec
  BY DEF Shape
<1>1. /\ ticket' = ticket /\ chan' = chan /\ told' = told /\ wrote' = wrote /\ paired' = paired
  BY DEF Hear, LedgerFrame, PairFrame, TaskFrame
<1>2. /\ task[r].pc = "wait" /\ task'[r].pc = "close"
      /\ task'[r].heard = task[r].heard \/ (chan[r].st = "sent" /\ task'[r].heard = chan[r].said)
  BY <1>0 DEF Hear, At, Shape, TaskRec
<1>3. Unused(r)' /\ Worked(r)' /\ Heard(r)' /\ Ending(r)'
  BY <1>1, <1>2 DEF Course, Unused, Worked, Pending, Heard, Ending
<1>4. Undecided(r)'
  BY <1>1, <1>2 DEF Course, Undecided
<1>5. Decided(r)' /\ Confirmed(r)' /\ Accepted(r)'
  BY <1>1, <1>2 DEF Course, Decided, Confirmed, Accepted, Passed, Peer, Pending
<1> QED
  BY <1>3, <1>4, <1>5 DEF Course

LEMMA CloseCourse ==
  ASSUME Shape, NEW r \in Reqs, Course(r), Close(r)
  PROVE  Course(r)'
<1>0. ticket[r] \in TicketRec /\ task[r] \in TaskRec /\ chan[r] \in ChanRec
  BY DEF Shape
<1>1. /\ told' = told /\ wrote' = wrote /\ paired' = paired
      /\ chan'[r].st = "closed" /\ task[r].pc = "close"
  BY DEF Close, At, PairFrame, TaskFrame, Shape, Channel
<1>2. ticket[r].pakeB = None /\ r \notin wrote /\ Pending(r)
  BY <1>1 DEF Course, Undecided, Worked
(* What was sent counts, whatever the select saw.                          *)
<1>3. Verdict(r) = told[r]
  BY <1>0, <1>1 DEF Course, Undecided, Heard, Verdict
<1>4. CASE Verdict(r) \in Typed
  <2>1. /\ task'[r].pc = "exchange"
        /\ ticket'[r] = [ticket[r] EXCEPT !.pakeB = told[r], !.session = TRUE]
    <3>1. /\ task' = [task EXCEPT ![r].pc = "exchange"]
          /\ ticket' = [ticket EXCEPT ![r].pakeB = Verdict(r), ![r].session = TRUE]
      BY <1>4 DEF Close
    <3>2. task'[r] = [task[r] EXCEPT !.pc = "exchange"]
      BY <3>1 DEF Shape
    <3> QED
      BY <1>0, <1>3, <3>1, <3>2 DEF Shape, TaskRec
  <2>2. /\ ticket'[r].pakeB = told[r] /\ ticket'[r].state = "pending"
        /\ ticket'[r].checked = ticket[r].checked /\ ticket'[r].peer = ticket[r].peer
        /\ told[r] # None
    <3>1. ticket'[r].pakeB = told[r] /\ ticket'[r].state = ticket[r].state
          /\ ticket'[r].checked = ticket[r].checked /\ ticket'[r].peer = ticket[r].peer
      BY <1>0, <2>1 DEF TicketRec
    <3>2. told[r] # None
      BY <1>3, <1>4, Constants
    <3> QED
      BY <1>2, <3>1, <3>2 DEF Pending
  <2>3. Unused(r)' /\ Worked(r)' /\ Heard(r)' /\ Undecided(r)' /\ Ending(r)'
    BY <1>1, <2>1, <2>2 DEF Unused, Worked, Pending, Heard, Undecided, Ending
  <2>4. Decided(r)' /\ Confirmed(r)' /\ Accepted(r)'
    BY <1>1, <1>2, <2>1, <2>2
    DEF Course, Decided, Confirmed, Accepted, Passed, Peer, Pending
  <2> QED
    BY <2>3, <2>4 DEF Course
<1>5. CASE Verdict(r) \notin Typed
  <2>1. /\ task'[r].pc = "apply" /\ ticket' = ticket
        /\ task'[r].end = IF told[r] = Reject THEN "denied" ELSE NoVerdict(r)
    BY <1>0, <1>3, <1>5 DEF Close, Shape, TaskRec
  <2>2. told[r] \in {None, Reject}
    BY <1>3, <1>5, Constants DEF Shape, Decisions
  <2>3. Unused(r)' /\ Worked(r)' /\ Heard(r)' /\ Undecided(r)' /\ Ending(r)'
    BY <1>1, <1>2, <2>1 DEF Unused, Worked, Pending, Heard, Undecided, Ending, NoVerdict
  <2>4. Decided(r)'
    BY <1>1, <1>2, <2>1, <2>2 DEF Course, Decided, Pending
  <2>5. Confirmed(r)' /\ Accepted(r)'
    BY <1>1, <1>2, <2>1 DEF Course, Confirmed, Accepted, Passed, Peer, Pending, NoVerdict
  <2> QED
    BY <2>3, <2>4, <2>5 DEF Course
<1> QED
  BY <1>4, <1>5

LEMMA ExchangeCourse ==
  ASSUME Shape, NEW r \in Reqs, Course(r), Exchange(r)
  PROVE  Course(r)'
<1>0. task[r] \in TaskRec
  BY DEF Shape
<1>1. /\ ticket' = ticket /\ chan' = chan /\ told' = told /\ wrote' = wrote /\ paired' = paired
  BY DEF Exchange, LedgerFrame, PairFrame, TaskFrame
<1>2. /\ task[r].pc = "exchange"
      /\ \/ task'[r].pc = "apply" /\ task'[r].end = "accept" /\ Passed(r)
         \/ task'[r].pc = "apply" /\ task'[r].end = "codeWrong"
         \/ task'[r].pc = "clear" /\ task'[r].end \in {"cancelled", "expired"}
         \/ task'[r].pc = "dead"
  BY <1>0 DEF Exchange, At, Shape, TaskRec, Checked, Passed
<1>3. Unused(r)' /\ Worked(r)' /\ Heard(r)' /\ Undecided(r)' /\ Ending(r)'
  BY <1>1, <1>2 DEF Course, Unused, Worked, Pending, Heard, Undecided, Ending
<1>4. Decided(r)'
  BY <1>1, <1>2 DEF Course, Decided
<1>5. Confirmed(r)' /\ Accepted(r)'
  BY <1>1, <1>2 DEF Course, Confirmed, Accepted, Passed, Peer, Pending
<1> QED
  BY <1>3, <1>4, <1>5 DEF Course

LEMMA ClearCourse ==
  ASSUME Shape, NEW r \in Reqs, Course(r), Clear(r)
  PROVE  Course(r)'
<1>0. task[r] \in TaskRec /\ ticket[r] \in TicketRec
  BY DEF Shape
<1>1. /\ chan' = chan /\ told' = told /\ wrote' = wrote /\ paired' = paired
  BY DEF Clear, PairFrame, TaskFrame
<1>2. /\ task[r].pc = "clear" /\ task'[r].pc = "apply" /\ task'[r].end = task[r].end
      /\ ticket'[r].state = ticket[r].state /\ ticket'[r].peer = ticket[r].peer
      /\ ticket'[r].pakeB = ticket[r].pakeB /\ ticket'[r].checked = ticket[r].checked
      /\ ticket'[r].session = FALSE
  BY <1>0 DEF Clear, At, Shape, TaskRec, TicketRec
<1>3. Unused(r)' /\ Worked(r)' /\ Heard(r)' /\ Undecided(r)' /\ Ending(r)'
  BY <1>1, <1>2 DEF Course, Unused, Worked, Pending, Heard, Undecided, Ending
<1>4. Decided(r)'
  BY <1>1, <1>2 DEF Course, Decided
<1>5. Confirmed(r)' /\ Accepted(r)'
  BY <1>1, <1>2 DEF Course, Confirmed, Accepted, Ending, Passed, Peer, Pending
<1> QED
  BY <1>3, <1>4, <1>5 DEF Course

LEMMA ApplyCourse ==
  ASSUME Shape, NEW r \in Reqs, Course(r), Apply(r)
  PROVE  Course(r)'
<1>0. task[r] \in TaskRec
  BY DEF Shape
<1>1. /\ ticket' = ticket /\ chan' = chan /\ told' = told
  BY DEF Apply, LedgerFrame, TaskFrame
<1>2. /\ task[r].pc = "apply" /\ task'[r].pc = "settle"
      /\ \/ /\ task[r].end = "accept" /\ task'[r].end = "accepted" /\ r \in wrote'
            /\ paired' = [paired EXCEPT ![Peer(r)] = r]
         \/ /\ task[r].end = "accept" /\ task'[r].end = "denied"
            /\ wrote' = wrote /\ paired' = paired
         \/ /\ task[r].end # "accept" /\ task'[r].end = task[r].end
            /\ wrote' = wrote /\ paired' = paired
  BY <1>0 DEF Apply, At, Shape, TaskRec, PairFrame
<1>3. Unused(r)' /\ Worked(r)' /\ Heard(r)' /\ Undecided(r)' /\ Ending(r)'
  BY <1>1, <1>2 DEF Course, Unused, Worked, Pending, Heard, Undecided, Ending
<1>4. Decided(r)'
  BY <1>1, <1>2 DEF Course, Decided
<1>5. Confirmed(r)'
  BY <1>1 DEF Course, Confirmed, Peer
<1>6. Accepted(r)'
  <2>1. Pending(r) /\ Peer(r) \in Phones
    BY <1>2 DEF Course, Worked, Accepted
  <2>2. r \in wrote' => Passed(r) /\ paired'[Peer(r)] # None
    <3>1. CASE paired' = [paired EXCEPT ![Peer(r)] = r] /\ task[r].end = "accept"
      <4>1. paired'[Peer(r)] = r /\ r # None
        BY <2>1, <3>1, Constants DEF Shape
      <4> QED
        BY <1>2, <3>1, <4>1 DEF Course, Accepted
    <3>2. CASE wrote' = wrote /\ paired' = paired
      BY <3>2 DEF Course, Accepted
    <3> QED
      BY <1>2, <3>1, <3>2
  <2> QED
    BY <1>1, <1>2, <2>1, <2>2 DEF Course, Ending, Accepted, Passed, Peer, Pending
<1> QED
  BY <1>3, <1>4, <1>5, <1>6 DEF Course

LEMMA SettleCourse ==
  ASSUME Shape, NEW r \in Reqs, Course(r), Settle(r)
  PROVE  Course(r)'
<1>0. task[r] \in TaskRec /\ ticket[r] \in TicketRec
  BY DEF Shape
<1>1. /\ chan' = chan /\ told' = told /\ wrote' = wrote /\ paired' = paired
  BY DEF Settle, PairFrame, TaskFrame
<1>2. /\ task[r].pc = "settle" /\ task'[r].pc = "none"
      /\ ticket'[r].state = StateOf(task[r].end) /\ ticket'[r].peer = ticket[r].peer
      /\ ticket'[r].pakeB = ticket[r].pakeB /\ ticket'[r].checked = ticket[r].checked
      /\ ticket'[r].session = ticket[r].session
  BY <1>0 DEF Settle, At, Shape, NoTask, TicketRec
<1>3. /\ ticket'[r].state \in {"accepted", "denied", "expired", "failed"}
      /\ ticket'[r].state = "accepted" => task[r].end = "accepted"
      /\ task[r].end = "denied" => ticket'[r].state = "denied"
  BY <1>2 DEF Course, Ending, StateOf
<1>4. Unused(r)' /\ Worked(r)' /\ Heard(r)' /\ Undecided(r)' /\ Ending(r)'
  BY <1>1, <1>2, <1>3 DEF Course, Unused, Worked, Pending, Heard, Undecided, Ending
<1>5. Decided(r)'
  BY <1>1, <1>2, <1>3 DEF Course, Decided
<1>6. Confirmed(r)' /\ Accepted(r)'
  BY <1>1, <1>2, <1>3 DEF Course, Confirmed, Accepted, Passed, Peer, Pending
<1> QED
  BY <1>4, <1>5, <1>6 DEF Course

LEMMA TaskCourses ==
  ASSUME Shape, Courses, NEW r \in Reqs, TaskStep(r)
  PROVE  Courses'
<1> SUFFICES ASSUME NEW s \in Reqs PROVE Course(s)'
  BY DEF Courses
<1>1. Course(s)
  BY DEF Courses
<1>2. CASE s # r
  BY <1>1, <1>2, TaskElsewhere, CourseKept
<1>3. CASE s = r
  BY <1>1, <1>3, HearCourse, CloseCourse, ExchangeCourse, ClearCourse, ApplyCourse,
     SettleCourse DEF TaskStep
<1> QED
  BY <1>2, <1>3

LEMMA SweepCourses ==
  ASSUME Shape, Courses, NEW r \in Reqs, Sweep(r)
  PROVE  Courses'
<1> SUFFICES ASSUME NEW s \in Reqs PROVE Course(s)'
  BY DEF Courses
<1>0. /\ Course(s) /\ ticket[r] \in TicketRec
      /\ task' = task /\ chan' = chan /\ told' = told /\ wrote' = wrote /\ paired' = paired
  BY DEF Courses, Shape, Sweep, queue, history
<1>1. CASE s # r
  <2>1. ticket'[s] = ticket[s]
    BY <1>1 DEF Sweep, Shape
  <2> QED
    BY <1>0, <2>1, CourseKept
<1>2. CASE s = r
  <2>1. /\ ticket'[r].state = "swept" /\ ticket'[r].peer = ticket[r].peer
        /\ ticket'[r].pakeB = ticket[r].pakeB /\ ticket'[r].checked = ticket[r].checked
        /\ ticket'[r].session = ticket[r].session /\ ~Pending(r)
    BY <1>0 DEF Sweep, Shape, TicketRec
  <2>2. Unused(r)' /\ Worked(r)' /\ Heard(r)' /\ Undecided(r)' /\ Ending(r)'
    BY <1>0, <1>2, <2>1 DEF Course, Unused, Worked, Pending, Heard, Undecided, Ending
  <2>3. Decided(r)' /\ Confirmed(r)' /\ Accepted(r)'
    BY <1>0, <1>2, <2>1
    DEF Course, Decided, Confirmed, Accepted, Passed, Peer, Pending
  <2> QED
    BY <1>2, <2>2, <2>3 DEF Course
<1> QED
  BY <1>1, <1>2

LEMMA PhoneCourses ==
  ASSUME Shape, Courses, OnItsOwn, NEW p \in Phones, PhoneStep(p) \/ Leave(p)
  PROVE  Courses'
<1> DEFINE r == phone[p].req
<1> SUFFICES ASSUME NEW s \in Reqs PROVE Course(s)'
  BY DEF Courses
<1>0. /\ Course(s)
      /\ task' = task /\ chan' = chan /\ told' = told /\ wrote' = wrote /\ paired' = paired
  BY DEF Courses, PhoneStep, Poll, ConfirmCheck, Leave, PhoneFrame, queue, history
<1>1. /\ phone[p].pc # "idle" /\ r \in Reqs /\ Peer(r) = p
      /\ ticket[r] \in TicketRec /\ Code(p) \in Codes /\ Code(p)[1] = p
  BY CodeOnScreen DEF PhoneStep, Poll, ConfirmCheck, Leave, OnItsOwn, Shape
<1>2. CASE ticket'[s] = ticket[s]
  BY <1>0, <1>2, CourseKept
<1>3. CASE ticket' = [ticket EXCEPT ![r].cancel = TRUE]
  <2>1. CASE s = r
    <3>1. /\ ticket'[s].state = ticket[s].state /\ ticket'[s].peer = ticket[s].peer
          /\ ticket'[s].pakeB = ticket[s].pakeB /\ ticket'[s].checked = ticket[s].checked
          /\ ticket'[s].session = ticket[s].session
      BY <1>1, <1>3, <2>1 DEF Shape, TicketRec
    <3>2. ticket[s].state # "none"
      BY <1>1, <2>1 DEF OnItsOwn
    <3>3. Unused(s)' /\ Worked(s)' /\ Heard(s)' /\ Undecided(s)' /\ Ending(s)'
      BY <1>0, <3>1, <3>2 DEF Course, Unused, Worked, Pending, Heard, Undecided, Ending
    <3>4. Decided(s)' /\ Confirmed(s)' /\ Accepted(s)'
      BY <1>0, <3>1 DEF Course, Decided, Confirmed, Accepted, Passed, Peer, Pending
    <3> QED
      BY <3>3, <3>4 DEF Course
  <2>2. CASE s # r
    BY <1>2, <1>3, <2>2 DEF Shape
  <2> QED
    BY <2>1, <2>2
<1>4. CASE /\ Mine(p).checked = None /\ Mine(p).session
           /\ ticket' = [ticket EXCEPT ![r].session = FALSE,
                            ![r].checked = [by |-> Code(p), ok |-> Verifies(p)]]
  <2>1. CASE s = r
    <3>1. /\ ticket'[s].state = ticket[s].state /\ ticket'[s].peer = ticket[s].peer
          /\ ticket'[s].pakeB = ticket[s].pakeB /\ ticket'[s].session = FALSE
          /\ ticket'[s].checked = [by |-> Code(p), ok |-> Verifies(p)]
      BY <1>1, <1>4, <2>1 DEF Shape, TicketRec
    <3>2. ticket[s].state # "none"
      BY <1>1, <2>1 DEF OnItsOwn
    <3>3. ticket[s].checked = None /\ ticket[s].pakeB # None
      BY <1>0, <1>4, <2>1 DEF Mine, Course, Decided
    <3>4. Unused(s)' /\ Worked(s)' /\ Heard(s)' /\ Undecided(s)' /\ Ending(s)'
      BY <1>0, <3>1, <3>2 DEF Course, Unused, Worked, Pending, Heard, Undecided, Ending
    <3>5. Decided(s)'
      BY <1>0, <3>1 DEF Course, Decided
    <3>6. Confirmed(s)'
      <4>1. Verifies(p) \in BOOLEAN /\ (Verifies(p) => Code(p) = ticket[s].pakeB)
        BY <2>1 DEF Verifies, Mine
      <4> QED
        BY <1>1, <2>1, <3>1, <3>3, <4>1 DEF Confirmed, Peer
    <3>7. Accepted(s)'
      BY <1>0, <3>1, <3>3 DEF Course, Accepted, Passed, Peer, Pending
    <3> QED
      BY <3>4, <3>5, <3>6, <3>7 DEF Course
  <2>2. CASE s # r
    BY <1>2, <1>4, <2>2 DEF Shape
  <2> QED
    BY <2>1, <2>2
<1> QED
  BY <1>2, <1>3, <1>4 DEF PhoneStep, Poll, ConfirmCheck, Leave

LEMMA RestartCourses ==
  ASSUME Shape, Courses, Restart
  PROVE  Courses'
<1> SUFFICES ASSUME NEW s \in Reqs PROVE Course(s)'
  BY DEF Courses
<1>0. /\ Course(s) /\ ticket[s] \in TicketRec
      /\ task'[s] = NoTask /\ chan'[s] = Channel("none")
      /\ told' = told /\ wrote' = wrote /\ paired' = paired
  BY DEF Courses, Shape, Restart, history
<1>1. CASE ticket[s].state = "none"
  <2>1. ticket'[s] = NoTicket /\ told[s] = None /\ s \notin wrote
    BY <1>0, <1>1 DEF Restart, Course, Unused
  <2> QED
    BY <1>0, <2>1
    DEF Course, Unused, Worked, Pending, Heard, Undecided, Ending, Decided, Confirmed,
        Accepted, Passed, Peer, NoTicket, NoTask, Channel
<1>2. CASE ticket[s].state # "none"
  <2>1. /\ ticket'[s].state = "swept" /\ ticket'[s].peer = ticket[s].peer
        /\ ticket'[s].pakeB = ticket[s].pakeB /\ ticket'[s].checked = ticket[s].checked
        /\ ticket'[s].session = ticket[s].session
    BY <1>0, <1>2 DEF Restart, TicketRec
  <2>2. Unused(s)' /\ Worked(s)' /\ Heard(s)' /\ Undecided(s)' /\ Ending(s)'
    BY <1>0, <2>1 DEF Unused, Worked, Pending, Heard, Undecided, Ending, NoTask, Channel
  <2>3. Decided(s)' /\ Confirmed(s)' /\ Accepted(s)'
    BY <1>0, <2>1
    DEF Course, Decided, Confirmed, Accepted, Passed, Peer, Pending, NoTask
  <2> QED
    BY <2>2, <2>3 DEF Course
<1> QED
  BY <1>1, <1>2

(* The owner types a code on a screen, or mistypes, or rejects.            *)
LEMMA OwnerDecides ==
  ASSUME Shape, OnItsOwn, NEW r \in Reqs, ConfirmCode(r) \/ ConfirmReject(r)
  PROVE  \E d \in Decisions : Confirm(r, d)
<1>1. OnScreen \subseteq Codes
  BY CodeOnScreen DEF OnScreen
<1> QED
  BY <1>1, Constants DEF ConfirmCode, ConfirmReject

(* What takes rows out of the queue changes the channels alone.            *)
LEMMA RowsDrop ==
  ASSUME Enqueue \/ Look \/ ConfirmMisses
  PROVE  /\ Drops(rows \ rows')
         /\ ledger' = ledger /\ paired' = paired /\ wrote' = wrote /\ told' = told
         /\ tokens' = tokens /\ phone' = phone /\ scans' = scans
  BY DEF Enqueue, Look, ConfirmMisses, Retain, Drops, RowFrame, history

LEMMA StepShape ==
  ASSUME Shape, Courses, OnItsOwn, [Next]_vars
  PROVE  Shape'
<1>1. CASE UNCHANGED vars
  BY <1>1 DEF vars, Shape, ledger, queue, history
<1>2. ASSUME NEW t \in Tokens, ShowCode(t) \/ CodeEnds(t) PROVE Shape'
  BY <1>2, TokenShape
<1>3. CASE Enqueue \/ Look \/ ConfirmMisses
  BY <1>3, RowsDrop, DropsShape
<1>4. ASSUME NEW r \in Reqs, TimePasses(r) PROVE Shape'
  BY <1>4 DEF TimePasses, Shape, ledger, queue, history
<1>5. ASSUME NEW r \in Reqs, ConfirmCode(r) \/ ConfirmReject(r) PROVE Shape'
  BY <1>5, OwnerDecides, ConfirmShape
<1>6. ASSUME NEW r \in Reqs, TaskStep(r) PROVE Shape'
  BY <1>6, TaskShape DEF Courses, Course
<1> QED
  BY <1>1, <1>2, <1>3, <1>4, <1>5, <1>6, SubmitShape, ResubmitShape, SweepShape,
     PhoneShape, RestartShape DEF Next

LEMMA StepCourses ==
  ASSUME Shape, Courses, OnItsOwn, [Next]_vars
  PROVE  Courses'
<1>0. ASSUME ticket' = ticket, task' = task, chan' = chan, told' = told, wrote' = wrote,
             paired' = paired
      PROVE  Courses'
  BY <1>0, CourseKept DEF Courses
<1>1. CASE UNCHANGED vars
  BY <1>0, <1>1 DEF vars, ledger, queue, history
<1>2. ASSUME NEW t \in Tokens, ShowCode(t) \/ CodeEnds(t) PROVE Courses'
  BY <1>0, <1>2 DEF ShowCode, CodeEnds, TokenFrame, ledger, queue, history
<1>3. CASE Enqueue \/ Look \/ ConfirmMisses
  BY <1>3, RowsDrop, DropsCourses
<1>4. ASSUME NEW r \in Reqs, TimePasses(r) PROVE Courses'
  BY <1>0, <1>4 DEF TimePasses, ledger, queue, history
<1>5. ASSUME NEW r \in Reqs, ConfirmCode(r) \/ ConfirmReject(r) PROVE Courses'
  BY <1>5, OwnerDecides, ConfirmCourses
<1>6. ASSUME NEW p \in Phones, NEW r \in Reqs, Resubmit(p, r) PROVE Courses'
  BY <1>0, <1>6 DEF Resubmit, ledger, queue, history
<1> QED
  BY <1>1, <1>2, <1>3, <1>4, <1>5, <1>6, SubmitCourses, TaskCourses, SweepCourses,
     PhoneCourses, RestartCourses DEF Next

-----------------------------------------------------------------------------
(* Tickets, tokens and screens.                                            *)

(* A ticket that is given stays with its phone and its token.              *)
KeepsTicket(s) ==
    /\ ticket'[s].peer = ticket[s].peer /\ ticket'[s].token = ticket[s].token
    /\ ticket[s].state # "none" <=> ticket'[s].state # "none"

LEMMA TaskTickets ==
  ASSUME Shape, Courses, NEW r \in Reqs, TaskStep(r), NEW s \in Reqs
  PROVE  KeepsTicket(s)
<1>0. ticket[r] \in TicketRec /\ ticket \in [Reqs -> TicketRec]
  BY DEF Shape
<1>1. CASE UNCHANGED ticket
  BY <1>1 DEF KeepsTicket
<1>2. CASE ticket' = [ticket EXCEPT ![r].pakeB = Verdict(r), ![r].session = TRUE]
  BY <1>0, <1>2 DEF KeepsTicket, TicketRec
<1>3. CASE Clear(r)
  BY <1>0, <1>3 DEF Clear, KeepsTicket, TicketRec
<1>4. CASE Settle(r)
  <2>1. StateOf(task[r].end) # "none" /\ ticket[r].state # "none"
    BY <1>4 DEF Settle, At, Courses, Course, Ending, StateOf, Worked, Pending
  <2> QED
    BY <1>0, <1>4, <2>1 DEF Settle, KeepsTicket, TicketRec
<1> QED
  BY <1>1, <1>2, <1>3, <1>4 DEF TaskStep, Hear, Close, Exchange, Apply, LedgerFrame

LEMMA PhoneTickets ==
  ASSUME Shape, OnItsOwn, NEW p \in Phones, PhoneStep(p) \/ Leave(p), NEW s \in Reqs
  PROVE  KeepsTicket(s)
<1> DEFINE r == phone[p].req
<1>0. r \in Reqs /\ ticket[r] \in TicketRec /\ ticket \in [Reqs -> TicketRec]
  BY DEF PhoneStep, Poll, ConfirmCheck, Leave, OnItsOwn, Shape
<1>1. CASE UNCHANGED ticket
  BY <1>1 DEF KeepsTicket
<1>2. CASE ticket' = [ticket EXCEPT ![r].cancel = TRUE]
  BY <1>0, <1>2 DEF KeepsTicket, TicketRec
<1>3. CASE ticket' = [ticket EXCEPT ![r].session = FALSE,
                         ![r].checked = [by |-> Code(p), ok |-> Verifies(p)]]
  BY <1>0, <1>3 DEF KeepsTicket, TicketRec
<1> QED
  BY <1>1, <1>2, <1>3 DEF PhoneStep, Poll, ConfirmCheck, Leave

LEMMA TicketsKept ==
  ASSUME Shape, Courses, OnItsOwn, [Next]_vars, NEW s \in Reqs
  PROVE  KeepsTicket(s) \/ \E p \in Phones, t \in Tokens : Submit(p, t, s)
<1>1. CASE UNCHANGED ticket
  BY <1>1 DEF KeepsTicket
<1>2. ASSUME NEW p \in Phones, NEW t \in Tokens, NEW r \in Reqs, Submit(p, t, r), r # s
      PROVE  KeepsTicket(s)
  BY <1>2 DEF Submit, Accept, Shape, KeepsTicket
<1>3. ASSUME NEW r \in Reqs, Sweep(r) PROVE KeepsTicket(s)
  <2>1. ticket \in [Reqs -> TicketRec] /\ ticket[r] \in TicketRec
    BY DEF Shape
  <2> QED
    BY <1>3, <2>1 DEF Sweep, Listed, KeepsTicket, TicketRec
<1>4. CASE Restart
  <2>1. CASE ticket[s].state = "none"
    BY <1>4, <2>1 DEF Restart, KeepsTicket, Courses, Course, Unused
  <2>2. CASE ticket[s].state # "none"
    <3>1. ticket'[s] = [ticket[s] EXCEPT !.state = "swept"] /\ ticket[s] \in TicketRec
      BY <1>4, <2>2 DEF Restart, Shape
    <3> QED
      BY <2>2, <3>1 DEF KeepsTicket, TicketRec
  <2> QED
    BY <2>1, <2>2
<1>5. ASSUME NEW t \in Tokens, ShowCode(t) \/ CodeEnds(t) PROVE UNCHANGED ticket
  BY <1>5 DEF ShowCode, CodeEnds, TokenFrame, ledger
<1>6. CASE Enqueue \/ Look \/ ConfirmMisses
  BY <1>1, <1>6, RowsDrop DEF ledger
<1>7. ASSUME NEW r \in Reqs,
             TimePasses(r) \/ ConfirmCode(r) \/ ConfirmReject(r)
             \/ \E p \in Phones : Resubmit(p, r)
      PROVE  UNCHANGED ticket
  BY <1>7 DEF TimePasses, ConfirmCode, ConfirmReject, Confirm, RowFrame, Resubmit, ledger
<1>8. CASE UNCHANGED vars
  BY <1>1, <1>8 DEF vars, ledger
<1> QED
  BY <1>1, <1>2, <1>3, <1>4, <1>5, <1>6, <1>7, <1>8, TaskTickets, PhoneTickets DEF Next

(* A token that is used or gone stays so.                                  *)
LEMMA TokensStay ==
  ASSUME Shape, [Next]_vars, NEW t \in Tokens, tokens[t] \in {"used", "gone"}
  PROVE  tokens'[t] \in {"used", "gone"}
<1>1. CASE UNCHANGED tokens
  BY <1>1
<1>2. ASSUME NEW u \in Tokens, ShowCode(u) \/ CodeEnds(u) PROVE tokens'[t] \in {"used", "gone"}
  BY <1>2 DEF ShowCode, CodeEnds, Shape
<1>3. ASSUME NEW p \in Phones, NEW u \in Tokens, NEW r \in Reqs, Submit(p, u, r)
      PROVE  tokens'[t] \in {"used", "gone"}
  BY <1>3 DEF Submit, UseToken, Shape
<1>4. CASE Restart
  BY <1>4 DEF Restart
<1>5. CASE Enqueue \/ Look \/ ConfirmMisses
  BY <1>1, <1>5, RowsDrop
<1>6. ASSUME NEW r \in Reqs,
             TimePasses(r) \/ Sweep(r) \/ ConfirmCode(r) \/ ConfirmReject(r)
             \/ \E p \in Phones : Resubmit(p, r)
      PROVE  UNCHANGED tokens
  BY <1>6 DEF TimePasses, Sweep, ConfirmCode, ConfirmReject, Confirm, RowFrame, Resubmit
<1>7. ASSUME NEW r \in Reqs, TaskStep(r) PROVE UNCHANGED tokens
  BY <1>7 DEF TaskStep, Hear, Close, Exchange, Clear, Apply, Settle, TaskFrame
<1>8. ASSUME NEW p \in Phones, PhoneStep(p) \/ Leave(p) PROVE UNCHANGED tokens
  BY <1>8 DEF PhoneStep, Poll, ConfirmCheck, Leave, PhoneFrame
<1>9. CASE UNCHANGED vars
  BY <1>1, <1>9 DEF vars
<1> QED
  BY <1>1, <1>2, <1>3, <1>4, <1>5, <1>6, <1>7, <1>8, <1>9 DEF Next

LEMMA StepTokens ==
  ASSUME Shape, Courses, OnItsOwn, TokenSpent, OneInviteOnePhone, [Next]_vars
  PROVE  TokenSpent' /\ OneInviteOnePhone'
<1>1. CASE \A s \in Reqs : KeepsTicket(s)
  <2>1. ASSUME NEW s \in Reqs PROVE ticket'[s].token = ticket[s].token
    BY <1>1 DEF KeepsTicket
  <2>2. TokenSpent'
    BY <2>1, TokensStay DEF TokenSpent
  <2> QED
    BY <2>1, <2>2 DEF OneInviteOnePhone
<1>2. ASSUME NEW p \in Phones, NEW t \in Tokens, NEW r \in Reqs, Submit(p, t, r)
      PROVE  TokenSpent' /\ OneInviteOnePhone'
  <2>1. tokens[t] = "open" /\ tokens'[t] = "used" /\ ticket'[r].token = t
    BY <1>2 DEF Submit, UseToken, Accept, NoTicket, Shape
  <2>2. \A s \in Reqs : s # r => ticket'[s] = ticket[s]
    BY <1>2 DEF Submit, Accept, Shape
  <2>3. t # None => \A s \in Reqs : ticket[s].token # t
    BY <2>1 DEF TokenSpent
  <2>4. TokenSpent'
    BY <2>1, <2>2, TokensStay DEF TokenSpent
  <2> QED
    BY <2>1, <2>2, <2>3, <2>4 DEF OneInviteOnePhone
<1> QED
  BY <1>1, <1>2, TicketsKept

(* The screen of a phone changes by its own scans, polls and leave alone.  *)
LEMMA PhonesMove ==
  ASSUME Shape, [Next]_vars, NEW p \in Phones
  PROVE  \/ phone'[p] = phone[p]
         \/ phone[p].pc # "joined" /\ \E r \in Reqs :
              /\ Resubmit(p, r) \/ \E t \in Tokens : Submit(p, t, r)
              /\ phone'[p] = [pc |-> "poll", scan |-> scans', req |-> r, sentA |-> FALSE]
         \/ PhoneStep(p) \/ Leave(p)
<1>1. CASE UNCHANGED phone
  BY <1>1
<1>2. ASSUME NEW q \in Phones, NEW t \in Tokens, NEW r \in Reqs, Submit(q, t, r), q # p
      PROVE  phone'[p] = phone[p]
  BY <1>2 DEF Submit, Shows, Shape
<1>3. ASSUME NEW q \in Phones, NEW r \in Reqs, Resubmit(q, r), q # p
      PROVE  phone'[p] = phone[p]
  BY <1>3 DEF Resubmit, Shows, Shape
<1>4. ASSUME NEW q \in Phones, PhoneStep(q) \/ Leave(q), q # p
      PROVE  phone'[p] = phone[p]
  BY <1>4 DEF PhoneStep, Poll, ConfirmCheck, Leave, Goto, Shape
<1>5. ASSUME NEW r \in Reqs, NEW t \in Tokens, Submit(p, t, r)
      PROVE  \/ phone'[p] = phone[p]
             \/ /\ phone[p].pc # "joined"
                /\ phone'[p] = [pc |-> "poll", scan |-> scans', req |-> r, sentA |-> FALSE]
  BY <1>5 DEF Submit, MayScan, Shows, Shape
<1>6. ASSUME NEW r \in Reqs, Resubmit(p, r)
      PROVE  /\ phone[p].pc # "joined"
             /\ phone'[p] = [pc |-> "poll", scan |-> scans', req |-> r, sentA |-> FALSE]
  BY <1>6 DEF Resubmit, MayScan, Shows, Shape
<1>7. ASSUME NEW t \in Tokens, ShowCode(t) \/ CodeEnds(t) PROVE UNCHANGED phone
  BY <1>7 DEF ShowCode, CodeEnds, TokenFrame
<1>8. CASE Enqueue \/ Look \/ ConfirmMisses \/ Restart
  BY <1>1, <1>8, RowsDrop DEF Restart
<1>9. ASSUME NEW r \in Reqs,
             TimePasses(r) \/ TaskStep(r) \/ Sweep(r) \/ ConfirmCode(r) \/ ConfirmReject(r)
      PROVE  UNCHANGED phone
  BY <1>9 DEF TimePasses, Sweep, ConfirmCode, ConfirmReject, Confirm, RowFrame,
              TaskStep, Hear, Close, Exchange, Clear, Apply, Settle, TaskFrame
<1>10. CASE UNCHANGED vars
  BY <1>1, <1>10 DEF vars
<1> QED
  BY <1>1, <1>2, <1>3, <1>4, <1>5, <1>6, <1>7, <1>8, <1>9, <1>10 DEF Next

(* The steps of the own screen keep its request, and join only by Proves.  *)
LEMMA ScreenMoves ==
  ASSUME Shape, OnItsOwn, NEW p \in Phones, PhoneStep(p) \/ Leave(p)
  PROVE  /\ phone[p].pc \notin {"idle", "joined"}
         /\ phone'[p].req = phone[p].req /\ phone'[p].scan = phone[p].scan
         /\ phone'[p].pc = "joined" => Poll(p) /\ Mine(p).state = "accepted" /\ Proves(p)
<1>1. phone[p] \in PhoneRec /\ phone \in [Phones -> PhoneRec]
  BY DEF Shape
<1>2. CASE Poll(p)
  BY <1>1, <1>2 DEF Poll, Goto, PhoneRec
<1>3. CASE ConfirmCheck(p) \/ Leave(p)
  BY <1>1, <1>3 DEF ConfirmCheck, Leave, Goto, PhoneRec
<1> QED
  BY <1>2, <1>3 DEF PhoneStep

LEMMA StepOwn ==
  ASSUME Shape, Courses, OnItsOwn, [Next]_vars
  PROVE  OnItsOwn'
<1> SUFFICES ASSUME NEW p \in Phones, phone'[p].pc # "idle"
             PROVE  /\ phone'[p].req \in Reqs /\ ticket'[phone'[p].req].peer = p
                    /\ ticket'[phone'[p].req].state # "none"
                    /\ phone'[p].scan > 0
  BY DEF OnItsOwn, Peer
<1>1. CASE phone[p].pc # "idle" /\ phone'[p].req = phone[p].req /\ phone'[p].scan = phone[p].scan
  <2>1. phone[p].req \in Reqs /\ Peer(phone[p].req) = p
        /\ ticket[phone[p].req].state # "none" /\ phone[p].scan > 0
    BY <1>1 DEF OnItsOwn
  <2>2. KeepsTicket(phone[p].req)
    BY <2>1, TicketsKept DEF Submit
  <2> QED
    BY <1>1, <2>1, <2>2 DEF KeepsTicket, Peer
<1>2. ASSUME NEW r \in Reqs,
             phone'[p] = [pc |-> "poll", scan |-> scans', req |-> r, sentA |-> FALSE]
      PROVE  phone'[p].req = r /\ phone'[p].scan = scans'
  BY <1>2
<1>3. ASSUME NEW r \in Reqs, NEW t \in Tokens, Submit(p, t, r),
             phone'[p] = [pc |-> "poll", scan |-> scans', req |-> r, sentA |-> FALSE]
      PROVE  ticket'[r].peer = p /\ ticket'[r].state # "none" /\ scans' > 0
  BY <1>3, Constants DEF Submit, MayScan, Accept, NoTicket, Shape, Peer
<1>4. ASSUME NEW r \in Reqs, Resubmit(p, r)
      PROVE  ticket'[r].peer = p /\ ticket'[r].state # "none" /\ scans' > 0
  BY <1>4, Constants DEF Resubmit, MayScan, Known, Listed, Shape, Peer, ledger
<1> QED
  BY <1>1, <1>2, <1>3, <1>4, PhonesMove, ScreenMoves

(* What the owner was told stays, and so does what was written.            *)
LEMMA ToldStays ==
  ASSUME Shape, Courses, OnItsOwn, [Next]_vars, NEW s \in Reqs, told[s] # None
  PROVE  told'[s] = told[s] /\ wrote \subseteq wrote'
<1>1. CASE told' = told /\ wrote' = wrote
  BY <1>1
<1>2. ASSUME NEW r \in Reqs, NEW d \in Decisions, Confirm(r, d)
      PROVE  told'[s] = told[s] /\ wrote' = wrote
  <2>1. chan[s].st # "open"
    BY DEF Courses, Course, Heard
  <2> QED
    BY <1>2, <2>1 DEF Confirm, RowFrame, Shape
<1>3. ASSUME NEW r \in Reqs, TaskStep(r)
      PROVE  told' = told /\ wrote \subseteq wrote'
  BY <1>3 DEF TaskStep, Hear, Close, Exchange, Clear, Apply, Settle, TaskFrame, PairFrame
<1>4. ASSUME NEW t \in Tokens, ShowCode(t) \/ CodeEnds(t) PROVE told' = told /\ wrote' = wrote
  BY <1>4 DEF ShowCode, CodeEnds, TokenFrame, history
<1>5. CASE Enqueue \/ Look \/ ConfirmMisses \/ Restart
  BY <1>1, <1>5, RowsDrop DEF Restart, history
<1>6. ASSUME NEW r \in Reqs,
             \/ TimePasses(r) \/ Sweep(r)
             \/ \E p \in Phones : Resubmit(p, r) \/ \E t \in Tokens : Submit(p, t, r)
      PROVE  told' = told /\ wrote' = wrote
  BY <1>6 DEF TimePasses, Sweep, Resubmit, Submit, history
<1>7. ASSUME NEW p \in Phones, PhoneStep(p) \/ Leave(p) PROVE told' = told /\ wrote' = wrote
  BY <1>7 DEF PhoneStep, Poll, ConfirmCheck, Leave, PhoneFrame, history
<1>8. CASE UNCHANGED vars
  BY <1>1, <1>8 DEF vars, history
<1> QED
  BY <1>1, <1>2, <1>3, <1>4, <1>5, <1>6, <1>7, <1>8, OwnerDecides DEF Next

LEMMA StepJoined ==
  ASSUME Shape, Courses, OnItsOwn, Joined, [Next]_vars
  PROVE  Joined'
<1> SUFFICES ASSUME NEW p \in Phones, phone'[p].pc = "joined"
             PROVE  phone'[p].req \in wrote' /\ told'[phone'[p].req] = Code(p)'
  BY DEF Joined
<1> DEFINE r == phone[p].req
<1>1. /\ r \in Reqs /\ r \in wrote /\ told[r] = Code(p) /\ Code(p) \in Codes
      /\ phone'[p].req = r /\ phone'[p].scan = phone[p].scan
  <2>1. CASE phone'[p] = phone[p]
    BY <2>1, CodeOnScreen DEF Joined, OnItsOwn
  <2>2. CASE PhoneStep(p) \/ Leave(p)
    <3>1. /\ phone[p].pc # "idle" /\ phone'[p].req = r /\ phone'[p].scan = phone[p].scan
          /\ Mine(p).state = "accepted" /\ Proves(p)
      BY <2>2, ScreenMoves
    <3>2. r \in Reqs /\ Code(p) \in Codes
      BY <3>1, CodeOnScreen DEF OnItsOwn
    <3>3. Course(r) /\ ticket[r].state = "accepted" /\ ticket[r].checked # None
          /\ ticket[r].checked.by = Code(p) /\ ticket[r].checked.ok
      BY <3>1, <3>2 DEF Courses, Mine, Proves, CheckedMine
    <3>4. r \in wrote /\ told[r] = Code(p)
      BY <3>3 DEF Course, Accepted, Confirmed, Decided
    <3> QED
      BY <3>1, <3>2, <3>4
  <2>3. ASSUME NEW q \in Reqs,
               phone'[p] = [pc |-> "poll", scan |-> scans', req |-> q, sentA |-> FALSE]
        PROVE  FALSE
    BY <2>3
  <2> QED
    BY <2>1, <2>2, <2>3, PhonesMove
<1>2. told[r] # None
  BY <1>1, Constants
<1>3. told'[r] = told[r] /\ r \in wrote'
  BY <1>1, <1>2, ToldStays
<1> QED
  BY <1>1, <1>3 DEF Code

-----------------------------------------------------------------------------
(* The owner's queue.                                                      *)

(* Rows are only taken out, but for the step that moves one in from the    *)
(* channel, the one that fills the channel, and a restart.                 *)
LEMMA QueueMoves ==
  ASSUME [Next]_vars
  PROVE  \/ inbox' = inbox /\ rows' \subseteq rows
         \/ Enqueue \/ Restart
         \/ \E p \in Phones, t \in Tokens, r \in Reqs : Submit(p, t, r)
<1> DEFINE Leaves == inbox' = inbox /\ rows' \subseteq rows
<1>1. CASE Look \/ ConfirmMisses
  BY <1>1 DEF Look, ConfirmMisses, Retain, RowFrame
<1>2. ASSUME NEW r \in Reqs, ConfirmCode(r) \/ ConfirmReject(r) PROVE Leaves
  BY <1>2 DEF ConfirmCode, ConfirmReject, Confirm, RowFrame
<1>3. ASSUME NEW r \in Reqs, TimePasses(r) \/ TaskStep(r) \/ Sweep(r) PROVE Leaves
  BY <1>3 DEF TimePasses, Sweep, queue, TaskStep, Hear, Close, Exchange, Clear, Apply,
              Settle, TaskFrame
<1>4. ASSUME NEW t \in Tokens, ShowCode(t) \/ CodeEnds(t) PROVE Leaves
  BY <1>4 DEF ShowCode, CodeEnds, TokenFrame, queue
<1>5. ASSUME NEW p \in Phones,
             PhoneStep(p) \/ Leave(p) \/ \E r \in Reqs : Resubmit(p, r)
      PROVE  Leaves
  BY <1>5 DEF PhoneStep, Poll, ConfirmCheck, Leave, PhoneFrame, Resubmit, queue
<1>6. CASE UNCHANGED vars
  BY <1>6 DEF vars, queue
<1> QED
  BY <1>1, <1>2, <1>3, <1>4, <1>5, <1>6 DEF Next

LEMMA SubmitQueue ==
  ASSUME Shape, QueueInv, Courses,
         NEW p \in Phones, NEW t \in Tokens, NEW r \in Reqs, Submit(p, t, r)
  PROVE  QueueInv'
<1>1. /\ ticket'[r].peer = p /\ ticket'[r].state = "pending"
      /\ ticket[r] = NoTicket
      /\ \A s \in Reqs : s # r => ticket'[s] = ticket[s]
  BY DEF Submit, Accept, Shape, NoTicket, Courses, Course, Unused
<1>2. rows' = rows /\ inbox' = Append(inbox, r)
  BY DEF Submit, Accept
<1>3. \A s \in Reqs : s < r => Asked(s)
  BY DEF Submit, Asked, Reqs
<1>4. ~Asked(r) /\ \A s \in Reqs : Asked(s) => s < r
  <2>1. ~Asked(r)
    BY <1>1 DEF Asked, NoTicket
  <2>2. \A s \in Reqs : s \in Nat
    BY InviteAssumption DEF InviteAssumption, Reqs
  <2> QED
    BY <2>1, <2>2 DEF QueueInv, InOrder
<1>5. \A s \in Reqs : Asked(s)' <=> Asked(s) \/ s = r
  BY <1>1 DEF Asked
<1>6. InOrder'
  BY <1>1, <1>3, <1>4, <1>5 DEF QueueInv, InOrder, Peer
<1>7. inbox \in Seq(Reqs) /\ rows \subseteq Reqs
  BY DEF QueueInv, Queued
<1>8. /\ inbox' \in Seq(Reqs) /\ Len(inbox') = Len(inbox) + 1
      /\ DOMAIN inbox' = 1..Len(inbox) + 1 /\ DOMAIN inbox = 1..Len(inbox)
      /\ inbox'[Len(inbox) + 1] = r
      /\ \A i \in 1..Len(inbox) : inbox'[i] = inbox[i] /\ inbox[i] \in Reqs
      /\ Len(inbox) \in Nat
  BY <1>2, <1>7
<1>9. ToSet(inbox)' = ToSet(inbox) \cup {r}
  BY <1>8 DEF ToSet
<1>10. Queued'
  BY <1>2, <1>5, <1>7, <1>8 DEF QueueInv, Queued
<1>11. Arrivals'
  <2>1. \A i \in 1..Len(inbox) : Asked(inbox[i]) /\ inbox[i] < r
    BY <1>4, <1>8 DEF QueueInv, Queued
  <2>2. ASSUME NEW i \in DOMAIN inbox', NEW j \in DOMAIN inbox', i < j
        PROVE  inbox'[i] < inbox'[j]
    BY <1>8, <2>1, <2>2 DEF QueueInv, Arrivals
  <2>3. ASSUME NEW i \in DOMAIN inbox', NEW s \in Reqs, Asked(s)', inbox'[i] < s, s # r
        PROVE  s \in ToSet(inbox)
    <3>1. Asked(s) /\ s < r /\ ~(r < s)
      BY <1>4, <1>5, <2>3 DEF Reqs
    <3>2. i \in 1..Len(inbox)
      BY <1>8, <2>3, <3>1 DEF Reqs
    <3> QED
      BY <1>8, <2>3, <3>1, <3>2 DEF QueueInv, Arrivals
  <2> QED
    BY <1>9, <2>2, <2>3 DEF Arrivals
<1>12. RowIsLastRequest'
  <2> SUFFICES ASSUME NEW s \in rows, NEW q \in Reqs, Peer(q)' = Peer(s)',
                      q \notin ToSet(inbox)'
               PROVE  q <= s
    BY <1>2 DEF RowIsLastRequest
  <2>1. q # r /\ s # r /\ s \in Reqs /\ q \notin ToSet(inbox)
    BY <1>4, <1>7, <1>9 DEF QueueInv, Queued
  <2>2. Peer(q) = Peer(s)
    BY <1>1, <2>1 DEF Peer
  <2> QED
    BY <2>1, <2>2 DEF QueueInv, RowIsLastRequest
<1> QED
  BY <1>6, <1>10, <1>11, <1>12 DEF QueueInv

(* The first in the channel comes after every row of its phone, which goes *)
(* for it; what came later is still in the channel.                        *)
LEMMA EnqueueQueue ==
  ASSUME QueueInv, Courses, Enqueue
  PROVE  QueueInv'
<1> DEFINE new == Head(inbox)
<1>0. \A s \in Reqs : s \in Nat
  BY InviteAssumption DEF InviteAssumption, Reqs
<1>1. inbox \in Seq(Reqs) /\ inbox # <<>> /\ inbox' = Tail(inbox) /\ ticket' = ticket
  BY DEF QueueInv, Queued, Enqueue, ledger
<1>2. /\ new \in Reqs /\ new = inbox[1] /\ 1 \in DOMAIN inbox
      /\ inbox' \in Seq(Reqs)
      /\ DOMAIN inbox = 1..Len(inbox) /\ DOMAIN inbox' = 1..Len(inbox) - 1
      /\ \A i \in DOMAIN inbox' : inbox'[i] = inbox[i + 1] /\ i + 1 \in DOMAIN inbox
      /\ Len(inbox) \in Nat
  BY <1>1
<1>3. /\ rows' \subseteq rows \cup {new}
      /\ \A s \in rows' : s # new => s \in rows /\ Peer(s) # Peer(new)
  BY DEF Enqueue, Retain
<1>4. ASSUME NEW s \in ToSet(inbox), s # new PROVE s \in ToSet(inbox)'
  <2>1. PICK j \in DOMAIN inbox : inbox[j] = s
    BY DEF ToSet
  <2>2. j # 1 /\ j - 1 \in DOMAIN inbox' /\ inbox'[j - 1] = s
    BY <1>2, <1>4, <2>1
  <2> QED
    BY <2>2 DEF ToSet
<1>5. InOrder'
  BY <1>1 DEF QueueInv, InOrder, Asked, Peer
<1>6. Queued'
  BY <1>1, <1>2, <1>3 DEF QueueInv, Queued, Asked
<1>7. Arrivals'
  <2>1. ASSUME NEW i \in DOMAIN inbox', NEW j \in DOMAIN inbox', i < j
        PROVE  inbox'[i] < inbox'[j]
    BY <1>2, <2>1 DEF QueueInv, Arrivals
  <2>2. ASSUME NEW i \in DOMAIN inbox', NEW s \in Reqs, Asked(s), inbox'[i] < s
        PROVE  s \in ToSet(inbox)'
    <3>1. i + 1 \in DOMAIN inbox /\ inbox[i + 1] < s /\ inbox[1] < inbox[i + 1]
      BY <1>2, <2>2 DEF QueueInv, Arrivals
    <3>2. s \in ToSet(inbox)
      BY <2>2, <3>1 DEF QueueInv, Arrivals
    <3>3. s # new
      BY <1>0, <1>1, <1>2, <3>1
    <3> QED
      BY <1>4, <3>2, <3>3
  <2> QED
    BY <1>1, <2>1, <2>2 DEF Arrivals, Asked
<1>8. RowIsLastRequest'
  <2> SUFFICES ASSUME NEW s \in rows', NEW q \in Reqs, Peer(q) = Peer(s),
                      q \notin ToSet(inbox)'
               PROVE  q <= s
    BY <1>1 DEF RowIsLastRequest, Peer
  <2>1. CASE s = new
    <3>1. Asked(q)
      <4>1. Asked(new) /\ Peer(new) \in Phones
        BY <1>2 DEF QueueInv, Queued, InOrder
      <4>2. ~Asked(q) => Peer(q) = None
        BY DEF Asked, Courses, Course, Unused, NoTicket, Peer
      <4> QED
        BY <2>1, <4>1, <4>2, Constants
    <3>2. ~(new < q)
      BY <1>2, <1>4, <3>1 DEF QueueInv, Arrivals, Reqs
    <3> QED
      BY <1>2, <2>1, <3>2 DEF Reqs
  <2>2. CASE s # new
    <3>1. s \in rows /\ q # new
      BY <1>3, <2>2
    <3> QED
      BY <1>4, <3>1 DEF QueueInv, RowIsLastRequest
  <2> QED
    BY <2>1, <2>2
<1> QED
  BY <1>5, <1>6, <1>7, <1>8 DEF QueueInv

LEMMA StepQueue ==
  ASSUME Shape, Courses, OnItsOwn, QueueInv, [Next]_vars
  PROVE  QueueInv'
<1>1. CASE /\ \A s \in Reqs : KeepsTicket(s)
           /\ \/ rows' \subseteq rows /\ inbox' = inbox
              \/ rows' = {} /\ inbox' = <<>>
  <2>1. \A s \in Reqs : (Asked(s)' <=> Asked(s)) /\ Peer(s)' = Peer(s)
    BY <1>1 DEF KeepsTicket, Asked, Peer
  <2>2. InOrder'
    BY <2>1 DEF QueueInv, InOrder
  <2>3. CASE inbox' = inbox
    <3>1. Queued' /\ Arrivals'
      BY <1>1, <2>1, <2>3 DEF QueueInv, Queued, Arrivals
    <3>2. RowIsLastRequest'
      BY <1>1, <2>1, <2>3 DEF QueueInv, Queued, RowIsLastRequest
    <3> QED
      BY <2>2, <3>1, <3>2 DEF QueueInv
  <2>4. CASE inbox' = <<>> /\ rows' = {}
    BY <2>2, <2>4 DEF QueueInv, Queued, Arrivals, RowIsLastRequest
  <2> QED
    BY <1>1, <2>3, <2>4
<1>2. ASSUME NEW p \in Phones, NEW t \in Tokens, NEW r \in Reqs, Submit(p, t, r)
      PROVE  QueueInv'
  BY <1>2, SubmitQueue
<1>3. CASE Restart
  BY <1>1, <1>2, <1>3, TicketsKept DEF Restart
<1> QED
  BY <1>1, <1>2, <1>3, EnqueueQueue, QueueMoves, TicketsKept

-----------------------------------------------------------------------------
(* The invariant.                                                          *)

Inv == Shape /\ Courses /\ TokenSpent /\ OneInviteOnePhone /\ OnItsOwn /\ Joined

(* Each part leans on the others: the courses on the screens, the screens  *)
(* on the tickets, and what a phone has joined by on all of them.          *)
THEOREM Invariant == Spec => []Inv
<1>1. Init => Inv
  <2> SUFFICES ASSUME Init PROVE Inv
    OBVIOUS
  <2>1. TokenSpent /\ OneInviteOnePhone
    BY DEF Init, NoTicket, TokenSpent, OneInviteOnePhone
  <2>2. OnItsOwn /\ Joined
    BY DEF Init, OnItsOwn, Joined
  <2> QED
    BY <2>1, <2>2, InitShape, InitCourses DEF Inv
<1>2. Inv /\ [Next]_vars => Inv'
  BY StepShape, StepCourses, StepTokens, StepOwn, StepJoined DEF Inv
<1> QED
  BY <1>1, <1>2, PTL DEF Spec

(* One QR code makes one request of one phone, through resubmissions,      *)
(* sweeps, hidden windows and restarts.                                    *)
THEOREM OneCodeOnePhone == Spec => []OneInviteOnePhone
<1>1. Inv => OneInviteOnePhone
  BY DEF Inv
<1> QED
  BY <1>1, Invariant, PTL

(* A pairing is written only for a phone whose code the owner typed into   *)
(* that phone's row, and that confirmed it.                                *)
THEOREM TypedCodesOnly == Spec => []CodeWasTyped
<1>1. Inv => CodeWasTyped
  <2> SUFFICES ASSUME Inv, NEW r \in wrote
               PROVE  /\ told[r] \in Codes /\ told[r][1] = Peer(r)
                      /\ ticket[r].checked = [by |-> told[r], ok |-> TRUE]
    BY DEF CodeWasTyped
  <2>1. r \in Reqs /\ Course(r)
    BY DEF Inv, Shape, Courses
  <2>2. ticket[r].checked \in [by: Codes, ok: BOOLEAN] /\ ticket[r].checked.ok = TRUE
    BY <2>1 DEF Course, Accepted, Passed, Confirmed
  <2>3. ticket[r].checked.by = told[r] /\ told[r][1] = Peer(r)
    BY <2>1, <2>2 DEF Course, Accepted, Passed, Confirmed, Decided
  <2> QED
    BY <2>2, <2>3
<1> QED
  BY <1>1, Invariant, PTL

(* A phone that says it has joined is recorded, by the request it waited   *)
(* on and the code it showed.                                              *)
THEOREM JoinedMeansRecorded == Spec => []JoinedIsRecorded
<1>1. Inv => JoinedIsRecorded
  <2> SUFFICES ASSUME Inv, NEW p \in Phones, phone[p].pc = "joined"
               PROVE  /\ phone[p].req \in wrote /\ paired[p] # None
                      /\ told[phone[p].req] = Code(p)
    BY DEF JoinedIsRecorded
  <2>1. phone[p].req \in wrote /\ told[phone[p].req] = Code(p)
    BY DEF Inv, Joined
  <2>2. phone[p].req \in Reqs /\ Peer(phone[p].req) = p
    BY DEF Inv, OnItsOwn
  <2> QED
    BY <2>1, <2>2 DEF Inv, Courses, Course, Accepted
<1> QED
  BY <1>1, Invariant, PTL

(* What the owner was told is decided is what the request ends with.       *)
THEOREM DecisionsCount == Spec => []DecidedIsHonoured
<1>1. Inv => DecidedIsHonoured
  <2> SUFFICES ASSUME Inv, NEW r \in Reqs, told[r] # None,
                      ticket[r].state \notin {"pending", "swept"}
               PROVE  IF told[r] = Reject THEN ticket[r].state = "denied"
                                          ELSE ticket[r].pakeB = told[r]
    BY DEF DecidedIsHonoured
  <2>1. ticket[r] \in TicketRec /\ Course(r)
    BY DEF Inv, Shape, Courses
  <2>2. ticket[r].state \in {"accepted", "denied", "expired", "failed"}
    BY <2>1 DEF TicketRec, States, Course, Unused
  <2>3. told[r] = ticket[r].pakeB \/ (told[r] = Reject /\ ticket[r].state = "denied")
    BY <2>1, <2>2 DEF Course, Decided
  <2>4. ticket[r].pakeB # None => ticket[r].pakeB # Reject
    BY <2>1, Constants DEF TicketRec
  <2> QED
    BY <2>3, <2>4
<1> QED
  BY <1>1, Invariant, PTL

(* No row is left of a request of a phone that asked again, once the later *)
(* request has come to the queue: of the two the owner decides the later.  *)
THEOREM QueueHoldsTheLast == Spec => []RowIsLastRequest
<1>1. Init => QueueInv
  BY DEF Init, NoTicket, QueueInv, InOrder, Asked, Queued, Arrivals, RowIsLastRequest
<1>2. Inv /\ QueueInv /\ [Next]_vars => QueueInv'
  BY StepQueue DEF Inv
<1>3. QueueInv => RowIsLastRequest
  BY DEF QueueInv
<1> QED
  BY <1>1, <1>2, <1>3, Invariant, PTL DEF Spec

=============================================================================
