-------------------------------- MODULE Invite --------------------------------
(***************************************************************************)
(* Joining a phone.  The computer shows a QR code with a one-time token;   *)
(* the phone submits a request with its half of a code exchange, shows six *)
(* digits and polls; the owner types the digits into the request's row;    *)
(* the phone confirms, and only then the pairing is written.               *)
(*                                                                         *)
(* Translated from crates/daemon/src/pairing.rs, the owner's queue of      *)
(* ipc.rs, the pair.* handlers of router.rs and the phone's PairFlow.kt.   *)
(*                                                                         *)
(* Simplifications                                                         *)
(*  - A code, and the PAKE session started with it, is the attempt it      *)
(*    belongs to: a phone and a number.  Codes never repeat by chance, and  *)
(*    keys agree exactly when both ends used one session and one code.     *)
(*  - One deadline per request stands for the timer of its task and for    *)
(*    the age of its row.                                                  *)
(*  - A refused request changes nothing here, so it is no step.            *)
(*  - The reply to pair.confirm waits for the ledger and says what the     *)
(*    next pair.status says: the phone reads it as a poll.                 *)
(*  - Requests are numbered as they come, and reach the owner's queue in   *)
(*    that order: the queue is the set of its rows.                        *)
(*  - A restart takes no time; a phone it meets finds its request gone.    *)
(*  - What accept_pairing does on disk is PairingVault's.                  *)
(***************************************************************************)
EXTENDS Naturals, FiniteSets, Sequences, SequencesExt

CONSTANTS
    Phones,
    MaxTokens,  (* bound on QR codes shown                                  *)
    MaxReqs,    (* bound on requests accepted                               *)
    MaxScans,   (* bound on scans that reach the computer                   *)
    MaxCrashes, (* bound on restarts                                        *)
    Wrong,      (* digits that no phone shows                               *)
    Reject,     (* the owner's refusal                                      *)
    None

Tokens == 1..MaxTokens
Reqs   == 1..MaxReqs
Codes  == Phones \X (1..MaxScans)

ASSUME InviteAssumption ==
    /\ MaxTokens \in Nat /\ MaxReqs \in Nat
    /\ MaxScans \in Nat /\ MaxCrashes \in Nat
    /\ {None, Wrong, Reject} \cap (Phones \cup Reqs \cup Codes) = {}
    /\ None \notin {Wrong, Reject} /\ Wrong # Reject

VARIABLES
    tokens,    (* of each token: fresh (not shown yet), open, used, gone    *)
    ticket,    (* the ledger: one entry per request                         *)
    task,      (* the decision task of each request                         *)
    chan,      (* the oneshot from a row to its task                        *)
    inbox,     (* the channel to the owner's queue                          *)
    rows,      (* the owner's queue, oldest request first                   *)
    over,      (* requests past pending_ttl                                 *)
    withdrawn, (* PendingPair.withdrawn                                     *)
    paired,    (* the pairing of each phone: the request that wrote it      *)
    phone,     (* the pairing screen of each phone                          *)
    scans,     (* scans so far, up to MaxScans                              *)
    crashes,   (* restarts so far, up to MaxCrashes                         *)
    wrote,     (* history: requests that wrote a pairing                    *)
    told       (* history: decisions reported to the owner as delivered     *)

ledger  == <<ticket, task>>
queue   == <<chan, inbox, rows, withdrawn>>
history == <<wrote, told>>
vars    == <<tokens, ledger, queue, over, paired, phone, scans, crashes, history>>

NoTicket == [peer |-> None, token |-> None, state |-> "none", cancel |-> FALSE,
             pakeB |-> None, session |-> FALSE, checked |-> None]
NoTask   == [pc |-> "none", pakeA |-> None, heard |-> None, withdrew |-> FALSE,
             end |-> None]

Typed     == Codes \cup {Wrong}
Decisions == Typed \cup {Reject}

Channel(st) == [st |-> st, said |-> None]

Code(p) == <<p, phone[p].scan>>

Listed(r) == ticket[r].state \notin {"none", "swept"}
Pending(r) == ticket[r].state = "pending"

Init ==
    /\ tokens = [t \in Tokens |-> "fresh"]
    /\ ticket = [r \in Reqs |-> NoTicket]
    /\ task = [r \in Reqs |-> NoTask]
    /\ chan = [r \in Reqs |-> Channel("none")]
    /\ inbox = <<>> /\ rows = {}
    /\ over = {} /\ withdrawn = {}
    /\ paired = [p \in Phones |-> None]
    /\ phone = [p \in Phones |-> [pc |-> "idle", scan |-> 0, req |-> None,
                                  sentA |-> FALSE]]
    /\ scans = 0 /\ crashes = 0
    /\ wrote = {} /\ told = [r \in Reqs |-> None]

-----------------------------------------------------------------------------
(* The QR code.                                                            *)

TokenFrame == UNCHANGED <<ledger, queue, over, paired, phone, scans, crashes, history>>

(* A fresh code voids every other.                                         *)
ShowCode(t) ==
    /\ tokens[t] = "fresh"
    /\ \A u \in 1..(t - 1) : tokens[u] # "fresh"
    /\ tokens' = [u \in Tokens |->
                     IF u = t THEN "open"
                     ELSE IF tokens[u] = "fresh" THEN "fresh" ELSE "gone"]
    /\ TokenFrame

(* The owner closes the window, or the code's time is up: either way it    *)
(* admits nobody and is no good any more.                                  *)
CodeEnds(t) ==
    /\ tokens[t] = "open"
    /\ tokens' = [tokens EXCEPT ![t] = "gone"]
    /\ TokenFrame

-----------------------------------------------------------------------------
(* pair.request.                                                           *)

(* Admission: a paired phone, an open window, or a request of one's own.   *)
Admits(p) ==
    \/ paired[p] # None
    \/ \E t \in Tokens : tokens[t] = "open"
    \/ \E r \in Reqs : Listed(r) /\ ticket[r].peer = p

(* Only a phone that is not paired may ask.  Each scan makes a new code.   *)
MayScan(p) ==
    /\ phone[p].pc = "idle" /\ scans < MaxScans
    /\ paired[p] = None /\ Admits(p)

Known(p, t) == {r \in Reqs : Listed(r) /\ ticket[r].peer = p /\ ticket[r].token = t}

(* The reply came back: the phone shows its code and polls.                *)
Shows(p, r) ==
    phone' = [phone EXCEPT ![p] = [pc |-> "poll", scan |-> scans',
                                   req |-> r, sentA |-> FALSE]]

UseToken_KeepsIt(t) == tokens' = tokens \* mutant: the token is not used up

UseToken(t) == tokens' = [tokens EXCEPT ![t] = "used"]

Accept(p, t, r) ==
    /\ ticket' = [ticket EXCEPT ![r] =
                     [NoTicket EXCEPT !.peer = p, !.token = t, !.state = "pending"]]
    /\ task' = [task EXCEPT ![r] =
                   [NoTask EXCEPT !.pc = "wait", !.pakeA = <<p, scans'>>]]
    /\ chan' = [chan EXCEPT ![r] = Channel("open")]
    /\ inbox' = Append(inbox, r)

Submit(p, t, r) ==
    /\ MayScan(p)
    /\ Known(p, t) = {} /\ tokens[t] = "open"
    /\ ticket[r].state = "none"
    /\ \A s \in 1..(r - 1) : ticket[s].state # "none"
    /\ scans' = scans + 1
    /\ UseToken(t)
    /\ Accept(p, t, r)
    /\ \/ Shows(p, r)
       \/ UNCHANGED phone   \* the reply is lost, or the user has left
    /\ UNCHANGED <<rows, withdrawn, over, paired, crashes, history>>

(* The same token from the same phone: the request there is.  Its task     *)
(* keeps the exchange message of the first scan.                           *)
Resubmit(p, r) ==
    /\ MayScan(p)
    /\ \E t \in Tokens : r \in Known(p, t)
    /\ scans' = scans + 1
    /\ Shows(p, r)
    /\ UNCHANGED <<tokens, ledger, queue, over, paired, crashes, history>>

-----------------------------------------------------------------------------
(* The owner's queue.                                                      *)

Peer(r) == ticket[r].peer

(* Rows that leave the queue take their sender along.                      *)
Retain(q, gone) ==
    /\ rows' = q \ gone
    /\ chan' = [r \in Reqs |->
                   IF r \in rows \ rows' /\ chan[r].st = "open"
                     THEN Channel("dropped") ELSE chan[r]]

Enqueue_KeepsOld == \* mutant: an older row of the same phone stays
    /\ inbox # <<>>
    /\ inbox' = Tail(inbox)
    /\ Retain(rows \cup {Head(inbox)}, (over \cup withdrawn) \ {Head(inbox)})
    /\ UNCHANGED <<tokens, ledger, withdrawn, over, paired, phone, scans, crashes, history>>

Enqueue ==
    /\ inbox # <<>>
    /\ inbox' = Tail(inbox)
    /\ LET new  == Head(inbox)
           same == {r \in rows : Peer(r) = Peer(new)}
       IN  Retain(rows \cup {new}, (over \cup withdrawn \cup same) \ {new})
    /\ UNCHANGED <<tokens, ledger, withdrawn, over, paired, phone, scans, crashes, history>>

RowFrame == UNCHANGED <<tokens, ledger, inbox, withdrawn, over, paired, phone, scans, crashes, wrote>>

(* The queue is read for the screen: withdrawn rows leave.                 *)
Look ==
    /\ rows \cap withdrawn # {}
    /\ Retain(rows, withdrawn)
    /\ RowFrame /\ UNCHANGED told

(* A confirmation that finds no row: aged rows leave too.                  *)
ConfirmMisses ==
    /\ rows \cap (withdrawn \cup over) # {}
    /\ Retain(rows, withdrawn \cup over)
    /\ RowFrame /\ UNCHANGED told

(* The row that pairing.confirm finds for a phone: its first one.          *)
Located(r) ==
    LET live == rows \ withdrawn
    IN  r \in live /\ \A s \in live : Peer(s) = Peer(r) => r <= s

(* The owner decides on a row.  An aged row is reported as expired; so is  *)
(* one whose task no longer listens.                                       *)
Confirm(r, d) ==
    /\ Located(r)
    /\ rows' = rows \ ({r} \cup withdrawn \cup over)
    /\ LET sent == r \notin over /\ chan[r].st = "open"
       IN  /\ chan' = [s \in Reqs |->
                 IF sent /\ s = r THEN [st |-> "sent", said |-> d]
                 ELSE IF s \in rows \ rows' /\ chan[s].st = "open"
                   THEN Channel("dropped") ELSE chan[s]]
           /\ told' = IF sent THEN [told EXCEPT ![r] = d] ELSE told
    /\ RowFrame

(* The owner types digits a phone shows, or mistypes them.                 *)
OnScreen == {Code(p) : p \in {q \in Phones : phone[q].pc \in {"poll", "confirm"}}}
ConfirmCode(r)   == \E d \in OnScreen \cup {Wrong} : Confirm(r, d)
ConfirmReject(r) == Confirm(r, Reject)

-----------------------------------------------------------------------------
(* The decision task: wait, exchange, clear, apply, settle.                *)

TaskFrame == UNCHANGED <<tokens, inbox, rows, over, phone, scans, crashes, told>>
PairFrame == UNCHANGED <<paired, wrote>>
LedgerFrame == UNCHANGED <<ticket, chan, withdrawn>>
At(r, pc) == task[r].pc = pc

TimePasses(r) ==
    /\ Pending(r) /\ r \notin over
    /\ over' = over \cup {r}
    /\ UNCHANGED <<tokens, ledger, queue, paired, phone, scans, crashes, history>>

(* The select: the owner's word first, then the phone's withdrawal, then   *)
(* the deadline.                                                           *)
Hear(r) ==
    /\ At(r, "wait")
    /\ \/ /\ chan[r].st = "sent"
          /\ task' = [task EXCEPT ![r].pc = "close", ![r].heard = chan[r].said]
       \/ /\ chan[r].st = "dropped"
          /\ task' = [task EXCEPT ![r].pc = "close"]
       \/ /\ chan[r].st = "open" /\ ticket[r].cancel
          /\ task' = [task EXCEPT ![r].pc = "close", ![r].withdrew = TRUE]
       \/ /\ chan[r].st = "open" /\ ~ticket[r].cancel /\ r \in over
          /\ task' = [task EXCEPT ![r].pc = "close"]
    /\ LedgerFrame /\ PairFrame /\ TaskFrame

(* mutant: a decision sent between the select and the close is not read *)
Verdict_Heard(r) == task[r].heard

(* A decision sent before the close counts.                                *)
Verdict(r) == IF chan[r].st = "sent" THEN chan[r].said ELSE task[r].heard

NoVerdict(r) == IF task[r].withdrew THEN "cancelled" ELSE "expired"

(* Digits are answered at once: pake_b and the session go to the ledger.   *)
Close(r) ==
    /\ At(r, "close")
    /\ chan' = [chan EXCEPT ![r] = Channel("closed")]
    /\ LET d == Verdict(r)
       IN  /\ IF d \in Typed
                THEN /\ task' = [task EXCEPT ![r].pc = "exchange"]
                     /\ ticket' = [ticket EXCEPT ![r].pakeB = d, ![r].session = TRUE]
                ELSE /\ task' = [task EXCEPT ![r].pc = "apply", ![r].end =
                                    IF d = Reject THEN "denied" ELSE NoVerdict(r)]
                     /\ UNCHANGED ticket
           /\ withdrawn' = IF d = None /\ task[r].withdrew
                             THEN withdrawn \cup {r} ELSE withdrawn
    /\ PairFrame /\ TaskFrame

Checked(r, ok) == ticket[r].checked # None /\ ticket[r].checked.ok = ok

Exchange_NoTtl(r) == \* mutant: the second wait has no deadline
    /\ At(r, "exchange")
    /\ \/ /\ Checked(r, TRUE)
          /\ task' = [task EXCEPT ![r].pc = "apply", ![r].end = "accept"]
       \/ /\ Checked(r, FALSE)
          /\ task' = [task EXCEPT ![r].pc = "apply", ![r].end = "codeWrong"]
       \/ /\ ticket[r].checked = None /\ task[r].withdrew
          /\ task' = [task EXCEPT ![r].pc = "dead"]
       \/ /\ ticket[r].checked = None /\ ~task[r].withdrew /\ ticket[r].cancel
          /\ task' = [task EXCEPT ![r].pc = "clear", ![r].end = "cancelled"]
    /\ LedgerFrame /\ PairFrame /\ TaskFrame

(* The second select looks for the phone's confirmation first.  The signal *)
(* of a withdrawal that the first select has taken cannot be waited for    *)
(* again: the task dies of that, and nobody settles its request.           *)
Exchange(r) ==
    /\ At(r, "exchange")
    /\ \/ /\ Checked(r, TRUE)
          /\ task' = [task EXCEPT ![r].pc = "apply", ![r].end = "accept"]
       \/ /\ Checked(r, FALSE)
          /\ task' = [task EXCEPT ![r].pc = "apply", ![r].end = "codeWrong"]
       \/ /\ ticket[r].checked = None /\ task[r].withdrew
          /\ task' = [task EXCEPT ![r].pc = "dead"]
       \/ /\ ticket[r].checked = None /\ ~task[r].withdrew /\ ticket[r].cancel
          /\ task' = [task EXCEPT ![r].pc = "clear", ![r].end = "cancelled"]
       \/ /\ ticket[r].checked = None /\ ~ticket[r].cancel /\ r \in over
          /\ task' = [task EXCEPT ![r].pc = "clear", ![r].end = "expired"]
    /\ LedgerFrame /\ PairFrame /\ TaskFrame

(* No key confirmation is checked from here on; one may just have been.    *)
Clear(r) ==
    /\ At(r, "clear")
    /\ ticket' = [ticket EXCEPT ![r].session = FALSE]
    /\ task' = [task EXCEPT ![r].pc = "apply"]
    /\ UNCHANGED <<chan, withdrawn>> /\ PairFrame /\ TaskFrame

(* apply_verdict: the pairing is written, or the write fails, or there is  *)
(* nothing to write.                                                       *)
Apply(r) ==
    /\ At(r, "apply")
    /\ \/ /\ task[r].end = "accept"
          /\ paired' = [paired EXCEPT ![Peer(r)] = r]
          /\ wrote' = wrote \cup {r}
          /\ task' = [task EXCEPT ![r].pc = "settle", ![r].end = "accepted"]
       \/ /\ task[r].end = "accept"
          /\ task' = [task EXCEPT ![r].pc = "settle", ![r].end = "denied"]
          /\ PairFrame
       \/ /\ task[r].end # "accept"
          /\ task' = [task EXCEPT ![r].pc = "settle"]
          /\ PairFrame
    /\ LedgerFrame /\ TaskFrame

StateOf(end) ==
    CASE end = "codeWrong" -> "failed"
      [] end = "cancelled" -> "expired"
      [] OTHER -> end

Settle(r) ==
    /\ At(r, "settle")
    /\ ticket' = [ticket EXCEPT ![r].state = StateOf(task[r].end)]
    /\ task' = [task EXCEPT ![r] = NoTask]
    /\ UNCHANGED <<chan, withdrawn>> /\ PairFrame /\ TaskFrame

TaskStep(r) == Hear(r) \/ Close(r) \/ Exchange(r) \/ Clear(r) \/ Apply(r) \/ Settle(r)

(* A settled entry leaves the ledger after its retention.                  *)
Sweep(r) ==
    /\ Listed(r) /\ ~Pending(r)
    /\ ticket' = [ticket EXCEPT ![r].state = "swept"]
    /\ UNCHANGED <<tokens, task, queue, over, paired, phone, scans, crashes, history>>

-----------------------------------------------------------------------------
(* The waiting phone.                                                      *)

PhoneFrame == UNCHANGED <<tokens, task, queue, over, paired, scans, crashes, history>>
Goto(p, pc) == phone' = [phone EXCEPT ![p].pc = pc]
Mine(p) == ticket[phone[p].req]
CheckedMine(p) == Mine(p).checked # None /\ Mine(p).checked.by = Code(p)

Proves_Accepted(p) == TRUE \* mutant: an accepted reply is enough

(* The phone joins on an accepted reply whose confirm_b fits its session.  *)
Proves(p) == phone[p].sentA /\ CheckedMine(p) /\ Mine(p).checked.ok

Poll_KeepsAsking(p) == \* mutant: "not found" is one more round
    /\ phone[p].pc = "poll" /\ Listed(phone[p].req)
    /\ \/ /\ Mine(p).state = "accepted"
          /\ Goto(p, IF Proves(p) THEN "joined" ELSE "idle")
       \/ /\ Mine(p).state \in {"denied", "expired", "failed"}
          /\ Goto(p, "idle")
       \/ /\ Mine(p).state = "pending" /\ Mine(p).pakeB # None /\ ~CheckedMine(p)
          /\ phone' = [phone EXCEPT ![p].pc = "confirm", ![p].sentA = TRUE]
    /\ UNCHANGED ticket /\ PhoneFrame

(* pair.status: the entry is gone, settled, or has the computer's answer.  *)
Poll(p) ==
    /\ phone[p].pc = "poll"
    /\ \/ /\ ~Listed(phone[p].req) \/ ~Admits(p)
          /\ Goto(p, "idle")
       \/ /\ Listed(phone[p].req) /\ Mine(p).state = "accepted"
          /\ Goto(p, IF Proves(p) THEN "joined" ELSE "idle")
       \/ /\ Mine(p).state \in {"denied", "expired", "failed"}
          /\ Goto(p, "idle")
       \/ /\ Mine(p).state = "pending" /\ Mine(p).pakeB # None /\ ~CheckedMine(p)
          /\ phone' = [phone EXCEPT ![p].pc = "confirm", ![p].sentA = TRUE]
    /\ UNCHANGED ticket /\ PhoneFrame

Verifies_Any(p) == TRUE \* mutant: any key confirmation passes

(* session.verify: one session, one code.                                  *)
Verifies(p) ==
    /\ task[phone[p].req].pakeA = Code(p)
    /\ Mine(p).pakeB = Code(p)

(* confirm_code: the session is used once; another confirmation is wrong.  *)
ConfirmCheck(p) ==
    LET r == phone[p].req IN
    /\ phone[p].pc = "confirm"
    /\ \/ /\ ~Listed(r) /\ Goto(p, "idle") /\ UNCHANGED ticket
       \/ /\ Listed(r) /\ Mine(p).checked # None
          /\ Goto(p, IF CheckedMine(p) THEN "poll" ELSE "idle")
          /\ UNCHANGED ticket
       \/ /\ Listed(r) /\ Mine(p).checked = None /\ Mine(p).session
          /\ ticket' = [ticket EXCEPT ![r].session = FALSE,
                           ![r].checked = [by |-> Code(p), ok |-> Verifies(p)]]
          /\ Goto(p, "poll")
       \/ /\ Listed(r) /\ Mine(p).checked = None /\ ~Mine(p).session
          /\ Goto(p, IF Mine(p).state = "failed" THEN "idle" ELSE "poll")
          /\ UNCHANGED ticket
    /\ PhoneFrame

PhoneStep(p) == Poll(p) \/ ConfirmCheck(p)

(* The user leaves the screen: pair.cancel, if it gets through.            *)
Leave(p) ==
    /\ phone[p].pc \in {"poll", "confirm"}
    /\ Goto(p, "idle")
    /\ \/ /\ Pending(phone[p].req)
          /\ ticket' = [ticket EXCEPT ![phone[p].req].cancel = TRUE]
       \/ UNCHANGED ticket   \* lost, killed, or too many polls failed
    /\ PhoneFrame

(* The daemon stops and starts: only the pairings are kept.                *)
Restart ==
    /\ crashes < MaxCrashes
    /\ crashes' = crashes + 1
    /\ tokens' = [t \in Tokens |-> IF tokens[t] = "fresh" THEN "fresh" ELSE "gone"]
    /\ ticket' = [r \in Reqs |-> IF ticket[r].state = "none" THEN NoTicket
                                 ELSE [ticket[r] EXCEPT !.state = "swept"]]
    /\ task' = [r \in Reqs |-> NoTask]
    /\ chan' = [r \in Reqs |-> Channel("none")]
    /\ inbox' = <<>> /\ rows' = {} /\ over' = {} /\ withdrawn' = {}
    /\ UNCHANGED <<paired, phone, scans, history>>

-----------------------------------------------------------------------------
Next ==
    \/ \E t \in Tokens : ShowCode(t) \/ CodeEnds(t)
    \/ Enqueue \/ Look \/ ConfirmMisses \/ Restart
    \/ \E p \in Phones, t \in Tokens, r \in Reqs : Submit(p, t, r)
    \/ \E p \in Phones, r \in Reqs : Resubmit(p, r)
    \/ \E r \in Reqs : \/ TimePasses(r) \/ TaskStep(r) \/ Sweep(r)
                       \/ ConfirmCode(r) \/ ConfirmReject(r)
    \/ \E p \in Phones : PhoneStep(p) \/ Leave(p)

(* The daemon's tasks run, deadlines pass, and the phone's loop polls.     *)
Fairness ==
    /\ WF_vars(Enqueue)
    /\ \A r \in Reqs : WF_vars(TaskStep(r)) /\ WF_vars(TimePasses(r))
    /\ \A p \in Phones : WF_vars(PhoneStep(p))

Spec == Init /\ [][Next]_vars /\ Fairness

-----------------------------------------------------------------------------
(* Properties.                                                             *)

(* One QR code makes one request of one phone, whatever is resubmitted,    *)
(* swept, hidden or forgotten in a restart: so it joins one phone, once.   *)
OneInviteOnePhone ==
    \A r, s \in Reqs :
        ticket[r].token # None /\ ticket[r].token = ticket[s].token => r = s

(* A pairing is written only if the owner typed, into this phone's row,    *)
(* the code of one scan of this phone, and that one confirmed it.          *)
CodeWasTyped ==
    \A r \in wrote :
        /\ told[r] \in Codes /\ told[r][1] = Peer(r)
        /\ ticket[r].checked = [by |-> told[r], ok |-> TRUE]

(* A phone that says it has joined is recorded, by the request that it     *)
(* waited on and the code it showed.                                       *)
JoinedIsRecorded ==
    \A p \in Phones : phone[p].pc = "joined" =>
        /\ phone[p].req \in wrote /\ paired[p] # None
        /\ told[phone[p].req] = Code(p)

(* What was reported to the owner as decided is honoured: digits are used  *)
(* for the exchange and a rejection ends the request as rejected, even if  *)
(* the phone withdraws or the deadline passes in the same moment.          *)
DecidedIsHonoured ==
    \A r \in Reqs : told[r] # None /\ ticket[r].state \notin {"pending", "swept"} =>
        IF told[r] = Reject THEN ticket[r].state = "denied"
                            ELSE ticket[r].pakeB = told[r]

(* Of a phone that asked twice the owner decides the later request once    *)
(* the queue has taken it in: no row of an older one is left.  This says   *)
(* nothing of a request that still waits in the inbox, nor of the code a   *)
(* phone shows: a resubmitted request keeps the message of its first scan. *)
RowIsLastRequest ==
    \A s \in rows, r \in Reqs :
        Peer(r) = Peer(s) /\ r \notin ToSet(inbox) => r <= s

(* The one way a task dies: the owner's digits arrive between the select   *)
(* that has taken the phone's withdrawal and the close of the channel.     *)
Died(r) == At(r, "dead") /\ task[r].withdrew /\ told[r] \in Typed

(* A request stays pending only if its task died so, and then no pairing   *)
(* was written for it.                                                     *)
SettlesOrDied == \A r \in Reqs : Pending(r) ~> ~Pending(r) \/ (Died(r) /\ r \notin wrote)

(* A phone that waits is told how its request ended, unless the task of    *)
(* the request has died.                                                   *)
WaitsEnd ==
    \A p \in Phones :
        phone[p].pc = "poll" ~> \/ phone[p].pc \in {"idle", "joined"}
                               \/ Died(phone[p].req)

=============================================================================
