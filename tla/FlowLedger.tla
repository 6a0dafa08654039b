----------------------------- MODULE FlowLedger -----------------------------
(***************************************************************************)
(* What the desktop promises a phone about each item, without tasks,       *)
(* handlers, staging files or locks: an item is offered, perhaps cancelled *)
(* and offered again, and at some point, once, completed.  Completed means *)
(* that the library held the photo; it is final, with its receipt, until   *)
(* the pairing ends.                                                       *)
(*                                                                         *)
(* FlowDelivery implements this module (FlowDelivery!Ledger).              *)
(***************************************************************************)
CONSTANTS Phones, Seqs, Hashes, Receipts, Blank

VARIABLES
    row,     (* the state of each item, the photo it names, its receipt     *)
    held,    (* photos in the library                                       *)
    gone,    (* photos the user removed from it                             *)
    undone   (* photos the computer took out again                          *)

vars == <<row, held, gone, undone>>

NoItem == [state |-> "none", hash |-> Blank, receipt |-> Blank]

Init ==
    /\ row = [p \in Phones |-> [q \in Seqs |-> NoItem]]
    /\ held = {}
    /\ gone = {}
    /\ undone = {}

(* A completed item is never offered anew.                                 *)
Offer(p, q, h) ==
    /\ row[p][q].state # "completed"
    /\ row' = [row EXCEPT ![p][q] = [state |-> "active", hash |-> h,
                                      receipt |-> Blank]]
    /\ UNCHANGED <<held, gone, undone>>

Cancel(p, q) ==
    /\ row[p][q].state = "active"
    /\ row' = [row EXCEPT ![p][q].state = "cancelled"]
    /\ UNCHANGED <<held, gone, undone>>

(* The one step that ends the phone's responsibility for its copy.         *)
Complete(p, q, id) ==
    /\ row[p][q].state = "active"
    /\ row[p][q].hash \in held \cup gone \cup undone
    /\ row' = [row EXCEPT ![p][q] = [state |-> "completed", hash |-> row[p][q].hash,
                                      receipt |-> id]]
    /\ UNCHANGED <<held, gone, undone>>

(* The pairing ends or is replaced: what it promised is forgotten.         *)
Forget(P) ==
    /\ row' = [p \in Phones |-> IF p \in P THEN [q \in Seqs |-> NoItem]
                                           ELSE row[p]]
    /\ UNCHANGED <<held, gone, undone>>

Keep(h) ==
    /\ held' = held \cup {h}
    /\ UNCHANGED <<row, gone, undone>>

Remove(h) ==
    /\ held' = held \ {h}
    /\ gone' = gone \cup {h}
    /\ UNCHANGED <<row, undone>>

(* What no user asked for, and the code still does (RollBack).             *)
TakeBack(h) ==
    /\ h \in held
    /\ held' = held \ {h}
    /\ undone' = undone \cup {h}
    /\ UNCHANGED <<row, gone>>

Next ==
    \/ \E p \in Phones, q \in Seqs : Cancel(p, q)
    \/ \E p \in Phones, q \in Seqs, id \in Receipts : Complete(p, q, id)
    \/ \E p \in Phones, q \in Seqs, h \in Hashes : Offer(p, q, h)
    \/ \E P \in SUBSET Phones : Forget(P)
    \/ \E h \in Hashes : Keep(h) \/ Remove(h) \/ TakeBack(h)

Spec == Init /\ [][Next]_vars

=============================================================================
