---------------------------- MODULE MCSupersede ----------------------------
(* The instance of Supersede for TLC.                                      *)
EXTENDS Supersede, TLC

CONSTANTS small, mid, full, p1

(* Two rounds of blanking: small is a copy of mid, both are copies of full. *)
Chain == {<<small, mid>>, <<mid, full>>, <<small, full>>}

(* Every path lies in the folder of the one phone.                         *)
Own == [p \in Paths |-> p1]

Interchangeable == Permutations(Paths) \cup Permutations(Reqs) \cup Permutations(Pids)

=============================================================================
