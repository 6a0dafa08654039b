------------------------------- MODULE MCInvite -------------------------------
(* Instances of Invite for TLC.                                            *)
EXTENDS Invite, TLC

(* Phones are interchangeable.                                             *)
Interchangeable == Permutations(Phones)

=============================================================================
