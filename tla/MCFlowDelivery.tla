--------------------------- MODULE MCFlowDelivery ---------------------------
(* Instances of FlowDelivery for TLC.                                      *)
EXTENDS FlowDelivery, TLC

(* Phones, contents, handlers, task slots, leases and receipt ids are      *)
(* interchangeable in the safety runs.                                     *)
Interchangeable == Permutations(Phones) \cup Permutations(Hashes)
                   \cup Permutations(Rpcs) \cup Permutations(Slots)
                   \cup Permutations(Leases) \cup Permutations(Receipts)
=============================================================================
