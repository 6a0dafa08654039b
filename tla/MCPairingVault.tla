--------------------------- MODULE MCPairingVault ---------------------------
(* Instances of PairingVault for TLC.                                      *)
EXTENDS PairingVault, TLC

(* Phones, processes and calls are interchangeable.                        *)
Interchangeable == Permutations(Phones) \cup Permutations(Procs)
                   \cup Permutations(Reqs)
=============================================================================
