-------------------------- MODULE MCLibraryIngest --------------------------
(* Instances of LibraryIngest for TLC.                                     *)
EXTENDS LibraryIngest, TLC

(* Paths, contents and jobs are interchangeable in the safety runs.        *)
Interchangeable == Permutations(Paths) \cup Permutations(Hashes)
                   \cup Permutations(Flows)
=============================================================================
