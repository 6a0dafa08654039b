----------------------------- MODULE MCRelocate -----------------------------
(* The instance of Relocate for TLC: the marker, a folder of photos, and a *)
(* file of the user's beside them.                                         *)
EXTENDS Relocate, TLC

CONSTANTS ppf, originals, notes

=============================================================================
