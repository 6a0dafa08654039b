---------------------------- MODULE MCPhoneEngine ----------------------------
(* Instances of PhoneEngine for TLC.                                       *)
EXTENDS PhoneEngine

=============================================================================
