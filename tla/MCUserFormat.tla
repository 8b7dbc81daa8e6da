---------------------------- MODULE MCUserFormat ----------------------------
(* UserFormat for TLC.                                                     *)
EXTENDS UserFormat

=============================================================================
