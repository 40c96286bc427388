----------------------------- MODULE MCCodeMode -----------------------------
(***************************************************************************)
(* CodeMode for TLC.                                                       *)
(***************************************************************************)
EXTENDS CodeMode

=============================================================================
