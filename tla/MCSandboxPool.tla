--------------------------- MODULE MCSandboxPool ---------------------------
(***************************************************************************)
(* SandboxPool for TLC.  Clients and instances are interchangeable, so the *)
(* safety runs use their permutations as symmetry.                         *)
(***************************************************************************)
EXTENDS SandboxPool, TLC

Symmetry == Permutations(Clients) \cup Permutations(Instances)

=============================================================================
