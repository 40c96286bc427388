---- MODULE MCMCPClient ----
(* Two tasks, three attempts to connect. *)
EXTENDS MCPClient, TLC

Symmetry == Permutations(Tasks)
====
