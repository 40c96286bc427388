-------------------------- MODULE MCPromptManager ---------------------------
(* PromptManager on small instances. *)
EXTENDS PromptManager, TLC

CONSTANTS c1, c2, c3, n1, n2, t1, t2

Interchangeable == Permutations({c1, c2, c3})

=============================================================================
