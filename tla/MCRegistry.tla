---- MODULE MCRegistry ----
(* Two tasks, two ids, three calls. *)
EXTENDS Registry, TLC

Symmetry == Permutations(Callers) \cup Permutations(Ids)
             \cup Permutations(Tools) \cup Permutations(Skills)
====
