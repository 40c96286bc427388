-------------------------- MODULE MCMemoryManager ---------------------------
(* Two tasks that write; up to three messages of at most two tokens. *)
EXTENDS MemoryManager, TLC, SequencesExt

SizeOf == [v \in Values |-> 1]

Message(tokens, numbers, words) == [tokens |-> tokens, numbers |-> numbers, words |-> words]
Conversations ==
    SeqOf({Message(0, {1}, {}), Message(1, {1, 2, 3, 4, 5}, {"a"}), Message(2, {}, {"a", "b"})}, 3)

Interchangeable == Permutations(Callers)

=============================================================================
