--------------------------- MODULE SandboxBackend ---------------------------
(***************************************************************************)
(* What a backend promises SandboxPool of its instances (the Sandbox       *)
(* protocol of sandbox/backend.py): boot_clean() gives one, which is live  *)
(* until terminate() is called on it and none after, whatever other calls  *)
(* do.  A call that is cut short may leave an orphan, which nobody can     *)
(* reach any more.                                                         *)
(***************************************************************************)
CONSTANT Ids

VARIABLE phase  \* of each instance: "none", "booting", "live", "ending", "orphan"

Init == phase = [i \in Ids |-> "none"]

Moves(i, from, to) == phase[i] = from /\ phase' = [phase EXCEPT ![i] = to]

BootClean(i) == Moves(i, "none", "booting")
Booted(i)    == Moves(i, "booting", "live")
Terminate(i) == Moves(i, "live", "ending")
Gone(i)      == \E from \in {"booting", "ending"} : Moves(i, from, "none")
Orphaned(i)  == \E from \in {"booting", "ending"} : Moves(i, from, "orphan")

\* An instance that boot_clean() starts for its own use makes way for the one
\* it is to return.
MakesWay(i, j) ==
    /\ phase[i] = "booting" /\ phase[j] = "none"
    /\ phase' = [phase EXCEPT ![i] = "none", ![j] = "booting"]

Next ==
    \E i \in Ids :
        \/ BootClean(i) \/ Booted(i) \/ Terminate(i) \/ Gone(i) \/ Orphaned(i)
        \/ \E j \in Ids : MakesWay(i, j)

Spec == Init /\ [][Next]_phase

=============================================================================
