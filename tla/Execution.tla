----------------------------- MODULE Execution ------------------------------
(***************************************************************************)
(* One run of code by whichever backend select_sandbox_backend() of        *)
(* sandbox/dispatch.py has chosen for this host: a child process           *)
(* (ShimRunner, tiers 0 and 1) or a VM (GuestSession, tier 2).  Both       *)
(* implement the run that the Sandbox protocol promises (SandboxRun).      *)
(***************************************************************************)
EXTENDS Naturals, Sequences

CONSTANTS MaxCalls, MaxAttempts

ASSUME BoundsAssumption == MaxCalls \in Nat /\ MaxAttempts \in Nat \ {0}

VARIABLES tier, host, outcome, guest, toHost, toGuest, calls, heard,
          exit, serving, files,  \* of ShimRunner only
          vm, attempts           \* of GuestSession only

shimOnly == <<exit, serving, files>>
sessionOnly == <<vm, attempts>>
vars == <<tier, host, outcome, guest, toHost, toGuest, calls, heard, shimOnly, sessionOnly>>

Shim == INSTANCE ShimRunner
Session == INSTANCE GuestSession

\* The tier for a host of which these hold.  "artifacts": the three variables
\* are set, and the kernel and the root file system exist.
SelectedTier(facts) ==
    CASE {"linux", "kvm", "artifacts"} \subseteq facts -> 2
      [] "srt" \in facts /\ ~({"linux", "kvm", "artifacts"} \subseteq facts) -> 1
      [] OTHER -> 0

Init ==
    /\ \E facts \in SUBSET {"linux", "kvm", "artifacts", "srt"} : tier = SelectedTier(facts)
    /\ IF tier = 2
         THEN Session!Init /\ exit = "no" /\ serving = "receiving" /\ files = {}
         ELSE Shim!Init /\ vm = FALSE /\ attempts = 0

ShimNext == tier < 2 /\ Shim!Next /\ UNCHANGED sessionOnly

SessionNext == tier = 2 /\ Session!Next /\ UNCHANGED <<tier, shimOnly>>

Next == ShimNext \/ SessionNext

\* What the event loop and the timers see to; what the tool, the code and the
\* callers do is theirs.
Progress ==
    \/ tier < 2 /\ Shim!Progress /\ UNCHANGED sessionOnly
    \/ tier = 2 /\ Session!Progress /\ UNCHANGED <<tier, shimOnly>>

Spec == Init /\ [][Next]_vars /\ WF_vars(Progress)

-----------------------------------------------------------------------------
(* Properties *)

Done == host \in {"over", "ended", "closed"}

code == IF guest = "finished" THEN "finished" ELSE "running"
told == IF Done THEN outcome ELSE "none"

Promised == INSTANCE SandboxRun WITH outcome <- told

\* Whatever races with what (the end of the guest, an answer, a tool that
\* fails or takes too long, the timeout of the run, a cancellation), the code
\* never hears the answer to another call than the one it waits for, and
\* execute() has one outcome, a result only of code that has finished.
RunSpec == Promised!Spec

\* After a run nothing of it is left in the system but what the code leaves
\* knowingly or not: the child of a call that was cancelled, the zmq context
\* of one whose child could not be started, and the directory of tier 0.  The
\* VM has gone when its handle is terminated.
NothingStays ==
    IF tier = 2
      THEN host = "ended" => ~vm
      ELSE /\ Done /\ Shim!Alive => outcome = "cancelled"
           /\ Done /\ guest # "absent" => files \subseteq {"directory"}
           /\ host = "ended" => files \subseteq {"directory", "context"}
           /\ host = "closed" /\ tier = 1 => files \subseteq {"context"}

\* A run that was begun ends, and so does a boot, however the guest and the
\* tools behave: they may stop dead at any point.
RunEnds ==
    /\ host \in {"spawning", "waiting", "receiving", "calling"} ~> Done
    /\ host = "booting" ~> (host = "ready" \/ Done)

=============================================================================
