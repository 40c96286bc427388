----------------------------- MODULE ShimRunner -----------------------------
(***************************************************************************)
(* One run of code in a child process: run_shimmed_subprocess() of         *)
(* sandbox/_shim_runner.py with sandbox/_guest_shim.py at the other end,   *)
(* under SubprocessSandbox (tier 0) or SrtSandbox (tier 1), from execute() *)
(* to the terminate() of the handle and the close() of the backend.  Runs  *)
(* share nothing but the backend's directory, so one is enough.            *)
(*                                                                         *)
(* serve_task and communicate_task are two tasks beside the caller's; the  *)
(* child is a process.  A cancellation that arrives in the finally block   *)
(* is swallowed there (suppress()) and is no step.                         *)
(***************************************************************************)
EXTENDS Naturals, Sequences

CONSTANT MaxCalls  \* bound on the tool calls of the code

VARIABLES
    tier,
    host,     \* where the call is; then what became of the handle and the backend
    outcome,  \* what it returns or raises, from when that is settled
    guest,    \* the child
    exit,     \* its end: "no", "reaped" (the transport is closed), "told"
              \* (communicate_task is done)
    serving,  \* serve_task: "receiving", "calling", "timedOut", "failed", "stopped"
    toHost, toGuest,  \* messages on the socket: the numbers of the calls
    calls, heard,     \* the call the code made last, and the one whose answer it heard last
    files     \* what the run and its backend have in the system

vars == <<tier, host, outcome, guest, exit, serving, toHost, toGuest, calls, heard, files>>

protocol == <<serving, toHost, toGuest, calls, heard>>

Alive == guest \in {"running", "asking"}

\* The constructors of the backends have made their directory.
Init ==
    /\ tier \in {0, 1}
    /\ host = "ready" /\ outcome = "none"
    /\ guest = "absent" /\ exit = "no" /\ serving = "receiving"
    /\ toHost = <<>> /\ toGuest = <<>> /\ calls = 0 /\ heard = 0
    /\ files = {"directory"}

-----------------------------------------------------------------------------
(* Mutants *)

\* ToolTimesOut that serves on, the tool still at work.
ToolTimesOutServesOn ==
    /\ serving = "calling" /\ host \in {"waiting", "killing"}
    /\ toGuest' = Append(toGuest, Head(toHost))
    /\ UNCHANGED <<tier, host, outcome, guest, exit, serving, toHost, calls, heard, files>>

\* Kills that raises at once when serve_task has failed.
KillsOnTimeoutOnly ==
    /\ host = "waiting" /\ exit = "no"
    /\ outcome' = CASE serving = "timedOut" -> "toolTimeout"
                    [] serving = "failed"   -> "toolError"
                    [] OTHER                -> "timeout"
    /\ IF serving \in {"timedOut", "failed"}
         THEN host' = "closing" /\ UNCHANGED guest
         ELSE host' = "killing" /\ guest' = IF Alive THEN "killed" ELSE guest
    /\ UNCHANGED <<tier, exit, protocol, files>>

\* Kills with SIGTERM, which the code may ignore.
KillsPolitely ==
    /\ host = "waiting" /\ exit = "no" /\ host' = "killing"
    /\ outcome' = CASE serving = "timedOut" -> "toolTimeout"
                    [] serving = "failed"   -> "toolError"
                    [] OTHER                -> "timeout"
    /\ UNCHANGED <<tier, guest, exit, protocol, files>>

-----------------------------------------------------------------------------
(* The caller *)

\* execute() of the backends up to the start of the child: tier 1 has a
\* settings file of its own for the run.
Execute ==
    /\ host = "ready" /\ host' = "spawning"
    /\ files' = files \cup {"context", "socket"} \cup IF tier = 1 THEN {"settings"} ELSE {}
    /\ UNCHANGED <<tier, outcome, guest, exit, protocol>>

Spawns ==
    /\ host = "spawning" /\ host' = "waiting" /\ guest' = "running"
    /\ UNCHANGED <<tier, outcome, exit, protocol, files>>

\* There is no try around it; only tier 1 removes its settings file.
SpawnFails ==
    /\ host = "spawning" /\ host' = "over"
    /\ outcome' \in {"noProcess", "cancelled"}
    /\ files' = files \ {"settings"}
    /\ UNCHANGED <<tier, guest, exit, protocol>>

\* communicate_task is in done, whatever else is.
Concludes ==
    /\ host = "waiting" /\ exit = "told" /\ host' = "closing"
    /\ outcome' = IF guest = "finished" THEN "result" ELSE "crashed"
    /\ UNCHANGED <<tier, guest, exit, protocol, files>>

\* serve_task is in done, or the timeout has passed.
Kills ==
    /\ host = "waiting" /\ exit = "no" /\ host' = "killing"
    /\ outcome' = CASE serving = "timedOut" -> "toolTimeout"
                    [] serving = "failed"   -> "toolError"
                    [] OTHER                -> "timeout"
    /\ guest' = IF Alive THEN "killed" ELSE guest
    /\ UNCHANGED <<tier, exit, protocol, files>>

\* kill() raises ProcessLookupError when the transport is closed although
\* communicate_task has not noticed.
KillRaises ==
    /\ host = "waiting" /\ exit = "reaped" /\ host' = "closing"
    /\ outcome' = "noProcess"
    /\ UNCHANGED <<tier, guest, exit, protocol, files>>

WaitsForExit ==
    /\ host = "killing" /\ exit # "no" /\ host' = "closing"
    /\ UNCHANGED <<tier, outcome, guest, exit, protocol, files>>

\* Cancelled while it waits: the child is not killed.
Cancelled ==
    /\ host \in {"waiting", "killing"} /\ host' = "closing"
    /\ outcome' = "cancelled"
    /\ UNCHANGED <<tier, guest, exit, protocol, files>>

\* The finally blocks, then the result or the exception
Closes ==
    /\ host = "closing" /\ host' = "over"
    /\ serving' = "stopped" /\ files' = files \ {"context", "socket", "settings"}
    /\ UNCHANGED <<tier, outcome, guest, exit, toHost, toGuest, calls, heard>>

-----------------------------------------------------------------------------
(* serve_task *)

Serving == host \in {"waiting", "killing"}

Receives ==
    /\ Serving /\ serving = "receiving" /\ toHost # <<>>
    /\ serving' = "calling"
    /\ UNCHANGED <<tier, host, outcome, guest, exit, toHost, toGuest, calls, heard, files>>

\* The call that is served is the head of toHost until it is answered.
Replies == toGuest' = Append(toGuest, Head(toHost)) /\ toHost' = Tail(toHost)

ToolAnswers ==
    /\ Serving /\ serving = "calling"
    /\ serving' = "receiving" /\ Replies
    /\ UNCHANGED <<tier, host, outcome, guest, exit, calls, heard, files>>

\* The guest is answered before the exception is raised, and may hear it.
ToolTimesOut ==
    /\ Serving /\ serving = "calling"
    /\ serving' = "timedOut" /\ Replies
    /\ UNCHANGED <<tier, host, outcome, guest, exit, calls, heard, files>>

ToolRaises ==
    /\ Serving /\ serving = "calling" /\ serving' = "failed"
    /\ UNCHANGED <<tier, host, outcome, guest, exit, toHost, toGuest, calls, heard, files>>

-----------------------------------------------------------------------------
(* The child and communicate_task *)

GuestCalls ==
    /\ guest = "running" /\ calls < MaxCalls
    /\ guest' = "asking" /\ calls' = calls + 1 /\ toHost' = Append(toHost, calls + 1)
    /\ UNCHANGED <<tier, host, outcome, exit, serving, toGuest, heard, files>>

GuestHears ==
    /\ guest = "asking" /\ toGuest # <<>>
    /\ guest' = "running" /\ heard' = Head(toGuest) /\ toGuest' = Tail(toGuest)
    /\ UNCHANGED <<tier, host, outcome, exit, serving, toHost, calls, files>>

\* The result trailer is the last thing it writes.
GuestFinishes ==
    /\ guest = "running" /\ guest' = "finished"
    /\ UNCHANGED <<tier, host, outcome, exit, protocol, files>>

\* It exits without: a signal, os._exit(), a SystemExit of the code
GuestCrashes ==
    /\ Alive /\ guest' = "crashed"
    /\ UNCHANGED <<tier, host, outcome, exit, protocol, files>>

ExitIsSeen ==
    /\ guest \in {"finished", "crashed", "killed"} /\ exit # "told"
    /\ exit' = IF exit = "no" THEN "reaped" ELSE "told"
    /\ UNCHANGED <<tier, host, outcome, guest, protocol, files>>

-----------------------------------------------------------------------------
(* terminate() and close() of the backends *)

Terminate ==
    /\ host = "over" /\ host' = "ended"
    /\ files' = files \ {"socket", "settings"}
    /\ UNCHANGED <<tier, outcome, guest, exit, protocol>>

\* Tier 1 removes its directory; tier 0 does nothing.
CloseBackend ==
    /\ host = "ended" /\ host' = "closed"
    /\ files' = IF tier = 1 THEN files \ {"directory"} ELSE files
    /\ UNCHANGED <<tier, outcome, guest, exit, protocol>>

-----------------------------------------------------------------------------
(* Specification *)

Progress ==
    \/ Spawns \/ Concludes \/ Kills \/ KillRaises \/ WaitsForExit \/ Closes \/ ExitIsSeen

Next ==
    \/ Execute \/ SpawnFails \/ Cancelled \/ Progress
    \/ Receives \/ ToolAnswers \/ ToolTimesOut \/ ToolRaises
    \/ GuestCalls \/ GuestHears \/ GuestFinishes \/ GuestCrashes
    \/ Terminate \/ CloseBackend

=============================================================================
