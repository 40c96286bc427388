---------------------------- MODULE GuestSession ----------------------------
(***************************************************************************)
(* One run of code in a Firecracker VM (tier 2): execute() of              *)
(* sandbox/firecracker_backend.py over the vsock connection, with          *)
(* sandbox/_firecracker_guest_shim.py as PID 1 of the guest, from the boot *)
(* that waits for "ready" to terminate().  FirecrackerSandbox has what the *)
(* VM and its boot leave in the system; here is what goes over the wire.   *)
(***************************************************************************)
EXTENDS Naturals, Sequences

CONSTANTS
    MaxCalls,    \* bound on the tool calls of the code
    MaxAttempts  \* _MAX_RECONNECT_ATTEMPTS

VARIABLES
    host,      \* where the backend is with the instance
    outcome,   \* what execute() returned or raised
    guest,     \* the guest shim
    vm,        \* the VM is there
    attempts,  \* of the guest to connect
    toHost, toGuest,  \* the two directions of the connection; tool calls are their numbers
    calls, heard      \* the call the code made last, and the one whose answer it heard last

\* What is not a tool call, or the answer to one, is one of these.
ReadyMessage == 0
CodeMessage == 0
ResultMessage == MaxCalls + 1

vars == <<host, outcome, guest, vm, attempts, toHost, toGuest, calls, heard>>

wire == <<toHost, toGuest, calls, heard>>

\* A cold boot, or a guest restored while it waited for its code, on a
\* connection whose other end is no more.
Init ==
    /\ host = "booting" /\ outcome = "none"
    /\ guest \in {"connecting", "cutOff"} /\ vm = TRUE /\ attempts = 1
    /\ toHost = <<>> /\ toGuest = <<>> /\ calls = 0 /\ heard = 0

Ends(what) == host' = "over" /\ outcome' = what

-----------------------------------------------------------------------------
(* The guest: _connect_send_ready_and_wait_for_code(), then main() *)

Connects ==
    /\ vm /\ guest = "connecting"
    /\ guest' = "waiting" /\ toHost' = <<ReadyMessage>>
    /\ UNCHANGED <<host, outcome, vm, attempts, toGuest, calls, heard>>

\* An OSError of connect(), or of the recv() of a guest that was restored; the
\* last one ends PID 1, and the kernel with it.
ConnectFails ==
    /\ vm /\ guest \in {"connecting", "cutOff"}
    /\ IF attempts < MaxAttempts
         THEN guest' = "connecting" /\ attempts' = attempts + 1 /\ UNCHANGED vm
         ELSE guest' = "gone" /\ vm' = FALSE /\ UNCHANGED attempts
    /\ UNCHANGED <<host, outcome, wire>>

GuestStarts ==
    /\ vm /\ guest = "waiting" /\ toGuest # <<>>
    /\ guest' = "running" /\ toGuest' = Tail(toGuest)
    /\ UNCHANGED <<host, outcome, vm, attempts, toHost, calls, heard>>

GuestCalls ==
    /\ vm /\ guest = "running" /\ calls < MaxCalls
    /\ guest' = "asking" /\ calls' = calls + 1 /\ toHost' = Append(toHost, calls + 1)
    /\ UNCHANGED <<host, outcome, vm, attempts, toGuest, heard>>

GuestHears ==
    /\ vm /\ guest = "asking" /\ toGuest # <<>>
    /\ guest' = "running" /\ heard' = Head(toGuest) /\ toGuest' = Tail(toGuest)
    /\ UNCHANGED <<host, outcome, vm, attempts, toHost, calls>>

\* It sends the result, closes the connection and sleeps: the host ends the VM.
GuestFinishes ==
    /\ vm /\ guest = "running"
    /\ guest' = "finished" /\ toHost' = Append(toHost, ResultMessage)
    /\ UNCHANGED <<host, outcome, vm, attempts, toGuest, calls, heard>>

Lost == vm' = FALSE /\ guest' = IF guest = "finished" THEN guest ELSE "gone"

\* The VMM exits, or the code ends PID 1.
VmDies == vm /\ Lost /\ UNCHANGED <<host, outcome, attempts, wire>>

-----------------------------------------------------------------------------
(* The host: the end of boot_clean(), execute(), terminate() *)

Ready ==
    /\ host = "booting" /\ toHost # <<>>
    /\ host' = "ready" /\ toHost' = Tail(toHost)
    /\ UNCHANGED <<outcome, guest, vm, attempts, toGuest, calls, heard>>

\* No handle is returned, and the VM killed.
BootTimesOut ==
    /\ host = "booting" /\ host' = "ended" /\ outcome' = "noProcess"
    /\ Lost /\ UNCHANGED <<attempts, wire>>

Execute ==
    /\ host = "ready" /\ host' = "receiving"
    /\ toGuest' = Append(toGuest, CodeMessage)
    /\ UNCHANGED <<outcome, guest, vm, attempts, toHost, calls, heard>>

\* A tool call; it is the head of toHost until it is answered.
Receives ==
    /\ host = "receiving" /\ toHost # <<>> /\ Head(toHost) # ResultMessage
    /\ host' = "calling"
    /\ UNCHANGED <<outcome, guest, vm, attempts, wire>>

GetsResult ==
    /\ host = "receiving" /\ toHost # <<>> /\ Head(toHost) = ResultMessage
    /\ Ends("result") /\ UNCHANGED <<guest, vm, attempts, wire>>

ToolAnswers ==
    /\ host = "calling" /\ host' = "receiving"
    /\ toGuest' = Append(toGuest, Head(toHost)) /\ toHost' = Tail(toHost)
    /\ UNCHANGED <<outcome, guest, vm, attempts, calls, heard>>

\* Unlike ShimRunner, nothing is sent to the guest, and it is not killed.
ToolTimesOut ==
    /\ host = "calling" /\ Ends("toolTimeout")
    /\ UNCHANGED <<guest, vm, attempts, wire>>

\* Which exception the tool raises decides who is blamed: a TimeoutError is
\* taken for one of the two timeouts, a ConnectionError for the guest's end.
ToolRaises ==
    /\ host = "calling"
    /\ \E what \in {"toolError", "toolTimeout", "timeout", "crashed"} : Ends(what)
    /\ UNCHANGED <<guest, vm, attempts, wire>>

TimesOut ==
    /\ host \in {"receiving", "calling"} /\ Ends("timeout")
    /\ UNCHANGED <<guest, vm, attempts, wire>>

Cancelled ==
    /\ host \in {"receiving", "calling"} /\ Ends("cancelled")
    /\ UNCHANGED <<guest, vm, attempts, wire>>

\* The connection is at its end (readexactly() raises, or drain()).
LosesGuest ==
    /\ host = "receiving" /\ toHost = <<>> /\ ~vm
    /\ Ends("crashed") /\ UNCHANGED <<guest, vm, attempts, wire>>

Terminate ==
    /\ host \in {"ready", "over"} /\ host' = "ended"
    /\ Lost /\ UNCHANGED <<outcome, attempts, wire>>

-----------------------------------------------------------------------------
(* Specification *)

Progress ==
    Ready \/ BootTimesOut \/ Receives \/ GetsResult \/ TimesOut \/ LosesGuest

Next ==
    \/ Connects \/ ConnectFails \/ GuestStarts \/ GuestCalls \/ GuestHears \/ GuestFinishes
    \/ VmDies \/ Progress \/ Execute \/ ToolAnswers \/ ToolTimesOut \/ ToolRaises
    \/ Cancelled \/ Terminate

=============================================================================
