----------------------------- MODULE SandboxRun -----------------------------
(***************************************************************************)
(* What execute() promises of one run of code (the Sandbox protocol of     *)
(* sandbox/backend.py), whichever tier runs it: the code makes its tool    *)
(* calls one at a time and hears the answer to each before the next, and   *)
(* the caller gets one outcome, a result only if the code has finished.    *)
(***************************************************************************)
EXTENDS Naturals

VARIABLES
    code,    \* "running" or "finished"
    calls,   \* tool calls the code has made
    heard,   \* the call whose answer it heard last
    outcome  \* what execute() returned or raised, "none" before

Failures == {"crashed", "timeout", "toolTimeout", "toolError", "cancelled", "noProcess"}

Init == code = "running" /\ calls = 0 /\ heard = 0 /\ outcome = "none"

Calls ==
    /\ code = "running" /\ calls = heard
    /\ calls' = calls + 1 /\ UNCHANGED <<code, heard, outcome>>

Hears ==
    /\ heard + 1 = calls
    /\ heard' = calls /\ UNCHANGED <<code, calls, outcome>>

Finishes ==
    /\ code = "running" /\ calls = heard
    /\ code' = "finished" /\ UNCHANGED <<calls, heard, outcome>>

Returns ==
    /\ outcome = "none" /\ code = "finished"
    /\ outcome' = "result" /\ UNCHANGED <<code, calls, heard>>

Fails ==
    /\ outcome = "none"
    /\ outcome' \in Failures /\ UNCHANGED <<code, calls, heard>>

Next == Calls \/ Hears \/ Finishes \/ Returns \/ Fails

Spec == Init /\ [][Next]_<<code, calls, heard, outcome>>

=============================================================================
