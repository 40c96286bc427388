-------------------------- MODULE TailscaleTunnel ---------------------------
(***************************************************************************)
(* TailscaleTunnelProvider (tunnel/tailscale_provider.py): start() has the *)
(* tailscale command configure a Funnel, which tailscaled then keeps up,   *)
(* and stop() has it reset, but only if start() has returned a URL.        *)
(***************************************************************************)
EXTENDS Naturals

CONSTANT MaxStarts  \* bound on the calls of start()

VARIABLES
    start,    \* where start() is: "idle", "configuring"
    stop,     \* where stop() is: "idle", "resetting"
    outcome,  \* of the last start()
    starts,   \* its number
    started,  \* _started
    command,  \* the tailscale command of start() runs
    funnel,   \* tailscaled has a Funnel
    inTurn,   \* history: start() and stop() have not overlapped
    botched   \* history: a start() did not return a URL, or the reset failed

vars == <<start, stop, outcome, starts, started, command, funnel, inTurn, botched>>

Init ==
    /\ start = "idle" /\ stop = "idle" /\ outcome = "none" /\ starts = 0
    /\ started = FALSE /\ command = FALSE /\ funnel = FALSE
    /\ inTurn = TRUE /\ botched = FALSE

-----------------------------------------------------------------------------
(* start() *)

Start ==
    /\ start = "idle" /\ starts < MaxStarts /\ starts' = starts + 1
    /\ start' = "configuring" /\ outcome' = "none" /\ command' = TRUE
    /\ inTurn' = (inTurn /\ stop = "idle")
    /\ UNCHANGED <<stop, started, funnel, botched>>

\* tailscaled has it, and the command may still fail or hang.
Configures ==
    /\ command /\ funnel' = TRUE
    /\ UNCHANGED <<start, stop, outcome, starts, started, command, inTurn, botched>>

ReturnsUrl ==
    /\ start = "configuring" /\ funnel /\ start' = "idle" /\ outcome' = "url"
    /\ started' = TRUE /\ command' = FALSE
    /\ UNCHANGED <<stop, starts, funnel, inTurn, botched>>

\* It exits non-zero or prints no URL, or is killed when the time is up:
\* _started stays as it was.
Fails ==
    /\ start = "configuring" /\ start' = "idle" /\ outcome' = "failed"
    /\ command' = FALSE /\ botched' = TRUE
    /\ UNCHANGED <<stop, starts, started, funnel, inTurn>>

\* Cancelled, or no command to run; one that runs is not killed.
GivesUp ==
    /\ start = "configuring" /\ start' = "idle" /\ outcome' = "raised"
    /\ command' \in {command, FALSE} /\ botched' = TRUE
    /\ UNCHANGED <<stop, starts, started, funnel, inTurn>>

-----------------------------------------------------------------------------
(* stop() *)

Stop ==
    /\ stop = "idle" /\ started /\ stop' = "resetting"
    /\ inTurn' = (inTurn /\ start = "idle")
    /\ UNCHANGED <<start, outcome, starts, started, command, funnel, botched>>

\* The exit code of the reset is not looked at.
Resets ==
    /\ stop = "resetting" /\ stop' = "idle" /\ started' = FALSE
    /\ \E done \in BOOLEAN :
        /\ funnel' = (funnel /\ ~done) /\ botched' = (botched \/ ~done)
    /\ UNCHANGED <<start, outcome, starts, command, inTurn>>

StopCancelled ==
    /\ stop = "resetting" /\ stop' = "idle" /\ funnel' \in {funnel, FALSE}
    /\ UNCHANGED <<start, outcome, starts, started, command, inTurn, botched>>

-----------------------------------------------------------------------------
(* Specification *)

Progress == Fails \/ Resets

Next ==
    \/ Start \/ Configures \/ ReturnsUrl \/ GivesUp
    \/ Stop \/ StopCancelled \/ Progress

\* A Funnel that stop() would not take down.
Stray == funnel /\ ~started /\ start = "idle" /\ ~botched

=============================================================================
