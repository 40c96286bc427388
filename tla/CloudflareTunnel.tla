-------------------------- MODULE CloudflareTunnel --------------------------
(***************************************************************************)
(* CloudflareTunnelProvider (tunnel/cloudflare_provider.py): start() tries *)
(* up to MaxAttempts cloudflared processes, each of its own, until the URL *)
(* of one is reachable, and stop() kills the one in _process.  One task    *)
(* starts and one stops; nothing keeps them apart.                         *)
(***************************************************************************)
EXTENDS Naturals

CONSTANTS
    MaxAttempts,  \* _MAX_ATTEMPTS
    MaxStarts     \* bound on the calls of start()

VARIABLES
    start,    \* where start() is: "idle", "spawning", "reading", "reaching", "killing"
    stop,     \* where stop() is: "idle", "killing"
    outcome,  \* of the last start()
    starts,   \* its number
    attempt,
    own,      \* the process of the attempt
    tracked,  \* _process, 0 for None
    running,  \* the processes that run
    made,     \* processes there have been
    dropped,  \* history: processes that start() lets go of though they may run:
              \* one that closed its output, those that a new start() finds
    inTurn    \* history: start() and stop() have not overlapped

vars == <<start, stop, outcome, starts, attempt, own, tracked, running, made, dropped, inTurn>>
processes == <<own, tracked, running, made>>

Init ==
    /\ start = "idle" /\ stop = "idle" /\ outcome = "none"
    /\ starts = 0 /\ attempt = 0
    /\ own = 0 /\ tracked = 0 /\ running = {} /\ made = 0
    /\ dropped = {} /\ inTurn = TRUE

-----------------------------------------------------------------------------
(* Mutants *)

\* TimesOut that goes on to the next attempt without killing the process.
TimesOutOnly ==
    /\ start \in {"reading", "reaching"} /\ start' = "killing"
    /\ UNCHANGED <<stop, outcome, starts, attempt, processes, dropped, inTurn>>

\* TimesOut without a timeout of its own for the reachability.
TimesOutReading ==
    /\ start = "reading" /\ start' = "killing"
    /\ running' = running \ {own}
    /\ UNCHANGED <<stop, outcome, starts, attempt, own, tracked, made, dropped, inTurn>>

-----------------------------------------------------------------------------
(* start() *)

Start ==
    /\ start = "idle" /\ starts < MaxStarts /\ starts' = starts + 1
    /\ start' = "spawning" /\ attempt' = 1 /\ outcome' = "none"
    /\ dropped' = dropped \cup running /\ inTurn' = (inTurn /\ stop = "idle")
    /\ UNCHANGED <<stop, processes>>

Spawns ==
    /\ start = "spawning" /\ start' = "reading"
    /\ made' = made + 1 /\ own' = made' /\ tracked' = made' /\ running' = running \cup {made'}
    /\ UNCHANGED <<stop, outcome, starts, attempt, dropped, inTurn>>

SeesUrl ==
    /\ start = "reading" /\ start' = "reaching"
    /\ UNCHANGED <<stop, outcome, starts, attempt, processes, dropped, inTurn>>

\* A 2xx or 3xx came through the tunnel; cloudflared may have exited since.
Reaches ==
    /\ start = "reaching"
    /\ start' = "idle" /\ outcome' = "url"
    /\ UNCHANGED <<stop, starts, attempt, processes, dropped, inTurn>>

AttemptFails ==
    /\ IF attempt < MaxAttempts
         THEN start' = "spawning" /\ attempt' = attempt + 1 /\ UNCHANGED outcome
         ELSE start' = "idle" /\ outcome' = "failed" /\ UNCHANGED attempt
    /\ UNCHANGED <<stop, starts, inTurn>>

\* It has exited, or its output is at its end and it may run on: it is not
\* killed, and _process keeps it until the next attempt has a process.
SeesEnd ==
    /\ start = "reading" /\ AttemptFails
    /\ dropped' = dropped \cup ({own} \cap running)
    /\ UNCHANGED processes

\* One of the two timeouts of the attempt: process.kill()
TimesOut ==
    /\ start \in {"reading", "reaching"} /\ start' = "killing"
    /\ running' = running \ {own}
    /\ UNCHANGED <<stop, outcome, starts, attempt, own, tracked, made, dropped, inTurn>>

Killed ==
    /\ start = "killing"
    /\ tracked' = IF tracked = own THEN 0 ELSE tracked
    /\ AttemptFails /\ UNCHANGED <<own, running, made, dropped>>

\* No TunnelStartError, and no further attempt: there is no cloudflared; kill()
\* finds the process gone (ProcessLookupError); the call is cancelled.
GivesUp ==
    /\ start # "idle" /\ start' = "idle" /\ outcome' = "raised"
    /\ UNCHANGED <<stop, starts, attempt, processes, dropped, inTurn>>

Exits ==
    /\ \E n \in running : running' = running \ {n}
    /\ UNCHANGED <<start, stop, outcome, starts, attempt, own, tracked, made, dropped, inTurn>>

-----------------------------------------------------------------------------
(* stop() *)

Stop ==
    /\ stop = "idle" /\ tracked # 0 /\ stop' = "killing"
    /\ running' = running \ {tracked}
    /\ inTurn' = (inTurn /\ start = "idle")
    /\ UNCHANGED <<start, outcome, starts, attempt, own, tracked, made, dropped>>

\* The wait is over (or kill() found no process): whatever _process is by now.
Stopped ==
    /\ stop = "killing" /\ stop' = "idle" /\ tracked' = 0
    /\ UNCHANGED <<start, outcome, starts, attempt, own, running, made, dropped, inTurn>>

StopCancelled ==
    /\ stop = "killing" /\ stop' = "idle"
    /\ UNCHANGED <<start, outcome, starts, attempt, processes, dropped, inTurn>>

-----------------------------------------------------------------------------
(* Specification *)

Progress == Spawns \/ SeesEnd \/ TimesOut \/ Killed \/ Stopped

Next ==
    \/ Start \/ SeesUrl \/ Reaches \/ GivesUp \/ Exits \/ Progress
    \/ Stop \/ StopCancelled

-----------------------------------------------------------------------------
(* What is up and stop() would not take down: with start() and stop() taking
   turns, nothing but what start() has let go of, and while an attempt begins, or
   when all have failed, nothing else at all. *)

Stray ==
    \/ ~(running \ dropped \subseteq {tracked})
    \/ /\ start = "spawning" \/ (start = "idle" /\ outcome = "failed")
       /\ ~(running \subseteq dropped)

=============================================================================
