--------------------------- MODULE CircuitBreaker ---------------------------
(***************************************************************************)
(* _CircuitBreaker and the calls of RestPresidiumClient.check_grant() that *)
(* go through it (presidium/rest_client.py).                               *)
(*                                                                         *)
(* check_grant() awaits the POST and nothing else: a step is all it does   *)
(* before, or after.  Any number of calls overlap, and the answer to one   *)
(* may come when others have tripped or closed the breaker.                *)
(***************************************************************************)
EXTENDS Naturals

CONSTANTS
    Calls,             \* callers, each with one check_grant() at a time
    FailureThreshold,  \* failure_threshold
    Cooldown           \* cooldown_seconds, in ticks of the clock

ASSUME BreakerAssumption == FailureThreshold \in Nat /\ Cooldown \in Nat

VARIABLES
    state,     \* _state
    failures,  \* _consecutive_failures, which matters up to FailureThreshold only
    age,       \* _now() - _opened_at, which matters up to Cooldown only
    query      \* each caller's last call: "sent", or "probing" if sent in HALF_OPEN;
               \* then how it ended; "none" before the first

breakerVars == <<state, failures, age, query>>

NotOpened == Cooldown + 1   \* _opened_at is None

InFlight(c) == query[c] \in {"sent", "probing"}

BreakerInit ==
    /\ state = "closed" /\ failures = 0 /\ age = NotOpened
    /\ query = [c \in Calls |-> "none"]

-----------------------------------------------------------------------------
(* Mutants: slips that show that the properties can fail. *)

\* RecordSuccess that keeps the count.
SuccessKeepsCount ==
    state' = "closed" /\ age' = NotOpened /\ UNCHANGED failures

\* Admit that lets one probe through, whatever becomes of it.
AdmitOneProbe(c) ==
    \/ /\ state = "closed"
       /\ query' = [query EXCEPT ![c] = "sent"] /\ UNCHANGED state
    \/ /\ state = "open" /\ age = Cooldown
       /\ query' = [query EXCEPT ![c] = "probing"] /\ state' = "half_open"

-----------------------------------------------------------------------------
(* _CircuitBreaker *)

\* allow_request() that returns True; False is a call without effect.
Admit(c) ==
    \/ /\ state = "closed"
       /\ query' = [query EXCEPT ![c] = "sent"] /\ UNCHANGED state
    \/ /\ state = "half_open" \/ (state = "open" /\ age = Cooldown)
       /\ query' = [query EXCEPT ![c] = "probing"] /\ state' = "half_open"

RecordSuccess ==
    state' = "closed" /\ failures' = 0 /\ age' = NotOpened

RecordFailure ==
    /\ failures' = IF failures < FailureThreshold THEN failures + 1 ELSE failures
    /\ IF state = "half_open" \/ failures + 1 >= FailureThreshold
         THEN state' = "open" /\ age' = 0
         ELSE UNCHANGED <<state, age>>

Tick ==
    /\ age < Cooldown /\ age' = age + 1
    /\ UNCHANGED <<state, failures, query>>

-----------------------------------------------------------------------------
(* check_grant() *)

Send(c) ==
    /\ ~InFlight(c)
    /\ Admit(c)
    /\ UNCHANGED <<failures, age>>

Ends(c, how) == InFlight(c) /\ query' = [query EXCEPT ![c] = how]

\* Presidium decides, one way or the other.
Answered(c) == Ends(c, "answered") /\ RecordSuccess

\* An HTTPError (the client's timeout included), a body that is not JSON, or
\* no valid decision.
Failed(c) == Ends(c, "failed") /\ RecordFailure

\* The call is cancelled, or ends in an exception check_grant() does not
\* catch: the breaker is not told.
Abandoned(c) == Ends(c, "abandoned") /\ UNCHANGED <<state, failures, age>>

BreakerNext ==
    \/ Tick
    \/ \E c \in Calls : Send(c) \/ Answered(c) \/ Failed(c) \/ Abandoned(c)

BreakerSpec == BreakerInit /\ [][BreakerNext]_breakerVars

\* Time passes, and the HTTP client's timeout ends every call.
Fairness ==
    /\ WF_breakerVars(Tick)
    /\ \A c \in Calls : WF_breakerVars(Answered(c) \/ Failed(c))

FairSpec == BreakerSpec /\ Fairness

-----------------------------------------------------------------------------
(* Properties *)

TypeOK ==
    /\ state \in {"closed", "open", "half_open"}
    /\ failures \in 0..FailureThreshold
    /\ age \in 0..NotOpened
    /\ query \in [Calls -> {"none", "sent", "probing", "answered", "failed", "abandoned"}]

\* The state and the count never disagree, however answers to old calls come
\* in: the breaker is closed as long as fewer than failure_threshold calls in
\* a row have failed, and only then.  (Hence record_failure()'s test for
\* HALF_OPEN decides nothing.)
StateMatchesCount == FailureThreshold > 0 => (state = "closed" <=> failures < FailureThreshold)

\* allow_request()'s assertion: an open breaker knows since when; a closed one
\* has forgotten, so that no old time shortens its next cooldown.
OpenedAtKnown == age = NotOpened <=> state = "closed"

\* An assumption of the liveness properties: agents go on asking for grants
\* while the breaker admits them.
CallersKeepCalling == WF_breakerVars(\E c \in Calls : Send(c))

\* Once every call is answered again the breaker closes, and stays closed, after
\* any history of failures, late answers and abandoned probes.  (An answer to a
\* closed breaker changes nothing but the query, by which it is told from a call
\* that was abandoned.)
Recovers ==
    /\ CallersKeepCalling
    /\ <>[][~\E c \in Calls : Failed(c) \/ Abandoned(c)]_breakerVars
    => <>[](state = "closed")

\* While Presidium stays away the breaker trips again and again.
OutageTrips ==
    /\ CallersKeepCalling
    /\ <>[][~\E c \in Calls : Answered(c) \/ Abandoned(c)]_breakerVars
    => []<>(state = "open")

=============================================================================
