------------------------------ MODULE CodeMode ------------------------------
(***************************************************************************)
(* execute_in_sandbox() (managers/execute_in_sandbox.py), which            *)
(* ToolManager.run_code() and SkillManager.run() call: ask Presidium       *)
(* through the circuit breaker, then acquire, run and release a sandbox.   *)
(* It composes CircuitBreaker and SandboxPool, whose clients are now these *)
(* calls; prewarm() and close() stay with SandboxPool alone.               *)
(***************************************************************************)
EXTENDS Naturals, FiniteSets

CONSTANTS Clients, Prewarm, Instances, WarmSize, MaxConcurrent, MaxFaults,
          PrewarmFirst, NoInstance, FailureThreshold, Cooldown

ASSUME CodeModeAssumption == IsFiniteSet(Clients) /\ Prewarm \notin Clients

VARIABLES
    warm, concurrent, pc, handle, refilling, closing, pending, doomed, life,
    faults, lost, late,           \* the pool's
    state, failures, age, query,  \* the breaker's
    stage,                        \* where each call is
    answer                        \* history: what Presidium answered it last

Pool == INSTANCE SandboxPool
Breaker == INSTANCE CircuitBreaker WITH Calls <- Clients

poolVars    == <<warm, concurrent, pc, handle, refilling, closing, pending, doomed, life,
                 faults, lost, late>>
breakerVars == <<state, failures, age, query>>
vars == <<poolVars, breakerVars, stage, answer>>

Init ==
    /\ Pool!Init /\ Breaker!BreakerInit
    /\ stage = [c \in Clients |-> "idle"]
    /\ answer = [c \in Clients |-> "none"]

Reaches(c, where) == stage' = [stage EXCEPT ![c] = where]
Answers(c, what)  == answer' = [answer EXCEPT ![c] = what]

PoolAcquires(c) ==
    \/ Pool!TakeWarm(c) \/ Pool!ColdStart(c) \/ Pool!WaitForSlot(c) \/ Pool!BootReturns(c)
    \/ Pool!TimeOut(c) \/ Pool!RaiseExhausted(c) \/ Pool!BootCutShort(c)

PoolReleases(c) == Pool!TerminateReturns(c) \/ Pool!ReturnSlot(c) \/ Pool!ReleaseCutShort(c)

-----------------------------------------------------------------------------
(* Mutants *)

\* Unanswered: an outage is a grant.
FailsOpen(c) ==
    /\ stage[c] = "asking" /\ Reaches(c, "acquiring")
    /\ Breaker!Failed(c) \/ Breaker!Abandoned(c)
    /\ UNCHANGED <<poolVars, answer>>

\* Runs: no `finally`, so that an exception of run() passes release() by.
RunsWithoutFinally(c) ==
    /\ stage[c] = "running"
    /\ Reaches(c, "releasing") \/ Reaches(c, "idle")
    /\ UNCHANGED <<poolVars, breakerVars, answer>>

\* Acquires: again after each error.
AcquiresAgain(c) ==
    /\ stage[c] = "acquiring" /\ PoolAcquires(c)
    /\ Reaches(c, IF pc'[c] = "held" THEN "running" ELSE "acquiring")
    /\ UNCHANGED <<breakerVars, answer>>

-----------------------------------------------------------------------------
(* execute_in_sandbox() *)

\* check_grant() is sent.  (With the breaker open it raises GrantDeniedError
\* at once, and nothing changes.)
Asks(c) ==
    /\ stage[c] = "idle" /\ Reaches(c, "asking")
    /\ Breaker!Send(c)
    /\ Answers(c, "none")
    /\ UNCHANGED poolVars

IsGranted(c) ==
    /\ stage[c] = "asking" /\ Reaches(c, "acquiring")
    /\ Breaker!Answered(c)
    /\ Answers(c, "allow")
    /\ UNCHANGED poolVars

\* GrantDeniedError or ApprovalRequiredError
IsRefused(c) ==
    /\ stage[c] = "asking" /\ Reaches(c, "idle")
    /\ Breaker!Answered(c)
    /\ \E d \in {"deny", "require_approval"} : Answers(c, d)
    /\ UNCHANGED poolVars

\* No valid answer counts as deny, and an exception of check_grant() passes.
Unanswered(c) ==
    /\ stage[c] = "asking" /\ Reaches(c, "idle")
    /\ Breaker!Failed(c) \/ Breaker!Abandoned(c)
    /\ UNCHANGED <<poolVars, answer>>

\* acquire() returns a handle, or raises.
Acquires(c) ==
    /\ stage[c] = "acquiring" /\ PoolAcquires(c)
    /\ Reaches(c, CASE pc'[c] = "held" -> "running"
                    [] pc'[c] = "idle" -> "idle"
                    [] OTHER -> "acquiring")
    /\ UNCHANGED <<breakerVars, answer>>

\* run() returns, raises, or is cancelled: `finally` in each case.
Runs(c) ==
    /\ stage[c] = "running" /\ Reaches(c, "releasing")
    /\ UNCHANGED <<poolVars, breakerVars, answer>>

\* release(), then the result or the exception
Releases(c) ==
    /\ stage[c] = "releasing" /\ PoolReleases(c)
    /\ Reaches(c, IF pc'[c] = "idle" THEN "idle" ELSE "releasing")
    /\ UNCHANGED <<breakerVars, answer>>

-----------------------------------------------------------------------------
(* What goes on beside the calls *)

Refills(i) ==
    /\ Pool!RefillProgress(i) \/ Pool!RefillFails(i)
    /\ UNCHANGED <<breakerVars, stage, answer>>

ClockTicks ==
    /\ Breaker!Tick
    /\ UNCHANGED <<poolVars, stage, answer>>

Next ==
    \/ \E c \in Clients :
         \/ Asks(c) \/ IsGranted(c) \/ IsRefused(c) \/ Unanswered(c)
         \/ Acquires(c) \/ Runs(c) \/ Releases(c)
    \/ \E i \in Instances : Refills(i)
    \/ ClockTicks

Spec == Init /\ [][Next]_vars

\* As in SandboxPool and CircuitBreaker; run() has a timeout.
Fairness ==
    /\ \A c \in Clients :
         /\ WF_vars(IsGranted(c) \/ IsRefused(c) \/ Unanswered(c))
         /\ SF_vars((Acquires(c) \/ Releases(c)) /\ Pool!ClientProgress(c))
         /\ WF_vars(Acquires(c) /\ Pool!TimeOut(c)) /\ WF_vars(Runs(c))
    /\ \A i \in Instances : SF_vars(Refills(i) /\ Pool!RefillProgress(i))
    /\ WF_vars(ClockTicks)

FairSpec == Spec /\ Fairness

-----------------------------------------------------------------------------
(* Properties *)

TypeOK ==
    /\ stage \in [Clients -> {"idle", "asking", "acquiring", "running", "releasing"}]
    /\ answer \in [Clients -> {"none", "allow", "deny", "require_approval"}]

\* Fail closed: a call that has anything to do with the pool was allowed by
\* Presidium itself, in answer to its own question - whatever the breaker, late
\* answers and the other calls do meanwhile.
RunsOnlyIfAllowed == \A c \in Clients : pc[c] # "idle" => answer[c] = "allow"

\* Unless a boot or a terminate() fails, every sandbox that code was to run in is
\* that of a call which is yet to release it, and every slot is counted for a call
\* that is not over: no exception, timeout or refusal on the way leaves either.
NothingKept ==
    faults = 0 =>
        /\ \A i \in Instances : life[i] = "leased" =>
             \E c \in Clients : stage[c] \in {"running", "releasing"} /\ handle[c] = i
        /\ concurrent <= Cardinality({c \in Clients : stage[c] \in {"acquiring", "running", "releasing"}})

\* Every call ends, with a result or an error.
CallsEnd == \A c \in Clients : stage[c] # "idle" ~> stage[c] = "idle"

=============================================================================
