-------------------------- MODULE StandaloneProofs --------------------------
(***************************************************************************)
(* What TLAPS proves about the components that are built from nothing that *)
(* is proved elsewhere, each by itself: CircuitBreaker, MCPClient, Tunnel  *)
(* and MemoryManager, for any number of calls, tasks, attempts, items and  *)
(* messages.                                                               *)
(***************************************************************************)
EXTENDS CircuitBreaker, MCPClient, Tunnel, MemoryManager,
        FiniteSetTheorems, SequenceTheorems, WellFoundedInduction, TLAPS

-----------------------------------------------------------------------------
(* CircuitBreaker *)

\* Inductive as it stands: the three fix the state from the count, and the
\* time from the state.
BreakerInv == TypeOK /\ StateMatchesCount /\ OpenedAtKnown

LEMMA SuccessKeepsInv ==
  ASSUME NEW c \in Calls, BreakerInv, Answered(c)
  PROVE  BreakerInv'
  BY BreakerAssumption
  DEF BreakerInv, TypeOK, StateMatchesCount, OpenedAtKnown,
      NotOpened, Answered, Ends, RecordSuccess

LEMMA FailureKeepsInv ==
  ASSUME NEW c \in Calls, BreakerInv, Failed(c)
  PROVE  BreakerInv'
<1>. USE BreakerAssumption
     DEF BreakerInv, TypeOK, StateMatchesCount, OpenedAtKnown,
         NotOpened, Failed, Ends, RecordFailure
<1>1. CASE state = "half_open" \/ failures + 1 >= FailureThreshold
  BY <1>1
<1>2. CASE ~(state = "half_open" \/ failures + 1 >= FailureThreshold)
  BY <1>2
<1>. QED
  BY <1>1, <1>2

LEMMA SendKeepsInv ==
  ASSUME NEW c \in Calls, BreakerInv, Send(c)
  PROVE  BreakerInv'
  BY BreakerAssumption
  DEF BreakerInv, TypeOK, StateMatchesCount, OpenedAtKnown,
      NotOpened, Send, Admit

THEOREM BreakerInvariant == BreakerSpec => []BreakerInv
<1>. USE BreakerAssumption
     DEF BreakerInv, TypeOK, StateMatchesCount, OpenedAtKnown,
         NotOpened
<1>1. BreakerInit => BreakerInv
  BY DEF BreakerInit
<1>2. BreakerInv /\ [BreakerNext]_breakerVars => BreakerInv'
  <2>. SUFFICES ASSUME BreakerInv, [BreakerNext]_breakerVars PROVE BreakerInv'
    OBVIOUS
  <2>1. CASE Tick
    BY <2>1 DEF Tick
  <2>2. ASSUME NEW c \in Calls, Send(c) PROVE BreakerInv'
    BY <2>2, SendKeepsInv
  <2>3. ASSUME NEW c \in Calls, Answered(c) PROVE BreakerInv'
    BY <2>3, SuccessKeepsInv
  <2>4. ASSUME NEW c \in Calls, Failed(c) PROVE BreakerInv'
    BY <2>4, FailureKeepsInv
  <2>5. ASSUME NEW c \in Calls, Abandoned(c) PROVE BreakerInv'
    BY <2>5 DEF Abandoned, Ends
  <2>6. CASE UNCHANGED breakerVars
    BY <2>6 DEF breakerVars
  <2>. QED
    BY <2>1, <2>2, <2>3, <2>4, <2>5, <2>6 DEF BreakerNext
<1>. QED
  BY <1>1, <1>2, PTL DEF BreakerSpec

\* However late or out of order the answers come, the breaker is closed just
\* when fewer than failure_threshold calls in a row have failed.
THEOREM StateFollowsCount == BreakerSpec => []StateMatchesCount
  BY BreakerInvariant, PTL DEF BreakerInv

\* The assertion in allow_request() never fails.
THEOREM AssertionHolds == BreakerSpec => []OpenedAtKnown
  BY BreakerInvariant, PTL DEF BreakerInv

-----------------------------------------------------------------------------
(* MCPClient *)

ClientTypes ==
    /\ session \in Nat /\ begun \in Nat
    /\ stack \in Seq(Int) /\ \A n \in open : n \in Nat /\ n > 0
    /\ pc \in [Tasks -> {"idle", "opening", "entering", "initializing", "answered",
                           "cleaning", "disconnecting"}]
    /\ mine \in [Tasks -> Nat] /\ taken \in [Tasks -> Int]
    /\ DOMAIN raised = Tasks /\ alone \subseteq Tasks
    /\ \A c \in Tasks : pc[c] \notin {"idle", "disconnecting"} => mine[c] > 0

\* A context is off the stack and not left yet only in a call that closes.
Held == \A c \in Tasks : taken[c] # 0 => pc[c] \in Closing

\* The disconnect() of alone has no other call beside it.
Lonely == \A c \in alone : pc[c] = "disconnecting" /\ \A d \in Tasks \ {c} : ~Busy(d)

\* While it is calm one call at most is under way, and session and transport are
\* as that call has left them.
Calmness == calm =>
    /\ \A c, d \in Tasks : Busy(c) /\ Busy(d) => c = d
    /\ Idle => open = IF session = 0 THEN {} ELSE {session}
    /\ \A c \in Tasks :
         /\ pc[c] = "opening" => session = 0 /\ open = {}
         /\ pc[c] \in {"entering", "initializing", "answered"} => session = 0 /\ open = {mine[c]}
         /\ pc[c] = "cleaning" => session = 0
         /\ pc[c] = "disconnecting" => ~raised[c]

ClientInv == ClientTypes /\ Held /\ NothingEscapes /\ Lonely /\ Calmness

LEMMA ClientStart == ClientInit => ClientInv
  BY DEF ClientInit, ClientInv, ClientTypes, Held, NothingEscapes, Lonely, Calmness,
     Busy, Idle

\* Each step keeps the types.
LEMMA ClientTypeStep == ClientTypes /\ [ClientNext]_clientVars => ClientTypes'
<1>. SUFFICES ASSUME ClientTypes, [ClientNext]_clientVars PROVE ClientTypes'
  OBVIOUS
<1>. USE DEF ClientTypes, Goto, history
<1>1. ASSUME NEW c \in Tasks, Connect(c) PROVE ClientTypes'
  BY <1>1 DEF Connect, Idle
<1>2. ASSUME NEW c \in Tasks, Refused(c) PROVE ClientTypes'
  BY <1>2 DEF Refused
<1>3. ASSUME NEW c \in Tasks, Responded(c) PROVE ClientTypes'
  BY <1>3 DEF Responded
<1>4. ASSUME NEW c \in Tasks, Publishes(c) PROVE ClientTypes'
  BY <1>4 DEF Publishes
<1>5. ASSUME NEW c \in Tasks, StepFails(c) PROVE ClientTypes'
  BY <1>5 DEF StepFails
<1>6. ASSUME NEW c \in Tasks, Disconnect(c) PROVE ClientTypes'
  <2>1. /\ pc' = [pc EXCEPT ![c] = "disconnecting"] /\ DOMAIN raised' = Tasks
        /\ alone' \subseteq Tasks /\ UNCHANGED <<session, stack, open, begun, mine, taken>>
    BY <1>6 DEF Disconnect
  <2>. QED  BY <2>1
<1>7. ASSUME NEW c \in Tasks, Opened(c) PROVE ClientTypes'
  <2>1. stack' \in Seq(Int)
    BY <1>7 DEF Opened
  <2>2. mine[c] > 0 /\ open' = open \cup {mine[c]}
    BY <1>7 DEF Opened
  <2>3. \A n \in open' : n \in Nat /\ n > 0
    BY <2>2
  <2>4. pc' = [pc EXCEPT ![c] = "entering"] /\ UNCHANGED <<session, begun, mine, taken, raised, alone>>
    BY <1>7 DEF Opened
  <2>. QED  BY <2>1, <2>2, <2>3, <2>4
<1>8. ASSUME NEW c \in Tasks, Entered(c) PROVE ClientTypes'
  BY <1>8 DEF Entered
<1>9. ASSUME NEW c \in Tasks, TakesOff(c) PROVE ClientTypes'
  <2>1. Len(stack) \in 1..Len(stack) /\ stack[Len(stack)] \in Int
    BY <1>9, EmptySeq, LenProperties DEF TakesOff
  <2>2. SubSeq(stack, 1, Len(stack) - 1) \in Seq(Int)
    BY <2>1, SubSeqProperties, LenProperties
  <2>. QED  BY <1>9, <2>1, <2>2 DEF TakesOff
<1>10. ASSUME NEW c \in Tasks, Leaves(c) PROVE ClientTypes'
  <2>1. UNCHANGED <<session, begun, stack, pc, mine, alone>>
    BY <1>10 DEF Leaves
  <2>2. \A n \in open' : n \in Nat /\ n > 0
    BY <1>10 DEF Leaves
  <2>3. taken' \in [Tasks -> Int]
    BY <1>10 DEF Leaves
  <2>4. DOMAIN raised' = Tasks
    BY <1>10 DEF Leaves
  <2>. QED  BY <2>1, <2>2, <2>3, <2>4
<1>11. ASSUME NEW c \in Tasks, CleanedUp(c) PROVE ClientTypes'
  BY <1>11 DEF CleanedUp
<1>12. ASSUME NEW c \in Tasks, Disconnected(c) PROVE ClientTypes'
  BY <1>12 DEF Disconnected
<1>13. CASE UNCHANGED clientVars
  BY <1>13 DEF clientVars, call
<1>. QED
  BY <1>1, <1>2, <1>3, <1>4, <1>5, <1>6, <1>7, <1>8, <1>9, <1>10, <1>11, <1>12, <1>13
  DEF ClientNext

\* A transport stays in reach from Opened on: TakesOff takes a context from the
\* stack into its hands, and Leaves closes what it lets go.
LEMMA ClientReachStep ==
  ASSUME ClientInv, [ClientNext]_clientVars
  PROVE  Held' /\ NothingEscapes'
<1>. USE DEF ClientInv, ClientTypes, Held, NothingEscapes, IsOnStack,
             Closing, Goto
<1>1. ASSUME UNCHANGED <<stack, open, taken>>, Held' PROVE NothingEscapes'
  BY <1>1
<1>2. ASSUME NEW c \in Tasks, Opened(c) \/ Entered(c)
      PROVE  Held' /\ NothingEscapes'
  <2>1. PICK x \in Int : stack' = Append(stack, x) /\ (open' = open \/ open' = open \cup {x})
    <3>1. CASE Opened(c)
      <4>1. mine[c] \in Int /\ stack' = Append(stack, mine[c]) /\ open' = open \cup {mine[c]}
        BY <3>1 DEF Opened
      <4>. QED  BY <4>1
    <3>2. CASE Entered(c)
      BY <3>2 DEF Entered
    <3>. QED  BY <1>2, <3>1, <3>2
  <2>2. /\ \A i \in DOMAIN stack : i \in DOMAIN stack' /\ stack'[i] = stack[i]
        /\ Len(stack) + 1 \in DOMAIN stack' /\ stack'[Len(stack) + 1] = x
    BY <2>1, AppendProperties, LenProperties
  <2>3. Held' /\ taken' = taken
    BY <1>2 DEF Opened, Entered
  <2>. QED  BY <2>1, <2>2, <2>3
<1>3. ASSUME NEW c \in Tasks, TakesOff(c) PROVE Held' /\ NothingEscapes'
  <2>1. /\ taken[c] = 0 /\ taken' = [taken EXCEPT ![c] = stack[Len(stack)]]
        /\ stack' = SubSeq(stack, 1, Len(stack) - 1) /\ open' = open /\ pc' = pc
        /\ pc[c] \in Closing
    BY <1>3 DEF TakesOff
  <2>2. Held'
    BY <2>1
  <2>3. \A i \in DOMAIN stack : i = Len(stack) \/ (i \in DOMAIN stack' /\ stack'[i] = stack[i])
    BY <2>1, LenProperties, SubSeqProperties
  <2>4. taken'[c] = stack[Len(stack)] /\ \A d \in Tasks \ {c} : taken'[d] = taken[d]
    BY <2>1
  <2>5. ASSUME NEW n \in open PROVE IsOnStack(n)' \/ \E d \in Tasks : taken'[d] = n
    <3>1. CASE \E d \in Tasks : taken[d] = n
      BY <2>1, <2>4, <3>1
    <3>2. CASE IsOnStack(n)
      BY <2>3, <2>4, <3>2
    <3>. QED  BY <3>1, <3>2
  <2>. QED  BY <2>1, <2>2, <2>5
<1>4. ASSUME NEW c \in Tasks, Leaves(c) PROVE Held' /\ NothingEscapes'
  BY <1>4 DEF Leaves
<1>5. ASSUME NEW c \in Tasks,
             \/ Connect(c) \/ Refused(c) \/ Responded(c) \/ Publishes(c)
             \/ StepFails(c) \/ Disconnect(c) \/ CleanedUp(c)
             \/ Disconnected(c)
      PROVE  Held' /\ UNCHANGED <<stack, open, taken>>
  BY <1>5 DEF Connect, Refused, Responded, Publishes,
     StepFails, Disconnect, CleanedUp, Disconnected
<1>6. CASE UNCHANGED clientVars
  BY <1>6 DEF clientVars, call
<1>. QED
  BY <1>1, <1>2, <1>3, <1>4, <1>5, <1>6 DEF ClientNext

LEMMA LonelyStep ==
  ASSUME ClientInv, [ClientNext]_clientVars
  PROVE  Lonely'
<1>. USE DEF ClientInv, ClientTypes, Lonely, Busy, Goto, history
<1>1. ASSUME NEW c \in Tasks, Connect(c) \/ Disconnected(c) PROVE Lonely'
  BY <1>1 DEF Connect, Disconnected
<1>2. ASSUME NEW c \in Tasks, Disconnect(c) PROVE Lonely'
  BY <1>2 DEF Disconnect, Idle
<1>3. ASSUME NEW c \in Tasks,
             \/ Refused(c) \/ Opened(c) \/ Entered(c) \/ Responded(c)
             \/ Publishes(c) \/ StepFails(c) \/ CleanedUp(c)
      PROVE  Lonely'
  BY <1>3 DEF Refused, Opened, Entered, Responded,
     Publishes, StepFails, CleanedUp
<1>4. ASSUME NEW c \in Tasks, TakesOff(c) \/ Leaves(c) PROVE Lonely'
  BY <1>4 DEF TakesOff, Leaves
<1>5. CASE UNCHANGED clientVars
  BY <1>5 DEF clientVars, call
<1>. QED
  BY <1>1, <1>2, <1>3, <1>4, <1>5 DEF ClientNext

\* What is so of a call c while it is calm.
CalmAt(c) ==
    /\ pc[c] = "idle" => open = IF session = 0 THEN {} ELSE {session}
    /\ pc[c] = "opening" => session = 0 /\ open = {}
    /\ pc[c] \in {"entering", "initializing", "answered"} => session = 0 /\ open = {mine[c]}
    /\ pc[c] = "cleaning" => session = 0
    /\ pc[c] = "disconnecting" => ~raised[c]

LEMMA CalmThen ==
  ASSUME Calmness, calm, NEW c \in Tasks, Busy(c) \/ Idle
  PROVE  CalmAt(c) /\ \A d \in Tasks \ {c} : pc[d] = "idle"
<1>1. CASE Busy(c)
  BY <1>1 DEF Calmness, CalmAt, Busy
<1>2. CASE Idle
  BY <1>2 DEF Calmness, CalmAt, Busy, Idle
<1>. QED  BY <1>1, <1>2

LEMMA CalmIf ==
  ASSUME NEW c \in Tasks, calm' => CalmAt(c)' /\ \A d \in Tasks \ {c} : pc'[d] = "idle"
  PROVE  Calmness'
<1>1. calm' => \A d, e \in Tasks : Busy(d)' /\ Busy(e)' => d = e
  BY DEF Busy
<1>2. calm' /\ Idle' => open' = IF session' = 0 THEN {} ELSE {session'}
  BY DEF Busy, Idle, CalmAt
<1>3. ASSUME NEW d \in Tasks, calm' PROVE CalmAt(c)' /\ (d = c \/ pc'[d] = "idle")
  BY <1>3
<1>. QED  BY <1>1, <1>2, <1>3 DEF Calmness, CalmAt

\* A busy call that is the only one, where it is calm.
LEMMA CalmnessStep ==
  ASSUME ClientInv, [ClientNext]_clientVars
  PROVE  Calmness'
<1>. USE DEF ClientInv, ClientTypes, Goto, history
<1>1. ASSUME NEW c \in Tasks, Connect(c) PROVE Calmness'
  <2>1. (calm' => calm /\ Idle) /\ \A d \in Tasks \ {c} : pc'[d] = pc[d]
    BY <1>1 DEF Connect
  <2>2. calm' => CalmAt(c)'
    BY <1>1, <2>1, CalmThen DEF Connect, CalmAt
  <2>. QED  BY <2>1, <2>2, CalmThen, CalmIf
<1>2. ASSUME NEW c \in Tasks, Disconnect(c) PROVE Calmness'
  <2>1. (calm' => calm /\ Idle) /\ \A d \in Tasks \ {c} : pc'[d] = pc[d]
    BY <1>2 DEF Disconnect
  <2>2. calm' => CalmAt(c)'
    BY <1>2 DEF Disconnect, CalmAt
  <2>. QED  BY <2>1, <2>2, CalmThen, CalmIf
<1>3. ASSUME NEW c \in Tasks, Refused(c) PROVE Calmness'
  <2>1. Busy(c) /\ (calm' => calm) /\ \A d \in Tasks \ {c} : pc'[d] = pc[d]
    BY <1>3 DEF Refused, Busy
  <2>2. calm' => CalmAt(c)'
    BY <1>3, <2>1, CalmThen DEF Refused, CalmAt, Busy
  <2>. QED  BY <2>1, <2>2, CalmThen, CalmIf
<1>4. ASSUME NEW c \in Tasks, Opened(c) PROVE Calmness'
  <2>1. Busy(c) /\ (calm' => calm) /\ \A d \in Tasks \ {c} : pc'[d] = pc[d]
    BY <1>4 DEF Opened, Busy
  <2>2. calm' => CalmAt(c)'
    BY <1>4, <2>1, CalmThen DEF Opened, CalmAt, Busy
  <2>. QED  BY <2>1, <2>2, CalmThen, CalmIf
<1>5. ASSUME NEW c \in Tasks, Entered(c) PROVE Calmness'
  <2>1. Busy(c) /\ (calm' => calm) /\ \A d \in Tasks \ {c} : pc'[d] = pc[d]
    BY <1>5 DEF Entered, Busy
  <2>2. calm' => CalmAt(c)'
    BY <1>5, <2>1, CalmThen DEF Entered, CalmAt, Busy
  <2>. QED  BY <2>1, <2>2, CalmThen, CalmIf
<1>6. ASSUME NEW c \in Tasks, Responded(c) PROVE Calmness'
  <2>1. Busy(c) /\ (calm' => calm) /\ \A d \in Tasks \ {c} : pc'[d] = pc[d]
    BY <1>6 DEF Responded, Busy
  <2>2. calm' => CalmAt(c)'
    BY <1>6, <2>1, CalmThen DEF Responded, CalmAt, Busy
  <2>. QED  BY <2>1, <2>2, CalmThen, CalmIf
<1>7. ASSUME NEW c \in Tasks, Publishes(c) PROVE Calmness'
  <2>1. Busy(c) /\ (calm' => calm) /\ \A d \in Tasks \ {c} : pc'[d] = pc[d]
    BY <1>7 DEF Publishes, Busy
  <2>2. calm' => CalmAt(c)'
    BY <1>7, <2>1, CalmThen DEF Publishes, CalmAt, Busy
  <2>. QED  BY <2>1, <2>2, CalmThen, CalmIf
<1>8. ASSUME NEW c \in Tasks, StepFails(c) PROVE Calmness'
  <2>1. Busy(c) /\ (calm' => calm) /\ \A d \in Tasks \ {c} : pc'[d] = pc[d]
    BY <1>8 DEF StepFails, Busy
  <2>2. calm' => CalmAt(c)'
    BY <1>8, <2>1, CalmThen DEF StepFails, CalmAt, Busy
  <2>. QED  BY <2>1, <2>2, CalmThen, CalmIf
<1>9. ASSUME NEW c \in Tasks, TakesOff(c) PROVE Calmness'
  <2>1. Busy(c) /\ (calm' => calm) /\ \A d \in Tasks \ {c} : pc'[d] = pc[d]
    BY <1>9 DEF TakesOff, Busy, Closing
  <2>2. calm' => CalmAt(c)'
    BY <1>9, <2>1, CalmThen DEF TakesOff, CalmAt, Busy, Closing
  <2>. QED  BY <2>1, <2>2, CalmThen, CalmIf
<1>10. ASSUME NEW c \in Tasks, Leaves(c) PROVE Calmness'
  <2>1. Busy(c) /\ (calm' => calm) /\ \A d \in Tasks \ {c} : pc'[d] = pc[d]
    BY <1>10 DEF Leaves, Busy, Closing
  <2>2. calm' => CalmAt(c)'
    BY <1>10, <2>1, CalmThen DEF Leaves, CalmAt, Busy, Closing
  <2>. QED  BY <2>1, <2>2, CalmThen, CalmIf
<1>11. ASSUME NEW c \in Tasks, stack = <<>>, taken[c] = 0, \A d \in Tasks \ {c} : ~Busy(d)
       PROVE  open = {}
  BY <1>11 DEF Held, NothingEscapes, IsOnStack, Closing, Busy
<1>12. ASSUME NEW c \in Tasks, CleanedUp(c) PROVE Calmness'
  <2>1. Busy(c) /\ (calm' => calm) /\ \A d \in Tasks \ {c} : pc'[d] = pc[d]
    BY <1>12 DEF CleanedUp, Busy
  <2>2. calm' => session = 0 /\ open = {}
    BY <1>11, <1>12, <2>1, CalmThen DEF CleanedUp, CalmAt, Busy
  <2>3. calm' => CalmAt(c)'
    BY <1>12, <2>2 DEF CleanedUp, CalmAt
  <2>. QED  BY <2>1, <2>3, CalmThen, CalmIf
<1>13. ASSUME NEW c \in Tasks, Disconnected(c) PROVE Calmness'
  <2>1. Busy(c) /\ \A d \in Tasks \ {c} : pc'[d] = pc[d]
    BY <1>13 DEF Disconnected, Busy
  <2>2. calm' => ~raised[c] /\ \A d \in Tasks \ {c} : pc[d] = "idle"
    <3>1. CASE calm
      BY <1>13, <2>1, <3>1, CalmThen DEF Disconnected, CalmAt
    <3>2. CASE c \in alone /\ ~raised[c]
      BY <3>2 DEF Lonely, Busy
    <3>. QED  BY <1>13, <3>1, <3>2 DEF Disconnected
  <2>3. calm' => open = {}
    BY <1>11, <1>13, <2>2 DEF Disconnected, Busy
  <2>4. calm' => CalmAt(c)'
    BY <1>13, <2>2, <2>3 DEF Disconnected, CalmAt
  <2>. QED  BY <2>1, <2>2, <2>4, CalmIf
<1>14. CASE UNCHANGED clientVars
  BY <1>14 DEF clientVars, call, Calmness, Busy, Idle
<1>. QED
  BY <1>1, <1>2, <1>3, <1>4, <1>5, <1>6, <1>7, <1>8, <1>9, <1>10, <1>12, <1>13, <1>14 DEF ClientNext

LEMMA ClientStep == ClientInv /\ [ClientNext]_clientVars => ClientInv'
  BY ClientTypeStep, ClientReachStep, LonelyStep, CalmnessStep DEF ClientInv

\* Theorem: however connect() and disconnect() overlap, fail and are cancelled, a
\* transport that is open is one the next disconnect() closes.
THEOREM TransportsInReach == ClientSpec => []NothingEscapes
<1>1. ClientInv => NothingEscapes
  BY DEF ClientInv
<1>. QED  BY <1>1, ClientStart, ClientStep, PTL DEF ClientSpec

\* Theorem: calls in turn keep session and transport together, and one
\* disconnect() that runs alone and returns makes up for any that did not.
THEOREM SessionMatchesTransport == ClientSpec => []Consistent
<1>1. ClientInv => Consistent
  BY DEF ClientInv, Calmness, Consistent
<1>. QED  BY <1>1, ClientStart, ClientStep, PTL DEF ClientSpec

-----------------------------------------------------------------------------
(* Tunnel *)

\* As long as start() and stop() take turns, what runs and was not let go of is
\* the process of the attempt, which _process names, and there is none where one
\* was killed or is to be spawned.
OneProcess == inTurn =>
    /\ start = "idle" \/ stop = "idle"
    /\ running \ dropped \subseteq {tracked}
    /\ start \in {"spawning", "killing"} \/ stop = "killing" => running \subseteq dropped
    /\ start \in {"reading", "reaching"} => own = tracked
    /\ start = "idle" /\ outcome = "failed" => running \subseteq dropped

LEMMA OneProcessStep == OneProcess /\ Cloudflare!Next => OneProcess'
<1>. SUFFICES ASSUME OneProcess, Cloudflare!Next PROVE OneProcess'
  OBVIOUS
<1>. USE DEF OneProcess, Cloudflare!processes
<1>1. CASE Cloudflare!Start \/ Cloudflare!SeesUrl \/ Cloudflare!Reaches
  BY <1>1 DEF Cloudflare!Start, Cloudflare!SeesUrl, Cloudflare!Reaches
<1>2. CASE Cloudflare!GivesUp \/ Cloudflare!Exits
  BY <1>2 DEF Cloudflare!GivesUp, Cloudflare!Exits
<1>3. CASE Cloudflare!Spawns
  BY <1>3 DEF Cloudflare!Spawns
<1>4. CASE Cloudflare!SeesEnd
  BY <1>4 DEF Cloudflare!SeesEnd, Cloudflare!AttemptFails
<1>5. CASE Cloudflare!TimesOut
  BY <1>5 DEF Cloudflare!TimesOut
<1>6. CASE Cloudflare!Killed
  BY <1>6 DEF Cloudflare!Killed, Cloudflare!AttemptFails
<1>7. CASE Cloudflare!Stop \/ Cloudflare!Stopped \/ Cloudflare!StopCancelled
  BY <1>7 DEF Cloudflare!Stop, Cloudflare!Stopped, Cloudflare!StopCancelled
<1>. QED
  BY <1>1, <1>2, <1>3, <1>4, <1>5, <1>6, <1>7
  DEF Cloudflare!Next, Cloudflare!Progress

\* As long as they take turns and no command fails, a Funnel is one that start()
\* is about to learn of, or that stop() knows of.
FunnelKnown == inTurn /\ ~botched =>
    /\ command => start = "configuring"
    /\ start = "configuring" => stop = "idle"
    /\ funnel /\ start = "idle" => started

LEMMA FunnelKnownStep == FunnelKnown /\ Tailscale!Next => FunnelKnown'
<1>. SUFFICES ASSUME FunnelKnown, Tailscale!Next PROVE FunnelKnown'
  OBVIOUS
<1>. USE DEF FunnelKnown
<1>1. CASE Tailscale!Start \/ Tailscale!Configures \/ Tailscale!ReturnsUrl
  BY <1>1 DEF Tailscale!Start, Tailscale!Configures, Tailscale!ReturnsUrl
<1>2. CASE Tailscale!Fails \/ Tailscale!GivesUp
  BY <1>2 DEF Tailscale!Fails, Tailscale!GivesUp
<1>3. CASE Tailscale!Stop \/ Tailscale!Resets \/ Tailscale!StopCancelled
  BY <1>3 DEF Tailscale!Stop, Tailscale!Resets, Tailscale!StopCancelled
<1>. QED
  BY <1>1, <1>2, <1>3 DEF Tailscale!Next, Tailscale!Progress

\* Whichever provider was selected, the other one's state stays as it was.
TunnelInv == (provider = "cloudflare" => OneProcess) /\ (provider # "cloudflare" => FunnelKnown)

\* Theorem: no tunnel is up that stop() would not take down, and none of an attempt
\* that has failed - unless start() and stop() overlap, a cloudflared closes its
\* output and runs on, it runs when start() is called again, or, with Tailscale, a
\* start() did not return its URL or a reset failed.
THEOREM StopTakesDownAll == TunnelSpec => []NoStray
<1>1. TunnelInit => TunnelInv
  BY DEF TunnelInit, Cloudflare!Init, Tailscale!Init, TunnelInv, OneProcess,
     FunnelKnown
<1>2. TunnelInv /\ [TunnelNext]_tunnelVars => TunnelInv'
  <2>. SUFFICES ASSUME TunnelInv, [TunnelNext]_tunnelVars PROVE TunnelInv'
    OBVIOUS
  <2>1. CASE CloudflareNext
    BY <2>1, OneProcessStep DEF CloudflareNext, TunnelInv
  <2>2. CASE TailscaleNext
    BY <2>2, FunnelKnownStep DEF TailscaleNext, TunnelInv
  <2>3. CASE UNCHANGED tunnelVars
    BY <2>3 DEF tunnelVars, cloudflareOnly, tailscaleOnly, TunnelInv, OneProcess,
       FunnelKnown
  <2>. QED  BY <2>1, <2>2, <2>3 DEF TunnelNext
<1>3. TunnelInv => NoStray
  BY DEF TunnelInv, OneProcess, FunnelKnown, NoStray, Cloudflare!Stray,
     Tailscale!Stray
<1>. QED
  BY <1>1, <1>2, <1>3, PTL DEF TunnelSpec

-----------------------------------------------------------------------------
(* MemoryManager: long-term memory *)

StoreProofs == INSTANCE WriteThroughProofs WITH Values <- Items, NoValue <- NoItem

\* StoreProofs speaks of the same store.
LEMMA SameInit == LongTerm!Init <=> StoreProofs!Init
  BY DEF LongTerm!Init, StoreProofs!Init, LongTerm!Empty, StoreProofs!Empty

LEMMA SameNext == [LongTerm!Next]_storeVars <=> [StoreProofs!Next]_StoreProofs!vars
  BY DEF LongTerm!Next, StoreProofs!Next, StoreProofs!vars, storeVars,
     LongTerm!Snapshots, StoreProofs!Snapshots, LongTerm!Empty, StoreProofs!Empty,
     LongTerm!Unsaved, StoreProofs!Unsaved, LongTerm!InFlight, StoreProofs!InFlight,
     LongTerm!Ends, StoreProofs!Ends, LongTerm!Settles, StoreProofs!Settles,
     LongTerm!Fails, StoreProofs!Fails, LongTerm!Change, StoreProofs!Change,
     LongTerm!TakesEffect, StoreProofs!TakesEffect, LongTerm!Returns, StoreProofs!Returns,
     LongTerm!Raises, StoreProofs!Raises, LongTerm!IsCancelled, StoreProofs!IsCancelled,
     LongTerm!Restart, StoreProofs!Restart

\* The operations of the manager are steps of the store, or none.
LEMMA StoreStep ==
  ASSUME live \in LongTerm!Snapshots, [Next]_vars
  PROVE  [LongTerm!Next]_storeVars
<1>1. ASSUME NEW c \in Callers, NEW s \in Scopes, NEW i \in Ids, NEW item \in Items \cup {NoItem},
             LongTerm!Change(c, [live EXCEPT ![<<s, i>>] = item])
      PROVE  LongTerm!Next
  <2>1. [live EXCEPT ![<<s, i>>] = item] \in LongTerm!Snapshots
    BY DEF LongTerm!Snapshots, Keys
  <2>. QED  BY <1>1, <2>1 DEF LongTerm!Next
<1>2. ASSUME NEW c \in Callers, StoreAnswers(c) PROVE LongTerm!Next
  BY <1>2 DEF StoreAnswers, LongTerm!Next
<1>3. CASE Restart
  BY <1>3 DEF Restart, LongTerm!Next
<1>4. ASSUME NEW s \in Scopes,
             Clear(s) \/ \E k \in WorkingKeys, value \in Values : Remember(s, k, value)
      PROVE  UNCHANGED storeVars
  BY <1>4 DEF Clear, Remember
<1>5. CASE CompactionNext \/ UNCHANGED vars
  BY <1>5 DEF CompactionNext, vars
<1>. QED
  BY <1>1, <1>2, <1>3, <1>4, <1>5 DEF Next, StoresNext, Write, Forget

\* Theorem: with a blob store that completes calls in the order made, every item
\* written or forgotten is so in the blob once the call has returned, in each scope.
THEOREM LongTermSurvives == InOrder => (Spec => []LongTermIsDurable)
<1>. SUFFICES ASSUME InOrder PROVE Spec => []LongTermIsDurable
  OBVIOUS
<1>0. StoreProofs!StoreAssumption
  BY MemoryAssumption DEF StoreProofs!StoreAssumption
<1>1. Init => StoreProofs!Init
  BY SameInit DEF Init
<1>2. StoreProofs!Init => StoreProofs!TypeOK
  BY <1>0 DEF StoreProofs!Init, StoreProofs!TypeOK, StoreProofs!Snapshots, StoreProofs!Empty,
     StoreProofs!InFlight, StoreProofs!StoreAssumption
<1>3. StoreProofs!TypeOK /\ [Next]_vars => [StoreProofs!Next]_StoreProofs!vars
  BY StoreStep, SameNext DEF StoreProofs!TypeOK, StoreProofs!Snapshots, LongTerm!Snapshots
<1>4. StoreProofs!TypeOK /\ [StoreProofs!Next]_StoreProofs!vars => StoreProofs!TypeOK'
  BY <1>0, StoreProofs!TypeStep
<1>5. StoreProofs!Spec => []StoreProofs!Durable
  BY <1>0, StoreProofs!AcknowledgedIsSaved
<1>6. StoreProofs!Durable => LongTermIsDurable
  BY DEF StoreProofs!Durable, LongTermIsDurable, LongTerm!Durable
<1>. QED
  BY <1>1, <1>2, <1>3, <1>4, <1>5, <1>6, PTL DEF Spec, StoreProofs!Spec

-----------------------------------------------------------------------------
(* Recursion over 0..n: the library's theorems are about operators, these are
   about sets and functions. *)

\* Induction, for a set instead of a predicate.
LEMMA ReachesAll ==
  ASSUME NEW n \in Nat, NEW T, 0 \in T, \A k \in 0..(n-1) : k \in T => k + 1 \in T
  PROVE  0..n \subseteq T
<1>. DEFINE Missing == (0..n) \ T
            Less    == OpToRel(<, Nat)
<1>. SUFFICES ASSUME Missing # {} PROVE FALSE
  OBVIOUS
<1>1. Missing \subseteq Nat
  OBVIOUS
<1>0. IsWellFoundedOn(Less, Nat)
  BY NatLessThanWellFounded
<1>2. PICK x \in Missing : \A y \in Missing : ~(<<y, x>> \in Less)
  <2>. HIDE DEF Missing, Less
  <2>. QED  BY <1>0, <1>1, WFMin
<1>3. \A y \in Missing : ~(y < x)
  BY <1>1, <1>2 DEF OpToRel
<1>4. x - 1 \in 0..(n-1) /\ x - 1 \notin Missing
  BY <1>3
<1>. QED  BY <1>4

\* f is what one obtains from base by n steps.
Recurses(f, n, S, base, step) ==
    /\ f \in [0..n -> S] /\ f[0] = base
    /\ \A k \in 1..n : f[k] = step[<<k, f[k-1]>>]

\* A function that is defined by recursion over 0..n is one.
LEMMA RecursionExists ==
  ASSUME NEW n \in Nat, NEW S, NEW base \in S, NEW step \in [(1..n) \X S -> S]
  PROVE  \E f : Recurses(f, n, S, base, step)
<1>. DEFINE Follows(f, m) == f[0] = base /\ \A k \in 1..m : f[k] = step[<<k, f[k-1]>>]
            T == {m \in 0..n : \E f \in [0..m -> S] : Follows(f, m)}
<1>1. 0 \in T
  <2>. DEFINE f == [k \in 0..0 |-> base]
  <2>1. f \in [0..0 -> S] /\ Follows(f, 0)
    OBVIOUS
  <2>2. 0 \in 0..n
    OBVIOUS
  <2>. HIDE DEF f, Follows
  <2>. QED  BY <2>1, <2>2
<1>2. ASSUME NEW m \in 0..(n-1), m \in T PROVE m + 1 \in T
  <2>1. PICK f \in [0..m -> S] : Follows(f, m)
    BY <1>2
  <2>. DEFINE g == [k \in 0..(m+1) |-> IF k <= m THEN f[k] ELSE step[<<m + 1, f[m]>>]]
  <2>2. g \in [0..(m+1) -> S]
    <3>1. <<m + 1, f[m]>> \in (1..n) \X S
      OBVIOUS
    <3>2. step[<<m + 1, f[m]>>] \in S
      BY <3>1
    <3>. QED  BY <3>2
  <2>3. Follows(g, m + 1)
    <3>1. g[0] = base
      BY <2>1
    <3>2. ASSUME NEW k \in 1..(m+1) PROVE g[k] = step[<<k, g[k-1]>>]
      <4>1. CASE k <= m
        BY <2>1, <4>1
      <4>2. CASE k = m + 1
        <5>1. g[k] = step[<<m + 1, f[m]>>] /\ g[k-1] = f[m]
          BY <4>2
        <5>. QED  BY <4>2, <5>1
      <4>. QED  BY <4>1, <4>2
    <3>. QED  BY <3>1, <3>2
  <2>. HIDE DEF g, Follows
  <2>4. m + 1 \in 0..n
    OBVIOUS
  <2>. QED  BY <2>2, <2>3, <2>4
<1>3. n \in T
  <2>. HIDE DEF T
  <2>1. 0..n \subseteq T
    BY <1>1, <1>2, ReachesAll
  <2>. QED  BY <2>1
<1>4. PICK f \in [0..n -> S] : Follows(f, n)
  BY <1>3
<1>5. Recurses(f, n, S, base, step)
  BY <1>4 DEF Recurses
<1>. QED  BY <1>5

-----------------------------------------------------------------------------
(* MemoryManager: which messages are kept *)

Length == Len(messages)

\* What compact() is given
Given ==
    /\ Length \in Nat /\ budget \in Int
    /\ \A k \in 1..Length : Recency!Newest(k).tokens \in Nat

\* Tokens is the sum that its definition says it is.
LEMMA TokensAre ==
  ASSUME Given
  PROVE  /\ Recency!Tokens \in [0..Length -> Nat] /\ Recency!Tokens[0] = 0
         /\ \A k \in 1..Length : Recency!Tokens[k] = Recency!Tokens[k-1] + Recency!Newest(k).tokens
<1>. DEFINE step == [p \in (1..Length) \X Nat |-> p[2] + Recency!Newest(p[1]).tokens]
            Is(f) == f = [k \in 0..Length |->
                            IF k = 0 THEN 0 ELSE f[k-1] + Recency!Newest(k).tokens]
<1>1. step \in [(1..Length) \X Nat -> Nat]
  BY DEF Given
<1>2. PICK f : Recurses(f, Length, Nat, 0, step)
  <2>1. Length \in Nat /\ 0 \in Nat
    BY DEF Given
  <2>. HIDE DEF step, Is
  <2>. QED  BY <1>1, <2>1, RecursionExists
<1>3. Is(f)
  <2>2. f \in [0..Length -> Nat] /\ f[0] = 0
    BY <1>2 DEF Recurses
  <2>1. ASSUME NEW k \in 1..Length PROVE f[k] = f[k-1] + Recency!Newest(k).tokens
    <3>1. <<k, f[k-1]>> \in (1..Length) \X Nat
      BY <2>2 DEF Given
    <3>. QED  BY <1>2, <3>1 DEF Recurses
  <2>. QED  BY <2>1, <2>2 DEF Given
<1>4. Is(Recency!Tokens)
  BY <1>3 DEF Recency!Tokens, Length
<1>5. Recency!Tokens[0] = 0 /\ \A k \in 1..Length :
        Recency!Tokens[k] = Recency!Tokens[k-1] + Recency!Newest(k).tokens
  BY <1>4 DEF Given
<1>6. \A k \in 0..Length : Recency!Tokens[k] \in Nat
  <2>. DEFINE T == {k \in 0..Length : Recency!Tokens[k] \in Nat}
  <2>1. Length \in Nat /\ 0 \in T
    BY <1>5 DEF Given
  <2>2. ASSUME NEW k \in 0..(Length-1), k \in T PROVE k + 1 \in T
    <3>1. k + 1 \in 1..Length /\ (k + 1) - 1 = k
      BY DEF Given
    <3>2. Recency!Tokens[k+1] = Recency!Tokens[k] + Recency!Newest(k+1).tokens
      BY <1>5, <3>1
    <3>3. Recency!Newest(k+1).tokens \in Nat
      BY <3>1 DEF Given
    <3>4. Recency!Tokens[k+1] \in Nat
      BY <2>2, <3>2, <3>3
    <3>. QED  BY <3>1, <3>4
  <2>3. 0..Length \subseteq T
    <3>. HIDE DEF T
    <3>. QED  BY <2>1, <2>2, ReachesAll
  <2>. QED  BY <2>3
<1>. QED  BY <1>4, <1>5, <1>6

\* One round of the loop of _select_preserved().
Round(k, before) ==
    LET total == before.total + Recency!Newest(k).tokens
    IN  IF before.kept = k-1 /\ k <= PreserveLastN /\ total <= budget
          THEN [kept |-> k, total |-> total] ELSE before

\* Preserved is what the rounds leave.
LEMMA PreservedAre ==
  ASSUME Given
  PROVE  /\ Recency!Preserved[0] = [kept |-> 0, total |-> 0]
         /\ \A k \in 1..Length : Recency!Preserved[k] = Round(k, Recency!Preserved[k-1])
<1>. DEFINE S == [kept : Nat, total : Nat]
            base == [kept |-> 0, total |-> 0]
            step == [p \in (1..Length) \X S |-> Round(p[1], p[2])]
            Is(f) == f = [k \in 0..Length |->
                            IF k = 0 THEN base ELSE Round(k, f[k-1])]
<1>1. step \in [(1..Length) \X S -> S]
  <2>1. ASSUME NEW k \in 1..Length, NEW before \in S PROVE Round(k, before) \in S
    <3>1. before.total + Recency!Newest(k).tokens \in Nat /\ k \in Nat
      BY DEF Given
    <3>. QED  BY <3>1 DEF Round
  <2>. HIDE DEF S
  <2>. QED  BY <2>1
<1>2. PICK f : Recurses(f, Length, S, base, step)
  <2>1. Length \in Nat /\ base \in S
    BY DEF Given
  <2>. HIDE DEF step, Is, S, base
  <2>. QED  BY <1>1, <2>1, RecursionExists
<1>3. Is(f)
  <2>. HIDE DEF S, base
  <2>1. f \in [0..Length -> S] /\ f[0] = base
    BY <1>2 DEF Recurses
  <2>2. ASSUME NEW k \in 1..Length PROVE f[k] = Round(k, f[k-1])
    <3>1. <<k, f[k-1]>> \in (1..Length) \X S
      BY <2>1 DEF Given
    <3>. QED  BY <1>2, <3>1 DEF Recurses
  <2>. QED  BY <2>1, <2>2 DEF Given
<1>4. Is(Recency!Preserved)
  BY <1>3 DEF Recency!Preserved, Length, Round
<1>5. ASSUME NEW k \in 1..Length PROVE Recency!Preserved[k] = Round(k, Recency!Preserved[k-1])
  <2>. HIDE DEF base, step, S
  <2>. QED  BY <1>4 DEF Given
<1>6. Recency!Preserved[0] = base
  BY <1>4 DEF Given
<1>. QED  BY <1>5, <1>6

\* With more messages there are more tokens.
LEMMA TokensGrow ==
  ASSUME Given
  PROVE  \A i \in 0..Length : \A j \in 0..i : Recency!Tokens[j] <= Recency!Tokens[i]
<1>. DEFINE T == {i \in 0..Length : \A j \in 0..i : Recency!Tokens[j] <= Recency!Tokens[i]}
<1>1. \A i \in 0..Length : Recency!Tokens[i] \in Nat
  BY TokensAre
<1>2. Length \in Nat /\ 0 \in T
  BY <1>1 DEF Given
<1>3. ASSUME NEW i \in 0..(Length-1), i \in T PROVE i + 1 \in T
  <2>1. i + 1 \in 1..Length /\ (i + 1) - 1 = i /\ i \in 0..Length
    BY DEF Given
  <2>2. Recency!Tokens[i+1] = Recency!Tokens[i] + Recency!Newest(i+1).tokens
    BY <2>1, TokensAre
  <2>3. Recency!Newest(i+1).tokens \in Nat
    BY <2>1 DEF Given
  <2>4. Recency!Tokens[i] <= Recency!Tokens[i+1]
    BY <1>1, <2>1, <2>2, <2>3
  <2>5. ASSUME NEW j \in 0..(i+1) PROVE Recency!Tokens[j] <= Recency!Tokens[i+1]
    <3>1. CASE j = i + 1
      BY <1>1, <2>1, <3>1
    <3>2. CASE j \in 0..i
      <4>1. j \in 0..Length
        BY <1>2, <2>1, <3>2
      <4>. QED  BY <1>1, <1>3, <2>1, <2>4, <3>2, <4>1
    <3>. QED  BY <3>1, <3>2
  <2>. QED  BY <2>1, <2>5
<1>4. 0..Length \subseteq T
  <2>. HIDE DEF T
  <2>. QED  BY <1>2, <1>3, ReachesAll
<1>. QED  BY <1>4

\* After k rounds: what is kept is within the limit, its tokens are counted and fit,
\* and if the loop has stopped the next message was too much.
Loop(k, p) ==
    /\ p.kept \in 0..k /\ p.kept <= PreserveLastN
    /\ p.total = Recency!Tokens[p.kept]
    /\ p.kept > 0 => p.total <= budget
    /\ p.kept < k => p.kept >= PreserveLastN \/ Recency!Tokens[p.kept + 1] > budget

LEMMA LoopHolds ==
  ASSUME Given
  PROVE  Loop(Length, Recency!Preserved[Length])
<1>. DEFINE T == {k \in 0..Length : Loop(k, Recency!Preserved[k])}
<1>. Length \in Nat /\ PreserveLastN \in Nat
  BY MemoryAssumption DEF Given
<1>1. 0 \in T
  BY PreservedAre, TokensAre DEF Loop
<1>2. ASSUME NEW k \in 0..(Length-1), k \in T PROVE k + 1 \in T
  <2>. DEFINE p == Recency!Preserved[k]
  <2>1. k + 1 \in 1..Length /\ (k + 1) - 1 = k
    OBVIOUS
  <2>2. Recency!Preserved[k+1] = Round(k+1, p)
    BY <2>1, PreservedAre
  <2>3. Loop(k, p)
    BY <1>2
  <2>4. p.kept = k => p.total + Recency!Newest(k+1).tokens = Recency!Tokens[k+1]
    BY <2>1, <2>3, TokensAre DEF Loop
  <2>. HIDE DEF p
  <2>5. CASE p.kept = k /\ k + 1 <= PreserveLastN /\ Recency!Tokens[k+1] <= budget
    <3>1. Round(k+1, p) = [kept |-> k + 1, total |-> Recency!Tokens[k+1]]
      BY <2>1, <2>4, <2>5 DEF Round
    <3>2. Loop(k+1, Round(k+1, p))
      BY <2>1, <2>5, <3>1 DEF Loop
    <3>. QED  BY <2>1, <2>2, <3>2
  <2>6. CASE ~(p.kept = k /\ k + 1 <= PreserveLastN /\ Recency!Tokens[k+1] <= budget)
    <3>1. Round(k+1, p) = p
      BY <2>1, <2>4, <2>6 DEF Round
    <3>2. Recency!Tokens[k+1] \in Nat /\ budget \in Int
      BY <2>1, TokensAre DEF Given
    <3>3. Loop(k+1, p)
      <4>1. CASE p.kept = k
        BY <2>3, <2>6, <3>2, <4>1 DEF Loop
      <4>2. CASE p.kept < k
        BY <2>3, <4>2 DEF Loop
      <4>. QED  BY <2>3, <4>1, <4>2 DEF Loop
    <3>. QED  BY <2>1, <2>2, <3>1, <3>3
  <2>. QED  BY <2>5, <2>6
<1>3. 0..Length \subseteq T
  <2>. HIDE DEF T
  <2>. QED  BY <1>1, <1>2, ReachesAll
<1>. QED  BY <1>3

LEMMA MaxIs ==
  ASSUME NEW S, S \subseteq Int, NEW m \in S, \A x \in S : m >= x
  PROVE  Max(S) = m
<1>1. \A x \in S : (\A y \in S : x >= y) => x = m
  OBVIOUS
<1>. QED  BY <1>1 DEF Max

LEMMA MinIsLess ==
  ASSUME NEW i \in Int, NEW j \in Int
  PROVE  Min({i, j}) = IF i <= j THEN i ELSE j
<1>. DEFINE m == IF i <= j THEN i ELSE j
<1>1. m \in {i, j} /\ (\A y \in {i, j} : m <= y)
  OBVIOUS
<1>2. \A x \in {i, j} : (\A y \in {i, j} : x <= y) => x = m
  OBVIOUS
<1>. QED  BY <1>1, <1>2 DEF Min

LEMMA KeptIsMax ==
  ASSUME Given
  PROVE  Recency!Kept = Max({0} \cup {k \in 1..Min({PreserveLastN, Length}) :
                                        Recency!Tokens[k] <= budget})
<1>. DEFINE limit == Min({PreserveLastN, Length})
            S     == {0} \cup {k \in 1..limit : Recency!Tokens[k] <= budget}
            kept  == Recency!Kept
<1>0. Length \in Nat /\ PreserveLastN \in Nat /\ budget \in Int
  BY MemoryAssumption DEF Given
<1>1. limit = IF PreserveLastN <= Length THEN PreserveLastN ELSE Length
  BY <1>0, MinIsLess
<1>2. /\ kept \in 0..Length /\ kept <= PreserveLastN
      /\ kept > 0 => Recency!Tokens[kept] <= budget
      /\ kept < Length => kept >= PreserveLastN \/ Recency!Tokens[kept + 1] > budget
  BY LoopHolds DEF Loop, Recency!Kept, Length
<1>. HIDE DEF kept, limit
<1>3. S \subseteq Int /\ kept \in S
  BY <1>0, <1>1, <1>2
<1>4. ASSUME NEW k \in S, ~(kept >= k) PROVE FALSE
  <2>1. k \in 1..limit /\ Recency!Tokens[k] <= budget
    BY <1>2, <1>4
  <2>2. kept + 1 \in 0..k /\ k \in 0..Length /\ kept < Length /\ ~(kept >= PreserveLastN)
    BY <1>0, <1>1, <1>2, <1>4, <2>1
  <2>3. Recency!Tokens[kept + 1] <= Recency!Tokens[k]
    BY <2>2, TokensGrow
  <2>4. Recency!Tokens[kept + 1] \in Nat /\ Recency!Tokens[k] \in Nat
    BY <1>0, <2>2, TokensAre
  <2>. QED  BY <1>0, <1>2, <2>1, <2>2, <2>3, <2>4
<1>5. \A k \in S : kept >= k
  BY <1>4
<1>6. Max(S) = kept
  <2>. HIDE DEF S
  <2>. QED  BY <1>3, <1>5, MaxIs
<1>. QED  BY <1>6 DEF limit, kept

\* The messages and the budget of a call are those it was made with.
CallInv == messages \in Inputs \cup {<<>>} /\ budget \in Int

LEMMA CallIsGiven ==
  ASSUME CallInv
  PROVE  Given
<1>. DEFINE M == {messages[i] : i \in DOMAIN messages}
<1>1. messages \in Seq(M) /\ \A i \in DOMAIN messages : messages[i].tokens \in Nat
  <2>1. CASE messages \in Inputs
    BY <2>1, MemoryAssumption
  <2>2. CASE messages = <<>>
    BY <2>2
  <2>. QED  BY <2>1, <2>2 DEF CallInv
<1>. HIDE DEF M
<1>2. Length \in Nat /\ DOMAIN messages = 1..Length
  BY <1>1 DEF Length
<1>3. ASSUME NEW k \in 1..Length PROVE Recency!Newest(k).tokens \in Nat
  <2>1. Length - k + 1 \in 1..Length
    BY <1>2
  <2>. QED  BY <1>1, <1>2, <2>1 DEF Recency!Newest, Length
<1>. QED  BY <1>2, <1>3 DEF Given, CallInv

LEMMA CallInvKept ==
  ASSUME CallInv, [Next]_vars
  PROVE  CallInv'
<1>1. ASSUME NEW input \in Inputs, NEW tokens \in Budgets, Recency!Compact(input, tokens)
      PROVE  CallInv'
  BY <1>1, MemoryAssumption DEF CallInv, Recency!Compact
<1>2. ASSUME NEW text \in Recency!Summaries,
             Recency!Summarized(text) \/ Recency!RetryAnswers(text)
      PROVE  CallInv'
  BY <1>2 DEF CallInv, Recency!Summarized, Recency!RetryAnswers
<1>3. ASSUME Recency!SummarizerRaises \/ Recency!RetryRaises
      PROVE  CallInv'
  BY <1>3 DEF CallInv, Recency!SummarizerRaises, Recency!RetryRaises
<1>4. CASE StoresNext \/ UNCHANGED vars
  BY <1>4 DEF CallInv, StoresNext, vars, callVars
<1>. QED
  BY <1>1, <1>2, <1>3, <1>4 DEF Next, CompactionNext, Recency!Next

LEMMA CallInvariant == Spec => []CallInv
<1>1. Init => CallInv
  BY DEF Init, Recency!Init, CallInv
<1>2. CallInv /\ [Next]_vars => CallInv'
  BY CallInvKept
<1>. QED
  BY <1>1, <1>2, PTL DEF Spec

\* Theorem: whatever the messages and the budget, the loop of _select_preserved()
\* keeps as many of the newest messages as the limit and the budget allow.
THEOREM KeepsTheMost == Spec => []KeepsAllThatFits
<1>1. CallInv => KeepsAllThatFits
  BY CallIsGiven, KeptIsMax DEF KeepsAllThatFits, Length
<1>. QED
  BY <1>1, CallInvariant, PTL

-----------------------------------------------------------------------------
(* MemoryManager: what a summary keeps *)

\* The source of a summary depends on the messages and the budget of the call.
LEMMA SameSource ==
  ASSUME UNCHANGED <<messages, budget>>
  PROVE  /\ Recency!Older' = Recency!Older
         /\ Recency!Source' = Recency!Source /\ Recency!Summaries' = Recency!Summaries
<1>1. Recency!Preserved' = Recency!Preserved
  BY DEF Recency!Preserved, Recency!Newest
<1>2. Recency!Older' = Recency!Older
  BY <1>1 DEF Recency!Older, Recency!Kept
<1>3. Recency!Source' = Recency!Source
  BY <1>2 DEF Recency!Source
<1>. QED
  BY <1>2, <1>3 DEF Recency!Summaries

\* Once there is a summary, it is of the source, and scored against it.
Scored == summary \in Recency!Summaries /\ score = Recency!Score(Recency!Source, summary)

SummaryInv ==
    /\ compaction \in {"idle", "summarizing", "retrying", "done", "failed"}
    /\ compaction \in {"idle", "summarizing"} => summary = Recency!NoText
    /\ compaction = "retrying" => Scored
    /\ compaction = "done" => \/ Scored
                              \/ Recency!Older = <<>> /\ summary = Recency!NoText

LEMMA SummaryInvKept ==
  ASSUME SummaryInv, [Next]_vars
  PROVE  SummaryInv'
<1>1. ASSUME NEW input \in Inputs, NEW tokens \in Budgets, Recency!Compact(input, tokens)
      PROVE  SummaryInv'
  BY <1>1 DEF SummaryInv, Recency!Compact
<1>2. ASSUME NEW text \in Recency!Summaries, Recency!Summarized(text)
      PROVE  SummaryInv'
  BY <1>2, SameSource DEF SummaryInv, Scored, Recency!Summarized
<1>3. ASSUME NEW text \in Recency!Summaries, Recency!RetryAnswers(text)
      PROVE  SummaryInv'
  BY <1>3, SameSource DEF SummaryInv, Scored, Recency!RetryAnswers
<1>4. CASE Recency!SummarizerRaises
  BY <1>4 DEF SummaryInv, Recency!SummarizerRaises
<1>5. CASE Recency!RetryRaises
  BY <1>5, SameSource DEF SummaryInv, Scored, Recency!RetryRaises
<1>6. CASE StoresNext \/ UNCHANGED vars
  BY <1>6, SameSource DEF SummaryInv, Scored, StoresNext, vars, callVars
<1>. QED
  BY <1>1, <1>2, <1>3, <1>4, <1>5, <1>6 DEF Next, CompactionNext, Recency!Next

\* The texts of a call are finite, and so are its source and what is a part of it.
LEMMA SourceIsFinite ==
  ASSUME CallInv
  PROVE  IsFiniteSet(Recency!Source.numbers) /\ IsFiniteSet(Recency!Source.words)
<1>1. /\ IsFiniteSet(DOMAIN messages)
      /\ \A i \in DOMAIN messages : IsFiniteSet(messages[i].numbers) /\ IsFiniteSet(messages[i].words)
  <2>1. CASE messages \in Inputs
    <3>1. \A i \in DOMAIN messages : IsFiniteSet(messages[i].numbers) /\ IsFiniteSet(messages[i].words)
      BY <2>1, MemoryAssumption
    <3>2. DOMAIN messages = 1..Len(messages) /\ Len(messages) \in Nat
      BY <2>1, MemoryAssumption
    <3>. QED  BY <3>1, <3>2, FS_Interval
  <2>2. CASE messages = <<>>
    BY <2>2, FS_EmptySet
  <2>. QED  BY <2>1, <2>2 DEF CallInv
<1>2. DOMAIN Recency!Older = 1..(Length - Recency!Kept) /\ Recency!Kept \in 0..Length
  <2>1. Recency!Kept \in 0..Length /\ Length \in Nat
    BY CallIsGiven, LoopHolds DEF Loop, Recency!Kept, Length, Given
  <2>. QED  BY <2>1 DEF Recency!Older, Length
<1>3. ASSUME NEW i \in DOMAIN Recency!Older
      PROVE  i \in DOMAIN messages /\ Recency!Older[i] = messages[i]
  <2>. DEFINE M == {messages[j] : j \in DOMAIN messages}
              n == Length - Recency!Kept
  <2>1. messages \in Seq(M)
    <3>1. CASE messages \in Inputs
      BY <3>1, MemoryAssumption
    <3>2. CASE messages = <<>>
      BY <3>2
    <3>. QED  BY <3>1, <3>2 DEF CallInv
  <2>. HIDE DEF M
  <2>2. DOMAIN messages = 1..Length /\ Length \in Nat
    BY <2>1 DEF Length
  <2>3. n \in Int /\ n <= Length /\ i \in 1..n
    BY <1>2, <2>2
  <2>4. \A j \in 1..n : messages[j] \in M
    BY <2>1, <2>2, <2>3
  <2>5. \A j \in 1..n-1+1 : SubSeq(messages, 1, n)[j] = messages[1+j-1]
    <3>. HIDE DEF n
    <3>. QED  BY <2>3, <2>4, SubSeqProperties
  <2>6. Recency!Older = SubSeq(messages, 1, n)
    BY DEF Recency!Older, Length
  <2>. HIDE DEF n
  <2>. QED  BY <2>2, <2>3, <2>5, <2>6
<1>4. IsFiniteSet(DOMAIN Recency!Older)
  BY <1>1, <1>3, FS_Subset
<1>5. ASSUME NEW Texts, Texts = {Recency!Older[i].numbers : i \in DOMAIN Recency!Older}
      PROVE  IsFiniteSet(UNION Texts)
  <2>1. IsFiniteSet(Texts)
    <3>1. [i \in DOMAIN Recency!Older |-> Recency!Older[i].numbers]
            \in Surjection(DOMAIN Recency!Older, Texts)
      BY <1>5 DEF Surjection
    <3>. QED  BY <1>4, <3>1, FS_Surjection
  <2>. QED  BY <1>1, <1>3, <1>5, <2>1, FS_UNION
<1>6. ASSUME NEW Texts, Texts = {Recency!Older[i].words : i \in DOMAIN Recency!Older}
      PROVE  IsFiniteSet(UNION Texts)
  <2>1. IsFiniteSet(Texts)
    <3>1. [i \in DOMAIN Recency!Older |-> Recency!Older[i].words]
            \in Surjection(DOMAIN Recency!Older, Texts)
      BY <1>6 DEF Surjection
    <3>. QED  BY <1>4, <3>1, FS_Surjection
  <2>. QED  BY <1>1, <1>3, <1>6, <2>1, FS_UNION
<1>. QED
  BY <1>5, <1>6 DEF Recency!Source

LEMMA Scaled ==
  ASSUME NEW x \in Nat, NEW y \in Nat, NEW z \in Nat, x <= y
  PROVE  x * z <= y * z
<1>1. PICK d \in Nat : y = x + d
  <2>1. y - x \in Nat /\ y = x + (y - x)
    OBVIOUS
  <2>. QED  BY <2>1
<1>2. y * z = x * z + d * z
  BY <1>1
<1>3. x * z \in Nat /\ d * z \in Nat
  OBVIOUS
<1>. QED  BY <1>2, <1>3

\* N numbers and W words, of which a summary has n and w: at 550 thousandths it
\* has a quarter of the numbers even if it has all the words.
LEMMA NumbersWeigh ==
  ASSUME NEW N \in Nat, NEW W \in Nat, NEW n \in Nat, NEW w \in Nat, w <= W, W >= 1,
         NEW t \in Nat, t >= 550,
         600 * n * W + 400 * w * N >= t * (N * W)
  PROVE  4 * n >= N
<1>. DEFINE NW == N * W
            nW == n * W
            wN == w * N
<1>1. NW \in Nat /\ nW \in Nat /\ wN \in Nat /\ W * N = NW
  OBVIOUS
<1>2. wN <= NW
  BY <1>1, Scaled
<1>3. 550 * NW <= t * NW
  BY <1>1, Scaled
<1>4. 600 * n * W = 600 * nW /\ 400 * w * N = 400 * wN
  OBVIOUS
<1>5. t * NW \in Nat
  BY <1>1
<1>6. 4 * nW >= NW
  <2>. HIDE DEF NW, nW, wN
  <2>1. 600 * nW + 400 * wN >= t * NW
    BY <1>4 DEF NW
  <2>. QED  BY <1>1, <1>2, <1>3, <1>5, <2>1
<1>7. ASSUME ~(4 * n >= N) PROVE FALSE
  <2>1. 4 * n + 1 <= N /\ 4 * n + 1 \in Nat
    BY <1>7
  <2>2. (4 * n + 1) * W <= NW
    BY <2>1, Scaled
  <2>3. (4 * n + 1) * W = 4 * nW + W
    OBVIOUS
  <2>. HIDE DEF NW, nW
  <2>. QED  BY <1>1, <1>6, <2>2, <2>3
<1>. QED  BY <1>7

LEMMA SameCardinality == \A S : Recency!Cardinality(S) = Cardinality(S)
  BY DEF Cardinality, Recency!Cardinality

\* A summary that has the threshold's share has a quarter of the numbers.
LEMMA ScoreBoundsNumbers ==
  ASSUME NEW source, IsFiniteSet(source.numbers), IsFiniteSet(source.words),
         NEW text, text.numbers \subseteq source.numbers, Threshold >= 550,
         ~(Recency!Score(source, text) < Threshold * Recency!Scale(source))
  PROVE  4 * Cardinality(text.numbers) >= Cardinality(source.numbers)
<1>. DEFINE N == Cardinality(source.numbers)
            n == Cardinality(text.numbers)
            W == Recency!Whole(source.words)
            w == Recency!Share(source.words, text.words)
<1>1. N \in Nat /\ n \in Nat
  BY FS_CardinalityType, FS_Subset
<1>2. W \in Nat /\ W >= 1 /\ w \in Nat /\ w <= W
  <2>1. CASE source.words = {}
    BY <2>1 DEF Recency!Whole, Recency!Share
  <2>2. CASE source.words # {}
    <3>1. /\ Cardinality(source.words) \in Nat /\ Cardinality(source.words) # 0
          /\ Cardinality(source.words \cap text.words) \in Nat
          /\ Cardinality(source.words \cap text.words) <= Cardinality(source.words)
      BY <2>2, FS_CardinalityType, FS_Intersection, FS_EmptySet
    <3>. QED  BY <2>2, <3>1, SameCardinality DEF Recency!Whole, Recency!Share
  <2>. QED  BY <2>1, <2>2
<1>3. CASE source.numbers = {}
  <2>1. N = 0
    BY <1>3, FS_EmptySet
  <2>. HIDE DEF N, n
  <2>. QED  BY <1>1, <2>1 DEF N, n
<1>4. CASE source.numbers # {}
  <2>1. source.numbers \cap text.numbers = text.numbers
    OBVIOUS
  <2>2. Recency!Whole(source.numbers) = N /\ Recency!Share(source.numbers, text.numbers) = n
    BY <1>4, <2>1, SameCardinality DEF Recency!Whole, Recency!Share
  <2>3. ~(600 * n * W + 400 * w * N < Threshold * (N * W))
    BY <2>2 DEF Recency!Score, Recency!Scale
  <2>. HIDE DEF N, n, W, w
  <2>4. Threshold * (N * W) \in Int /\ 600 * n * W + 400 * w * N \in Int
    <3>1. Threshold \in Nat
      BY MemoryAssumption
    <3>2. N * W \in Nat /\ 600 * n * W \in Nat /\ 400 * w * N \in Nat
      BY <1>1, <1>2
    <3>. QED  BY <3>1, <3>2
  <2>5. 600 * n * W + 400 * w * N >= Threshold * (N * W)
    BY <2>3, <2>4
  <2>6. 4 * n >= N
    BY <1>1, <1>2, <2>5, NumbersWeigh, MemoryAssumption
  <2>. QED  BY <2>6 DEF N, n
<1>. QED  BY <1>3, <1>4

LEMMA EmptySource ==
  ASSUME Recency!Older = <<>>
  PROVE  Recency!Source.numbers = {}
<1>1. DOMAIN Recency!Older = {}
  OBVIOUS
<1>. QED
  BY <1>1 DEF Recency!Source

\* Theorem: with a validation threshold of 0.55, the default, or more, a summary that
\* compact() passes for good has at least a quarter of the numbers of its source,
\* whatever the summarizers return and however the attempts end.
THEOREM QuarterOfNumbers == Threshold >= 550 => (Spec => []NumbersSurvive)
<1>. SUFFICES ASSUME Threshold >= 550 PROVE Spec => []NumbersSurvive
  OBVIOUS
<1>1. Init => SummaryInv
  BY DEF Init, Recency!Init, SummaryInv
<1>2. SummaryInv /\ [Next]_vars => SummaryInv'
  BY SummaryInvKept
<1>3. CallInv /\ SummaryInv => NumbersSurvive
  <2>. SUFFICES ASSUME CallInv, SummaryInv, compaction = "done", ~Recency!Degraded
                PROVE  4 * Cardinality(summary.numbers) >= Cardinality(Recency!Source.numbers)
    BY DEF NumbersSurvive
  <2>1. CASE Recency!Older = <<>> /\ summary = Recency!NoText
    <3>1. Recency!Source.numbers = {}
      BY <2>1, EmptySource
    <3>2. summary.numbers = {}
      BY <2>1 DEF Recency!NoText
    <3>. QED  BY <3>1, <3>2, FS_EmptySet
  <2>2. CASE Recency!Older = <<>> /\ Scored
    <3>1. Recency!Source.numbers = {}
      BY <2>2, EmptySource
    <3>2. summary.numbers = {}
      BY <2>2, <3>1 DEF Scored, Recency!Summaries
    <3>. QED  BY <3>1, <3>2, FS_EmptySet
  <2>3. CASE Recency!Older # <<>>
    <3>1. Scored
      BY <2>3 DEF SummaryInv
    <3>2. summary.numbers \subseteq Recency!Source.numbers
      BY <3>1 DEF Scored, Recency!Summaries
    <3>3. IsFiniteSet(Recency!Source.numbers) /\ IsFiniteSet(Recency!Source.words)
      BY SourceIsFinite
    <3>4. ~(Recency!Score(Recency!Source, summary) < Threshold * Recency!Scale(Recency!Source))
      BY <2>3, <3>1 DEF Scored, Recency!Degraded
    <3>. QED  BY <3>2, <3>3, <3>4, ScoreBoundsNumbers
  <2>. QED  BY <2>1, <2>2, <2>3 DEF SummaryInv
<1>. QED
  BY <1>1, <1>2, <1>3, CallInvariant, PTL DEF Spec

\* How a share grows with what is kept.
LEMMA ShareIsPart ==
  ASSUME NEW all, IsFiniteSet(all), NEW some
  PROVE  /\ Recency!Whole(all) \in Nat /\ Recency!Whole(all) >= 1
         /\ Recency!Share(all, some) \in 0..Recency!Whole(all)
         /\ Recency!Share(all, some) = Recency!Whole(all) <=> all \subseteq some
<1>1. CASE all = {}
  BY <1>1 DEF Recency!Whole, Recency!Share
<1>2. CASE all # {}
  <2>1. Cardinality(all) \in Nat /\ Cardinality(all) # 0
    BY <1>2, FS_CardinalityType, FS_EmptySet
  <2>2. all \cap some \in SUBSET all
    OBVIOUS
  <2>3. Cardinality(all \cap some) \in Nat /\ Cardinality(all \cap some) <= Cardinality(all)
    BY <2>2, FS_Subset, FS_CardinalityType
  <2>4. Cardinality(all \cap some) = Cardinality(all) <=> all \subseteq some
    <3>1. Cardinality(all \cap some) = Cardinality(all) => all \cap some = all
      BY <2>2, FS_Subset
    <3>2. all \subseteq some => all \cap some = all
      OBVIOUS
    <3>. QED  BY <3>1, <3>2
  <2>. QED
    BY <1>2, <2>1, <2>3, <2>4, SameCardinality DEF Recency!Whole, Recency!Share
<1>. QED  BY <1>1, <1>2

\* Theorem: a score is between nothing and a thousand thousandths, and it is all of
\* them just when every number and every word of the source is in the summary.
THEOREM FullScoreLosesNothing ==
  ASSUME NEW source, IsFiniteSet(source.numbers), IsFiniteSet(source.words), NEW text
  PROVE  LET full == 1000 * Recency!Scale(source)
         IN  /\ Recency!Score(source, text) \in 0..full
             /\ Recency!Score(source, text) = full
                  <=> source.numbers \subseteq text.numbers /\ source.words \subseteq text.words
<1>. DEFINE N == Recency!Whole(source.numbers)
            W == Recency!Whole(source.words)
            n == Recency!Share(source.numbers, text.numbers)
            w == Recency!Share(source.words, text.words)
<1>1. /\ N \in Nat /\ N >= 1 /\ n \in 0..N
      /\ W \in Nat /\ W >= 1 /\ w \in 0..W
      /\ n = N <=> source.numbers \subseteq text.numbers
      /\ w = W <=> source.words \subseteq text.words
  BY ShareIsPart
<1>2. Recency!Score(source, text) = 600 * n * W + 400 * w * N /\ Recency!Scale(source) = N * W
  BY DEF Recency!Score, Recency!Scale
<1>. HIDE DEF N, W, n, w
<1>3. n * W \in Nat /\ w * N \in Nat /\ N * W \in Nat /\ W * N = N * W
  BY <1>1
<1>4. 600 * n * W = 600 * (n * W) /\ 400 * w * N = 400 * (w * N)
  BY <1>1
<1>5. n * W <= N * W /\ w * N <= N * W
  <2>1. n \in Nat /\ w \in Nat /\ n <= N /\ w <= W
    BY <1>1
  <2>. QED  BY <1>1, <1>3, <2>1, Scaled
<1>6. ASSUME n < N PROVE n * W < N * W
  <2>1. n + 1 \in Nat /\ n + 1 <= N
    BY <1>1, <1>6
  <2>2. (n + 1) * W <= N * W
    BY <1>1, <2>1, Scaled
  <2>3. (n + 1) * W = n * W + W
    BY <1>1
  <2>. QED  BY <1>1, <1>3, <2>2, <2>3
<1>7. ASSUME w < W PROVE w * N < N * W
  <2>1. w + 1 \in Nat /\ w + 1 <= W
    BY <1>1, <1>7
  <2>2. (w + 1) * N <= W * N
    BY <1>1, <2>1, Scaled
  <2>3. (w + 1) * N = w * N + N
    BY <1>1
  <2>. QED  BY <1>1, <1>3, <2>2, <2>3
<1>. DEFINE a == n * W
            b == w * N
            s == N * W
<1>8. a \in Nat /\ b \in Nat /\ s \in Nat /\ a <= s /\ b <= s
  BY <1>3, <1>5
<1>9. (a = s <=> n = N) /\ (b = s <=> w = W)
  BY <1>1, <1>3, <1>6, <1>7
<1>10. Recency!Score(source, text) = 600 * a + 400 * b /\ 1000 * Recency!Scale(source) = 1000 * s
  BY <1>2, <1>4
<1>. HIDE DEF a, b, s
<1>. QED
  BY <1>1, <1>8, <1>9, <1>10

=============================================================================
