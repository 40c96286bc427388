-------------------------- MODULE ExecutionProofs ---------------------------
(***************************************************************************)
(* What TLAPS proves about Execution, for any number of tool calls and of  *)
(* attempts to connect.                                                    *)
(***************************************************************************)
EXTENDS Execution, TLAPS

Hosts == {"ready", "spawning", "waiting", "killing", "closing", "over", "ended", "closed"}
Guests == {"absent", "running", "asking", "finished", "crashed", "killed"}
Ended == {"finished", "crashed", "killed"}

-----------------------------------------------------------------------------
(* The invariant of a run in a child process *)

\* One message at most is under way, and it is about the last call; the code
\* waits for no answer when it runs.
ShimWire ==
    /\ calls \in Nat /\ heard \in Nat
    /\ \/ toHost = <<>> /\ toGuest = <<>>
       \/ toHost = <<calls>> /\ toGuest = <<>>
       \/ toHost = <<>> /\ toGuest = <<calls>>
    /\ guest \in {"absent", "running", "finished"} =>
         calls = heard /\ toHost = <<>> /\ toGuest = <<>>
    /\ guest = "asking" => calls = heard + 1
    /\ serving = "calling" => toHost = <<calls>>

\* The outcome is settled before execute() is over, and is true to the guest.
ShimOutcome ==
    /\ guest \in Guests
    /\ exit # "no" => guest \in Ended
    /\ host \in {"ready", "spawning"} => guest = "absent"
    /\ host = "killing" => guest \in Ended
    /\ host \in {"killing", "closing", "over", "ended", "closed"} =>
         outcome \in Promised!Failures \cup {"result"}
    /\ outcome = "result" => guest = "finished"
    /\ host \in {"closing", "over", "ended", "closed"} /\ guest \in {"running", "asking"} =>
         outcome = "cancelled"

\* What is left, by how far the call is.
ShimFiles ==
    /\ files \subseteq {"directory", "context", "socket", "settings"}
    /\ host \in {"waiting", "killing", "closing"} => guest # "absent"
    /\ host \in {"over", "ended", "closed"} /\ guest # "absent" => files \subseteq {"directory"}
    /\ host \in {"ended", "closed"} => files \subseteq {"directory", "context"}
    /\ host = "closed" /\ tier = 1 => files \subseteq {"context"}

ShimInv == tier \in {0, 1} /\ host \in Hosts /\ ShimWire /\ ShimOutcome /\ ShimFiles

USE DEF Shim!vars, Shim!protocol, Shim!Alive, Shim!Serving, Shim!Replies

LEMMA ShimWireKept == ShimInv /\ Shim!Next => ShimWire'
<1>. SUFFICES ASSUME ShimInv, Shim!Next PROVE ShimWire'
  OBVIOUS
<1>. USE DEF ShimInv, ShimWire, ShimOutcome, Guests
<1>1. CASE Shim!Execute \/ Shim!SpawnFails \/ Shim!Cancelled \/ Shim!Concludes \/ Shim!KillRaises
           \/ Shim!WaitsForExit \/ Shim!ExitIsSeen \/ Shim!Terminate \/ Shim!CloseBackend
  BY <1>1 DEF Shim!Execute, Shim!SpawnFails, Shim!Cancelled, Shim!Concludes, Shim!KillRaises,
              Shim!WaitsForExit, Shim!ExitIsSeen, Shim!Terminate, Shim!CloseBackend
<1>2. CASE Shim!Spawns \/ Shim!Kills \/ Shim!Closes \/ Shim!GuestFinishes \/ Shim!GuestCrashes
  BY <1>2 DEF Shim!Spawns, Shim!Kills, Shim!Closes, Shim!GuestFinishes, Shim!GuestCrashes
<1>3. CASE Shim!Receives \/ Shim!ToolRaises
  BY <1>3 DEF Shim!Receives, Shim!ToolRaises
<1>4. CASE Shim!ToolAnswers \/ Shim!ToolTimesOut
  BY <1>4 DEF Shim!ToolAnswers, Shim!ToolTimesOut
<1>5. CASE Shim!GuestCalls
  BY <1>5 DEF Shim!GuestCalls
<1>6. CASE Shim!GuestHears
  <2>1. toGuest = <<calls>> /\ toHost = <<>>
    BY <1>6 DEF Shim!GuestHears
  <2>2. Head(toGuest) = calls /\ Tail(toGuest) = <<>> /\ serving # "calling"
    BY <2>1
  <2>. QED
    BY <1>6, <2>1, <2>2 DEF Shim!GuestHears
<1>. QED
  BY <1>1, <1>2, <1>3, <1>4, <1>5, <1>6 DEF Shim!Next, Shim!Progress

LEMMA ShimOutcomeKept == ShimInv /\ Shim!Next => ShimOutcome' /\ tier' = tier /\ host' \in Hosts
<1>. SUFFICES ASSUME ShimInv, Shim!Next
              PROVE  ShimOutcome' /\ tier' = tier /\ host' \in Hosts
  OBVIOUS
<1>. USE DEF ShimInv, ShimOutcome, ShimFiles, Guests, Ended, Hosts, Promised!Failures
<1>1. CASE Shim!Execute \/ Shim!Spawns \/ Shim!SpawnFails \/ Shim!Terminate \/ Shim!CloseBackend
  BY <1>1 DEF Shim!Execute, Shim!Spawns, Shim!SpawnFails, Shim!Terminate, Shim!CloseBackend
<1>2. CASE Shim!Concludes
  BY <1>2 DEF Shim!Concludes
<1>3. CASE Shim!Kills
  <2>1. outcome' \in {"toolTimeout", "toolError", "timeout"}
    BY <1>3 DEF Shim!Kills
  <2>. QED
    BY <1>3, <2>1 DEF Shim!Kills
<1>4. CASE Shim!KillRaises \/ Shim!WaitsForExit \/ Shim!Cancelled \/ Shim!Closes
  BY <1>4 DEF Shim!KillRaises, Shim!WaitsForExit, Shim!Cancelled, Shim!Closes
<1>5. CASE Shim!Receives \/ Shim!ToolAnswers \/ Shim!ToolTimesOut \/ Shim!ToolRaises
  BY <1>5 DEF Shim!Receives, Shim!ToolAnswers, Shim!ToolTimesOut, Shim!ToolRaises
<1>6. CASE Shim!GuestCalls \/ Shim!GuestHears \/ Shim!GuestFinishes \/ Shim!GuestCrashes
           \/ Shim!ExitIsSeen
  BY <1>6 DEF Shim!GuestCalls, Shim!GuestHears, Shim!GuestFinishes, Shim!GuestCrashes,
              Shim!ExitIsSeen
<1>. QED
  BY <1>1, <1>2, <1>3, <1>4, <1>5, <1>6 DEF Shim!Next, Shim!Progress

LEMMA ShimFilesKept == ShimInv /\ Shim!Next => ShimFiles'
<1>. SUFFICES ASSUME ShimInv, Shim!Next PROVE ShimFiles'
  OBVIOUS
<1>. USE DEF ShimInv, ShimOutcome, ShimFiles, Guests, Ended
<1>1. CASE Shim!Execute \/ Shim!Spawns \/ Shim!SpawnFails
  BY <1>1 DEF Shim!Execute, Shim!Spawns, Shim!SpawnFails
<1>2. CASE Shim!Terminate \/ Shim!CloseBackend
  BY <1>2 DEF Shim!Terminate, Shim!CloseBackend
<1>3. CASE Shim!Concludes \/ Shim!Kills \/ Shim!KillRaises \/ Shim!WaitsForExit
           \/ Shim!Cancelled \/ Shim!Closes
  BY <1>3 DEF Shim!Concludes, Shim!Kills, Shim!KillRaises, Shim!WaitsForExit, Shim!Cancelled,
              Shim!Closes
<1>4. CASE Shim!Receives \/ Shim!ToolAnswers \/ Shim!ToolTimesOut \/ Shim!ToolRaises
  BY <1>4 DEF Shim!Receives, Shim!ToolAnswers, Shim!ToolTimesOut, Shim!ToolRaises
<1>5. CASE Shim!GuestCalls \/ Shim!GuestHears \/ Shim!GuestFinishes \/ Shim!GuestCrashes
           \/ Shim!ExitIsSeen
  BY <1>5 DEF Shim!GuestCalls, Shim!GuestHears, Shim!GuestFinishes, Shim!GuestCrashes,
              Shim!ExitIsSeen
<1>. QED
  BY <1>1, <1>2, <1>3, <1>4, <1>5 DEF Shim!Next, Shim!Progress

\* Each step of the run is one of SandboxRun or a stutter.
LEMMA ShimSteps == ShimInv /\ Shim!Next => [Promised!Next]_<<code, calls, heard, told>>
<1>. SUFFICES ASSUME ShimInv, Shim!Next PROVE [Promised!Next]_<<code, calls, heard, told>>
  OBVIOUS
<1>. USE DEF ShimInv, ShimWire, ShimOutcome, Guests, Ended, Hosts, code, told, Done,
             Promised!Failures
<1>1. CASE Shim!Execute \/ Shim!Spawns \/ Shim!Terminate \/ Shim!CloseBackend
  BY <1>1 DEF Shim!Execute, Shim!Spawns, Shim!Terminate, Shim!CloseBackend
<1>2. CASE Shim!SpawnFails \/ Shim!Closes
  BY <1>2 DEF Shim!SpawnFails, Shim!Closes, Promised!Next, Promised!Fails, Promised!Returns
<1>3. CASE Shim!Concludes \/ Shim!Kills \/ Shim!KillRaises \/ Shim!WaitsForExit
           \/ Shim!Cancelled
  BY <1>3 DEF Shim!Concludes, Shim!Kills, Shim!KillRaises, Shim!WaitsForExit, Shim!Cancelled
<1>4. CASE Shim!Receives \/ Shim!ToolAnswers \/ Shim!ToolTimesOut \/ Shim!ToolRaises
  BY <1>4 DEF Shim!Receives, Shim!ToolAnswers, Shim!ToolTimesOut, Shim!ToolRaises
<1>5. CASE Shim!GuestCalls
  BY <1>5 DEF Shim!GuestCalls, Promised!Next, Promised!Calls
<1>6. CASE Shim!GuestHears
  <2>1. toGuest = <<calls>> /\ Head(toGuest) = calls
    BY <1>6 DEF Shim!GuestHears
  <2>. QED
    BY <1>6, <2>1 DEF Shim!GuestHears, Promised!Next, Promised!Hears
<1>7. CASE Shim!GuestFinishes
  BY <1>7 DEF Shim!GuestFinishes, Promised!Next, Promised!Finishes
<1>8. CASE Shim!GuestCrashes \/ Shim!ExitIsSeen
  BY <1>8 DEF Shim!GuestCrashes, Shim!ExitIsSeen
<1>. QED
  BY <1>1, <1>2, <1>3, <1>4, <1>5, <1>6, <1>7, <1>8 DEF Shim!Next, Shim!Progress

-----------------------------------------------------------------------------
(* The invariant of a run in a VM *)

Stages == {"booting", "ready", "receiving", "calling", "over", "ended"}

\* As ShimWire, with "ready", the code and the result on the same connection.
\* The result comes only from a guest that has finished.
SessionWire ==
    /\ calls \in 0..MaxCalls /\ heard \in Nat
    /\ guest \in {"connecting", "cutOff"} =>
         /\ calls = 0 /\ heard = 0 /\ toHost = <<>> /\ toGuest = <<>>
         /\ host = "booting"
    /\ guest = "waiting" =>
         /\ calls = 0 /\ heard = 0
         /\ host # "booting" => toHost = <<>>
         /\ toGuest \in {<<>>, <<Session!CodeMessage>>}
    /\ guest = "running" => calls = heard /\ toHost = <<>> /\ toGuest = <<>>
    /\ guest = "asking" =>
         /\ calls = heard + 1
         /\ (toHost = <<calls>> /\ toGuest = <<>>) \/ (toHost = <<>> /\ toGuest = <<calls>>)
    /\ guest = "finished" => toHost = <<Session!ResultMessage>> /\ calls = heard
    /\ guest # "finished" => toHost \in {<<>>, <<Session!ReadyMessage>>, <<calls>>}
    /\ host \in {"booting", "ready"} => toGuest = <<>>
    /\ host = "calling" => guest # "finished" /\ toHost # <<>>

SessionOutcome ==
    /\ vm \in BOOLEAN
    /\ guest \in {"connecting", "cutOff", "waiting", "running", "asking", "finished", "gone"}
    /\ host = "booting" => guest \in {"connecting", "cutOff", "waiting", "gone"}
    /\ host = "ready" => guest \in {"waiting", "gone"}
    /\ host \in {"booting", "ready", "receiving", "calling"} => outcome = "none"
    /\ host = "over" => outcome \in Promised!Failures \cup {"result"}
    /\ outcome = "result" => guest = "finished"
    /\ host = "ended" => ~vm

SessionInv == tier = 2 /\ host \in Stages /\ SessionWire /\ SessionOutcome

USE BoundsAssumption DEF BoundsAssumption, Session!vars, Session!wire, Session!Ends, Session!Lost

LEMMA SessionWireKept == SessionInv /\ Session!Next => SessionWire'
<1>. SUFFICES ASSUME SessionInv, Session!Next PROVE SessionWire'
  OBVIOUS
<1>. USE DEF SessionInv, SessionWire, SessionOutcome, Stages,
             Session!ResultMessage, Session!ReadyMessage, Session!CodeMessage
<1>1. CASE Session!Connects \/ Session!ConnectFails
  BY <1>1 DEF Session!Connects, Session!ConnectFails
<1>2. CASE Session!GuestStarts
  <2>1. toGuest = <<Session!CodeMessage>> /\ host \notin {"booting", "ready"}
    BY <1>2 DEF Session!GuestStarts
  <2>2. Tail(toGuest) = <<>> /\ toHost = <<>>
    BY <1>2, <2>1 DEF Session!GuestStarts
  <2>. QED
    BY <1>2, <2>1, <2>2 DEF Session!GuestStarts
<1>3. CASE Session!GuestCalls
  BY <1>3 DEF Session!GuestCalls
<1>4. CASE Session!GuestHears
  <2>1. toGuest = <<calls>> /\ toHost = <<>> /\ host \notin {"booting", "ready", "calling"}
    BY <1>4 DEF Session!GuestHears
  <2>2. Head(toGuest) = calls /\ Tail(toGuest) = <<>>
    BY <2>1
  <2>. QED
    BY <1>4, <2>1, <2>2 DEF Session!GuestHears
<1>5. CASE Session!GuestFinishes
  BY <1>5 DEF Session!GuestFinishes
<1>6. CASE Session!VmDies \/ Session!BootTimesOut \/ Session!Terminate
  BY <1>6 DEF Session!VmDies, Session!BootTimesOut, Session!Terminate
<1>7. CASE Session!Ready
  BY <1>7 DEF Session!Ready
<1>8. CASE Session!Execute
  BY <1>8 DEF Session!Execute
<1>9. CASE Session!Receives
  BY <1>9 DEF Session!Receives
<1>10. CASE Session!ToolAnswers
  <2>1. guest \in {"asking", "gone"} /\ toHost \in {<<Session!ReadyMessage>>, <<calls>>}
    BY <1>10 DEF Session!ToolAnswers
  <2>2. Tail(toHost) = <<>>
    <3>1. Tail(<<Session!ReadyMessage>>) = <<>> /\ Tail(<<calls>>) = <<>>
      OBVIOUS
    <3>. QED
      BY <2>1, <3>1
  <2>3. CASE guest = "asking"
    <3>1. toHost = <<calls>> /\ toGuest = <<>>
      BY <1>10, <2>3 DEF Session!ToolAnswers
    <3>2. Append(toGuest, Head(toHost)) = <<calls>>
      BY <3>1
    <3>. QED
      BY <1>10, <2>2, <2>3, <3>1, <3>2 DEF Session!ToolAnswers
  <2>4. CASE guest = "gone"
    BY <1>10, <2>2, <2>4 DEF Session!ToolAnswers
  <2>. QED
    BY <2>1, <2>3, <2>4
<1>11. CASE Session!GetsResult \/ Session!ToolTimesOut \/ Session!ToolRaises \/ Session!TimesOut
            \/ Session!Cancelled \/ Session!LosesGuest
  BY <1>11 DEF Session!GetsResult, Session!ToolTimesOut, Session!ToolRaises, Session!TimesOut,
               Session!Cancelled, Session!LosesGuest
<1>. QED
  BY <1>1, <1>2, <1>3, <1>4, <1>5, <1>6, <1>7, <1>8, <1>9, <1>10, <1>11
  DEF Session!Next, Session!Progress

LEMMA SessionOutcomeKept ==
  SessionInv /\ Session!Next => SessionOutcome' /\ host' \in Stages
<1>. SUFFICES ASSUME SessionInv, Session!Next PROVE SessionOutcome' /\ host' \in Stages
  OBVIOUS
<1>. USE DEF SessionInv, SessionWire, SessionOutcome, Stages, Promised!Failures
<1>1. CASE Session!Connects \/ Session!ConnectFails \/ Session!GuestStarts
           \/ Session!GuestCalls \/ Session!GuestHears \/ Session!GuestFinishes
  BY <1>1 DEF Session!Connects, Session!ConnectFails, Session!GuestStarts, Session!GuestCalls,
              Session!GuestHears, Session!GuestFinishes
<1>2. CASE Session!VmDies \/ Session!BootTimesOut \/ Session!Terminate
  BY <1>2 DEF Session!VmDies, Session!BootTimesOut, Session!Terminate
<1>3. CASE Session!Ready \/ Session!Execute \/ Session!Receives \/ Session!ToolAnswers
  <2>1. CASE Session!Ready
    <3>1. guest \in {"waiting", "gone"}
      BY <2>1 DEF Session!Ready
    <3>. QED
      BY <2>1, <3>1 DEF Session!Ready
  <2>. QED
    BY <1>3, <2>1 DEF Session!Execute, Session!Receives, Session!ToolAnswers
<1>4. CASE Session!GetsResult
  <2>1. guest = "finished"
    <3>1. Session!ResultMessage \notin {Session!ReadyMessage, calls}
      BY DEF Session!ResultMessage, Session!ReadyMessage
    <3>2. Head(<<Session!ReadyMessage>>) = Session!ReadyMessage /\ Head(<<calls>>) = calls
      OBVIOUS
    <3>. QED
      BY <1>4, <3>1, <3>2 DEF Session!GetsResult
  <2>. QED
    BY <1>4, <2>1 DEF Session!GetsResult
<1>5. CASE Session!ToolTimesOut \/ Session!ToolRaises \/ Session!TimesOut
           \/ Session!Cancelled \/ Session!LosesGuest
  BY <1>5 DEF Session!ToolTimesOut, Session!ToolRaises, Session!TimesOut,
              Session!Cancelled, Session!LosesGuest
<1>. QED
  BY <1>1, <1>2, <1>3, <1>4, <1>5 DEF Session!Next, Session!Progress

\* Each step of the session is one of SandboxRun or a stutter.
LEMMA SessionSteps == SessionInv /\ Session!Next => [Promised!Next]_<<code, calls, heard, told>>
<1>. SUFFICES ASSUME SessionInv, Session!Next
              PROVE  [Promised!Next]_<<code, calls, heard, told>>
  OBVIOUS
<1>0. SessionOutcome'
  BY SessionOutcomeKept
<1>. USE DEF SessionInv, SessionWire, SessionOutcome, Stages, code, told, Done,
             Promised!Failures
<1>1. CASE Session!Connects \/ Session!ConnectFails \/ Session!GuestStarts
  BY <1>1 DEF Session!Connects, Session!ConnectFails, Session!GuestStarts
<1>2. CASE Session!GuestCalls
  BY <1>2 DEF Session!GuestCalls, Promised!Next, Promised!Calls
<1>3. CASE Session!GuestHears
  <2>1. toGuest = <<calls>> /\ Head(toGuest) = calls
    BY <1>3 DEF Session!GuestHears
  <2>. QED
    BY <1>3, <2>1 DEF Session!GuestHears, Promised!Next, Promised!Hears
<1>4. CASE Session!GuestFinishes
  BY <1>4 DEF Session!GuestFinishes, Promised!Next, Promised!Finishes
<1>5. CASE Session!VmDies \/ Session!Terminate
  BY <1>5 DEF Session!VmDies, Session!Terminate
<1>6. CASE Session!BootTimesOut
  BY <1>6 DEF Session!BootTimesOut, Promised!Next, Promised!Fails
<1>7. CASE Session!Ready \/ Session!Execute \/ Session!Receives \/ Session!ToolAnswers
  BY <1>7 DEF Session!Ready, Session!Execute, Session!Receives, Session!ToolAnswers
<1>8. CASE Session!GetsResult
  <2>1. guest = "finished"
    BY <1>0, <1>8 DEF Session!GetsResult
  <2>. QED
    BY <1>8, <2>1 DEF Session!GetsResult, Promised!Next, Promised!Returns
<1>9. CASE Session!ToolTimesOut \/ Session!ToolRaises \/ Session!TimesOut
           \/ Session!Cancelled \/ Session!LosesGuest
  BY <1>9 DEF Session!ToolTimesOut, Session!ToolRaises, Session!TimesOut,
              Session!Cancelled, Session!LosesGuest, Promised!Next, Promised!Fails
<1>. QED
  BY <1>1, <1>2, <1>3, <1>4, <1>5, <1>6, <1>7, <1>8, <1>9 DEF Session!Next, Session!Progress

-----------------------------------------------------------------------------
(* Both kinds of run *)

Inv == IF tier = 2 THEN SessionInv ELSE ShimInv

LEMMA InvInit == Init => Inv
<1>. SUFFICES ASSUME Init PROVE Inv
  OBVIOUS
<1>1. CASE tier = 2
  BY <1>1 DEF Init, Inv, Session!Init, SessionInv, SessionWire, SessionOutcome, Stages
<1>2. CASE tier # 2
  BY <1>2 DEF Init, Inv, Shim!Init, ShimInv, ShimWire, ShimOutcome, ShimFiles, Hosts, Guests
<1>. QED
  BY <1>1, <1>2

LEMMA InvNext == Inv /\ [Next]_vars => Inv' /\ [Promised!Next]_<<code, calls, heard, told>>
<1>. SUFFICES ASSUME Inv, [Next]_vars
              PROVE  Inv' /\ [Promised!Next]_<<code, calls, heard, told>>
  OBVIOUS
<1>1. CASE ShimNext
  <2>1. ShimInv /\ Shim!Next
    BY <1>1 DEF ShimNext, Inv
  <2>2. tier' # 2 /\ ShimInv'
    BY <2>1, ShimWireKept, ShimOutcomeKept, ShimFilesKept DEF ShimInv
  <2>. QED
    BY <2>1, <2>2, ShimSteps DEF Inv
<1>2. CASE SessionNext
  <2>1. SessionInv /\ Session!Next /\ tier' = 2
    BY <1>2 DEF SessionNext, Inv
  <2>2. SessionInv'
    BY <2>1, SessionWireKept, SessionOutcomeKept DEF SessionInv
  <2>. QED
    BY <2>1, <2>2, SessionSteps DEF Inv
<1>3. CASE UNCHANGED vars
  <2>1. SessionInv' <=> SessionInv
    BY <1>3 DEF vars, shimOnly, sessionOnly, SessionInv, SessionWire, SessionOutcome
  <2>2. ShimInv' <=> ShimInv
    BY <1>3 DEF vars, shimOnly, sessionOnly, ShimInv, ShimWire, ShimOutcome, ShimFiles
  <2>. QED
    BY <1>3, <2>1, <2>2 DEF vars, Inv, code, told, Done
<1>. QED
  BY <1>1, <1>2, <1>3 DEF Next

\* Both backends keep execute()'s promise, for any number of tool calls: the
\* code hears the answer to its own call, and the caller has one outcome, a
\* result only of code that has finished.
THEOREM ImplementsRun == Spec => RunSpec
<1>1. Init => Promised!Init
  BY DEF Init, Shim!Init, Session!Init, Promised!Init, code, told, Done
<1>. QED
  BY <1>1, InvInit, InvNext, PTL DEF Spec, RunSpec, Promised!Spec

\* Whatever cuts a run short, its socket, its settings file and its child do
\* not outlive it, but for the child of a cancelled call.
THEOREM LeavesNothing == Spec => []NothingStays
<1>1. Inv => NothingStays
  <2>1. ASSUME tier = 2, SessionInv PROVE NothingStays
    BY <2>1 DEF SessionInv, SessionOutcome, NothingStays
  <2>2. ASSUME tier # 2, ShimInv PROVE NothingStays
    BY <2>2 DEF ShimInv, ShimOutcome, ShimFiles, NothingStays, Done
  <2>. QED
    BY <2>1, <2>2 DEF Inv
<1>. QED
  BY <1>1, InvInit, InvNext, PTL DEF Spec

-----------------------------------------------------------------------------
(* What SandboxRun means for the caller and for the code *)

\* The code hears of each call before the next, and a result is of code that ended.
Orderly == heard \in Nat /\ calls \in {heard, heard + 1} /\ (told = "result" => code = "finished")

\* Theorem: of any number of tool calls one at most is unanswered, and execute()
\* returns a result only when the code has finished, on every tier.
THEOREM AnswersInTurn == Spec => []Orderly
<1>1. Promised!Init => Orderly
  BY DEF Promised!Init, Orderly
<1>2. ASSUME Orderly, [Promised!Next]_<<code, calls, heard, told>> PROVE Orderly'
  <2>. USE <1>2 DEF Orderly
  <2>1. CASE Promised!Calls
    BY <2>1 DEF Promised!Calls
  <2>2. CASE Promised!Hears
    BY <2>2 DEF Promised!Hears
  <2>3. CASE Promised!Finishes
    BY <2>3 DEF Promised!Finishes
  <2>4. CASE Promised!Returns
    BY <2>4 DEF Promised!Returns
  <2>5. CASE Promised!Fails
    BY <2>5 DEF Promised!Fails, Promised!Failures
  <2>6. CASE UNCHANGED <<code, calls, heard, told>>
    BY <2>6
  <2>. QED
    BY <2>1, <2>2, <2>3, <2>4, <2>5, <2>6 DEF Promised!Next
<1>. QED
  BY <1>1, <1>2, ImplementsRun, PTL DEF RunSpec, Promised!Spec

=============================================================================
