--------------------------- MODULE CodeModeProofs ---------------------------
(***************************************************************************)
(* execute_in_sandbox() fails closed and keeps nothing, for any number of  *)
(* calls and instances.                                                    *)
(***************************************************************************)
EXTENDS CodeMode, FiniteSetTheorems, TLAPS

\* The pool, used by execute_in_sandbox(), takes only SandboxPool's steps, so
\* that what is proved of it is true here.
LEMMA PoolSteps == Spec => Pool!Spec
<1>1. Init => Pool!Init
  BY DEF Init
<1>2. [Next]_vars => [Pool!Next]_(Pool!vars)
  <2>. SUFFICES ASSUME [Next]_vars PROVE [Pool!Next]_(Pool!vars)
    OBVIOUS
  <2>1. ASSUME NEW c \in Clients, Acquires(c) PROVE Pool!Next
    BY <2>1 DEF Acquires, PoolAcquires, Pool!Next, Pool!ClientProgress
  <2>2. ASSUME NEW c \in Clients, Releases(c) PROVE Pool!Next
    BY <2>2 DEF Releases, PoolReleases, Pool!Next, Pool!ClientProgress
  <2>3. ASSUME NEW i \in Instances, Refills(i) PROVE Pool!Next
    BY <2>3 DEF Refills, Pool!Next
  <2>4. ASSUME UNCHANGED poolVars PROVE UNCHANGED Pool!vars
    BY <2>4 DEF poolVars, Pool!vars
  <2>5. ASSUME NEW c \in Clients, Asks(c) \/ IsGranted(c) \/ IsRefused(c) \/ Unanswered(c) \/ Runs(c)
        PROVE  UNCHANGED poolVars
    BY <2>5 DEF Asks, IsGranted, IsRefused, Unanswered, Runs, poolVars
  <2>6. CASE ClockTicks
    BY <2>4, <2>6 DEF ClockTicks
  <2>7. CASE UNCHANGED vars
    BY <2>4, <2>7 DEF vars
  <2>. QED
    BY <2>1, <2>2, <2>3, <2>4, <2>5, <2>6, <2>7 DEF Next
<1>. QED
  BY <1>1, <1>2, PTL DEF Spec, Pool!Spec

-----------------------------------------------------------------------------
(* Fail closed *)

IdlePool(c) == pc[c] = "idle"

\* What the pool says of a call at each of its stages
StageOf(c) ==
    /\ stage[c] \in {"idle", "asking"} => pc[c] = "idle"
    /\ stage[c] = "acquiring" => pc[c] \notin {"held", "returning"}
    /\ stage[c] = "running" => pc[c] = "held"
    /\ stage[c] = "releasing" => pc[c] \in {"held", "returning"}
    /\ stage[c] \notin {"idle", "asking"} => answer[c] = "allow"

CallInv ==
    /\ TypeOK
    /\ pc = [p \in Pool!Procs |-> pc[p]]
    /\ \A c \in Clients : StageOf(c)

\* The pool does no more to a client that takes no step than to wake it.
Woken(c) == pc'[c] = pc[c] \/ (pc[c] = "waiting" /\ pc'[c] = "woken")

LEMMA AcquireGoes ==
  ASSUME NEW c \in Clients, PoolAcquires(c), pc = [p \in Pool!Procs |-> pc[p]]
  PROVE  /\ \A d \in Clients \ {c} : pc'[d] = pc[d]
         /\ pc' = [p \in Pool!Procs |-> pc'[p]]
         /\ pc'[c] # "returning"
<1>. USE DEF Pool!Procs, Pool!Goto, Pool!Enter
<1>1. CASE Pool!TakeWarm(c) \/ Pool!ColdStart(c) \/ Pool!WaitForSlot(c)
  BY <1>1 DEF Pool!TakeWarm, Pool!ColdStart, Pool!WaitForSlot
<1>2. CASE Pool!BootReturns(c) \/ Pool!RaiseExhausted(c)
  BY <1>2 DEF Pool!BootReturns, Pool!RaiseExhausted
<1>3. CASE Pool!TimeOut(c) \/ Pool!BootCutShort(c)
  BY <1>3 DEF Pool!TimeOut, Pool!BootCutShort
<1>. QED
  BY <1>1, <1>2, <1>3 DEF PoolAcquires

LEMMA ReleaseGoes ==
  ASSUME NEW c \in Clients, PoolReleases(c), pc = [p \in Pool!Procs |-> pc[p]]
  PROVE  /\ \A d \in Clients \ {c} : Woken(d)
         /\ pc' = [p \in Pool!Procs |-> pc'[p]]
         /\ pc'[c] \in {"idle", "returning"}
<1>. USE DEF Pool!Procs, Pool!Goto, Woken
<1>1. CASE Pool!ReturnSlot(c)
  BY <1>1 DEF Pool!ReturnSlot, Pool!Notified
<1>2. CASE Pool!TerminateReturns(c) \/ Pool!ReleaseCutShort(c)
  BY <1>2 DEF Pool!TerminateReturns, Pool!ReleaseCutShort
<1>. QED
  BY <1>1, <1>2 DEF PoolReleases

LEMMA RefillGoes ==
  ASSUME NEW i \in Instances, Refills(i), pc = [p \in Pool!Procs |-> pc[p]]
  PROVE  (\A c \in Clients : Woken(c)) /\ pc' = [p \in Pool!Procs |-> pc'[p]]
  BY DEF Refills, Pool!RefillProgress, Pool!RefillStores, Pool!RefillDiscards,
     Pool!RefillFails, Pool!Notified, Pool!Procs, Woken

THEOREM CallInvariant == Spec => []CallInv
<1>. USE DEF CallInv, TypeOK, StageOf, Reaches, Answers
<1>1. Init => CallInv
  BY DEF Init, Pool!Init, Pool!Procs
<1>2. CallInv /\ [Next]_vars => CallInv'
  <2>. SUFFICES ASSUME CallInv, [Next]_vars PROVE CallInv'
    OBVIOUS
  <2>1. ASSUME NEW c \in Clients, Asks(c) PROVE CallInv'
    BY <2>1 DEF Asks, poolVars
  <2>2. ASSUME NEW c \in Clients, IsGranted(c) PROVE CallInv'
    BY <2>2 DEF IsGranted, poolVars
  <2>3. ASSUME NEW c \in Clients, IsRefused(c) PROVE CallInv'
    BY <2>3 DEF IsRefused, poolVars
  <2>4. ASSUME NEW c \in Clients, Unanswered(c) PROVE CallInv'
    BY <2>4 DEF Unanswered, poolVars
  <2>5. ASSUME NEW c \in Clients, Acquires(c) PROVE CallInv'
    BY <2>5, AcquireGoes DEF Acquires
  <2>6. ASSUME NEW c \in Clients, Runs(c) PROVE CallInv'
    BY <2>6 DEF Runs, poolVars
  <2>7. ASSUME NEW c \in Clients, Releases(c) PROVE CallInv'
    BY <2>7, ReleaseGoes DEF Releases, Woken
  <2>8. ASSUME NEW i \in Instances, Refills(i) PROVE CallInv'
    BY <2>8, RefillGoes DEF Refills, Woken
  <2>9. CASE ClockTicks \/ UNCHANGED vars
    BY <2>9 DEF ClockTicks, vars, poolVars
  <2>. QED
    BY <2>1, <2>2, <2>3, <2>4, <2>5, <2>6, <2>7, <2>8, <2>9 DEF Next
<1>. QED
  BY <1>1, <1>2, PTL DEF Spec

\* No call waits for, boots, holds or returns a sandbox unless Presidium has
\* answered "allow" to its own question: no outage, late answer or other call
\* lets code run.
THEOREM FailsClosed == Spec => []RunsOnlyIfAllowed
<1>1. CallInv => RunsOnlyIfAllowed
  BY DEF CallInv, StageOf, TypeOK, RunsOnlyIfAllowed
<1>. QED
  BY <1>1, CallInvariant, PTL

-----------------------------------------------------------------------------
(* What a call keeps *)

\* In SandboxPool's terms: what was handed out is held, what is counted is
\* occupied, and only failures change that.
Holds(i) == \E c \in Clients : pc[c] = "held" /\ handle[c] = i

Shape ==
    /\ pc = [p \in Pool!Procs |-> pc[p]] /\ handle = [p \in Pool!Procs |-> handle[p]]
    /\ life = [i \in Instances |-> life[i]]
    /\ faults \in Nat /\ concurrent \in Int

LeasedAreHeld == faults = 0 => \A i \in Instances : life[i] = "leased" => Holds(i)
CountedOccupy == faults = 0 => concurrent <= Cardinality(Pool!Occupying)

Books == Shape /\ LeasedAreHeld /\ CountedOccupy

LEMMA OccupyingIsFinite == IsFiniteSet(Pool!Occupying) /\ IsFiniteSet(Pool!Occupying')
  BY CodeModeAssumption, FS_Subset DEF Pool!Occupying

LEMMA OccupyingCounts == Cardinality(Pool!Occupying) \in Nat
  BY OccupyingIsFinite, FS_CardinalityType

\* A slot that is taken, or returned, is counted.
LEMMA SlotTaken ==
  ASSUME NEW c \in Clients, c \notin Pool!Occupying, Pool!Occupying' = Pool!Occupying \cup {c},
         concurrent' = concurrent + 1, faults' = faults, Books, LeasedAreHeld',
         pc' = [p \in Pool!Procs |-> pc'[p]], handle' = [p \in Pool!Procs |-> handle'[p]],
         life' = [i \in Instances |-> life'[i]]
  PROVE  Books'
<1>1. Cardinality(Pool!Occupying') = Cardinality(Pool!Occupying) + 1
  BY OccupyingIsFinite, FS_AddElement
<1>2. Shape'
  BY DEF Shape, Books
<1>3. CountedOccupy'
  BY <1>1, OccupyingCounts DEF CountedOccupy, Shape, Books
<1>. QED
  BY <1>2, <1>3 DEF Books

LEMMA SlotReturned ==
  ASSUME NEW c \in Clients, c \in Pool!Occupying, Pool!Occupying' = Pool!Occupying \ {c},
         concurrent' = concurrent - 1, faults' = faults, Books, LeasedAreHeld',
         pc' = [p \in Pool!Procs |-> pc'[p]], handle' = [p \in Pool!Procs |-> handle'[p]],
         life' = [i \in Instances |-> life'[i]]
  PROVE  Books'
<1>1. Cardinality(Pool!Occupying') = Cardinality(Pool!Occupying) - 1
  BY OccupyingIsFinite, OccupyingCounts, FS_RemoveElement
<1>2. Shape'
  BY DEF Shape, Books
<1>3. CountedOccupy'
  BY <1>1, OccupyingCounts DEF CountedOccupy, Shape, Books
<1>. QED
  BY <1>2, <1>3 DEF Books

\* A failure leaves nothing to keep.
LEMMA CutShortKeepsBooks ==
  ASSUME NEW i, Pool!CutShort(i), Shape, concurrent' = concurrent,
         pc' = [p \in Pool!Procs |-> pc'[p]], handle' = [p \in Pool!Procs |-> handle'[p]]
  PROVE  Books'
  BY DEF Pool!CutShort, Pool!Without, Shape, LeasedAreHeld, CountedOccupy, Books

LEMMA AcquireKeepsBooks == ASSUME NEW c \in Clients, PoolAcquires(c), Books PROVE Books'
<1>. USE DEF Books, Pool!Procs, Pool!Goto, Pool!Takes, Pool!Enter
<1>1. CASE Pool!TakeWarm(c)
  <2>1. Pool!Occupying' = Pool!Occupying \cup {c} /\ c \notin Pool!Occupying
    BY <1>1, CodeModeAssumption DEF Pool!TakeWarm, Pool!Occupying, Shape
  <2>2. LeasedAreHeld'
    BY <1>1 DEF Pool!TakeWarm, LeasedAreHeld, Holds, Shape
  <2>3. concurrent' = concurrent + 1 /\ faults' = faults
    BY <1>1 DEF Pool!TakeWarm
  <2>4. /\ pc' = [p \in Pool!Procs |-> pc'[p]] /\ handle' = [p \in Pool!Procs |-> handle'[p]]
        /\ life' = [i \in Instances |-> life'[i]]
    BY <1>1 DEF Pool!TakeWarm, Shape
  <2>. QED
    BY <2>1, <2>2, <2>3, <2>4, SlotTaken
<1>2. CASE Pool!ColdStart(c)
  <2>1. Pool!Occupying' = Pool!Occupying \cup {c} /\ c \notin Pool!Occupying
    BY <1>2, CodeModeAssumption DEF Pool!ColdStart, Pool!Occupying, Shape
  <2>2. LeasedAreHeld'
    BY <1>2 DEF Pool!ColdStart, Pool!Boots, LeasedAreHeld, Holds, Shape
  <2>3. concurrent' = concurrent + 1 /\ faults' = faults
    BY <1>2 DEF Pool!ColdStart
  <2>4. /\ pc' = [p \in Pool!Procs |-> pc'[p]] /\ handle' = [p \in Pool!Procs |-> handle'[p]]
        /\ life' = [i \in Instances |-> life'[i]]
    BY <1>2 DEF Pool!ColdStart, Pool!Boots, Shape
  <2>. QED
    BY <2>1, <2>2, <2>3, <2>4, SlotTaken
<1>3. CASE Pool!WaitForSlot(c) \/ Pool!TimeOut(c) \/ Pool!RaiseExhausted(c)
  <2>. USE <1>3 DEF Pool!WaitForSlot, Pool!TimeOut, Pool!RaiseExhausted, Pool!pool, Pool!refills,
                    Pool!shutdown, Pool!history
  <2>1. Pool!Occupying' = Pool!Occupying
    BY CodeModeAssumption DEF Pool!Occupying, Shape
  <2>. QED
    BY <2>1 DEF LeasedAreHeld, CountedOccupy, Holds, Shape
<1>4. CASE Pool!BootReturns(c)
  <2>. USE <1>4 DEF Pool!BootReturns, Pool!pool, Pool!refills, Pool!shutdown, Pool!history
  <2>1. Pool!Occupying' = Pool!Occupying
    BY CodeModeAssumption DEF Pool!Occupying, Shape
  <2>2. LeasedAreHeld'
    BY DEF LeasedAreHeld, Holds, Shape
  <2>. QED
    BY <2>1, <2>2 DEF CountedOccupy, Shape
<1>5. CASE Pool!BootCutShort(c)
  <2>1. /\ Pool!CutShort(handle[c]) /\ concurrent' = concurrent
        /\ pc' = [p \in Pool!Procs |-> pc'[p]] /\ handle' = [p \in Pool!Procs |-> handle'[p]]
    BY <1>5 DEF Pool!BootCutShort, Pool!pool, Shape
  <2>. QED
    BY <2>1, CutShortKeepsBooks
<1>. QED
  BY <1>1, <1>2, <1>3, <1>4, <1>5 DEF PoolAcquires

LEMMA ReleaseKeepsBooks == ASSUME NEW c \in Clients, PoolReleases(c), Books PROVE Books'
<1>. USE DEF Books, Pool!Procs, Pool!Goto, Pool!Takes
<1>1. CASE Pool!TerminateReturns(c)
  <2>. USE <1>1 DEF Pool!TerminateReturns, Pool!Terminates, Pool!Without, Pool!pool, Pool!refills,
                    Pool!shutdown, Pool!history
  <2>1. Pool!Occupying' = Pool!Occupying
    BY CodeModeAssumption DEF Pool!Occupying, Shape
  <2>2. LeasedAreHeld'
    BY DEF LeasedAreHeld, Holds, Shape
  <2>. QED
    BY <2>1, <2>2 DEF CountedOccupy, Shape
<1>2. CASE Pool!ReturnSlot(c)
  <2>1. Pool!Occupying' = Pool!Occupying \ {c} /\ c \in Pool!Occupying
    BY <1>2, CodeModeAssumption DEF Pool!ReturnSlot, Pool!Notified, Pool!Occupying, Shape
  <2>2. LeasedAreHeld'
    BY <1>2 DEF Pool!ReturnSlot, Pool!Notified, Pool!history, Pool!Boots, LeasedAreHeld, Holds, Shape
  <2>3. concurrent' = concurrent - 1 /\ faults' = faults
    BY <1>2 DEF Pool!ReturnSlot, Pool!history
  <2>4. /\ pc' = [p \in Pool!Procs |-> pc'[p]] /\ handle' = [p \in Pool!Procs |-> handle'[p]]
        /\ life' = [i \in Instances |-> life'[i]]
    BY <1>2 DEF Pool!ReturnSlot, Pool!Notified, Pool!Boots, Shape
  <2>. QED
    BY <2>1, <2>2, <2>3, <2>4, SlotReturned
<1>3. CASE Pool!ReleaseCutShort(c)
  <2>1. /\ Pool!CutShort(handle[c]) /\ concurrent' = concurrent
        /\ pc' = [p \in Pool!Procs |-> pc'[p]] /\ handle' = [p \in Pool!Procs |-> handle'[p]]
    BY <1>3 DEF Pool!ReleaseCutShort, Pool!pool, Shape
  <2>. QED
    BY <2>1, CutShortKeepsBooks
<1>. QED
  BY <1>1, <1>2, <1>3 DEF PoolReleases

LEMMA RefillKeepsBooks == ASSUME NEW i \in Instances, Refills(i), Books PROVE Books'
<1>1. CASE Pool!RefillFails(i)
  BY <1>1, CutShortKeepsBooks DEF Books, Shape, Pool!RefillFails, Pool!RefillEnds
<1>2. CASE Pool!RefillProgress(i)
  <2>. USE <1>2 DEF Pool!RefillProgress, Pool!RefillStores, Pool!RefillDiscards, Pool!RefillEnds,
                    Pool!Notified, Pool!Procs, Pool!Terminates, Pool!Without, Books
  <2>1. Pool!Occupying' = Pool!Occupying
    BY DEF Pool!Occupying, Shape
  <2>2. LeasedAreHeld'
    BY DEF LeasedAreHeld, Holds, Shape
  <2>. QED
    BY <2>1, <2>2 DEF CountedOccupy, Shape
<1>. QED
  BY <1>1, <1>2 DEF Refills

LEMMA BooksKept == Books /\ [Next]_vars => Books'
<1>. SUFFICES ASSUME Books, [Next]_vars PROVE Books'
  OBVIOUS
<1>1. ASSUME UNCHANGED poolVars PROVE Books'
  BY <1>1 DEF poolVars, Books, Shape, LeasedAreHeld, CountedOccupy, Holds, Pool!Occupying
<1>2. ASSUME NEW c \in Clients, Asks(c) \/ IsGranted(c) \/ IsRefused(c) \/ Unanswered(c) \/ Runs(c)
      PROVE  UNCHANGED poolVars
  BY <1>2 DEF Asks, IsGranted, IsRefused, Unanswered, Runs, poolVars
<1>3. CASE ClockTicks \/ UNCHANGED vars
  BY <1>1, <1>3 DEF ClockTicks, vars
<1>4. ASSUME NEW c \in Clients, Acquires(c) \/ Releases(c) PROVE Books'
  BY <1>4, AcquireKeepsBooks, ReleaseKeepsBooks DEF Acquires, Releases
<1>. QED
  BY <1>1, <1>2, <1>3, <1>4, RefillKeepsBooks DEF Next

\* Theorem: as long as no boot and no terminate() fails, whatever Presidium, run()
\* and the timeouts do, no call that is over has left its sandbox or its slot behind.
THEOREM KeepsNothing == Spec => []NothingKept
<1>1. Init => Books
  <2>1. ASSUME Init PROVE Pool!Occupying = {}
    BY <2>1 DEF Init, Pool!Init, Pool!Occupying, Pool!Procs
  <2>2. ASSUME Init PROVE concurrent = 0 /\ Cardinality(Pool!Occupying) = 0
    BY <2>1, <2>2, FS_EmptySet DEF Init, Pool!Init
  <2>3. ASSUME Init PROVE Shape /\ LeasedAreHeld
    BY <2>3 DEF Init, Pool!Init, Shape, LeasedAreHeld, Pool!Procs
  <2>. QED
    BY <2>2, <2>3 DEF Books, CountedOccupy
<1>2. CallInv /\ Books => NothingKept
  <2>. SUFFICES ASSUME CallInv, Books, faults = 0 PROVE NothingKept
    BY DEF NothingKept
  <2>. DEFINE Using == {c \in Clients : stage[c] \in {"acquiring", "running", "releasing"}}
  <2>1. \A c \in Clients : pc[c] = "held" => stage[c] \in {"running", "releasing"}
    BY DEF CallInv, StageOf, TypeOK
  <2>2. Pool!Occupying \subseteq Using
    BY DEF CallInv, StageOf, TypeOK, Pool!Occupying
  <2>3. IsFiniteSet(Using)
    BY CodeModeAssumption, FS_Subset
  <2>4. Cardinality(Pool!Occupying) <= Cardinality(Using)
    BY <2>2, <2>3, FS_Subset
  <2>5. Cardinality(Pool!Occupying) \in Nat /\ Cardinality(Using) \in Nat
    BY <2>3, OccupyingCounts, FS_CardinalityType
  <2>6. concurrent <= Cardinality(Using)
    BY <2>4, <2>5 DEF Books, Shape, CountedOccupy
  <2>. QED
    BY <2>1, <2>6 DEF Books, LeasedAreHeld, Holds, NothingKept
<1>. QED
  BY <1>1, <1>2, CallInvariant, BooksKept, PTL DEF Spec

=============================================================================
