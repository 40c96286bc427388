------------------------- MODULE SandboxPoolProofs -------------------------
(***************************************************************************)
(* What TLAPS proves about SandboxPool, for any number of clients and      *)
(* instances, any warm_size, max_concurrent and number of failures.        *)
(***************************************************************************)
EXTENDS SandboxPool, FiniteSetTheorems, TLAPS

USE PoolAssumption DEF PoolAssumption, Goto, Takes, Boots, Without, Terminates, CutShort,
    Enter, RefillEnds, vars, pool, tasks, refills, shutdown, history,
    Procs

-----------------------------------------------------------------------------
(* Types and slots.  A slot is given back only by a client that occupies one,  *)
(* so that concurrent stays a natural number needs SlotAccounting.             *)

LEMMA OccupyingFinite ==
    /\ IsFiniteSet(Occupying)
    /\ Cardinality(Occupying) \in Nat
  BY FS_Subset, FS_CardinalityType DEF Occupying

\* A client that takes a slot.
LEMMA OccupyingGrows ==
  ASSUME NEW c \in Clients, c \notin Occupying, Occupying' = Occupying \cup {c}
  PROVE  Cardinality(Occupying') = Cardinality(Occupying) + 1
  BY OccupyingFinite, FS_AddElement

\* A client that gives its slot up.
LEMMA OccupyingShrinks ==
  ASSUME NEW c \in Clients, c \in Occupying, Occupying' = Occupying \ {c}
  PROVE  /\ Cardinality(Occupying') = Cardinality(Occupying) - 1
         /\ Cardinality(Occupying) > 0
<1>1. Cardinality(Occupying) # 0
  BY OccupyingFinite, FS_EmptySet
<1>2. Cardinality(Occupying \ {c}) = Cardinality(Occupying) - 1
  BY OccupyingFinite, FS_RemoveElement
<1>. QED
  BY <1>1, <1>2, OccupyingFinite

LEMMA InitTypes == Init => TypeOK
<1>. SUFFICES ASSUME Init PROVE TypeOK
  OBVIOUS
<1>1. /\ pc \in [Procs -> ClientStates \cup PrewarmStates]
      /\ \A c \in Clients : pc[c] \in ClientStates
      /\ pc[Prewarm] \in PrewarmStates
  BY DEF Init, ClientStates, PrewarmStates
<1>2. /\ handle \in [Procs -> Instances \cup {NoInstance}]
      /\ life \in [Instances -> {"none", "fresh", "leased"}]
  BY DEF Init
<1>3. faults \in 0..MaxFaults /\ lost \in Nat /\ concurrent \in Nat
  BY DEF Init
<1>4. late \in BOOLEAN
  BY DEF Init
<1>. QED
  BY <1>1, <1>2, <1>3, <1>4 DEF Init, TypeOK

LEMMA InitSlots == Init => SlotAccounting
<1>. SUFFICES ASSUME Init PROVE SlotAccounting
  OBVIOUS
<1>1. Occupying = {}
  BY DEF Init, Occupying
<1>. QED
  BY <1>1, FS_EmptySet DEF Init, SlotAccounting

\* What notify_all() leaves of the types.
LEMMA NotifiedTypes ==
  ASSUME NEW f \in [Procs -> ClientStates \cup PrewarmStates],
         \A c \in Clients : f[c] \in ClientStates, f[Prewarm] \in PrewarmStates
  PROVE  /\ Notified(f) \in [Procs -> ClientStates \cup PrewarmStates]
         /\ \A c \in Clients : Notified(f)[c] \in ClientStates
         /\ Notified(f)[Prewarm] \in PrewarmStates
  BY DEF Notified, ClientStates, PrewarmStates

LEMMA NextTypes ==
  ASSUME TypeOK, SlotAccounting, LifeMatchesPlace, Next
  PROVE  TypeOK'
<1>. USE DEF TypeOK, ClientStates, PrewarmStates
<1>1. ASSUME NEW c \in Clients, TakeWarm(c) PROVE TypeOK'
  BY <1>1 DEF TakeWarm
<1>2. ASSUME NEW c \in Clients, ColdStart(c) PROVE TypeOK'
  BY <1>2 DEF ColdStart
<1>3. ASSUME NEW c \in Clients, WaitForSlot(c) PROVE TypeOK'
  BY <1>3 DEF WaitForSlot
<1>4. ASSUME NEW c \in Clients, BootReturns(c) PROVE TypeOK'
  BY <1>4 DEF BootReturns
<1>5. ASSUME NEW c \in Clients, BootCutShort(c) PROVE TypeOK'
  BY <1>5 DEF BootCutShort
<1>6. ASSUME NEW c \in Clients, TimeOut(c) PROVE TypeOK'
  BY <1>6 DEF TimeOut
<1>7. ASSUME NEW c \in Clients, RaiseExhausted(c) PROVE TypeOK'
  BY <1>7 DEF RaiseExhausted
<1>8. ASSUME NEW c \in Clients, TerminateReturns(c) PROVE TypeOK'
  BY <1>8 DEF TerminateReturns
<1>9. ASSUME NEW c \in Clients, ReleaseCutShort(c) PROVE TypeOK'
  BY <1>9 DEF ReleaseCutShort
<1>10. ASSUME NEW c \in Clients, ReturnSlot(c) PROVE TypeOK'
  <2>1. concurrent' \in Nat
    <3>1. c \in Occupying
      BY <1>10 DEF ReturnSlot, Occupying
    <3>2. Cardinality(Occupying) # 0
      BY <3>1, OccupyingFinite, FS_EmptySet
    <3>. QED
      BY <1>10, <3>2, OccupyingFinite DEF ReturnSlot, SlotAccounting
  <2>2. /\ pc' \in [Procs -> ClientStates \cup PrewarmStates]
        /\ \A d \in Clients : pc'[d] \in ClientStates
        /\ pc'[Prewarm] \in PrewarmStates
    <3>. DEFINE f == [pc EXCEPT ![c] = "idle"]
    <3>1. /\ f \in [Procs -> ClientStates \cup PrewarmStates]
          /\ \A d \in Clients : f[d] \in ClientStates
          /\ f[Prewarm] \in PrewarmStates
      OBVIOUS
    <3>2. pc' = Notified(f)
      BY <1>10 DEF ReturnSlot
    <3>. HIDE DEF f
    <3>. QED
      BY <3>1, <3>2, NotifiedTypes
  <2>3. /\ life' \in [Instances -> {"none", "fresh", "leased"}]
        /\ refilling' \in SUBSET Instances /\ refilling \subseteq refilling'
    BY <1>10 DEF ReturnSlot
  <2>. QED
    BY <1>10, <2>1, <2>2, <2>3 DEF ReturnSlot
<1>11. ASSUME NEW i \in Instances, RefillStores(i) PROVE TypeOK'
  <2>1. /\ pc' \in [Procs -> ClientStates \cup PrewarmStates]
        /\ \A d \in Clients : pc'[d] \in ClientStates
        /\ pc'[Prewarm] \in PrewarmStates
    BY <1>11, NotifiedTypes DEF RefillStores
  <2>. QED
    BY <1>11, <2>1 DEF RefillStores
<1>12. ASSUME NEW i \in Instances, RefillDiscards(i) \/ RefillFails(i) PROVE TypeOK'
  BY <1>12 DEF RefillDiscards, RefillFails
<1>13. ASSUME NEW i \in Instances, CloseFails(i) \/ CloseTerminates(i) PROVE TypeOK'
  BY <1>13 DEF CloseFails, CloseTerminates
<1>14. CASE PrewarmBoots
  BY <1>14 DEF PrewarmBoots
<1>15. CASE PrewarmBooted
  <2>1. handle[Prewarm] \in Instances
    BY <1>15 DEF PrewarmBooted, LifeMatchesPlace
  <2>. QED
    BY <1>15, <2>1 DEF PrewarmBooted
<1>16. CASE PrewarmReturns
  BY <1>16 DEF PrewarmReturns
<1>17. CASE PrewarmFails
  BY <1>17 DEF PrewarmFails
<1>18. CASE StartClose \/ CloseTakesWarm \/ CloseBackend
  BY <1>18 DEF StartClose, CloseTakesWarm, CloseBackend, InUse
<1>. QED
  BY <1>1, <1>2, <1>3, <1>4, <1>5, <1>6, <1>7, <1>8, <1>9, <1>10, <1>11, <1>12,
     <1>13, <1>14, <1>15, <1>16, <1>17, <1>18
  DEF Next, ClientProgress, RefillProgress, PrewarmProgress, CloseProgress

LEMMA NextSlots ==
  ASSUME TypeOK, SlotAccounting, Next
  PROVE  SlotAccounting'
<1>. USE OccupyingFinite DEF SlotAccounting
<1>1. ASSUME NEW c \in Clients, TakeWarm(c) \/ ColdStart(c) PROVE SlotAccounting'
  <2>1. c \notin Occupying /\ Occupying' = Occupying \cup {c}
    BY <1>1 DEF TakeWarm, ColdStart, Occupying, TypeOK
  <2>2. Cardinality(Occupying') = Cardinality(Occupying) + 1
    BY <2>1, OccupyingGrows
  <2>. QED
    BY <1>1, <2>2 DEF TakeWarm, ColdStart, TypeOK
<1>2. ASSUME NEW c \in Clients, BootCutShort(c) \/ ReleaseCutShort(c)
      PROVE  SlotAccounting'
  <2>1. c \in Occupying /\ Occupying' = Occupying \ {c}
    BY <1>2 DEF BootCutShort, ReleaseCutShort, Occupying, TypeOK
  <2>2. Cardinality(Occupying') = Cardinality(Occupying) - 1
    BY <2>1, OccupyingShrinks
  <2>3. lost' = lost + 1 /\ concurrent' = concurrent
    BY <1>2 DEF BootCutShort, ReleaseCutShort
  <2>. QED
    BY <2>2, <2>3 DEF TypeOK
<1>3. ASSUME NEW c \in Clients, ReturnSlot(c) PROVE SlotAccounting'
  <2>1. c \in Occupying /\ Occupying' = Occupying \ {c}
    BY <1>3 DEF ReturnSlot, Occupying, Notified, TypeOK
  <2>2. Cardinality(Occupying') = Cardinality(Occupying) - 1
    BY <2>1, OccupyingShrinks
  <2>3. lost' = lost /\ concurrent' = concurrent - 1
    BY <1>3 DEF ReturnSlot
  <2>. QED
    BY <2>2, <2>3 DEF TypeOK
<1>4. ASSUME NEW c \in Clients,
             \/ WaitForSlot(c) \/ BootReturns(c) \/ TimeOut(c)
             \/ RaiseExhausted(c) \/ TerminateReturns(c)
      PROVE  SlotAccounting'
  <2>1. Occupying' = Occupying
    BY <1>4 DEF WaitForSlot, BootReturns, TimeOut, RaiseExhausted,
                TerminateReturns, Occupying, TypeOK
  <2>2. lost' = lost /\ concurrent' = concurrent
    BY <1>4 DEF WaitForSlot, BootReturns, TimeOut, RaiseExhausted, TerminateReturns
  <2>. QED
    BY <2>1, <2>2
<1>5. ASSUME NEW i \in Instances,
             \/ RefillStores(i) \/ RefillDiscards(i) \/ RefillFails(i)
             \/ CloseFails(i) \/ CloseTerminates(i)
      PROVE  SlotAccounting'
  <2>1. Occupying' = Occupying
    BY <1>5 DEF RefillStores, RefillDiscards, RefillFails, CloseFails,
                CloseTerminates, Notified, Occupying, TypeOK
  <2>2. lost' = lost /\ concurrent' = concurrent
    BY <1>5 DEF RefillStores, RefillDiscards, RefillFails, CloseFails,
                CloseTerminates
  <2>. QED
    BY <2>1, <2>2
<1>6. ASSUME \/ PrewarmProgress \/ PrewarmFails \/ StartClose
             \/ CloseTakesWarm \/ CloseBackend
      PROVE  SlotAccounting'
  <2>. USE <1>6 DEF PrewarmProgress, PrewarmBoots, PrewarmBooted,
         PrewarmReturns, PrewarmFails, StartClose, CloseTakesWarm, CloseBackend
  <2>1. Occupying' = Occupying
    BY DEF Occupying, TypeOK
  <2>2. lost' = lost /\ concurrent' = concurrent
    OBVIOUS
  <2>. QED
    BY <2>1, <2>2
<1>. QED
  BY <1>1, <1>2, <1>3, <1>4, <1>5, <1>6
  DEF Next, ClientProgress, RefillProgress, CloseProgress

-----------------------------------------------------------------------------
(* Who has which instance *)

\* SoleOwner without the image of handle.
Apart ==
    /\ warm \cap doomed = {} /\ warm \cap refilling = {} /\ doomed \cap refilling = {}
    /\ \A p \in Procs : handle[p] \notin warm \cup doomed \cup refilling
    /\ \A p, q \in Procs : handle[p] = handle[q] /\ handle[p] # NoInstance => p = q

LEMMA ApartIsSoleOwner == TypeOK => (Apart <=> SoleOwner)
  BY DEF TypeOK, Apart, SoleOwner, Held

Placed == LifeMatchesPlace /\ Apart /\ (doomed # {} => closing = "terminating")

LEMMA InitPlaced == Init => Placed
  BY DEF Init, Placed, LifeMatchesPlace, Apart

LEMMA NextPlaced ==
  ASSUME TypeOK, Placed, Next
  PROVE  Placed'
<1>. USE DEF TypeOK, Placed, LifeMatchesPlace, Apart, LockFree
<1>1. ASSUME NEW c \in Clients, TakeWarm(c) PROVE Placed'
  BY <1>1 DEF TakeWarm
<1>2. ASSUME NEW c \in Clients, ColdStart(c) PROVE Placed'
  BY <1>2 DEF ColdStart
<1>3. ASSUME NEW c \in Clients, WaitForSlot(c) PROVE Placed'
  BY <1>3 DEF WaitForSlot
<1>4. ASSUME NEW c \in Clients, BootReturns(c) PROVE Placed'
  BY <1>4 DEF BootReturns
<1>5. ASSUME NEW c \in Clients, BootCutShort(c) PROVE Placed'
  BY <1>5 DEF BootCutShort
<1>6. ASSUME NEW c \in Clients, TimeOut(c) PROVE Placed'
  BY <1>6 DEF TimeOut
<1>7. ASSUME NEW c \in Clients, RaiseExhausted(c) PROVE Placed'
  BY <1>7 DEF RaiseExhausted
<1>8. ASSUME NEW c \in Clients, TerminateReturns(c) PROVE Placed'
  BY <1>8 DEF TerminateReturns
<1>9. ASSUME NEW c \in Clients, ReleaseCutShort(c) PROVE Placed'
  BY <1>9 DEF ReleaseCutShort
<1>10. ASSUME NEW c \in Clients, ReturnSlot(c) PROVE Placed'
  BY <1>10 DEF ReturnSlot, Notified
<1>11. ASSUME NEW i \in Instances, RefillStores(i) PROVE Placed'
  BY <1>11 DEF RefillStores, Notified
<1>12. ASSUME NEW i \in Instances, RefillDiscards(i) PROVE Placed'
  BY <1>12 DEF RefillDiscards
<1>13. ASSUME NEW i \in Instances, RefillFails(i) PROVE Placed'
  BY <1>13 DEF RefillFails
<1>14. ASSUME NEW i \in Instances, CloseFails(i) PROVE Placed'
  BY <1>14 DEF CloseFails
<1>15. ASSUME NEW i \in Instances, CloseTerminates(i) PROVE Placed'
  BY <1>15 DEF CloseTerminates
<1>16. CASE PrewarmBoots
  BY <1>16 DEF PrewarmBoots, AtPrewarmLoop
<1>17. CASE PrewarmBooted
  BY <1>17 DEF PrewarmBooted
<1>18. CASE PrewarmReturns
  BY <1>18 DEF PrewarmReturns, AtPrewarmLoop
<1>19. CASE PrewarmFails
  BY <1>19 DEF PrewarmFails
<1>20. CASE StartClose
  BY <1>20 DEF StartClose
<1>21. CASE CloseTakesWarm
  BY <1>21 DEF CloseTakesWarm
<1>22. CASE CloseBackend
  BY <1>22 DEF CloseBackend
<1>. QED
  BY <1>1, <1>2, <1>3, <1>4, <1>5, <1>6, <1>7, <1>8, <1>9, <1>10, <1>11, <1>12, <1>13, <1>14, <1>15, <1>16, <1>17, <1>18, <1>19, <1>20, <1>21, <1>22
  DEF Next, ClientProgress, RefillProgress, PrewarmProgress, CloseProgress

-----------------------------------------------------------------------------
(* The warm list.  RefillStores looks at its length under the lock, prewarm()  *)
(* before a boot during which it keeps the lock: hence the last conjunct.      *)

WarmInv ==
    /\ IsFiniteSet(warm)
    /\ WarmBound
    /\ pc[Prewarm] = "booting" => Cardinality(warm) < WarmSize

LEMMA InitWarm == Init => WarmInv
  BY FS_EmptySet DEF Init, WarmInv, WarmBound

LEMMA NextWarm ==
  ASSUME TypeOK, Placed, WarmInv, Next
  PROVE  WarmInv'
<1>0. Cardinality(warm) \in Nat
  BY FS_CardinalityType DEF WarmInv
<1>1. ASSUME NEW c \in Clients, TakeWarm(c) PROVE WarmInv'
  <2>1. PICK i \in warm : warm' = warm \ {i}
    BY <1>1 DEF TakeWarm
  <2>2. IsFiniteSet(warm') /\ Cardinality(warm') = Cardinality(warm) - 1
    BY <2>1, FS_RemoveElement DEF WarmInv
  <2>3. pc'[Prewarm] = pc[Prewarm]
    BY <1>1 DEF TakeWarm, TypeOK
  <2>. QED
    BY <1>0, <2>2, <2>3 DEF WarmInv, WarmBound
<1>2. ASSUME NEW i \in Instances, RefillStores(i) PROVE WarmInv'
  <2>1. IsFiniteSet(warm') /\ Cardinality(warm') <= Cardinality(warm) + 1
    <3>1. /\ IsFiniteSet(warm \cup {i})
          /\ Cardinality(warm \cup {i}) \in {Cardinality(warm), Cardinality(warm) + 1}
      BY FS_AddElement DEF WarmInv
    <3>2. warm' = warm \cup {i}
      BY <1>2 DEF RefillStores
    <3>. QED
      BY <1>0, <3>1, <3>2
  <2>2. Cardinality(warm) < WarmSize /\ Cardinality(warm') \in Nat
    BY <1>2, <2>1, FS_CardinalityType DEF RefillStores
  <2>3. pc'[Prewarm] # "booting"
    BY <1>2 DEF RefillStores, LockFree, Notified
  <2>. QED
    BY <1>0, <2>1, <2>2, <2>3 DEF WarmInv, WarmBound
<1>3. CASE PrewarmBooted
  <2>1. IsFiniteSet(warm') /\ Cardinality(warm') <= Cardinality(warm) + 1
    <3>. DEFINE i == handle[Prewarm]
    <3>1. warm' = warm \cup {i}
      BY <1>3 DEF PrewarmBooted
    <3>. HIDE DEF i
    <3>2. /\ IsFiniteSet(warm \cup {i})
          /\ Cardinality(warm \cup {i}) \in {Cardinality(warm), Cardinality(warm) + 1}
      BY FS_AddElement DEF WarmInv
    <3>. QED
      BY <1>0, <3>1, <3>2
  <2>2. Cardinality(warm) < WarmSize /\ Cardinality(warm') \in Nat
    BY <1>3, <2>1, FS_CardinalityType DEF PrewarmBooted, WarmInv
  <2>3. pc'[Prewarm] # "booting"
    BY <1>3 DEF PrewarmBooted, TypeOK
  <2>. QED
    BY <1>0, <2>1, <2>2, <2>3 DEF WarmInv, WarmBound
<1>4. CASE CloseTakesWarm
  BY <1>4, FS_EmptySet DEF CloseTakesWarm, WarmInv, WarmBound, LockFree
<1>5. CASE PrewarmBoots
  BY <1>5 DEF PrewarmBoots, WarmInv, WarmBound
<1>6. ASSUME warm' = warm, pc'[Prewarm] = "booting" => pc[Prewarm] = "booting"
      PROVE  WarmInv'
  BY <1>6 DEF WarmInv, WarmBound
<1>7. ASSUME NEW c \in Clients,
             \/ ColdStart(c) \/ WaitForSlot(c) \/ BootReturns(c) \/ BootCutShort(c)
             \/ TimeOut(c) \/ RaiseExhausted(c) \/ TerminateReturns(c)
             \/ ReleaseCutShort(c) \/ ReturnSlot(c)
      PROVE  WarmInv'
  BY <1>6, <1>7 DEF ColdStart, WaitForSlot, BootReturns, BootCutShort, TimeOut,
     RaiseExhausted, TerminateReturns, ReleaseCutShort, ReturnSlot, Notified, TypeOK
<1>8. ASSUME NEW i \in Instances,
             RefillDiscards(i) \/ RefillFails(i) \/ CloseFails(i) \/ CloseTerminates(i)
      PROVE  WarmInv'
  BY <1>6, <1>8 DEF RefillDiscards, RefillFails, CloseFails, CloseTerminates
<1>9. CASE PrewarmReturns \/ PrewarmFails \/ StartClose \/ CloseBackend
  BY <1>6, <1>9 DEF PrewarmReturns, PrewarmFails, StartClose, CloseBackend, TypeOK
<1>. QED
  BY <1>1, <1>2, <1>3, <1>4, <1>5, <1>7, <1>8, <1>9
  DEF Next, ClientProgress, RefillProgress, PrewarmProgress, CloseProgress

-----------------------------------------------------------------------------
(* The inductive invariant *)

PoolInv == TypeOK /\ SlotAccounting /\ Placed /\ WarmInv

THEOREM PoolInvariant == Spec => []PoolInv
<1>1. Init => PoolInv
  BY InitTypes, InitSlots, InitPlaced, InitWarm DEF PoolInv
<1>2. PoolInv /\ [Next]_vars => PoolInv'
  <2>1. ASSUME PoolInv, Next PROVE PoolInv'
    BY <2>1, NextTypes, NextSlots, NextPlaced, NextWarm DEF PoolInv, Placed
  <2>2. ASSUME PoolInv, UNCHANGED vars PROVE PoolInv'
    BY <2>2 DEF PoolInv, TypeOK, SlotAccounting, Occupying, Placed,
       LifeMatchesPlace, Apart, WarmInv, WarmBound
  <2>. QED
    BY <2>1, <2>2
<1>. QED
  BY <1>1, <1>2, PTL DEF Spec

\* Every variable keeps its type; in particular _concurrent_count never goes
\* below zero, whoever releases and however calls are cut short.
THEOREM TypeCorrect == Spec => []TypeOK
  BY PoolInvariant, PTL DEF PoolInv

\* No slot is counted or given back twice: _concurrent_count is the clients
\* that hold a slot plus the slots lost to calls cut short.
THEOREM SlotsAccounted == Spec => []SlotAccounting
  BY PoolInvariant, PTL DEF PoolInv

\* The warm list never exceeds warm_size, however prewarm() and refills race.
THEOREM WarmBounded == Spec => []WarmBound
<1>1. PoolInv => WarmBound
  BY DEF PoolInv, WarmInv
<1>. QED
  BY <1>1, PoolInvariant, PTL

\* An instance is in one place at a time, with at most one holder.
THEOREM OneOwner == Spec => []SoleOwner
<1>1. PoolInv => SoleOwner
  BY ApartIsSoleOwner DEF PoolInv, Placed
<1>. QED
  BY <1>1, PoolInvariant, PTL

\* What a task or list refers to exists, unused where it must be unused.
THEOREM PlacesMatchLife == Spec => []LifeMatchesPlace
<1>1. PoolInv => LifeMatchesPlace
  BY DEF PoolInv, Placed
<1>. QED
  BY <1>1, PoolInvariant, PTL

-----------------------------------------------------------------------------
(* Where every instance is, one instance at a time *)

Accounted ==
    faults = 0 => \A i \in Instances :
        life[i] # "none" => i \in warm \cup doomed \cup refilling \/ \E p \in Procs : handle[p] = i

LEMMA InitAccounted == Init => Accounted
  BY DEF Init, Accounted

LEMMA NextAccounted ==
  ASSUME TypeOK, Placed, Accounted, Next
  PROVE  Accounted'
<1>. USE DEF TypeOK, Placed, LifeMatchesPlace, Apart, Accounted
<1>1. ASSUME faults' = faults + 1 PROVE Accounted'
  BY <1>1
<1>2. ASSUME NEW c \in Clients, BootCutShort(c) \/ ReleaseCutShort(c) PROVE Accounted'
  BY <1>1, <1>2 DEF BootCutShort, ReleaseCutShort
<1>3. ASSUME NEW i \in Instances, RefillFails(i) \/ CloseFails(i) PROVE Accounted'
  BY <1>1, <1>3 DEF RefillFails, CloseFails
<1>4. CASE PrewarmFails
  BY <1>1, <1>4 DEF PrewarmFails
<1>5. ASSUME NEW c \in Clients, TakeWarm(c) PROVE Accounted'
  BY <1>5 DEF TakeWarm
<1>6. ASSUME NEW c \in Clients, ColdStart(c) PROVE Accounted'
  BY <1>6 DEF ColdStart
<1>7. ASSUME NEW c \in Clients, BootReturns(c) PROVE Accounted'
  BY <1>7 DEF BootReturns
<1>8. ASSUME NEW c \in Clients, WaitForSlot(c) \/ TimeOut(c) \/ RaiseExhausted(c)
      PROVE  Accounted'
  BY <1>8 DEF WaitForSlot, TimeOut, RaiseExhausted
<1>9. ASSUME NEW c \in Clients, TerminateReturns(c) PROVE Accounted'
  BY <1>9 DEF TerminateReturns
<1>10. ASSUME NEW c \in Clients, ReturnSlot(c) PROVE Accounted'
  BY <1>10 DEF ReturnSlot
<1>11. ASSUME NEW i \in Instances, RefillStores(i) PROVE Accounted'
  BY <1>11 DEF RefillStores
<1>12. ASSUME NEW i \in Instances, RefillDiscards(i) PROVE Accounted'
  BY <1>12 DEF RefillDiscards
<1>13. ASSUME NEW i \in Instances, CloseTerminates(i) PROVE Accounted'
  BY <1>13 DEF CloseTerminates
<1>14. CASE PrewarmBoots
  <2>1. handle[Prewarm] = NoInstance
    BY <1>14 DEF PrewarmBoots, AtPrewarmLoop
  <2>. QED
    BY <1>14, <2>1 DEF PrewarmBoots
<1>15. CASE PrewarmBooted
  BY <1>15 DEF PrewarmBooted
<1>16. CASE PrewarmReturns \/ StartClose \/ CloseBackend
  BY <1>16 DEF PrewarmReturns, StartClose, CloseBackend
<1>17. CASE CloseTakesWarm
  BY <1>17 DEF CloseTakesWarm
<1>. QED
  BY <1>2, <1>3, <1>4, <1>5, <1>6, <1>7, <1>8, <1>9, <1>10, <1>11, <1>12, <1>13, <1>14,
     <1>15, <1>16, <1>17
  DEF Next, ClientProgress, RefillProgress, PrewarmProgress, CloseProgress

-----------------------------------------------------------------------------
(* Sleeping callers.  prewarm() notifies nobody, so it must be over before    *)
(* the first of them.                                                         *)

WakeInv ==
    PrewarmFirst =>
        /\ \A c \in Clients : pc[c] # "idle" => pc[Prewarm] = "done"
        /\ \A c \in Clients : pc[c] = "waiting" => warm = {} /\ concurrent >= MaxConcurrent

LEMMA NextWake ==
  ASSUME TypeOK, Placed, WakeInv, Next
  PROVE  WakeInv'
<1>. USE DEF TypeOK, WakeInv, ClientStates, PrewarmStates
<1>1. ASSUME NEW c \in Clients, TakeWarm(c) PROVE WakeInv'
  BY <1>1 DEF TakeWarm
<1>2. ASSUME NEW c \in Clients, ColdStart(c) PROVE WakeInv'
  BY <1>2 DEF ColdStart
<1>3. ASSUME NEW c \in Clients, WaitForSlot(c) PROVE WakeInv'
  BY <1>3 DEF WaitForSlot
<1>4. ASSUME NEW c \in Clients, BootReturns(c) PROVE WakeInv'
  BY <1>4 DEF BootReturns
<1>5. ASSUME NEW c \in Clients, BootCutShort(c) PROVE WakeInv'
  BY <1>5 DEF BootCutShort
<1>6. ASSUME NEW c \in Clients, TimeOut(c) PROVE WakeInv'
  BY <1>6 DEF TimeOut
<1>7. ASSUME NEW c \in Clients, RaiseExhausted(c) PROVE WakeInv'
  BY <1>7 DEF RaiseExhausted
<1>8. ASSUME NEW c \in Clients, TerminateReturns(c) PROVE WakeInv'
  BY <1>8 DEF TerminateReturns
<1>9. ASSUME NEW c \in Clients, ReleaseCutShort(c) PROVE WakeInv'
  BY <1>9 DEF ReleaseCutShort
<1>10. ASSUME NEW c \in Clients, ReturnSlot(c) PROVE WakeInv'
  <2>1. \A d \in Clients : pc'[d] # "waiting"
    BY <1>10 DEF ReturnSlot, Notified
  <2>2. PrewarmFirst => \A d \in Clients : pc'[d] # "idle" => pc'[Prewarm] = "done"
    BY <1>10 DEF ReturnSlot, Notified
  <2>. QED
    BY <2>1, <2>2
<1>11. ASSUME NEW i \in Instances, RefillStores(i) PROVE WakeInv'
  <2>1. \A d \in Clients : pc'[d] # "waiting"
    BY <1>11 DEF RefillStores, Notified
  <2>2. PrewarmFirst => \A d \in Clients : pc'[d] # "idle" => pc'[Prewarm] = "done"
    BY <1>11 DEF RefillStores, Notified
  <2>. QED
    BY <2>1, <2>2
<1>12. ASSUME NEW i \in Instances,
              RefillDiscards(i) \/ RefillFails(i) \/ CloseFails(i) \/ CloseTerminates(i)
       PROVE  WakeInv'
  BY <1>12 DEF RefillDiscards, RefillFails, CloseFails, CloseTerminates
<1>13. ASSUME PrewarmProgress \/ PrewarmFails PROVE WakeInv'
  <2>1. /\ pc[Prewarm] # "done"
        /\ \A c \in Clients : pc'[c] = pc[c]
    BY <1>13 DEF PrewarmProgress, PrewarmBoots, PrewarmBooted, PrewarmReturns,
       PrewarmFails, AtPrewarmLoop
  <2>. QED
    BY <2>1
<1>14. CASE StartClose \/ CloseTakesWarm \/ CloseBackend
  BY <1>14 DEF StartClose, CloseTakesWarm, CloseBackend
<1>. QED
  BY <1>1, <1>2, <1>3, <1>4, <1>5, <1>6, <1>7, <1>8, <1>9, <1>10, <1>11, <1>12, <1>13, <1>14
  DEF Next, ClientProgress, RefillProgress, CloseProgress

\* In a deployment that awaits prewarm() first, no caller sleeps in
\* condition.wait() beside a warm instance or a free slot.
THEOREM NoWakeupLost == Spec => []NoLostWakeup
<1>1. Init => WakeInv
  BY DEF Init, WakeInv
<1>2. PoolInv /\ WakeInv /\ [Next]_vars => WakeInv'
  <2>1. ASSUME PoolInv, WakeInv, UNCHANGED vars PROVE WakeInv'
    BY <2>1 DEF WakeInv
  <2>. QED
    BY <2>1, NextWake DEF PoolInv
<1>3. WakeInv => NoLostWakeup
  BY DEF WakeInv, NoLostWakeup
<1>. QED
  BY <1>1, <1>2, <1>3, PoolInvariant, PTL DEF Spec

-----------------------------------------------------------------------------
(* A close() that nobody disturbs *)

QuietInv ==
    ~late /\ closing # "open" =>
        /\ \A p \in Procs : pc[p] \notin {"booting", "held", "returning", "looping"}
        /\ \A c \in Clients : pc[c] = "idle"
        /\ refilling \subseteq pending
        /\ closing # "draining" => warm = {} /\ refilling = {}

LEMMA NextQuiet ==
  ASSUME TypeOK, Placed, QuietInv, Next
  PROVE  QuietInv'
<1>. USE DEF TypeOK, QuietInv, Placed
<1>2. ASSUME NEW c \in Clients, TakeWarm(c) \/ ColdStart(c) \/ WaitForSlot(c)
      PROVE  QuietInv'
  BY <1>2 DEF TakeWarm, ColdStart, WaitForSlot
<1>3. ASSUME NEW c \in Clients, pc[c] # "idle", closing' = closing, late' = late
      PROVE  QuietInv'
  BY <1>3
<1>4. ASSUME NEW c \in Clients,
             \/ BootReturns(c) \/ BootCutShort(c) \/ TimeOut(c) \/ RaiseExhausted(c)
             \/ TerminateReturns(c) \/ ReleaseCutShort(c) \/ ReturnSlot(c)
      PROVE  QuietInv'
  BY <1>3, <1>4 DEF BootReturns, BootCutShort, TimeOut, RaiseExhausted, TerminateReturns,
     ReleaseCutShort, ReturnSlot
<1>5. ASSUME NEW i \in Instances, RefillStores(i) PROVE QuietInv'
  BY <1>5 DEF RefillStores, Notified
<1>6. ASSUME NEW i \in Instances, RefillDiscards(i) \/ RefillFails(i) PROVE QuietInv'
  BY <1>6 DEF RefillDiscards, RefillFails
<1>7. ASSUME NEW i \in Instances, CloseFails(i) \/ CloseTerminates(i) PROVE QuietInv'
  BY <1>7 DEF CloseFails, CloseTerminates
<1>8. CASE PrewarmBoots
  BY <1>8 DEF PrewarmBoots
<1>9. CASE PrewarmBooted \/ PrewarmFails
  BY <1>9 DEF PrewarmBooted, PrewarmFails
<1>10. CASE PrewarmReturns
  BY <1>10 DEF PrewarmReturns
<1>11. CASE StartClose
  <2>1. late' = InUse /\ pending' = refilling /\ UNCHANGED <<pc, refilling>> /\ closing' = "draining"
    BY <1>11 DEF StartClose
  <2>2. ASSUME ~InUse
        PROVE  /\ \A c \in Clients : pc[c] = "idle"
               /\ \A p \in Procs : pc[p] \notin {"booting", "held", "returning", "looping"}
    BY <2>2 DEF InUse, LockFree, PrewarmStates
  <2>. QED
    BY <2>1, <2>2
<1>12. CASE CloseTakesWarm
  BY <1>12 DEF CloseTakesWarm
<1>13. CASE CloseBackend
  BY <1>13 DEF CloseBackend
<1>. QED
  BY <1>2, <1>4, <1>5, <1>6, <1>7, <1>8, <1>9, <1>10, <1>11, <1>12, <1>13
  DEF Next, ClientProgress, RefillProgress, PrewarmProgress, CloseProgress

LEMMA QuietInvariant == Spec => [](PoolInv /\ Accounted /\ QuietInv)
<1>1. Init => Accounted /\ QuietInv
  BY InitAccounted DEF Init, QuietInv
<1>2. PoolInv /\ Accounted /\ QuietInv /\ [Next]_vars => Accounted' /\ QuietInv'
  <2>1. ASSUME PoolInv, Accounted, QuietInv, UNCHANGED vars PROVE Accounted' /\ QuietInv'
    BY <2>1 DEF QuietInv, Accounted
  <2>. QED
    BY <2>1, NextQuiet, NextAccounted DEF PoolInv
<1>. QED
  BY <1>1, <1>2, PoolInvariant, PTL DEF Spec

\* Without a failure every instance that exists is in the care of a task or of a
\* list that one will look at again: none is in the warm list once close() has
\* taken it, unless the pool was in use when or after close() began.
THEOREM NoLeak == Spec => []NothingStranded
<1>1. Accounted /\ QuietInv => NothingStranded
  BY DEF Accounted, QuietInv, NothingStranded, Alive, Owned, Held
<1>. QED
  BY <1>1, QuietInvariant, PTL

\* If nobody uses the pool when close() begins or later, and nothing fails, no
\* instance outlives it, not even those of refills it found on their way.
THEOREM CleanClose == Spec => []QuietCloseIsClean
<1>1. PoolInv /\ Accounted /\ QuietInv => QuietCloseIsClean
  <2>. SUFFICES ASSUME PoolInv, Accounted, QuietInv, closing = "closed", ~late, faults = 0
                PROVE  Alive = {}
    BY DEF QuietCloseIsClean
  <2>1. warm = {} /\ refilling = {} /\ doomed = {}
    BY DEF PoolInv, Placed, QuietInv
  <2>2. \A p \in Procs : handle[p] = NoInstance
    BY DEF PoolInv, Placed, LifeMatchesPlace, QuietInv
  <2>. QED
    BY <2>1, <2>2 DEF Accounted, Alive
<1>. QED
  BY <1>1, QuietInvariant, PTL

-----------------------------------------------------------------------------
(* What the warm pool is owed *)

Owed == IsFiniteSet(refilling) /\ WarmReplenished

Promised == Cardinality(warm) + Cardinality(refilling) + Cardinality(Occupying)

\* A step that leaves the sum of WarmReplenished at least as it was.
LEMMA OwedStep ==
  ASSUME TypeOK, Owed, IsFiniteSet(refilling'), Promised' \in Nat, Promised' >= Promised,
         Promised \in Nat,
         pc'[Prewarm] = pc[Prewarm], closing' = closing, faults' \in {faults, faults + 1}
  PROVE  Owed'
<1>1. SUFFICES ASSUME pc'[Prewarm] = "done", faults' = 0, closing' = "open"
               PROVE  Promised' >= WarmSize
  BY DEF Owed, WarmReplenished, Promised
<1>2. faults = 0
  BY <1>1 DEF TypeOK
<1>3. Promised >= WarmSize
  BY <1>1, <1>2 DEF Owed, WarmReplenished, Promised
<1>. QED
  BY <1>3

\* A step after which nothing is promised.
LEMMA OwedMoot ==
  ASSUME IsFiniteSet(refilling'),
         pc'[Prewarm] # "done" \/ faults' # 0 \/ closing' # "open"
  PROVE  Owed'
  BY DEF Owed, WarmReplenished

LEMMA FiniteParts ==
  ASSUME WarmInv, Owed
  PROVE  /\ Cardinality(warm) \in Nat /\ Cardinality(refilling) \in Nat
         /\ Cardinality(Occupying) \in Nat /\ Promised \in Nat
<1>1. /\ Cardinality(warm) \in Nat /\ Cardinality(refilling) \in Nat
      /\ Cardinality(Occupying) \in Nat
  BY FS_CardinalityType, OccupyingFinite DEF WarmInv, Owed
<1>. QED
  BY <1>1 DEF Promised

LEMMA NextOwed ==
  ASSUME TypeOK, Placed, WarmInv, Owed, Next
  PROVE  Owed'
<1>. USE FiniteParts
<1>1. ASSUME NEW c \in Clients, TakeWarm(c) PROVE Owed'
  <2>1. PICK i \in warm : warm' = warm \ {i}
    BY <1>1 DEF TakeWarm
  <2>2. Cardinality(warm') = Cardinality(warm) - 1
    BY <2>1, FS_RemoveElement DEF WarmInv
  <2>3. c \notin Occupying /\ Occupying' = Occupying \cup {c}
    BY <1>1 DEF TakeWarm, Occupying, TypeOK
  <2>4. Cardinality(Occupying') = Cardinality(Occupying) + 1
    BY <2>3, OccupyingGrows
  <2>5. refilling' = refilling
    BY <1>1 DEF TakeWarm
  <2>6. Promised' = Promised
    BY <2>2, <2>4, <2>5 DEF Promised
  <2>. QED
    BY <1>1, <2>5, <2>6, OwedStep DEF TakeWarm, Owed, TypeOK
<1>2. ASSUME NEW c \in Clients, ColdStart(c) PROVE Owed'
  <2>1. c \notin Occupying /\ Occupying' = Occupying \cup {c}
    BY <1>2 DEF ColdStart, Occupying, TypeOK
  <2>2. Cardinality(Occupying') = Cardinality(Occupying) + 1
    BY <2>1, OccupyingGrows
  <2>3. refilling' = refilling /\ warm' = warm
    BY <1>2 DEF ColdStart
  <2>4. Promised' = Promised + 1
    BY <2>2, <2>3 DEF Promised
  <2>. QED
    BY <1>2, <2>3, <2>4, OwedStep DEF ColdStart, Owed, TypeOK
<1>3. ASSUME NEW c \in Clients, ReturnSlot(c) PROVE Owed'
  <2>1. c \in Occupying /\ Occupying' = Occupying \ {c}
    BY <1>3 DEF ReturnSlot, Occupying, Notified, TypeOK
  <2>2. Cardinality(Occupying') = Cardinality(Occupying) - 1 /\ Cardinality(Occupying) > 0
    BY <2>1, OccupyingShrinks
  <2>3. /\ warm' = warm /\ closing' = closing /\ faults' = faults
        /\ pc'[Prewarm] = pc[Prewarm]
    BY <1>3 DEF ReturnSlot, Notified, LockFree, TypeOK, PrewarmStates
  <2>4. CASE Cardinality(warm) < WarmSize
    <3>1. PICK i \in Instances : life[i] = "none" /\ refilling' = refilling \cup {i}
      BY <1>3, <2>4 DEF ReturnSlot
    <3>2. i \notin refilling
      BY <3>1 DEF Placed, LifeMatchesPlace
    <3>3. IsFiniteSet(refilling') /\ Cardinality(refilling') = Cardinality(refilling) + 1
      BY <3>1, <3>2, FS_AddElement DEF Owed
    <3>4. Promised' = Promised
      BY <2>2, <2>3, <3>3 DEF Promised
    <3>. QED
      BY <2>3, <3>3, <3>4, OwedStep
  <2>5. CASE ~(Cardinality(warm) < WarmSize)
    <3>1. refilling' = refilling
      BY <1>3, <2>5 DEF ReturnSlot
    <3>2. Promised' >= WarmSize
      BY <2>2, <2>3, <2>5, <3>1 DEF Promised
    <3>. QED
      BY <3>1, <3>2 DEF Owed, WarmReplenished, Promised
  <2>. QED
    BY <2>4, <2>5
<1>4. ASSUME NEW i \in Instances, RefillStores(i) PROVE Owed'
  <2>1. /\ i \in refilling /\ i \notin warm
        /\ warm' = warm \cup {i} /\ refilling' = refilling \ {i}
    BY <1>4 DEF RefillStores, Placed, Apart
  <2>2. Cardinality(warm') = Cardinality(warm) + 1
    BY <2>1, FS_AddElement DEF WarmInv
  <2>3. IsFiniteSet(refilling') /\ Cardinality(refilling') = Cardinality(refilling) - 1
    BY <2>1, FS_RemoveElement DEF Owed
  <2>4. Occupying' = Occupying /\ pc'[Prewarm] = pc[Prewarm]
    BY <1>4 DEF RefillStores, Notified, Occupying, TypeOK, PrewarmStates
  <2>5. Promised' = Promised
    BY <2>2, <2>3, <2>4 DEF Promised
  <2>. QED
    BY <1>4, <2>3, <2>4, <2>5, OwedStep DEF RefillStores
<1>5. ASSUME NEW i \in Instances, RefillDiscards(i) PROVE Owed'
  <2>1. /\ i \in refilling /\ warm' = warm /\ refilling' = refilling \ {i}
        /\ Cardinality(warm) >= WarmSize /\ Occupying' = Occupying
    BY <1>5 DEF RefillDiscards, Occupying
  <2>2. IsFiniteSet(refilling') /\ Cardinality(refilling') \in Nat
    BY <2>1, FS_RemoveElement, FS_CardinalityType DEF Owed
  <2>3. Promised' >= WarmSize
    BY <2>1, <2>2 DEF Promised
  <2>. QED
    BY <2>2, <2>3 DEF Owed, WarmReplenished, Promised
<1>6. ASSUME NEW i \in Instances, RefillFails(i) \/ CloseFails(i) PROVE Owed'
  <2>1. IsFiniteSet(refilling')
    BY <1>6, FS_RemoveElement DEF RefillFails, CloseFails, Owed
  <2>2. faults' # 0
    BY <1>6 DEF RefillFails, CloseFails, TypeOK
  <2>. QED
    BY <2>1, <2>2, OwedMoot
<1>7. ASSUME NEW c \in Clients, BootCutShort(c) \/ ReleaseCutShort(c) PROVE Owed'
  <2>1. IsFiniteSet(refilling')
    BY <1>7 DEF BootCutShort, ReleaseCutShort, Owed
  <2>2. faults' # 0
    BY <1>7 DEF BootCutShort, ReleaseCutShort, TypeOK
  <2>. QED
    BY <2>1, <2>2, OwedMoot
<1>8. ASSUME warm' = warm, refilling' = refilling, Occupying' = Occupying,
             pc'[Prewarm] = pc[Prewarm], closing' = closing, faults' = faults
      PROVE  Owed'
  BY <1>8 DEF Owed, WarmReplenished
<1>9. ASSUME NEW c \in Clients,
             \/ WaitForSlot(c) \/ BootReturns(c) \/ TimeOut(c)
             \/ RaiseExhausted(c) \/ TerminateReturns(c)
      PROVE  Owed'
  <2>1. Occupying' = Occupying
    BY <1>9 DEF WaitForSlot, BootReturns, TimeOut, RaiseExhausted, TerminateReturns,
       Occupying, TypeOK
  <2>2. pc'[Prewarm] = pc[Prewarm]
    BY <1>9 DEF WaitForSlot, BootReturns, TimeOut, RaiseExhausted, TerminateReturns, TypeOK
  <2>. QED
    BY <1>8, <1>9, <2>1, <2>2 DEF WaitForSlot, BootReturns, TimeOut, RaiseExhausted,
       TerminateReturns
<1>10. ASSUME NEW i \in Instances, CloseTerminates(i) PROVE Owed'
  BY <1>8, <1>10 DEF CloseTerminates, Occupying
<1>11. ASSUME PrewarmBoots \/ PrewarmBooted \/ PrewarmFails PROVE Owed'
  <2>1. refilling' = refilling /\ pc'[Prewarm] # "done"
    BY <1>11 DEF PrewarmBoots, PrewarmBooted, PrewarmFails, TypeOK
  <2>. QED
    BY <2>1, OwedMoot DEF Owed
<1>12. CASE PrewarmReturns
  <2>1. /\ warm' = warm /\ refilling' = refilling /\ Occupying' = Occupying
        /\ Cardinality(warm) >= WarmSize
    BY <1>12 DEF PrewarmReturns, Occupying, TypeOK
  <2>2. Promised' >= WarmSize
    BY <2>1 DEF Promised
  <2>. QED
    BY <2>1, <2>2 DEF Owed, WarmReplenished, Promised
<1>13. CASE StartClose \/ CloseTakesWarm \/ CloseBackend
  <2>1. refilling' = refilling /\ closing' # "open"
    BY <1>13 DEF StartClose, CloseTakesWarm, CloseBackend
  <2>. QED
    BY <2>1, OwedMoot DEF Owed
<1>. QED
  BY <1>1, <1>2, <1>3, <1>4, <1>5, <1>6, <1>7, <1>9, <1>10, <1>11, <1>12, <1>13
  DEF Next, ClientProgress, RefillProgress, PrewarmProgress, CloseProgress

\* Once prewarmed and while nothing fails, every instance the warm pool lacks
\* is on its way or owed by a caller's release.
THEOREM WarmPoolOwed == Spec => []WarmReplenished
<1>1. Init => Owed
  BY FS_EmptySet DEF Init, Owed, WarmReplenished
<1>2. PoolInv /\ Owed /\ [Next]_vars => Owed'
  <2>1. ASSUME PoolInv, Owed, UNCHANGED vars PROVE Owed'
    BY <2>1 DEF Owed, WarmReplenished, Occupying
  <2>. QED
    BY <2>1, NextOwed DEF PoolInv
<1>3. Owed => WarmReplenished
  BY DEF Owed
<1>. QED
  BY <1>1, <1>2, <1>3, PoolInvariant, PTL DEF Spec

-----------------------------------------------------------------------------
(* SandboxPool implements InstanceLease: each step of the pool is one step of  *)
(* a lease, or none.                                                           *)

Holds(c, i) == pc[c] = "held" /\ handle[c] = i

TenantsAreHolders ==
    \A i \in Instances : /\ TenantOf(i) \in Clients \cup {NoInstance}
                         /\ \A c \in Clients : TenantOf(i) = c <=> Holds(c, i)

\* An instance has at most one holder, so TenantOf says who it is.
LEMMA TenantIsHolder == TypeOK /\ Placed => TenantsAreHolders
<1>. SUFFICES ASSUME TypeOK, Placed, NEW i \in Instances
              PROVE  /\ TenantOf(i) \in Clients \cup {NoInstance}
                     /\ \A c \in Clients : TenantOf(i) = c <=> Holds(c, i)
  BY DEF TenantsAreHolders
<1>1. ASSUME NEW c \in Clients, NEW d \in Clients, Holds(c, i), Holds(d, i) PROVE c = d
  BY <1>1 DEF Holds, Placed, Apart
<1>2. CASE \E c \in Clients : Holds(c, i)
  <2>1. TenantOf(i) = CHOOSE c \in Clients : Holds(c, i)
    BY <1>2 DEF TenantOf, Holds
  <2>2. TenantOf(i) \in Clients /\ Holds(TenantOf(i), i)
    BY <1>2, <2>1
  <2>. QED
    BY <1>1, <2>2
<1>3. CASE ~\E c \in Clients : Holds(c, i)
  BY <1>3 DEF TenantOf, Holds
<1>. QED
  BY <1>2, <1>3

LEMMA TenantIsHolderNext == TypeOK' /\ Placed' => TenantsAreHolders'
  BY TenantIsHolder, PTL

\* In a step in which no one takes or gives up the instance, its tenant stays.
LEMMA SameTenant ==
  ASSUME TenantsAreHolders, TenantsAreHolders',
         NEW i \in Instances,
         \A c \in Clients : Holds(c, i)' <=> Holds(c, i)
  PROVE  TenantOf(i)' = TenantOf(i)
  BY DEF TenantsAreHolders

TenantsStay == \A i \in Instances : TenantOf(i)' = TenantOf(i)

-----------------------------------------------------------------------------
(* Steps of InstanceLease, in the words of SandboxPool *)

LEMMA NoLeaseStep ==
  ASSUME life' = life, TenantsStay
  PROVE  UNCHANGED Lease!vars
  BY DEF Lease!vars, TenantsStay

LEMMA CreateStep ==
  ASSUME NEW i \in Instances, Boots(i), TenantsStay
  PROVE  Lease!Next
<1>1. Lease!Create(i)
  BY DEF Lease!Create, TenantsStay
<1>. QED
  BY <1>1 DEF Lease!Next

LEMMA LeaseStep ==
  ASSUME TypeOK, TenantsAreHolders, TenantsAreHolders',
         NEW i \in Instances, NEW c \in Clients,
         life[i] = "fresh", life' = [life EXCEPT ![i] = "leased"],
         pc[c] # "held", Holds(c, i)',
         \A j \in Instances \ {i} : TenantOf(j)' = TenantOf(j)
  PROVE  Lease!Next
<1>1. \A j \in Instances : TenantOf(j) # c
  BY DEF TenantsAreHolders, Holds
<1>2. TenantOf(i)' = c
  BY DEF TenantsAreHolders
<1>3. Lease!Lease(i, c)
  BY <1>1, <1>2 DEF Lease!Lease
<1>. QED
  BY <1>3 DEF Lease!Next

LEMMA AbandonStep ==
  ASSUME NEW i \in Instances, life[i] = "leased", life' = life,
         TenantOf(i)' = NoInstance,
         \A j \in Instances \ {i} : TenantOf(j)' = TenantOf(j)
  PROVE  Lease!Next
<1>1. Lease!Abandon(i)
  BY DEF Lease!Abandon
<1>. QED
  BY <1>1 DEF Lease!Next

LEMMA DestroyStep ==
  ASSUME TypeOK, NEW i \in Instances, life[i] # "none", life' = Without(i),
         TenantOf(i)' = NoInstance,
         \A j \in Instances \ {i} : TenantOf(j)' = TenantOf(j)
  PROVE  Lease!Next
<1>1. life' = [life EXCEPT ![i] = "none"]
  BY DEF TypeOK
<1>2. Lease!Destroy(i)
  BY <1>1 DEF Lease!Destroy
<1>. QED
  BY <1>2 DEF Lease!Next

\* A step that cuts a call short on an instance nobody holds before or after.
LEMMA CutShortStep ==
  ASSUME TypeOK, TenantsAreHolders, NEW i \in Instances, life[i] # "none",
         CutShort(i), TenantsStay, \A c \in Clients : ~Holds(c, i)
  PROVE  [Lease!Next]_(Lease!vars)
<1>1. TenantOf(i)' = NoInstance
  BY DEF TenantsAreHolders, TenantsStay
<1>2. CASE life' = life
  BY <1>2, NoLeaseStep
<1>3. CASE life' = Without(i)
  BY <1>1, <1>3, DestroyStep DEF TenantsStay
<1>. QED
  BY <1>2, <1>3

-----------------------------------------------------------------------------
(* Steps of SandboxPool *)

LEMMA NextLease ==
  ASSUME TypeOK, Placed, TenantsAreHolders, TenantsAreHolders', Next
  PROVE  [Lease!Next]_(Lease!vars)
<1>. DEFINE Implements == [Lease!Next]_(Lease!vars)
<1>. USE DEF TypeOK
<1>1. ASSUME \A c \in Clients, i \in Instances : Holds(c, i)' <=> Holds(c, i)
      PROVE  TenantsStay
  BY <1>1, SameTenant DEF TenantsStay
<1>2. ASSUME NEW c \in Clients, TakeWarm(c) PROVE Implements
  <2>1. PICK i \in warm : /\ life' = [life EXCEPT ![i] = "leased"]
                          /\ handle' = [handle EXCEPT ![c] = i]
    BY <1>2 DEF TakeWarm
  <2>2. life[i] = "fresh" /\ pc[c] # "held"
    BY <1>2 DEF TakeWarm, Placed, LifeMatchesPlace
  <2>3. Holds(c, i)'
    BY <1>2, <2>1 DEF TakeWarm, Holds
  <2>4. ASSUME NEW j \in Instances \ {i} PROVE TenantOf(j)' = TenantOf(j)
    <3>1. \A d \in Clients : Holds(d, j)' <=> Holds(d, j)
      BY <1>2, <2>1, <2>2 DEF TakeWarm, Holds
    <3>. QED
      BY <3>1, SameTenant
  <2>. QED
    BY <2>1, <2>2, <2>3, <2>4, LeaseStep
<1>3. ASSUME NEW c \in Clients, ColdStart(c) PROVE Implements
  <2>1. TenantsStay
    BY <1>1, <1>3 DEF ColdStart, Holds
  <2>. QED
    BY <1>3, <2>1, CreateStep DEF ColdStart
<1>4. ASSUME NEW c \in Clients, WaitForSlot(c) \/ TimeOut(c) \/ RaiseExhausted(c)
      PROVE  Implements
  <2>1. TenantsStay
    BY <1>1, <1>4 DEF WaitForSlot, TimeOut, RaiseExhausted, Holds
  <2>. QED
    BY <1>4, <2>1, NoLeaseStep DEF WaitForSlot, TimeOut, RaiseExhausted
<1>5. ASSUME NEW c \in Clients, BootReturns(c) PROVE Implements
  <2>1. PICK i \in Instances : i = handle[c] /\ life[i] = "fresh" /\ pc[c] # "held"
    BY <1>5 DEF BootReturns, Placed, LifeMatchesPlace
  <2>2. Holds(c, i)' /\ life' = [life EXCEPT ![i] = "leased"]
    BY <1>5, <2>1 DEF BootReturns, Holds
  <2>3. ASSUME NEW j \in Instances \ {i} PROVE TenantOf(j)' = TenantOf(j)
    <3>1. \A d \in Clients : Holds(d, j)' <=> Holds(d, j)
      BY <1>5, <2>1 DEF BootReturns, Holds
    <3>. QED
      BY <3>1, SameTenant
  <2>. QED
    BY <2>1, <2>2, <2>3, LeaseStep
<1>6. ASSUME NEW c \in Clients, BootCutShort(c) PROVE Implements
  <2>1. TenantsStay
    BY <1>1, <1>6 DEF BootCutShort, Holds
  <2>2. handle[c] \in Instances /\ life[handle[c]] = "fresh"
    BY <1>6 DEF BootCutShort, Placed, LifeMatchesPlace
  <2>3. \A d \in Clients : ~Holds(d, handle[c])
    BY <1>6, <2>2 DEF BootCutShort, Placed, Apart, Holds
  <2>. QED
    BY <1>6, <2>1, <2>2, <2>3, CutShortStep DEF BootCutShort
<1>7. ASSUME NEW c \in Clients, TerminateReturns(c) \/ ReleaseCutShort(c), pc[c] = "held"
      PROVE  Implements
  <2>1. PICK i \in Instances : i = handle[c] /\ life[i] = "leased"
    BY <1>7 DEF Placed, LifeMatchesPlace
  <2>2. \A d \in Clients : ~Holds(d, i)'
    BY <1>7, <2>1 DEF TerminateReturns, ReleaseCutShort, Holds, Placed, Apart
  <2>3. TenantOf(i)' = NoInstance
    BY <2>1, <2>2 DEF TenantsAreHolders
  <2>4. ASSUME NEW j \in Instances \ {i} PROVE TenantOf(j)' = TenantOf(j)
    <3>1. \A d \in Clients : Holds(d, j)' <=> Holds(d, j)
      BY <1>7, <2>1 DEF TerminateReturns, ReleaseCutShort, Holds
    <3>. QED
      BY <3>1, SameTenant
  <2>5. life' = life \/ life' = Without(i)
    BY <1>7, <2>1 DEF TerminateReturns, ReleaseCutShort
  <2>. QED
    BY <2>1, <2>3, <2>4, <2>5, AbandonStep, DestroyStep
<1>8. ASSUME NEW c \in Clients, ReleaseCutShort(c), pc[c] = "returning" PROVE Implements
  <2>1. TenantsStay
    BY <1>1, <1>8 DEF ReleaseCutShort, Holds
  <2>2. handle[c] \notin Instances
    BY <1>8 DEF Placed, LifeMatchesPlace
  <2>3. life' = life
    BY <1>8, <2>2 DEF ReleaseCutShort
  <2>. QED
    BY <2>1, <2>3, NoLeaseStep
<1>9. ASSUME NEW c \in Clients, ReturnSlot(c) PROVE Implements
  <2>1. TenantsStay
    BY <1>1, <1>9 DEF ReturnSlot, Notified, Holds
  <2>2. CASE life' = life
    BY <2>1, <2>2, NoLeaseStep
  <2>3. CASE \E i \in Instances : Boots(i)
    BY <2>1, <2>3, CreateStep
  <2>. QED
    BY <1>9, <2>2, <2>3 DEF ReturnSlot
<1>10. ASSUME NEW i \in Instances, RefillStores(i) PROVE Implements
  <2>1. TenantsStay
    BY <1>1, <1>10 DEF RefillStores, Notified, Holds
  <2>. QED
    BY <1>10, <2>1, NoLeaseStep DEF RefillStores
<1>11. ASSUME NEW i \in Instances, i \in refilling \cup doomed,
              pc' = pc, handle' = handle, Terminates(i) \/ CutShort(i)
       PROVE  Implements
  <2>1. TenantsStay
    BY <1>1, <1>11 DEF Holds
  <2>2. life[i] = "fresh" /\ \A c \in Clients : ~Holds(c, i)
    BY <1>11 DEF Placed, LifeMatchesPlace, Apart, Holds
  <2>3. TenantOf(i)' = NoInstance
    BY <2>1, <2>2 DEF TenantsAreHolders, TenantsStay
  <2>4. CASE life' = life
    BY <2>1, <2>4, NoLeaseStep
  <2>5. CASE life' = Without(i)
    BY <2>1, <2>2, <2>3, <2>5, DestroyStep DEF TenantsStay
  <2>. QED
    BY <1>11, <2>4, <2>5
<1>12. ASSUME NEW i \in Instances,
              RefillDiscards(i) \/ RefillFails(i) \/ CloseFails(i) \/ CloseTerminates(i)
       PROVE  Implements
  BY <1>11, <1>12 DEF RefillDiscards, RefillFails, CloseFails, CloseTerminates
<1>13. CASE PrewarmBoots
  <2>1. TenantsStay
    BY <1>1, <1>13 DEF PrewarmBoots, Holds
  <2>. QED
    BY <1>13, <2>1, CreateStep DEF PrewarmBoots
<1>14. CASE PrewarmFails
  <2>1. TenantsStay
    BY <1>1, <1>14 DEF PrewarmFails, Holds
  <2>2. handle[Prewarm] \in Instances /\ life[handle[Prewarm]] = "fresh"
    BY <1>14 DEF PrewarmFails, Placed, LifeMatchesPlace
  <2>3. \A d \in Clients : ~Holds(d, handle[Prewarm])
    BY <1>14, <2>2 DEF PrewarmFails, Placed, Apart, Holds
  <2>. QED
    BY <1>14, <2>1, <2>2, <2>3, CutShortStep DEF PrewarmFails
<1>15. CASE PrewarmBooted \/ PrewarmReturns
  <2>1. TenantsStay
    BY <1>1, <1>15 DEF PrewarmBooted, PrewarmReturns, Holds
  <2>. QED
    BY <1>15, <2>1, NoLeaseStep DEF PrewarmBooted, PrewarmReturns
<1>16. CASE StartClose \/ CloseTakesWarm \/ CloseBackend
  <2>1. TenantsStay
    BY <1>1, <1>16 DEF StartClose, CloseTakesWarm, CloseBackend, Holds
  <2>. QED
    BY <1>16, <2>1, NoLeaseStep DEF StartClose, CloseTakesWarm, CloseBackend
<1>17. ASSUME NEW c \in Clients, TerminateReturns(c) \/ ReleaseCutShort(c) PROVE Implements
  BY <1>7, <1>8, <1>17 DEF TerminateReturns, ReleaseCutShort
<1>. QED
  BY <1>2, <1>3, <1>4, <1>5, <1>6, <1>9, <1>10, <1>12, <1>13, <1>14, <1>15, <1>16, <1>17
  DEF Next, ClientProgress, RefillProgress, PrewarmProgress, CloseProgress

\* The pool implements InstanceLease: nobody is leased an instance twice, one
\* that had a tenant, or two at once, for any number of tasks and failures.
THEOREM PoolImplementsLease == Spec => LeaseSpec
<1>1. Init => Lease!Init
  <2>. SUFFICES ASSUME Init PROVE Lease!Init
    OBVIOUS
  <2>1. \A i \in Instances : TenantOf(i) = NoInstance
    BY DEF Init, TenantOf
  <2>. QED
    BY <2>1 DEF Init, Lease!Init
<1>2. PoolInv /\ PoolInv' /\ [Next]_vars => [Lease!Next]_(Lease!vars)
  <2>1. PoolInv => TypeOK /\ Placed
    BY DEF PoolInv
  <2>2. PoolInv => TenantsAreHolders
    BY <2>1, TenantIsHolder
  <2>3. PoolInv' => TenantsAreHolders'
    BY <2>2, PTL
  <2>4. ASSUME UNCHANGED vars PROVE UNCHANGED Lease!vars
    BY <2>4 DEF Lease!vars, TenantOf
  <2>. QED
    BY <2>1, <2>2, <2>3, <2>4, NextLease
<1>. QED
  BY <1>1, <1>2, PoolInvariant, PTL DEF Spec, LeaseSpec, Lease!Spec

\* What InstanceLease means for the pool: an instance that had a tenant is never
\* in the pool again, and no other client gets it, however the calls that give
\* it back are cut short.
NotReused == \A i \in Instances : life[i] = "leased" =>
    life'[i] # "fresh" /\ TenantOf(i)' \in {TenantOf(i), NoInstance}

\* Theorem: no instance is used by two clients, one after the other.
THEOREM NeverReused == Spec => [][NotReused]_vars
<1>1. PoolInv /\ [Lease!Next]_(Lease!vars) => NotReused
  <2>. SUFFICES ASSUME PoolInv, [Lease!Next]_(Lease!vars), NEW i \in Instances, life[i] = "leased"
                PROVE  life'[i] # "fresh" /\ TenantOf(i)' \in {TenantOf(i), NoInstance}
    BY DEF NotReused
  <2>. DEFINE tenant == [j \in Instances |-> TenantOf(j)]
  <2>0. life \in [Instances -> {"none", "fresh", "leased"}]
    BY DEF PoolInv, TypeOK
  <2>1. tenant[i] = TenantOf(i) /\ tenant'[i] = TenantOf(i)'
    OBVIOUS
  <2>2. CASE UNCHANGED Lease!vars
    BY <2>1, <2>2 DEF Lease!vars
  <2>3. ASSUME NEW j \in Instances, NEW c \in Clients, Lease!Lease(j, c)
        PROVE  life'[i] = life[i] /\ tenant'[i] = tenant[i]
    BY <2>0, <2>3 DEF Lease!Lease
  <2>4. ASSUME NEW j \in Instances, Lease!Create(j)
        PROVE  life'[i] = life[i] /\ tenant'[i] = tenant[i]
    BY <2>0, <2>4 DEF Lease!Create
  <2>5. ASSUME NEW j \in Instances, Lease!Abandon(j) \/ Lease!Destroy(j)
        PROVE  life'[i] # "fresh" /\ tenant'[i] \in {tenant[i], NoInstance}
    BY <2>0, <2>5 DEF Lease!Abandon, Lease!Destroy
  <2>. HIDE DEF tenant
  <2>6. CASE Lease!Next
    BY <2>1, <2>3, <2>4, <2>5, <2>6 DEF Lease!Next
  <2>. QED
    BY <2>2, <2>6
<1>. QED
  BY <1>1, PoolImplementsLease, PoolInvariant, PTL DEF LeaseSpec, Lease!Spec

=============================================================================
