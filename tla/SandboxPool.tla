---------------------------- MODULE SandboxPool ----------------------------
(***************************************************************************)
(* SandboxPool (sandbox/pool.py): a warm pool of single-use instances and  *)
(* a count of concurrency slots, shared by asyncio tasks.                  *)
(*                                                                         *)
(* Grain: a step is the code between two awaits that can suspend.  The     *)
(* lock of self._condition is held across a suspension while acquire() or  *)
(* prewarm() boots, so it is free when no task is in such a boot, and      *)
(* every other critical section is one step taken while it is free.  A     *)
(* task that waits for the lock on entry has done nothing yet: its call    *)
(* begins when it gets the lock, in whatever order waiters get it.         *)
(*                                                                         *)
(* An element of Instances is one instance from its boot to its end, and   *)
(* may then be another: the set bounds how many exist at once.             *)
(***************************************************************************)
EXTENDS Naturals, FiniteSets

CONSTANTS
    Clients,        \* tasks that acquire, run and release
    Prewarm,        \* the task that calls prewarm()
    Instances,      \* identities of instances
    WarmSize,       \* warm_size
    MaxConcurrent,  \* max_concurrent
    MaxFaults,      \* bound on boots and terminates that fail or are cancelled
    PrewarmFirst,   \* TRUE if prewarm() is awaited before the first acquire()
    NoInstance      \* a task holds no instance

ASSUME PoolAssumption ==
    /\ WarmSize \in Nat /\ MaxConcurrent \in Nat /\ MaxFaults \in Nat
    /\ PrewarmFirst \in BOOLEAN
    /\ IsFiniteSet(Clients) /\ Prewarm \notin Clients
    /\ NoInstance \notin Instances \cup Clients

VARIABLES
    warm,        \* self._warm; instances in it are alike, so a set
    concurrent,  \* self._concurrent_count
    pc,          \* where each client, and prewarm(), is
    handle,      \* the instance it boots or holds
    refilling,   \* instances that a _refill_one() task boots or has booted
    closing,     \* where close() is
    pending,     \* refill tasks that close() waits for
    doomed,      \* instances that close() took from the warm list
    life,        \* instances in the backend: "none", "fresh", or once "leased"
    faults,      \* failures so far
    lost,        \* history: slots whose client left without returning them
    late         \* history: the pool was in use when or after close() began

vars == <<warm, concurrent, pc, handle, refilling, closing, pending, doomed,
          life, faults, lost, late>>
pool     == <<warm, concurrent>>
tasks    == <<pc, handle>>
refills  == <<refilling, pending>>
shutdown == <<closing, doomed>>
history  == <<faults, lost, late>>

Procs == Clients \cup {Prewarm}

LockFree == \A p \in Procs : pc[p] \notin {"booting", "looping"}

\* Clients that took a slot of _concurrent_count and have not returned it.
Occupying == {c \in Clients : pc[c] \in {"booting", "held", "returning"}}

InUse == (\E c \in Clients : pc[c] # "idle") \/ ~LockFree

\* Mutant of Notified: no notify_all().
NotifiesNobody(f) == f

\* notify_all(): whoever is in condition.wait() must look again.
Notified(f) == [p \in Procs |-> IF f[p] = "waiting" THEN "woken" ELSE f[p]]

Goto(p, where) == pc' = [pc EXCEPT ![p] = where]
Takes(p, i)    == handle' = [handle EXCEPT ![p] = i]

\* boot_clean() starts; terminate() is done.
Boots(i)      == life[i] = "none" /\ life' = [life EXCEPT ![i] = "fresh"]
Without(i)    == [j \in Instances |-> IF j = i THEN "none" ELSE life[j]]
Terminates(i) == life' = Without(i)

\* A boot or terminate raises or is cancelled; the backend has cleaned the
\* instance up or leaves it behind.
CutShort(i) ==
    /\ faults < MaxFaults /\ faults' = faults + 1
    /\ life' \in {life, Without(i)}

\* Mutant of RefillEnds: close() keeps the lock while it waits for refills.
RefillEndsUnlessClosing(i) ==
    /\ i \in refilling /\ closing # "draining"
    /\ refilling' = refilling \ {i} /\ pending' = pending \ {i}
    /\ UNCHANGED <<concurrent, handle, shutdown, lost, late>>

\* A refill task is over, and no longer awaited by close().
RefillEnds(i) ==
    /\ i \in refilling
    /\ refilling' = refilling \ {i} /\ pending' = pending \ {i}
    /\ UNCHANGED <<concurrent, handle, shutdown, lost, late>>

Init ==
    /\ warm = {} /\ concurrent = 0
    /\ pc = [p \in Procs |-> "idle"]
    /\ handle = [p \in Procs |-> NoInstance]
    /\ refilling = {} /\ pending = {}
    /\ closing = "open" /\ doomed = {}
    /\ life = [i \in Instances |-> "none"]
    /\ faults = 0 /\ lost = 0 /\ late = FALSE

\* A client runs the loop of acquire(), on entry or after a wake-up, and goes
\* on to where.  Nothing stops a call after close().
Enter(c, where) ==
    /\ pc[c] \in {"idle", "woken"} /\ LockFree
    /\ PrewarmFirst => pc[Prewarm] = "done"
    /\ Goto(c, where)
    /\ late' = (late \/ closing # "open")

-----------------------------------------------------------------------------
(* Mutants: plausible slips in the operations below, by which TLC shows that  *)
(* each property can fail.  The specification uses none of them.              *)

\* TakeWarm that does not pop the list.
TakeWarmTwice(c) ==
    /\ Enter(c, "held")
    /\ \E i \in warm : life' = [life EXCEPT ![i] = "leased"] /\ Takes(c, i)
    /\ concurrent' = concurrent + 1
    /\ UNCHANGED <<warm, refills, shutdown, faults, lost>>

\* TakeWarm that counts cold starts only.
TakeWarmUncounted(c) ==
    /\ Enter(c, "held")
    /\ \E i \in warm :
         /\ warm' = warm \ {i}
         /\ life' = [life EXCEPT ![i] = "leased"]
         /\ Takes(c, i)
    /\ UNCHANGED <<concurrent, refills, shutdown, faults, lost>>

\* RaiseExhausted that waits once more.
WaitAgain(c) ==
    /\ pc[c] = "expired" /\ LockFree /\ Goto(c, "waiting")
    /\ UNCHANGED <<pool, handle, refills, shutdown, life, history>>

\* TerminateReturns that regrows the pool with the instance itself.
ReleaseReuses(c) ==
    /\ pc[c] = "held" /\ Goto(c, "returning")
    /\ warm' = warm \cup {handle[c]} /\ Takes(c, NoInstance)
    /\ UNCHANGED <<concurrent, refills, shutdown, life, history>>

\* ReturnSlot with at most one refill in flight.
ReturnSlotOneRefill(c) ==
    /\ pc[c] = "returning" /\ LockFree
    /\ concurrent' = concurrent - 1
    /\ pc' = Notified([pc EXCEPT ![c] = "idle"])
    /\ IF Cardinality(warm) < WarmSize /\ refilling = {}
         THEN \E i \in Instances : Boots(i) /\ refilling' = refilling \cup {i}
         ELSE UNCHANGED <<life, refilling>>
    /\ UNCHANGED <<warm, handle, pending, shutdown, history>>

\* RefillStores that does not look at the list again.
RefillStoresBlindly(i) ==
    /\ LockFree /\ RefillEnds(i)
    /\ warm' = warm \cup {i}
    /\ pc' = Notified(pc)
    /\ UNCHANGED <<life, faults>>

\* RefillDiscards without the terminate().
RefillDrops(i) ==
    /\ LockFree /\ RefillEnds(i)
    /\ Cardinality(warm) >= WarmSize
    /\ UNCHANGED <<warm, pc, life, faults>>

\* StartClose that waits for no refill.
CloseAtOnce ==
    /\ closing = "open" /\ closing' = "draining"
    /\ late' = InUse
    /\ UNCHANGED <<pool, tasks, refills, doomed, life, faults, lost>>

-----------------------------------------------------------------------------
(* acquire() *)

\* Warm hit.  The slot is counted, and the ceiling is not looked at.
TakeWarm(c) ==
    /\ Enter(c, "held")
    /\ \E i \in warm :
         /\ warm' = warm \ {i}
         /\ life' = [life EXCEPT ![i] = "leased"]
         /\ Takes(c, i)
    /\ concurrent' = concurrent + 1
    /\ UNCHANGED <<refills, shutdown, faults, lost>>

\* Cold start: the slot first, then boot_clean() with the lock held.
ColdStart(c) ==
    /\ Enter(c, "booting")
    /\ warm = {} /\ concurrent < MaxConcurrent
    /\ concurrent' = concurrent + 1
    /\ \E i \in Instances : Boots(i) /\ Takes(c, i)
    /\ UNCHANGED <<warm, refills, shutdown, faults, lost>>

\* condition.wait()
WaitForSlot(c) ==
    /\ Enter(c, "waiting")
    /\ warm = {} /\ concurrent >= MaxConcurrent
    /\ UNCHANGED <<pool, handle, refills, shutdown, life, faults, lost>>

BootReturns(c) ==
    /\ pc[c] = "booting" /\ Goto(c, "held")
    /\ life' = [life EXCEPT ![handle[c]] = "leased"]
    /\ UNCHANGED <<pool, handle, refills, shutdown, history>>

\* boot_clean() raises, or acquire_timeout cancels it: the slot taken before
\* the boot is not given back.
BootCutShort(c) ==
    /\ pc[c] = "booting" /\ Goto(c, "idle")
    /\ CutShort(handle[c]) /\ Takes(c, NoInstance)
    /\ lost' = lost + 1
    /\ UNCHANGED <<pool, refills, shutdown, late>>

\* acquire_timeout ends condition.wait(), which first takes the lock back...
TimeOut(c) ==
    /\ pc[c] \in {"waiting", "woken"} /\ Goto(c, "expired")
    /\ UNCHANGED <<pool, handle, refills, shutdown, life, history>>

\* ...and then lets SandboxPoolExhaustedError out.
RaiseExhausted(c) ==
    /\ pc[c] = "expired" /\ LockFree /\ Goto(c, "idle")
    /\ UNCHANGED <<pool, handle, refills, shutdown, life, history>>

-----------------------------------------------------------------------------
(* release(), after a run() or none: run() only delegates to the backend *)

TerminateReturns(c) ==
    /\ pc[c] = "held" /\ Goto(c, "returning")
    /\ Terminates(handle[c]) /\ Takes(c, NoInstance)
    /\ UNCHANGED <<pool, refills, shutdown, history>>

\* terminate() raises, or the caller is cancelled before it has the lock: the
\* slot is not given back.
ReleaseCutShort(c) ==
    /\ pc[c] \in {"held", "returning"} /\ Goto(c, "idle")
    /\ CutShort(handle[c]) /\ Takes(c, NoInstance)
    /\ lost' = lost + 1
    /\ UNCHANGED <<pool, refills, shutdown, late>>

\* The critical section, and the refill task spawned if the pool was under
\* warm_size, whatever refills are already on their way.
ReturnSlot(c) ==
    /\ pc[c] = "returning" /\ LockFree
    /\ concurrent' = concurrent - 1
    /\ pc' = Notified([pc EXCEPT ![c] = "idle"])
    /\ IF Cardinality(warm) < WarmSize
         THEN \E i \in Instances : Boots(i) /\ refilling' = refilling \cup {i}
         ELSE UNCHANGED <<life, refilling>>
    /\ UNCHANGED <<warm, handle, pending, shutdown, history>>

-----------------------------------------------------------------------------
(* _refill_one(): boots without the lock, then looks at the pool again *)

RefillStores(i) ==
    /\ LockFree /\ RefillEnds(i)
    /\ Cardinality(warm) < WarmSize
    /\ warm' = warm \cup {i}
    /\ pc' = Notified(pc)
    /\ UNCHANGED <<life, faults>>

\* Another path filled the pool.  (The terminate() runs under the lock; a task
\* that wants it meanwhile waits, so this is one step.)
RefillDiscards(i) ==
    /\ LockFree /\ RefillEnds(i)
    /\ Cardinality(warm) >= WarmSize
    /\ Terminates(i)
    /\ UNCHANGED <<warm, pc, faults>>

\* The boot fails and is logged, or the terminate of the extra one raises.
RefillFails(i) ==
    /\ RefillEnds(i) /\ CutShort(i)
    /\ UNCHANGED <<warm, pc>>

-----------------------------------------------------------------------------
(* prewarm(): boots under the lock until the pool holds warm_size *)

AtPrewarmLoop == (pc[Prewarm] = "idle" /\ LockFree) \/ pc[Prewarm] = "looping"

PrewarmBoots ==
    /\ AtPrewarmLoop /\ Goto(Prewarm, "booting")
    /\ Cardinality(warm) < WarmSize
    /\ \E i \in Instances : Boots(i) /\ Takes(Prewarm, i)
    /\ late' = (late \/ closing # "open")
    /\ UNCHANGED <<pool, refills, shutdown, faults, lost>>

\* No one is notified.
PrewarmBooted ==
    /\ pc[Prewarm] = "booting" /\ Goto(Prewarm, "looping")
    /\ warm' = warm \cup {handle[Prewarm]} /\ Takes(Prewarm, NoInstance)
    /\ UNCHANGED <<concurrent, refills, shutdown, life, history>>

PrewarmReturns ==
    /\ AtPrewarmLoop /\ Goto(Prewarm, "done")
    /\ Cardinality(warm) >= WarmSize
    /\ UNCHANGED <<pool, handle, refills, shutdown, life, history>>

PrewarmFails ==
    /\ pc[Prewarm] = "booting" /\ Goto(Prewarm, "failed")
    /\ CutShort(handle[Prewarm]) /\ Takes(Prewarm, NoInstance)
    /\ UNCHANGED <<pool, refills, shutdown, lost, late>>

-----------------------------------------------------------------------------
(* close() *)

\* The snapshot of refill tasks to gather.
StartClose ==
    /\ closing = "open" /\ closing' = "draining"
    /\ pending' = refilling
    /\ late' = InUse
    /\ UNCHANGED <<pool, tasks, refilling, doomed, life, faults, lost>>

CloseTakesWarm ==
    /\ closing = "draining" /\ pending = {} /\ LockFree
    /\ closing' = "terminating"
    /\ doomed' = warm /\ warm' = {}
    /\ UNCHANGED <<concurrent, tasks, refills, life, history>>

CloseTerminates(i) ==
    /\ i \in doomed /\ doomed' = doomed \ {i}
    /\ Terminates(i)
    /\ UNCHANGED <<pool, tasks, refills, closing, history>>

\* terminate() raises: the rest of the list is forgotten, backend.close() not
\* reached.
CloseFails(i) ==
    /\ i \in doomed /\ doomed' = {} /\ closing' = "failed"
    /\ CutShort(i)
    /\ UNCHANGED <<pool, tasks, refills, lost, late>>

\* backend.close()
CloseBackend ==
    /\ closing = "terminating" /\ doomed = {} /\ closing' = "closed"
    /\ UNCHANGED <<pool, tasks, refills, doomed, life, history>>

-----------------------------------------------------------------------------
(* Specification *)

\* What a task does without being asked while it has something to finish.
ClientProgress(c) ==
    \/ TakeWarm(c) \/ ColdStart(c) \/ WaitForSlot(c) \/ BootReturns(c)
    \/ RaiseExhausted(c) \/ TerminateReturns(c) \/ ReturnSlot(c)
RefillProgress(i) == RefillStores(i) \/ RefillDiscards(i)
PrewarmProgress == PrewarmBoots \/ PrewarmBooted \/ PrewarmReturns
CloseProgress ==
    CloseTakesWarm \/ CloseBackend \/ \E i \in Instances : CloseTerminates(i)

Next ==
    \/ \E c \in Clients :
         ClientProgress(c) \/ TimeOut(c) \/ BootCutShort(c) \/ ReleaseCutShort(c)
    \/ \E i \in Instances : RefillProgress(i) \/ RefillFails(i) \/ CloseFails(i)
    \/ PrewarmProgress \/ PrewarmFails
    \/ StartClose \/ CloseProgress

Spec == Init /\ [][Next]_vars

\* What the event loop and the backend owe: a boot or terminate that started
\* ends, execute_in_sandbox() releases what it holds, prewarm() is called, and
\* - asyncio.Lock serving its waiters in order - a task that keeps wanting the
\* lock gets it, hence strong fairness.  Nobody has to call acquire().
Fairness ==
    /\ \A c \in Clients : /\ SF_vars(pc[c] # "idle" /\ ClientProgress(c))
                          /\ WF_vars(TimeOut(c))
    /\ \A i \in Instances : SF_vars(RefillProgress(i))
    /\ SF_vars(PrewarmProgress) /\ SF_vars(CloseProgress)

FairSpec == Spec /\ Fairness

-----------------------------------------------------------------------------
(* Properties *)

ClientStates  == {"idle", "waiting", "woken", "expired", "booting", "held", "returning"}
PrewarmStates == {"idle", "booting", "looping", "done", "failed"}

\* Every variable keeps its type, and the counters stay natural numbers.
TypeOK ==
    /\ warm \in SUBSET Instances /\ concurrent \in Nat
    /\ pc \in [Procs -> ClientStates \cup PrewarmStates]
    /\ \A c \in Clients : pc[c] \in ClientStates
    /\ pc[Prewarm] \in PrewarmStates
    /\ handle \in [Procs -> Instances \cup {NoInstance}]
    /\ refilling \in SUBSET Instances /\ pending \in SUBSET refilling
    /\ closing \in {"open", "draining", "terminating", "closed", "failed"}
    /\ doomed \in SUBSET Instances
    /\ life \in [Instances -> {"none", "fresh", "leased"}]
    /\ faults \in 0..MaxFaults /\ lost \in Nat /\ late \in BOOLEAN

Alive == {i \in Instances : life[i] # "none"}
Held  == {handle[p] : p \in Procs} \ {NoInstance}

\* What some task is still to hand out or terminate.  close() looks at the warm
\* list once: nobody comes for what is stored there afterwards.
Owned ==
    {i \in warm : closing \in {"open", "draining"} \/ late} \cup doomed \cup refilling \cup Held

\* What a task or list refers to exists in the backend, in the state that the
\* place calls for: nobody is handed, runs on or terminates a dead instance,
\* and nothing that was leased is warm, being refilled or left to close().
\* One boot at a time runs under the lock.
LifeMatchesPlace ==
    /\ \A i \in warm \cup doomed \cup refilling : life[i] = "fresh"
    /\ \A p \in Procs :
         /\ handle[p] # NoInstance <=> pc[p] \in {"booting", "held"}
         /\ pc[p] = "booting" => life[handle[p]] = "fresh"
         /\ pc[p] = "held" => life[handle[p]] = "leased"
    /\ \A p, q \in Procs :
         pc[p] \in {"booting", "looping"} /\ pc[q] \in {"booting", "looping"} => p = q

\* An instance is in one place: the warm list, close()'s list, one refill
\* task, or the hands of one caller, however the tasks interleave.
SoleOwner ==
    /\ warm \cap (doomed \cup refilling \cup Held) = {}
    /\ doomed \cap (refilling \cup Held) = {}
    /\ refilling \cap Held = {}
    /\ \A p, q \in Procs : handle[p] = handle[q] /\ handle[p] # NoInstance => p = q

\* Prewarming and refills that race, and all saw a pool that was short, never
\* leave more than warm_size instances waiting.
WarmBound == Cardinality(warm) <= WarmSize

\* _concurrent_count is the callers that hold a slot plus the slots lost to
\* boots and releases cut short: no slot is counted or given back twice.
SlotAccounting == concurrent = Cardinality(Occupying) + lost

\* Without a failure every existing instance is some task's to hand out or to
\* terminate, and none is in a warm list that close() has already taken - except
\* when the pool was in use when or after close() began (late): the refill that a
\* release() starts meanwhile is not among those close() waits for, and leaves its
\* instance in that list for good.
NothingStranded == faults = 0 => Alive \subseteq Owned

\* A caller sleeps in condition.wait() only while there is neither a warm
\* instance nor a free slot: no release or refill is missed.  (prewarm() does
\* not notify: this is about deployments that await it before acquiring.)
NoLostWakeup ==
    PrewarmFirst /\ (\E c \in Clients : pc[c] = "waiting")
        => warm = {} /\ concurrent >= MaxConcurrent

\* Once prewarmed, the warm pool is owed what it lacks: every missing instance
\* is on its way in a refill, or a caller's release will start one.
WarmReplenished ==
    pc[Prewarm] = "done" /\ faults = 0 /\ closing = "open"
        => Cardinality(warm) + Cardinality(refilling) + Cardinality(Occupying) >= WarmSize

\* If nobody used the pool when close() began or since, and nothing failed,
\* no instance outlives close(), the refills then in flight included.
QuietCloseIsClean == closing = "closed" /\ ~late /\ faults = 0 => Alive = {}

\* The callers' view is InstanceLease: no interleaving of warm hits, cold
\* starts, refills, prewarm, close and cut-short calls leases an instance
\* twice, or one with a previous tenant, or two to one client.
TenantOf(i) ==
    IF \E c \in Clients : pc[c] = "held" /\ handle[c] = i
      THEN CHOOSE c \in Clients : pc[c] = "held" /\ handle[c] = i
      ELSE NoInstance

Lease == INSTANCE InstanceLease WITH
    Nobody <- NoInstance, phase <- life, tenant <- [i \in Instances |-> TenantOf(i)]

LeaseSpec == Lease!Spec

\* A caller that waits gets a handle or, once its timer fired and it has the
\* lock, an error.
AcquireResolves ==
    \A c \in Clients :
        pc[c] \in {"waiting", "woken", "expired"} ~> pc[c] \in {"held", "idle"}

\* close() gets through: the refills it waits for need the lock themselves,
\* and callers go on using the pool.
CloseCompletes == closing = "draining" ~> closing = "closed"

\* When callers stop, the warm pool grows back to warm_size and stays there.
WarmPoolRegrows ==
    <>[](closing = "open" /\ \A c \in Clients : pc[c] = "idle")
        => <>[](Cardinality(warm) = WarmSize)

-----------------------------------------------------------------------------
(* What the documentation says and the code does not do *)

\* docs/contracts/sandbox.md: an acquire() that finds the warm pool empty and
\* the concurrent count under max_concurrent boots an instance - the count
\* being that of the instances in callers' hands.
CountsOnlyCallers == concurrent <= Cardinality(Occupying)

=============================================================================
