------------------------- MODULE FirecrackerSandbox -------------------------
(***************************************************************************)
(* FirecrackerSandbox (sandbox/firecracker_backend.py): boot_clean() by a  *)
(* cold boot, in a jail, or restored from a golden snapshot that the first *)
(* boots race to make; terminate() and close().                            *)
(*                                                                         *)
(* An instance is what it has in the system: its copy of the root file     *)
(* system (in a jail, the jail's directory), its other files, the listener *)
(* that the guest connects to, and the process.  A step is the code        *)
(* between two awaits; awaits in a row that differ in nothing are one.     *)
(* (close() has no await: it comes between two steps of the boots.)        *)
(***************************************************************************)
EXTENDS Naturals, FiniteSets

CONSTANTS
    Callers,    \* tasks of the pool, each in one call at a time
    Ids,        \* instance ids; a new one is one of which nothing is left
    MaxLive,    \* bound on instances in the hands of the pool when a boot begins
    MaxFaults,  \* bound on calls cut short, on snapshots that are not written and
                \* on VMMs that exit by themselves while they boot
    None        \* no call, no id

ASSUME FirecrackerAssumption ==
    None \notin Callers \cup Ids /\ MaxFaults \in Nat

VARIABLES
    mode,        \* what the constructor was given: "cold", "jailed", "snapshot"
    stage,       \* where each call is
    inst,        \* the instance it boots or ends
    left,        \* what each instance has in the system
    registered,  \* keys of _instances
    lock,        \* who holds _golden_snapshot_lock
    golden,      \* whose root file system _golden_snapshot refers to
    disk,        \* the golden snapshot's own files exist
    closed,      \* history: close() has removed a golden snapshot
    faults, exits

vars == <<mode, stage, inst, left, registered, lock, golden, disk, closed, faults, exits>>

Parts == {"rootfs", "files", "listener", "process"}

\* What an await of a boot makes, and the stage that comes after it.
Making    == [staging |-> {"rootfs"}, listening |-> {"listener", "files"}, spawning |-> {"process"}]
Following == [staging |-> "listening", listening |-> "spawning", spawning |-> "configuring"]

Unused(i) == left[i] = {} /\ i \notin registered /\ \A c \in Callers : inst[c] # i

Init ==
    /\ mode \in {"cold", "jailed", "snapshot"}
    /\ stage = [c \in Callers |-> "idle"] /\ inst = [c \in Callers |-> None]
    /\ left = [i \in Ids |-> {}] /\ registered = {}
    /\ lock = None /\ golden = None /\ disk = FALSE /\ closed = FALSE
    /\ faults = 0 /\ exits = 0

Reaches(c, where) == stage' = [stage EXCEPT ![c] = where]
Leaves(i, parts)  == left' = [left EXCEPT ![i] = parts]

\* The call returns or raises; `async with` gives the lock back.
Ends(c) ==
    /\ Reaches(c, "idle") /\ inst' = [inst EXCEPT ![c] = None]
    /\ lock' = IF lock = c THEN None ELSE lock

\* A boot begins, with what it makes before its first await.
Starts(c, where, parts) ==
    \E i \in Ids :
        /\ Unused(i) /\ Leaves(i, parts)
        /\ Reaches(c, where) /\ inst' = [inst EXCEPT ![c] = i]

-----------------------------------------------------------------------------
(* Mutants *)

\* Dequeues that does not look again.
DequeuesBlindly(c) ==
    /\ stage[c] = "queued" /\ lock = None
    /\ lock' = c /\ Starts(c, "listening", {"rootfs"})
    /\ UNCHANGED <<mode, closed, registered, golden, disk, faults, exits>>

\* TimesOut that tries again.
TimesOutRetries(c) ==
    /\ stage[c] \in {"starting", "hung"} /\ Reaches(c, "configuring")
    /\ UNCHANGED <<mode, closed, inst, left, registered, lock, golden, disk, faults, exits>>

\* RefusesGuest without _cleanup_files().
RefusesUncleanly(c) ==
    /\ stage[c] = "starting" /\ mode # "jailed"
    /\ Leaves(inst[c], left[inst[c]] \ {"listener", "process"}) /\ Ends(c)
    /\ UNCHANGED <<mode, closed, registered, golden, disk, faults, exits>>

\* Close that forgets the instances too.
CloseForgets ==
    /\ golden # None /\ golden' = None /\ closed' = TRUE
    /\ disk' = FALSE /\ Leaves(golden, {})
    /\ registered' = {}
    /\ UNCHANGED <<mode, stage, inst, lock, faults, exits>>

-----------------------------------------------------------------------------
(* boot_clean() *)

\* _ensure_golden_snapshot() up to its first await, then _restore_instance()
EnsuresGolden(c) ==
    \/ golden # None /\ Starts(c, "listening", {}) /\ UNCHANGED lock
    \/ golden = None /\ lock = None /\ lock' = c /\ Starts(c, "listening", {"rootfs"})
    \/ golden = None /\ lock # None /\ Reaches(c, "queued") /\ UNCHANGED <<inst, left, lock>>

BootClean(c) ==
    /\ stage[c] = "idle" /\ Cardinality(registered) < MaxLive
    /\ \/ mode = "cold" /\ Starts(c, "listening", {"rootfs"}) /\ UNCHANGED lock
       \/ mode = "jailed" /\ Starts(c, "staging", {}) /\ UNCHANGED lock
       \/ mode = "snapshot" /\ EnsuresGolden(c)
    /\ UNCHANGED <<mode, closed, registered, golden, disk, faults, exits>>

\* The lock is got, and _golden_snapshot looked at again.
Dequeues(c) ==
    /\ stage[c] = "queued" /\ lock = None
    /\ EnsuresGolden(c)
    /\ UNCHANGED <<mode, closed, registered, golden, disk, faults, exits>>

\* The staging script, the listener, the process
Proceeds(c) ==
    /\ stage[c] \in DOMAIN Making /\ Reaches(c, Following[stage[c]])
    /\ Leaves(inst[c], left[inst[c]] \cup Making[stage[c]])
    /\ UNCHANGED <<mode, closed, inst, registered, lock, golden, disk, faults, exits>>

\* _api_put() ignores errors: a guest that did not get its configuration, or
\* finds no snapshot to load, hangs.
Configures(c) ==
    /\ stage[c] = "configuring"
    /\ \E where \in {"starting", "hung"} :
         /\ mode = "snapshot" /\ lock # c /\ ~disk => where = "hung"
         /\ Reaches(c, where)
    /\ UNCHANGED <<mode, closed, inst, left, registered, lock, golden, disk, faults, exits>>

\* "ready" from an instance that is to be handed out
GuestReady(c) ==
    /\ stage[c] = "starting" /\ lock # c
    /\ registered' = registered \cup {inst[c]}
    /\ Ends(c)
    /\ UNCHANGED <<mode, closed, left, golden, disk, faults, exits>>

\* "ready" from the instance to take the snapshot of; old files are unlinked.
GoldenReady(c) ==
    /\ stage[c] = "starting" /\ lock = c /\ Reaches(c, "snapshotting")
    /\ disk' = FALSE
    /\ UNCHANGED <<mode, closed, inst, left, registered, lock, golden, faults, exits>>

\* No connection, no message, or a closed connection
TimesOut(c) ==
    /\ stage[c] \in {"starting", "hung"} /\ Reaches(c, "failing")
    /\ Leaves(inst[c], left[inst[c]] \ (IF mode = "jailed" THEN {"listener"} ELSE {"process"}))
    /\ UNCHANGED <<mode, closed, inst, registered, lock, golden, disk, faults, exits>>

\* The first message is not "ready": no await, except in a jail, where it is
\* TimesOut.
RefusesGuest(c) ==
    /\ stage[c] = "starting" /\ mode # "jailed"
    /\ Leaves(inst[c], {}) /\ Ends(c)
    /\ UNCHANGED <<mode, closed, registered, golden, disk, faults, exits>>

\* The VMM exits by itself, the guest with it.
VmExits(c) ==
    /\ stage[c] \in {"configuring", "starting", "hung", "snapshotting"}
    /\ "process" \in left[inst[c]] /\ Leaves(inst[c], left[inst[c]] \ {"process"})
    /\ Reaches(c, IF stage[c] = "snapshotting" THEN "snapshotting" ELSE "hung")
    /\ faults + exits < MaxFaults /\ exits' = exits + 1
    /\ UNCHANGED <<mode, closed, inst, registered, lock, golden, disk, faults>>

\* process.kill() raises ProcessLookupError once the event loop knows that the
\* process has exited, and the call with it: nothing is removed.
KillRaises(c) ==
    /\ stage[c] \in {"hung", "snapshotting"} /\ mode # "jailed"
    /\ "process" \notin left[inst[c]] /\ Ends(c)
    /\ disk' \in IF stage[c] = "snapshotting" THEN BOOLEAN ELSE {disk}
    /\ UNCHANGED <<mode, closed, left, registered, golden, faults, exits>>

Fails == faults + exits < MaxFaults /\ faults' = faults + 1

\* The VM is paused and the snapshot created, or not: again _api_put() does
\* not tell.  Then the process is killed.
Snapshots(c) ==
    /\ stage[c] = "snapshotting" /\ Reaches(c, "sealing")
    /\ Leaves(inst[c], left[inst[c]] \ {"process"})
    /\ \/ disk' = TRUE /\ UNCHANGED faults
       \/ disk' = FALSE /\ Fails
    /\ UNCHANGED <<mode, closed, inst, registered, lock, golden, exits>>

\* All but the root file system is removed, the lock given back, and the
\* first restore begins, without an await.
Seals(c) ==
    /\ stage[c] = "sealing" /\ Reaches(c, "listening")
    /\ golden' = inst[c] /\ lock' = None
    /\ \E j \in Ids : Unused(j) /\ inst' = [inst EXCEPT ![c] = j]
    /\ Leaves(inst[c], left[inst[c]] \cap {"rootfs"})
    /\ UNCHANGED <<mode, closed, registered, disk, faults, exits>>

-----------------------------------------------------------------------------
(* terminate() and close() *)

\* A handle that is not in _instances (any more) is passed over.
Terminate(c, i) ==
    /\ stage[c] = "idle" /\ Reaches(c, "ending")
    /\ i \in registered /\ registered' = registered \ {i}
    /\ inst' = [inst EXCEPT ![c] = i]
    /\ Leaves(i, left[i] \ (IF mode = "jailed" THEN {"listener"} ELSE {"listener", "process"}))
    /\ UNCHANGED <<mode, closed, lock, golden, disk, faults, exits>>

\* What the awaits of terminate() or of a failed boot remove: in a jail first
\* the process (pkill), then the rest (rm); else all at once.
TearsDown(c) ==
    /\ stage[c] \in {"failing", "ending"}
    /\ LET rest == IF mode = "jailed" /\ "process" \in left[inst[c]]
                     THEN left[inst[c]] \ {"process"} ELSE {}
       IN  /\ Leaves(inst[c], rest)
           /\ IF rest = {} THEN Ends(c) ELSE UNCHANGED <<stage, inst, lock>>
    /\ UNCHANGED <<mode, closed, registered, golden, disk, faults, exits>>

\* What a call that breaks off may leave of its instance: what there was, with
\* or without what the await was to make, or, in a jail, to remove.
Remnants(c) ==
    LET parts == left[inst[c]]
    IN  CASE stage[c] \in DOMAIN Making -> {parts, parts \cup Making[stage[c]]}
          [] mode = "jailed" /\ stage[c] \in {"failing", "ending"} -> SUBSET parts
          [] OTHER -> {parts}

\* The call is cancelled in an await, or that raises what the code does not
\* catch: nothing is undone.  (The commands of a jail's teardown may also fail
\* silently.)
BreaksOff(c) ==
    /\ stage[c] # "idle" /\ Fails /\ Ends(c)
    /\ IF stage[c] = "queued" THEN UNCHANGED left
         ELSE \E parts \in Remnants(c) : Leaves(inst[c], parts)
    /\ disk' \in IF stage[c] = "snapshotting" THEN BOOLEAN ELSE {disk}
    /\ UNCHANGED <<mode, closed, registered, golden, exits>>

\* close(); without a golden snapshot it has no effect.
Close ==
    /\ golden # None /\ golden' = None /\ closed' = TRUE
    /\ disk' = FALSE /\ Leaves(golden, {})
    /\ UNCHANGED <<mode, stage, inst, registered, lock, faults, exits>>

-----------------------------------------------------------------------------
(* Specification *)

Progress(c) ==
    \/ Dequeues(c) \/ Proceeds(c) \/ Configures(c) \/ GuestReady(c) \/ GoldenReady(c)
    \/ TimesOut(c) \/ RefusesGuest(c) \/ KillRaises(c) \/ Snapshots(c) \/ Seals(c) \/ TearsDown(c)

Next ==
    \/ \E c \in Callers :
         \/ BootClean(c) \/ Progress(c) \/ VmExits(c) \/ BreaksOff(c)
         \/ \E i \in Ids : Terminate(c, i)
    \/ Close

Spec == Init /\ [][Next]_vars

\* Commands end, a guest that is not heard of times out, and the lock, which
\* serves its waiters in order, is got in the end.
Fairness == \A c \in Callers : SF_vars(Progress(c))

FairSpec == Spec /\ Fairness

-----------------------------------------------------------------------------
(* Properties *)

TypeOK ==
    /\ mode \in {"cold", "jailed", "snapshot"}
    /\ stage \in [Callers -> {"idle", "queued", "staging", "listening", "spawning", "configuring",
                              "starting", "hung", "snapshotting", "sealing", "failing", "ending"}]
    /\ inst \in [Callers -> Ids \cup {None}]
    /\ left \in [Ids -> SUBSET Parts]
    /\ registered \in SUBSET Ids
    /\ lock \in Callers \cup {None} /\ golden \in Ids \cup {None}
    /\ disk \in BOOLEAN /\ closed \in BOOLEAN
    /\ faults \in 0..MaxFaults /\ exits \in 0..MaxFaults

InHand == {inst[c] : c \in Callers}

SharedRootStands == golden # None /\ left[golden] = {"rootfs"}

\* Whatever exists of an instance is a handle's, a call's that is under way, or
\* the golden snapshot's: failed boots, torn down by one of four paths,
\* throwaway instances and terminated ones leave nothing, nor do callers who
\* wanted to make the snapshot at once.  Calls cut short and, outside a jail,
\* VMMs that exit by themselves are left out: kill() raises before the cleanup.
NothingLeft ==
    faults = 0 /\ (mode = "jailed" \/ exits = 0) =>
        /\ \A i \in Ids : left[i] # {} => i \in registered \cup InHand \cup {golden}
        /\ disk => golden # None \/ \E c \in Callers : stage[c] = "sealing"

\* What is in use stands, however other calls fail or tear down: a handle's
\* instance is whole and no other call has it, the root file system that restored
\* instances share is there, and while there is a golden snapshot nobody makes
\* another.  Left out, because close() removes it under them: the shared root file
\* system of instances restored before a close(), and, after one, of any.
InUseStands ==
    /\ \A i \in registered :
         /\ {"process", "listener", "files"} \subseteq left[i]
         /\ IF mode = "snapshot" THEN closed \/ SharedRootStands ELSE "rootfs" \in left[i]
         /\ i \notin InHand
    /\ \A c, d \in Callers : inst[c] = inst[d] /\ inst[c] # None => c = d
    /\ golden # None =>
         /\ SharedRootStands
         /\ golden \notin registered \cup InHand
         /\ lock = None
         /\ faults = 0 => disk

\* SandboxBackend, for callers of boot_clean() and terminate(): the instance
\* from which the snapshot is taken makes way for the one returned.
PhaseOf(i) ==
    CASE i \in registered -> "live"
      [] \E c \in Callers : inst[c] = i /\ stage[c] = "ending" -> "ending"
      [] \E c \in Callers : inst[c] = i /\ stage[c] # "ending" -> "booting"
      [] i \notin registered \cup InHand /\ left[i] # {} /\ i # golden -> "orphan"
      [] OTHER -> "none"

Backend == INSTANCE SandboxBackend WITH phase <- [i \in Ids |-> PhaseOf(i)]

BackendSpec == Backend!Spec

\* Every call ends, those that wait for the snapshot to be made included,
\* though its making fails and falls to the next of them.
CallsEnd == \A c \in Callers : stage[c] # "idle" ~> stage[c] = "idle"

=============================================================================
