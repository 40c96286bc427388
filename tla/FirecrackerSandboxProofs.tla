---------------------- MODULE FirecrackerSandboxProofs ----------------------
(***************************************************************************)
(* For any callers, ids and bounds: what FirecrackerSandbox has in the     *)
(* system is owned, and what is in use stands.                             *)
(*                                                                         *)
(* Stages says what an instance has at each stage of the call that boots   *)
(* or ends it; Apart, that nobody shares one; Golden, what the lock means; *)
(* Shared, that what is restored has a root file system until close().     *)
(***************************************************************************)
EXTENDS FirecrackerSandbox, TLAPS

Idle(c) == stage[c] \in {"idle", "queued"}

\* Boots of which the root file system is the instance's own.
OwnRoot(c) == mode = "cold" \/ mode = "jailed" \/ lock = c

StageOf(c) ==
    /\ Idle(c) <=> inst[c] = None
    /\ stage[c] = "staging" => mode = "jailed"
    /\ stage[c] = "queued" => mode = "snapshot"
    /\ stage[c] \in {"spawning", "configuring", "starting", "hung", "snapshotting", "sealing"}
         => {"listener", "files"} \subseteq left[inst[c]]
    /\ stage[c] \in {"configuring", "starting"} => "process" \in left[inst[c]]
    /\ stage[c] \in {"hung", "snapshotting"} /\ exits = 0 => "process" \in left[inst[c]]
    /\ OwnRoot(c) /\ stage[c] \notin {"idle", "queued", "staging", "failing", "ending"}
         => "rootfs" \in left[inst[c]]

Stages == \A c \in Callers : StageOf(c)

Apart ==
    /\ \A c, d \in Callers : inst[c] = inst[d] /\ inst[c] # None => c = d
    /\ \A c \in Callers : inst[c] \notin registered
    /\ golden # None => golden \notin registered /\ \A c \in Callers : inst[c] # golden
    /\ \A i \in registered :
         /\ {"process", "listener", "files"} \subseteq left[i]
         /\ mode # "snapshot" => "rootfs" \in left[i]

LockOf(c) ==
    /\ lock = c => mode = "snapshot" /\ stage[c] \notin {"idle", "queued", "ending"}
    /\ stage[c] \in {"snapshotting", "sealing"} => lock = c
    /\ stage[c] = "sealing" => "process" \notin left[inst[c]]

Golden ==
    /\ \A c \in Callers : LockOf(c)
    /\ golden # None => lock = None /\ left[golden] = {"rootfs"}

Intact == faults = 0 /\ (mode = "jailed" \/ exits = 0)

Accounted ==
    /\ Intact =>
         /\ \A i \in Ids : left[i] # {} => i \in registered \/ i = golden \/ \E c \in Callers : inst[c] = i
         /\ disk => golden # None \/ \E c \in Callers : stage[c] = "sealing"
    /\ faults = 0 =>
         /\ golden # None => disk
         /\ \A c \in Callers : stage[c] = "sealing" => disk

\* Restores follow a golden snapshot, which only close() removes.
Restoring(c) ==
    lock # c /\ stage[c] \in {"listening", "spawning", "configuring", "starting", "hung"}

Shared ==
    mode = "snapshot" /\ golden = None /\ ~closed
        => registered = {} /\ \A c \in Callers : ~Restoring(c)

IInv == TypeOK /\ Stages /\ Apart /\ Golden /\ Shared /\ Accounted

-----------------------------------------------------------------------------
LEMMA InitInv == Init => IInv
<1>. SUFFICES ASSUME Init PROVE IInv
  OBVIOUS
<1>. USE FirecrackerAssumption DEF Init
<1>1. TypeOK
  <2>1. disk \in BOOLEAN
    BY Zenon
  <2>2. faults \in 0..MaxFaults
    BY SMT
  <2>. QED
    BY <2>1, <2>2 DEF TypeOK, Parts
<1>2. Stages
  <2>. SUFFICES ASSUME NEW c \in Callers
                PROVE  stage[c] = "idle" /\ inst[c] = None
    BY DEF Stages, StageOf, Idle, OwnRoot
  <2>. QED
    OBVIOUS
<1>3. Apart
  BY DEF Apart
<1>4. Golden
  BY DEF Golden, LockOf
<1>5. Shared
  BY DEF Shared, Restoring
<1>6. Accounted
  BY DEF Accounted, Intact
<1>. QED
  BY <1>1, <1>2, <1>3, <1>4, <1>5, <1>6 DEF IInv

LEMMA NextTypes ==
  ASSUME TypeOK, Stages, Golden, Next
  PROVE  TypeOK'
<1>. USE FirecrackerAssumption DEF TypeOK, Reaches, Leaves, Parts
<1>1. ASSUME NEW c \in Callers, BootClean(c)
      PROVE  TypeOK'
  BY <1>1 DEF BootClean, EnsuresGolden, Starts
<1>2. ASSUME NEW c \in Callers, Dequeues(c)
      PROVE  TypeOK'
  BY <1>2 DEF Dequeues, EnsuresGolden, Starts
<1>3. ASSUME NEW c \in Callers, Proceeds(c)
      PROVE  TypeOK'
  <2>1. inst[c] \in Ids
    BY <1>3 DEF Proceeds, Stages, StageOf, Idle, Making
  <2>2. Making[stage[c]] \in SUBSET Parts /\ Following[stage[c]] \in {"listening", "spawning", "configuring"}
    BY <1>3 DEF Proceeds, Making, Following
  <2>. QED
    BY <1>3, <2>1, <2>2 DEF Proceeds
<1>4. ASSUME NEW c \in Callers, Configures(c)
      PROVE  TypeOK'
  BY <1>4 DEF Configures
<1>5. ASSUME NEW c \in Callers, GuestReady(c)
      PROVE  TypeOK'
  BY <1>5 DEF GuestReady, Ends, Stages, StageOf, Idle
<1>6. ASSUME NEW c \in Callers, GoldenReady(c)
      PROVE  TypeOK'
  BY <1>6 DEF GoldenReady
<1>7. ASSUME NEW c \in Callers, TimesOut(c)
      PROVE  TypeOK'
  BY <1>7 DEF TimesOut
<1>8. ASSUME NEW c \in Callers, RefusesGuest(c)
      PROVE  TypeOK'
  BY <1>8 DEF RefusesGuest, Ends
<1>9. ASSUME NEW c \in Callers, Snapshots(c)
      PROVE  TypeOK'
  <2>1. left' \in [Ids -> SUBSET Parts]
    BY <1>9 DEF Snapshots
  <2>2. faults' \in 0..MaxFaults
    BY <1>9 DEF Snapshots, Fails
  <2>3. disk' \in BOOLEAN
    BY <1>9, Zenon DEF Snapshots
  <2>. QED
    BY <1>9, <2>1, <2>2, <2>3 DEF Snapshots
<1>10. ASSUME NEW c \in Callers, Seals(c)
       PROVE  TypeOK'
  BY <1>10 DEF Seals, Stages, StageOf, Idle
<1>11. ASSUME NEW c \in Callers, NEW i \in Ids, Terminate(c, i)
       PROVE  TypeOK'
  BY <1>11 DEF Terminate
<1>12. ASSUME NEW c \in Callers, TearsDown(c)
       PROVE  TypeOK'
  BY <1>12 DEF TearsDown, Ends
<1>13. ASSUME NEW c \in Callers, BreaksOff(c)
       PROVE  TypeOK'
  <2>1. ASSUME stage[c] # "queued"
        PROVE  Remnants(c) \subseteq SUBSET Parts
    BY <1>13, <2>1 DEF BreaksOff, Remnants, Making, Stages, StageOf, Idle
  <2>2. left' \in [Ids -> SUBSET Parts]
    BY <1>13, <2>1 DEF BreaksOff
  <2>. QED
    BY <1>13, <2>2 DEF BreaksOff, Ends, Fails
<1>14. ASSUME Close
       PROVE  TypeOK'
  BY <1>14 DEF Close
<1>15. ASSUME NEW c \in Callers, VmExits(c)
       PROVE  TypeOK'
  <2>1. exits' \in 0..MaxFaults
    BY <1>15 DEF VmExits
  <2>2. inst[c] \in Ids
    BY <1>15 DEF VmExits, Stages, StageOf, Idle
  <2>3. left' \in [Ids -> SUBSET Parts]
    BY <1>15, <2>2 DEF VmExits
  <2>. QED
    BY <1>15, <2>1, <2>3 DEF VmExits
<1>16. ASSUME NEW c \in Callers, KillRaises(c)
       PROVE  TypeOK'
  BY <1>16 DEF KillRaises, Ends
<1>. QED
  BY <1>1, <1>2, <1>3, <1>4, <1>5, <1>6, <1>7, <1>8, <1>9, <1>10, <1>11, <1>12, <1>13, <1>14, <1>15, <1>16
  DEF Next, Progress

-----------------------------------------------------------------------------
(* A step of one call, and what it does not touch: the other calls, their     *)
(* instances and their hold on the lock, and what others have registered.     *)

Step(c) ==
    BootClean(c) \/ Progress(c) \/ VmExits(c) \/ BreaksOff(c) \/ \E i \in Ids : Terminate(c, i)

Untouched(c) ==
    /\ mode' = mode /\ (exits' = 0 => exits = 0)
    /\ \A d \in Callers \ {c} :
         /\ stage'[d] = stage[d] /\ inst'[d] = inst[d]
         /\ lock' = d <=> lock = d
         /\ inst[d] # None => left'[inst[d]] = left[inst[d]]
    /\ \A i \in registered : i \in registered' => left'[i] = left[i]
    /\ golden # None => golden' = golden /\ left'[golden] = left[golden]

LEMMA StartsFresh ==
  ASSUME TypeOK, Stages, Apart, Golden, NEW c \in Callers,
         NEW where, NEW parts \in SUBSET Parts, Starts(c, where, parts)
  PROVE  /\ stage' = [stage EXCEPT ![c] = where]
         /\ \E i \in Ids :
              /\ Unused(i) /\ i \notin registered /\ i # golden /\ i # None
              /\ left' = [left EXCEPT ![i] = parts]
              /\ inst' = [inst EXCEPT ![c] = i]
<1>1. PICK i \in Ids : /\ Unused(i) /\ Leaves(i, parts)
                       /\ Reaches(c, where) /\ inst' = [inst EXCEPT ![c] = i]
  BY DEF Starts
<1>2. i # None
  BY FirecrackerAssumption
<1>3. i # golden
  BY <1>1, <1>2 DEF Unused, Golden
<1>. QED
  BY <1>1, <1>2, <1>3 DEF Unused, Leaves, Reaches

LEMMA StepIsLocal ==
  ASSUME TypeOK, Stages, Apart, Golden, NEW c \in Callers, Step(c)
  PROVE  Untouched(c)
<1>. USE FirecrackerAssumption DEF TypeOK, Untouched, Stages, StageOf, Idle, Apart, Reaches, Leaves
<1>1. ASSUME BootClean(c)
      PROVE  Untouched(c)
  <2>1. ASSUME NEW where \in {"listening", "staging"}, NEW parts \in {{}, {"rootfs"}},
               Starts(c, where, parts), mode' = mode, golden' = golden, registered' = registered,
               exits' = exits, lock' = lock \/ (lock = None /\ lock' = c)
        PROVE  Untouched(c)
    BY <2>1, StartsFresh DEF Unused, Parts
  <2>2. CASE stage[c] \in {"idle", "queued"} /\ Reaches(c, "queued") /\ UNCHANGED <<mode, golden, registered, inst, left, lock, exits>> /\ mode = "snapshot" /\ golden = None /\ lock # None
    BY <2>2
  <2>. QED
    BY <1>1, <2>1, <2>2 DEF BootClean, EnsuresGolden
<1>2. ASSUME Dequeues(c)
      PROVE  Untouched(c)
  BY <1>2, StartsFresh DEF Dequeues, EnsuresGolden, Unused, Parts
<1>3. ASSUME Proceeds(c)
      PROVE  Untouched(c)
  BY <1>3 DEF Proceeds, Making, Following
<1>4. ASSUME Configures(c)
      PROVE  Untouched(c)
  BY <1>4 DEF Configures
<1>5. ASSUME GuestReady(c)
      PROVE  Untouched(c)
  BY <1>5 DEF GuestReady, Ends
<1>6. ASSUME GoldenReady(c)
      PROVE  Untouched(c)
  BY <1>6 DEF GoldenReady, Golden, LockOf
<1>7. ASSUME TimesOut(c)
      PROVE  Untouched(c)
  BY <1>7 DEF TimesOut
<1>8. ASSUME RefusesGuest(c)
      PROVE  Untouched(c)
  BY <1>8 DEF RefusesGuest, Ends
<1>9. ASSUME Snapshots(c)
      PROVE  Untouched(c)
  BY <1>9 DEF Snapshots
<1>10. ASSUME Seals(c)
       PROVE  Untouched(c)
  BY <1>10 DEF Seals, Unused, Golden, LockOf
<1>11. ASSUME NEW i \in Ids, Terminate(c, i)
       PROVE  Untouched(c)
  BY <1>11 DEF Terminate
<1>12. ASSUME TearsDown(c)
       PROVE  Untouched(c)
  BY <1>12 DEF TearsDown, Ends
<1>13. ASSUME BreaksOff(c)
       PROVE  Untouched(c)
  BY <1>13 DEF BreaksOff, Ends
<1>14. ASSUME VmExits(c)
       PROVE  Untouched(c)
  BY <1>14 DEF VmExits
<1>15. ASSUME KillRaises(c)
       PROVE  Untouched(c)
  BY <1>15 DEF KillRaises, Ends
<1>. QED
  BY <1>1, <1>2, <1>3, <1>4, <1>5, <1>6, <1>7, <1>8, <1>9, <1>10, <1>11, <1>12, <1>13, <1>14, <1>15 DEF Step, Progress

LEMMA NextStage ==
  ASSUME TypeOK, Stages, Apart, Golden, TypeOK', NEW c \in Callers, Step(c)
  PROVE  StageOf(c)'
<1>. USE FirecrackerAssumption DEF TypeOK, Stages, StageOf, Idle, OwnRoot, Reaches, Leaves
<1>1. ASSUME BootClean(c)
      PROVE  StageOf(c)'
  <2>1. ASSUME NEW where \in {"listening", "staging"}, NEW parts \in {{}, {"rootfs"}},
               Starts(c, where, parts), Idle(c), mode' = mode, golden' = golden, registered' = registered,
               lock' = lock \/ (lock = None /\ lock' = c),
               \/ parts = {"rootfs"} /\ where = "listening"
               \/ mode = "jailed" /\ where = "staging"
               \/ mode = "snapshot" /\ where = "listening" /\ lock' = lock
        PROVE  StageOf(c)'
    BY <2>1, StartsFresh DEF Unused, Parts, Golden, LockOf
  <2>2. CASE stage[c] \in {"idle", "queued"} /\ Reaches(c, "queued") /\ UNCHANGED <<mode, golden, registered, inst, left, lock, exits>> /\ mode = "snapshot" /\ golden = None /\ lock # None
    BY <2>2 DEF Golden, LockOf
  <2>. QED
    BY <1>1, <2>1, <2>2 DEF BootClean, EnsuresGolden
<1>2. ASSUME Dequeues(c)
      PROVE  StageOf(c)'
  <2>1. ASSUME NEW where \in {"listening", "staging"}, NEW parts \in {{}, {"rootfs"}},
               Starts(c, where, parts), Idle(c), mode' = mode, golden' = golden, registered' = registered,
               lock' = lock \/ (lock = None /\ lock' = c),
               \/ parts = {"rootfs"} /\ where = "listening"
               \/ mode = "jailed" /\ where = "staging"
               \/ mode = "snapshot" /\ where = "listening" /\ lock' = lock
        PROVE  StageOf(c)'
    BY <2>1, StartsFresh DEF Unused, Parts, Golden, LockOf
  <2>2. CASE stage[c] \in {"idle", "queued"} /\ Reaches(c, "queued") /\ UNCHANGED <<mode, golden, registered, inst, left, lock, exits>> /\ mode = "snapshot" /\ golden = None /\ lock # None
    BY <2>2 DEF Golden, LockOf
  <2>. QED
    BY <1>2, <2>1, <2>2 DEF Dequeues, EnsuresGolden
<1>3. ASSUME Proceeds(c)
      PROVE  StageOf(c)'
  BY <1>3 DEF Proceeds, Making, Following
<1>4. ASSUME Configures(c)
      PROVE  StageOf(c)'
  BY <1>4 DEF Configures
<1>5. ASSUME GuestReady(c)
      PROVE  StageOf(c)'
  BY <1>5 DEF GuestReady, Ends
<1>6. ASSUME GoldenReady(c)
      PROVE  StageOf(c)'
  BY <1>6 DEF GoldenReady, Golden, LockOf
<1>7. ASSUME TimesOut(c)
      PROVE  StageOf(c)'
  BY <1>7 DEF TimesOut
<1>8. ASSUME RefusesGuest(c)
      PROVE  StageOf(c)'
  BY <1>8 DEF RefusesGuest, Ends
<1>9. ASSUME Snapshots(c)
      PROVE  StageOf(c)'
  BY <1>9 DEF Snapshots
<1>10. ASSUME Seals(c)
       PROVE  StageOf(c)'
  BY <1>10 DEF Seals, Unused, Golden, LockOf
<1>11. ASSUME NEW i \in Ids, Terminate(c, i)
       PROVE  StageOf(c)'
  BY <1>11 DEF Terminate
<1>12. ASSUME TearsDown(c)
       PROVE  StageOf(c)'
  BY <1>12 DEF TearsDown, Ends
<1>13. ASSUME BreaksOff(c)
       PROVE  StageOf(c)'
  BY <1>13 DEF BreaksOff, Ends
<1>14. ASSUME VmExits(c)
       PROVE  StageOf(c)'
  BY <1>14 DEF VmExits
<1>15. ASSUME KillRaises(c)
       PROVE  StageOf(c)'
  BY <1>15 DEF KillRaises, Ends
<1>. QED
  BY <1>1, <1>2, <1>3, <1>4, <1>5, <1>6, <1>7, <1>8, <1>9, <1>10, <1>11, <1>12, <1>13, <1>14, <1>15 DEF Step, Progress

LEMMA NextApart ==
  ASSUME TypeOK, Stages, Apart, Golden, TypeOK', NEW c \in Callers, Step(c), Untouched(c), StageOf(c)'
  PROVE  Apart'
<1>. USE FirecrackerAssumption DEF TypeOK, Apart, Untouched, Stages, StageOf, Reaches, Leaves
<1>1. ASSUME BootClean(c)
      PROVE  Apart'
  BY <1>1, StartsFresh DEF BootClean, EnsuresGolden, Unused, Parts, Idle
<1>2. ASSUME Dequeues(c)
      PROVE  Apart'
  BY <1>2, StartsFresh DEF Dequeues, EnsuresGolden, Unused, Parts, Idle
<1>3. ASSUME Proceeds(c)
      PROVE  Apart'
  BY <1>3 DEF Proceeds, Making, Following
<1>4. ASSUME Configures(c)
      PROVE  Apart'
  BY <1>4 DEF Configures
<1>5. ASSUME GuestReady(c)
      PROVE  Apart'
  BY <1>5 DEF GuestReady, Ends, Idle, OwnRoot
<1>6. ASSUME GoldenReady(c)
      PROVE  Apart'
  BY <1>6 DEF GoldenReady
<1>7. ASSUME TimesOut(c)
      PROVE  Apart'
  BY <1>7 DEF TimesOut
<1>8. ASSUME RefusesGuest(c)
      PROVE  Apart'
  BY <1>8 DEF RefusesGuest, Ends
<1>9. ASSUME Snapshots(c)
      PROVE  Apart'
  BY <1>9 DEF Snapshots, Fails
<1>10. ASSUME Seals(c)
       PROVE  Apart'
  BY <1>10 DEF Seals, Unused, Golden, LockOf, Idle
<1>11. ASSUME NEW i \in Ids, Terminate(c, i)
       PROVE  Apart'
  BY <1>11 DEF Terminate
<1>12. ASSUME TearsDown(c)
       PROVE  Apart'
  BY <1>12 DEF TearsDown, Ends
<1>13. ASSUME BreaksOff(c)
       PROVE  Apart'
  BY <1>13 DEF BreaksOff, Ends, Fails
<1>14. ASSUME VmExits(c)
       PROVE  Apart'
  BY <1>14 DEF VmExits
<1>15. ASSUME KillRaises(c)
       PROVE  Apart'
  BY <1>15 DEF KillRaises, Ends
<1>. QED
  BY <1>1, <1>2, <1>3, <1>4, <1>5, <1>6, <1>7, <1>8, <1>9, <1>10, <1>11, <1>12, <1>13, <1>14, <1>15 DEF Step, Progress

LEMMA NextLock ==
  ASSUME TypeOK, Stages, Apart, Golden, TypeOK', NEW c \in Callers, Step(c), Untouched(c), StageOf(c)'
  PROVE  LockOf(c)'
<1>. USE FirecrackerAssumption DEF TypeOK, Stages, StageOf, Golden, LockOf, Reaches, Leaves
<1>1. ASSUME BootClean(c)
      PROVE  LockOf(c)'
  BY <1>1, StartsFresh DEF BootClean, EnsuresGolden, Unused, Parts, Idle
<1>2. ASSUME Dequeues(c)
      PROVE  LockOf(c)'
  BY <1>2, StartsFresh DEF Dequeues, EnsuresGolden, Unused, Parts, Idle
<1>3. ASSUME Proceeds(c)
      PROVE  LockOf(c)'
  BY <1>3 DEF Proceeds, Making, Following
<1>4. ASSUME Configures(c)
      PROVE  LockOf(c)'
  BY <1>4 DEF Configures
<1>5. ASSUME GuestReady(c)
      PROVE  LockOf(c)'
  BY <1>5 DEF GuestReady, Ends
<1>6. ASSUME GoldenReady(c)
      PROVE  LockOf(c)'
  BY <1>6 DEF GoldenReady
<1>7. ASSUME TimesOut(c)
      PROVE  LockOf(c)'
  BY <1>7 DEF TimesOut
<1>8. ASSUME RefusesGuest(c)
      PROVE  LockOf(c)'
  BY <1>8 DEF RefusesGuest, Ends
<1>9. ASSUME Snapshots(c)
      PROVE  LockOf(c)'
  BY <1>9 DEF Snapshots, Fails
<1>10. ASSUME Seals(c)
       PROVE  LockOf(c)'
  BY <1>10 DEF Seals, Unused
<1>11. ASSUME NEW i \in Ids, Terminate(c, i)
       PROVE  LockOf(c)'
  BY <1>11 DEF Terminate
<1>12. ASSUME TearsDown(c)
       PROVE  LockOf(c)'
  BY <1>12 DEF TearsDown, Ends
<1>13. ASSUME BreaksOff(c)
       PROVE  LockOf(c)'
  BY <1>13 DEF BreaksOff, Ends, Fails
<1>14. ASSUME VmExits(c)
       PROVE  LockOf(c)'
  BY <1>14 DEF VmExits
<1>15. ASSUME KillRaises(c)
       PROVE  LockOf(c)'
  BY <1>15 DEF KillRaises, Ends
<1>. QED
  BY <1>1, <1>2, <1>3, <1>4, <1>5, <1>6, <1>7, <1>8, <1>9, <1>10, <1>11, <1>12, <1>13, <1>14, <1>15 DEF Step, Progress

LEMMA NextGolden ==
  ASSUME TypeOK, Stages, Apart, Golden, TypeOK', NEW c \in Callers, Step(c), Untouched(c), StageOf(c)'
  PROVE  golden' # None => lock' = None /\ left'[golden'] = {"rootfs"}
<1>. USE FirecrackerAssumption DEF TypeOK, Untouched, Stages, StageOf, Golden, LockOf, Reaches, Leaves
<1>1. ASSUME BootClean(c)
      PROVE  golden' # None => lock' = None /\ left'[golden'] = {"rootfs"}
  BY <1>1, StartsFresh DEF BootClean, EnsuresGolden, Unused, Parts, Idle
<1>2. ASSUME Dequeues(c)
      PROVE  golden' # None => lock' = None /\ left'[golden'] = {"rootfs"}
  BY <1>2, StartsFresh DEF Dequeues, EnsuresGolden, Unused, Parts, Idle
<1>3. ASSUME Proceeds(c)
      PROVE  golden' # None => lock' = None /\ left'[golden'] = {"rootfs"}
  BY <1>3 DEF Proceeds, Making, Following
<1>4. ASSUME Configures(c)
      PROVE  golden' # None => lock' = None /\ left'[golden'] = {"rootfs"}
  BY <1>4 DEF Configures
<1>5. ASSUME GuestReady(c)
      PROVE  golden' # None => lock' = None /\ left'[golden'] = {"rootfs"}
  BY <1>5 DEF GuestReady, Ends
<1>6. ASSUME GoldenReady(c)
      PROVE  golden' # None => lock' = None /\ left'[golden'] = {"rootfs"}
  BY <1>6 DEF GoldenReady
<1>7. ASSUME TimesOut(c)
      PROVE  golden' # None => lock' = None /\ left'[golden'] = {"rootfs"}
  BY <1>7 DEF TimesOut
<1>8. ASSUME RefusesGuest(c)
      PROVE  golden' # None => lock' = None /\ left'[golden'] = {"rootfs"}
  BY <1>8 DEF RefusesGuest, Ends
<1>9. ASSUME Snapshots(c)
      PROVE  golden' # None => lock' = None /\ left'[golden'] = {"rootfs"}
  BY <1>9 DEF Snapshots, Fails
<1>10. ASSUME Seals(c)
       PROVE  golden' # None => lock' = None /\ left'[golden'] = {"rootfs"}
  BY <1>10 DEF Seals, Unused, Idle, OwnRoot
<1>11. ASSUME NEW i \in Ids, Terminate(c, i)
       PROVE  golden' # None => lock' = None /\ left'[golden'] = {"rootfs"}
  BY <1>11 DEF Terminate
<1>12. ASSUME TearsDown(c)
       PROVE  golden' # None => lock' = None /\ left'[golden'] = {"rootfs"}
  BY <1>12 DEF TearsDown, Ends
<1>13. ASSUME BreaksOff(c)
       PROVE  golden' # None => lock' = None /\ left'[golden'] = {"rootfs"}
  BY <1>13 DEF BreaksOff, Ends, Fails
<1>14. ASSUME VmExits(c)
       PROVE  golden' # None => lock' = None /\ left'[golden'] = {"rootfs"}
  BY <1>14 DEF VmExits
<1>15. ASSUME KillRaises(c)
       PROVE  golden' # None => lock' = None /\ left'[golden'] = {"rootfs"}
  BY <1>15 DEF KillRaises, Ends
<1>. QED
  BY <1>1, <1>2, <1>3, <1>4, <1>5, <1>6, <1>7, <1>8, <1>9, <1>10, <1>11, <1>12, <1>13, <1>14, <1>15 DEF Step, Progress

LEMMA NextShared ==
  ASSUME TypeOK, Stages, Golden, Shared, NEW c \in Callers, Step(c), Untouched(c)
  PROVE  Shared'
<1>. SUFFICES ASSUME mode = "snapshot", golden = None, golden' = None, ~closed
              PROVE  registered' = {} /\ ~Restoring(c)'
  <2>1. /\ mode' = mode /\ closed' = closed
        /\ golden # None => golden' # None
    BY FirecrackerAssumption DEF Step, Progress, BootClean, Dequeues, Proceeds, Configures, GuestReady,
       GoldenReady, TimesOut, RefusesGuest, KillRaises, Snapshots, Seals, TearsDown, VmExits, BreaksOff,
       Terminate, TypeOK, Stages, StageOf, Idle
  <2>2. \A d \in Callers \ {c} : Restoring(d)' => Restoring(d)
    BY DEF Untouched, Restoring, TypeOK
  <2>. QED
    BY <2>1, <2>2 DEF Shared
<1>1. registered = {} /\ ~Restoring(c)
  BY DEF Shared
<1>. USE FirecrackerAssumption DEF TypeOK, Restoring, Reaches
<1>2. ASSUME BootClean(c) \/ Dequeues(c)
      PROVE  registered' = {} /\ ~Restoring(c)'
  BY <1>1, <1>2 DEF BootClean, Dequeues, EnsuresGolden, Starts
<1>3. ASSUME Proceeds(c)
      PROVE  registered' = {} /\ ~Restoring(c)'
  BY <1>1, <1>3 DEF Proceeds, Making, Following, Stages, StageOf
<1>4. ASSUME Configures(c) \/ GuestReady(c) \/ GoldenReady(c) \/ VmExits(c)
      PROVE  registered' = {} /\ ~Restoring(c)'
  BY <1>1, <1>4 DEF Configures, GuestReady, GoldenReady, VmExits
<1>5. ASSUME TimesOut(c) \/ RefusesGuest(c) \/ KillRaises(c) \/ Snapshots(c)
      PROVE  registered' = {} /\ ~Restoring(c)'
  BY <1>1, <1>5 DEF TimesOut, RefusesGuest, KillRaises, Snapshots, Ends
<1>6. ASSUME Seals(c)
      PROVE  FALSE
  BY <1>6 DEF Seals, Stages, StageOf, Idle
<1>7. ASSUME TearsDown(c) \/ BreaksOff(c) \/ \E i \in Ids : Terminate(c, i)
      PROVE  registered' = {} /\ ~Restoring(c)'
  BY <1>1, <1>7 DEF TearsDown, BreaksOff, Terminate, Ends
<1>. QED
  BY <1>2, <1>3, <1>4, <1>5, <1>6, <1>7 DEF Step, Progress

LEMMA NextAccounted ==
  ASSUME TypeOK, Stages, Apart, Golden, TypeOK', NEW c \in Callers, Step(c), Untouched(c), StageOf(c)', Accounted
  PROVE  Accounted'
<1>. USE FirecrackerAssumption DEF TypeOK, Accounted, Intact, Untouched, Stages, StageOf, Golden, LockOf, Reaches, Leaves
<1>1. ASSUME BootClean(c)
      PROVE  Accounted'
  BY <1>1, StartsFresh DEF BootClean, EnsuresGolden, Unused, Parts, Idle
<1>2. ASSUME Dequeues(c)
      PROVE  Accounted'
  BY <1>2, StartsFresh DEF Dequeues, EnsuresGolden, Unused, Parts, Idle
<1>3. ASSUME Proceeds(c)
      PROVE  Accounted'
  BY <1>3 DEF Proceeds, Making, Following
<1>4. ASSUME Configures(c)
      PROVE  Accounted'
  BY <1>4 DEF Configures
<1>5. ASSUME GuestReady(c)
      PROVE  Accounted'
  BY <1>5 DEF GuestReady, Ends
<1>6. ASSUME GoldenReady(c)
      PROVE  Accounted'
  BY <1>6 DEF GoldenReady
<1>7. ASSUME TimesOut(c)
      PROVE  Accounted'
  BY <1>7 DEF TimesOut
<1>8. ASSUME RefusesGuest(c)
      PROVE  Accounted'
  BY <1>8 DEF RefusesGuest, Ends
<1>9. ASSUME Snapshots(c)
      PROVE  Accounted'
  BY <1>9 DEF Snapshots, Fails
<1>10. ASSUME Seals(c)
       PROVE  Accounted'
  BY <1>10 DEF Seals, Unused
<1>11. ASSUME NEW i \in Ids, Terminate(c, i)
       PROVE  Accounted'
  <2>1. inst[c] = None /\ inst' = [inst EXCEPT ![c] = i] /\ UNCHANGED <<mode, golden, disk, faults, exits>>
    BY <1>11 DEF Terminate, Idle
  <2>2. ASSUME Intact, NEW j \in Ids, left'[j] # {}
        PROVE  j \in registered' \/ j = golden' \/ \E d \in Callers : inst'[d] = j
    BY <1>11, <2>1, <2>2 DEF Terminate
  <2>3. \A d \in Callers : stage'[d] = "sealing" <=> stage[d] = "sealing"
    BY <1>11 DEF Terminate
  <2>. QED
    BY <2>1, <2>2, <2>3
<1>12. ASSUME TearsDown(c)
       PROVE  Accounted'
  BY <1>12 DEF TearsDown, Ends
<1>13. ASSUME BreaksOff(c)
       PROVE  Accounted'
  BY <1>13 DEF BreaksOff, Ends, Fails
<1>14. ASSUME VmExits(c)
       PROVE  Accounted'
  BY <1>14 DEF VmExits
<1>15. ASSUME KillRaises(c)
       PROVE  Accounted'
  BY <1>15 DEF KillRaises, Ends
<1>. QED
  BY <1>1, <1>2, <1>3, <1>4, <1>5, <1>6, <1>7, <1>8, <1>9, <1>10, <1>11, <1>12, <1>13, <1>14, <1>15 DEF Step, Progress

-----------------------------------------------------------------------------
(* All steps *)

LEMMA StepKeepsInv ==
  ASSUME IInv, TypeOK', NEW c \in Callers, Step(c)
  PROVE  IInv'
<1>. USE DEF IInv
<1>1. Untouched(c)
  BY StepIsLocal
<1>2. StageOf(c)' /\ LockOf(c)'
  BY <1>1, NextStage, NextLock
<1>3. ASSUME NEW d \in Callers \ {c}
      PROVE  StageOf(d)' /\ LockOf(d)'
  <2>1. StageOf(d) /\ LockOf(d)
    BY DEF Stages, Golden
  <2>2. inst[d] = None => stage[d] \in {"idle", "queued"}
    BY <2>1 DEF StageOf, Idle
  <2>. QED
    BY <1>1, <2>1, <2>2 DEF StageOf, LockOf, Untouched, Idle, OwnRoot
<1>4. Stages'
  BY <1>2, <1>3 DEF Stages
<1>5. Golden'
  BY <1>1, <1>2, <1>3, NextGolden DEF Golden
<1>6. Apart' /\ Accounted'
  BY <1>1, <1>2, NextApart, NextAccounted
<1>7. Shared'
  BY <1>1, NextShared
<1>. QED
  BY <1>4, <1>5, <1>6, <1>7

\* close(): the golden snapshot's files are nobody else's.
LEMMA CloseKeepsInv ==
  ASSUME IInv, TypeOK', Close
  PROVE  IInv'
<1>. USE FirecrackerAssumption DEF IInv, TypeOK, Close, Leaves
<1>1. Stages'
  BY DEF Stages, StageOf, Idle, OwnRoot, Apart
<1>2. Apart'
  BY DEF Apart
<1>3. Golden'
  BY DEF Golden, LockOf, Apart, Stages, StageOf, Idle
<1>4. Accounted'
  BY DEF Accounted, Intact, Golden, LockOf
<1>5. Shared'
  BY DEF Shared
<1>. QED
  BY <1>1, <1>2, <1>3, <1>4, <1>5

\* The inductive invariant: what each stage of a call has, that no two calls
\* or places share an instance, what the lock means and who owns what is left.
THEOREM BackendInvariant == Spec => []IInv
<1>1. ASSUME IInv, [Next]_vars
      PROVE  IInv'
  <2>1. CASE Next
    <3>1. TypeOK'
      BY <1>1, <2>1, NextTypes DEF IInv
    <3>. QED
      BY <1>1, <2>1, <3>1, StepKeepsInv, CloseKeepsInv DEF Next, Step
  <2>2. CASE UNCHANGED vars
    BY <1>1, <2>2 DEF vars, IInv, TypeOK, Stages, StageOf, Idle, OwnRoot, Apart, Golden, LockOf, Shared, Restoring, Accounted, Intact
  <2>. QED
    BY <1>1, <2>1, <2>2
<1>. QED
  BY <1>1, InitInv, PTL DEF Spec

\* No path of boot_clean() or terminate() leaves anything behind, unless the
\* call is cut short.
THEOREM LeavesNothing == Spec => []NothingLeft
<1>1. IInv => NothingLeft
  BY DEF IInv, Accounted, Intact, NothingLeft, InHand
<1>. QED
  BY <1>1, BackendInvariant, PTL

\* Whatever calls fail or are cut short, handles' instances are whole and not
\* shared, and so is what they share: the golden snapshot's root file system is
\* there for as long as there is a golden snapshot, and, until close() has removed
\* one, for as long as an instance restored from it is registered.  (close()
\* unlinks it under the instances that are left, and that is not claimed.)
THEOREM UseIsSafe == Spec => []InUseStands
<1>1. IInv => InUseStands
  BY DEF IInv, Apart, Golden, Shared, Accounted, Intact, InUseStands, SharedRootStands, InHand
<1>. QED
  BY <1>1, BackendInvariant, PTL

-----------------------------------------------------------------------------
(* Refinement: every step moves at most the phase of the instance that its    *)
(* call boots or ends.                                                        *)

OtherIds(c) ==
    \A i \in Ids \ {inst[c], inst'[c]} :
        /\ left'[i] = left[i]
        /\ i \in registered' <=> i \in registered
        /\ golden' = i <=> golden = i

LEMMA StepLeavesOthers ==
  ASSUME IInv, NEW c \in Callers, Step(c)
  PROVE  OtherIds(c)
<1>. USE FirecrackerAssumption DEF IInv, TypeOK, OtherIds, Stages, StageOf, Idle, Reaches, Leaves
<1>1. ASSUME BootClean(c)
      PROVE  OtherIds(c)
  BY <1>1, StartsFresh DEF BootClean, EnsuresGolden, Unused, Parts, Idle
<1>2. ASSUME Dequeues(c)
      PROVE  OtherIds(c)
  BY <1>2, StartsFresh DEF Dequeues, EnsuresGolden, Unused, Parts, Idle
<1>3. ASSUME Proceeds(c)
      PROVE  OtherIds(c)
  BY <1>3 DEF Proceeds
<1>4. ASSUME Configures(c)
      PROVE  OtherIds(c)
  BY <1>4 DEF Configures
<1>5. ASSUME GuestReady(c)
      PROVE  OtherIds(c)
  BY <1>5 DEF GuestReady, Ends
<1>6. ASSUME GoldenReady(c)
      PROVE  OtherIds(c)
  BY <1>6 DEF GoldenReady
<1>7. ASSUME TimesOut(c)
      PROVE  OtherIds(c)
  BY <1>7 DEF TimesOut
<1>8. ASSUME RefusesGuest(c)
      PROVE  OtherIds(c)
  BY <1>8 DEF RefusesGuest, Ends
<1>9. ASSUME Snapshots(c)
      PROVE  OtherIds(c)
  BY <1>9 DEF Snapshots
<1>10. ASSUME Seals(c)
       PROVE  OtherIds(c)
  BY <1>10 DEF Seals, Golden, LockOf
<1>11. ASSUME NEW i \in Ids, Terminate(c, i)
       PROVE  OtherIds(c)
  BY <1>11 DEF Terminate
<1>12. ASSUME TearsDown(c)
       PROVE  OtherIds(c)
  BY <1>12 DEF TearsDown, Ends
<1>13. ASSUME BreaksOff(c)
       PROVE  OtherIds(c)
  BY <1>13 DEF BreaksOff, Ends
<1>14. ASSUME VmExits(c)
       PROVE  OtherIds(c)
  BY <1>14 DEF VmExits
<1>15. ASSUME KillRaises(c)
       PROVE  OtherIds(c)
  BY <1>15 DEF KillRaises, Ends
<1>. QED
  BY <1>1, <1>2, <1>3, <1>4, <1>5, <1>6, <1>7, <1>8, <1>9, <1>10, <1>11, <1>12, <1>13, <1>14, <1>15 DEF Step, Progress

LEMMA PhaseLive ==
  ASSUME IInv, NEW i \in Ids, i \in registered
  PROVE  PhaseOf(i) = "live"
<1>1. \A c \in Callers : inst[c] # i
  BY DEF IInv, Apart
<1>. QED
  BY <1>1 DEF PhaseOf

LEMMA PhaseLiveNext ==
  ASSUME IInv', NEW i \in Ids, i \in registered'
  PROVE  PhaseOf(i)' = "live"
<1>1. \A c \in Callers : inst'[c] # i
  BY DEF IInv, Apart
<1>. QED
  BY <1>1 DEF PhaseOf

LEMMA PhaseInCall ==
  ASSUME IInv, NEW c \in Callers, NEW i \in Ids, inst[c] = i
  PROVE  PhaseOf(i) = IF stage[c] = "ending" THEN "ending" ELSE "booting"
<1>1. i \notin registered /\ \A d \in Callers : inst[d] = i => d = c
  BY FirecrackerAssumption DEF IInv, Apart
<1>2. (\E d \in Callers : inst[d] = i /\ stage[d] = "ending") <=> stage[c] = "ending"
  BY <1>1
<1>3. (\E d \in Callers : inst[d] = i /\ stage[d] # "ending") <=> stage[c] # "ending"
  BY <1>1
<1>4. i \in InHand
  BY DEF InHand
<1>. QED
  BY <1>1, <1>2, <1>3, <1>4 DEF PhaseOf

LEMMA PhaseInCallNext ==
  ASSUME IInv', NEW c \in Callers, NEW i \in Ids, inst'[c] = i
  PROVE  PhaseOf(i)' = IF stage'[c] = "ending" THEN "ending" ELSE "booting"
<1>1. i \notin registered' /\ \A d \in Callers : inst'[d] = i => d = c
  BY FirecrackerAssumption DEF IInv, Apart
<1>2. (\E d \in Callers : inst'[d] = i /\ stage'[d] = "ending") <=> stage'[c] = "ending"
  BY <1>1
<1>3. (\E d \in Callers : inst'[d] = i /\ stage'[d] # "ending") <=> stage'[c] # "ending"
  BY <1>1
<1>4. i \in InHand'
  BY DEF InHand
<1>. QED
  BY <1>1, <1>2, <1>3, <1>4 DEF PhaseOf

LEMMA PhaseUnowned ==
  ASSUME NEW i \in Ids, i \notin registered, \A c \in Callers : inst[c] # i
  PROVE  PhaseOf(i) = IF left[i] # {} /\ i # golden THEN "orphan" ELSE "none"
  BY DEF PhaseOf, InHand

LEMMA PhaseUnownedNext ==
  ASSUME NEW i \in Ids, i \notin registered', \A c \in Callers : inst'[c] # i
  PROVE  PhaseOf(i)' = IF left'[i] # {} /\ i # golden' THEN "orphan" ELSE "none"
  BY DEF PhaseOf, InHand

LEMMA OtherPhases ==
  ASSUME IInv, NEW c \in Callers, Step(c)
  PROVE  \A i \in Ids \ {inst[c], inst'[c]} : PhaseOf(i)' = PhaseOf(i)
<1>. SUFFICES ASSUME NEW i \in Ids \ {inst[c], inst'[c]}
              PROVE  PhaseOf(i)' = PhaseOf(i)
  OBVIOUS
<1>1. Untouched(c) /\ OtherIds(c)
  BY StepIsLocal, StepLeavesOthers DEF IInv
<1>2. \A d \in Callers : inst'[d] = i <=> inst[d] = i
  BY <1>1 DEF Untouched
<1>3. \A d \in Callers : inst[d] = i => (stage'[d] = "ending" <=> stage[d] = "ending")
  BY <1>1 DEF Untouched
<1>4. left'[i] = left[i] /\ (i \in registered' <=> i \in registered) /\ (golden' = i <=> golden = i)
  BY <1>1 DEF OtherIds
<1>. QED
  BY <1>2, <1>3, <1>4 DEF PhaseOf, InHand

LEMMA PhaseMoves ==
  ASSUME NEW i \in Ids, NEW from, NEW to, PhaseOf(i) = from, PhaseOf(i)' = to,
         \A j \in Ids \ {i} : PhaseOf(j)' = PhaseOf(j)
  PROVE  Backend!Moves(i, from, to)
  BY DEF Backend!Moves

Phases == [i \in Ids |-> PhaseOf(i)]

\* A call begins to boot an instance that nobody has, or goes on in the queue.
LEMMA BeginMoves ==
  ASSUME IInv, IInv', NEW c \in Callers, Step(c), inst[c] = None,
         inst'[c] = None \/ (Unused(inst'[c]) /\ inst'[c] # golden /\ stage'[c] # "ending")
  PROVE  Backend!Next \/ UNCHANGED Phases
<1>. USE FirecrackerAssumption
<1>1. CASE inst'[c] = None
  BY <1>1, OtherPhases DEF Phases
<1>2. CASE inst'[c] # None
  <2>1. PICK i \in Ids : inst'[c] = i
    BY <1>2 DEF IInv, TypeOK
  <2>2. PhaseOf(i)' = "booting"
    BY <1>2, <2>1, PhaseInCallNext
  <2>3. PhaseOf(i) = "none"
    BY <1>2, <2>1, PhaseUnowned DEF Unused
  <2>4. \A j \in Ids \ {i} : PhaseOf(j)' = PhaseOf(j)
    BY <2>1, OtherPhases
  <2>5. Backend!Moves(i, "none", "booting")
    BY <2>2, <2>3, <2>4, PhaseMoves
  <2>. QED
    BY <2>5 DEF Backend!Next, Backend!BootClean
<1>. QED
  BY <1>1, <1>2

\* A call goes on with its instance.
LEMMA GoOnMoves ==
  ASSUME IInv, IInv', NEW c \in Callers, Step(c), inst[c] # None, inst'[c] = inst[c],
         stage[c] = "ending" <=> stage'[c] = "ending"
  PROVE  UNCHANGED Phases
<1>1. PICK i \in Ids : inst[c] = i
  BY DEF IInv, TypeOK
<1>2. PhaseOf(i)' = PhaseOf(i)
  BY <1>1, PhaseInCall, PhaseInCallNext
<1>. QED
  BY <1>1, <1>2, OtherPhases DEF Phases

\* A call is over, and what it had is gone, an orphan, or a handle's.
LEMMA EndMoves ==
  ASSUME IInv, IInv', NEW c \in Callers, Step(c), inst[c] # None, inst'[c] = None,
         inst[c] \in registered' => stage[c] # "ending"
  PROVE  Backend!Next
<1>. USE FirecrackerAssumption
<1>1. PICK i \in Ids : inst[c] = i
  BY DEF IInv, TypeOK
<1>2. \A j \in Ids \ {i} : PhaseOf(j)' = PhaseOf(j)
  BY <1>1, OtherPhases
<1>3. PhaseOf(i) = IF stage[c] = "ending" THEN "ending" ELSE "booting"
  BY <1>1, PhaseInCall
<1>4. CASE i \in registered'
  <2>1. PhaseOf(i)' = "live"
    BY <1>4, PhaseLiveNext
  <2>2. Backend!Moves(i, "booting", "live")
    BY <1>1, <1>2, <1>3, <1>4, <2>1, PhaseMoves
  <2>. QED
    BY <2>2 DEF Backend!Next, Backend!Booted
<1>5. CASE i \notin registered'
  <2>1. \A d \in Callers : inst'[d] # i
    BY <1>1, StepIsLocal DEF IInv, Apart, Untouched
  <2>2. PhaseOf(i)' \in {"none", "orphan"}
    BY <1>5, <2>1, PhaseUnownedNext
  <2>3. \E from \in {"booting", "ending"}, to \in {"none", "orphan"} : Backend!Moves(i, from, to)
    BY <1>2, <1>3, <2>2, PhaseMoves
  <2>. QED
    BY <2>3 DEF Backend!Next, Backend!Gone, Backend!Orphaned
<1>. QED
  BY <1>4, <1>5

LEMMA StepMoves ==
  ASSUME IInv, IInv', NEW c \in Callers, Step(c)
  PROVE  Backend!Next \/ UNCHANGED Phases
<1>. USE FirecrackerAssumption DEF IInv, TypeOK, Reaches
<1>0. StageOf(c)
  BY DEF Stages
<1>1. CASE BootClean(c) \/ Dequeues(c)
  <2>1. inst[c] = None
    BY <1>0, <1>1 DEF BootClean, Dequeues, StageOf, Idle
  <2>2. inst'[c] = None \/ (Unused(inst'[c]) /\ inst'[c] # golden /\ stage'[c] # "ending")
    BY <1>1, <2>1, StartsFresh DEF BootClean, Dequeues, EnsuresGolden, Parts
  <2>. QED
    BY <2>1, <2>2, BeginMoves
<1>2. CASE Proceeds(c) \/ Configures(c) \/ GoldenReady(c) \/ TimesOut(c) \/ Snapshots(c) \/ VmExits(c)
  <2>1. inst[c] # None /\ inst'[c] = inst[c] /\ stage[c] # "ending" /\ stage'[c] # "ending"
    BY <1>0, <1>2
    DEF StageOf, Idle, Proceeds, Making, Following, Configures, GoldenReady, TimesOut, Snapshots, VmExits
  <2>. QED
    BY <2>1, GoOnMoves
<1>3. CASE GuestReady(c) \/ RefusesGuest(c) \/ KillRaises(c)
  <2>1. inst[c] # None /\ inst'[c] = None /\ stage[c] # "ending"
    BY <1>0, <1>3 DEF StageOf, Idle, GuestReady, RefusesGuest, KillRaises, Ends
  <2>. QED
    BY <2>1, EndMoves
<1>4. CASE TearsDown(c) /\ inst'[c] = inst[c]
  <2>1. inst[c] # None /\ (stage[c] = "ending" <=> stage'[c] = "ending")
    BY <1>0, <1>4 DEF StageOf, Idle, TearsDown, Ends
  <2>. QED
    BY <1>4, <2>1, GoOnMoves
<1>5. CASE (TearsDown(c) /\ inst'[c] # inst[c]) \/ (BreaksOff(c) /\ inst[c] # None)
  <2>1. inst[c] # None /\ inst'[c] = None /\ inst[c] \notin registered'
    BY <1>0, <1>5 DEF StageOf, Idle, TearsDown, BreaksOff, Ends, Apart
  <2>. QED
    BY <2>1, EndMoves
<1>6. CASE BreaksOff(c) /\ inst[c] = None
  <2>1. inst'[c] = None
    BY <1>6 DEF BreaksOff, Ends
  <2>. QED
    BY <1>6, <2>1, BeginMoves
<1>7. ASSUME NEW i \in Ids, Terminate(c, i)
      PROVE  Backend!Next
  <2>1. i \in registered /\ inst[c] = None /\ inst'[c] = i /\ stage'[c] = "ending"
    BY <1>0, <1>7 DEF StageOf, Idle, Terminate
  <2>2. PhaseOf(i) = "live"
    BY <2>1, PhaseLive
  <2>3. PhaseOf(i)' = "ending"
    BY <2>1, PhaseInCallNext
  <2>4. \A k \in Ids \ {i} : PhaseOf(k)' = PhaseOf(k)
    BY <2>1, OtherPhases
  <2>5. Backend!Moves(i, "live", "ending")
    BY <2>2, <2>3, <2>4, PhaseMoves
  <2>. QED
    BY <2>5 DEF Backend!Next, Backend!Terminate
<1>8. CASE Seals(c)
  <2>1. PICK i \in Ids, j \in Ids :
          /\ inst[c] = i /\ inst'[c] = j /\ i # j /\ Unused(j)
          /\ golden' = i /\ golden = None /\ stage[c] = "sealing" /\ stage'[c] = "listening"
    BY <1>0, <1>8 DEF StageOf, Idle, Seals, Unused, Golden, LockOf
  <2>2. PhaseOf(i) = "booting"
    BY <2>1, PhaseInCall
  <2>3. PhaseOf(j)' = "booting"
    BY <2>1, PhaseInCallNext
  <2>4. PhaseOf(j) = "none"
    BY <2>1, PhaseUnowned DEF Unused
  <2>5. i \notin registered' /\ \A d \in Callers : inst'[d] # i
    <3>1. i \notin registered /\ registered' = registered
      BY <1>8, <2>1 DEF Apart, Seals
    <3>2. \A d \in Callers \ {c} : inst[d] # i /\ inst'[d] = inst[d]
      BY <2>1, StepIsLocal DEF Apart, Untouched
    <3>. QED
      BY <2>1, <3>1, <3>2
  <2>6. PhaseOf(i)' = "none"
    BY <2>1, <2>5, PhaseUnownedNext
  <2>7. \A k \in Ids \ {i, j} : PhaseOf(k)' = PhaseOf(k)
    BY <2>1, OtherPhases
  <2>8. Backend!MakesWay(i, j)
    BY <2>1, <2>2, <2>3, <2>4, <2>6, <2>7 DEF Backend!MakesWay
  <2>. QED
    BY <2>8 DEF Backend!Next
<1>. QED
  BY <1>1, <1>2, <1>3, <1>4, <1>5, <1>6, <1>7, <1>8 DEF Step, Progress

LEMMA CloseMoves ==
  ASSUME IInv, Close
  PROVE  UNCHANGED Phases
<1>. SUFFICES ASSUME NEW i \in Ids
              PROVE  PhaseOf(i)' = PhaseOf(i)
  BY DEF Phases
<1>1. CASE i = golden
  <2>1. i \notin registered /\ \A c \in Callers : inst[c] # i
    BY <1>1 DEF IInv, Apart, Close
  <2>2. i \notin registered' /\ (\A c \in Callers : inst'[c] # i) /\ left'[i] = {}
    BY <1>1, <2>1 DEF IInv, TypeOK, Close, Leaves
  <2>. QED
    BY <1>1, <2>1, <2>2, PhaseUnowned, PhaseUnownedNext
<1>2. CASE i # golden
  <2>1. left'[i] = left[i] /\ i # golden'
    BY <1>2, FirecrackerAssumption DEF IInv, TypeOK, Close, Leaves
  <2>. QED
    BY <1>2, <2>1 DEF Close, PhaseOf, InHand
<1>. QED
  BY <1>1, <1>2

\* The backend keeps SandboxBackend's promise: an instance handed out is live
\* until terminate() is called on it, whatever the other calls do.
THEOREM ImplementsBackend == Spec => BackendSpec
<1>1. Init => Backend!Init
  BY FirecrackerAssumption DEF Init, Backend!Init, PhaseOf, InHand
<1>2. ASSUME IInv, IInv', [Next]_vars
      PROVE  [Backend!Next]_Phases
  <2>1. CASE Next
    BY <1>2, <2>1, StepMoves, CloseMoves DEF Next, Step
  <2>2. CASE UNCHANGED vars
    BY <2>2 DEF vars, Phases, PhaseOf, InHand
  <2>. QED
    BY <1>2, <2>1, <2>2
<1>. QED
  BY <1>1, <1>2, BackendInvariant, PTL DEF Spec, BackendSpec, Backend!Spec, Phases

\* Theorem: what boot_clean() has handed out stays live until terminate() is called
\* on it: no other call, failure or close() takes it from its caller.
THEOREM LiveUntilTerminated ==
  Spec => [][\A i \in Ids : PhaseOf(i) = "live" => PhaseOf(i)' \in {"live", "ending"}]_vars
<1>1. [Backend!Next]_Phases => \A i \in Ids : PhaseOf(i) = "live" => PhaseOf(i)' \in {"live", "ending"}
  <2>. SUFFICES ASSUME [Backend!Next]_Phases, NEW i \in Ids, PhaseOf(i) = "live"
                PROVE  PhaseOf(i)' \in {"live", "ending"}
    OBVIOUS
  <2>1. Phases[i] = PhaseOf(i) /\ Phases'[i] = PhaseOf(i)' /\ DOMAIN Phases = Ids
    BY DEF Phases
  <2>2. ASSUME NEW j \in Ids, NEW k \in Ids, Backend!MakesWay(j, k)
        PROVE  Phases'[i] = Phases[i]
    BY <2>1, <2>2 DEF Backend!MakesWay, Phases
  <2>3. ASSUME NEW j \in Ids, NEW from, NEW to, Backend!Moves(j, from, to),
               from = "live" => to = "ending"
        PROVE  Phases'[i] \in {"live", "ending"}
    BY <2>1, <2>3 DEF Backend!Moves, Phases
  <2>. QED
    BY <2>1, <2>2, <2>3
    DEF Backend!Next, Backend!BootClean, Backend!Booted, Backend!Terminate, Backend!Gone,
        Backend!Orphaned
<1>. QED
  BY <1>1, ImplementsBackend, PTL DEF BackendSpec, Backend!Spec, Phases

=============================================================================
