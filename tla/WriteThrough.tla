---------------------------- MODULE WriteThrough ----------------------------
(***************************************************************************)
(* The write-through of PersistedPromptStore (prompts/store.py), which     *)
(* PersistedMemoryStore (memory/store.py) repeats: an operation changes    *)
(* the store in memory, takes a snapshot of ALL of it, awaits set() of the *)
(* snapshot on the blob store, and only then returns.                      *)
(*                                                                         *)
(* Neither the change nor the snapshot suspends (the delegate's lock is    *)
(* never contended, nothing awaits under it), so they are one step; any    *)
(* number of set() calls may be outstanding.                               *)
(***************************************************************************)
EXTENDS Naturals

CONSTANTS
    Callers,    \* tasks that use the store
    Keys,       \* what is stored under, e.g. a name and a version
    Values,     \* what is stored
    NoValue,    \* a key that is absent; an acknowledged change
    Lost,       \* a change whose caller was never told that it is saved
    InOrder,    \* TRUE if the blob store completes set() calls in the order made
    MaxFaults   \* bound on set() calls that fail or are cancelled, and on restarts

\* What is assumed of the constants (by the proofs; INSTANCE imports no ASSUME).
StoreAssumption ==
    /\ NoValue \notin Values \cup Callers
    /\ Lost \notin Callers \cup {NoValue}
    /\ InOrder \in BOOLEAN /\ MaxFaults \in Nat

VARIABLES
    live,    \* the delegate's dict
    blob,    \* what the blob store holds
    stage,   \* each caller's set(): none, under way, in effect, or abandoned
    snap,    \* the snapshot it carries
    ahead,   \* the set() calls begun before it that have not ended
    owed,    \* history: who last changed a key and has not been answered
    faults

vars == <<live, blob, stage, snap, ahead, owed, faults>>

Snapshots == [Keys -> Values \cup {NoValue}]
Empty     == [k \in Keys |-> NoValue]

Unsaved  == {"saving", "abandoned"}
InFlight == {c \in Callers : stage[c] # "idle"}

Init ==
    /\ live = Empty /\ blob = Empty
    /\ stage = [c \in Callers |-> "idle"]
    /\ snap = [c \in Callers |-> Empty]
    /\ ahead = [c \in Callers |-> {}]
    /\ owed = [k \in Keys |-> NoValue]
    /\ faults = 0

\* Mutant of Returns: the operation does not await _persist().
ReturnsAtOnce(c) ==
    /\ stage[c] = "saving" /\ stage' = [stage EXCEPT ![c] = "abandoned"]
    /\ owed' = [k \in Keys |-> IF owed[k] = c THEN NoValue ELSE owed[k]]
    /\ UNCHANGED <<live, blob, snap, ahead, faults>>

\* A set() is over, for itself and for those that came after it.
Ends(c) ==
    /\ snap' = [snap EXCEPT ![c] = Empty]
    /\ ahead' = [d \in Callers |-> IF d = c THEN {} ELSE ahead[d] \ {c}]

\* The answer, or the lack of one, to whoever changed the keys last.
Settles(c, how) == owed' = [k \in Keys |-> IF owed[k] = c THEN how ELSE owed[k]]

Fails == faults < MaxFaults /\ faults' = faults + 1

\* put(), write(), delete() or forget(): the store in memory becomes new.
Change(c, new) ==
    /\ stage[c] = "idle" /\ stage' = [stage EXCEPT ![c] = "saving"]
    /\ live' = new
    /\ snap' = [snap EXCEPT ![c] = new]
    /\ ahead' = [ahead EXCEPT ![c] = InFlight]
    /\ owed' = [k \in Keys |-> IF new[k] # live[k] THEN c ELSE owed[k]]
    /\ UNCHANGED <<blob, faults>>

\* The blob store puts a snapshot in place of what it had.
TakesEffect(c) ==
    /\ stage[c] \in Unsaved
    /\ InOrder => \A d \in ahead[c] : stage[d] \notin Unsaved
    /\ blob' = snap[c]
    /\ IF stage[c] = "saving"
         THEN /\ stage' = [stage EXCEPT ![c] = "saved"]
              /\ UNCHANGED <<snap, ahead>>
         ELSE stage' = [stage EXCEPT ![c] = "idle"] /\ Ends(c)
    /\ UNCHANGED <<live, owed, faults>>

\* set() returns, and with it the operation.
Returns(c) ==
    /\ stage[c] = "saved" /\ stage' = [stage EXCEPT ![c] = "idle"]
    /\ InOrder => ahead[c] = {}
    /\ Ends(c) /\ Settles(c, NoValue)
    /\ UNCHANGED <<live, blob, faults>>

\* set() raises, with or without effect.  The change in memory stays.
Raises(c) ==
    /\ stage[c] \in {"saving", "saved"} /\ stage' = [stage EXCEPT ![c] = "idle"]
    /\ Fails /\ Ends(c) /\ Settles(c, Lost)
    /\ UNCHANGED <<live, blob>>

\* The caller is cancelled; the set() that it began may go on.
IsCancelled(c) ==
    /\ stage[c] = "saving" /\ stage' = [stage EXCEPT ![c] = "abandoned"]
    /\ Fails /\ Settles(c, Lost)
    /\ UNCHANGED <<live, blob, snap, ahead>>

\* The process dies, and create() loads the blob into a new store.
Restart ==
    /\ Fails
    /\ live' = blob
    /\ stage' = [c \in Callers |-> "idle"]
    /\ snap' = [c \in Callers |-> Empty]
    /\ ahead' = [c \in Callers |-> {}]
    /\ owed' = [k \in Keys |-> NoValue]
    /\ UNCHANGED blob

Next ==
    \/ \E c \in Callers :
         \/ \E new \in Snapshots : Change(c, new)
         \/ TakesEffect(c) \/ Returns(c) \/ Raises(c) \/ IsCancelled(c)
    \/ Restart

Spec == Init /\ [][Next]_vars

-----------------------------------------------------------------------------
(* Properties *)

TypeOK ==
    /\ live \in Snapshots /\ blob \in Snapshots
    /\ stage \in [Callers -> {"idle", "saving", "saved", "abandoned"}]
    /\ snap \in [Callers -> Snapshots]
    /\ ahead \in [Callers -> SUBSET InFlight]
    /\ owed \in [Keys -> Callers \cup {NoValue, Lost}]
    /\ faults \in 0..MaxFaults

\* An acknowledged change is saved, and stays so: the blob has of a key what
\* memory has, from the return of the operation that last changed it on -
\* whatever older and newer snapshots are under way, fail or are abandoned.
\* So a restart brings back all that put() stored and nothing that delete()
\* removed.
Durable == \A k \in Keys : owed[k] = NoValue => blob[k] = live[k]

=============================================================================
