--------------------------- MODULE MemoryManager ----------------------------
(***************************************************************************)
(* The MemoryManager (memory/manager.py): the working memory of each scope *)
(* (memory/working_memory.py), the long-term memory in a                   *)
(* PersistedMemoryStore (memory/store.py), which is a WriteThrough, and    *)
(* compaction (Compactor).  The three share nothing, so that compaction,   *)
(* which keeps nothing either, is followed in behaviours of its own.       *)
(*                                                                         *)
(* A value or an item is what distinguishes it; its size is in Size.       *)
(***************************************************************************)
EXTENDS Integers, Sequences, FiniteSets, FiniteSetsExt

CONSTANTS
    Callers, Scopes, Ids, Items,   \* long-term memory
    NoItem, Lost, InOrder, MaxFaults,
    WorkingKeys, Values, NoValue,  \* working memory
    Size, Quota,                   \* sys.getsizeof() of a key with a value; quota_bytes
    Inputs, Budgets, PreserveLastN, Threshold, HasRetry

\* A message has tokens, and a text of finite length.
ASSUME MemoryAssumption ==
    /\ NoItem \notin Items \cup Callers /\ Lost \notin Callers \cup {NoItem}
    /\ InOrder \in BOOLEAN /\ MaxFaults \in Nat
    /\ PreserveLastN \in Nat /\ Threshold \in Nat /\ Budgets \subseteq Int
    /\ \A input \in Inputs :
         /\ input \in Seq({input[i] : i \in DOMAIN input})
         /\ \A i \in DOMAIN input :
              /\ input[i].tokens \in Nat
              /\ IsFiniteSet(input[i].numbers) /\ IsFiniteSet(input[i].words)

VARIABLES
    part,      \* what is followed: "stores" or "compaction"
    working,   \* InMemoryWorkingMemoryStore._data
    live, blob, stage, snap, ahead, owed, faults,      \* the write-through's
    compaction, messages, budget, summary, score       \* the compactor's

Keys == Scopes \X Ids
LongTerm == INSTANCE WriteThrough WITH Values <- Items, NoValue <- NoItem
Recency  == INSTANCE Compactor

storeVars == <<live, blob, stage, snap, ahead, owed, faults>>
callVars  == <<compaction, messages, budget, summary, score>>
vars == <<part, working, storeVars, callVars>>

Forgotten == [s \in Scopes |-> [k \in WorkingKeys |-> NoValue]]

Init ==
    /\ part \in {"stores", "compaction"}
    /\ working = Forgotten
    /\ LongTerm!Init /\ Recency!Init

-----------------------------------------------------------------------------
(* Mutants *)

\* Write that persists before the delegate has the item.
WriteSavesFirst(c, s, i, item) ==
    /\ stage[c] = "idle" /\ stage' = [stage EXCEPT ![c] = "saving"]
    /\ live' = [live EXCEPT ![<<s, i>>] = item]
    /\ snap' = [snap EXCEPT ![c] = live]
    /\ ahead' = [ahead EXCEPT ![c] = LongTerm!InFlight]
    /\ owed' = [owed EXCEPT ![<<s, i>>] = c]
    /\ UNCHANGED <<blob, faults, working>>

-----------------------------------------------------------------------------
(* Working memory *)

\* The whole scope is measured with the new value in place of the old.
Remember(s, k, value) ==
    LET candidate == [working[s] EXCEPT ![k] = value]
    IN  /\ MapThenSumSet(LAMBDA j : Size[candidate[j]],
                            {j \in WorkingKeys : candidate[j] # NoValue}) <= Quota
        /\ working' = [working EXCEPT ![s] = candidate]
        /\ UNCHANGED storeVars

Clear(s) ==
    /\ working' = [working EXCEPT ![s] = Forgotten[s]]
    /\ UNCHANGED storeVars

-----------------------------------------------------------------------------
(* Long-term memory *)

\* An item with an id takes the place of the one before; one without gets an id
\* of its own.
Write(c, s, i, item) ==
    /\ LongTerm!Change(c, [live EXCEPT ![<<s, i>>] = item])
    /\ UNCHANGED working

\* The snapshot is saved even if there was no such item.
Forget(c, s, i) ==
    /\ LongTerm!Change(c, [live EXCEPT ![<<s, i>>] = NoItem])
    /\ UNCHANGED working

StoreAnswers(c) ==
    /\ \/ LongTerm!TakesEffect(c) \/ LongTerm!Returns(c)
       \/ LongTerm!Raises(c) \/ LongTerm!IsCancelled(c)
    /\ UNCHANGED working

\* create() of a new PersistedMemoryStore; working memory is not persisted.
Restart == LongTerm!Restart /\ working' = Forgotten

-----------------------------------------------------------------------------
(* Specification *)

StoresNext ==
    /\ part = "stores" /\ UNCHANGED <<part, callVars>>
    /\ \/ \E s \in Scopes, k \in WorkingKeys, value \in Values : Remember(s, k, value)
       \/ \E s \in Scopes : Clear(s)
       \/ \E c \in Callers, s \in Scopes, i \in Ids :
            Forget(c, s, i) \/ \E item \in Items : Write(c, s, i, item)
       \/ \E c \in Callers : StoreAnswers(c)
       \/ Restart

CompactionNext ==
    /\ part = "compaction" /\ Recency!Next
    /\ UNCHANGED <<part, working, storeVars>>

Next == StoresNext \/ CompactionNext

Spec == Init /\ [][Next]_vars

-----------------------------------------------------------------------------
(* Properties *)

\* What write() and forget() have acknowledged is saved: a restart brings back
\* every item that was written and none that was forgotten, in each scope.
LongTermIsDurable == LongTerm!Durable

\* compact() keeps as many of the newest messages as the limit and the budget
\* allow: the loop over them stops exactly where the next would not fit.
KeepsAllThatFits ==
    compaction # "idle" =>
        Recency!Kept = Max({0} \cup {k \in 1..Min({PreserveLastN, Len(messages)}) :
                                       Recency!Tokens[k] <= budget})

\* A summary that is passed for good, at the first attempt or the second, has
\* at least a quarter of the numbers of what it replaces, however many of the
\* words it has.
NumbersSurvive ==
    compaction = "done" /\ ~Recency!Degraded =>
        4 * Cardinality(summary.numbers) >= Cardinality(Recency!Source.numbers)

=============================================================================
