--------------------------- MODULE PromptManager ----------------------------
(***************************************************************************)
(* PromptManager (prompts/manager.py) over a PersistedPromptStore          *)
(* (prompts/store.py): versioned prompt templates, written through to a    *)
(* blob, and the manager's cache of what was read and written.             *)
(*                                                                         *)
(* get() and the first half of every other operation reach no await that   *)
(* suspends, so each is one step; the cache is brought up to date when the *)
(* write-through returns, and other calls may come in between.  A content  *)
(* stands for all the fields that the caller of put() gives.               *)
(***************************************************************************)
EXTENDS Naturals, FiniteSetsExt

CONSTANTS
    Callers, Names, Contents,
    MaxVersion,   \* bound on the versions of a name at one time
    NoContent,    \* no template: None
    Lost, InOrder, MaxFaults

ASSUME ManagerAssumption ==
    /\ MaxVersion \in Nat \ {0} /\ MaxFaults \in Nat /\ InOrder \in BOOLEAN
    /\ NoContent \notin Contents \cup Callers /\ Lost \notin Callers \cup {NoContent}

VARIABLES
    live, blob, stage, snap, ahead, owed, faults,  \* the write-through's
    made,   \* what the operation under way is to do to the cache
    cache   \* _cache, by name and version

Versions == 1..MaxVersion
Keys     == Names \X Versions
NoVersion      == 0   \* version=None: the latest, or all of them

Store == INSTANCE WriteThrough WITH Values <- Contents, NoValue <- NoContent

storeVars == <<live, blob, stage, snap, ahead, owed, faults>>
vars == <<storeVars, made, cache>>

Template(n, v, t) == [name |-> n, version |-> v, content |-> t]
Templates == [name : Names, version : Versions, content : Contents]
Deletions == [name : Names, version : {NoVersion}, content : {NoContent}]

VersionsOf(n)    == {v \in Versions : live[<<n, v>>] # NoContent}
LatestVersion(n) == Max(VersionsOf(n) \cup {NoVersion})

\* InMemoryPromptStore.get()
Stored(n, v) ==
    LET u == IF v = NoVersion THEN LatestVersion(n) ELSE v
    IN  IF u \in VersionsOf(n) THEN Template(n, u, live[<<n, u>>]) ELSE NoContent

EmptyCache == [k \in Names \X (Versions \cup {NoVersion}) |-> NoContent]

Init ==
    /\ Store!Init
    /\ made = [c \in Callers |-> NoContent]
    /\ cache = EmptyCache

-----------------------------------------------------------------------------
(* Mutants *)

\* NextVersion that counts the versions there are.
NextVersionByCount(n) == Cardinality(VersionsOf(n)) + 1

\* Refresh that leaves the latest alone after a put().
RefreshOne(m) ==
    IF m.version = NoVersion
      THEN [k \in DOMAIN cache |-> IF k[1] = m.name THEN NoContent ELSE cache[k]]
      ELSE [cache EXCEPT ![<<m.name, m.version>>] = m]

-----------------------------------------------------------------------------
(* Operations *)

NextVersion(n) == LatestVersion(n) + 1

\* What put() and delete() do to the cache when the store has returned.
Refresh(m) ==
    IF m.version = NoVersion
      THEN [k \in DOMAIN cache |-> IF k[1] = m.name THEN NoContent ELSE cache[k]]
      ELSE [cache EXCEPT ![<<m.name, NoVersion>>] = NoContent, ![<<m.name, m.version>>] = m]

\* An operation is over.
Over(c) == made' = [made EXCEPT ![c] = NoContent]

\* get(): what is cached, else what the store has, cached if there is any.
Get(n, v) == IF cache[<<n, v>>] # NoContent THEN cache[<<n, v>>] ELSE Stored(n, v)

\* A get() that misses the cache; a hit changes nothing.
Fills(n, v) ==
    /\ cache[<<n, v>>] = NoContent /\ Stored(n, v) # NoContent
    /\ cache' = [cache EXCEPT ![<<n, v>>] = Stored(n, v)]
    /\ UNCHANGED <<storeVars, made>>

StoresNew(c, n, t) ==
    LET v == NextVersion(n)
    IN  /\ v \in Versions
        /\ Store!Change(c, [live EXCEPT ![<<n, v>>] = t])
        /\ made' = [made EXCEPT ![c] = Template(n, v, t)]

\* put(), up to the write-through
Put(c, n, t) == StoresNew(c, n, t) /\ UNCHANGED cache

\* load() of a file that differs from what get() calls the latest.  (One that
\* does not is that get().)
Load(c, n, t) ==
    /\ \A m \in {Get(n, NoVersion)} \ {NoContent} : m.content # t
    /\ StoresNew(c, n, t)
    /\ cache' = [cache EXCEPT ![<<n, NoVersion>>] = Get(n, NoVersion)]

\* delete() of one version or of all, up to the write-through
Delete(c, n, v) ==
    /\ Store!Change(c, [k \in Keys |-> IF k[1] = n /\ v \in {NoVersion, k[2]} THEN NoContent ELSE live[k]])
    /\ made' = [made EXCEPT ![c] = Template(n, NoVersion, NoContent)]
    /\ UNCHANGED cache

\* The write-through returns, and put(), load() or delete() with it.
Completes(c) ==
    /\ Store!Returns(c)
    /\ cache' = Refresh(made[c]) /\ Over(c)

\* It raises or is cancelled: the cache is left as it is.
BreaksOff(c) ==
    /\ Store!Raises(c) \/ Store!IsCancelled(c)
    /\ Over(c) /\ UNCHANGED cache

BlobWritten(c) == Store!TakesEffect(c) /\ UNCHANGED <<made, cache>>

\* A new process starts with an empty cache.
Restart ==
    /\ Store!Restart
    /\ made' = [c \in Callers |-> NoContent]
    /\ cache' = EmptyCache

Next ==
    \/ \E n \in Names, v \in Versions \cup {NoVersion} :
         Fills(n, v) \/ \E c \in Callers : Delete(c, n, v)
    \/ \E c \in Callers, n \in Names, t \in Contents : Put(c, n, t) \/ Load(c, n, t)
    \/ \E c \in Callers : Completes(c) \/ BreaksOff(c) \/ BlobWritten(c)
    \/ Restart

Spec == Init /\ [][Next]_vars

-----------------------------------------------------------------------------
(* Properties *)

TypeOK ==
    /\ Store!TypeOK
    /\ made \in [Callers -> Templates \cup Deletions \cup {NoContent}]
    /\ \A c \in Callers : made[c] = NoContent <=> stage[c] \in {"idle", "abandoned"}
    /\ DOMAIN cache = DOMAIN EmptyCache
    /\ \A k \in DOMAIN cache : cache[k] \in Templates \cup {NoContent}

\* What put(), load() and delete() have acknowledged is saved (WriteThrough).
Durable == Store!Durable

\* A template is never overwritten: a version keeps its content until it is
\* deleted or the process restarts, whatever was put and deleted before.
NeverOverwritten ==
    [][\A k \in Keys : live[k] # NoContent /\ live'[k] # live[k]
          => live'[k] = NoContent \/ (faults' > faults /\ live' = blob)]_vars

\* The cache shows no deleted template and no old one: once the operations
\* that last changed them have returned, what is cached for a version is what
\* the store has, and what is cached for the latest is the latest of its name.
CacheAgrees ==
    \A n \in Names :
      /\ \A v \in Versions :
           owed[<<n, v>>] = NoContent => cache[<<n, v>>] \in {NoContent, Stored(n, v)}
      /\ (\A v \in Versions : owed[<<n, v>>] = NoContent)
           => cache[<<n, NoVersion>>] \in {NoContent, Stored(n, NoVersion)}

=============================================================================
