------------------------- MODULE PromptManagerProofs ------------------------
(***************************************************************************)
(* PromptManager takes only WriteThrough's steps on its store, so that     *)
(* what WriteThroughProofs proves of the write-through holds of prompts.   *)
(***************************************************************************)
EXTENDS PromptManager, WellFoundedInduction, TLAPS

StoreProofs == INSTANCE WriteThroughProofs WITH Values <- Contents, NoValue <- NoContent

\* StoreProofs speaks of the same store.
LEMMA SameInit == Store!Init <=> StoreProofs!Init
  BY DEF Store!Init, StoreProofs!Init, Store!Empty, StoreProofs!Empty

LEMMA SameNext == [Store!Next]_storeVars <=> [StoreProofs!Next]_StoreProofs!vars
  BY DEF Store!Next, StoreProofs!Next, StoreProofs!vars, storeVars,
     Store!Snapshots, StoreProofs!Snapshots, Store!Empty, StoreProofs!Empty,
     Store!Unsaved, StoreProofs!Unsaved, Store!InFlight, StoreProofs!InFlight,
     Store!Ends, StoreProofs!Ends, Store!Settles, StoreProofs!Settles,
     Store!Fails, StoreProofs!Fails, Store!Change, StoreProofs!Change,
     Store!TakesEffect, StoreProofs!TakesEffect, Store!Returns, StoreProofs!Returns,
     Store!Raises, StoreProofs!Raises, Store!IsCancelled, StoreProofs!IsCancelled,
     Store!Restart, StoreProofs!Restart

LEMMA SameTypes == Store!TypeOK <=> StoreProofs!TypeOK
  BY DEF Store!TypeOK, StoreProofs!TypeOK, Store!Snapshots, StoreProofs!Snapshots,
     Store!InFlight, StoreProofs!InFlight

\* Every operation of the manager is a step of its store, or none.
LEMMA StoreStep == Store!TypeOK /\ [Next]_vars => [Store!Next]_storeVars
<1> SUFFICES ASSUME Store!TypeOK, [Next]_vars PROVE [Store!Next]_storeVars
  OBVIOUS
<1>0. live \in Store!Snapshots
  BY DEF Store!TypeOK
<1>1. ASSUME NEW c \in Callers, NEW n \in Names, NEW t \in Contents, StoresNew(c, n, t)
      PROVE  Store!Next
  <2>1. PICK v \in Versions : Store!Change(c, [live EXCEPT ![<<n, v>>] = t])
    BY <1>1 DEF StoresNew
  <2>2. [live EXCEPT ![<<n, v>>] = t] \in Store!Snapshots
    BY <1>0 DEF Store!Snapshots, Keys
  <2> QED BY <2>1, <2>2 DEF Store!Next
<1>2. ASSUME NEW c \in Callers, NEW n \in Names, NEW v \in Versions \cup {NoVersion}, Delete(c, n, v)
      PROVE  Store!Next
  <2> DEFINE new == [k \in Keys |-> IF k[1] = n /\ v \in {NoVersion, k[2]} THEN NoContent ELSE live[k]]
  <2>1. Store!Change(c, new)
    BY <1>2 DEF Delete
  <2>2. new \in Store!Snapshots
    BY <1>0 DEF Store!Snapshots
  <2> QED BY <2>1, <2>2 DEF Store!Next
<1>3. ASSUME NEW c \in Callers, Completes(c) \/ BreaksOff(c) \/ BlobWritten(c)
      PROVE  Store!Next
  BY <1>3 DEF Completes, BreaksOff, BlobWritten, Store!Next
<1>4. CASE Restart
  BY <1>4 DEF Restart, Store!Next
<1>5. ASSUME NEW n \in Names, NEW v \in Versions \cup {NoVersion}, Fills(n, v)
      PROVE  UNCHANGED storeVars
  BY <1>5 DEF Fills
<1>6. CASE UNCHANGED vars
  BY <1>6 DEF vars
<1> QED BY <1>1, <1>2, <1>3, <1>4, <1>5, <1>6 DEF Next, Put, Load

\* Theorem: with a blob store that completes calls in the order made, every
\* prompt stored or deleted is so in the blob, once the put(), load() or
\* delete() has returned; a restart loses none of them.
THEOREM PromptsAreSaved == InOrder => (Spec => []Durable)
<1> SUFFICES ASSUME InOrder PROVE Spec => []Durable
  OBVIOUS
<1>0. StoreProofs!StoreAssumption
  BY ManagerAssumption DEF StoreProofs!StoreAssumption
<1>1. Init => StoreProofs!Init
  BY SameInit DEF Init
<1>2. StoreProofs!Init => StoreProofs!TypeOK
  BY <1>0 DEF StoreProofs!Init, StoreProofs!TypeOK, StoreProofs!Snapshots, StoreProofs!Empty,
              StoreProofs!InFlight, StoreProofs!StoreAssumption
<1>3. StoreProofs!TypeOK /\ [Next]_vars => [StoreProofs!Next]_StoreProofs!vars
  BY StoreStep, SameNext, SameTypes
<1>4. StoreProofs!TypeOK /\ [StoreProofs!Next]_StoreProofs!vars => StoreProofs!TypeOK'
  BY <1>0, StoreProofs!TypeStep
<1>5. StoreProofs!Spec => []StoreProofs!Durable
  BY <1>0, StoreProofs!AcknowledgedIsSaved
<1>6. StoreProofs!Durable => Durable
  BY DEF StoreProofs!Durable, Durable, Store!Durable
<1> QED BY <1>1, <1>2, <1>3, <1>4, <1>5, <1>6, PTL DEF Spec, StoreProofs!Spec

-----------------------------------------------------------------------------
(* The cache *)

\* The operations that will return, if nothing goes wrong.
Awaited(c) == stage[c] \in {"saving", "saved"}

CacheTypes ==
    /\ DOMAIN cache = DOMAIN EmptyCache
    /\ made \in [Callers -> Templates \cup Deletions \cup {NoContent}]
    /\ \A c \in Callers : Awaited(c) => made[c] \in Templates \cup Deletions

\* Whoever owes an answer for a version is about to bring the cache up to date
\* with what he stored or deleted.
DebtorRefreshes == \A c \in Callers, n \in Names, v \in Versions : owed[<<n, v>>] = c =>
    /\ Awaited(c) /\ made[c].name = n
    /\ \/ made[c].version = NoVersion
       \/ made[c].version = v /\ made[c].content = live[<<n, v>>]

\* A put() under way still answers for its version, unless that was changed since:
\* then the later operation cannot return first.
PutIsLast == \A c \in Callers, n \in Names, v \in Versions :
    Awaited(c) /\ made[c].name = n /\ made[c].version = v =>
        \/ owed[<<n, v>>] \in {c, Lost}
        \/ \E d \in Callers : owed[<<n, v>>] = d /\ c \in ahead[d]

CacheInv == CacheTypes /\ DebtorRefreshes /\ PutIsLast /\ CacheAgrees

LEMMA StoredAt ==
    ASSUME NEW n \in Names, NEW v \in Versions
    PROVE  Stored(n, v) = IF live[<<n, v>>] # NoContent THEN Template(n, v, live[<<n, v>>])
                          ELSE NoContent
  BY ManagerAssumption DEF Stored, VersionsOf, Versions, NoVersion

LEMMA StoredSame ==
    ASSUME NEW n \in Names, \A v \in Versions : live'[<<n, v>>] = live[<<n, v>>]
    PROVE  Stored(n, NoVersion)' = Stored(n, NoVersion)
<1>1. VersionsOf(n)' = VersionsOf(n) /\ VersionsOf(n) \subseteq Versions
  BY DEF VersionsOf
<1>2. LatestVersion(n)' = LatestVersion(n)
  BY <1>1 DEF LatestVersion
<1>3. LatestVersion(n) \in VersionsOf(n) =>
        live'[<<n, LatestVersion(n)>>] = live[<<n, LatestVersion(n)>>]
  BY <1>1
<1>. QED
  BY <1>1, <1>2, <1>3 DEF Stored

LEMMA Pairs ==
    /\ \A n \in Names, v \in Versions : <<n, v>> \in Keys /\ <<n, v>> \in DOMAIN EmptyCache
    /\ \A n \in Names : <<n, NoVersion>> \in DOMAIN EmptyCache
    /\ NoVersion \notin Versions
  BY ManagerAssumption DEF Keys, EmptyCache, Versions, NoVersion

\* m says what changes, when memory becomes new.
Tells(m, new) == \A n \in Names, v \in Versions :
    /\ new[<<n, v>>] # live[<<n, v>>] =>
         m.name = n /\ (m.version = NoVersion \/ (m.version = v /\ m.content = new[<<n, v>>]))
    /\ m.name = n /\ m.version = v => new[<<n, v>>] # live[<<n, v>>]

\* load() may have filled the cache for the latest.
FillsAtMostLatest ==
    /\ DOMAIN cache' = DOMAIN cache
    /\ \A n \in Names, v \in Versions : cache'[<<n, v>>] = cache[<<n, v>>]
    /\ \A n \in Names : cache'[<<n, NoVersion>>] \in
         {NoContent, cache[<<n, NoVersion>>], Stored(n, NoVersion)}

\* The first half of put(), load() and delete()
LEMMA ChangeKeepsCache ==
    ASSUME Store!TypeOK, CacheInv, NEW c \in Callers, NEW new \in Store!Snapshots,
           Store!Change(c, new), NEW m \in Templates \cup Deletions,
           made' = [made EXCEPT ![c] = m], Tells(m, new), FillsAtMostLatest
    PROVE  CacheInv'
<1>. USE ManagerAssumption, Pairs DEF Tells, FillsAtMostLatest
<1>1. /\ live' = new /\ stage[c] = "idle" /\ \A e \in Callers : Awaited(e)' <=> e = c \/ Awaited(e)
      /\ \A e \in Callers : e # c => made'[e] = made[e] /\ ahead'[e] = ahead[e]
      /\ made'[c] = m /\ \A e \in Callers : Awaited(e) => e \in ahead'[c]
  BY DEF Store!Change, Store!TypeOK, Store!InFlight, CacheInv, CacheTypes, Awaited
<1>2. \A k \in Keys : owed'[k] = IF new[k] # live[k] THEN c ELSE owed[k]
  BY DEF Store!Change
<1>3. CacheTypes'
  BY <1>1 DEF CacheInv, CacheTypes, EmptyCache
<1>4. DebtorRefreshes'
  BY <1>1, <1>2 DEF CacheInv, DebtorRefreshes, Awaited
<1>5. PutIsLast'
  <2>. SUFFICES ASSUME NEW e \in Callers, NEW n \in Names, NEW v \in Versions,
                       Awaited(e)', made'[e].name = n, made'[e].version = v
                PROVE  \/ owed'[<<n, v>>] \in {e, Lost}
                       \/ \E d \in Callers : owed'[<<n, v>>] = d /\ e \in ahead'[d]
    BY DEF PutIsLast
  <2>1. CASE e = c
    BY <1>1, <1>2, <2>1
  <2>2. CASE e # c
    <3>1. Awaited(e) /\ made[e].name = n /\ made[e].version = v /\ e \in ahead'[c]
      BY <1>1, <2>2
    <3>2. CASE new[<<n, v>>] # live[<<n, v>>]
      BY <1>2, <3>1, <3>2
    <3>3. CASE new[<<n, v>>] = live[<<n, v>>]
      BY <1>1, <1>2, <3>1, <3>3 DEF CacheInv, PutIsLast
    <3>. QED  BY <3>2, <3>3
  <2>. QED  BY <2>1, <2>2
<1>6. ASSUME NEW n \in Names, NEW v \in Versions, owed'[<<n, v>>] = NoContent
      PROVE  cache'[<<n, v>>] \in {NoContent, Stored(n, v)'}
  <2>1. owed[<<n, v>>] = NoContent /\ live'[<<n, v>>] = live[<<n, v>>]
    BY <1>1, <1>2, <1>6
  <2>2. Stored(n, v)' = Stored(n, v)
    BY <2>1, StoredAt DEF Stored, VersionsOf, Template, Versions, NoVersion
  <2>. QED  BY <2>1, <2>2 DEF CacheInv, CacheAgrees
<1>7. ASSUME NEW n \in Names, \A v \in Versions : owed'[<<n, v>>] = NoContent
      PROVE  cache'[<<n, NoVersion>>] \in {NoContent, Stored(n, NoVersion)'}
  <2>1. \A v \in Versions : owed[<<n, v>>] = NoContent /\ live'[<<n, v>>] = live[<<n, v>>]
    BY <1>1, <1>2, <1>7
  <2>2. Stored(n, NoVersion)' = Stored(n, NoVersion)
    BY <2>1, StoredSame
  <2>. QED  BY <2>1, <2>2 DEF CacheInv, CacheAgrees
<1>8. CacheAgrees'
  BY <1>6, <1>7 DEF CacheAgrees
<1>. QED
  BY <1>3, <1>4, <1>5, <1>8 DEF CacheInv

\* put(), load() or delete() returns.  With set() calls in order nobody who
\* began later has been answered.
LEMMA CompletesKeepsCache ==
    ASSUME Store!TypeOK, CacheInv, InOrder, NEW c \in Callers, Completes(c)
    PROVE  CacheInv'
<1>. USE ManagerAssumption, Pairs
<1>. DEFINE m == made[c]
<1>1. /\ live' = live /\ stage[c] = "saved" /\ ahead[c] = {} /\ cache' = Refresh(m)
      /\ \A e \in Callers : Awaited(e)' <=> e # c /\ Awaited(e)
      /\ \A e \in Callers : e # c => made'[e] = made[e] /\ ahead'[e] = ahead[e] \ {c}
      /\ \A k \in Keys : owed'[k] = IF owed[k] = c THEN NoContent ELSE owed[k]
      /\ made' \in [Callers -> Templates \cup Deletions \cup {NoContent}]
  <2>1. /\ live' = live /\ stage[c] = "saved" /\ ahead[c] = {} /\ cache' = Refresh(m)
        /\ stage' = [stage EXCEPT ![c] = "idle"] /\ made' = [made EXCEPT ![c] = NoContent]
        /\ ahead' = [d \in Callers |-> IF d = c THEN {} ELSE ahead[d] \ {c}]
        /\ owed' = [k \in Keys |-> IF owed[k] = c THEN NoContent ELSE owed[k]]
    BY DEF Completes, Store!Returns, Store!Ends, Store!Settles, Over
  <2>. HIDE DEF m
  <2>2. stage \in [Callers -> {"idle", "saving", "saved", "abandoned"}]
    BY DEF Store!TypeOK
  <2>3. \A e \in Callers : Awaited(e)' <=> e # c /\ Awaited(e)
    BY <2>1, <2>2 DEF Awaited
  <2>4. made' \in [Callers -> Templates \cup Deletions \cup {NoContent}]
        /\ \A e \in Callers : e # c => made'[e] = made[e]
    BY <2>1 DEF CacheInv, CacheTypes
  <2>. QED  BY <2>1, <2>3, <2>4
<1>2. m \in Templates \cup Deletions /\ m.name \in Names
  BY <1>1 DEF CacheInv, CacheTypes, Awaited, Templates, Deletions
<1>3. m.version # NoVersion =>
        m.version \in Versions /\ m = Template(m.name, m.version, m.content) /\ m.content # NoContent
  BY <1>2 DEF Templates, Deletions, Template
<1>4. /\ DOMAIN cache' = DOMAIN cache
      /\ \A n \in Names : cache'[<<n, NoVersion>>] =
           IF n = m.name THEN NoContent ELSE cache[<<n, NoVersion>>]
      /\ \A n \in Names, v \in Versions : cache'[<<n, v>>] =
           IF n = m.name /\ m.version = NoVersion THEN NoContent
           ELSE IF n = m.name /\ m.version = v THEN m ELSE cache[<<n, v>>]
  <2>. HIDE DEF m
  <2>1. CASE m.version = NoVersion
    BY <1>1, <2>1 DEF Refresh, CacheInv, CacheTypes
  <2>2. CASE m.version # NoVersion
    BY <1>1, <1>2, <1>3, <2>2 DEF Refresh, CacheInv, CacheTypes
  <2>. QED  BY <2>1, <2>2
<1>5. CacheTypes'
  BY <1>1, <1>4 DEF CacheInv, CacheTypes, EmptyCache
<1>6. DebtorRefreshes'
  BY <1>1 DEF CacheInv, DebtorRefreshes
<1>7. PutIsLast'
  BY <1>1 DEF CacheInv, PutIsLast
<1>8. \A n \in Names, v \in Versions :
        owed[<<n, v>>] = c =>
            m.name = n /\ (m.version = NoVersion \/ (m.version = v /\ m.content = live[<<n, v>>]))
  BY DEF CacheInv, DebtorRefreshes
<1>9. ASSUME NEW n \in Names, NEW v \in Versions, owed'[<<n, v>>] = NoContent
      PROVE  cache'[<<n, v>>] \in {NoContent, Stored(n, v)'}
  <2>1. Stored(n, v)' = Stored(n, v)
    BY <1>1 DEF Stored, LatestVersion, VersionsOf
  <2>2. CASE n = m.name /\ m.version = v
    <3>1. owed[<<n, v>>] = c
      BY <1>1, <1>9, <2>2 DEF CacheInv, PutIsLast, Awaited
    <3>. QED  BY <1>3, <1>4, <1>8, <2>1, <2>2, <3>1, StoredAt
  <2>3. CASE ~(n = m.name /\ m.version = v)
    <3>1. cache'[<<n, v>>] \in {NoContent, cache[<<n, v>>]}
      BY <1>4, <2>3
    <3>2. CASE owed[<<n, v>>] = c
      BY <1>4, <1>8, <2>3, <3>2
    <3>3. CASE owed[<<n, v>>] # c
      <4>1. owed[<<n, v>>] = NoContent
        BY <1>1, <1>9, <3>3
      <4>2. cache[<<n, v>>] \in {NoContent, Stored(n, v)}
        BY <4>1 DEF CacheInv, CacheAgrees
      <4>. QED  BY <2>1, <3>1, <4>2
    <3>. QED  BY <3>2, <3>3
  <2>. QED  BY <2>2, <2>3
<1>10. ASSUME NEW n \in Names, \A v \in Versions : owed'[<<n, v>>] = NoContent
       PROVE  cache'[<<n, NoVersion>>] \in {NoContent, Stored(n, NoVersion)'}
  <2>1. Stored(n, NoVersion)' = Stored(n, NoVersion)
    BY <1>1 DEF Stored, LatestVersion, VersionsOf
  <2>2. n # m.name => \A v \in Versions : owed[<<n, v>>] = NoContent
    BY <1>1, <1>8, <1>10
  <2>. QED  BY <1>4, <2>1, <2>2 DEF CacheInv, CacheAgrees
<1>11. CacheAgrees'
  BY <1>9, <1>10 DEF CacheAgrees
<1>. QED
  BY <1>5, <1>6, <1>7, <1>11 DEF CacheInv

\* Steps of the store that leave memory and the cache alone, and reads.
LEMMA OthersKeepCache ==
    ASSUME Store!TypeOK, CacheInv,
           \/ \E c \in Callers : BreaksOff(c) \/ BlobWritten(c)
           \/ Restart
           \/ \E n \in Names, v \in Versions \cup {NoVersion} : Fills(n, v)
    PROVE  CacheInv'
<1>. USE ManagerAssumption, Pairs
<1>1. ASSUME NEW c \in Callers, BreaksOff(c) \/ BlobWritten(c) PROVE CacheInv'
  <2>1. /\ UNCHANGED <<live, cache>>
        /\ made' \in [Callers -> Templates \cup Deletions \cup {NoContent}]
        /\ \A e \in Callers : e # c => made'[e] = made[e]
        /\ Awaited(c)' => Awaited(c) /\ made'[c] = made[c]
        /\ \A e \in Callers : e # c => (Awaited(e)' <=> Awaited(e))
        /\ \A e \in Callers : e # c => ahead[e] \ {c} \subseteq ahead'[e]
    <3>1. CASE BreaksOff(c)
      BY <3>1 DEF BreaksOff, Over, Store!Raises, Store!IsCancelled, Store!Ends, Store!TypeOK,
                  CacheInv, CacheTypes, Awaited
    <3>2. CASE BlobWritten(c)
      <4>1. stage' = [stage EXCEPT ![c] = IF stage[c] = "saving" THEN "saved" ELSE "idle"]
            /\ stage[c] \in {"saving", "abandoned"} /\ UNCHANGED <<live, cache, made>>
            /\ \/ ahead' = ahead
               \/ ahead' = [d \in Callers |-> IF d = c THEN {} ELSE ahead[d] \ {c}]
        BY <3>2 DEF BlobWritten, Store!TakesEffect, Store!Ends, Store!Unsaved
      <4>2. stage \in [Callers -> {"idle", "saving", "saved", "abandoned"}]
        BY DEF Store!TypeOK
      <4>3. (Awaited(c)' => Awaited(c)) /\ \A e \in Callers : e # c => (Awaited(e)' <=> Awaited(e))
        BY <4>1, <4>2 DEF Awaited
      <4>. QED  BY <4>1, <4>3 DEF CacheInv, CacheTypes
    <3>. QED  BY <1>1, <3>1, <3>2
  <2>2. \/ Awaited(c)' /\ owed' = owed /\ ahead' = ahead
        \/ ~Awaited(c) /\ owed' = owed
        \/ ~Awaited(c)' /\ \A k \in Keys : owed'[k] = IF owed[k] = c THEN Lost ELSE owed[k]
    <3>1. CASE BreaksOff(c)
      BY <3>1 DEF BreaksOff, Store!Raises, Store!IsCancelled, Store!Ends, Store!Settles,
                  Store!TypeOK, Awaited
    <3>2. CASE BlobWritten(c)
      <4>1. CASE stage[c] = "saving"
        BY <3>2, <4>1 DEF BlobWritten, Store!TakesEffect, Store!TypeOK, Awaited
      <4>2. CASE stage[c] # "saving"
        BY <3>2, <4>2 DEF BlobWritten, Store!TakesEffect, Store!Unsaved, Awaited
      <4>. QED  BY <4>1, <4>2
    <3>. QED  BY <1>1, <3>1, <3>2
  <2>3. CacheTypes'
    BY <2>1 DEF CacheInv, CacheTypes, EmptyCache
  <2>4. DebtorRefreshes'
    BY <2>1, <2>2 DEF CacheInv, DebtorRefreshes
  <2>5. PutIsLast'
    BY <2>1, <2>2 DEF CacheInv, PutIsLast, DebtorRefreshes
  <2>6. \A n \in Names, v \in Versions : owed'[<<n, v>>] = NoContent => owed[<<n, v>>] = NoContent
    BY <2>2
  <2>7. \A n \in Names, v \in Versions \cup {NoVersion} : Stored(n, v)' = Stored(n, v)
    BY <2>1 DEF Stored, LatestVersion, VersionsOf
  <2>8. CacheAgrees'
    BY <2>1, <2>6, <2>7 DEF CacheInv, CacheAgrees
  <2>. QED  BY <2>3, <2>4, <2>5, <2>8 DEF CacheInv
<1>2. CASE Restart
  <2>1. /\ \A c \in Callers : ~Awaited(c)'
        /\ \A k \in Keys : owed'[k] = NoContent
        /\ cache' = EmptyCache
        /\ made' \in [Callers -> Templates \cup Deletions \cup {NoContent}]
    BY <1>2 DEF Restart, Store!Restart, Awaited
  <2>2. \A k \in DOMAIN EmptyCache : cache'[k] = NoContent
    BY <2>1 DEF EmptyCache
  <2>. QED
    BY <2>1, <2>2 DEF CacheInv, CacheTypes, DebtorRefreshes, PutIsLast, CacheAgrees, EmptyCache
<1>3. ASSUME NEW n \in Names, NEW v \in Versions \cup {NoVersion}, Fills(n, v) PROVE CacheInv'
  <2>1. /\ UNCHANGED <<live, stage, ahead, owed, made>> /\ DOMAIN cache' = DOMAIN cache
        /\ cache' = [cache EXCEPT ![<<n, v>>] = Stored(n, v)]
    BY <1>3 DEF Fills, storeVars
  <2>2. \A i \in Names, u \in Versions \cup {NoVersion} :
          cache'[<<i, u>>] \in {cache[<<i, u>>], Stored(i, u)}
    BY <2>1 DEF CacheInv, CacheTypes, EmptyCache
  <2>3. \A i \in Names, u \in Versions \cup {NoVersion} : Stored(i, u)' = Stored(i, u)
    BY <2>1 DEF Stored, LatestVersion, VersionsOf
  <2>4. CacheTypes' /\ DebtorRefreshes' /\ PutIsLast'
    BY <2>1 DEF CacheInv, CacheTypes, DebtorRefreshes, PutIsLast, Awaited, EmptyCache
  <2>5. CacheAgrees'
    BY <2>1, <2>2, <2>3 DEF CacheInv, CacheAgrees
  <2>. QED  BY <2>4, <2>5 DEF CacheInv
<1>. QED
  BY <1>1, <1>2, <1>3


\* There is a latest version, and none is later.
LEMMA LatestIsMax == ASSUME NEW n \in Names
                     PROVE  /\ LatestVersion(n) \in VersionsOf(n) \cup {NoVersion}
                            /\ \A v \in VersionsOf(n) : v <= LatestVersion(n)
<1>. DEFINE Less == OpToRel(<, Nat)
            S    == VersionsOf(n) \cup {NoVersion}
            T    == {MaxVersion - v : v \in S}
<1>1. S \subseteq 0..MaxVersion /\ MaxVersion \in Nat
  BY ManagerAssumption DEF VersionsOf, Versions, NoVersion
<1>2. /\ \A v \in S : MaxVersion - v \in T
      /\ T \subseteq Nat
  BY <1>1
<1>3. T # {}
  BY <1>2 DEF NoVersion
<1>4. IsWellFoundedOn(Less, Nat)
  BY NatLessThanWellFounded
<1>5. \A x, y \in Nat : y < x => <<y, x>> \in Less
  BY DEF OpToRel
<1>6. PICK x \in T : \A y \in T : ~(y < x)
  <2>. HIDE DEF Less, T
  <2>1. PICK x \in T : \A y \in T : ~(<<y, x>> \in Less)
    BY <1>2, <1>3, <1>4, WFMin
  <2>. QED  BY <1>2, <1>5, <2>1
<1>7. PICK u \in S : x = MaxVersion - u
  OBVIOUS
<1>8. \A v \in S : u >= v
  <2>. HIDE DEF S, T
  <2>. QED  BY <1>1, <1>2, <1>6, <1>7
<1>9. Max(S) \in S /\ \A v \in S : Max(S) >= v
  <2>. HIDE DEF S, T
  <2>. QED  BY <1>8 DEF Max
<1>. QED
  BY <1>1, <1>9 DEF LatestVersion

\* A new version is one that there is not.
LEMMA NewVersionIsFree ==
    ASSUME NEW n \in Names, NextVersion(n) \in Versions
    PROVE  live[<<n, NextVersion(n)>>] = NoContent
<1>0. VersionsOf(n) \cup {NoVersion} \subseteq Nat
  BY ManagerAssumption DEF VersionsOf, Versions, NoVersion
<1>1. LatestVersion(n) \in Nat /\ \A v \in VersionsOf(n) : v <= LatestVersion(n)
  BY <1>0, LatestIsMax
<1>2. NextVersion(n) \notin VersionsOf(n)
  BY <1>1, ManagerAssumption DEF NextVersion, VersionsOf, Versions
<1>. QED
  BY <1>2 DEF VersionsOf

LEMMA CacheInvKept ==
    ASSUME InOrder, Store!TypeOK, CacheInv, [Next]_vars
    PROVE  CacheInv'
<1>. USE ManagerAssumption, Pairs
<1>0. live \in [Keys -> Contents \cup {NoContent}]
  BY DEF Store!TypeOK, Store!Snapshots
<1>1. ASSUME NEW c \in Callers, NEW n \in Names, NEW t \in Contents, StoresNew(c, n, t),
             cache' = cache \/ cache' = [cache EXCEPT ![<<n, NoVersion>>] = Get(n, NoVersion)]
      PROVE  CacheInv'
  <2>. DEFINE v   == NextVersion(n)
              new == [live EXCEPT ![<<n, v>>] = t]
              m   == Template(n, v, t)
  <2>1. v \in Versions /\ Store!Change(c, new) /\ made' = [made EXCEPT ![c] = m]
    BY <1>1 DEF StoresNew
  <2>2. live[<<n, v>>] = NoContent /\ t # NoContent
    BY <2>1, NewVersionIsFree
  <2>3. m \in Templates \cup Deletions /\ m.name = n /\ m.version = v /\ m.content = t
    BY <2>1 DEF Template, Templates
  <2>4. new \in Store!Snapshots /\ \A k \in Keys : new[k] = IF k = <<n, v>> THEN t ELSE live[k]
    BY <1>0, <2>1 DEF Store!Snapshots
  <2>5. FillsAtMostLatest
    BY <1>1 DEF FillsAtMostLatest, Get, CacheInv, CacheTypes
  <2>. HIDE DEF v, new, m
  <2>6. Tells(m, new)
    BY <2>1, <2>2, <2>3, <2>4 DEF Tells
  <2>. QED  BY <2>1, <2>3, <2>4, <2>5, <2>6, ChangeKeepsCache
<1>2. ASSUME NEW c \in Callers, NEW n \in Names, NEW v \in Versions \cup {NoVersion}, Delete(c, n, v)
      PROVE  CacheInv'
  <2>. DEFINE new == [k \in Keys |-> IF k[1] = n /\ v \in {NoVersion, k[2]} THEN NoContent ELSE live[k]]
              m   == Template(n, NoVersion, NoContent)
  <2>1. Store!Change(c, new) /\ made' = [made EXCEPT ![c] = m] /\ cache' = cache
    BY <1>2 DEF Delete
  <2>2. m \in Templates \cup Deletions /\ m.name = n /\ m.version = NoVersion
    BY DEF Template, Deletions
  <2>3. new \in Store!Snapshots
    BY <1>0 DEF Store!Snapshots
  <2>4. \A i \in Names, u \in Versions : new[<<i, u>>] # live[<<i, u>>] => i = n
    OBVIOUS
  <2>. HIDE DEF new, m
  <2>5. Tells(m, new) /\ FillsAtMostLatest
    BY <2>1, <2>2, <2>4 DEF Tells, FillsAtMostLatest
  <2>. QED  BY <2>1, <2>2, <2>3, <2>5, ChangeKeepsCache
<1>3. CASE UNCHANGED vars
  BY <1>3 DEF vars, storeVars, CacheInv, CacheTypes, DebtorRefreshes, PutIsLast, CacheAgrees,
     Awaited, Stored, LatestVersion, VersionsOf, EmptyCache
<1>. QED
  BY <1>1, <1>2, <1>3, CompletesKeepsCache, OthersKeepCache DEF Next, Put, Load

\* Theorem: the cache shows no deleted template and no old one once the
\* operations that last changed it have returned.
THEOREM CacheIsCurrent == InOrder => (Spec => []CacheAgrees)
<1>. SUFFICES ASSUME InOrder PROVE Spec => []CacheAgrees
  OBVIOUS
<1>0. StoreProofs!StoreAssumption
  BY ManagerAssumption DEF StoreProofs!StoreAssumption
<1>1. Init => Store!TypeOK /\ CacheInv
  <2>. SUFFICES ASSUME Init PROVE Store!TypeOK /\ CacheInv
    OBVIOUS
  <2>1. Store!TypeOK
    BY ManagerAssumption DEF Init, Store!Init, Store!TypeOK, Store!Snapshots, Store!Empty, Store!InFlight
  <2>2. \A k \in DOMAIN EmptyCache : EmptyCache[k] = NoContent
    BY DEF EmptyCache
  <2>3. CacheInv
    BY <2>2, Pairs, ManagerAssumption DEF Init, Store!Init, CacheInv, CacheTypes, DebtorRefreshes, PutIsLast,
       CacheAgrees, Awaited, Store!Empty, EmptyCache, Keys
  <2>. QED  BY <2>1, <2>3
<1>2. Store!TypeOK /\ CacheInv /\ [Next]_vars => (Store!TypeOK /\ CacheInv)'
  <2>. SUFFICES ASSUME Store!TypeOK, CacheInv, [Next]_vars PROVE Store!TypeOK' /\ CacheInv'
    OBVIOUS
  <2>1. StoreProofs!TypeOK'
    BY <1>0, StoreStep, SameNext, SameTypes, StoreProofs!TypeStep
  <2>2. Store!TypeOK' <=> StoreProofs!TypeOK'
    BY DEF Store!TypeOK, StoreProofs!TypeOK, Store!Snapshots, StoreProofs!Snapshots,
       Store!InFlight, StoreProofs!InFlight
  <2>. QED  BY <2>1, <2>2, CacheInvKept
<1>3. CacheInv => CacheAgrees
  BY DEF CacheInv
<1>. QED
  BY <1>1, <1>2, <1>3, PTL DEF Spec

\* Theorem: a template that is stored is never overwritten.  Only deleting it
\* or a restart takes it away, whatever the blob store does.
THEOREM VersionsAreKept == Spec => NeverOverwritten
<1>0. StoreProofs!StoreAssumption
  BY ManagerAssumption DEF StoreProofs!StoreAssumption
<1>1. Init => Store!TypeOK
  BY ManagerAssumption DEF Init, Store!Init, Store!TypeOK, Store!Snapshots, Store!Empty, Store!InFlight
<1>2. Store!TypeOK /\ [Next]_vars => Store!TypeOK'
  <2>. SUFFICES ASSUME Store!TypeOK, [Next]_vars PROVE Store!TypeOK'
    OBVIOUS
  <2>1. StoreProofs!TypeOK'
    BY <1>0, StoreStep, SameNext, SameTypes, StoreProofs!TypeStep
  <2>2. Store!TypeOK' <=> StoreProofs!TypeOK'
    BY DEF Store!TypeOK, StoreProofs!TypeOK, Store!Snapshots, StoreProofs!Snapshots,
       Store!InFlight, StoreProofs!InFlight
  <2>. QED  BY <2>1, <2>2
<1>3. Store!TypeOK /\ [Next]_vars =>
        [\A k \in Keys : live[k] # NoContent /\ live'[k] # live[k]
           => live'[k] = NoContent \/ (faults' > faults /\ live' = blob)]_vars
  <2>. SUFFICES ASSUME Store!TypeOK, Next, NEW k \in Keys, live[k] # NoContent, live'[k] # live[k]
                PROVE  live'[k] = NoContent \/ (faults' > faults /\ live' = blob)
    OBVIOUS
  <2>0. live \in [Keys -> Contents \cup {NoContent}] /\ faults \in Nat
    BY DEF Store!TypeOK, Store!Snapshots
  <2>1. ASSUME NEW c \in Callers, NEW n \in Names, NEW t \in Contents, StoresNew(c, n, t)
        PROVE  live' = [live EXCEPT ![<<n, NextVersion(n)>>] = t]
               /\ live[<<n, NextVersion(n)>>] = NoContent
    BY <2>1, NewVersionIsFree DEF StoresNew, Store!Change
  <2>2. ASSUME NEW c \in Callers, NEW n \in Names, NEW t \in Contents, StoresNew(c, n, t)
        PROVE  FALSE
    BY <2>0, <2>1, <2>2
  <2>3. ASSUME NEW c \in Callers, NEW n \in Names, NEW v \in Versions \cup {NoVersion}, Delete(c, n, v)
        PROVE  live'[k] = NoContent
    BY <2>3 DEF Delete, Store!Change
  <2>4. ASSUME NEW c \in Callers, Completes(c) \/ BreaksOff(c) \/ BlobWritten(c) PROVE FALSE
    BY <2>4 DEF Completes, BreaksOff, BlobWritten, Store!Returns, Store!Raises, Store!IsCancelled,
                Store!TakesEffect
  <2>5. CASE Restart
    BY <2>0, <2>5 DEF Restart, Store!Restart, Store!Fails
  <2>6. ASSUME NEW n \in Names, NEW v \in Versions \cup {NoVersion}, Fills(n, v) PROVE FALSE
    BY <2>6 DEF Fills, storeVars
  <2>. QED  BY <2>2, <2>3, <2>4, <2>5, <2>6 DEF Next, Put, Load
<1>. QED
  BY <1>1, <1>2, <1>3, PTL DEF Spec, NeverOverwritten
=============================================================================
