---------------------------- MODULE RegistryProofs ----------------------------
(***************************************************************************)
(* What TLAPS proves about Registry, for any tasks, ids, tools and skills. *)
(***************************************************************************)
EXTENDS Registry, TLAPS

Marks == Items \cup {None, Untouched}

TypeOK ==
    /\ registered \in [Ids -> Items \cup {None}]
    /\ index \in [Indexes -> [Ids -> Items \cup {None}]]
    /\ routes \subseteq Ids
    /\ skills \in [Ids -> Skills \cup {None}]
    /\ stage \in [Callers -> {"idle"} \cup Indexes]
    /\ wants \in [Callers -> [Ids -> Marks]]
    /\ took \in [Callers -> SUBSET {"primary"}]
    /\ alone \in [Callers -> SUBSET Ids]
    /\ crossed \subseteq Ids /\ missed \subseteq Ids

\* Calls that want different things of an id cross; such an id is nobody's alone.
\* A call that is not under way wants nothing.
Quarrels == \A id \in Ids : \A c \in Callers :
    /\ id \in alone[c] => wants[c][id] # Untouched
    /\ stage[c] = "idle" => wants[c][id] = Untouched
    /\ \A d \in Callers :
        wants[c][id] # Untouched /\ wants[d][id] \notin {Untouched, wants[c][id]}
            => id \in crossed /\ id \notin alone[c]

\* The books never contradict what is wanted of an id that has not crossed, and
\* when another call has settled it meanwhile they already say it.
Books == \A id \in Ids : \A c \in Callers : wants[c][id] # Untouched =>
    /\ id \notin crossed \/ id \in alone[c] =>
        /\ registered[id] \in {None, wants[c][id]}
        /\ wants[c][id] \in Skills => skills[id] = wants[c][id]
    /\ id \notin crossed /\ id \notin alone[c] => registered[id] = wants[c][id]
    /\ wants[c][id] \in Skills => skills[id] # None

\* What the primary took is still there when the call comes to the fallback.
PrimaryHas == \A id \in Ids : \A c \in Callers :
    id \in alone[c] /\ stage[c] = "fallback" /\ "primary" \in took[c]
        => index["primary"][id] = wants[c][id]

\* The books and both backends agree on an id that no call has alone.
Settled == \A id \in Ids \ (crossed \cup missed) :
    (\A c \in Callers : id \notin alone[c]) => \A b \in Indexes : index[b][id] = registered[id]

\* A registered item is where it was put, unless calls crossed.
Kept == \A id \in Ids \ crossed :
    registered[id] # None => \E b \in Indexes : index[b][id] = registered[id]

Inv == TypeOK /\ Quarrels /\ Books /\ PrimaryHas /\ Settled /\ Kept /\ HandlersKnown

-----------------------------------------------------------------------------
(* What each kind of step does, id by id *)

\* These two things, wanted of one id, differ.
Differ(v, w) == v # Untouched /\ w # Untouched /\ v # w

BeginsAt(c, w, id) ==
    /\ \A d \in Callers : wants'[d][id] = IF d = c THEN w[id] ELSE wants[d][id]
    /\ \A d \in Callers : stage'[d] = IF d = c THEN "primary" ELSE stage[d]
    /\ \A d \in Callers : id \in alone'[d] <=>
        IF d = c THEN w[id] # Untouched /\ \A e \in Callers : ~Differ(w[id], wants[e][id])
        ELSE id \in alone[d] /\ ~Differ(w[id], wants[d][id])
    /\ id \in crossed' <=> id \in crossed \/ \E e \in Callers : Differ(w[id], wants[e][id])
    /\ \A b \in Indexes : index'[b][id] = index[b][id]
    /\ took' = took /\ missed' = missed /\ routes' = routes

EndsAt(c, backends, id) ==
    /\ \A d \in Callers : wants'[d][id] = IF d = c THEN Untouched ELSE wants[d][id]
    /\ \A d \in Callers : stage'[d] = IF d = c THEN "idle" ELSE stage[d]
    /\ \A d \in Callers : took'[d] = IF d = c THEN {} ELSE took[d]
    /\ \A d \in Callers : id \in alone'[d] <=> d # c /\ id \in alone[d]
    /\ id \in missed' <=> IF backends = Indexes THEN id \in missed /\ id \notin alone[c]
                          ELSE id \in missed \/ wants[c][id] # Untouched
    /\ id \in crossed' <=> \/ wants[c][id] # Untouched /\ id \notin alone[c]
                           \/ id \in crossed /\ (backends = {} \/ id \notin alone[c])

\* A backend took what the call wants of the id, or nothing of it.
AppliesAt(b, c, done, id) ==
    /\ \A a \in Indexes : index'[a][id] =
        IF a = b /\ id \in done /\ wants[c][id] # Untouched THEN wants[c][id] ELSE index[a][id]

LEMMA BeginsPointwise ==
    ASSUME TypeOK, NEW c \in Callers, NEW w \in [Ids -> Marks], Begins(c, w), NEW id \in Ids
    PROVE  BeginsAt(c, w, id)
<1>. DEFINE against == UNION {Conflict(w, wants[d]) : d \in Callers}
<1>1. \A d \in Callers : id \in Conflict(w, wants[d]) <=> Differ(w[id], wants[d][id])
  BY DEF Conflict, Of, Differ
<1>2. id \in against <=> \E d \in Callers : id \in Conflict(w, wants[d])
  OBVIOUS
<1>3. alone' = [d \in Callers |-> IF d = c THEN Of(w) \ against
                                  ELSE alone[d] \ Conflict(w, wants[d])]
      /\ crossed' = crossed \cup against
  BY DEF Begins
<1>4. \A d \in Callers : id \in alone'[d] <=>
        IF d = c THEN id \in Of(w) /\ id \notin against
        ELSE id \in alone[d] /\ id \notin Conflict(w, wants[d])
  <2>. HIDE DEF against
  <2>. QED  BY <1>3
<1>5. id \in Of(w) <=> w[id] # Untouched
  BY DEF Of
<1>6. \A d \in Callers : wants'[d][id] = IF d = c THEN w[id] ELSE wants[d][id]
  BY DEF Begins, TypeOK
<1>7. /\ \A d \in Callers : stage'[d] = IF d = c THEN "primary" ELSE stage[d]
      /\ index' = index /\ took' = took /\ missed' = missed /\ routes' = routes
  BY DEF Begins, TypeOK
<1>8. \A d \in Callers : id \in alone'[d] <=>
        IF d = c THEN w[id] # Untouched /\ \A e \in Callers : ~Differ(w[id], wants[e][id])
        ELSE id \in alone[d] /\ ~Differ(w[id], wants[d][id])
  <2>. HIDE DEF against
  <2>. QED  BY <1>1, <1>2, <1>4, <1>5
<1>9. id \in crossed' <=> id \in crossed \/ \E e \in Callers : Differ(w[id], wants[e][id])
  <2>. HIDE DEF against
  <2>. QED  BY <1>1, <1>2, <1>3
<1>. QED
  BY <1>6, <1>7, <1>8, <1>9 DEF BeginsAt

LEMMA EndsPointwise ==
    ASSUME TypeOK, NEW c \in Callers, NEW backends, Ends(c, backends), NEW id \in Ids
    PROVE  EndsAt(c, backends, id)
<1>1. id \in Of(wants[c]) <=> wants[c][id] # Untouched
  BY DEF Of
<1>2. /\ \A d \in Callers : wants'[d][id] = IF d = c THEN Untouched ELSE wants[d][id]
      /\ \A d \in Callers : stage'[d] = IF d = c THEN "idle" ELSE stage[d]
      /\ \A d \in Callers : took'[d] = IF d = c THEN {} ELSE took[d]
      /\ \A d \in Callers : id \in alone'[d] <=> d # c /\ id \in alone[d]
  BY DEF Ends, TypeOK, Nothing
<1>3. id \in missed' <=> IF backends = Indexes THEN id \in missed /\ id \notin alone[c]
                         ELSE id \in missed \/ wants[c][id] # Untouched
  <2>1. missed' = IF backends = Indexes THEN missed \ alone[c] ELSE missed \cup Of(wants[c])
    BY DEF Ends
  <2>. QED  BY <1>1, <2>1
<1>4. id \in crossed' <=> \/ wants[c][id] # Untouched /\ id \notin alone[c]
                          \/ id \in crossed /\ (backends = {} \/ id \notin alone[c])
  <2>1. crossed' = IF backends = {} THEN crossed \cup (Of(wants[c]) \ alone[c])
                   ELSE (crossed \ alone[c]) \cup (Of(wants[c]) \ alone[c])
    BY DEF Ends
  <2>. QED  BY <1>1, <2>1
<1>. QED
  BY <1>2, <1>3, <1>4 DEF EndsAt

LEMMA AppliesPointwise ==
    ASSUME TypeOK, NEW b \in Indexes, NEW c \in Callers, NEW done \in SUBSET Of(wants[c]),
           Applies(b, c, done), NEW id \in Ids
    PROVE  AppliesAt(b, c, done, id)
<1>1. \A a \in Indexes : index'[a] = IF a = b THEN Over(index[b], Only(wants[c], done))
                                     ELSE index[a]
  BY DEF Applies, TypeOK
<1>2. Over(index[b], Only(wants[c], done))[id]
        = IF id \in done /\ wants[c][id] # Untouched THEN wants[c][id] ELSE index[b][id]
  BY DEF Over, Only
<1>. QED
  BY <1>1, <1>2 DEF AppliesAt

-----------------------------------------------------------------------------
(* Types *)

LEMMA TypesKept == TypeOK /\ [Next]_vars => TypeOK'
<1>. SUFFICES ASSUME TypeOK, [Next]_vars PROVE TypeOK'
  OBVIOUS
<1>. USE DEF TypeOK
<1>1. ASSUME NEW c \in Callers, NEW w \in [Ids -> Marks], Begins(c, w)
      PROVE  /\ stage' \in [Callers -> {"idle"} \cup Indexes]
             /\ wants' \in [Callers -> [Ids -> Marks]]
             /\ took' \in [Callers -> SUBSET {"primary"}]
             /\ alone' \in [Callers -> SUBSET Ids] /\ crossed' \subseteq Ids /\ missed' \subseteq Ids
             /\ index' = index /\ routes' = routes
  BY <1>1 DEF Begins, Of, Conflict, Indexes
<1>2. ASSUME NEW c \in Callers, NEW backends, Ends(c, backends)
      PROVE  /\ stage' \in [Callers -> {"idle"} \cup Indexes]
             /\ wants' \in [Callers -> [Ids -> Marks]]
             /\ took' \in [Callers -> SUBSET {"primary"}]
             /\ alone' \in [Callers -> SUBSET Ids] /\ crossed' \subseteq Ids /\ missed' \subseteq Ids
  BY <1>2 DEF Ends, Of, Nothing, Marks
<1>3. ASSUME NEW c \in Callers, NEW b \in Indexes, NEW done \in SUBSET Of(wants[c]),
             Applies(b, c, done)
      PROVE  index' \in [Indexes -> [Ids -> Items \cup {None}]]
  <2>1. Over(index[b], Only(wants[c], done)) \in [Ids -> Items \cup {None}]
    BY DEF Over, Only, Marks
  <2>. QED  BY <1>3, <2>1 DEF Applies
<1>4. ASSUME NEW c \in Callers, NEW w \in [Ids -> Tools \cup {Untouched}], RegisterTools(c, w)
      PROVE  TypeOK'
  <2>1. w \in [Ids -> Marks]
    BY DEF Marks, Items
  <2>. QED  BY <1>1, <1>4, <2>1 DEF RegisterTools
<1>5. ASSUME NEW c \in Callers, NEW id \in Ids, NEW skill \in Skills, LoadSkill(c, id, skill)
      PROVE  TypeOK'
  <2>1. Only([i \in Ids |-> skill], {id}) \in [Ids -> Marks]
    BY DEF Only, Marks, Items
  <2>. QED  BY <1>1, <1>5, <2>1 DEF LoadSkill
<1>6. ASSUME NEW c \in Callers, NEW id \in Ids, NEW skill \in Skills, LoadRefused(c, id, skill)
      PROVE  TypeOK'
  BY <1>6 DEF LoadRefused
<1>7. ASSUME NEW c \in Callers, NEW ids \in SUBSET Ids, Deregister(c, ids)
      PROVE  TypeOK'
  <2>1. Only([id \in Ids |-> None], ids) \in [Ids -> Marks]
    BY DEF Only, Marks
  <2>2. registered' \in [Ids -> Items \cup {None}]
    BY <1>7 DEF Deregister, Over, Only
  <2>. QED  BY <1>1, <1>7, <2>1, <2>2 DEF Deregister
<1>8. ASSUME NEW c \in Callers, PrimaryEnds(c) PROVE TypeOK'
  <2>1. PICK done \in SUBSET Of(wants[c]), ok \in BOOLEAN :
          Applies("primary", c, done) /\ took' = [took EXCEPT ![c] = IF ok THEN {"primary"} ELSE {}]
    BY <1>8 DEF PrimaryEnds
  <2>2. index' \in [Indexes -> [Ids -> Items \cup {None}]]
    BY <1>3, <2>1 DEF Indexes
  <2>. QED  BY <1>8, <2>1, <2>2 DEF PrimaryEnds, Indexes
<1>9. ASSUME NEW c \in Callers, FallbackEnds(c) PROVE TypeOK'
  <2>1. PICK done \in SUBSET Of(wants[c]), backends \in SUBSET Indexes :
          /\ Applies("fallback", c, done) /\ Ends(c, backends)
          /\ registered' = IF backends = {} THEN registered ELSE Over(registered, Booked(wants[c]))
          /\ routes' = routes \cup {id \in Ids : backends # {} /\ wants[c][id] \in Tools}
          /\ skills' = skills
    BY <1>9 DEF FallbackEnds, Indexes
  <2>2. index' \in [Indexes -> [Ids -> Items \cup {None}]]
    BY <1>3, <2>1 DEF Indexes
  <2>3. Over(registered, Booked(wants[c])) \in [Ids -> Items \cup {None}]
    BY DEF Over, Booked, Only, Marks
  <2>. QED  BY <1>2, <2>1, <2>2, <2>3
<1>10. ASSUME NEW c \in Callers, BreaksOff(c) PROVE TypeOK'
  <2>1. stage[c] \in Indexes
    BY <1>10 DEF BreaksOff
  <2>2. index' \in [Indexes -> [Ids -> Items \cup {None}]]
    BY <1>3, <1>10, <2>1 DEF BreaksOff
  <2>. QED  BY <1>2, <1>10, <2>2 DEF BreaksOff
<1>11. CASE UNCHANGED vars
  BY <1>11 DEF vars, calls
<1>. QED
  BY <1>4, <1>5, <1>6, <1>7, <1>8, <1>9, <1>10, <1>11 DEF Next

-----------------------------------------------------------------------------
(* The invariant, by kind of step *)

\* A call that begins keeps its books: deregister() forgets what it removes, a
\* register() is refused when it clashes, load() records the skill.
BooksAtStart(w) == \A id \in Ids :
    /\ registered'[id] = IF w[id] = None THEN None ELSE registered[id]
    /\ w[id] # Untouched => registered'[id] \in {None, w[id]}
    /\ skills'[id] = IF w[id] \in Skills THEN w[id] ELSE skills[id]

LEMMA BeginsKeeps ==
    ASSUME Inv, NEW c \in Callers, NEW w \in [Ids -> Marks], Begins(c, w), BooksAtStart(w)
    PROVE  (Quarrels /\ Books /\ PrimaryHas /\ Settled /\ Kept /\ HandlersKnown)'
<1>. USE RegistryAssumption
<1>1. \A id \in Ids : BeginsAt(c, w, id)
  BY BeginsPointwise DEF Inv
<1>2. \A id \in Ids : wants[c][id] = Untouched /\ id \notin alone[c]
  BY DEF Inv, Quarrels, Begins
<1>3. Quarrels'
  BY <1>1, <1>2 DEF Inv, Quarrels, BeginsAt, Differ
<1>4. Books'
  BY <1>1, <1>2 DEF Inv, Books, Quarrels, BeginsAt, BooksAtStart, Differ, Items
<1>5. PrimaryHas'
  BY <1>1 DEF Inv, PrimaryHas, BeginsAt, Indexes
<1>6. Settled'
  BY <1>1, <1>2 DEF Inv, Settled, Quarrels, Books, BeginsAt, BooksAtStart, Differ
<1>7. Kept'
  BY <1>1 DEF Inv, Kept, BeginsAt, BooksAtStart
<1>8. HandlersKnown'
  BY <1>1, <1>2 DEF Inv, HandlersKnown, Settled, Quarrels, Books, BeginsAt, BooksAtStart, Differ, Items
<1>. QED
  BY <1>3, <1>4, <1>5, <1>6, <1>7, <1>8

\* One backend has answered a call that goes on to the other.
LEMMA PrimaryKeeps ==
    ASSUME Inv, NEW c \in Callers, PrimaryEnds(c)
    PROVE  (Quarrels /\ Books /\ PrimaryHas /\ Settled /\ Kept /\ HandlersKnown)'
<1>. USE RegistryAssumption
<1>1. PICK done \in SUBSET Of(wants[c]), ok \in BOOLEAN :
        /\ ok => done = Of(wants[c])
        /\ Applies("primary", c, done)
        /\ took' = [took EXCEPT ![c] = IF ok THEN {"primary"} ELSE {}]
  BY DEF PrimaryEnds
<1>2. \A id \in Ids : AppliesAt("primary", c, done, id)
  BY <1>1, AppliesPointwise DEF Inv, Indexes
<1>3. /\ \A d \in Callers : d # c => took'[d] = took[d] /\ stage'[d] = stage[d]
      /\ "primary" \in took'[c] => \A id \in Ids : wants[c][id] # Untouched => id \in done
      /\ stage[c] = "primary" /\ stage'[c] = "fallback"
      /\ UNCHANGED <<registered, routes, skills, wants, alone, begun, crossed, missed>>
  BY <1>1 DEF PrimaryEnds, Inv, TypeOK, Of
<1>4. Quarrels' /\ Books'
  BY <1>3 DEF Inv, Quarrels, Books
<1>5. PrimaryHas'
  BY <1>2, <1>3 DEF Inv, PrimaryHas, Quarrels, AppliesAt, Indexes
<1>6. Settled' /\ Kept'
  BY <1>2, <1>3 DEF Inv, Settled, Kept, Quarrels, Books, AppliesAt, Indexes
<1>7. HandlersKnown'
  BY <1>2, <1>3 DEF Inv, HandlersKnown, Quarrels, Books, AppliesAt, Items, Indexes
<1>. QED
  BY <1>4, <1>5, <1>6, <1>7

\* The books of a call that ends with these backends, in the backend b.
BooksAtEnd(b, c, done, backends) ==
    /\ \A id \in Ids : registered'[id] =
        IF backends # {} /\ wants[c][id] \notin {None, Untouched} THEN wants[c][id]
        ELSE registered[id]
    /\ backends \subseteq Indexes
    /\ "primary" \in backends => stage[c] = "fallback" /\ "primary" \in took[c]
    /\ "fallback" \in backends =>
         b = "fallback" /\ \A id \in Ids : wants[c][id] # Untouched => id \in done
    /\ \A id \in Ids : id \in routes \/ (backends # {} /\ wants[c][id] \in Tools) => id \in routes'
    /\ skills' = skills

LEMMA EndsKeeps ==
    ASSUME Inv, NEW c \in Callers, NEW b \in Indexes, NEW done \in SUBSET Of(wants[c]),
           NEW backends, Applies(b, c, done), Ends(c, backends), BooksAtEnd(b, c, done, backends)
    PROVE  (Quarrels /\ Books /\ PrimaryHas /\ Settled /\ Kept /\ HandlersKnown)'
<1>. USE RegistryAssumption
<1>1. \A id \in Ids : EndsAt(c, backends, id) /\ AppliesAt(b, c, done, id)
  BY EndsPointwise, AppliesPointwise DEF Inv
<1>3. Quarrels'
  BY <1>1 DEF Inv, Quarrels, EndsAt
<1>4. Books'
  BY <1>1 DEF Inv, Quarrels, Books, EndsAt, BooksAtEnd
<1>5. PrimaryHas'
  BY <1>1 DEF Inv, PrimaryHas, Quarrels, EndsAt, AppliesAt, Indexes
<1>6. Settled'
  BY <1>1 DEF Inv, Settled, PrimaryHas, Quarrels, Books, EndsAt, AppliesAt, BooksAtEnd, Indexes
<1>7. Kept'
  <2>. SUFFICES ASSUME NEW id \in Ids, id \notin crossed', registered'[id] # None
                PROVE  \E a \in Indexes : index'[a][id] = registered'[id]
    BY DEF Kept
  <2>. EndsAt(c, backends, id) /\ AppliesAt(b, c, done, id)
    BY <1>1
  <2>1. CASE wants[c][id] = Untouched
    BY <2>1 DEF Inv, Kept, Quarrels, EndsAt, AppliesAt, BooksAtEnd
  <2>2. CASE wants[c][id] # Untouched
    <3>1. id \in alone[c] /\ registered[id] \in {None, wants[c][id]}
      BY <2>2 DEF Inv, Books, EndsAt
    <3>2. CASE backends = {} \/ wants[c][id] = None
      BY <2>2, <3>1, <3>2 DEF Inv, Kept, EndsAt, AppliesAt, BooksAtEnd
    <3>3. CASE backends # {} /\ wants[c][id] # None
      <4>1. "primary" \in backends \/ "fallback" \in backends
        BY <3>3 DEF BooksAtEnd, Indexes
      <4>2. CASE "primary" \in backends
        BY <2>2, <3>1, <3>3, <4>2 DEF Inv, PrimaryHas, AppliesAt, BooksAtEnd, Indexes
      <4>3. CASE "fallback" \in backends
        BY <2>2, <3>3, <4>3 DEF AppliesAt, BooksAtEnd, Indexes
      <4>. QED  BY <4>1, <4>2, <4>3
    <3>. QED  BY <3>2, <3>3
  <2>. QED  BY <2>1, <2>2
<1>8. HandlersKnown'
  BY <1>1 DEF Inv, HandlersKnown, PrimaryHas, Quarrels, Books, EndsAt, AppliesAt, BooksAtEnd, Items, Indexes
<1>. QED
  BY <1>3, <1>4, <1>5, <1>6, <1>7, <1>8

\* load() refused: the skill is recorded, and the id has crossed.
LEMMA RefusedKeeps ==
    ASSUME Inv, NEW c \in Callers, NEW id \in Ids, NEW skill \in Skills, LoadRefused(c, id, skill)
    PROVE  (Quarrels /\ Books /\ PrimaryHas /\ Settled /\ Kept /\ HandlersKnown)'
<1>. USE RegistryAssumption
<1>1. /\ \A i \in Ids : i # id => skills'[i] = skills[i]
      /\ skills'[id] = skill
      /\ \A d \in Callers, i \in Ids : i \in alone'[d] <=> i # id /\ i \in alone[d]
      /\ \A i \in Ids : i \in crossed' <=> i = id \/ i \in crossed
      /\ UNCHANGED <<registered, index, routes, stage, wants, took, missed>>
  BY DEF LoadRefused, Inv, TypeOK
<1>2. Quarrels' /\ Books' /\ PrimaryHas' /\ Settled' /\ Kept' /\ HandlersKnown'
  BY <1>1 DEF Inv, Quarrels, Books, PrimaryHas, Settled, Kept, HandlersKnown
<1>. QED
  BY <1>2

-----------------------------------------------------------------------------
(* The theorems *)

LEMMA InvInitially == Init => Inv
  BY RegistryAssumption DEF Init, Inv, TypeOK, Quarrels, Books, PrimaryHas, Settled, Kept,
     HandlersKnown, Nothing, Marks, Items, Indexes

LEMMA InvKept == Inv /\ [Next]_vars => Inv'
<1>. SUFFICES ASSUME Inv, [Next]_vars
              PROVE  (Quarrels /\ Books /\ PrimaryHas /\ Settled /\ Kept /\ HandlersKnown)'
  BY TypesKept DEF Inv
<1>. USE RegistryAssumption
<1>1. ASSUME NEW c \in Callers, NEW w \in [Ids -> Tools \cup {Untouched}], RegisterTools(c, w)
      PROVE  (Quarrels /\ Books /\ PrimaryHas /\ Settled /\ Kept /\ HandlersKnown)'
  <2>1. w \in [Ids -> Marks] /\ Begins(c, w)
    BY <1>1 DEF Marks, Items, RegisterTools
  <2>2. BooksAtStart(w)
    BY <1>1 DEF RegisterTools, Clashes, Of, BooksAtStart
  <2>. QED  BY <2>1, <2>2, BeginsKeeps
<1>2. ASSUME NEW c \in Callers, NEW id \in Ids, NEW skill \in Skills, LoadSkill(c, id, skill)
      PROVE  (Quarrels /\ Books /\ PrimaryHas /\ Settled /\ Kept /\ HandlersKnown)'
  <2>. DEFINE w == Only([i \in Ids |-> skill], {id})
  <2>1. w \in [Ids -> Marks] /\ \A i \in Ids : w[i] = IF i = id THEN skill ELSE Untouched
    BY DEF Only, Marks, Items
  <2>2. Begins(c, w) /\ ~Clashes(w) /\ skills' = [skills EXCEPT ![id] = skill]
        /\ registered' = registered
    BY <1>2 DEF LoadSkill
  <2>. HIDE DEF w
  <2>3. BooksAtStart(w)
    BY <2>1, <2>2 DEF Clashes, Of, BooksAtStart, Items, Inv, TypeOK
  <2>. QED  BY <2>1, <2>2, <2>3, BeginsKeeps
<1>3. ASSUME NEW c \in Callers, NEW ids \in SUBSET Ids, Deregister(c, ids)
      PROVE  (Quarrels /\ Books /\ PrimaryHas /\ Settled /\ Kept /\ HandlersKnown)'
  <2>. DEFINE w == Only([i \in Ids |-> None], ids)
  <2>1. w \in [Ids -> Marks] /\ \A i \in Ids : w[i] = IF i \in ids THEN None ELSE Untouched
    BY DEF Only, Marks
  <2>2. Begins(c, w) /\ registered' = Over(registered, w) /\ skills' = skills
    BY <1>3 DEF Deregister
  <2>. HIDE DEF w
  <2>3. BooksAtStart(w)
    BY <2>1, <2>2 DEF Over, BooksAtStart, Items
  <2>. QED  BY <2>1, <2>2, <2>3, BeginsKeeps
<1>4. ASSUME NEW c \in Callers, FallbackEnds(c)
      PROVE  (Quarrels /\ Books /\ PrimaryHas /\ Settled /\ Kept /\ HandlersKnown)'
  <2>1. PICK done \in SUBSET Of(wants[c]), ok \in BOOLEAN :
          LET backends == took[c] \cup IF ok THEN {"fallback"} ELSE {} IN
          /\ ok => done = Of(wants[c])
          /\ Applies("fallback", c, done)
          /\ registered' = IF backends = {} THEN registered
                             ELSE Over(registered, Booked(wants[c]))
          /\ routes' = routes \cup {id \in Ids : backends # {} /\ wants[c][id] \in Tools}
          /\ UNCHANGED skills /\ Ends(c, backends)
    BY <1>4 DEF FallbackEnds
  <2>. DEFINE backends == took[c] \cup IF ok THEN {"fallback"} ELSE {}
  <2>2. /\ Applies("fallback", c, done) /\ Ends(c, backends)
    BY <2>1
  <2>3. \A id \in Ids : Over(registered, Booked(wants[c]))[id] =
          IF wants[c][id] \notin {None, Untouched} THEN wants[c][id] ELSE registered[id]
    BY DEF Over, Booked, Only
  <2>4. /\ backends \subseteq Indexes
        /\ "primary" \in backends => "primary" \in took[c]
        /\ "fallback" \in backends => \A id \in Ids : wants[c][id] # Untouched => id \in done
    BY <2>1 DEF Inv, TypeOK, Indexes, Of
  <2>5. BooksAtEnd("fallback", c, done, backends)
    BY <1>4, <2>1, <2>3, <2>4 DEF BooksAtEnd, FallbackEnds
  <2>. QED  BY <2>2, <2>5, EndsKeeps DEF Indexes
<1>5. ASSUME NEW c \in Callers, BreaksOff(c)
      PROVE  (Quarrels /\ Books /\ PrimaryHas /\ Settled /\ Kept /\ HandlersKnown)'
  <2>1. PICK done \in SUBSET Of(wants[c]) : Applies(stage[c], c, done)
    BY <1>5 DEF BreaksOff
  <2>2. stage[c] \in Indexes
    BY <1>5 DEF BreaksOff, Inv, TypeOK
  <2>3. BooksAtEnd(stage[c], c, done, {}) /\ Ends(c, {})
    BY <1>5 DEF BooksAtEnd, BreaksOff
  <2>. QED  BY <2>1, <2>2, <2>3, EndsKeeps
<1>6. CASE UNCHANGED vars
  BY <1>6 DEF vars, calls, Inv, Quarrels, Books, PrimaryHas, Settled, Kept, HandlersKnown
<1>. QED
  BY <1>1, <1>2, <1>3, <1>4, <1>5, <1>6, PrimaryKeeps, RefusedKeeps DEF Next

LEMMA InvAlways == Spec => []Inv
  BY InvInitially, InvKept, PTL DEF Spec

\* Whatever the order of the calls, and whatever fails in a backend or breaks
\* off, an id that nothing disturbed is the same in the books and both backends.
THEOREM BooksAgreeWhenQuiet == Spec => []QuietAgrees
<1>1. Inv => QuietAgrees
  BY DEF Inv, Quarrels, Settled, QuietAgrees
<1>. QED
  BY <1>1, InvAlways, PTL

\* A registered item can be found in one of the backends, unless calls crossed.
THEOREM RegisteredIsFindable == Spec => []Findable
<1>1. Inv => Findable
  <2>. SUFFICES ASSUME Inv, NEW id \in Ids \ crossed, registered[id] # None
                PROVE  \E up \in (SUBSET Indexes) \ {{}} : Found(id, up) = registered[id]
    BY DEF Findable
  <2>1. PICK b \in Indexes : index[b][id] = registered[id]
    BY DEF Inv, Kept
  <2>2. {b} \in (SUBSET Indexes) \ {{}} /\ Found(id, {b}) = registered[id]
    BY <2>1 DEF Indexes, Found
  <2>. QED  BY <2>2
<1>. QED
  BY <1>1, InvAlways, PTL

\* What is registered or found can be run by its manager.
THEOREM WhatIsFoundRuns == Spec => []HandlersKnown
  BY InvAlways, PTL DEF Inv
=============================================================================
