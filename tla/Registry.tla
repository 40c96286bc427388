------------------------------ MODULE Registry ------------------------------
(***************************************************************************)
(* The Retriever (retriever/retriever.py) over its two backends, with the  *)
(* managers that register in it and keep by name what its matches stand    *)
(* for: ToolManager and SkillManager.  Tools and skills share the ids.     *)
(*                                                                         *)
(* A call suspends in the backend's add() or remove() and nowhere else.    *)
(* Either backend may be any RetrieverBackend: it may raise with part of a *)
(* batch applied.  (KeywordBackend, the default fallback, never does.)     *)
(***************************************************************************)
EXTENDS Naturals

CONSTANTS
    Callers,           \* tasks
    Ids,               \* of tools and skills
    Tools, Skills,     \* what an id may stand for: kind, name and description
    None, Untouched,   \* an id that is absent; an id that a call leaves alone
    MaxCalls           \* bound on the calls

ASSUME RegistryAssumption ==
    /\ Tools \cap Skills = {}
    /\ None \notin Tools \cup Skills /\ Untouched \notin Tools \cup Skills \cup {None}
    /\ MaxCalls \in Nat

Items == Tools \cup Skills
Indexes == {"primary", "fallback"}

VARIABLES
    registered,  \* Retriever._registered
    index,       \* what each backend has
    routes,      \* the keys of ToolManager._tools_by_name
    skills,      \* SkillManager._skills
    stage,       \* the backend each call waits for, or "idle"
    wants,       \* what it wants each id to stand for
    took,        \* the backends that took it
    begun,
    alone,       \* history: the ids no other call wanted otherwise meanwhile
    crossed,     \* history: ids whose last calls wanted different things
    missed       \* history: ids whose last call failed in a backend or was cancelled

calls  == <<stage, wants, took, alone>>
vars == <<registered, index, routes, skills, calls, begun, crossed, missed>>

Nothing == [id \in Ids |-> Untouched]
Of(w) == {id \in Ids : w[id] # Untouched}
Over(old, w) == [id \in Ids |-> IF w[id] = Untouched THEN old[id] ELSE w[id]]
Only(w, done) == [id \in Ids |-> IF id \in done THEN w[id] ELSE Untouched]
Booked(w) == Only(w, {id \in Ids : w[id] # None})
Conflict(w, v) == {id \in Of(w) \cap Of(v) : w[id] # v[id]}

Init ==
    /\ registered = [id \in Ids |-> None]
    /\ index = [b \in Indexes |-> [id \in Ids |-> None]]
    /\ routes = {} /\ skills = [id \in Ids |-> None]
    /\ stage = [c \in Callers |-> "idle"] /\ wants = [c \in Callers |-> Nothing]
    /\ took = [c \in Callers |-> {}] /\ alone = [c \in Callers |-> {}]
    /\ begun = 0 /\ crossed = {} /\ missed = {}

\* The call has come to the add() or remove() of the primary backend.
Begins(c, w) ==
    /\ stage[c] = "idle" /\ begun < MaxCalls /\ begun' = begun + 1
    /\ stage' = [stage EXCEPT ![c] = "primary"]
    /\ wants' = [wants EXCEPT ![c] = w]
    /\ LET against == UNION {Conflict(w, wants[d]) : d \in Callers}
       IN  /\ alone' = [d \in Callers |-> IF d = c THEN Of(w) \ against
                                          ELSE alone[d] \ Conflict(w, wants[d])]
           /\ crossed' = crossed \cup against
    /\ UNCHANGED <<index, routes, took, missed>>

\* The call has ended; undisturbed, it settles what its ids stand for.
Ends(c, backends) ==
    LET ids == Of(wants[c]) IN
    /\ stage' = [stage EXCEPT ![c] = "idle"]
    /\ wants' = [wants EXCEPT ![c] = Nothing]
    /\ took' = [took EXCEPT ![c] = {}]
    /\ alone' = [alone EXCEPT ![c] = {}]
    /\ missed' = IF backends = Indexes THEN missed \ alone[c] ELSE missed \cup ids
    /\ crossed' = IF backends = {} THEN crossed \cup (ids \ alone[c])
                  ELSE (crossed \ alone[c]) \cup (ids \ alone[c])
    /\ UNCHANGED begun

\* DuplicateIndexableError: the item is not the one that is registered.
Clashes(w) == \E id \in Of(w) : registered[id] \notin {None, w[id]}

-----------------------------------------------------------------------------
(* Mutants *)

\* LoadSkill that records the skill when it is registered, as tools are.
RecordsLater(c, id, skill) ==
    /\ ~Clashes(Only([i \in Ids |-> skill], {id}))
    /\ Begins(c, Only([i \in Ids |-> skill], {id}))
    /\ UNCHANGED <<registered, skills>>

\* FallbackEnds that keeps its books although neither backend took the items.
KeepsBooksAnyway(c) ==
    /\ stage[c] = "fallback"
    /\ \E done \in SUBSET Of(wants[c]), ok \in BOOLEAN :
        LET backends == took[c] \cup IF ok THEN {"fallback"} ELSE {} IN
        /\ ok => done = Of(wants[c])
        /\ index' = [index EXCEPT !["fallback"] = Over(@, Only(wants[c], done))]
        /\ registered' = Over(registered, Booked(wants[c]))
        /\ routes' = routes \cup {id \in Ids : backends # {} /\ wants[c][id] \in Tools}
        /\ UNCHANGED skills /\ Ends(c, backends)

\* FallbackEnds that has nothing to do when the primary took the items.
WritesFallbackOnFailureOnly(c) ==
    /\ stage[c] = "fallback" /\ took[c] = {"primary"}
    /\ registered' = Over(registered, Booked(wants[c]))
    /\ routes' = routes \cup {id \in Ids : wants[c][id] \in Tools}
    /\ UNCHANGED <<index, skills>> /\ Ends(c, Indexes)

-----------------------------------------------------------------------------
(* The calls *)

\* ToolManager.register() of a namespace; a batch that clashes changes nothing.
RegisterTools(c, w) ==
    /\ Of(w) # {} /\ ~Clashes(w) /\ Begins(c, w)
    /\ UNCHANGED <<registered, skills>>

\* SkillManager.load() of a file that parses
LoadSkill(c, id, skill) ==
    LET w == Only([i \in Ids |-> skill], {id}) IN
    /\ ~Clashes(w) /\ Begins(c, w)
    /\ skills' = [skills EXCEPT ![id] = skill]
    /\ UNCHANGED registered

\* The skill has been recorded when the duplicate is refused.
LoadRefused(c, id, skill) ==
    /\ stage[c] = "idle" /\ begun < MaxCalls /\ begun' = begun + 1
    /\ Clashes(Only([i \in Ids |-> skill], {id}))
    /\ skills' = [skills EXCEPT ![id] = skill]
    /\ crossed' = crossed \cup {id} /\ alone' = [d \in Callers |-> alone[d] \ {id}]
    /\ UNCHANGED <<registered, index, routes, stage, wants, took, missed>>

Deregister(c, ids) ==
    LET w == Only([id \in Ids |-> None], ids) IN
    /\ Begins(c, w)
    /\ registered' = Over(registered, w)
    /\ UNCHANGED skills

-----------------------------------------------------------------------------
(* The backends answer *)

Applies(b, c, done) == index' = [index EXCEPT ![b] = Over(@, Only(wants[c], done))]

PrimaryEnds(c) ==
    /\ stage[c] = "primary" /\ stage' = [stage EXCEPT ![c] = "fallback"]
    /\ \E done \in SUBSET Of(wants[c]), ok \in BOOLEAN :
        /\ ok => done = Of(wants[c])
        /\ Applies("primary", c, done)
        /\ took' = [took EXCEPT ![c] = IF ok THEN {"primary"} ELSE {}]
    /\ UNCHANGED <<registered, routes, skills, wants, alone, begun, crossed, missed>>

\* The bookkeeping of the Retriever, then ToolManager's; of a register() that
\* neither backend took, none: it raises.  deregister() kept its books before.
FallbackEnds(c) ==
    /\ stage[c] = "fallback"
    /\ \E done \in SUBSET Of(wants[c]), ok \in BOOLEAN :
        LET backends == took[c] \cup IF ok THEN {"fallback"} ELSE {} IN
        /\ ok => done = Of(wants[c])
        /\ Applies("fallback", c, done)
        /\ registered' = IF backends = {} THEN registered
                           ELSE Over(registered, Booked(wants[c]))
        /\ routes' = routes \cup {id \in Ids : backends # {} /\ wants[c][id] \in Tools}
        /\ UNCHANGED skills /\ Ends(c, backends)

\* Cancelled while it waits, which no "except Exception" catches
BreaksOff(c) ==
    /\ stage[c] # "idle"
    /\ \E done \in SUBSET Of(wants[c]) : Applies(stage[c], c, done)
    /\ UNCHANGED <<registered, routes, skills>> /\ Ends(c, {})

Next == \E c \in Callers :
    \/ \E w \in [Ids -> Tools \cup {Untouched}] : RegisterTools(c, w)
    \/ \E id \in Ids, skill \in Skills : LoadSkill(c, id, skill) \/ LoadRefused(c, id, skill)
    \/ \E ids \in (SUBSET Ids) \ {{}} : Deregister(c, ids)
    \/ PrimaryEnds(c) \/ FallbackEnds(c) \/ BreaksOff(c)

Spec == Init /\ [][Next]_vars

-----------------------------------------------------------------------------
(* Properties *)

\* What search() has for an id when these backends answer in time; it asks the
\* fallback only if the primary does not.
Found(id, up) ==
    IF "primary" \in up THEN index["primary"][id] ELSE index["fallback"][id]

\* When no call is under way on an id, and the last ones did not want different
\* things at once, fail in a backend or break off, the Retriever's books and
\* both backends agree on it, whatever other ids went through meanwhile.
QuietAgrees ==
    \A id \in Ids \ (crossed \cup missed) :
        (\A c \in Callers : wants[c][id] = Untouched)
            => \A b \in Indexes : index[b][id] = registered[id]

\* Whatever fails in a backend or is cancelled, an item that is registered is in
\* one of them as it was registered, so that search() has it while that one
\* answers, unless calls crossed.
Findable ==
    \A id \in Ids \ crossed :
        registered[id] # None
            => \E up \in (SUBSET Indexes) \ {{}} : Found(id, up) = registered[id]

\* What search() returns can be run: a skill it finds is known to the manager,
\* and is the very one it would run unless calls crossed, failed, or a load()
\* was refused; a tool that is registered has a route.
HandlersKnown ==
    \A id \in Ids :
        /\ registered[id] \in Tools => id \in routes
        /\ \A b \in Indexes : index[b][id] \in Skills =>
            /\ skills[id] # None
            /\ id \notin crossed \cup missed => skills[id] = index[b][id]

=============================================================================
