------------------------- MODULE WriteThroughProofs -------------------------
(***************************************************************************)
(* WriteThrough: if the blob store completes set() calls in the order in   *)
(* which they are made, what was acknowledged is saved - for any number of *)
(* callers and keys, whatever fails, is cancelled or restarts.             *)
(*                                                                         *)
(* Durable is not inductive: a snapshot under way may still replace the    *)
(* blob.  Chain says of the calls under way that each of two is ahead of   *)
(* the other and that they take effect in that order; Carried, that every  *)
(* snapshot made after a key's last change carries it.                     *)
(***************************************************************************)
EXTENDS WriteThrough, TLAPS

\* The order of the calls under way.
Chain ==
    /\ \A c \in Callers : ahead[c] \subseteq InFlight /\ c \notin ahead[c]
    /\ \A c \in Callers : stage[c] = "idle" => ahead[c] = {}
    /\ \A c, d \in InFlight : c # d => c \in ahead[d] \/ d \in ahead[c]
    /\ \A c \in InFlight : stage[c] = "saved" => \A d \in ahead[c] : stage[d] \notin Unsaved

\* The change of a key that its caller has been told of is in the blob, and in
\* all that may yet replace it.
Acknowledged ==
    \A k \in Keys : owed[k] = NoValue =>
      /\ blob[k] = live[k]
      /\ \A c \in InFlight : stage[c] \in Unsaved => snap[c][k] = live[k]

\* The change of a key that a caller c waits for is in its snapshot and those
\* of later calls, and in the blob once it took effect.
Carried ==
    \A k \in Keys, c \in Callers : owed[k] = c =>
      /\ stage[c] \in {"saving", "saved"}
      /\ stage[c] = "saved" => blob[k] = live[k]
      /\ \A d \in InFlight :
           stage[d] \in Unsaved /\ (d = c \/ c \in ahead[d]) => snap[d][k] = live[k]

IInv == TypeOK /\ Chain /\ Acknowledged /\ Carried

-----------------------------------------------------------------------------
(* Types, which hold in whatever order set() calls complete. *)

\* Each step keeps the types.
LEMMA TypeStep == StoreAssumption /\ TypeOK /\ [Next]_vars => TypeOK'
<1> SUFFICES ASSUME StoreAssumption, TypeOK, [Next]_vars PROVE TypeOK'
  OBVIOUS
<1> USE DEF StoreAssumption
<1>1. ASSUME NEW c \in Callers, NEW new \in Snapshots, Change(c, new) PROVE TypeOK'
  BY <1>1 DEF TypeOK, Change, Snapshots, InFlight
<1>2. ASSUME NEW c \in Callers, TakesEffect(c) PROVE TypeOK'
  <2>1. CASE stage[c] = "saving"
    <3>1. /\ blob' = snap[c] /\ stage' = [stage EXCEPT ![c] = "saved"]
          /\ UNCHANGED <<live, snap, ahead, owed, faults>>
      BY <1>2, <2>1 DEF TakesEffect
    <3> QED BY <2>1, <3>1 DEF TypeOK, InFlight, Snapshots
  <2>2. CASE stage[c] = "abandoned"
    <3>1. /\ blob' = snap[c] /\ stage' = [stage EXCEPT ![c] = "idle"] /\ Ends(c)
          /\ UNCHANGED <<live, owed, faults>>
      BY <1>2, <2>2 DEF TakesEffect
    <3> QED BY <3>1 DEF TypeOK, Ends, InFlight, Snapshots, Empty
  <2> QED BY <1>2, <2>1, <2>2 DEF TakesEffect, Unsaved
<1>3. ASSUME NEW c \in Callers, Returns(c) PROVE TypeOK'
  BY <1>3 DEF TypeOK, Returns, Ends, Settles, InFlight, Snapshots, Empty
<1>4. ASSUME NEW c \in Callers, Raises(c) PROVE TypeOK'
  BY <1>4 DEF TypeOK, Raises, Fails, Ends, Settles, InFlight, Snapshots, Empty
<1>5. ASSUME NEW c \in Callers, IsCancelled(c) PROVE TypeOK'
  BY <1>5 DEF TypeOK, IsCancelled, Fails, Settles, InFlight, Snapshots
<1>6. CASE Restart
  BY <1>6 DEF TypeOK, Restart, Fails, InFlight, Snapshots, Empty
<1>7. CASE UNCHANGED vars
  BY <1>7 DEF TypeOK, vars, InFlight, Snapshots
<1> QED BY <1>1, <1>2, <1>3, <1>4, <1>5, <1>6, <1>7 DEF Next

\* Theorem: every variable keeps its type, in whatever order the blob store
\* completes its calls.
THEOREM StoreTypes == StoreAssumption => (Spec => []TypeOK)
<1> SUFFICES ASSUME StoreAssumption PROVE Spec => []TypeOK
  OBVIOUS
<1>1. Init => TypeOK
  BY DEF StoreAssumption, Init, TypeOK, Snapshots, Empty, InFlight
<1> QED BY <1>1, TypeStep, PTL DEF Spec

-----------------------------------------------------------------------------
(* The order of the calls. *)

\* What TakesEffect(c) does, by cases.
LEMMA Effect ==
    ASSUME NEW c \in Callers, TypeOK, InOrder, TakesEffect(c)
    PROVE  /\ stage[c] \in Unsaved /\ \A d \in ahead[c] : stage[d] \notin Unsaved
           /\ blob' = snap[c] /\ live' = live /\ owed' = owed
           /\ \/ stage[c] = "saving" /\ stage' = [stage EXCEPT ![c] = "saved"]
                 /\ snap' = snap /\ ahead' = ahead
              \/ stage[c] = "abandoned" /\ stage' = [stage EXCEPT ![c] = "idle"] /\ Ends(c)
<1>1. CASE stage[c] = "saving"
  BY <1>1 DEF TakesEffect
<1>2. CASE stage[c] = "abandoned"
  BY <1>2 DEF TakesEffect
<1> QED BY <1>1, <1>2 DEF TakesEffect, Unsaved

\* A call that ends leaves the others in their order.
LEMMA ChainEnds ==
    ASSUME NEW c \in Callers, TypeOK, Chain, Ends(c), stage' = [stage EXCEPT ![c] = "idle"]
    PROVE  Chain'
<1>1. /\ stage' \in [Callers -> {"idle", "saving", "saved", "abandoned"}]
      /\ stage'[c] = "idle" /\ \A d \in Callers \ {c} : stage'[d] = stage[d]
      /\ ahead'[c] = {} /\ \A d \in Callers \ {c} : ahead'[d] = ahead[d] \ {c}
  BY DEF TypeOK, Ends
<1>2. InFlight' = InFlight \ {c}
  BY <1>1 DEF InFlight
<1>3. \A d \in Callers : ahead[d] \subseteq Callers
  BY DEF Chain, InFlight
<1>4. (\A d \in Callers : ahead[d] \subseteq InFlight /\ d \notin ahead[d])'
  BY <1>1, <1>2 DEF Chain
<1>5. (\A d \in Callers : stage[d] = "idle" => ahead[d] = {})'
  BY <1>1 DEF Chain
<1>6. (\A d, e \in InFlight : d # e => d \in ahead[e] \/ e \in ahead[d])'
  BY <1>1, <1>2 DEF Chain, InFlight
<1>7. (\A d \in InFlight : stage[d] = "saved" => \A e \in ahead[d] : stage[e] \notin Unsaved)'
  BY <1>1, <1>2, <1>3 DEF Chain, InFlight
<1> QED BY <1>4, <1>5, <1>6, <1>7 DEF Chain

LEMMA ChainStep == TypeOK /\ Chain /\ InOrder /\ [Next]_vars => Chain'
<1> SUFFICES ASSUME TypeOK, Chain, InOrder, [Next]_vars PROVE Chain'
  OBVIOUS
<1>1. ASSUME NEW c \in Callers, NEW new \in Snapshots, Change(c, new) PROVE Chain'
  <2>1. /\ stage[c] = "idle" /\ stage' = [stage EXCEPT ![c] = "saving"]
        /\ ahead' = [ahead EXCEPT ![c] = InFlight]
        /\ stage \in [Callers -> {"idle", "saving", "saved", "abandoned"}]
        /\ ahead \in [Callers -> SUBSET InFlight]
    BY <1>1 DEF Change, TypeOK
  <2>2. InFlight' = InFlight \cup {c} /\ c \notin InFlight
    BY <2>1 DEF InFlight
  <2>3. /\ stage'[c] = "saving" /\ \A d \in Callers \ {c} : stage'[d] = stage[d]
        /\ ahead'[c] = InFlight /\ \A d \in Callers \ {c} : ahead'[d] = ahead[d]
    BY <2>1
  <2>4. \A d \in Callers : c \notin ahead[d]
    BY <2>2 DEF Chain
  <2>5. (\A d \in Callers : ahead[d] \subseteq InFlight /\ d \notin ahead[d])'
    BY <2>2, <2>3 DEF Chain
  <2>6. (\A d \in Callers : stage[d] = "idle" => ahead[d] = {})'
    BY <2>3 DEF Chain
  <2>7. (\A d, e \in InFlight : d # e => d \in ahead[e] \/ e \in ahead[d])'
    BY <2>2, <2>3 DEF Chain, InFlight
  <2>8. (\A d \in InFlight : stage[d] = "saved" => \A e \in ahead[d] : stage[e] \notin Unsaved)'
    BY <2>2, <2>3, <2>4 DEF Chain, InFlight
  <2> QED BY <2>5, <2>6, <2>7, <2>8 DEF Chain
<1>2. ASSUME NEW c \in Callers, TakesEffect(c) PROVE Chain'
  <2>1. CASE stage' = [stage EXCEPT ![c] = "saved"] /\ ahead' = ahead
    <3>1. /\ stage'[c] = "saved" /\ stage[c] \in Unsaved
          /\ \A d \in ahead[c] : stage[d] \notin Unsaved
          /\ \A d \in Callers \ {c} : stage'[d] = stage[d]
      BY <1>2, <2>1, Effect DEF TypeOK
    <3>2. InFlight' = InFlight /\ c \in InFlight
      BY <2>1, <3>1 DEF InFlight, Unsaved
    <3> QED BY <2>1, <3>1, <3>2 DEF Chain, Unsaved
  <2> QED BY <1>2, <2>1, Effect, ChainEnds
<1>3. ASSUME NEW c \in Callers, Returns(c) PROVE Chain'
  BY <1>3, ChainEnds DEF Returns
<1>4. ASSUME NEW c \in Callers, Raises(c) PROVE Chain'
  BY <1>4, ChainEnds DEF Raises
<1>5. ASSUME NEW c \in Callers, IsCancelled(c) PROVE Chain'
  <2>1. /\ stage[c] = "saving" /\ stage'[c] = "abandoned" /\ ahead' = ahead
        /\ \A d \in Callers \ {c} : stage'[d] = stage[d]
    BY <1>5 DEF IsCancelled, TypeOK
  <2>2. InFlight' = InFlight /\ c \in InFlight /\ \A d \in Callers : ahead[d] \subseteq Callers
    BY <2>1 DEF InFlight, Chain
  <2>3. (\A d \in InFlight : stage[d] = "saved" => \A e \in ahead[d] : stage[e] \notin Unsaved)'
    <3> SUFFICES ASSUME NEW d \in InFlight, stage'[d] = "saved", NEW e \in ahead[d]
                 PROVE  stage'[e] \notin Unsaved
      BY <2>1, <2>2 DEF Unsaved
    <3>1. d # c /\ stage[d] = "saved" /\ d \in Callers
      BY <2>1 DEF InFlight
    <3>2. stage[e] \notin Unsaved /\ e \in Callers
      BY <2>2, <3>1 DEF Chain
    <3>3. e # c
      BY <2>1, <3>2 DEF Unsaved
    <3> QED BY <2>1, <3>2, <3>3
  <2> QED BY <2>1, <2>2, <2>3 DEF Chain
<1>6. CASE Restart
  BY <1>6 DEF Restart, Chain, InFlight
<1>7. CASE UNCHANGED vars
  BY <1>7 DEF vars, Chain, InFlight, Unsaved
<1> QED BY <1>1, <1>2, <1>3, <1>4, <1>5, <1>6, <1>7 DEF Next

-----------------------------------------------------------------------------
(* What is acknowledged is saved. *)

\* A call that ends is acknowledged or given up; the others keep their
\* snapshots and places.
LEMMA OthersStay ==
    ASSUME NEW c \in Callers, TypeOK, Ends(c), stage' = [stage EXCEPT ![c] = "idle"]
    PROVE  /\ InFlight' = InFlight \ {c}
           /\ \A d \in InFlight' : /\ stage'[d] = stage[d] /\ snap'[d] = snap[d]
                                   /\ ahead'[d] = ahead[d] \ {c}
  BY DEF TypeOK, Ends, InFlight

LEMMA AcknowledgedStep == StoreAssumption /\ IInv /\ InOrder /\ [Next]_vars => Acknowledged'
<1> SUFFICES ASSUME StoreAssumption, IInv, InOrder, [Next]_vars, NEW k \in Keys, owed'[k] = NoValue
             PROVE  /\ blob'[k] = live'[k]
                    /\ \A c \in InFlight' : stage'[c] \in Unsaved' => snap'[c][k] = live'[k]
  BY DEF Acknowledged
<1> USE DEF StoreAssumption
<1>1. ASSUME NEW c \in Callers, NEW new \in Snapshots, Change(c, new)
      PROVE  /\ blob'[k] = live'[k]
             /\ \A d \in InFlight' : stage'[d] \in Unsaved' => snap'[d][k] = live'[k]
  <2>1. live'[k] = live[k] /\ owed[k] = NoValue
    BY <1>1 DEF Change
  <2>2. /\ snap'[c] = live' /\ \A d \in Callers \ {c} : stage'[d] = stage[d] /\ snap'[d] = snap[d]
        /\ blob' = blob
    BY <1>1 DEF Change, IInv, TypeOK
  <2> QED BY <2>1, <2>2 DEF IInv, Acknowledged, InFlight, Unsaved
<1>2. ASSUME NEW c \in Callers, TakesEffect(c)
      PROVE  /\ blob'[k] = live'[k]
             /\ \A d \in InFlight' : stage'[d] \in Unsaved' => snap'[d][k] = live'[k]
  <2>1. /\ stage[c] \in Unsaved /\ c \in InFlight /\ blob' = snap[c]
        /\ live' = live /\ owed' = owed
    BY <1>2, Effect DEF IInv, InFlight, Unsaved
  <2>2. \A d \in InFlight' : stage'[d] \in Unsaved
                              => d \in InFlight /\ stage[d] \in Unsaved /\ snap'[d] = snap[d]
    <3>1. CASE stage' = [stage EXCEPT ![c] = "saved"] /\ snap' = snap
      BY <3>1, <2>1 DEF IInv, TypeOK, InFlight, Unsaved
    <3>2. CASE stage' = [stage EXCEPT ![c] = "idle"] /\ Ends(c)
      BY <3>2, OthersStay DEF IInv
    <3> QED BY <1>2, <3>1, <3>2, Effect DEF IInv
  <2> QED BY <2>1, <2>2 DEF IInv, Acknowledged, Unsaved
<1>3. ASSUME NEW c \in Callers, Returns(c)
      PROVE  /\ blob'[k] = live'[k]
             /\ \A d \in InFlight' : stage'[d] \in Unsaved' => snap'[d][k] = live'[k]
  <2>1. /\ stage[c] = "saved" /\ c \in InFlight /\ ahead[c] = {}
        /\ stage' = [stage EXCEPT ![c] = "idle"] /\ Ends(c)
        /\ blob' = blob /\ live' = live /\ (owed[k] = NoValue \/ owed[k] = c)
    BY <1>3 DEF Returns, Settles, IInv, TypeOK, InFlight
  <2>2. /\ InFlight' = InFlight \ {c}
        /\ \A d \in InFlight' : stage'[d] = stage[d] /\ snap'[d] = snap[d]
    BY <2>1, OthersStay DEF IInv
  <2>3. \A d \in InFlight \ {c} : c \in ahead[d]
    BY <2>1 DEF IInv, Chain
  <2>4. CASE owed[k] = NoValue
    BY <2>1, <2>2, <2>4 DEF IInv, Acknowledged, Unsaved
  <2>5. CASE owed[k] = c
    BY <2>1, <2>2, <2>3, <2>5 DEF IInv, Carried, Unsaved
  <2> QED BY <2>1, <2>4, <2>5
<1>4. ASSUME NEW c \in Callers, Raises(c)
      PROVE  /\ blob'[k] = live'[k]
             /\ \A d \in InFlight' : stage'[d] \in Unsaved' => snap'[d][k] = live'[k]
  <2>1. /\ stage' = [stage EXCEPT ![c] = "idle"] /\ Ends(c)
        /\ blob' = blob /\ live' = live /\ owed[k] = NoValue
    BY <1>4 DEF Raises, Settles, IInv, TypeOK
  <2>2. /\ InFlight' = InFlight \ {c}
        /\ \A d \in InFlight' : stage'[d] = stage[d] /\ snap'[d] = snap[d]
    BY <2>1, OthersStay DEF IInv
  <2> QED BY <2>1, <2>2 DEF IInv, Acknowledged, Unsaved
<1>5. ASSUME NEW c \in Callers, IsCancelled(c)
      PROVE  /\ blob'[k] = live'[k]
             /\ \A d \in InFlight' : stage'[d] \in Unsaved' => snap'[d][k] = live'[k]
  <2>1. /\ stage[c] = "saving" /\ \A d \in Callers \ {c} : stage'[d] = stage[d]
        /\ snap' = snap /\ blob' = blob /\ live' = live /\ owed[k] = NoValue
    BY <1>5 DEF IsCancelled, Settles, IInv, TypeOK
  <2> QED BY <2>1 DEF IInv, Acknowledged, InFlight, Unsaved
<1>6. CASE Restart
  BY <1>6 DEF Restart, InFlight
<1>7. CASE UNCHANGED vars
  BY <1>7 DEF vars, IInv, Acknowledged, InFlight, Unsaved
<1> QED BY <1>1, <1>2, <1>3, <1>4, <1>5, <1>6, <1>7 DEF Next

\* What Carried says of one key and one caller.
Carries(k, c) ==
    /\ stage[c] \in {"saving", "saved"}
    /\ stage[c] = "saved" => blob[k] = live[k]
    /\ \A d \in InFlight :
         stage[d] \in Unsaved /\ (d = c \/ c \in ahead[d]) => snap[d][k] = live[k]

\* A call that ends takes nothing from what another waits for.
LEMMA CarriedEnds ==
    ASSUME NEW c \in Callers, IInv, Ends(c), stage' = [stage EXCEPT ![c] = "idle"],
           live' = live, blob' = blob, NEW k \in Keys, NEW e \in Callers \ {c}, Carries(k, e)
    PROVE  Carries(k, e)'
<1>1. stage'[e] = stage[e]
  BY DEF IInv, TypeOK
<1> QED BY <1>1, OthersStay DEF IInv, Carries, Unsaved

LEMMA CarriedStep == StoreAssumption /\ IInv /\ InOrder /\ [Next]_vars => Carried'
<1> SUFFICES ASSUME StoreAssumption, IInv, InOrder, [Next]_vars, NEW k \in Keys, NEW e \in Callers, owed'[k] = e
             PROVE  Carries(k, e)'
  BY DEF Carried, Carries
<1> USE DEF StoreAssumption
<1>0. owed[k] = e => Carries(k, e)
  BY DEF IInv, Carried, Carries
<1>1. ASSUME NEW c \in Callers, NEW new \in Snapshots, Change(c, new) PROVE Carries(k, e)'
  <2>1. /\ stage[c] = "idle" /\ stage'[c] = "saving" /\ snap'[c] = live' /\ blob' = blob
        /\ \A d \in Callers \ {c} : stage'[d] = stage[d] /\ snap'[d] = snap[d] /\ ahead'[d] = ahead[d]
    BY <1>1 DEF Change, IInv, TypeOK
  <2>2. \A d \in Callers : c \notin ahead[d]
    BY <2>1 DEF IInv, Chain, InFlight
  <2>3. CASE e = c
    BY <2>1, <2>2, <2>3 DEF Carries, InFlight
  <2>4. CASE e # c
    <3>1. owed[k] = e /\ live'[k] = live[k]
      BY <1>1, <2>4 DEF Change
    <3> QED BY <1>0, <2>1, <2>4, <3>1 DEF Carries, InFlight, Unsaved
  <2> QED BY <2>3, <2>4
<1>2. ASSUME NEW c \in Callers, TakesEffect(c) PROVE Carries(k, e)'
  <2>1. /\ stage[c] \in Unsaved /\ c \in InFlight /\ blob' = snap[c] /\ live' = live
        /\ Carries(k, e) /\ \A d \in ahead[c] : stage[d] \notin Unsaved
    BY <1>0, <1>2, Effect DEF IInv, InFlight, Unsaved
  <2>2. CASE stage[c] = "saving" /\ stage' = [stage EXCEPT ![c] = "saved"] /\ snap' = snap /\ ahead' = ahead
    <3>1. stage'[c] = "saved" /\ \A d \in Callers \ {c} : stage'[d] = stage[d]
      BY <2>2 DEF IInv, TypeOK
    <3>2. stage'[e] = "saved" => blob'[k] = live'[k]
      <4>1. CASE e = c
        BY <2>1, <4>1 DEF Carries
      <4>2. CASE e # c /\ stage[e] = "saved"
        <5>1. e \in ahead[c]
          BY <2>1, <4>2 DEF IInv, Chain, InFlight
        <5> QED BY <2>1, <5>1 DEF Carries
      <4> QED BY <3>1, <4>1, <4>2
    <3> QED BY <2>1, <2>2, <3>1, <3>2 DEF Carries, InFlight, Unsaved
  <2>3. CASE stage[c] = "abandoned" /\ stage' = [stage EXCEPT ![c] = "idle"] /\ Ends(c)
    <3>1. e # c /\ stage'[e] = stage[e]
      BY <2>1, <2>3 DEF Carries, IInv, TypeOK
    <3>2. stage[e] = "saved" => e \in ahead[c]
      BY <2>1, <2>3, <3>1 DEF IInv, Chain, InFlight
    <3>3. stage'[e] = "saved" => blob'[k] = live'[k]
      BY <2>1, <3>1, <3>2 DEF Carries
    <3> QED BY <2>1, <2>3, <3>1, <3>3, OthersStay DEF IInv, Carries, Unsaved
  <2> QED BY <1>2, <2>2, <2>3, Effect DEF IInv
<1>3. ASSUME NEW c \in Callers, Returns(c) PROVE Carries(k, e)'
  <2>1. e # c /\ owed[k] = e
    BY <1>3 DEF Returns, Settles
  <2> QED BY <1>0, <1>3, <2>1, CarriedEnds DEF Returns
<1>4. ASSUME NEW c \in Callers, Raises(c) PROVE Carries(k, e)'
  <2>1. e # c /\ owed[k] = e
    BY <1>4 DEF Raises, Settles
  <2> QED BY <1>0, <1>4, <2>1, CarriedEnds DEF Raises
<1>5. ASSUME NEW c \in Callers, IsCancelled(c) PROVE Carries(k, e)'
  <2>1. e # c /\ owed[k] = e
    BY <1>5 DEF IsCancelled, Settles
  <2>2. /\ stage[c] = "saving" /\ \A d \in Callers \ {c} : stage'[d] = stage[d]
        /\ snap' = snap /\ ahead' = ahead /\ blob' = blob /\ live' = live
    BY <1>5 DEF IsCancelled, IInv, TypeOK
  <2> QED BY <1>0, <2>1, <2>2 DEF Carries, InFlight, Unsaved
<1>6. CASE Restart
  BY <1>6 DEF Restart
<1>7. CASE UNCHANGED vars
  BY <1>0, <1>7 DEF vars, Carries, InFlight, Unsaved
<1> QED BY <1>1, <1>2, <1>3, <1>4, <1>5, <1>6, <1>7 DEF Next

\* Theorem: with a blob store that completes calls in the order made, the blob
\* has of every key what memory has, once the operation that last changed the
\* key has returned.
THEOREM AcknowledgedIsSaved == StoreAssumption /\ InOrder => (Spec => []Durable)
<1> SUFFICES ASSUME StoreAssumption, InOrder PROVE Spec => []Durable
  OBVIOUS
<1>1. Init => IInv
  <2> SUFFICES ASSUME Init PROVE IInv
    OBVIOUS
  <2>1. TypeOK
    BY DEF StoreAssumption, Init, TypeOK, Snapshots, Empty, InFlight
  <2>2. InFlight = {}
    BY DEF Init, InFlight
  <2> QED BY <2>1, <2>2 DEF StoreAssumption, Init, IInv, Chain, Acknowledged, Carried, Empty
<1>2. IInv /\ [Next]_vars => IInv'
  BY TypeStep, ChainStep, AcknowledgedStep, CarriedStep DEF IInv
<1>3. IInv => Durable
  BY DEF IInv, Acknowledged, Durable
<1> QED BY <1>1, <1>2, <1>3, PTL DEF Spec

=============================================================================
