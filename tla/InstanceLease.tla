--------------------------- MODULE InstanceLease ---------------------------
(***************************************************************************)
(* What SandboxPool promises about instances, whatever its warm list,      *)
(* slots, lock and refills do (docs/contracts/sandbox.md, "release"): an   *)
(* instance is created fresh, leased at most once, to one client that has  *)
(* no other lease, and never becomes fresh again.                          *)
(***************************************************************************)
CONSTANTS Clients, Instances, Nobody

VARIABLES
    phase,   \* life of each instance
    tenant   \* the client holding it, or Nobody

vars == <<phase, tenant>>

Init ==
    /\ phase = [i \in Instances |-> "none"]
    /\ tenant = [i \in Instances |-> Nobody]

Create(i) ==
    /\ phase[i] = "none"
    /\ phase' = [phase EXCEPT ![i] = "fresh"]
    /\ UNCHANGED tenant

Lease(i, c) ==
    /\ phase[i] = "fresh"
    /\ \A j \in Instances : tenant[j] # c
    /\ phase' = [phase EXCEPT ![i] = "leased"]
    /\ tenant' = [tenant EXCEPT ![i] = c]

\* The client is gone but the instance is not.
Abandon(i) ==
    /\ phase[i] = "leased"
    /\ tenant' = [tenant EXCEPT ![i] = Nobody]
    /\ UNCHANGED phase

Destroy(i) ==
    /\ phase[i] # "none"
    /\ phase' = [phase EXCEPT ![i] = "none"]
    /\ tenant' = [tenant EXCEPT ![i] = Nobody]

Next ==
    \E i \in Instances :
        Create(i) \/ Abandon(i) \/ Destroy(i) \/ \E c \in Clients : Lease(i, c)

Spec == Init /\ [][Next]_vars

=============================================================================
