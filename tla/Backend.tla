------------------------------ MODULE Backend ------------------------------
(***************************************************************************)
(* What the session manager relies on in a sandbox provider: the interface *)
(* internal/backend.Backend, whichever of sandboxclaim, isola, karssandbox *)
(* or substrate implements it.  A resource (a SandboxClaim, a Sandbox, a   *)
(* KarsSandbox, an actor) exists per playwright-id; the provider's         *)
(* controller, which is not part of the repository, runs a pod for it and  *)
(* publishes the pod's address in the resource's status.                   *)
(*                                                                         *)
(* The published address and the pod may disagree: after an eviction the   *)
(* status keeps the dead pod's address until the controller publishes the  *)
(* replacement's.                                                          *)
(***************************************************************************)
EXTENDS Integers, FiniteSets

CONSTANTS
    Ids,     \* playwright-ids
    Addrs,   \* pod addresses
    None     \* "no such thing": no address, no session, no lookup result

ASSUME NoneAssumption == None \notin Addrs \cup Ids

VARIABLES
    resource,  \* the ids whose resource exists at the provider
    addr,      \* addr[id]: the address in the status of id's resource
    serving    \* the ids whose pod is up and accepts connections at addr[id]

backendVars == <<resource, addr, serving>>

BackendTypeOK ==
    /\ resource \in SUBSET Ids
    /\ addr \in [Ids -> Addrs \cup {None}]
    /\ serving \in SUBSET Ids

BackendInit ==
    /\ resource = {}
    /\ addr = [id \in Ids |-> None]
    /\ serving = {}

(* The ids whose pod answers a dial of address a. *)
ServersOf(a) == {id \in serving : addr[id] = a}

(* Mutant: the address of any pod is taken for that of id's. *)
EndpointsFound_AnyPod(id) == {addr[i] : i \in Ids} \ {None}

(* What polling the resource of id can return: the published address, once *)
(* there is one.                                                           *)
EndpointsFound(id) == {addr[id]} \ {None}

(* Every implementation of Ensure starts with an idempotent create.        *)
BackendCreate(id) ==
    /\ resource' = resource \cup {id}
    /\ UNCHANGED <<addr, serving>>

(* Delete succeeds when the resource is already gone.                      *)
BackendDelete(id) ==
    /\ resource' = resource \ {id}
    /\ addr' = [addr EXCEPT ![id] = None]
    /\ serving' = serving \ {id}

(* The controller starts a pod for the resource, the first one or the      *)
(* replacement of an evicted one, at an address no running pod has.        *)
PodReady(id, a) ==
    /\ id \in resource \ serving
    /\ ServersOf(a) = {}
    /\ addr' = [addr EXCEPT ![id] = a]
    /\ serving' = serving \cup {id}
    /\ UNCHANGED resource

(* The pod dies under an existing resource (for instance a node drain).    *)
Evict(id) ==
    /\ id \in serving
    /\ serving' = serving \ {id}
    /\ UNCHANGED <<resource, addr>>

(* The provider seen from outside, for its implementations to refine.      *)
BackendNext ==
    \E id \in Ids :
        \/ BackendCreate(id) \/ BackendDelete(id) \/ Evict(id)
        \/ \E a \in Addrs : PodReady(id, a)

BackendSpec == BackendInit /\ [][BackendNext]_backendVars
=============================================================================
