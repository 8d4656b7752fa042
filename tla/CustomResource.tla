--------------------------- MODULE CustomResource ---------------------------
(***************************************************************************)
(* The providers that keep one custom resource per playwright-id: agent-   *)
(* sandbox's SandboxClaim, isola's Sandbox and kars's KarsSandbox.  They   *)
(* share get-or-create and polling, and differ in what they read:          *)
(*   sandboxclaim  the Ready condition and status.sandbox.podIPs; nothing  *)
(*                 is terminal;                                            *)
(*   isola         the Ready condition, terminal reasons, status.podIP;    *)
(*   karssandbox   status.phase with terminal phases, status.namespace,    *)
(*                 then a NetworkPolicy in that namespace, then its pods.  *)
(*                                                                         *)
(* The controllers are external: they run a pod, publish its address, and  *)
(* set the readiness status.  Deletion is graceful: a resource with a      *)
(* deletion timestamp is there, status and all, until its finalizers ran.  *)
(***************************************************************************)
EXTENDS Provider

VARIABLES
    cr,       \* cr[id]: the custom resource of id
    podUp     \* the ids whose pod accepts connections at cr[id].ip

crVars == <<cr, podUp>>

Statuses == {"pending", "ready", "failed"}

Resource ==
    [exists : BOOLEAN, deleting : BOOLEAN, status : Statuses,
     ns : BOOLEAN,               \* kars: status.namespace is set
     ip : Addrs \cup {None}]     \* the published address; kars: of the ready pod

NoResource ==
    [exists |-> FALSE, deleting |-> FALSE, status |-> "pending",
     ns |-> FALSE, ip |-> None]

Fresh == [NoResource EXCEPT !.exists = TRUE]

CustomResourceTypeOK ==
    /\ cr \in [Ids -> Resource]
    /\ podUp \in SUBSET Ids

CustomResourceInit ==
    /\ cr = [id \in Ids |-> NoResource]
    /\ podUp = {}

CRTerminating == {id \in Ids : cr[id].deleting}
CRManaged == {id \in Ids : cr[id].exists}

-----------------------------------------------------------------------------
(***************************************************************************)
(* Ensure.                                                                 *)
(***************************************************************************)
GetResource(c) ==
    /\ At(c, "ensure", "get")
    /\ Goto(c, IF cr[call[c].id].exists THEN "poll" ELSE "create")
    /\ UNCHANGED <<kind, policy, faults, crVars>>

(* Mutant: a create that finds a resource replaces it. *)
CreateResource_Replaces(c) ==
    LET id == call[c].id IN
    /\ At(c, "ensure", "create")
    /\ cr' = [cr EXCEPT ![id] = Fresh]
    /\ call' = [Appears(call, id) EXCEPT ![c].pc = "poll"]
    /\ UNCHANGED <<kind, policy, faults, podUp>>

(* Another caller may have created it meanwhile: AlreadyExists.            *)
CreateResource(c) ==
    LET id == call[c].id IN
    /\ At(c, "ensure", "create")
    /\ \/ /\ ~cr[id].exists
          /\ cr' = [cr EXCEPT ![id] = Fresh]
          /\ call' = [Appears(call, id) EXCEPT ![c].pc = "poll"]
       \/ /\ cr[id].exists
          /\ Goto(c, IF kind = "sandboxclaim" THEN "reget" ELSE "poll")
          /\ UNCHANGED cr
    /\ UNCHANGED <<kind, policy, faults, podUp>>

(* sandboxclaim reads the resource again; it may be gone by now.           *)
ReGetResource(c) ==
    /\ At(c, "ensure", "reget")
    /\ IF cr[call[c].id].exists THEN Goto(c, "poll") ELSE Fail(c)
    /\ UNCHANGED <<kind, policy, faults, crVars>>

(* Mutant: the address is not waited for. *)
ClaimReady_NoAddress(r) == r.status = "ready"

(* extractClaimEndpoint; isola's Ready condition and podIP; for kars, a    *)
(* ready pod with an address.                                              *)
ClaimReady(r) == r.status = "ready" /\ r.ip # None

(* kars: phase Running, with a namespace.                                  *)
KarsRunning(r) == r.status = "ready" /\ r.ns

(* isolaTerminalReasons; kars's Degraded and Failed.                       *)
Terminal(r) == kind \in {"isola", "karssandbox"} /\ r.status = "failed"

(* One poll that ends the wait.  A resource that vanishes ends it with an  *)
(* error, as any other failure of the Get does.                            *)
PollResource(c) ==
    LET r == cr[call[c].id] IN
    /\ At(c, "ensure", "poll")
    /\ \/ ~r.exists /\ Fail(c)
       \/ r.exists /\ Terminal(r) /\ Fail(c)
       \/ r.exists /\ kind # "karssandbox" /\ ClaimReady(r) /\ Answer(c, r.ip)
       \/ r.exists /\ kind = "karssandbox" /\ KarsRunning(r) /\ Goto(c, "create policy")
    /\ UNCHANGED <<kind, policy, faults, crVars>>

(* Mutant: an existing policy is overwritten. *)
CreateIngress_Overwrites(c) ==
    LET id == call[c].id IN
    /\ At(c, "ensure", "create policy")
    /\ kind = "karssandbox"
    /\ policy' = [policy EXCEPT ![id] = "mine"]
    /\ Goto(c, "list pods")
    /\ UNCHANGED <<kind, faults, crVars>>

(* ensureProxyIngress: create the policy, or read the existing one.  The   *)
(* namespace goes away with the resource.                                  *)
CreateIngress(c) ==
    LET id == call[c].id IN
    /\ At(c, "ensure", "create policy")
    /\ kind = "karssandbox"
    /\ \/ ~cr[id].exists /\ Fail(c) /\ UNCHANGED policy
       \/ /\ cr[id].exists /\ policy[id] = "none"
          /\ policy' = [policy EXCEPT ![id] = "mine"]
          /\ Goto(c, "list pods")
       \/ /\ cr[id].exists /\ policy[id] # "none"
          /\ Goto(c, "get policy")
          /\ UNCHANGED policy
    /\ UNCHANGED <<kind, faults, crVars>>

(* A policy that differs is an error, never replaced; so is one that is    *)
(* gone again.                                                             *)
GetIngress(c) ==
    /\ At(c, "ensure", "get policy")
    /\ kind = "karssandbox"
    /\ IF policy[call[c].id] = "mine" THEN Goto(c, "list pods") ELSE Fail(c)
    /\ UNCHANGED <<kind, policy, faults, crVars>>

(* waitForPodIP: no pods are listed in a namespace that is gone.           *)
ListPods(c) ==
    LET r == cr[call[c].id] IN
    /\ At(c, "ensure", "list pods")
    /\ r.exists /\ ClaimReady(r)
    /\ Answer(c, r.ip)
    /\ UNCHANGED <<kind, policy, faults, crVars>>

(* ensureTimeout ends a wait that has not come true.                       *)
PollExpires(c) ==
    LET r == cr[call[c].id] IN
    /\ \/ /\ At(c, "ensure", "poll")
          /\ r.exists /\ ~Terminal(r)
          /\ IF kind = "karssandbox" THEN ~KarsRunning(r) ELSE ~ClaimReady(r)
       \/ /\ At(c, "ensure", "list pods")
          /\ ~(r.exists /\ ClaimReady(r))
    /\ Fail(c)
    /\ UNCHANGED <<kind, policy, faults, crVars>>

(***************************************************************************)
(* Delete and List.                                                        *)
(***************************************************************************)
(* NotFound is success. *)
DeleteResource(c) ==
    LET id == call[c].id IN
    /\ At(c, "delete", "delete")
    /\ \/ /\ cr[id].exists
          /\ cr' = [cr EXCEPT ![id].deleting = TRUE]
          /\ call' = [Disturb(call, id) EXCEPT ![c] = Returned(c, "ok", None)]
       \/ /\ ~cr[id].exists
          /\ Answer(c, None)
          /\ UNCHANGED cr
    /\ UNCHANGED <<kind, policy, faults, podUp>>

(* By the managed label and the id label, which every resource Ensure      *)
(* creates carries; one API call.                                          *)
ListResources(c) ==
    /\ At(c, "list", "list")
    /\ call' = [call EXCEPT ![c] =
                  [Returned(c, "ok", None) EXCEPT !.listed = CRManaged]]
    /\ UNCHANGED <<kind, policy, faults, crVars>>

-----------------------------------------------------------------------------
(***************************************************************************)
(* The controllers, external.                                              *)
(***************************************************************************)
(* The status may say so before the address is there.                      *)
BecomesReady(id) ==
    /\ cr[id].exists /\ ~cr[id].deleting
    /\ cr[id].status = "pending" /\ cr[id].ip = None
    /\ cr' = [cr EXCEPT ![id].status = "ready"]
    /\ UNCHANGED <<providerVars, podUp>>

NamespaceSet(id) ==
    /\ kind = "karssandbox"
    /\ cr[id].exists /\ ~cr[id].deleting /\ ~cr[id].ns
    /\ cr' = [cr EXCEPT ![id].ns = TRUE]
    /\ UNCHANGED <<providerVars, podUp>>

(* The first pod, or a replacement, serves and its address is published.   *)
AddressPublished(id, a) ==
    /\ cr[id].exists /\ ~cr[id].deleting /\ cr[id].status # "failed"
    /\ id \notin podUp
    /\ \A i \in podUp : cr[i].ip # a
    /\ cr' = [cr EXCEPT ![id].status = "ready", ![id].ip = a]
    /\ podUp' = podUp \cup {id}
    /\ UNCHANGED providerVars

(* The pod dies; the status still shows it. *)
PodDies(id) ==
    /\ id \in podUp
    /\ Fault
    /\ podUp' = podUp \ {id}
    /\ UNCHANGED <<kind, call, policy, cr>>

(* The controller notices: not ready, to be replaced, or failed for good.  *)
NoLongerReady(id) ==
    /\ cr[id].exists /\ cr[id].status = "ready" /\ id \notin podUp /\ cr[id].ip # None
    /\ cr' = [cr EXCEPT ![id].status = "pending"]
    /\ UNCHANGED <<providerVars, podUp>>

FailsForGood(id) ==
    /\ cr[id].exists /\ cr[id].status # "failed" /\ id \notin podUp
    /\ Fault
    /\ cr' = [cr EXCEPT ![id].status = "failed"]
    /\ UNCHANGED <<kind, call, policy, podUp>>

(* The finalizers are done: the resource goes, with its pod, its namespace *)
(* and the policy in it.                                                   *)
Finalized(id) ==
    /\ cr[id].deleting
    /\ cr' = [cr EXCEPT ![id] = NoResource]
    /\ podUp' = podUp \ {id}
    /\ policy' = [policy EXCEPT ![id] = "none"]
    /\ call' = Disappears(call, id)
    /\ UNCHANGED <<kind, faults>>

-----------------------------------------------------------------------------
CRCallStep(c) ==
    \/ GetResource(c) \/ CreateResource(c) \/ ReGetResource(c) \/ PollResource(c)
    \/ CreateIngress(c) \/ GetIngress(c) \/ ListPods(c)
    \/ DeleteResource(c) \/ ListResources(c)

(* What the controllers do in time; faults are not among it. *)
CRControllerStep(id) ==
    \/ BecomesReady(id) \/ NamespaceSet(id)
    \/ \E a \in Addrs : AddressPublished(id, a)
    \/ Finalized(id)

CRNext ==
    \/ \E c \in Calls :
          \/ CRCallStep(c) \/ PollExpires(c)
          \/ /\ \/ ApiFails(c) \/ Take(c) \/ StartList(c, CRManaged)
                \/ \E id \in Ids : StartEnsure(c, id, CRTerminating) \/ StartDelete(c, id)
             /\ UNCHANGED crVars
    \/ \E id \in Ids :
          \/ CRControllerStep(id) \/ PodDies(id) \/ NoLongerReady(id) \/ FailsForGood(id)
          \/ kind = "karssandbox" /\ cr[id].ns /\ OperatorPolicy(id) /\ UNCHANGED crVars
=============================================================================
