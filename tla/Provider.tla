------------------------------ MODULE Provider ------------------------------
(***************************************************************************)
(* Calls through the interface backend.Backend, as the goroutines of one   *)
(* or more proxies make them: Ensure from resolve, Delete from the reaper, *)
(* List from Reconcile.  A proxy keeps to one Ensure per id, but two       *)
(* proxies run during a rolling update, and a reaper deletes what another  *)
(* proxy (or another session) is ensuring.  So any mix of calls of an id   *)
(* may be under way.  CustomResource and Substrate say what a call does.   *)
(*                                                                         *)
(* A call is a slot of Calls; its pc is where its goroutine is:            *)
(*   idle     no call                                                      *)
(*   done     the call has returned, out and ans say what                  *)
(*   others   about to make the API call of that name                      *)
(***************************************************************************)
EXTENDS Integers, FiniteSets

CONSTANTS
    Ids,        \* playwright-ids
    Addrs,      \* pod addresses
    Calls,      \* slots for calls
    MaxFaults,  \* how many things go wrong in a behaviour
    None

ASSUME ProviderAssumption ==
    /\ None \notin Addrs \cup Ids \cup {"ok", "error", "ensure", "delete", "list"}
    /\ MaxFaults \in Nat

VARIABLES
    kind,    \* cfg.Backend
    call,    \* call[c]: the call in slot c
    policy,  \* policy[id]: the network policy attached to the sandbox of id
    faults   \* how many things went wrong so far

providerVars == <<kind, call, policy, faults>>

CustomResourceKinds == {"sandboxclaim", "isola", "karssandbox"}
BackendKinds == CustomResourceKinds \cup {"substrate"}

Policies == {"none", "mine", "other"}

PCs == {"idle", "get", "create", "reget", "poll",
        "get policy", "create policy", "reget policy", "list pods",
        "wait", "sleep", "probe", "suspend", "delete", "list", "done"}

ActorStates == {"RESUMING", "RUNNING", "SUSPENDING", "SUSPENDED",
                "CRASHED", "DELETING", "REVERTING"}

Call ==
    [pc : PCs,
     op : {"ensure", "delete", "list"} \cup {None},
     id : Ids \cup {None},
     out : {"ok", "error"} \cup {None},  \* once done: a value or an error
     ans : Addrs \cup Ids \cup {None},   \* Ensure: the endpoint
     seen : ActorStates \cup {None},     \* Ensure: the last state observed
     resumed : BOOLEAN,                  \* Ensure: ResumeActor was called
     served : SUBSET Ids,                \* List: on the pages read so far
     listed : SUBSET Ids,                \* List: the ids collected so far
     \* What happened while the call was under way, for the properties:
     disturbed : BOOLEAN,                \* its id was being deleted
     kept : SUBSET Ids,                  \* List: ids it could have found at any time
     met : SUBSET Ids]                   \* List: ids it could have found at some time

NoCall ==
    [pc |-> "idle", op |-> None, id |-> None, out |-> None, ans |-> None,
     seen |-> None, resumed |-> FALSE, served |-> {}, listed |-> {},
     disturbed |-> FALSE, kept |-> {}, met |-> {}]

ProviderTypeOK ==
    /\ kind \in BackendKinds
    /\ call \in [Calls -> Call]
    /\ policy \in [Ids -> Policies]
    /\ faults \in 0..MaxFaults

ProviderInit ==
    /\ kind \in BackendKinds
    /\ call = [c \in Calls |-> NoCall]
    /\ policy = [id \in Ids |-> "none"]
    /\ faults = 0

Active(c) == call[c].pc \notin {"idle", "done"}

At(c, op, pc) == call[c].op = op /\ call[c].pc = pc

Goto(c, pc) == call' = [call EXCEPT ![c].pc = pc]

(* The call returns.  Its local variables are gone. *)
Returned(c, out, ans) ==
    [call[c] EXCEPT !.pc = "done", !.out = out, !.ans = ans,
                    !.seen = None, !.resumed = FALSE, !.served = {}]

Answer(c, a) == call' = [call EXCEPT ![c] = Returned(c, "ok", a)]

Fail(c) == call' = [call EXCEPT ![c] = Returned(c, "error", None)]

(* What a delete of id does to the calls: they can no longer expect to     *)
(* find what they saw.                                                     *)
Disturb(cs, id) ==
    [c \in Calls |->
        IF cs[c].id = id /\ cs[c].op = "ensure"
          THEN [cs[c] EXCEPT !.disturbed = TRUE] ELSE cs[c]]

(* A sandbox the proxy manages appears, or disappears. *)
Appears(cs, id) ==
    [c \in Calls |-> IF cs[c].op = "list" /\ cs[c].pc = "list"
                       THEN [cs[c] EXCEPT !.met = @ \cup {id}] ELSE cs[c]]

Disappears(cs, id) ==
    [c \in Calls |-> IF cs[c].op = "list" /\ cs[c].pc = "list"
                       THEN [cs[c] EXCEPT !.kept = @ \ {id}] ELSE cs[c]]

(* One more thing goes wrong. *)
Fault == faults < MaxFaults /\ faults' = faults + 1

(* An API call fails with an error the code does not handle, or the        *)
(* context ends while it is under way.  The caller gives up at once.       *)
ApiFails(c) ==
    /\ Active(c)
    /\ Fault
    /\ Fail(c)
    /\ UNCHANGED <<kind, policy>>

(* Whoever made the call takes the result. *)
Take(c) ==
    /\ call[c].pc = "done"
    /\ call' = [call EXCEPT ![c] = NoCall]
    /\ UNCHANGED <<kind, policy, faults>>

(* A call begins.  terminating: the ids that are being deleted; managed:   *)
(* those List would return.                                                *)
StartEnsure(c, id, terminating) ==
    /\ call[c].pc = "idle"
    /\ call' = [call EXCEPT ![c] = [NoCall EXCEPT !.pc = "get", !.op = "ensure",
                                      !.id = id, !.disturbed = id \in terminating]]
    /\ UNCHANGED <<kind, policy, faults>>

(* Delete of a custom resource is one call; of an actor, two.              *)
StartDelete(c, id) ==
    /\ call[c].pc = "idle"
    /\ call' = [call EXCEPT ![c] = [NoCall EXCEPT !.op = "delete", !.id = id,
                    !.pc = IF kind = "substrate" THEN "suspend" ELSE "delete"]]
    /\ UNCHANGED <<kind, policy, faults>>

StartList(c, managed) ==
    /\ call[c].pc = "idle"
    /\ call' = [call EXCEPT ![c] = [NoCall EXCEPT !.op = "list", !.pc = "list",
                                      !.kept = managed, !.met = managed]]
    /\ UNCHANGED <<kind, policy, faults>>

(* The operator of the cluster attaches a policy of its own to the sandbox *)
(* of id, before the proxy does.                                           *)
OperatorPolicy(id) ==
    /\ policy[id] = "none"
    /\ Fault
    /\ policy' = [policy EXCEPT ![id] = "other"]
    /\ UNCHANGED <<kind, call>>
=============================================================================
