----------------------------- MODULE Substrate -----------------------------
(***************************************************************************)
(* The substrate provider: one actor per playwright-id, driven through the *)
(* Control service of ate-api-server.  The server is external; what it     *)
(* does to an actor is modelled from the contract in ateapi_grpc.pb.go and *)
(* from the replies substrate.go handles.  An actor is checkpointed and    *)
(* resumed, and its application listens some time after it runs.           *)
(***************************************************************************)
EXTENDS Provider

VARIABLES
    actor,      \* actor[id]: the actor named after id
    allowlist   \* SUBSTRATE_ALLOWED_HTTP_HOSTS is set

actorVars == <<actor, allowlist>>

Actor ==
    [state : ActorStates \cup {"ABSENT"},
     mine : BOOLEAN,     \* it uses the configured ActorTemplate
     app : BOOLEAN,      \* the application listens
     served : BOOLEAN]   \* it has listened since the actor was created

NoActor == [state |-> "ABSENT", mine |-> TRUE, app |-> FALSE, served |-> FALSE]

(* Mutant: the server leaves the state unspecified. *)
NewActor_Unspecified(mine) == [NoActor EXCEPT !.state = "UNSPECIFIED", !.mine = mine]

(* CreateActor's result: not running, to be resumed.                       *)
NewActor(mine) == [NoActor EXCEPT !.state = "SUSPENDED", !.mine = mine]

SubstrateTypeOK ==
    /\ actor \in [Ids -> Actor]
    /\ allowlist \in BOOLEAN

SubstrateInit ==
    /\ actor = [id \in Ids |-> NoActor]
    /\ allowlist \in IF kind = "substrate" THEN BOOLEAN ELSE {FALSE}

Exists(id) == actor[id].state # "ABSENT"

(* The ids List is to return: actors of the configured template.           *)
ActorsManaged == {id \in Ids : Exists(id) /\ actor[id].mine}

ActorsTerminating == {id \in Ids : actor[id].state = "DELETING"}

(* The actor moves to state.  Only a running actor's application listens.  *)
Moved(id, state) == [actor EXCEPT ![id].state = state, ![id].app = FALSE]

-----------------------------------------------------------------------------
(***************************************************************************)
(* Ensure: getOrCreate and the check of the template on what it returned.  *)
(***************************************************************************)
(* Mutant: the template of an existing actor is not checked. *)
Found_AnyTemplate(c, a) ==
    call' = [call EXCEPT ![c].pc = IF allowlist THEN "get policy" ELSE "wait",
                         ![c].seen = a.state]

(* The actor a that getOrCreate returns is the one the rest works with.    *)
Found(c, a) ==
    \/ /\ a.mine
       /\ call' = [call EXCEPT ![c].pc = IF allowlist THEN "get policy" ELSE "wait",
                               ![c].seen = a.state]
    \/ ~a.mine /\ Fail(c)

GetActor(c) ==
    LET id == call[c].id IN
    /\ At(c, "ensure", "get")
    /\ IF Exists(id) THEN Found(c, actor[id]) ELSE Goto(c, "create")
    /\ UNCHANGED <<kind, policy, faults, actorVars>>

CreateActor(c) ==
    LET id == call[c].id IN
    /\ At(c, "ensure", "create")
    /\ \/ /\ ~Exists(id)
          /\ actor' = [actor EXCEPT ![id] = NewActor(TRUE)]
          /\ call' = [Appears(call, id) EXCEPT
                        ![c].pc = IF allowlist THEN "get policy" ELSE "wait",
                        ![c].seen = "SUSPENDED"]
       \/ Exists(id) /\ Goto(c, "reget") /\ UNCHANGED actor
    /\ UNCHANGED <<kind, policy, faults, allowlist>>

ReGetActor(c) ==
    LET id == call[c].id IN
    /\ At(c, "ensure", "reget")
    /\ IF Exists(id) THEN Found(c, actor[id]) ELSE Fail(c)
    /\ UNCHANGED <<kind, policy, faults, actorVars>>

(***************************************************************************)
(* ensureEgressPolicy.                                                     *)
(***************************************************************************)
(* A policy that differs is an error, never replaced.                      *)
GetEgress(c) ==
    LET p == policy[call[c].id] IN
    /\ At(c, "ensure", "get policy")
    /\ \/ p = "none" /\ Goto(c, "create policy")
       \/ p = "mine" /\ Goto(c, "wait")
       \/ p = "other" /\ Fail(c)
    /\ UNCHANGED <<kind, policy, faults, actorVars>>

(* The policy belongs to the actor; when that is gone the create fails.    *)
(* AlreadyExists: another caller or the operator was faster, read it.      *)
CreateEgress(c) ==
    LET id == call[c].id IN
    /\ At(c, "ensure", "create policy")
    /\ \/ ~Exists(id) /\ Fail(c) /\ UNCHANGED policy
       \/ /\ Exists(id) /\ policy[id] = "none"
          /\ policy' = [policy EXCEPT ![id] = "mine"]
          /\ Goto(c, "wait")
       \/ /\ Exists(id) /\ policy[id] # "none"
          /\ Goto(c, "reget policy")
          /\ UNCHANGED policy
    /\ UNCHANGED <<kind, faults, actorVars>>

ReGetEgress(c) ==
    /\ At(c, "ensure", "reget policy")
    /\ IF policy[call[c].id] = "mine" THEN Goto(c, "wait") ELSE Fail(c)
    /\ UNCHANGED <<kind, policy, faults, actorVars>>

(***************************************************************************)
(* waitForRunning: decide on the state last observed, sleep, observe.      *)
(***************************************************************************)
Observes(c, states) == At(c, "ensure", "wait") /\ call[c].seen \in states

ObservesRunning(c) ==
    /\ Observes(c, {"RUNNING"})
    /\ Goto(c, "probe")
    /\ UNCHANGED <<kind, policy, faults, actorVars>>

(* Mutant: a suspended actor is left to whoever suspended it. *)
Resumes_Never(c) ==
    /\ Observes(c, {"SUSPENDED"}) /\ ~call[c].resumed
    /\ Goto(c, "sleep")
    /\ UNCHANGED <<kind, policy, faults, actorVars>>

(* ResumeActor once.  FailedPrecondition (the actor has left SUSPENDED) is *)
(* ignored, NotFound is not.                                               *)
Resumes(c) ==
    LET id == call[c].id IN
    /\ Observes(c, {"SUSPENDED"}) /\ ~call[c].resumed
    /\ \/ ~Exists(id) /\ Fail(c) /\ UNCHANGED actor
       \/ /\ Exists(id)
          /\ actor' = IF actor[id].state = "SUSPENDED" THEN Moved(id, "RESUMING") ELSE actor
          /\ call' = [call EXCEPT ![c].pc = "sleep", ![c].resumed = TRUE]
    /\ UNCHANGED <<kind, policy, faults, allowlist>>

ObservesEnd(c) ==
    /\ Observes(c, {"CRASHED", "DELETING"})
    /\ Fail(c)
    /\ UNCHANGED <<kind, policy, faults, actorVars>>

ObservesTransition(c) ==
    /\ \/ Observes(c, {"RESUMING", "SUSPENDING", "REVERTING"})
       \/ Observes(c, {"SUSPENDED"}) /\ call[c].resumed
    /\ Goto(c, "sleep")
    /\ UNCHANGED <<kind, policy, faults, actorVars>>

GetActorDuringWait(c) ==
    LET id == call[c].id IN
    /\ At(c, "ensure", "sleep")
    /\ IF Exists(id)
         THEN call' = [call EXCEPT ![c].pc = "wait", ![c].seen = actor[id].state]
         ELSE Fail(c)
    /\ UNCHANGED <<kind, policy, faults, actorVars>>

(* waitUpstreamReady: the router reaches the application.                  *)
ProbeAnswered(c) ==
    LET id == call[c].id IN
    /\ At(c, "ensure", "probe")
    /\ actor[id].app
    /\ Answer(c, id)
    /\ UNCHANGED <<kind, policy, faults, actorVars>>

(* readyDeadline or ensureTimeout ends the wait for RUNNING, also right    *)
(* before the observation that would have ended it.                        *)
WaitExpires(c) ==
    /\ At(c, "ensure", "sleep")
    /\ Fail(c)
    /\ UNCHANGED <<kind, policy, faults, actorVars>>

ProbeExpires(c) ==
    /\ At(c, "ensure", "probe")
    /\ ~actor[call[c].id].app
    /\ Fail(c)
    /\ UNCHANGED <<kind, policy, faults, actorVars>>

(***************************************************************************)
(* Delete: suspend, then delete.  Only suspended and crashed actors can be *)
(* deleted; the server may return from the suspend before it is complete.  *)
(***************************************************************************)
SuspendActor(c) ==
    LET id == call[c].id IN
    /\ At(c, "delete", "suspend")
    /\ \/ /\ actor[id].state = "RUNNING"
          /\ actor' = Moved(id, "SUSPENDING")
          /\ call' = [Disturb(call, id) EXCEPT ![c].pc = "delete"]
       \/ /\ actor[id].state # "RUNNING"   \* FailedPrecondition or NotFound
          /\ Goto(c, "delete")
          /\ UNCHANGED actor
    /\ UNCHANGED <<kind, policy, faults, allowlist>>

(* Mutant: any refusal counts as deleted already. *)
DeleteActor_Ignores(c) ==
    LET id == call[c].id IN
    /\ At(c, "delete", "delete")
    /\ IF actor[id].state \in {"SUSPENDED", "CRASHED"}
         THEN /\ actor' = Moved(id, "DELETING")
              /\ call' = [Disturb(call, id) EXCEPT ![c] = Returned(c, "ok", None)]
         ELSE Answer(c, None) /\ UNCHANGED actor
    /\ UNCHANGED <<kind, policy, faults, allowlist>>

DeleteActor(c) ==
    LET id == call[c].id IN
    /\ At(c, "delete", "delete")
    /\ \/ /\ actor[id].state \in {"SUSPENDED", "CRASHED"}
          /\ actor' = Moved(id, "DELETING")
          /\ call' = [Disturb(call, id) EXCEPT ![c] = Returned(c, "ok", None)]
       \/ ~Exists(id) /\ Answer(c, None) /\ UNCHANGED actor
       \/ /\ actor[id].state \notin {"SUSPENDED", "CRASHED", "ABSENT"}
          /\ Fail(c)
          /\ UNCHANGED actor
    /\ UNCHANGED <<kind, policy, faults, allowlist>>

(***************************************************************************)
(* List, page by page.  A page has some of the actors not on an earlier    *)
(* one (perhaps none: other tenants' actors fill pages too); the token is  *)
(* empty only when none is left.                                           *)
(***************************************************************************)
(* Mutant: the first page is taken for all of them. *)
ListPage_First(c) ==
    /\ At(c, "list", "list")
    /\ \E page \in SUBSET {id \in Ids : Exists(id)} :
          call' = [call EXCEPT ![c] =
                     [Returned(c, "ok", None) EXCEPT !.listed = page \cap ActorsManaged]]
    /\ UNCHANGED <<kind, policy, faults, actorVars>>

ListPage(c) ==
    LET left == {id \in Ids : Exists(id)} \ call[c].served IN
    /\ At(c, "list", "list")
    /\ \E page \in SUBSET left :
          LET read == [call[c] EXCEPT !.served = @ \cup page,
                                      !.listed = @ \cup (page \cap ActorsManaged)]
          IN  \/ page # left /\ call' = [call EXCEPT ![c] = read]
              \/ /\ page = left
                 /\ call' = [call EXCEPT ![c] =
                      [Returned(c, "ok", None) EXCEPT !.listed = read.listed]]
    /\ UNCHANGED <<kind, policy, faults, actorVars>>

-----------------------------------------------------------------------------
(***************************************************************************)
(* The server and its operators, external.                                 *)
(***************************************************************************)
(* What the server brings to an end by itself. *)
Completes(id) ==
    /\ \/ /\ actor[id].state = "RESUMING"
          /\ actor' = Moved(id, "RUNNING")
          /\ UNCHANGED <<call, policy>>
       \/ /\ actor[id].state \in {"SUSPENDING", "REVERTING"}
          /\ actor' = Moved(id, "SUSPENDED")
          /\ UNCHANGED <<call, policy>>
       \/ /\ actor[id].state = "DELETING"
          /\ actor' = [actor EXCEPT ![id] = NoActor]
          /\ policy' = [policy EXCEPT ![id] = "none"]
          /\ call' = Disappears(call, id)
    /\ UNCHANGED <<kind, faults, allowlist>>

AppListens(id) ==
    /\ actor[id].state = "RUNNING" /\ ~actor[id].app
    /\ actor' = [actor EXCEPT ![id].app = TRUE, ![id].served = TRUE]
    /\ UNCHANGED <<providerVars, allowlist>>

(* Crashes; suspends and reverts by operators; an actor of another         *)
(* template under the name of id.                                          *)
Intervenes(id) ==
    /\ \/ actor[id].state \in {"RESUMING", "RUNNING"} /\ actor' = Moved(id, "CRASHED")
       \/ actor[id].state = "RUNNING" /\ actor' = Moved(id, "SUSPENDING")
       \/ actor[id].state \in {"CRASHED", "RUNNING"} /\ actor' = Moved(id, "REVERTING")
       \/ ~Exists(id) /\ actor' = [actor EXCEPT ![id] = NewActor(FALSE)]
    /\ Fault
    /\ UNCHANGED <<kind, call, policy, allowlist>>

-----------------------------------------------------------------------------
ActorCallStep(c) ==
    \/ GetActor(c) \/ CreateActor(c) \/ ReGetActor(c)
    \/ GetEgress(c) \/ CreateEgress(c) \/ ReGetEgress(c)
    \/ ObservesRunning(c) \/ Resumes(c) \/ ObservesEnd(c) \/ ObservesTransition(c)
    \/ GetActorDuringWait(c) \/ ProbeAnswered(c)
    \/ SuspendActor(c) \/ DeleteActor(c) \/ ListPage(c)

ServerStep(id) == Completes(id) \/ AppListens(id)

ActorNext ==
    \/ \E c \in Calls :
          \/ ActorCallStep(c) \/ WaitExpires(c) \/ ProbeExpires(c)
          \/ /\ \/ ApiFails(c) \/ Take(c) \/ StartList(c, ActorsManaged)
                \/ \E id \in Ids : StartEnsure(c, id, ActorsTerminating) \/ StartDelete(c, id)
             /\ UNCHANGED actorVars
    \/ \E id \in Ids :
          \/ ServerStep(id) \/ Intervenes(id)
          \/ Exists(id) /\ OperatorPolicy(id) /\ UNCHANGED actorVars
=============================================================================
