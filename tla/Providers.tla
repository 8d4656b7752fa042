----------------------------- MODULE Providers -----------------------------
(***************************************************************************)
(* The provider main selects with cfg.Backend, under calls of one or more  *)
(* proxies; that it implements Backend; and what its callers may rely on.  *)
(***************************************************************************)
EXTENDS CustomResource, Substrate

pvars == <<kind, call, policy, faults, cr, podUp, actor, allowlist>>

ProvidersTypeOK ==
    /\ ProviderTypeOK
    /\ CustomResourceTypeOK
    /\ SubstrateTypeOK

Init == ProviderInit /\ CustomResourceInit /\ SubstrateInit

Next ==
    \/ kind \in CustomResourceKinds /\ CRNext /\ UNCHANGED actorVars
    \/ kind = "substrate" /\ ActorNext /\ UNCHANGED crVars

Spec == Init /\ [][Next]_pvars

(* A goroutine that can go on does, a deadline ends a wait that lasts, and *)
(* the provider does in time what it is there for.                         *)
OwnStep(c) ==
    \/ kind \in CustomResourceKinds /\ CRCallStep(c) /\ UNCHANGED actorVars
    \/ kind = "substrate" /\ ActorCallStep(c) /\ UNCHANGED crVars

Expires(c) ==
    \/ kind \in CustomResourceKinds /\ PollExpires(c) /\ UNCHANGED actorVars
    \/ /\ kind = "substrate"
       /\ WaitExpires(c) \/ ProbeExpires(c)
       /\ UNCHANGED crVars

Progresses(id) ==
    \/ kind \in CustomResourceKinds /\ CRControllerStep(id) /\ UNCHANGED actorVars
    \/ kind = "substrate" /\ ServerStep(id) /\ UNCHANGED crVars

Fairness ==
    /\ \A c \in Calls : WF_pvars(OwnStep(c)) /\ SF_pvars(Expires(c))
    /\ \A id \in Ids : WF_pvars(Progresses(id))

FairSpec == Spec /\ Fairness

-----------------------------------------------------------------------------
(***************************************************************************)
(* The abstract state of Backend.                                          *)
(***************************************************************************)
resources ==
    IF kind = "substrate" THEN {id \in Ids : Exists(id)} ELSE CRManaged

published ==
    [id \in Ids |->
        IF kind = "substrate" THEN IF actor[id].served THEN id ELSE None
                              ELSE cr[id].ip]

up == IF kind = "substrate" THEN {id \in Ids : actor[id].app} ELSE podUp

Abstract ==
    INSTANCE Backend WITH Addrs <- Addrs \cup Ids,
                          resource <- resources, addr <- published, serving <- up

(* Whichever provider is configured, and however the calls of several      *)
(* proxies interleave in it, it behaves as the Backend that the session    *)
(* manager is modelled against: a create never touches an existing         *)
(* resource, and nothing but the completion of a delete removes one.       *)
ImplementsBackend == Abstract!BackendSpec

(* An Ensure that returns an endpoint does so at a moment at which the     *)
(* resource of its id exists and publishes just that endpoint: what        *)
(* SessionManager!EnsureDone takes for granted.  For substrate the state   *)
(* RUNNING was observed some calls before.                                 *)
AnswersArePublished ==
    [][\A c \in Calls :
          call[c].op = "ensure" /\ call[c].out = None /\ call'[c].out = "ok"
             => /\ call[c].id \in resources
                /\ call'[c].ans = published[call[c].id]
                /\ call'[c].ans # None]_pvars

(* The sandbox behind an endpoint is still the one that was checked, as    *)
(* long as nobody deletes it: it exists, is not on its way out, is made    *)
(* from the configured template, and has the policy the proxy insists on.  *)
(* The checks are made at different moments, on what each of them read.    *)
InForce(id) ==
    CASE kind = "substrate" ->
            /\ Exists(id) /\ actor[id].mine /\ actor[id].state # "DELETING"
            /\ allowlist => policy[id] = "mine"
      [] kind = "karssandbox" ->
            cr[id].exists /\ ~cr[id].deleting /\ policy[id] = "mine"
      [] OTHER -> cr[id].exists /\ ~cr[id].deleting

AnsweredInForce ==
    \A c \in Calls :
        /\ call[c].op = "ensure" /\ call[c].out = "ok"
        /\ ~call[c].disturbed
        => InForce(call[c].id)

(* "Never replace a conflicting operator-created policy": it stays as it   *)
(* is until the sandbox goes, whoever reads or creates policies meanwhile. *)
PolicyKept ==
    [][\A id \in Ids :
          policy[id] = "other" => policy'[id] = "other" \/ id \notin resources']_pvars

(* A Delete that reports success has done its work: the resource is gone   *)
(* or going.  Another proxy may resume the actor between the suspend and   *)
(* the delete; then Delete must say that it failed.                        *)
DeleteIsHonest ==
    [][\A c \in Calls :
          call[c].op = "delete" /\ call[c].out = None /\ call'[c].out = "ok"
             => \/ call[c].id \notin resources'
                \/ call[c].id \in (CRTerminating \cup ActorsTerminating)']_pvars

(* List, which Reconcile fills the session map from, returns every managed *)
(* sandbox that was there all along and none that never was, although it   *)
(* reads several pages while others create and delete.                     *)
ListIsComplete ==
    \A c \in Calls :
        call[c].op = "list" /\ call[c].out = "ok"
            => call[c].kept \subseteq call[c].listed /\ call[c].listed \subseteq call[c].met

(* What only an operator can repair: nobody but the reaper deletes, and it *)
(* only deletes what a session led to.                                     *)
Wedged(id) ==
    IF kind = "substrate"
      THEN \/ actor[id].state = "CRASHED"
           \/ Exists(id) /\ ~actor[id].mine
           \/ allowlist /\ policy[id] = "other"
      ELSE cr[id].status = "failed" \/ policy[id] = "other"

BeingDeleted(id) ==
    \/ id \in CRTerminating \cup ActorsTerminating
    \/ \E c \in Calls : call[c].op = "delete" /\ call[c].id = id

Ensured(id) ==
    \E c \in Calls : call[c].op = "ensure" /\ call[c].id = id /\ call[c].out = "ok"

(* "On failure, drop the broken session so the next caller retries": the   *)
(* retries come to something.  Whatever an Ensure that failed, a Delete    *)
(* that stopped half way, or a deletion that was under way left behind,    *)
(* asking again and again yields an endpoint, unless only an operator can  *)
(* repair the sandbox or others keep deleting it.                          *)
RetriesSucceed ==
    \A id \in Ids :
        []<>(\E c \in Calls : At(c, "ensure", "get") /\ call[c].id = id)
            => []<>(Ensured(id) \/ Wedged(id) \/ BeingDeleted(id))
=============================================================================
