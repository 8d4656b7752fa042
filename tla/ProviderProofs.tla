--------------------------- MODULE ProviderProofs ---------------------------
(***************************************************************************)
(* Proofs about Providers for every set of ids, addresses and calls, and   *)
(* every number of faults.                                                 *)
(*                                                                         *)
(* The argument: a resource or an actor only goes once it was being        *)
(* deleted, and whoever begins a deletion marks every Ensure of that id as *)
(* disturbed.  So what an undisturbed Ensure has read (that the sandbox    *)
(* exists, its template, its policy) is still true whenever it acts on it: *)
(* EnsureInv.  A List that is between two pages has collected, of what was *)
(* there all along, at least what the pages read so far held, and nothing  *)
(* that was never there: ListInv.  Both are kept by every step of another  *)
(* call (Bystander), so each action is checked for its own call only.      *)
(***************************************************************************)
EXTENDS Providers, TLAPS

-----------------------------------------------------------------------------
(***************************************************************************)
(* Types.                                                                  *)
(***************************************************************************)
Results == {"ok", "error"} \cup {None}
Answers == Addrs \cup Ids \cup {None}

(* A call that returns is a call. *)
LEMMA ReturnedType ==
  ASSUME call \in [Calls -> Call], NEW c \in Calls, NEW o \in Results, NEW a \in Answers
  PROVE  Returned(c, o, a) \in Call
<1>1. ASSUME NEW r \in Call, NEW b \in BOOLEAN
      PROVE  [r EXCEPT !.pc = "done", !.out = o, !.ans = a,
                       !.seen = None, !.resumed = b, !.served = {}] \in Call
  <2>1. "done" \in PCs
    BY DEF PCs
  <2>2. \A x \in Call, p \in PCs :
           [x EXCEPT !.pc = p, !.out = o, !.ans = a] \in Call
    BY DEF Call, Results, Answers
  <2>3. \A x \in Call :
           [x EXCEPT !.seen = None, !.resumed = b, !.served = {}] \in Call
    <3>1. \A x \in Call : [x EXCEPT !.seen = None, !.resumed = b] \in Call
      BY DEF Call
    <3>2. \A x \in Call : [x EXCEPT !.served = {}] \in Call
      BY DEF Call
    <3> QED BY <3>1, <3>2
  <2> DEFINE x == [r EXCEPT !.pc = "done", !.out = o, !.ans = a]
  <2>4. [x EXCEPT !.seen = None, !.resumed = b, !.served = {}] \in Call
    BY <2>1, <2>2, <2>3
  <2> QED BY <2>4
<1>2. call[c] \in Call
  OBVIOUS
<1> QED BY <1>1, <1>2, Zenon DEF Returned

(* However a call moves on, calls stay calls. *)
LEMMA MoveTypes ==
  ASSUME call \in [Calls -> Call], NEW c \in Calls
  PROVE  /\ \A pc \in PCs : Goto(c, pc) => call' \in [Calls -> Call]
         /\ \A a \in Answers : Answer(c, a) => call' \in [Calls -> Call]
         /\ Fail(c) => call' \in [Calls -> Call]
<1>1. ASSUME NEW pc \in PCs, Goto(c, pc) PROVE call' \in [Calls -> Call]
  BY <1>1 DEF Goto, Call
<1>2. ASSUME NEW a \in Answers, Answer(c, a) PROVE call' \in [Calls -> Call]
  BY <1>2, ReturnedType DEF Answer, Results
<1>3. ASSUME Fail(c) PROVE call' \in [Calls -> Call]
  BY <1>3, ReturnedType DEF Fail, Results, Answers
<1> QED BY <1>1, <1>2, <1>3

(* So they do when something happens to their id. *)
LEMMA NoticeTypes ==
  ASSUME NEW cs \in [Calls -> Call], NEW id \in Ids
  PROVE  /\ Disturb(cs, id) \in [Calls -> Call]
         /\ Appears(cs, id) \in [Calls -> Call]
         /\ Disappears(cs, id) \in [Calls -> Call]
<1>1. Disturb(cs, id) \in [Calls -> Call]
  <2>1. \A r \in Call : [r EXCEPT !.disturbed = TRUE] \in Call
    BY Zenon DEF Call
  <2> QED BY <2>1 DEF Disturb
<1>2. Appears(cs, id) \in [Calls -> Call]
  BY DEF Appears, Call
<1>3. Disappears(cs, id) \in [Calls -> Call]
  BY DEF Disappears, Call
<1> QED BY <1>1, <1>2, <1>3

(* And when they move. *)
LEMMA PcTypes ==
  ASSUME NEW cs \in [Calls -> Call], NEW c \in Calls, NEW pc \in PCs
  PROVE  [cs EXCEPT ![c].pc = pc] \in [Calls -> Call]
BY DEF Call

(* The records a call starts from. *)
LEMMA NoCallType == NoCall \in Call
<1>1. \A b, d \in BOOLEAN :
        [pc |-> "idle", op |-> None, id |-> None, out |-> None, ans |-> None,
         seen |-> None, resumed |-> b, served |-> {}, listed |-> {},
         disturbed |-> d, kept |-> {}, met |-> {}] \in Call
  BY DEF Call, PCs
<1> QED BY <1>1, Zenon DEF NoCall

(* The calls any provider shares. *)
LEMMA SharedTypes ==
  ASSUME ProviderTypeOK, NEW c \in Calls, NEW ids \in SUBSET Ids,
         \/ ApiFails(c) \/ Take(c) \/ StartList(c, ids)
         \/ \E id \in Ids : StartEnsure(c, id, ids) \/ StartDelete(c, id)
  PROVE  ProviderTypeOK'
<1> USE ProviderAssumption DEF ProviderTypeOK
<1>1. CASE ApiFails(c)
  BY <1>1, MoveTypes DEF ApiFails, Fault
<1>2. CASE Take(c)
  BY <1>2, NoCallType DEF Take
<1>3. CASE StartList(c, ids)
  <2>1. [NoCall EXCEPT !.op = "list", !.pc = "list", !.kept = ids, !.met = ids] \in Call
    BY NoCallType DEF Call, PCs
  <2> QED BY <1>3, <2>1 DEF StartList
<1>4. ASSUME NEW id \in Ids, StartEnsure(c, id, ids) PROVE ProviderTypeOK'
  <2>1. \A b \in BOOLEAN : [NoCall EXCEPT !.pc = "get", !.op = "ensure",
                              !.id = id, !.disturbed = b] \in Call
    BY NoCallType DEF Call, PCs
  <2>2. [NoCall EXCEPT !.pc = "get", !.op = "ensure",
                       !.id = id, !.disturbed = id \in ids] \in Call
    <3>1. (id \in ids) \in BOOLEAN
      OBVIOUS
    <3> QED BY <2>1, <3>1, Zenon
  <2> QED BY <1>4, <2>2 DEF StartEnsure
<1>5. ASSUME NEW id \in Ids, StartDelete(c, id) PROVE ProviderTypeOK'
  <2>1. \A pc \in PCs : [NoCall EXCEPT !.op = "delete", !.id = id, !.pc = pc] \in Call
    BY NoCallType DEF Call
  <2>2. (IF kind = "substrate" THEN "suspend" ELSE "delete") \in PCs
    BY DEF PCs
  <2> QED BY <1>5, <2>1, <2>2 DEF StartDelete
<1> QED BY <1>1, <1>2, <1>3, <1>4, <1>5

(* What the controllers do to a resource leaves it one. *)
LEMMA ResourceTypes ==
  /\ NoResource \in Resource
  /\ Fresh \in Resource
  /\ \A r \in Resource :
        /\ [r EXCEPT !.deleting = TRUE] \in Resource
        /\ [r EXCEPT !.ns = TRUE] \in Resource
        /\ \A s \in Statuses : [r EXCEPT !.status = s] \in Resource
        /\ \A a \in Addrs : [r EXCEPT !.status = "ready", !.ip = a] \in Resource
<1>1. \A b, d, n \in BOOLEAN :
        [exists |-> b, deleting |-> d, status |-> "pending", ns |-> n, ip |-> None] \in Resource
  BY DEF Resource, Statuses
<1>2. NoResource \in Resource
  BY <1>1, Zenon DEF NoResource
<1>3. \A r \in Resource, b \in BOOLEAN :
        /\ [r EXCEPT !.exists = b] \in Resource
        /\ [r EXCEPT !.deleting = b] \in Resource
        /\ [r EXCEPT !.ns = b] \in Resource
  BY DEF Resource
<1>4. \A r \in Resource :
        /\ \A s \in Statuses : [r EXCEPT !.status = s] \in Resource
        /\ \A a \in Addrs : [r EXCEPT !.status = "ready", !.ip = a] \in Resource
  BY DEF Resource, Statuses
<1>5. Fresh \in Resource
  BY <1>2, <1>3, Zenon DEF Fresh
<1>6. \A r \in Resource : /\ [r EXCEPT !.deleting = TRUE] \in Resource
                          /\ [r EXCEPT !.ns = TRUE] \in Resource
  BY <1>3, Zenon
<1> QED BY <1>2, <1>4, <1>5, <1>6

(* A step of a call on a custom resource keeps the types. *)
LEMMA CRCallTypes ==
  ASSUME ProviderTypeOK, CustomResourceTypeOK, NEW c \in Calls,
         call[c].op \in {"ensure", "delete"} => call[c].id \in Ids,
         CRCallStep(c) \/ PollExpires(c)
  PROVE  ProviderTypeOK' /\ CustomResourceTypeOK'
<1> USE ProviderAssumption DEF ProviderTypeOK, CustomResourceTypeOK, At
<1> DEFINE id == call[c].id
<1>0. {"poll", "create", "reget", "create policy", "get policy", "list pods"} \subseteq PCs
  BY DEF PCs
<1>m. ASSUME NEW p \in [Ids -> Policies], policy' = p, UNCHANGED <<kind, faults, crVars>>,
             \/ \E pc \in PCs : Goto(c, pc)
             \/ \E a \in Answers : Answer(c, a)
             \/ Fail(c)
      PROVE  ProviderTypeOK' /\ CustomResourceTypeOK'
  BY <1>m, MoveTypes DEF crVars
<1>1. CASE GetResource(c)
  BY <1>1, <1>m, <1>0 DEF GetResource
<1>2. CASE CreateResource(c)
  <2>1. CASE UNCHANGED cr /\ Goto(c, IF kind = "sandboxclaim" THEN "reget" ELSE "poll")
    BY <1>2, <2>1, <1>m, <1>0 DEF CreateResource, crVars
  <2>2. CASE /\ cr' = [cr EXCEPT ![id] = Fresh]
             /\ call' = [Appears(call, id) EXCEPT ![c].pc = "poll"]
    <3>1. id \in Ids
      BY <1>2 DEF CreateResource
    <3>2. Appears(call, id) \in [Calls -> Call]
      BY <3>1, NoticeTypes
    <3>3. call' \in [Calls -> Call]
      BY <2>2, <3>2, <1>0, PcTypes
    <3>4. cr' \in [Ids -> Resource]
      BY <2>2, <3>1, ResourceTypes
    <3> QED BY <1>2, <3>3, <3>4 DEF CreateResource
  <2> QED BY <1>2, <2>1, <2>2 DEF CreateResource
<1>3. CASE ReGetResource(c)
  BY <1>3, <1>m, <1>0 DEF ReGetResource
<1>4. CASE PollResource(c)
  <2>1. id \in Ids
    BY <1>4 DEF PollResource
  <2>2. cr[id].ip \in Answers
    BY <2>1 DEF Resource, Answers
  <2> QED BY <1>4, <1>m, <1>0, <2>2 DEF PollResource
<1>5. CASE CreateIngress(c)
  <2>1. id \in Ids
    BY <1>5 DEF CreateIngress
  <2>2. policy' \in [Ids -> Policies]
    BY <1>5, <2>1 DEF CreateIngress, Policies
  <2> QED BY <1>5, <1>m, <1>0, <2>2 DEF CreateIngress
<1>6. CASE GetIngress(c)
  BY <1>6, <1>m, <1>0 DEF GetIngress
<1>7. CASE ListPods(c)
  <2>1. id \in Ids
    BY <1>7 DEF ListPods
  <2>2. cr[id].ip \in Answers
    BY <2>1 DEF Resource, Answers
  <2> QED BY <1>7, <1>m, <2>2 DEF ListPods
<1>8. CASE PollExpires(c)
  BY <1>8, <1>m DEF PollExpires
<1>9. CASE DeleteResource(c)
  <2>1. CASE Answer(c, None) /\ UNCHANGED cr
    BY <1>9, <2>1, <1>m DEF DeleteResource, Answers, crVars
  <2>2. CASE /\ cr' = [cr EXCEPT ![id].deleting = TRUE]
             /\ call' = [Disturb(call, id) EXCEPT ![c] = Returned(c, "ok", None)]
    <3>1. id \in Ids
      BY <1>9 DEF DeleteResource
    <3>2. Disturb(call, id) \in [Calls -> Call] /\ Returned(c, "ok", None) \in Call
      BY <3>1, NoticeTypes, ReturnedType DEF Results, Answers
    <3>3. call' \in [Calls -> Call]
      BY <2>2, <3>2
    <3>4. cr' \in [Ids -> Resource]
      BY <2>2, <3>1, ResourceTypes
    <3> QED BY <1>9, <3>3, <3>4 DEF DeleteResource
  <2> QED BY <1>9, <2>1, <2>2 DEF DeleteResource
<1>10. CASE ListResources(c)
  <2>1. Returned(c, "ok", None) \in Call /\ CRManaged \in SUBSET Ids
    BY ReturnedType DEF Results, Answers, CRManaged
  <2>2. [Returned(c, "ok", None) EXCEPT !.listed = CRManaged] \in Call
    BY <2>1 DEF Call
  <2> QED BY <1>10, <2>2 DEF ListResources, crVars
<1> QED BY <1>1, <1>2, <1>3, <1>4, <1>5, <1>6, <1>7, <1>8, <1>9, <1>10 DEF CRCallStep

(* Faults stay within their bound. *)
LEMMA FaultType ==
  ASSUME faults \in 0..MaxFaults, Fault
  PROVE  faults' \in 0..MaxFaults
BY ProviderAssumption DEF Fault

(* A step of a controller keeps the types. *)
LEMMA CRControllerTypes ==
  ASSUME ProviderTypeOK, CustomResourceTypeOK, NEW id \in Ids,
         \/ CRControllerStep(id) \/ PodDies(id) \/ NoLongerReady(id) \/ FailsForGood(id)
         \/ OperatorPolicy(id) /\ UNCHANGED crVars
  PROVE  ProviderTypeOK' /\ CustomResourceTypeOK'
<1> USE DEF ProviderTypeOK, CustomResourceTypeOK, providerVars
<1>1. CASE BecomesReady(id)
  BY <1>1, ResourceTypes DEF BecomesReady, Statuses
<1>2. CASE NamespaceSet(id)
  BY <1>2, ResourceTypes DEF NamespaceSet
<1>3. ASSUME NEW a \in Addrs, AddressPublished(id, a)
      PROVE  ProviderTypeOK' /\ CustomResourceTypeOK'
  BY <1>3, ResourceTypes DEF AddressPublished
<1>4. CASE Finalized(id)
  <2>1. call' \in [Calls -> Call]
    BY <1>4, NoticeTypes DEF Finalized
  <2>2. cr' \in [Ids -> Resource] /\ podUp' \in SUBSET Ids
    BY <1>4, ResourceTypes DEF Finalized
  <2>3. policy' \in [Ids -> Policies]
    BY <1>4 DEF Finalized, Policies
  <2> QED BY <1>4, <2>1, <2>2, <2>3 DEF Finalized
<1>5. CASE PodDies(id)
  BY <1>5, FaultType DEF PodDies
<1>6. CASE NoLongerReady(id)
  <2>1. cr' \in [Ids -> Resource]
    BY <1>6, ResourceTypes DEF NoLongerReady, Statuses
  <2> QED BY <1>6, <2>1 DEF NoLongerReady
<1>7. CASE FailsForGood(id)
  <2>1. cr' \in [Ids -> Resource]
    BY <1>7, ResourceTypes DEF FailsForGood, Statuses
  <2> QED BY <1>7, <2>1, FaultType DEF FailsForGood
<1>8. CASE OperatorPolicy(id) /\ UNCHANGED crVars
  BY <1>8, FaultType DEF OperatorPolicy, crVars, Policies
<1> QED BY <1>1, <1>2, <1>3, <1>4, <1>5, <1>6, <1>7, <1>8 DEF CRControllerStep

(* The server leaves an actor an actor. *)
LEMMA ActorTypes ==
  /\ NoActor \in Actor
  /\ NewActor(TRUE) \in Actor /\ NewActor(FALSE) \in Actor
  /\ \A r \in Actor : \A s \in ActorStates : [r EXCEPT !.state = s, !.app = FALSE] \in Actor
  /\ \A r \in Actor : [r EXCEPT !.app = TRUE, !.served = TRUE] \in Actor
<1>1. \A b, d, e \in BOOLEAN :
        [state |-> "ABSENT", mine |-> b, app |-> d, served |-> e] \in Actor
  BY DEF Actor
<1>2. NoActor \in Actor
  BY <1>1, Zenon DEF NoActor
<1>3. \A b \in BOOLEAN : NewActor(b) \in Actor
  BY <1>2 DEF NewActor, Actor, ActorStates
<1>4. \A r \in Actor, s \in ActorStates, b \in BOOLEAN :
        [r EXCEPT !.state = s, !.app = b] \in Actor
  BY DEF Actor
<1>5. \A r \in Actor, b, d \in BOOLEAN : [r EXCEPT !.app = b, !.served = d] \in Actor
  BY DEF Actor
<1>6. \A r \in Actor : \A s \in ActorStates : [r EXCEPT !.state = s, !.app = FALSE] \in Actor
  BY <1>4, Zenon
<1>7. \A r \in Actor : [r EXCEPT !.app = TRUE, !.served = TRUE] \in Actor
  BY <1>5, Zenon
<1>8. NewActor(TRUE) \in Actor /\ NewActor(FALSE) \in Actor
  BY <1>3, Zenon
<1> QED BY <1>2, <1>6, <1>7, <1>8

(* So does a move. *)
LEMMA MovedType ==
  ASSUME actor \in [Ids -> Actor], NEW id \in Ids, NEW s \in ActorStates
  PROVE  Moved(id, s) \in [Ids -> Actor]
<1>1. Moved(id, s) = [actor EXCEPT ![id] = [actor[id] EXCEPT !.state = s, !.app = FALSE]]
  BY DEF Moved
<1>2. [actor[id] EXCEPT !.state = s, !.app = FALSE] \in Actor
  BY ActorTypes
<1> QED BY <1>1, <1>2

(* A step of the server or of its operators keeps the types. *)
LEMMA ServerTypes ==
  ASSUME ProviderTypeOK, SubstrateTypeOK, NEW id \in Ids,
         \/ ServerStep(id) \/ Intervenes(id)
         \/ OperatorPolicy(id) /\ UNCHANGED actorVars
  PROVE  ProviderTypeOK' /\ SubstrateTypeOK'
<1> USE DEF ProviderTypeOK, SubstrateTypeOK, providerVars
<1>0. {"RUNNING", "SUSPENDED", "CRASHED", "SUSPENDING", "REVERTING"} \subseteq ActorStates
  BY DEF ActorStates
<1>1. CASE Completes(id)
  <2>1. CASE actor[id].state = "DELETING"
    <3>1. actor' = [actor EXCEPT ![id] = NoActor] /\ policy' = [policy EXCEPT ![id] = "none"]
          /\ call' = Disappears(call, id)
      BY <1>1, <2>1 DEF Completes
    <3>2. actor' \in [Ids -> Actor]
      BY <3>1, ActorTypes
    <3>3. call' \in [Calls -> Call] /\ policy' \in [Ids -> Policies]
      BY <3>1, NoticeTypes DEF Policies
    <3> QED BY <1>1, <3>2, <3>3 DEF Completes
  <2>2. CASE actor[id].state # "DELETING"
    <3>1. UNCHANGED <<call, policy>>
      BY <1>1, <2>2 DEF Completes
    <3>2. actor' = Moved(id, "RUNNING") \/ actor' = Moved(id, "SUSPENDED")
      BY <1>1, <2>2 DEF Completes
    <3>3. actor' \in [Ids -> Actor]
      BY <3>2, <1>0, MovedType
    <3> QED BY <1>1, <3>1, <3>3 DEF Completes
  <2> QED BY <2>1, <2>2
<1>2. CASE AppListens(id)
  <2>1. actor' = [actor EXCEPT ![id] = [actor[id] EXCEPT !.app = TRUE, !.served = TRUE]]
    BY <1>2 DEF AppListens
  <2>2. actor' \in [Ids -> Actor]
    BY <2>1, ActorTypes
  <2> QED BY <1>2, <2>2 DEF AppListens
<1>3. CASE Intervenes(id)
  <2>1. \/ \E s \in ActorStates : actor' = Moved(id, s)
        \/ actor' = [actor EXCEPT ![id] = NewActor(FALSE)]
    BY <1>3, <1>0 DEF Intervenes
  <2>2. actor' \in [Ids -> Actor]
    <3>1. ASSUME NEW s \in ActorStates, actor' = Moved(id, s) PROVE actor' \in [Ids -> Actor]
      BY <3>1, MovedType
    <3>2. CASE actor' = [actor EXCEPT ![id] = NewActor(FALSE)]
      BY <3>2, ActorTypes
    <3> QED BY <2>1, <3>1, <3>2
  <2> QED BY <1>3, <2>2, FaultType DEF Intervenes
<1>4. CASE OperatorPolicy(id) /\ UNCHANGED actorVars
  BY <1>4, FaultType DEF OperatorPolicy, actorVars, Policies
<1> QED BY <1>1, <1>2, <1>3, <1>4 DEF ServerStep

(* A step of a call on an actor keeps the types. *)
LEMMA ActorCallTypes ==
  ASSUME ProviderTypeOK, SubstrateTypeOK, NEW c \in Calls,
         call[c].op \in {"ensure", "delete"} => call[c].id \in Ids,
         ActorCallStep(c) \/ WaitExpires(c) \/ ProbeExpires(c)
  PROVE  ProviderTypeOK' /\ SubstrateTypeOK'
<1> USE DEF ProviderTypeOK, SubstrateTypeOK, At
<1> DEFINE id == call[c].id
<1>0. {"poll", "create", "reget", "create policy", "get policy", "reget policy",
       "wait", "sleep", "probe", "delete"} \subseteq PCs
  BY DEF PCs
<1>m. ASSUME NEW p \in [Ids -> Policies], policy' = p, UNCHANGED <<kind, faults, actorVars>>,
             \/ \E pc \in PCs : Goto(c, pc)
             \/ \E a \in Answers : Answer(c, a)
             \/ Fail(c)
      PROVE  ProviderTypeOK' /\ SubstrateTypeOK'
  BY <1>m, MoveTypes DEF actorVars
<1>s. ASSUME NEW cs \in [Calls -> Call], NEW pc \in PCs, NEW st \in ActorStates
      PROVE  [cs EXCEPT ![c].pc = pc, ![c].seen = st] \in [Calls -> Call]
  <2>1. \A r \in Call : [r EXCEPT !.pc = pc, !.seen = st] \in Call
    BY DEF Call
  <2>2. [cs[c] EXCEPT !.pc = pc, !.seen = st] \in Call
    BY <2>1
  <2>3. [cs EXCEPT ![c].pc = pc, ![c].seen = st]
          = [cs EXCEPT ![c] = [cs[c] EXCEPT !.pc = pc, !.seen = st]]
    OBVIOUS
  <2> QED BY <2>2, <2>3
<1>f. ASSUME id \in Ids, Exists(id), Found(c, actor[id]), UNCHANGED <<kind, policy, faults, actorVars>>
      PROVE  ProviderTypeOK' /\ SubstrateTypeOK'
  <2>1. actor[id].state \in ActorStates
    BY <1>f DEF Exists, Actor
  <2>2. (IF allowlist THEN "get policy" ELSE "wait") \in PCs
    BY DEF PCs
  <2>3. CASE call' = [call EXCEPT ![c].pc = IF allowlist THEN "get policy" ELSE "wait",
                                  ![c].seen = actor[id].state]
    <3>1. call' \in [Calls -> Call]
      BY <2>1, <2>2, <2>3, <1>s
    <3> QED BY <1>f, <3>1 DEF actorVars
  <2>4. CASE Fail(c)
    BY <1>f, <2>4, <1>m
  <2> QED BY <1>f, <2>3, <2>4 DEF Found
<1>1. CASE GetActor(c)
  BY <1>1, <1>m, <1>f, <1>0 DEF GetActor
<1>2. CASE CreateActor(c)
  <2>1. CASE Goto(c, "reget") /\ UNCHANGED actor
    BY <1>2, <2>1, <1>m, <1>0 DEF CreateActor, actorVars
  <2>2. CASE /\ actor' = [actor EXCEPT ![id] = NewActor(TRUE)]
             /\ call' = [Appears(call, id) EXCEPT
                           ![c].pc = IF allowlist THEN "get policy" ELSE "wait",
                           ![c].seen = "SUSPENDED"]
    <3>1. id \in Ids
      BY <1>2 DEF CreateActor
    <3>2. Appears(call, id) \in [Calls -> Call] /\ "SUSPENDED" \in ActorStates
      BY <3>1, NoticeTypes DEF ActorStates
    <3>3. (IF allowlist THEN "get policy" ELSE "wait") \in PCs
      BY DEF PCs
    <3>4. call' \in [Calls -> Call]
      BY <2>2, <3>2, <3>3, <1>s
    <3>5. actor' \in [Ids -> Actor]
      BY <2>2, <3>1, ActorTypes
    <3> QED BY <1>2, <3>4, <3>5 DEF CreateActor
  <2> QED BY <1>2, <2>1, <2>2 DEF CreateActor
<1>3. CASE ReGetActor(c)
  BY <1>3, <1>m, <1>f DEF ReGetActor
<1>4. CASE GetEgress(c)
  BY <1>4, <1>m, <1>0 DEF GetEgress
<1>5. CASE CreateEgress(c)
  <2>1. id \in Ids
    BY <1>5 DEF CreateEgress
  <2>2. policy' \in [Ids -> Policies]
    BY <1>5, <2>1 DEF CreateEgress, Policies
  <2> QED BY <1>5, <1>m, <1>0, <2>2 DEF CreateEgress
<1>6. CASE ReGetEgress(c)
  BY <1>6, <1>m, <1>0 DEF ReGetEgress
<1>7. CASE ObservesRunning(c)
  BY <1>7, <1>m, <1>0 DEF ObservesRunning
<1>8. CASE Resumes(c)
  <2>1. CASE Fail(c) /\ UNCHANGED actor
    BY <1>8, <2>1, <1>m DEF Resumes, actorVars
  <2>2. CASE /\ actor' = IF actor[id].state = "SUSPENDED" THEN Moved(id, "RESUMING") ELSE actor
             /\ call' = [call EXCEPT ![c].pc = "sleep", ![c].resumed = TRUE]
    <3>1. id \in Ids
      BY <1>8 DEF Resumes, Observes
    <3>2. actor' \in [Ids -> Actor]
      BY <2>2, <3>1, MovedType DEF ActorStates
    <3>3. \A r \in Call, b \in BOOLEAN : [r EXCEPT !.pc = "sleep", !.resumed = b] \in Call
      <4>1. "sleep" \in PCs
        BY DEF PCs
      <4> QED BY <4>1 DEF Call
    <3>5. \A r \in Call : [r EXCEPT !.pc = "sleep", !.resumed = TRUE] \in Call
      BY <3>3, Zenon
    <3>6. call' = [call EXCEPT ![c] = [call[c] EXCEPT !.pc = "sleep", !.resumed = TRUE]]
      BY <2>2
    <3>4. call' \in [Calls -> Call]
      BY <3>5, <3>6
    <3> QED BY <1>8, <3>2, <3>4 DEF Resumes
  <2> QED BY <1>8, <2>1, <2>2 DEF Resumes
<1>9. CASE ObservesEnd(c)
  BY <1>9, <1>m DEF ObservesEnd
<1>10. CASE ObservesTransition(c)
  BY <1>10, <1>m, <1>0 DEF ObservesTransition
<1>11. CASE GetActorDuringWait(c)
  <2>1. CASE Exists(id)
    <3>1. actor[id].state \in ActorStates
      BY <1>11, <2>1 DEF GetActorDuringWait, Exists, Actor
    <3>2. /\ call' = [call EXCEPT ![c].pc = "wait", ![c].seen = actor[id].state]
          /\ UNCHANGED <<kind, policy, faults, actorVars>>
      BY <1>11, <2>1 DEF GetActorDuringWait
    <3>3. call' \in [Calls -> Call]
      BY <3>1, <3>2, <1>s, <1>0
    <3> QED BY <3>2, <3>3 DEF actorVars
  <2>2. CASE ~Exists(id)
    BY <1>11, <2>2, <1>m DEF GetActorDuringWait
  <2> QED BY <2>1, <2>2
<1>12. CASE ProbeAnswered(c)
  BY <1>12, <1>m DEF ProbeAnswered, Answers
<1>13. CASE SuspendActor(c)
  <2>1. CASE Goto(c, "delete") /\ UNCHANGED actor
    BY <1>13, <2>1, <1>m, <1>0 DEF SuspendActor, actorVars
  <2>2. CASE /\ actor' = Moved(id, "SUSPENDING")
             /\ call' = [Disturb(call, id) EXCEPT ![c].pc = "delete"]
    <3>1. id \in Ids
      BY <1>13 DEF SuspendActor
    <3>2. Disturb(call, id) \in [Calls -> Call]
      BY <3>1, NoticeTypes
    <3>3. call' \in [Calls -> Call]
      BY <2>2, <3>2, <1>0, PcTypes
    <3>4. actor' \in [Ids -> Actor]
      BY <2>2, <3>1, MovedType DEF ActorStates
    <3> QED BY <1>13, <3>3, <3>4 DEF SuspendActor
  <2> QED BY <1>13, <2>1, <2>2 DEF SuspendActor
<1>14. CASE DeleteActor(c)
  <2>1. CASE (Answer(c, None) \/ Fail(c)) /\ UNCHANGED actor
    BY <1>14, <2>1, <1>m DEF DeleteActor, Answers, actorVars
  <2>2. CASE /\ actor' = Moved(id, "DELETING")
             /\ call' = [Disturb(call, id) EXCEPT ![c] = Returned(c, "ok", None)]
    <3>1. id \in Ids
      BY <1>14 DEF DeleteActor
    <3>2. Disturb(call, id) \in [Calls -> Call] /\ Returned(c, "ok", None) \in Call
      BY <3>1, NoticeTypes, ReturnedType DEF Results, Answers
    <3>3. call' \in [Calls -> Call]
      BY <2>2, <3>2
    <3>4. actor' \in [Ids -> Actor]
      BY <2>2, <3>1, MovedType DEF ActorStates
    <3> QED BY <1>14, <3>3, <3>4 DEF DeleteActor
  <2> QED BY <1>14, <2>1, <2>2 DEF DeleteActor
<1>15. CASE ListPage(c)
  <2> DEFINE left == {i \in Ids : Exists(i)} \ call[c].served
             read(page) == [call[c] EXCEPT !.served = @ \cup page,
                                           !.listed = @ \cup (page \cap ActorsManaged)]
  <2>1. PICK page \in SUBSET left :
          \/ call' = [call EXCEPT ![c] = read(page)]
          \/ call' = [call EXCEPT ![c] =
                        [Returned(c, "ok", None) EXCEPT !.listed = read(page).listed]]
    BY <1>15 DEF ListPage
  <2>2. read(page) \in Call
    <3>1. \A r \in Call, p, m \in SUBSET Ids :
            [r EXCEPT !.served = @ \cup p, !.listed = @ \cup m] \in Call
      BY DEF Call
    <3>2. page \in SUBSET Ids /\ page \cap ActorsManaged \in SUBSET Ids
      OBVIOUS
    <3> QED BY <3>1, <3>2
  <2>3. Returned(c, "ok", None) \in Call
    BY ReturnedType DEF Results, Answers
  <2>4. [Returned(c, "ok", None) EXCEPT !.listed = read(page).listed] \in Call
    BY <2>2, <2>3 DEF Call
  <2>5. call' \in [Calls -> Call]
    BY <2>1, <2>2, <2>4
  <2> QED BY <1>15, <2>5 DEF ListPage, actorVars
<1>16. CASE WaitExpires(c) \/ ProbeExpires(c)
  BY <1>16, <1>m DEF WaitExpires, ProbeExpires
<1> QED BY <1>1, <1>2, <1>3, <1>4, <1>5, <1>6, <1>7, <1>8, <1>9, <1>10, <1>11, <1>12,
           <1>13, <1>14, <1>15, <1>16 DEF ActorCallStep

-----------------------------------------------------------------------------
(***************************************************************************)
(* The inductive invariant.                                                *)
(***************************************************************************)
Deleting == IF kind = "substrate" THEN ActorsTerminating ELSE CRTerminating
Managed == IF kind = "substrate" THEN ActorsManaged ELSE CRManaged

(* What Ensure has established once it is past get-or-create. *)
Kept(id) ==
    IF kind = "substrate" THEN Exists(id) /\ actor[id].mine ELSE cr[id].exists

(* What it has established once it is past the policy. *)
PolicyIn(id) ==
    CASE kind = "substrate" -> (allowlist => policy[id] = "mine")
      [] kind = "karssandbox" -> policy[id] = "mine"
      [] OTHER -> TRUE

PastGet == {"poll", "get policy", "create policy", "reget policy", "list pods",
            "wait", "sleep", "probe"}
PastPolicy == {"list pods", "wait", "sleep", "probe"}

IdInv(r) == r.op \in {"ensure", "delete"} => r.id \in Ids

(* Who ensures a sandbox that is being deleted counts as disturbed, so an  *)
(* undisturbed call works on a sandbox that stays.                         *)
EnsureInv(r) ==
    r.op = "ensure" =>
        /\ r.id \in Deleting => r.disturbed
        /\ ~r.disturbed /\ (r.pc \in PastGet \/ r.out = "ok") => Kept(r.id)
        /\ ~r.disturbed /\ (r.pc \in PastPolicy \/ r.out = "ok") => PolicyIn(r.id)

(* Between two pages of a List. *)
ListInv(r) ==
    r.op = "list" =>
        /\ r.pc = "list" => /\ r.kept \subseteq Managed /\ Managed \subseteq r.met
                            /\ r.listed \subseteq r.met
                            /\ r.kept \cap r.served \subseteq r.listed
        /\ r.out = "ok" => r.kept \subseteq r.listed /\ r.listed \subseteq r.met
        /\ r.out # None => r.pc = "done"

CallsInv == \A c \in Calls : IdInv(call[c]) /\ EnsureInv(call[c]) /\ ListInv(call[c])

ResourceInv ==
    \A id \in Ids :
        /\ cr[id].deleting => cr[id].exists
        /\ cr[id].ip # None => cr[id].exists
        /\ id \in podUp => cr[id].ip # None

ActorInv ==
    \A id \in Ids :
        /\ actor[id].app => actor[id].state = "RUNNING" /\ actor[id].served
        /\ actor[id].served => Exists(id)

ProvidersInv ==
    /\ ProvidersTypeOK
    /\ ResourceInv
    /\ ActorInv
    /\ CallsInv

(* An Ensure or a Delete that moves on, in a world that stays as it is     *)
(* but for policies that are added, keeps the invariant if it has          *)
(* established what its new place asks for.                                *)
LEMMA MoveInv ==
  ASSUME CallsInv, call \in [Calls -> Call], NEW c \in Calls, NEW r \in Call,
         call' = [call EXCEPT ![c] = r],
         call[c].op \in {"ensure", "delete"},
         r.op = call[c].op, r.id = call[c].id, r.disturbed = call[c].disturbed,
         UNCHANGED <<kind, crVars, actorVars>>,
         \A id \in Ids : policy[id] = "mine" => policy'[id] = "mine",
         r.op = "ensure" /\ ~r.disturbed =>
            /\ r.pc \in PastGet \/ r.out = "ok" => Kept(r.id)
            /\ r.pc \in PastPolicy \/ r.out = "ok" => PolicyIn(r.id)'
  PROVE  CallsInv'
<1> USE DEF crVars, actorVars
<1>1. Deleting' = Deleting /\ Managed' = Managed
  BY DEF Deleting, Managed, ActorsTerminating, CRTerminating, ActorsManaged, CRManaged, Exists
<1>2. \A id \in Ids : (Kept(id) => Kept(id)') /\ (PolicyIn(id) => PolicyIn(id)')
  BY DEF Kept, PolicyIn, Exists
<1>3. SUFFICES ASSUME NEW d \in Calls
               PROVE  (IdInv(call[d]) /\ EnsureInv(call[d]) /\ ListInv(call[d]))'
  BY DEF CallsInv
<1>4. CASE d # c
  <2>1. call'[d] = call[d] /\ IdInv(call[d]) /\ EnsureInv(call[d]) /\ ListInv(call[d])
    BY <1>4 DEF CallsInv
  <2>2. IdInv(call[d])' /\ ListInv(call[d])'
    BY <2>1, <1>1 DEF IdInv, ListInv
  <2>3. EnsureInv(call[d])'
    BY <2>1, <1>1, <1>2 DEF EnsureInv, IdInv
  <2> QED BY <2>2, <2>3
<1>5. CASE d = c
  <2>1. call'[d] = r /\ IdInv(call[c]) /\ EnsureInv(call[c])
    BY <1>5 DEF CallsInv
  <2>2. IdInv(call[d])' /\ ListInv(call[d])'
    BY <2>1 DEF IdInv, ListInv
  <2>3. EnsureInv(call[d])'
    BY <2>1, <1>1, <1>2 DEF EnsureInv, IdInv
  <2> QED BY <2>2, <2>3
<1> QED BY <1>4, <1>5

(* So it does when it goes to its next API call, *)
LEMMA GotoInv ==
  ASSUME CallsInv, call \in [Calls -> Call], NEW c \in Calls, NEW pc \in PCs, Goto(c, pc),
         NEW i, i = call[c].id,
         call[c].op \in {"ensure", "delete"},
         UNCHANGED <<kind, crVars, actorVars>>,
         \A id \in Ids : policy[id] = "mine" => policy'[id] = "mine",
         call[c].op = "ensure" /\ ~call[c].disturbed =>
            /\ pc \in PastGet => call[c].pc \in PastGet \/ Kept(i)
            /\ pc \in PastPolicy => call[c].pc \in PastPolicy \/ PolicyIn(i)'
  PROVE  CallsInv'
<1>0. PICK r : r = [call[c] EXCEPT !.pc = pc]
  OBVIOUS
<1>1. call' = [call EXCEPT ![c] = r] /\ r \in Call
  BY <1>0 DEF Goto, Call
<1>2. r.op = call[c].op /\ r.id = call[c].id /\ r.disturbed = call[c].disturbed
      /\ r.out = call[c].out /\ r.pc = pc
  BY <1>0 DEF Call
<1>3. IdInv(call[c]) /\ EnsureInv(call[c])
  BY DEF CallsInv
<1>4. \A id \in Ids : PolicyIn(id) => PolicyIn(id)'
  BY DEF PolicyIn, actorVars
<1>5. r.op = "ensure" /\ ~r.disturbed =>
            /\ r.pc \in PastGet \/ r.out = "ok" => Kept(r.id)
            /\ r.pc \in PastPolicy \/ r.out = "ok" => PolicyIn(r.id)'
  BY <1>2, <1>3, <1>4 DEF EnsureInv, IdInv
<1> QED BY <1>1, <1>2, <1>5, MoveInv

(* when it returns a value, *)
LEMMA AnswerInv ==
  ASSUME CallsInv, call \in [Calls -> Call], NEW c \in Calls, NEW a \in Answers, Answer(c, a),
         NEW i, i = call[c].id,
         call[c].op \in {"ensure", "delete"},
         UNCHANGED <<kind, crVars, actorVars, policy>>,
         call[c].op = "ensure" /\ ~call[c].disturbed =>
            /\ call[c].pc \in PastGet
            /\ call[c].pc \in PastPolicy \/ PolicyIn(i)
  PROVE  CallsInv'
<1>0. PICK r : r = Returned(c, "ok", a)
  OBVIOUS
<1>1. call' = [call EXCEPT ![c] = r] /\ r \in Call
  BY <1>0, ReturnedType DEF Answer, Results
<1>2. r.op = call[c].op /\ r.id = call[c].id /\ r.disturbed = call[c].disturbed
  BY <1>0 DEF Returned, Call
<1>3. IdInv(call[c]) /\ EnsureInv(call[c])
  BY DEF CallsInv
<1>4. \A id \in Ids : PolicyIn(id) => PolicyIn(id)'
  BY DEF PolicyIn, actorVars
<1>5. r.op = "ensure" /\ ~r.disturbed => Kept(r.id) /\ PolicyIn(r.id)'
  BY <1>2, <1>3, <1>4 DEF EnsureInv, IdInv
<1> QED BY <1>1, <1>2, <1>5, MoveInv

(* and when it returns an error. *)
LEMMA FailInv ==
  ASSUME CallsInv, call \in [Calls -> Call], NEW c \in Calls, Fail(c),
         call[c].op \in {"ensure", "delete"},
         UNCHANGED <<kind, crVars, actorVars, policy>>
  PROVE  CallsInv'
<1> DEFINE r == Returned(c, "error", None)
<1>1. call' = [call EXCEPT ![c] = r] /\ r \in Call
  BY ReturnedType DEF Fail, Results, Answers
<1>2. r.op = call[c].op /\ r.id = call[c].id /\ r.disturbed = call[c].disturbed
      /\ r.pc = "done" /\ r.out = "error"
  BY DEF Returned, Call
<1>3. "done" \notin PastGet /\ "done" \notin PastPolicy
  BY DEF PastGet, PastPolicy
<1> HIDE DEF r
<1> QED BY <1>1, <1>2, <1>3, MoveInv

(* What a step does to a call that does not make it: it may take notice of *)
(* a delete, and a List of what comes and goes.                            *)
Notices(r, s) ==
    /\ s.op = r.op /\ s.id = r.id /\ s.pc = r.pc /\ s.out = r.out
    /\ r.disturbed => s.disturbed
    /\ s.served = r.served /\ s.listed = r.listed
    /\ s.kept \subseteq r.kept /\ r.met \subseteq s.met
    /\ r.op = "list" /\ r.pc # "list" => s.kept = r.kept

(* What a step has to do to the world and to a call d for that.            *)
WorldKeeps ==
    \A id \in Ids \ Deleting : (Kept(id) => Kept(id)') /\ (PolicyIn(id) => PolicyIn(id)')

Bystander(d) ==
    /\ Notices(call[d], call'[d])
    /\ call[d].op = "list" /\ call[d].pc = "list" =>
          call'[d].kept \subseteq Managed' /\ Managed' \subseteq call'[d].met
    /\ call[d].op = "ensure" /\ call[d].id \in Deleting' =>
          call[d].id \in Deleting \/ call'[d].disturbed

(* When nothing happens to what Ensure relies on, unless it is being       *)
(* deleted, a call that only takes notice keeps the invariant.             *)
LEMMA BystanderInv ==
  ASSUME CallsInv, WorldKeeps, NEW d \in Calls, Bystander(d)
  PROVE  (IdInv(call[d]) /\ EnsureInv(call[d]) /\ ListInv(call[d]))'
<1>1. IdInv(call[d]) /\ EnsureInv(call[d]) /\ ListInv(call[d]) /\ Notices(call[d], call'[d])
  BY DEF CallsInv, Bystander
<1>2. IdInv(call[d])'
  BY <1>1 DEF IdInv, Notices
<1>3. EnsureInv(call[d])'
  BY <1>1 DEF EnsureInv, IdInv, Notices, WorldKeeps, Bystander
<1>4. ListInv(call[d])'
  BY <1>1 DEF ListInv, Notices, Bystander
<1> QED BY <1>2, <1>3, <1>4

(* Disturb, Appears and Disappears do no more than that. *)
LEMMA NoticeFacts ==
  ASSUME NEW cs \in [Calls -> Call], NEW id \in Ids, NEW d \in Calls
  PROVE  /\ Notices(cs[d], cs[d])
         /\ Notices(cs[d], Disturb(cs, id)[d])
         /\ cs[d].op = "ensure" /\ cs[d].id = id => Disturb(cs, id)[d].disturbed
         /\ cs[d].op # "ensure" => Disturb(cs, id)[d] = cs[d]
         /\ Notices(cs[d], Appears(cs, id)[d])
         /\ Notices(cs[d], Disappears(cs, id)[d])
         /\ cs[d].op = "list" /\ cs[d].pc = "list" =>
               /\ Appears(cs, id)[d].kept = cs[d].kept
               /\ Appears(cs, id)[d].met = cs[d].met \cup {id}
               /\ Disappears(cs, id)[d].kept = cs[d].kept \ {id}
               /\ Disappears(cs, id)[d].met = cs[d].met
         /\ cs[d].op # "list" => /\ Appears(cs, id)[d] = cs[d]
                                 /\ Disappears(cs, id)[d] = cs[d]
<1> USE DEF Notices, Call
<1>1. Notices(cs[d], cs[d])
  OBVIOUS
<1>2. /\ Notices(cs[d], Disturb(cs, id)[d])
      /\ cs[d].op = "ensure" /\ cs[d].id = id => Disturb(cs, id)[d].disturbed
      /\ cs[d].op # "ensure" => Disturb(cs, id)[d] = cs[d]
  BY DEF Disturb
<1>3. /\ Notices(cs[d], Appears(cs, id)[d])
      /\ cs[d].op = "list" /\ cs[d].pc = "list" =>
               /\ Appears(cs, id)[d].kept = cs[d].kept
               /\ Appears(cs, id)[d].met = cs[d].met \cup {id}
      /\ cs[d].op # "list" => Appears(cs, id)[d] = cs[d]
  BY DEF Appears
<1>4. /\ Notices(cs[d], Disappears(cs, id)[d])
      /\ cs[d].op = "list" /\ cs[d].pc = "list" =>
               /\ Disappears(cs, id)[d].kept = cs[d].kept \ {id}
               /\ Disappears(cs, id)[d].met = cs[d].met
      /\ cs[d].op # "list" => Disappears(cs, id)[d] = cs[d]
  BY DEF Disappears
<1> QED BY <1>1, <1>2, <1>3, <1>4

(* A call on a custom resource keeps the invariant. *)
LEMMA CRCallInv ==
  ASSUME ProvidersInv, kind \in CustomResourceKinds, NEW c \in Calls,
         CRCallStep(c) \/ PollExpires(c), UNCHANGED actorVars
  PROVE  CallsInv' /\ ResourceInv'
<1> USE DEF ProvidersInv, ProvidersTypeOK, ProviderTypeOK, CustomResourceTypeOK, At
<1>0. {"poll", "create", "reget", "create policy", "get policy", "list pods"} \subseteq PCs
  BY DEF PCs
<1>i. PICK id : id = call[c].id
  OBVIOUS
<1>k. call[c].op \in {"ensure", "delete"} => id \in Ids
  BY <1>i DEF CallsInv, IdInv
<1>p. kind # "substrate"
  BY DEF CustomResourceKinds
<1>r. UNCHANGED cr /\ UNCHANGED podUp => ResourceInv'
  BY DEF ResourceInv
<1>1. CASE GetResource(c)
  <2>1. PICK pc \in PCs : Goto(c, pc) /\ (pc \in PastGet => Kept(id)) /\ pc \notin PastPolicy
    BY <1>1, <1>0, <1>i, <1>p DEF GetResource, Kept, PastGet, PastPolicy
  <2> QED BY <1>1, <2>1, <1>i, <1>r, GotoInv DEF GetResource, crVars
<1>2. CASE CreateResource(c)
  <2>1. CASE cr[id].exists /\ UNCHANGED cr
             /\ Goto(c, IF kind = "sandboxclaim" THEN "reget" ELSE "poll")
    <3>1. PICK pc \in PCs : Goto(c, pc) /\ pc \notin PastPolicy /\ Kept(id)
      BY <1>2, <2>1, <1>0, <1>i, <1>p DEF CreateResource, Kept, PastPolicy
    <3> QED BY <1>2, <2>1, <3>1, <1>i, <1>r, GotoInv DEF CreateResource, crVars
  <2>2. CASE /\ ~cr[id].exists
             /\ cr' = [cr EXCEPT ![id] = Fresh]
             /\ call' = [Appears(call, id) EXCEPT ![c].pc = "poll"]
    <3>1. id \in Ids /\ Appears(call, id) \in [Calls -> Call]
      BY <1>2, <1>i, <1>k, NoticeTypes DEF CreateResource
    <3>2. \A d \in Calls \ {c} : call'[d] = Appears(call, id)[d]
      BY <2>2, <3>1
    <3>3. call'[c] = [call[c] EXCEPT !.pc = "poll"] /\ call[c].op = "ensure"
      <4>1. call[c].op = "ensure" /\ Appears(call, id)[c] = call[c]
        BY <1>2, <3>1, NoticeFacts DEF CreateResource
      <4> QED BY <2>2, <3>1, <4>1
    <3>4. /\ cr'[id].exists /\ ~cr'[id].deleting /\ cr'[id].ip = None
          /\ \A j \in Ids \ {id} : cr'[j] = cr[j]
      BY <2>2, <3>1 DEF Fresh, NoResource
    <3>5. Deleting' \subseteq Deleting /\ Managed' = Managed \cup {id}
      BY <1>2, <3>1, <3>4, <1>p DEF CreateResource, Deleting, Managed, CRTerminating, CRManaged
    <3>6. WorldKeeps
      BY <1>2, <3>1, <3>4, <1>p DEF WorldKeeps, CreateResource, Kept, PolicyIn, actorVars
    <3>7. (IdInv(call[c]) /\ EnsureInv(call[c]) /\ ListInv(call[c]))'
      <4>1. IdInv(call[c]) /\ EnsureInv(call[c])
        BY DEF CallsInv
      <4>2. Kept(id)' /\ "poll" \notin PastPolicy
        BY <1>2, <3>4, <1>p DEF CreateResource, Kept, PastPolicy
      <4>3. /\ call'[c].op = "ensure" /\ call'[c].id = id /\ call'[c].pc = "poll"
            /\ call'[c].out = call[c].out /\ call'[c].disturbed = call[c].disturbed
        BY <3>3, <1>i DEF Call
      <4>4. ~call[c].disturbed => id \notin Deleting
        BY <4>1, <4>3, <1>2, <1>i DEF EnsureInv, CreateResource
      <4>5. ~call[c].disturbed /\ call[c].out = "ok" => PolicyIn(id)'
        BY <4>1, <4>4, <3>1, <3>3, <3>6, <1>i DEF EnsureInv, WorldKeeps
      <4>6. EnsureInv(call[c])'
        BY <4>2, <4>3, <4>4, <4>5, <3>5 DEF EnsureInv
      <4> QED BY <3>1, <4>3, <4>6 DEF IdInv, ListInv
    <3>8. ASSUME NEW d \in Calls \ {c} PROVE Bystander(d)
      <4>1. ListInv(call[d])
        BY DEF CallsInv
      <4> QED BY <3>1, <3>2, <3>5, <4>1, NoticeFacts DEF ListInv, Bystander
    <3>9. CallsInv'
      BY <3>6, <3>7, <3>8, BystanderInv DEF CallsInv
    <3> QED BY <1>2, <3>1, <3>4, <3>9 DEF CreateResource, ResourceInv
  <2> QED BY <1>2, <2>1, <2>2, <1>i DEF CreateResource
<1>3. CASE ReGetResource(c)
  <2>1. CASE cr[id].exists
    <3>1. Goto(c, "poll") /\ Kept(id) /\ "poll" \notin PastPolicy
      BY <1>3, <2>1, <1>i, <1>p DEF ReGetResource, Kept, PastPolicy
    <3> QED BY <1>3, <3>1, <1>0, <1>i, <1>r, GotoInv DEF ReGetResource, crVars
  <2>2. CASE ~cr[id].exists
    BY <1>3, <2>2, <1>i, <1>r, FailInv DEF ReGetResource, crVars
  <2> QED BY <2>1, <2>2
<1>4. CASE PollResource(c)
  <2>1. CASE Fail(c)
    BY <1>4, <2>1, <1>r, FailInv DEF PollResource, crVars
  <2>2. CASE kind # "karssandbox" /\ Answer(c, cr[id].ip)
    <3>1. cr[id].ip \in Answers
      BY <1>4, <1>k DEF PollResource, Resource, Answers
    <3>2. PolicyIn(id) /\ "poll" \in PastGet
      BY <2>2, <1>p DEF PolicyIn, PastGet
    <3> QED BY <1>4, <2>2, <3>1, <3>2, <1>i, <1>r, AnswerInv DEF PollResource, crVars
  <2>3. CASE Goto(c, "create policy")
    <3>1. "poll" \in PastGet /\ "create policy" \notin PastPolicy
      BY DEF PastGet, PastPolicy
    <3> QED BY <1>4, <2>3, <3>1, <1>0, <1>i, <1>r, GotoInv DEF PollResource, crVars
  <2> QED BY <1>4, <2>1, <2>2, <2>3, <1>i DEF PollResource
<1>5. CASE CreateIngress(c)
  <2>0. {"list pods", "get policy", "create policy"} \subseteq PastGet /\ "get policy" \notin PastPolicy
    BY DEF PastGet, PastPolicy
  <2>1. CASE Fail(c) /\ UNCHANGED policy
    BY <1>5, <2>1, <1>r, FailInv DEF CreateIngress, crVars
  <2>2. CASE policy' = [policy EXCEPT ![id] = "mine"] /\ Goto(c, "list pods")
    <3>1. PolicyIn(id)' /\ \A j \in Ids : policy[j] = "mine" => policy'[j] = "mine"
      BY <1>5, <2>2, <1>k DEF CreateIngress, PolicyIn
    <3> QED BY <1>5, <2>2, <2>0, <3>1, <1>0, <1>i, <1>r, GotoInv DEF CreateIngress, crVars
  <2>3. CASE Goto(c, "get policy") /\ UNCHANGED policy
    BY <1>5, <2>3, <2>0, <1>0, <1>i, <1>r, GotoInv DEF CreateIngress, crVars
  <2> QED BY <1>5, <2>1, <2>2, <2>3, <1>i DEF CreateIngress
<1>6. CASE GetIngress(c)
  <2>1. CASE policy[id] = "mine"
    <3>1. "get policy" \in PastGet /\ PolicyIn(id)'
      BY <1>6, <2>1 DEF PastGet, PolicyIn, GetIngress
    <3> QED BY <1>6, <2>1, <3>1, <1>0, <1>i, <1>r, GotoInv DEF GetIngress, crVars
  <2>2. CASE policy[id] # "mine"
    BY <1>6, <2>2, <1>i, <1>r, FailInv DEF GetIngress, crVars
  <2> QED BY <2>1, <2>2
<1>7. CASE ListPods(c)
  <2>1. cr[id].ip \in Answers
    BY <1>7, <1>k DEF ListPods, Resource, Answers
  <2>2. "list pods" \in PastGet /\ "list pods" \in PastPolicy
    BY DEF PastGet, PastPolicy
  <2> QED BY <1>7, <2>1, <2>2, <1>i, <1>r, AnswerInv DEF ListPods, crVars
<1>8. CASE PollExpires(c)
  BY <1>8, <1>r, FailInv DEF PollExpires, crVars
<1>9. CASE DeleteResource(c)
  <2>1. CASE Answer(c, None) /\ UNCHANGED cr
    BY <1>9, <2>1, <1>i, <1>r, AnswerInv DEF DeleteResource, Answers, crVars
  <2>2. CASE /\ cr[id].exists
             /\ cr' = [cr EXCEPT ![id].deleting = TRUE]
             /\ call' = [Disturb(call, id) EXCEPT ![c] = Returned(c, "ok", None)]
    <3>1. id \in Ids /\ Disturb(call, id) \in [Calls -> Call]
      BY <1>9, <1>i, <1>k, NoticeTypes DEF DeleteResource
    <3>2. \A d \in Calls \ {c} : call'[d] = Disturb(call, id)[d]
      BY <2>2, <3>1
    <3>3. call'[c].op = "delete" /\ call'[c].id = id
      BY <2>2, <3>1, <1>9, <1>i DEF Returned, Call, DeleteResource
    <3>4. /\ cr'[id].exists /\ cr'[id].ip = cr[id].ip
          /\ \A j \in Ids \ {id} : cr'[j] = cr[j]
      BY <2>2, <3>1 DEF Resource
    <3>5. Deleting' \subseteq Deleting \cup {id} /\ Managed' = Managed
      BY <1>9, <2>2, <3>1, <3>4, <1>p
      DEF DeleteResource, Deleting, Managed, CRTerminating, CRManaged
    <3>6. WorldKeeps
      BY <1>9, <3>1, <3>4, <1>p DEF WorldKeeps, DeleteResource, Kept, PolicyIn, actorVars
    <3>7. (IdInv(call[c]) /\ EnsureInv(call[c]) /\ ListInv(call[c]))'
      BY <3>1, <3>3 DEF IdInv, EnsureInv, ListInv
    <3>8. ASSUME NEW d \in Calls \ {c} PROVE Bystander(d)
      <4>1. ListInv(call[d])
        BY DEF CallsInv
      <4> QED BY <3>1, <3>2, <3>5, <4>1, NoticeFacts DEF ListInv, Bystander
    <3>9. CallsInv'
      BY <3>6, <3>7, <3>8, BystanderInv DEF CallsInv
    <3> QED BY <1>9, <3>1, <3>4, <3>9 DEF DeleteResource, ResourceInv
  <2> QED BY <1>9, <2>1, <2>2, <1>i DEF DeleteResource
<1>10. CASE ListResources(c)
  <2>1. Returned(c, "ok", None) \in Call /\ call[c].op = "list"
    BY <1>10, ReturnedType DEF Results, Answers, ListResources
  <2>2. /\ call'[c].op = "list" /\ call'[c].pc = "done" /\ call'[c].out = "ok"
        /\ call'[c].kept = call[c].kept /\ call'[c].met = call[c].met
        /\ call'[c].listed = CRManaged
    BY <1>10, <2>1 DEF ListResources, Returned, Call
  <2>3. \A d \in Calls \ {c} : call'[d] = call[d]
    BY <1>10 DEF ListResources
  <2>4. Deleting' = Deleting /\ Managed' = Managed /\ Managed = CRManaged
    BY <1>10, <1>p DEF ListResources, crVars, Deleting, Managed, CRTerminating, CRManaged
  <2>5. (IdInv(call[c]) /\ EnsureInv(call[c]) /\ ListInv(call[c]))'
    <3>1. ListInv(call[c])
      BY DEF CallsInv
    <3> QED BY <1>10, <2>2, <2>4, <3>1 DEF IdInv, EnsureInv, ListInv, ListResources
  <2>6. WorldKeeps
    BY <1>10, <1>p DEF WorldKeeps, ListResources, crVars, Kept, PolicyIn, actorVars
  <2>7. ASSUME NEW d \in Calls \ {c} PROVE Bystander(d)
    BY <2>3, <2>4 DEF Notices, CallsInv, ListInv, Bystander
  <2>8. CallsInv'
    BY <2>5, <2>6, <2>7, BystanderInv DEF CallsInv
  <2> QED BY <1>10, <1>r, <2>8 DEF ListResources, crVars
<1> QED BY <1>1, <1>2, <1>3, <1>4, <1>5, <1>6, <1>7, <1>8, <1>9, <1>10 DEF CRCallStep

(* So does a controller. *)
LEMMA CRControllerInv ==
  ASSUME ProvidersInv, kind \in CustomResourceKinds, NEW id \in Ids, UNCHANGED actorVars,
         \/ CRControllerStep(id) \/ PodDies(id) \/ NoLongerReady(id) \/ FailsForGood(id)
         \/ OperatorPolicy(id) /\ UNCHANGED crVars
  PROVE  CallsInv' /\ ResourceInv'
<1> USE DEF ProvidersInv, ProvidersTypeOK, ProviderTypeOK, CustomResourceTypeOK
<1>p. kind # "substrate"
  BY DEF CustomResourceKinds
<1>w. ASSUME kind' = kind, call' = call,
             \A j \in Ids : policy[j] # "none" => policy'[j] = policy[j],
             \A j \in Ids : cr'[j].exists = cr[j].exists /\ cr'[j].deleting = cr[j].deleting
      PROVE  CallsInv'
  <2>1. Deleting' = Deleting /\ Managed' = Managed
    BY <1>w, <1>p DEF Deleting, Managed, CRTerminating, CRManaged
  <2>2. WorldKeeps
    BY <1>w, <1>p DEF WorldKeeps, Kept, PolicyIn, actorVars
  <2>3. ASSUME NEW d \in Calls PROVE Bystander(d)
    BY <1>w, <2>1 DEF Notices, CallsInv, ListInv, Bystander
  <2> QED BY <2>2, <2>3, BystanderInv DEF CallsInv
<1>1. CASE BecomesReady(id)
  BY <1>1, <1>w DEF BecomesReady, providerVars, Resource, ResourceInv
<1>2. CASE NamespaceSet(id)
  BY <1>2, <1>w DEF NamespaceSet, providerVars, Resource, ResourceInv
<1>3. ASSUME NEW a \in Addrs, AddressPublished(id, a)
      PROVE  CallsInv' /\ ResourceInv'
  BY <1>3, <1>w, ProviderAssumption DEF AddressPublished, providerVars, Resource, ResourceInv
<1>4. CASE Finalized(id)
  <2>1. /\ ~cr'[id].exists /\ ~cr'[id].deleting /\ cr'[id].ip = None
        /\ \A j \in Ids \ {id} : cr'[j] = cr[j] /\ policy'[j] = policy[j]
        /\ id \in Deleting /\ kind' = kind
    BY <1>4, <1>p DEF Finalized, NoResource, Deleting, CRTerminating
  <2>2. Deleting' \subseteq Deleting /\ Managed' = Managed \ {id}
    BY <2>1, <1>p DEF Deleting, Managed, CRTerminating, CRManaged
  <2>3. WorldKeeps
    BY <2>1, <1>p DEF WorldKeeps, Kept, PolicyIn, actorVars
  <2>4. ASSUME NEW d \in Calls PROVE Bystander(d)
    <3>1. ListInv(call[d]) /\ call'[d] = Disappears(call, id)[d]
      BY <1>4 DEF CallsInv, Finalized
    <3> QED BY <2>2, <3>1, NoticeFacts DEF ListInv, Bystander
  <2>5. CallsInv'
    BY <2>3, <2>4, BystanderInv DEF CallsInv
  <2> QED BY <1>4, <2>1, <2>5 DEF Finalized, ResourceInv
<1>5. CASE PodDies(id)
  BY <1>5, <1>w DEF PodDies, ResourceInv
<1>6. CASE NoLongerReady(id)
  BY <1>6, <1>w DEF NoLongerReady, providerVars, Resource, ResourceInv
<1>7. CASE FailsForGood(id)
  BY <1>7, <1>w DEF FailsForGood, Resource, ResourceInv
<1>8. CASE OperatorPolicy(id) /\ UNCHANGED crVars
  BY <1>8, <1>w DEF OperatorPolicy, crVars, ResourceInv
<1> QED BY <1>1, <1>2, <1>3, <1>4, <1>5, <1>6, <1>7, <1>8 DEF CRControllerStep

(* So does the server, and whoever meddles with actors. *)
LEMMA ServerInv ==
  ASSUME ProvidersInv, kind = "substrate", NEW id \in Ids, UNCHANGED crVars,
         \/ ServerStep(id) \/ Intervenes(id)
         \/ OperatorPolicy(id) /\ UNCHANGED actorVars
  PROVE  CallsInv' /\ ActorInv'
<1> USE DEF ProvidersInv, ProvidersTypeOK, ProviderTypeOK, SubstrateTypeOK
<1>w. ASSUME kind' = kind, allowlist' = allowlist, call' = call,
             \A j \in Ids : policy[j] # "none" => policy'[j] = policy[j],
             \A j \in Ids : /\ Kept(j) <=> Kept(j)'
                            /\ actor'[j].state = "DELETING" => actor[j].state = "DELETING"
      PROVE  CallsInv'
  <2>1. Deleting' \subseteq Deleting /\ Managed' = Managed
    BY <1>w DEF Deleting, Managed, ActorsTerminating, ActorsManaged, Kept
  <2>2. WorldKeeps
    BY <1>w DEF WorldKeeps, PolicyIn
  <2>3. ASSUME NEW d \in Calls PROVE Bystander(d)
    BY <1>w, <2>1 DEF Notices, CallsInv, ListInv, Bystander
  <2> QED BY <2>2, <2>3, BystanderInv DEF CallsInv
<1>m. ASSUME NEW s \in ActorStates \ {"DELETING"}, actor' = Moved(id, s), Exists(id), kind' = kind
      PROVE  /\ \A j \in Ids : /\ Kept(j) <=> Kept(j)'
                               /\ actor'[j].state = "DELETING" => actor[j].state = "DELETING"
             /\ ActorInv'
  <2>1. /\ actor'[id].state = s /\ ~actor'[id].app /\ actor'[id].mine = actor[id].mine
        /\ \A j \in Ids \ {id} : actor'[j] = actor[j]
    BY <1>m DEF Moved, Actor
  <2>2. s # "ABSENT" /\ s # "DELETING"
    BY <1>m DEF ActorStates
  <2> QED BY <1>m, <2>1, <2>2 DEF Kept, Exists, ActorInv
<1>0. {"RUNNING", "SUSPENDED", "CRASHED", "SUSPENDING", "REVERTING"} \subseteq ActorStates \ {"DELETING"}
  BY DEF ActorStates
<1>1. CASE Completes(id)
  <2>1. CASE actor[id].state = "DELETING"
    <3>1. /\ actor' = [actor EXCEPT ![id] = NoActor] /\ policy' = [policy EXCEPT ![id] = "none"]
          /\ call' = Disappears(call, id) /\ kind' = kind /\ allowlist' = allowlist
      BY <1>1, <2>1 DEF Completes
    <3>2. /\ ~Exists(id)' /\ ~actor'[id].app /\ ~actor'[id].served
          /\ \A j \in Ids \ {id} : actor'[j] = actor[j] /\ policy'[j] = policy[j]
          /\ id \in Deleting
      BY <2>1, <3>1 DEF NoActor, Deleting, ActorsTerminating, Exists
    <3>3. Deleting' \subseteq Deleting /\ Managed' = Managed \ {id}
      BY <3>1, <3>2 DEF Deleting, Managed, ActorsTerminating, ActorsManaged, Exists
    <3>4. WorldKeeps
      BY <3>1, <3>2 DEF WorldKeeps, Kept, PolicyIn, Exists
    <3>5. ASSUME NEW d \in Calls PROVE Bystander(d)
      <4>1. ListInv(call[d]) /\ call'[d] = Disappears(call, id)[d]
        BY <3>1 DEF CallsInv
      <4> QED BY <3>3, <4>1, NoticeFacts DEF ListInv, Bystander
    <3>6. CallsInv'
      BY <3>4, <3>5, BystanderInv DEF CallsInv
    <3> QED BY <3>2, <3>6 DEF ActorInv, Exists
  <2>2. CASE actor[id].state # "DELETING"
    <3>1. UNCHANGED <<call, policy, kind, allowlist>> /\ Exists(id)
      BY <1>1, <2>2 DEF Completes, Exists
    <3>2. actor' = Moved(id, "RUNNING") \/ actor' = Moved(id, "SUSPENDED")
      BY <1>1, <2>2 DEF Completes
    <3>3. PICK s \in ActorStates \ {"DELETING"} : actor' = Moved(id, s)
      BY <3>2, <1>0
    <3> QED BY <3>1, <3>3, <1>m, <1>w
  <2> QED BY <2>1, <2>2
<1>2. CASE AppListens(id)
  <2>1. /\ actor[id].state = "RUNNING" /\ actor'[id].state = "RUNNING" /\ actor'[id].served
        /\ actor'[id].mine = actor[id].mine
        /\ \A j \in Ids \ {id} : actor'[j] = actor[j]
    BY <1>2 DEF AppListens, Actor
  <2>2. UNCHANGED <<call, policy, kind, allowlist>>
    BY <1>2 DEF AppListens, providerVars
  <2>3. \A j \in Ids : /\ Kept(j) <=> Kept(j)'
                       /\ actor'[j].state = "DELETING" => actor[j].state = "DELETING"
    BY <2>1, <2>2 DEF Kept, Exists
  <2> QED BY <2>1, <2>2, <2>3, <1>w DEF ActorInv, Exists
<1>3. CASE Intervenes(id)
  <2>1. UNCHANGED <<call, policy, kind, allowlist>>
    BY <1>3 DEF Intervenes
  <2>2. \/ Exists(id) /\ \E s \in ActorStates \ {"DELETING"} : actor' = Moved(id, s)
        \/ ~Exists(id) /\ actor' = [actor EXCEPT ![id] = NewActor(FALSE)]
    BY <1>3, <1>0 DEF Intervenes, Exists
  <2>3. CASE Exists(id)
    <3>1. PICK s \in ActorStates \ {"DELETING"} : actor' = Moved(id, s)
      BY <2>2, <2>3
    <3> QED BY <2>1, <2>3, <3>1, <1>m, <1>w
  <2>4. CASE ~Exists(id)
    <3>1. /\ actor'[id].state = "SUSPENDED" /\ ~actor'[id].mine
          /\ ~actor'[id].app /\ ~actor'[id].served
          /\ \A j \in Ids \ {id} : actor'[j] = actor[j]
      BY <2>2, <2>4 DEF NewActor, NoActor
    <3>2. \A j \in Ids : /\ Kept(j) <=> Kept(j)'
                         /\ actor'[j].state = "DELETING" => actor[j].state = "DELETING"
      BY <2>1, <2>4, <3>1 DEF Kept, Exists
    <3> QED BY <2>1, <3>1, <3>2, <1>w DEF ActorInv, Exists
  <2> QED BY <2>3, <2>4
<1>4. CASE OperatorPolicy(id) /\ UNCHANGED actorVars
  BY <1>4, <1>w DEF OperatorPolicy, actorVars, ActorInv, Exists, Kept
<1> QED BY <1>1, <1>2, <1>3, <1>4 DEF ServerStep

(* A call that has observed an actor is a call. *)
LEMMA SeenType ==
  ASSUME call \in [Calls -> Call], NEW c \in Calls, NEW pc \in PCs, NEW st \in ActorStates
  PROVE  [call[c] EXCEPT !.pc = pc, !.seen = st] \in Call
<1>1. \A r \in Call : [r EXCEPT !.pc = pc, !.seen = st] \in Call
  BY DEF Call
<1> QED BY <1>1

(* A call on an actor keeps the invariant. *)
LEMMA ActorCallInv ==
  ASSUME ProvidersInv, kind = "substrate", NEW c \in Calls, UNCHANGED crVars,
         ActorCallStep(c) \/ WaitExpires(c) \/ ProbeExpires(c)
  PROVE  CallsInv' /\ ActorInv'
<1> USE DEF ProvidersInv, ProvidersTypeOK, ProviderTypeOK, SubstrateTypeOK, At
<1>0. {"create", "reget", "create policy", "get policy", "reget policy",
       "wait", "sleep", "probe", "delete"} \subseteq PCs
  BY DEF PCs
<1>g. /\ {"create policy", "get policy", "reget policy", "wait", "sleep", "probe"} \subseteq PastGet
      /\ {"wait", "sleep", "probe"} \subseteq PastPolicy
      /\ {"create", "reget", "delete", "done"} \cap PastGet = {}
      /\ {"create", "reget", "delete", "done", "create policy", "get policy", "reget policy"}
            \cap PastPolicy = {}
  BY DEF PastGet, PastPolicy
<1>i. PICK id : id = call[c].id
  OBVIOUS
<1>k. call[c].op \in {"ensure", "delete"} => id \in Ids
  BY <1>i DEF CallsInv, IdInv
<1>c. IdInv(call[c]) /\ EnsureInv(call[c]) /\ ListInv(call[c])
  BY DEF CallsInv
<1>a. UNCHANGED actor => ActorInv'
  BY DEF ActorInv, Exists
<1>f. ASSUME id \in Ids, call[c].op = "ensure", Exists(id), Found(c, actor[id]),
             UNCHANGED <<kind, policy, faults, actorVars>>
      PROVE  CallsInv'
  <2>1. CASE ~actor[id].mine
    BY <1>f, <2>1, FailInv DEF Found
  <2>2. CASE actor[id].mine
    <3>1. PICK pc : pc = IF allowlist THEN "get policy" ELSE "wait"
      OBVIOUS
    <3>2. PICK r : r = [call[c] EXCEPT !.pc = pc, !.seen = actor[id].state]
      OBVIOUS
    <3>3. call' = [call EXCEPT ![c] = r]
      BY <1>f, <2>2, <3>1, <3>2 DEF Found
    <3>4. r \in Call
      <4>1. actor[id].state \in ActorStates /\ pc \in PCs
        BY <1>f, <3>1 DEF Exists, Actor, PCs
      <4> QED BY <3>2, <4>1, SeenType
    <3>5. /\ r.op = call[c].op /\ r.id = id /\ r.disturbed = call[c].disturbed
          /\ r.out = call[c].out /\ r.pc = pc
      BY <3>2, <1>i DEF Call
    <3>6. Kept(id) /\ (pc \in PastPolicy => PolicyIn(id)')
      BY <1>f, <2>2, <3>1, <1>g DEF Kept, PolicyIn, actorVars
    <3>7. ~call[c].disturbed /\ call[c].out = "ok" => PolicyIn(id)'
      BY <1>f, <1>c, <1>i DEF EnsureInv, PolicyIn, actorVars
    <3> QED BY <1>f, <1>i, <3>3, <3>4, <3>5, <3>6, <3>7, MoveInv
  <2> QED BY <2>1, <2>2
<1>1. CASE GetActor(c)
  <2>1. CASE Exists(id)
    BY <1>1, <2>1, <1>f, <1>i, <1>k, <1>a DEF GetActor, actorVars
  <2>2. CASE ~Exists(id)
    BY <1>1, <2>2, <1>0, <1>g, <1>i, <1>a, GotoInv DEF GetActor, actorVars
  <2> QED BY <2>1, <2>2
<1>2. CASE CreateActor(c)
  <2>1. CASE Goto(c, "reget") /\ UNCHANGED actor
    BY <1>2, <2>1, <1>0, <1>g, <1>i, <1>a, GotoInv DEF CreateActor, actorVars
  <2>2. CASE /\ ~Exists(id)
             /\ actor' = [actor EXCEPT ![id] = NewActor(TRUE)]
             /\ call' = [Appears(call, id) EXCEPT
                           ![c].pc = IF allowlist THEN "get policy" ELSE "wait",
                           ![c].seen = "SUSPENDED"]
    <3>1. id \in Ids /\ Appears(call, id) \in [Calls -> Call] /\ call[c].op = "ensure"
      BY <1>2, <1>i, <1>k, NoticeTypes DEF CreateActor
    <3>2. \A d \in Calls \ {c} : call'[d] = Appears(call, id)[d]
      BY <2>2, <3>1
    <3>3. PICK pc : pc = IF allowlist THEN "get policy" ELSE "wait"
      OBVIOUS
    <3>4. /\ call'[c].op = "ensure" /\ call'[c].id = id /\ call'[c].pc = pc
          /\ call'[c].out = call[c].out /\ call'[c].disturbed = call[c].disturbed
      <4>1. Appears(call, id)[c] = call[c]
        BY <3>1, NoticeFacts
      <4>2. call'[c] = [call[c] EXCEPT !.pc = pc, !.seen = "SUSPENDED"]
        BY <2>2, <3>1, <3>3, <4>1
      <4> QED BY <3>1, <4>2, <1>i DEF Call
    <3>5. /\ actor'[id].state = "SUSPENDED" /\ actor'[id].mine
          /\ ~actor'[id].app /\ ~actor'[id].served
          /\ \A j \in Ids \ {id} : actor'[j] = actor[j]
      BY <2>2, <3>1 DEF NewActor, NoActor
    <3>w. UNCHANGED <<kind, policy, allowlist>>
      BY <1>2 DEF CreateActor
    <3>6. Deleting' \subseteq Deleting /\ Managed' = Managed \cup {id}
      BY <3>w, <3>1, <3>5 DEF Deleting, Managed, ActorsTerminating, ActorsManaged, Exists
    <3>7. WorldKeeps
      BY <3>w, <3>1, <3>5 DEF WorldKeeps, Kept, PolicyIn, Exists
    <3>8. (IdInv(call[c]) /\ EnsureInv(call[c]) /\ ListInv(call[c]))'
      <4>1. Kept(id)' /\ (pc \in PastPolicy => PolicyIn(id)')
        BY <3>w, <3>3, <3>5, <1>g DEF Kept, PolicyIn, Exists
      <4>2. ~call[c].disturbed /\ call[c].out = "ok" => PolicyIn(id)'
        BY <3>w, <3>1, <1>c, <1>i DEF EnsureInv, PolicyIn
      <4>3. id \in Deleting => call[c].disturbed
        BY <3>1, <1>c, <1>i DEF EnsureInv
      <4>4. EnsureInv(call[c])'
        BY <3>4, <3>6, <4>1, <4>2, <4>3 DEF EnsureInv
      <4> QED BY <3>1, <3>4, <4>4 DEF IdInv, ListInv
    <3>9. ASSUME NEW d \in Calls \ {c} PROVE Bystander(d)
      <4>1. ListInv(call[d])
        BY DEF CallsInv
      <4> QED BY <3>1, <3>2, <3>6, <4>1, NoticeFacts DEF ListInv, Bystander
    <3>10. CallsInv'
      BY <3>7, <3>8, <3>9, BystanderInv DEF CallsInv
    <3> QED BY <3>1, <3>5, <3>10 DEF ActorInv, Exists
  <2> QED BY <1>2, <2>1, <2>2, <1>i DEF CreateActor
<1>3. CASE ReGetActor(c)
  <2>1. CASE Exists(id)
    BY <1>3, <2>1, <1>f, <1>i, <1>k, <1>a DEF ReGetActor, actorVars
  <2>2. CASE ~Exists(id)
    BY <1>3, <2>2, <1>i, <1>a, FailInv DEF ReGetActor, actorVars
  <2> QED BY <2>1, <2>2
<1>4. CASE GetEgress(c)
  <2>0. /\ call[c].op = "ensure" /\ call[c].pc = "get policy" /\ UNCHANGED <<kind, crVars, actorVars>>
        /\ UNCHANGED policy /\ ActorInv' /\ \A j \in Ids : policy[j] = "mine" => policy'[j] = "mine"
    BY <1>4, <1>a DEF GetEgress, actorVars
  <2>1. CASE policy[id] = "mine" /\ Goto(c, "wait")
    <3>1. PolicyIn(id)'
      BY <2>0, <2>1 DEF PolicyIn
    <3>2. CallsInv'
      BY <2>0, <2>1, <3>1, <1>0, <1>g, <1>i, GotoInv
    <3> QED BY <2>0, <3>2
  <2>2. CASE Goto(c, "create policy")
    <3>1. CallsInv'
      BY <2>0, <2>2, <1>0, <1>g, <1>i, GotoInv
    <3> QED BY <2>0, <3>1
  <2>3. CASE Fail(c)
    BY <2>0, <2>3, FailInv
  <2> QED BY <1>4, <2>1, <2>2, <2>3, <1>i DEF GetEgress
<1>5. CASE CreateEgress(c)
  <2>0. /\ call[c].op = "ensure" /\ call[c].pc = "create policy"
        /\ UNCHANGED <<kind, crVars, actorVars>> /\ ActorInv'
    BY <1>5, <1>a DEF CreateEgress, actorVars
  <2>1. CASE Fail(c) /\ UNCHANGED policy
    BY <2>0, <2>1, FailInv
  <2>2. CASE policy' = [policy EXCEPT ![id] = "mine"] /\ Goto(c, "wait")
    <3>1. PolicyIn(id)' /\ \A j \in Ids : policy[j] = "mine" => policy'[j] = "mine"
      BY <2>0, <2>2, <1>k DEF PolicyIn
    <3>2. CallsInv'
      BY <2>0, <2>2, <3>1, <1>0, <1>g, <1>i, GotoInv
    <3> QED BY <2>0, <3>2
  <2>3. CASE Goto(c, "reget policy") /\ UNCHANGED policy
    <3>1. CallsInv'
      BY <2>0, <2>3, <1>0, <1>g, <1>i, GotoInv
    <3> QED BY <2>0, <3>1
  <2> QED BY <1>5, <2>1, <2>2, <2>3, <1>i DEF CreateEgress
<1>6. CASE ReGetEgress(c)
  <2>1. CASE policy[id] = "mine"
    <3>1. PolicyIn(id)' /\ Goto(c, "wait")
      BY <1>6, <2>1, <1>i DEF PolicyIn, ReGetEgress
    <3> QED BY <1>6, <3>1, <1>0, <1>g, <1>i, <1>a, GotoInv DEF ReGetEgress, actorVars
  <2>2. CASE policy[id] # "mine"
    BY <1>6, <2>2, <1>i, <1>a, FailInv DEF ReGetEgress, actorVars
  <2> QED BY <2>1, <2>2
<1>7. CASE ObservesRunning(c)
  BY <1>7, <1>0, <1>g, <1>i, <1>a, GotoInv DEF ObservesRunning, Observes, actorVars
<1>9. CASE ObservesEnd(c)
  BY <1>9, <1>a, FailInv DEF ObservesEnd, Observes, actorVars
<1>10. CASE ObservesTransition(c)
  BY <1>10, <1>0, <1>g, <1>i, <1>a, GotoInv DEF ObservesTransition, Observes, actorVars
<1>11. CASE GetActorDuringWait(c)
  <2>1. CASE Exists(id)
    <3>1. PICK r : r = [call[c] EXCEPT !.pc = "wait", !.seen = actor[id].state]
      OBVIOUS
    <3>2. call' = [call EXCEPT ![c] = r] /\ UNCHANGED <<kind, policy, faults, actorVars>>
          /\ call[c].op = "ensure" /\ call[c].pc = "sleep"
      BY <1>11, <2>1, <3>1, <1>i DEF GetActorDuringWait
    <3>3. r \in Call
      <4>1. actor[id].state \in ActorStates
        BY <2>1, <3>2, <1>k DEF Exists, Actor
      <4> QED BY <3>1, <4>1, <1>0, SeenType
    <3>4. /\ r.op = call[c].op /\ r.id = id /\ r.disturbed = call[c].disturbed
          /\ r.out = call[c].out /\ r.pc = "wait"
      BY <3>1, <1>i DEF Call
    <3>5. ~call[c].disturbed => Kept(id) /\ PolicyIn(id)
      BY <3>2, <1>c, <1>g, <1>i DEF EnsureInv
    <3>6. PolicyIn(id) => PolicyIn(id)'
      BY <3>2 DEF PolicyIn, actorVars
    <3> QED BY <3>2, <3>3, <3>4, <3>5, <3>6, <1>i, <1>a, MoveInv DEF actorVars
  <2>2. CASE ~Exists(id)
    BY <1>11, <2>2, <1>i, <1>a, FailInv DEF GetActorDuringWait, actorVars
  <2> QED BY <2>1, <2>2
<1>12. CASE ProbeAnswered(c)
  BY <1>12, <1>g, <1>i, <1>k, <1>a, AnswerInv DEF ProbeAnswered, actorVars, Answers
<1>16. CASE WaitExpires(c) \/ ProbeExpires(c)
  BY <1>16, <1>a, FailInv DEF WaitExpires, ProbeExpires, actorVars
<1>8. CASE Resumes(c)
  <2>0. /\ call[c].op = "ensure" /\ call[c].pc = "wait" /\ id \in Ids
        /\ UNCHANGED <<kind, policy, allowlist>>
    BY <1>8, <1>k, <1>i DEF Resumes, Observes
  <2>1. CASE Fail(c) /\ UNCHANGED actor
    BY <2>0, <2>1, <1>a, FailInv DEF actorVars
  <2>2. CASE /\ Exists(id)
             /\ actor' = IF actor[id].state = "SUSPENDED" THEN Moved(id, "RESUMING") ELSE actor
             /\ call' = [call EXCEPT ![c].pc = "sleep", ![c].resumed = TRUE]
    <3>1. /\ actor'[id].mine = actor[id].mine /\ actor'[id].served = actor[id].served
          /\ \/ actor'[id] = actor[id]
             \/ actor'[id].state = "RESUMING" /\ ~actor'[id].app
          /\ \A j \in Ids \ {id} : actor'[j] = actor[j]
      BY <2>0, <2>2 DEF Moved, Actor
    <3>2. \A j \in Ids : Kept(j)' <=> Kept(j)
      BY <2>0, <2>2, <3>1 DEF Kept, Exists
    <3>3. Deleting' \subseteq Deleting /\ Managed' = Managed
      BY <2>0, <2>2, <3>1 DEF Deleting, Managed, ActorsTerminating, ActorsManaged, Exists
    <3>4. WorldKeeps
      BY <2>0, <3>2 DEF WorldKeeps, PolicyIn
    <3>5. /\ call'[c].op = "ensure" /\ call'[c].id = id /\ call'[c].pc = "sleep"
          /\ call'[c].out = call[c].out /\ call'[c].disturbed = call[c].disturbed
          /\ \A d \in Calls \ {c} : call'[d] = call[d]
      BY <2>0, <2>2, <1>i DEF Call
    <3>6. (IdInv(call[c]) /\ EnsureInv(call[c]) /\ ListInv(call[c]))'
      <4>1. /\ id \in Deleting => call[c].disturbed
            /\ ~call[c].disturbed => Kept(id) /\ PolicyIn(id)
        BY <2>0, <1>c, <1>g, <1>i DEF EnsureInv
      <4>2. ~call[c].disturbed => Kept(id)' /\ PolicyIn(id)'
        BY <2>0, <3>4, <4>1 DEF WorldKeeps
      <4>3. EnsureInv(call[c])'
        BY <3>3, <3>5, <4>1, <4>2 DEF EnsureInv
      <4> QED BY <2>0, <3>5, <4>3 DEF IdInv, ListInv
    <3>7. ASSUME NEW d \in Calls \ {c} PROVE Bystander(d)
      BY <3>3, <3>5 DEF Notices, CallsInv, ListInv, Bystander
    <3>8. CallsInv'
      BY <3>4, <3>6, <3>7, BystanderInv DEF CallsInv
    <3> QED BY <2>0, <2>2, <3>1, <3>8 DEF ActorInv, Exists
  <2> QED BY <1>8, <2>1, <2>2, <1>i DEF Resumes
<1>13. CASE SuspendActor(c)
  <2>0. /\ call[c].op = "delete" /\ id \in Ids /\ UNCHANGED <<kind, policy, allowlist>>
    BY <1>13, <1>k, <1>i DEF SuspendActor
  <2>1. CASE Goto(c, "delete") /\ UNCHANGED actor
    BY <2>0, <2>1, <1>0, <1>g, <1>i, <1>a, GotoInv DEF actorVars
  <2>2. CASE /\ actor[id].state = "RUNNING"
             /\ actor' = Moved(id, "SUSPENDING")
             /\ call' = [Disturb(call, id) EXCEPT ![c].pc = "delete"]
    <3>1. Disturb(call, id) \in [Calls -> Call]
      BY <2>0, NoticeTypes
    <3>2. \A d \in Calls \ {c} : call'[d] = Disturb(call, id)[d]
      BY <2>2, <3>1
    <3>3. call'[c].op = "delete" /\ call'[c].id = id
      <4>1. Disturb(call, id)[c] = call[c]
        BY <2>0, NoticeFacts
      <4> QED BY <2>2, <3>1, <2>0, <4>1, <1>i DEF Call
    <3>4. /\ actor'[id].state = "SUSPENDING" /\ ~actor'[id].app
          /\ actor'[id].mine = actor[id].mine
          /\ \A j \in Ids \ {id} : actor'[j] = actor[j]
      BY <2>0, <2>2 DEF Moved, Actor
    <3>5. Deleting' \subseteq Deleting \cup {id} /\ Managed' = Managed
      BY <2>0, <2>2, <3>4 DEF Deleting, Managed, ActorsTerminating, ActorsManaged, Exists
    <3>6. WorldKeeps
      BY <2>0, <2>2, <3>4 DEF WorldKeeps, Kept, PolicyIn, Exists
    <3>7. (IdInv(call[c]) /\ EnsureInv(call[c]) /\ ListInv(call[c]))'
      BY <2>0, <3>3 DEF IdInv, EnsureInv, ListInv
    <3>8. ASSUME NEW d \in Calls \ {c} PROVE Bystander(d)
      <4>1. ListInv(call[d])
        BY DEF CallsInv
      <4> QED BY <2>0, <3>2, <3>5, <4>1, NoticeFacts DEF ListInv, Bystander
    <3>9. CallsInv'
      BY <3>6, <3>7, <3>8, BystanderInv DEF CallsInv
    <3> QED BY <2>0, <2>2, <3>4, <3>9 DEF ActorInv, Exists
  <2> QED BY <1>13, <2>1, <2>2, <1>i DEF SuspendActor
<1>14. CASE DeleteActor(c)
  <2>0. /\ call[c].op = "delete" /\ id \in Ids /\ UNCHANGED <<kind, policy, allowlist>>
    BY <1>14, <1>k, <1>i DEF DeleteActor
  <2>1. CASE (Answer(c, None) \/ Fail(c)) /\ UNCHANGED actor
    BY <2>0, <2>1, <1>i, <1>a, AnswerInv, FailInv DEF Answers, actorVars
  <2>2. CASE /\ actor[id].state \in {"SUSPENDED", "CRASHED"}
             /\ actor' = Moved(id, "DELETING")
             /\ call' = [Disturb(call, id) EXCEPT ![c] = Returned(c, "ok", None)]
    <3>1. Disturb(call, id) \in [Calls -> Call]
      BY <2>0, NoticeTypes
    <3>2. \A d \in Calls \ {c} : call'[d] = Disturb(call, id)[d]
      BY <2>2, <3>1
    <3>3. call'[c].op = "delete" /\ call'[c].id = id
      BY <2>2, <3>1, <2>0, <1>i DEF Returned, Call
    <3>4. /\ actor'[id].state = "DELETING" /\ ~actor'[id].app
          /\ actor'[id].mine = actor[id].mine
          /\ \A j \in Ids \ {id} : actor'[j] = actor[j]
      BY <2>0, <2>2 DEF Moved, Actor
    <3>5. Deleting' \subseteq Deleting \cup {id} /\ Managed' = Managed
      BY <2>0, <2>2, <3>4 DEF Deleting, Managed, ActorsTerminating, ActorsManaged, Exists
    <3>6. WorldKeeps
      BY <2>0, <2>2, <3>4 DEF WorldKeeps, Kept, PolicyIn, Exists
    <3>7. (IdInv(call[c]) /\ EnsureInv(call[c]) /\ ListInv(call[c]))'
      BY <2>0, <3>3 DEF IdInv, EnsureInv, ListInv
    <3>8. ASSUME NEW d \in Calls \ {c} PROVE Bystander(d)
      <4>1. ListInv(call[d])
        BY DEF CallsInv
      <4> QED BY <2>0, <3>2, <3>5, <4>1, NoticeFacts DEF ListInv, Bystander
    <3>9. CallsInv'
      BY <3>6, <3>7, <3>8, BystanderInv DEF CallsInv
    <3> QED BY <2>0, <2>2, <3>4, <3>9 DEF ActorInv, Exists
  <2> QED BY <1>14, <2>1, <2>2, <1>i DEF DeleteActor
<1>15. CASE ListPage(c)
  <2> DEFINE left == {i \in Ids : Exists(i)} \ call[c].served
             read(page) == [call[c] EXCEPT !.served = @ \cup page,
                                           !.listed = @ \cup (page \cap ActorsManaged)]
  <2>0. call[c].op = "list" /\ call[c].pc = "list" /\ UNCHANGED <<kind, policy, actorVars>>
    BY <1>15 DEF ListPage
  <2>1. PICK page \in SUBSET left :
          \/ call' = [call EXCEPT ![c] = read(page)]
          \/ page = left /\ call' = [call EXCEPT ![c] =
                        [Returned(c, "ok", None) EXCEPT !.listed = read(page).listed]]
    BY <1>15 DEF ListPage
  <2>2. \A d \in Calls \ {c} : call'[d] = call[d]
    BY <2>1
  <2>3. Deleting' = Deleting /\ Managed' = Managed /\ Managed = ActorsManaged
    BY <2>0 DEF actorVars, Deleting, Managed, ActorsTerminating, ActorsManaged, Exists
  <2>4. WorldKeeps
    BY <2>0 DEF actorVars, WorldKeeps, Kept, PolicyIn, Exists
  <2>5. ASSUME NEW d \in Calls \ {c} PROVE Bystander(d)
    BY <2>2, <2>3 DEF Notices, CallsInv, ListInv, Bystander
  <2>10. ASSUME NEW d \in Calls \ {c}
         PROVE  (IdInv(call[d]) /\ EnsureInv(call[d]) /\ ListInv(call[d]))'
    BY <2>4, <2>5, BystanderInv
  <2>6. /\ Managed \subseteq {i \in Ids : Exists(i)}
        /\ call[c].kept \subseteq Managed /\ Managed \subseteq call[c].met
        /\ call[c].listed \subseteq call[c].met
        /\ call[c].kept \cap call[c].served \subseteq call[c].listed
    BY <2>0, <2>3, <1>c DEF ListInv, ActorsManaged
  <2>7. ASSUME call' = [call EXCEPT ![c] = read(page)]
        PROVE  (IdInv(call[c]) /\ EnsureInv(call[c]) /\ ListInv(call[c]))'
    <3>1. /\ call'[c].op = "list" /\ call'[c].pc = "list" /\ call'[c].out = call[c].out
          /\ call'[c].kept = call[c].kept /\ call'[c].met = call[c].met
          /\ call'[c].served = call[c].served \cup page
          /\ call'[c].listed = call[c].listed \cup (page \cap ActorsManaged)
      BY <2>0, <2>7 DEF Call
    <3>2. call[c].out = None
      BY <2>0, <1>c DEF ListInv
    <3> QED BY <3>1, <3>2, <2>3, <2>6, ProviderAssumption DEF IdInv, EnsureInv, ListInv
  <2>8. ASSUME page = left,
               call' = [call EXCEPT ![c] =
                           [Returned(c, "ok", None) EXCEPT !.listed = read(page).listed]]
        PROVE  (IdInv(call[c]) /\ EnsureInv(call[c]) /\ ListInv(call[c]))'
    <3>1. /\ call'[c].op = "list" /\ call'[c].pc = "done" /\ call'[c].out = "ok"
          /\ call'[c].kept = call[c].kept /\ call'[c].met = call[c].met
          /\ call'[c].listed = call[c].listed \cup (left \cap ActorsManaged)
      BY <2>0, <2>8 DEF Call, Returned
    <3>2. call'[c].kept \subseteq call'[c].listed /\ call'[c].listed \subseteq call'[c].met
      BY <3>1, <2>3, <2>6
    <3> QED BY <3>1, <3>2 DEF IdInv, EnsureInv, ListInv
  <2>11. (IdInv(call[c]) /\ EnsureInv(call[c]) /\ ListInv(call[c]))'
    BY <2>1, <2>7, <2>8
  <2> HIDE DEF left, read
  <2>9. CallsInv'
    BY <2>10, <2>11 DEF CallsInv
  <2> QED BY <2>0, <2>9, <1>a DEF actorVars
<1> QED BY <1>1, <1>2, <1>3, <1>4, <1>5, <1>6, <1>7, <1>8, <1>9, <1>10, <1>11, <1>12,
           <1>13, <1>14, <1>15, <1>16 DEF ActorCallStep

(* The steps all providers share keep the invariant. *)
LEMMA SharedInv ==
  ASSUME ProvidersInv, NEW c \in Calls, UNCHANGED <<crVars, actorVars>>,
         \/ ApiFails(c) \/ Take(c) \/ StartList(c, Managed)
         \/ \E id \in Ids : StartEnsure(c, id, Deleting) \/ StartDelete(c, id)
  PROVE  CallsInv' /\ ResourceInv' /\ ActorInv'
<1> USE DEF ProvidersInv, ProvidersTypeOK, ProviderTypeOK
<1>1. UNCHANGED <<kind, policy, cr, podUp, actor, allowlist>>
  BY DEF ApiFails, Take, StartList, StartEnsure, StartDelete, crVars, actorVars
<1>2. Deleting' = Deleting /\ Managed' = Managed
  BY <1>1 DEF Deleting, Managed, CRTerminating, CRManaged, ActorsTerminating, ActorsManaged, Exists
<1>3. WorldKeeps
  BY <1>1 DEF WorldKeeps, Kept, PolicyIn, Exists
<1>4. ResourceInv' /\ ActorInv'
  BY <1>1 DEF ResourceInv, ActorInv, Exists
<1>5. \A d \in Calls \ {c} : call'[d] = call[d]
  BY DEF ApiFails, Fail, Take, StartList, StartEnsure, StartDelete
<1>6. ASSUME NEW d \in Calls \ {c}
      PROVE  (IdInv(call[d]) /\ EnsureInv(call[d]) /\ ListInv(call[d]))'
  <2>1. Bystander(d)
    BY <1>2, <1>5 DEF Notices, CallsInv, ListInv, Bystander
  <2> QED BY <1>3, <2>1, BystanderInv
<1>7. (IdInv(call[c]) /\ EnsureInv(call[c]) /\ ListInv(call[c]))'
  <2>0. "done" \notin PastGet /\ "get" \notin PastGet /\ "done" \notin PastPolicy
        /\ "get" \notin PastPolicy
    BY DEF PastGet, PastPolicy
  <2>1. CASE ApiFails(c)
    <3>1. /\ call'[c].op = call[c].op /\ call'[c].id = call[c].id
          /\ call'[c].disturbed = call[c].disturbed
          /\ call'[c].pc = "done" /\ call'[c].out = "error"
      BY <2>1 DEF ApiFails, Fail, Returned, Call
    <3>2. IdInv(call[c]) /\ EnsureInv(call[c])
      BY DEF CallsInv
    <3>3. EnsureInv(call[c])'
      BY <1>2, <2>0, <3>1, <3>2 DEF EnsureInv
    <3> QED BY <3>1, <3>2, <3>3 DEF IdInv, ListInv
  <2>2. CASE Take(c)
    <3>1. call'[c].op = None
      BY <2>2 DEF Take, NoCall
    <3> QED BY <3>1, ProviderAssumption DEF IdInv, EnsureInv, ListInv
  <2>3. CASE StartList(c, Managed)
    <3>1. /\ call'[c].op = "list" /\ call'[c].pc = "list" /\ call'[c].out = None
          /\ call'[c].kept = Managed /\ call'[c].met = Managed
          /\ call'[c].served = {} /\ call'[c].listed = {}
      BY <2>3 DEF StartList, NoCall
    <3> QED BY <1>2, <3>1, ProviderAssumption DEF IdInv, EnsureInv, ListInv
  <2>4. ASSUME NEW id \in Ids, StartEnsure(c, id, Deleting)
        PROVE  (IdInv(call[c]) /\ EnsureInv(call[c]) /\ ListInv(call[c]))'
    <3>1. /\ call'[c].op = "ensure" /\ call'[c].pc = "get" /\ call'[c].out = None
          /\ call'[c].id = id
      BY <2>4 DEF StartEnsure, NoCall
    <3>2. id \in Deleting => call'[c].disturbed
      BY <2>4 DEF StartEnsure, NoCall
    <3>3. EnsureInv(call[c])'
      BY <1>2, <2>0, <3>1, <3>2, ProviderAssumption DEF EnsureInv
    <3> QED BY <3>1, <3>3 DEF IdInv, ListInv
  <2>5. ASSUME NEW id \in Ids, StartDelete(c, id)
        PROVE  (IdInv(call[c]) /\ EnsureInv(call[c]) /\ ListInv(call[c]))'
    <3>1. call'[c].op = "delete" /\ call'[c].id = id
      BY <2>5 DEF StartDelete, NoCall
    <3> QED BY <3>1 DEF IdInv, EnsureInv, ListInv
  <2> QED BY <2>1, <2>2, <2>3, <2>4, <2>5
<1>8. CallsInv'
  BY <1>6, <1>7 DEF CallsInv
<1> QED BY <1>4, <1>8

(* The invariant holds before the first call. *)
LEMMA ProvidersInitInv == Init => ProvidersInv
<1> SUFFICES ASSUME Init PROVE ProvidersInv
  OBVIOUS
<1> USE DEF Init, ProviderInit, CustomResourceInit, SubstrateInit
<1>1. ProviderTypeOK
  BY NoCallType, ProviderAssumption DEF ProviderTypeOK, Policies
<1>2. CustomResourceTypeOK
  BY ResourceTypes DEF CustomResourceTypeOK
<1>3. SubstrateTypeOK
  <2>1. actor \in [Ids -> Actor]
    BY ActorTypes
  <2>2. allowlist \in BOOLEAN
    BY DEF CustomResourceKinds
  <2> QED BY <2>1, <2>2 DEF SubstrateTypeOK
<1>4. ResourceInv
  BY DEF ResourceInv, NoResource
<1>5. ActorInv
  BY DEF ActorInv, NoActor
<1>6. CallsInv
  <2>1. \A c \in Calls : call[c].op = None
    BY DEF NoCall
  <2> QED BY <2>1, ProviderAssumption DEF CallsInv, IdInv, EnsureInv, ListInv
<1> QED BY <1>1, <1>2, <1>3, <1>4, <1>5, <1>6 DEF ProvidersInv, ProvidersTypeOK

(* Every step of every provider keeps the invariant. *)
LEMMA ProvidersNextInv == ProvidersInv /\ [Next]_pvars => ProvidersInv'
<1> SUFFICES ASSUME ProvidersInv, [Next]_pvars PROVE ProvidersInv'
  OBVIOUS
<1>t. ProviderTypeOK /\ CustomResourceTypeOK /\ SubstrateTypeOK /\ CallsInv
  BY DEF ProvidersInv, ProvidersTypeOK
<1>i. \A c \in Calls : call[c].op \in {"ensure", "delete"} => call[c].id \in Ids
  BY <1>t DEF CallsInv, IdInv
<1>s. /\ UNCHANGED actorVars => (SubstrateTypeOK' /\ ActorInv')
      /\ UNCHANGED crVars => (CustomResourceTypeOK' /\ ResourceInv')
  <2>1. UNCHANGED actorVars => (SubstrateTypeOK' /\ ActorInv')
    BY <1>t DEF ProvidersInv, actorVars, SubstrateTypeOK, ActorInv, Exists
  <2>2. UNCHANGED crVars => (CustomResourceTypeOK' /\ ResourceInv')
    BY <1>t DEF ProvidersInv, crVars, CustomResourceTypeOK, ResourceInv
  <2> QED BY <2>1, <2>2
<1>q. ASSUME ProviderTypeOK', CustomResourceTypeOK', SubstrateTypeOK', CallsInv', ResourceInv', ActorInv'
      PROVE  ProvidersInv'
  BY <1>q DEF ProvidersInv, ProvidersTypeOK
<1>1. CASE kind \in CustomResourceKinds /\ CRNext /\ UNCHANGED actorVars
  <2>0. Managed = CRManaged /\ Deleting = CRTerminating
        /\ CRManaged \in SUBSET Ids /\ CRTerminating \in SUBSET Ids
    BY <1>1 DEF Managed, Deleting, CustomResourceKinds, CRManaged, CRTerminating
  <2>1. ASSUME NEW c \in Calls, CRCallStep(c) \/ PollExpires(c)
        PROVE  ProvidersInv'
    BY <1>1, <2>1, <1>t, <1>i, <1>s, <1>q, CRCallTypes, CRCallInv
  <2>2. ASSUME NEW c \in Calls, UNCHANGED crVars,
               \/ ApiFails(c) \/ Take(c) \/ StartList(c, CRManaged)
               \/ \E id \in Ids : StartEnsure(c, id, CRTerminating) \/ StartDelete(c, id)
        PROVE  ProvidersInv'
    <3>1. ProviderTypeOK'
      BY <2>0, <2>2, <1>t, SharedTypes
    <3>2. CallsInv' /\ ResourceInv' /\ ActorInv'
      BY <1>1, <2>0, <2>2, SharedInv
    <3> QED BY <1>1, <2>2, <3>1, <3>2, <1>s, <1>q
  <2>3. ASSUME NEW id \in Ids,
               \/ CRControllerStep(id) \/ PodDies(id) \/ NoLongerReady(id) \/ FailsForGood(id)
               \/ OperatorPolicy(id) /\ UNCHANGED crVars
        PROVE  ProvidersInv'
    BY <1>1, <2>3, <1>t, <1>s, <1>q, CRControllerTypes, CRControllerInv
  <2> QED BY <1>1, <2>1, <2>2, <2>3 DEF CRNext
<1>2. CASE kind = "substrate" /\ ActorNext /\ UNCHANGED crVars
  <2>0. Managed = ActorsManaged /\ Deleting = ActorsTerminating
        /\ ActorsManaged \in SUBSET Ids /\ ActorsTerminating \in SUBSET Ids
    BY <1>2 DEF Managed, Deleting, ActorsManaged, ActorsTerminating
  <2>1. ASSUME NEW c \in Calls, ActorCallStep(c) \/ WaitExpires(c) \/ ProbeExpires(c)
        PROVE  ProvidersInv'
    BY <1>2, <2>1, <1>t, <1>i, <1>s, <1>q, ActorCallTypes, ActorCallInv
  <2>2. ASSUME NEW c \in Calls, UNCHANGED actorVars,
               \/ ApiFails(c) \/ Take(c) \/ StartList(c, ActorsManaged)
               \/ \E id \in Ids : StartEnsure(c, id, ActorsTerminating) \/ StartDelete(c, id)
        PROVE  ProvidersInv'
    <3>1. ProviderTypeOK'
      BY <2>0, <2>2, <1>t, SharedTypes
    <3>2. CallsInv' /\ ResourceInv' /\ ActorInv'
      BY <1>2, <2>0, <2>2, SharedInv
    <3> QED BY <1>2, <2>2, <3>1, <3>2, <1>s, <1>q
  <2>3. ASSUME NEW id \in Ids,
               \/ ServerStep(id) \/ Intervenes(id)
               \/ OperatorPolicy(id) /\ UNCHANGED actorVars
        PROVE  ProvidersInv'
    BY <1>2, <2>3, <1>t, <1>s, <1>q, ServerTypes, ServerInv
  <2> QED BY <1>2, <2>1, <2>2, <2>3 DEF ActorNext
<1>3. CASE UNCHANGED pvars
  <2>1. UNCHANGED <<kind, call, policy, faults, cr, podUp, actor, allowlist>>
    BY <1>3 DEF pvars
  <2>2. ProviderTypeOK' /\ CustomResourceTypeOK' /\ SubstrateTypeOK' /\ ResourceInv' /\ ActorInv'
    BY <2>1, <1>t, <1>s DEF ProviderTypeOK, crVars, actorVars
  <2>3. CallsInv'
    <3>1. Deleting' = Deleting
      BY <2>1 DEF Deleting, CRTerminating, ActorsTerminating
    <3>2. Managed' = Managed
      BY <2>1 DEF Managed, CRManaged, ActorsManaged, Exists
    <3>3. \A id \in Ids : Exists(id)' <=> Exists(id)
      BY <2>1 DEF Exists
    <3>4. \A id \in Ids : Kept(id)' <=> Kept(id)
      BY <2>1, <3>3 DEF Kept
    <3>5. \A id \in Ids : PolicyIn(id)' <=> PolicyIn(id)
      BY <2>1, Zenon DEF PolicyIn
    <3>6. ASSUME NEW c \in Calls
          PROVE  IdInv(call[c])' /\ EnsureInv(call[c])' /\ ListInv(call[c])'
      <4>1. IdInv(call[c]) /\ EnsureInv(call[c]) /\ ListInv(call[c]) /\ call'[c] = call[c]
        BY <1>t, <2>1 DEF CallsInv
      <4>2. IdInv(call[c])'
        BY <4>1 DEF IdInv
      <4>3. EnsureInv(call[c])'
        BY <3>1, <3>4, <3>5, <4>1 DEF EnsureInv, IdInv
      <4>4. ListInv(call[c])'
        BY <3>2, <4>1 DEF ListInv
      <4> QED BY <4>2, <4>3, <4>4
    <3> QED BY <3>6 DEF CallsInv
  <2> QED BY <2>2, <2>3, <1>q
<1> QED BY <1>1, <1>2, <1>3 DEF Next

-----------------------------------------------------------------------------
(* What a call has established about its sandbox holds until it returns,   *)
(* and after, in every reachable state of every provider.                  *)
THEOREM ProvidersInvariant == Spec => []ProvidersInv
BY ProvidersInitInv, ProvidersNextInv, PTL DEF Spec

(* Every variable keeps its type; in particular the actor states are those *)
(* waitForRunning knows.                                                   *)
THEOREM ProvidersTypeCorrect == Spec => []ProvidersTypeOK
<1>1. ProvidersInv => ProvidersTypeOK
  BY DEF ProvidersInv
<1> QED BY <1>1, ProvidersInvariant, PTL

(* Every endpoint handed out is that of a sandbox that is still the one    *)
(* that was checked, for any number of callers and proxies.                *)
THEOREM EndpointsInForce == Spec => []AnsweredInForce
<1>1. ProvidersInv => AnsweredInForce
  <2> SUFFICES ASSUME ProvidersInv, NEW c \in Calls,
                      call[c].op = "ensure", call[c].out = "ok", ~call[c].disturbed
               PROVE  InForce(call[c].id)
    BY DEF AnsweredInForce
  <2>1. IdInv(call[c]) /\ EnsureInv(call[c]) /\ kind \in BackendKinds
    BY DEF ProvidersInv, CallsInv, ProvidersTypeOK, ProviderTypeOK
  <2>2. /\ call[c].id \in Ids /\ call[c].id \notin Deleting
        /\ Kept(call[c].id) /\ PolicyIn(call[c].id)
    BY <2>1 DEF IdInv, EnsureInv
  <2>3. CASE kind = "substrate"
    BY <2>2, <2>3 DEF InForce, Kept, PolicyIn, Deleting, ActorsTerminating
  <2>4. CASE kind = "karssandbox"
    BY <2>2, <2>4 DEF InForce, Kept, PolicyIn, Deleting, CRTerminating
  <2>5. CASE kind \in {"sandboxclaim", "isola"}
    BY <2>2, <2>5 DEF InForce, Kept, PolicyIn, Deleting, CRTerminating
  <2> QED BY <2>1, <2>3, <2>4, <2>5 DEF BackendKinds, CustomResourceKinds
<1> QED BY <1>1, ProvidersInvariant, PTL

(* List is complete and invents nothing, over any number of pages and ids. *)
THEOREM ListsComplete == Spec => []ListIsComplete
<1>1. ProvidersInv => ListIsComplete
  BY DEF ProvidersInv, CallsInv, ListInv, ListIsComplete
<1> QED BY <1>1, ProvidersInvariant, PTL

-----------------------------------------------------------------------------
(***************************************************************************)
(* Refinement: what a step does to the abstract state of Backend.          *)
(***************************************************************************)
AbstractStep == Abstract!BackendNext \/ UNCHANGED <<resources, published, up>>

(* The abstract state for custom resources. *)
LEMMA CRAbstract ==
  ASSUME ProvidersInv, kind \in CustomResourceKinds
  PROVE  /\ resources = CRManaged /\ up = podUp
         /\ published = [id \in Ids |-> cr[id].ip]
BY DEF resources, up, published, CustomResourceKinds

(* A step that changes none of existence, address and pod is no step of    *)
(* Backend.                                                                *)
LEMMA CRStutter ==
  ASSUME ProvidersInv, kind \in CustomResourceKinds, kind' = kind, podUp' = podUp,
         \A id \in Ids : cr'[id].exists = cr[id].exists /\ cr'[id].ip = cr[id].ip
  PROVE  AbstractStep
BY DEF AbstractStep, resources, up, published, CustomResourceKinds, CRManaged

(* Every step of the custom resources is a step of Backend, or none. *)
LEMMA CRRefines ==
  ASSUME ProvidersInv, kind \in CustomResourceKinds, CRNext
  PROVE  AbstractStep
<1> USE DEF ProvidersInv, ProvidersTypeOK, ProviderTypeOK, CustomResourceTypeOK, At
<1>p. kind # "substrate"
  BY DEF CustomResourceKinds
<1>a. resources = CRManaged /\ up = podUp /\ published = [id \in Ids |-> cr[id].ip]
  BY CRAbstract
<1>b. kind' = kind => resources' = CRManaged' /\ up' = podUp' /\ published' = [id \in Ids |-> cr'[id].ip]
  BY <1>p DEF resources, up, published
<1>1. ASSUME kind' = kind, podUp' = podUp, cr' = cr PROVE AbstractStep
  BY <1>1, CRStutter
<1>2. ASSUME NEW c \in Calls, CRCallStep(c) \/ PollExpires(c) PROVE AbstractStep
  <2>1. CASE CreateResource(c)
    <3>1. PICK id \in Ids : id = call[c].id
      BY <2>1 DEF CreateResource, CallsInv, IdInv
    <3>2. CASE cr' = cr
      BY <2>1, <3>2, <1>1 DEF CreateResource
    <3>3. CASE ~cr[id].exists /\ cr' = [cr EXCEPT ![id] = Fresh]
      <4>1. cr'[id].exists /\ cr'[id].ip = None /\ cr[id].ip = None
            /\ \A j \in Ids \ {id} : cr'[j] = cr[j]
        BY <3>3 DEF Fresh, NoResource, ResourceInv
      <4>2. resources' = resources \cup {id} /\ published' = published /\ up' = up
        BY <2>1, <4>1, <1>a, <1>b DEF CreateResource, CRManaged
      <4> QED BY <4>2 DEF AbstractStep, Abstract!BackendNext, Abstract!BackendCreate
    <3> QED BY <2>1, <3>1, <3>2, <3>3 DEF CreateResource
  <2>2. CASE DeleteResource(c)
    <3>1. PICK id \in Ids : id = call[c].id
      BY <2>2 DEF DeleteResource, CallsInv, IdInv
    <3>2. cr' = cr \/ cr' = [cr EXCEPT ![id].deleting = TRUE]
      BY <2>2, <3>1 DEF DeleteResource
    <3>3. \A j \in Ids : cr'[j].exists = cr[j].exists /\ cr'[j].ip = cr[j].ip
      BY <3>2 DEF Resource
    <3> QED BY <2>2, <3>3, CRStutter DEF DeleteResource
  <2>3. CASE /\ kind' = kind /\ podUp' = podUp /\ cr' = cr
    BY <2>3, <1>1
  <2> QED BY <1>2, <2>1, <2>2, <2>3
      DEF CRCallStep, PollExpires, GetResource, ReGetResource, PollResource, CreateIngress,
          GetIngress, ListPods, ListResources, crVars
<1>3. ASSUME NEW c \in Calls, UNCHANGED crVars,
             \/ ApiFails(c) \/ Take(c) \/ StartList(c, CRManaged)
             \/ \E id \in Ids : StartEnsure(c, id, CRTerminating) \/ StartDelete(c, id)
      PROVE  AbstractStep
  BY <1>3, <1>1 DEF crVars, ApiFails, Take, StartList, StartEnsure, StartDelete
<1>4. ASSUME NEW id \in Ids,
             \/ CRControllerStep(id) \/ PodDies(id) \/ NoLongerReady(id) \/ FailsForGood(id)
             \/ OperatorPolicy(id) /\ UNCHANGED crVars
      PROVE  AbstractStep
  <2>1. CASE \/ BecomesReady(id) \/ NamespaceSet(id) \/ NoLongerReady(id) \/ FailsForGood(id)
    BY <2>1, CRStutter DEF BecomesReady, NamespaceSet, NoLongerReady, FailsForGood, providerVars, Resource
  <2>2. ASSUME NEW a \in Addrs, AddressPublished(id, a) PROVE AbstractStep
    <3>1. /\ cr'[id].ip = a /\ cr'[id].exists /\ cr[id].exists
          /\ \A j \in Ids \ {id} : cr'[j] = cr[j]
          /\ podUp' = podUp \cup {id} /\ id \notin podUp /\ kind' = kind
          /\ \A i \in podUp : cr[i].ip # a
      BY <2>2 DEF AddressPublished, providerVars, Resource
    <3>2. resources' = resources /\ id \in resources \ up /\ up' = up \cup {id}
      BY <3>1, <1>a, <1>b DEF CRManaged
    <3>3. published' = [published EXCEPT ![id] = a]
      BY <3>1, <1>a, <1>b
    <3>4. {i \in up : published[i] = a} = {}
      BY <3>1, <1>a
    <3>5. Abstract!PodReady(id, a)
      BY <3>2, <3>3, <3>4 DEF Abstract!PodReady, Abstract!ServersOf
    <3> QED BY <3>5 DEF AbstractStep, Abstract!BackendNext
  <2>3. CASE Finalized(id)
    <3>1. /\ ~cr'[id].exists /\ cr'[id].ip = None /\ kind' = kind /\ podUp' = podUp \ {id}
          /\ \A j \in Ids \ {id} : cr'[j] = cr[j]
      BY <2>3 DEF Finalized, NoResource
    <3>2. resources' = resources \ {id} /\ up' = up \ {id}
      BY <3>1, <1>a, <1>b DEF CRManaged
    <3>3. published' = [published EXCEPT ![id] = None]
      BY <3>1, <1>a, <1>b
    <3> QED BY <3>2, <3>3 DEF AbstractStep, Abstract!BackendNext, Abstract!BackendDelete
  <2>4. CASE PodDies(id)
    <3>1. /\ cr' = cr /\ kind' = kind /\ podUp' = podUp \ {id} /\ id \in podUp
      BY <2>4 DEF PodDies
    <3>2. resources' = resources /\ up' = up \ {id} /\ published' = published /\ id \in up
      BY <3>1, <1>a, <1>b DEF CRManaged
    <3> QED BY <3>2 DEF AbstractStep, Abstract!BackendNext, Abstract!Evict
  <2>5. CASE OperatorPolicy(id) /\ UNCHANGED crVars
    BY <2>5, <1>1 DEF OperatorPolicy, crVars
  <2> QED BY <1>4, <2>1, <2>2, <2>3, <2>4, <2>5 DEF CRControllerStep
<1> QED BY <1>2, <1>3, <1>4 DEF CRNext

(* The abstract state for actors: the address of an actor is its name.     *)
LEMMA ActorAbstract ==
  ASSUME kind = "substrate"
  PROVE  /\ resources = {id \in Ids : actor[id].state # "ABSENT"}
         /\ up = {id \in Ids : actor[id].app}
         /\ published = [id \in Ids |-> IF actor[id].served THEN id ELSE None]
BY DEF resources, up, published, Exists

(* A step that leaves existence, application and history alone.            *)
LEMMA ActorStutter ==
  ASSUME kind = "substrate", kind' = kind,
         \A id \in Ids :
            /\ actor'[id].state = "ABSENT" <=> actor[id].state = "ABSENT"
            /\ actor'[id].app <=> actor[id].app
            /\ actor'[id].served <=> actor[id].served
  PROVE  AbstractStep
<1>1. kind' = "substrate"
  OBVIOUS
<1>2. resources' = resources
  BY <1>1 DEF resources, Exists
<1>3. up' = up
  BY <1>1 DEF up
<1>4. published' = published
  BY <1>1 DEF published
<1> QED BY <1>2, <1>3, <1>4 DEF AbstractStep

(* An actor that changes its state loses its application, if it had one:   *)
(* an eviction, or nothing.                                                *)
LEMMA ActorMoves ==
  ASSUME ProvidersInv, kind = "substrate", kind' = kind,
         NEW id \in Ids, NEW s \in ActorStates, Exists(id), actor' = Moved(id, s)
  PROVE  AbstractStep
<1> USE DEF ProvidersInv, ProvidersTypeOK, SubstrateTypeOK
<1>1. /\ actor'[id].state = s /\ ~actor'[id].app /\ actor'[id].served = actor[id].served
      /\ \A j \in Ids \ {id} : actor'[j] = actor[j]
  BY DEF Moved, Actor
<1>2. s # "ABSENT" /\ actor[id].state # "ABSENT"
  BY DEF ActorStates, Exists
<1>3. CASE ~actor[id].app
  BY <1>1, <1>2, <1>3, ActorStutter
<1>4. CASE actor[id].app
  <2>1. kind' = "substrate"
    OBVIOUS
  <2>2. resources' = resources
    BY <1>1, <1>2, <2>1 DEF resources, Exists
  <2>3. id \in up /\ up' = up \ {id}
    BY <1>1, <1>4, <2>1 DEF up
  <2>4. published' = published
    BY <1>1, <2>1 DEF published
  <2>5. Abstract!Evict(id)
    BY <2>2, <2>3, <2>4 DEF Abstract!Evict
  <2> QED BY <2>5 DEF AbstractStep, Abstract!BackendNext
<1> QED BY <1>3, <1>4

(* A new actor, of whichever template, is a new resource. *)
LEMMA ActorCreated ==
  ASSUME ProvidersInv, kind = "substrate", kind' = kind,
         NEW id \in Ids, ~Exists(id), NEW b \in BOOLEAN,
         actor' = [actor EXCEPT ![id] = NewActor(b)]
  PROVE  AbstractStep
<1> USE DEF ProvidersInv, ProvidersTypeOK, SubstrateTypeOK
<1>1. /\ actor'[id].state = "SUSPENDED" /\ ~actor'[id].app /\ ~actor'[id].served
      /\ \A j \in Ids \ {id} : actor'[j] = actor[j]
  BY DEF NewActor, NoActor
<1>2. ~actor[id].app /\ ~actor[id].served
  BY DEF ActorInv, Exists
<1>3. kind' = "substrate"
  OBVIOUS
<1>4. resources' = resources \cup {id}
  BY <1>1, <1>3 DEF resources, Exists
<1>5. up' = up /\ published' = published
  BY <1>1, <1>2, <1>3 DEF up, published
<1>6. Abstract!BackendCreate(id)
  BY <1>4, <1>5 DEF Abstract!BackendCreate
<1> QED BY <1>6 DEF AbstractStep, Abstract!BackendNext

(* Every step of the actors is a step of Backend, or none. *)
LEMMA ActorRefines ==
  ASSUME ProvidersInv, kind = "substrate", ActorNext
  PROVE  AbstractStep
<1> USE DEF ProvidersInv, ProvidersTypeOK, ProviderTypeOK, SubstrateTypeOK, At
<1>0. {"RUNNING", "SUSPENDED", "CRASHED", "SUSPENDING", "REVERTING", "RESUMING", "DELETING"}
        \subseteq ActorStates
  BY DEF ActorStates
<1>1. ASSUME kind' = kind, actor' = actor PROVE AbstractStep
  BY <1>1, ActorStutter
<1>2. ASSUME NEW c \in Calls, ActorCallStep(c) \/ WaitExpires(c) \/ ProbeExpires(c)
      PROVE  AbstractStep
  <2>1. CASE CreateActor(c)
    <3>1. PICK id \in Ids : id = call[c].id
      BY <2>1 DEF CreateActor, CallsInv, IdInv
    <3>2. CASE actor' = actor
      BY <2>1, <3>2, <1>1 DEF CreateActor
    <3>3. CASE ~Exists(id) /\ actor' = [actor EXCEPT ![id] = NewActor(TRUE)]
      BY <2>1, <3>3, ActorCreated DEF CreateActor
    <3> QED BY <2>1, <3>1, <3>2, <3>3 DEF CreateActor
  <2>2. CASE Resumes(c) \/ SuspendActor(c) \/ DeleteActor(c)
    <3>1. PICK id \in Ids : id = call[c].id
      BY <2>2 DEF Resumes, Observes, SuspendActor, DeleteActor, CallsInv, IdInv
    <3>2. \/ actor' = actor
          \/ Exists(id) /\ \E s \in ActorStates : actor' = Moved(id, s)
      BY <2>2, <3>1, <1>0 DEF Resumes, SuspendActor, DeleteActor, Exists
    <3>3. kind' = kind
      BY <2>2 DEF Resumes, SuspendActor, DeleteActor
    <3> QED BY <3>2, <3>3, <1>1, ActorMoves
  <2>3. CASE kind' = kind /\ actor' = actor
    BY <2>3, <1>1
  <2> QED BY <1>2, <2>1, <2>2, <2>3
      DEF ActorCallStep, WaitExpires, ProbeExpires, GetActor, ReGetActor, GetEgress, CreateEgress,
          ReGetEgress, ObservesRunning, ObservesEnd, ObservesTransition, GetActorDuringWait,
          ProbeAnswered, ListPage, actorVars
<1>3. ASSUME NEW c \in Calls, UNCHANGED actorVars,
             \/ ApiFails(c) \/ Take(c) \/ StartList(c, ActorsManaged)
             \/ \E id \in Ids : StartEnsure(c, id, ActorsTerminating) \/ StartDelete(c, id)
      PROVE  AbstractStep
  BY <1>3, <1>1 DEF actorVars, ApiFails, Take, StartList, StartEnsure, StartDelete
<1>4. ASSUME NEW id \in Ids, Completes(id) PROVE AbstractStep
  <2>1. CASE actor[id].state = "DELETING"
    <3>1. /\ actor'[id].state = "ABSENT" /\ ~actor'[id].app /\ ~actor'[id].served
          /\ \A j \in Ids \ {id} : actor'[j] = actor[j]
          /\ kind' = "substrate"
      BY <1>4, <2>1 DEF Completes, NoActor
    <3>2. resources' = resources \ {id} /\ up' = up \ {id}
      BY <3>1 DEF resources, up, Exists
    <3>3. published' = [published EXCEPT ![id] = None]
      BY <3>1 DEF published
    <3>4. Abstract!BackendDelete(id)
      BY <3>2, <3>3 DEF Abstract!BackendDelete
    <3> QED BY <3>4 DEF AbstractStep, Abstract!BackendNext
  <2>2. CASE actor[id].state # "DELETING"
    <3>1. Exists(id) /\ \E s \in ActorStates : actor' = Moved(id, s)
      BY <1>4, <2>2, <1>0 DEF Completes, Exists
    <3> QED BY <1>4, <3>1, ActorMoves DEF Completes
  <2> QED BY <2>1, <2>2
<1>5. ASSUME NEW id \in Ids, AppListens(id) PROVE AbstractStep
  <2>1. /\ actor'[id].app /\ actor'[id].served /\ actor'[id].state = actor[id].state
        /\ actor[id].state = "RUNNING" /\ ~actor[id].app
        /\ \A j \in Ids \ {id} : actor'[j] = actor[j]
        /\ kind' = "substrate"
    BY <1>5 DEF AppListens, providerVars, Actor
  <2>2. resources' = resources /\ id \in resources \ up
    BY <2>1 DEF resources, up, Exists
  <2>3. up' = up \cup {id}
    BY <2>1 DEF up
  <2>4. published' = [published EXCEPT ![id] = id]
    BY <2>1 DEF published
  <2>5. {i \in up : published[i] = id} = {}
    BY <2>1, ProviderAssumption DEF up, published
  <2>6. Abstract!PodReady(id, id)
    BY <2>2, <2>3, <2>4, <2>5 DEF Abstract!PodReady, Abstract!ServersOf
  <2> QED BY <2>6 DEF AbstractStep, Abstract!BackendNext
<1>6. ASSUME NEW id \in Ids, Intervenes(id) PROVE AbstractStep
  <2>1. \/ Exists(id) /\ \E s \in ActorStates : actor' = Moved(id, s)
        \/ ~Exists(id) /\ actor' = [actor EXCEPT ![id] = NewActor(FALSE)]
    BY <1>6, <1>0 DEF Intervenes, Exists
  <2>2. kind' = kind
    BY <1>6 DEF Intervenes
  <2> QED BY <2>1, <2>2, ActorMoves, ActorCreated
<1>7. ASSUME NEW id \in Ids, OperatorPolicy(id), UNCHANGED actorVars PROVE AbstractStep
  BY <1>7, <1>1 DEF OperatorPolicy, actorVars
<1> QED BY <1>2, <1>3, <1>4, <1>5, <1>6, <1>7 DEF ActorNext, ServerStep

(* Every configured provider implements Backend, the interface the session *)
(* manager's model and proofs rest on.                                     *)
THEOREM ProvidersImplementBackend == Spec => ImplementsBackend
<1>1. Init => Abstract!BackendInit
  <2> SUFFICES ASSUME Init PROVE Abstract!BackendInit
    OBVIOUS
  <2> USE DEF Init, ProviderInit, CustomResourceInit, SubstrateInit
  <2>1. resources = {} /\ up = {}
    BY DEF resources, up, CRManaged, Exists, NoActor, NoResource
  <2>2. published = [id \in Ids |-> None]
    BY DEF published, NoActor, NoResource
  <2> QED BY <2>1, <2>2 DEF Abstract!BackendInit
<1>2. ProvidersInv /\ [Next]_pvars => [Abstract!BackendNext]_(Abstract!backendVars)
  <2> SUFFICES ASSUME ProvidersInv, [Next]_pvars
               PROVE  [Abstract!BackendNext]_(Abstract!backendVars)
    OBVIOUS
  <2>1. CASE Next
    BY <2>1, CRRefines, ActorRefines DEF Next, AbstractStep, Abstract!backendVars
  <2>2. CASE UNCHANGED pvars
    BY <2>2 DEF pvars, Abstract!backendVars, resources, published, up, CRManaged, Exists
  <2> QED BY <2>1, <2>2
<1> QED BY <1>1, <1>2, ProvidersInvariant, PTL DEF Spec, ImplementsBackend, Abstract!BackendSpec

-----------------------------------------------------------------------------
(***************************************************************************)
(* Action properties.                                                      *)
(***************************************************************************)
(* The policy an operator attached stays until the sandbox goes: both      *)
(* creates refuse to replace one, and only the end of the sandbox removes  *)
(* it.                                                                     *)
THEOREM OperatorPolicyKept == Spec => PolicyKept
<1> DEFINE A == \A id \in Ids : policy[id] = "other" => policy'[id] = "other" \/ id \notin resources'
<1>1. ProvidersInv /\ [Next]_pvars => A
  <2> SUFFICES ASSUME ProvidersInv, [Next]_pvars, NEW id \in Ids, policy[id] = "other"
               PROVE  policy'[id] = "other" \/ id \notin resources'
    OBVIOUS
  <2> USE DEF ProvidersInv, ProvidersTypeOK, ProviderTypeOK
  <2>1. CASE policy' = policy
    BY <2>1
  <2>2. ASSUME NEW i \in Ids, policy[i] = "none", NEW p \in Policies,
               policy' = [policy EXCEPT ![i] = p]
        PROVE  policy'[id] = "other"
    BY <2>2
  <2>3. CASE kind \in CustomResourceKinds /\ CRNext
    <3>1. ASSUME NEW c \in Calls, CreateIngress(c)
          PROVE  policy' = policy \/ \E i \in Ids : policy[i] = "none" /\ policy' = [policy EXCEPT ![i] = "mine"]
      BY <3>1 DEF CreateIngress, CallsInv, IdInv, At
    <3>2. ASSUME NEW i \in Ids, Finalized(i) PROVE policy'[id] = "other" \/ id \notin resources'
      <4>1. CASE i = id
        <5>1. kind' \in CustomResourceKinds /\ ~cr'[id].exists
          BY <2>3, <3>2, <4>1 DEF Finalized, CustomResourceTypeOK, NoResource
        <5> QED BY <5>1 DEF resources, CRManaged, CustomResourceKinds
      <4>2. CASE i # id
        BY <3>2, <4>2 DEF Finalized
      <4> QED BY <4>1, <4>2
    <3>3. ASSUME NEW i \in Ids, OperatorPolicy(i) PROVE policy'[id] = "other"
      BY <3>3, <2>2 DEF OperatorPolicy, Policies
    <3> QED BY <2>1, <2>2, <2>3, <3>1, <3>2, <3>3, ZenonT(60)
        DEF CRNext, CRCallStep, CRControllerStep, PollExpires, GetResource, CreateResource, ReGetResource,
            PollResource, GetIngress, ListPods, DeleteResource, ListResources, BecomesReady, NamespaceSet,
            AddressPublished, PodDies, NoLongerReady, FailsForGood, ApiFails, Take, StartList, StartEnsure,
            StartDelete, providerVars, Policies
  <2>4. CASE kind = "substrate" /\ ActorNext
    <3>1. ASSUME NEW c \in Calls, CreateEgress(c)
          PROVE  policy' = policy \/ \E i \in Ids : policy[i] = "none" /\ policy' = [policy EXCEPT ![i] = "mine"]
      BY <3>1 DEF CreateEgress, CallsInv, IdInv, At
    <3>2. ASSUME NEW i \in Ids, Completes(i) PROVE policy'[id] = "other" \/ id \notin resources'
      <4>1. CASE i = id /\ actor[i].state = "DELETING"
        <5>1. kind' = "substrate" /\ actor'[id].state = "ABSENT"
          BY <2>4, <3>2, <4>1 DEF Completes, SubstrateTypeOK, NoActor
        <5> QED BY <5>1 DEF resources, Exists
      <4>2. CASE ~(i = id /\ actor[i].state = "DELETING")
        BY <3>2, <4>2 DEF Completes
      <4> QED BY <4>1, <4>2
    <3>3. ASSUME NEW i \in Ids, OperatorPolicy(i) PROVE policy'[id] = "other"
      BY <3>3, <2>2 DEF OperatorPolicy, Policies
    <3> QED BY <2>1, <2>2, <2>4, <3>1, <3>2, <3>3, ZenonT(60)
        DEF ActorNext, ActorCallStep, ServerStep, GetActor, CreateActor, ReGetActor, GetEgress, ReGetEgress,
            ObservesRunning, Resumes, ObservesEnd, ObservesTransition, GetActorDuringWait, ProbeAnswered,
            SuspendActor, DeleteActor, ListPage, WaitExpires, ProbeExpires, AppListens, Intervenes,
            ApiFails, Take, StartList, StartEnsure, StartDelete, providerVars, Policies
  <2> QED BY <2>1, <2>3, <2>4 DEF Next, pvars
<1> QED BY <1>1, ProvidersInvariant, PTL DEF Spec, PolicyKept

(* What happens to an id is no result. *)
LEMMA NoticeOut ==
  ASSUME NEW cs \in [Calls -> Call], NEW id, NEW c \in Calls
  PROVE  /\ Disturb(cs, id)[c].out = cs[c].out
         /\ Appears(cs, id)[c].out = cs[c].out
         /\ Disappears(cs, id)[c].out = cs[c].out
<1>1. \A r \in Call, b \in BOOLEAN : [r EXCEPT !.disturbed = b].out = r.out
  BY DEF Call
<1>2. \A r \in Call : [r EXCEPT !.disturbed = TRUE].out = r.out
  BY <1>1, Zenon
<1>3. Disturb(cs, id)[c].out = cs[c].out
  BY <1>2 DEF Disturb
<1>4. Appears(cs, id)[c].out = cs[c].out /\ Disappears(cs, id)[c].out = cs[c].out
  BY DEF Appears, Disappears, Call
<1> QED BY <1>3, <1>4

(* Beginning, giving up and taking the result of a call is no success.     *)
LEMMA SharedOut ==
  ASSUME call \in [Calls -> Call], NEW c \in Calls, NEW d \in Calls, NEW ids,
         call[c].out = None,
         \/ ApiFails(d) \/ Take(d) \/ StartList(d, ids)
         \/ \E id \in Ids : StartEnsure(d, id, ids) \/ StartDelete(d, id)
  PROVE  call'[c].out # "ok"
<1>0. None # "ok" /\ "error" # "ok"
  BY ProviderAssumption
<1>1. CASE d # c
  BY <1>0, <1>1 DEF ApiFails, Fail, Take, StartList, StartEnsure, StartDelete
<1>2. CASE d = c
  <2>1. CASE ApiFails(d)
    BY <1>0, <1>2, <2>1 DEF ApiFails, Fail, Returned, Call
  <2>2. CASE Take(d)
    BY <1>0, <1>2, <2>2 DEF Take, NoCall
  <2>3. CASE StartList(d, ids)
    BY <1>0, <1>2, <2>3 DEF StartList, NoCall
  <2>4. ASSUME NEW id \in Ids, StartEnsure(d, id, ids) PROVE call'[c].out # "ok"
    BY <1>0, <1>2, <2>4 DEF StartEnsure, NoCall
  <2>5. ASSUME NEW id \in Ids, StartDelete(d, id) PROVE call'[c].out # "ok"
    BY <1>0, <1>2, <2>5 DEF StartDelete, NoCall
  <2> QED BY <2>1, <2>2, <2>3, <2>4, <2>5
<1> QED BY <1>1, <1>2

(* The ways in which a call on a custom resource succeeds. *)
LEMMA CRSucceeds ==
  ASSUME ProvidersInv, kind \in CustomResourceKinds, CRNext, NEW c \in Calls,
         call[c].out = None, call'[c].out = "ok"
  PROVE  PollResource(c) \/ ListPods(c) \/ DeleteResource(c) \/ ListResources(c)
<1> USE DEF ProvidersInv, ProvidersTypeOK, ProviderTypeOK
<1>0. None # "ok" /\ "error" # "ok"
  BY ProviderAssumption
<1>1. SUFFICES ASSUME ~PollResource(c), ~ListPods(c), ~DeleteResource(c), ~ListResources(c)
               PROVE  call'[c].out # "ok"
  OBVIOUS
<1>2. ASSUME call'[c].out = call[c].out PROVE call'[c].out # "ok"
  BY <1>2, <1>0
<1>3. ASSUME NEW d \in Calls, \E pc \in PCs : Goto(d, pc) PROVE call'[c].out # "ok"
  BY <1>3, <1>2 DEF Goto, Call
<1>4. ASSUME NEW d \in Calls, Fail(d) PROVE call'[c].out # "ok"
  <2>1. CASE d = c
    BY <1>4, <2>1, <1>0 DEF Fail, Returned, Call
  <2>2. CASE d # c
    BY <1>4, <2>2, <1>2 DEF Fail
  <2> QED BY <2>1, <2>2
<1>5. ASSUME NEW d \in Calls, CRCallStep(d) \/ PollExpires(d) PROVE call'[c].out # "ok"
  <2>0. {"poll", "create", "reget", "create policy", "get policy", "list pods"} \subseteq PCs
    BY DEF PCs
  <2>1. CASE GetResource(d) \/ ReGetResource(d) \/ CreateIngress(d) \/ GetIngress(d) \/ PollExpires(d)
    BY <2>1, <2>0, <1>3, <1>4
       DEF GetResource, ReGetResource, CreateIngress, GetIngress, PollExpires
  <2>2. CASE CreateResource(d)
    <3>1. CASE \E pc \in PCs : Goto(d, pc)
      BY <3>1, <1>3
    <3>2. CASE call' = [Appears(call, call[d].id) EXCEPT ![d].pc = "poll"]
      <4>1. PICK cs : cs = Appears(call, call[d].id)
        OBVIOUS
      <4>2. cs[c].out = call[c].out
        BY <4>1, NoticeOut
      <4>3. cs \in [Calls -> Call]
        BY <4>1, <2>2, NoticeTypes DEF CreateResource, At, CallsInv, IdInv
      <4>4. call'[c].out = cs[c].out
        BY <3>2, <4>1, <4>3 DEF Call
      <4> QED BY <4>2, <4>4, <1>2
    <3> QED BY <2>2, <3>1, <3>2, <2>0 DEF CreateResource
  <2>3. CASE PollResource(d) \/ ListPods(d) \/ ListResources(d)
    <3>1. CASE d # c /\ call'[c] = call[c]
      BY <3>1, <1>2
    <3> QED BY <2>3, <3>1, <1>1, <1>3, <1>4, <2>0
        DEF PollResource, ListPods, ListResources, Answer
  <2>4. CASE DeleteResource(d)
    <3>1. d # c
      BY <2>4, <1>1
    <3>2. CASE Answer(d, None)
      BY <3>1, <3>2, <1>2 DEF Answer
    <3>3. CASE call' = [Disturb(call, call[d].id) EXCEPT ![d] = Returned(d, "ok", None)]
      <4>1. call'[c] = Disturb(call, call[d].id)[c]
        BY <3>1, <3>3 DEF Disturb
      <4> QED BY <4>1, NoticeOut, <1>2
    <3> QED BY <2>4, <3>2, <3>3 DEF DeleteResource
  <2> QED BY <1>5, <2>1, <2>2, <2>3, <2>4 DEF CRCallStep
<1>6. ASSUME NEW d \in Calls,
             \/ ApiFails(d) \/ Take(d) \/ StartList(d, CRManaged)
             \/ \E id \in Ids : StartEnsure(d, id, CRTerminating) \/ StartDelete(d, id)
      PROVE  call'[c].out # "ok"
  BY <1>6, SharedOut
<1>7. ASSUME NEW id \in Ids,
             \/ CRControllerStep(id) \/ PodDies(id) \/ NoLongerReady(id) \/ FailsForGood(id)
             \/ OperatorPolicy(id)
      PROVE  call'[c].out # "ok"
  BY <1>7, <1>2, NoticeOut
     DEF CRControllerStep, BecomesReady, NamespaceSet, AddressPublished, Finalized, PodDies,
         NoLongerReady, FailsForGood, OperatorPolicy, providerVars
<1> QED BY <1>5, <1>6, <1>7 DEF CRNext

(* The ways in which a call on an actor succeeds. *)
LEMMA ActorSucceeds ==
  ASSUME ProvidersInv, kind = "substrate", ActorNext, NEW c \in Calls,
         call[c].out = None, call'[c].out = "ok"
  PROVE  ProbeAnswered(c) \/ DeleteActor(c) \/ ListPage(c)
<1> USE DEF ProvidersInv, ProvidersTypeOK, ProviderTypeOK
<1>0. None # "ok" /\ "error" # "ok"
  BY ProviderAssumption
<1>1. SUFFICES ASSUME ~ProbeAnswered(c), ~DeleteActor(c), ~ListPage(c)
               PROVE  call'[c].out # "ok"
  OBVIOUS
<1>2. ASSUME call'[c].out = call[c].out PROVE call'[c].out # "ok"
  BY <1>2, <1>0
<1>3. ASSUME NEW cs \in [Calls -> Call], NEW d \in Calls, cs[c].out = call[c].out, NEW pc, NEW a,
             NEW b \in BOOLEAN,
             \/ call' = [cs EXCEPT ![d].pc = pc]
             \/ call' = [cs EXCEPT ![d].pc = pc, ![d].seen = a]
             \/ call' = [cs EXCEPT ![d].pc = pc, ![d].resumed = b]
      PROVE  call'[c].out # "ok"
  <2>1. \A x \in Call : /\ [x EXCEPT !.pc = pc].out = x.out
                        /\ [x EXCEPT !.pc = pc, !.seen = a].out = x.out
                        /\ [x EXCEPT !.pc = pc, !.resumed = b].out = x.out
    BY DEF Call
  <2>2. call'[c] \in {cs[c], [cs[c] EXCEPT !.pc = pc],
                      [cs[c] EXCEPT !.pc = pc, !.seen = a],
                      [cs[c] EXCEPT !.pc = pc, !.resumed = b]}
    BY <1>3
  <2>3. cs[c] \in Call
    BY <1>3
  <2> QED BY <1>0, <1>3, <2>1, <2>2, <2>3
<1>4. ASSUME NEW d \in Calls, Fail(d) PROVE call'[c].out # "ok"
  <2>1. CASE d = c
    BY <1>4, <2>1, <1>0 DEF Fail, Returned, Call
  <2>2. CASE d # c
    BY <1>4, <2>2, <1>2 DEF Fail
  <2> QED BY <2>1, <2>2
<1>5. ASSUME NEW d \in Calls, ActorCallStep(d) \/ WaitExpires(d) \/ ProbeExpires(d)
      PROVE  call'[c].out # "ok"
  <2>1. ASSUME NEW pc, Goto(d, pc) PROVE call'[c].out # "ok"
    BY <2>1, <1>3 DEF Goto
  <2>2. ASSUME NEW a, Found(d, a) PROVE call'[c].out # "ok"
    <3>1. PICK pc : pc = IF allowlist THEN "get policy" ELSE "wait"
      OBVIOUS
    <3>2. CASE call' = [call EXCEPT ![d].pc = pc, ![d].seen = a.state]
      BY <3>2, <1>3
    <3> QED BY <2>2, <3>1, <3>2, <1>4 DEF Found
  <2>3. CASE \/ GetActor(d) \/ ReGetActor(d) \/ GetEgress(d) \/ CreateEgress(d) \/ ReGetEgress(d)
             \/ ObservesRunning(d) \/ ObservesEnd(d) \/ ObservesTransition(d)
             \/ WaitExpires(d) \/ ProbeExpires(d)
    BY <2>1, <2>2, <2>3, <1>4, Zenon
       DEF GetActor, ReGetActor, GetEgress, CreateEgress, ReGetEgress, ObservesRunning,
           ObservesEnd, ObservesTransition, WaitExpires, ProbeExpires
  <2>4. CASE GetActorDuringWait(d)
    BY <2>4, <1>3, <1>4 DEF GetActorDuringWait
  <2>5. CASE Resumes(d)
    <3>1. CASE call' = [call EXCEPT ![d].pc = "sleep", ![d].resumed = TRUE]
      BY <3>1, <1>3, Zenon
    <3> QED BY <2>5, <3>1, <1>4 DEF Resumes
  <2>6. CASE CreateActor(d) \/ SuspendActor(d)
    <3>1. PICK id \in Ids : id = call[d].id
      BY <2>6 DEF CreateActor, SuspendActor, At, CallsInv, IdInv
    <3>2. /\ Appears(call, id) \in [Calls -> Call] /\ Appears(call, id)[c].out = call[c].out
          /\ Disturb(call, id) \in [Calls -> Call] /\ Disturb(call, id)[c].out = call[c].out
      BY NoticeTypes, NoticeOut
    <3>3. CASE CreateActor(d)
      <4>1. PICK pc : pc = IF allowlist THEN "get policy" ELSE "wait"
        OBVIOUS
      <4>2. CASE call' = [Appears(call, id) EXCEPT ![d].pc = pc, ![d].seen = "SUSPENDED"]
        BY <3>2, <4>2, <1>3
      <4> QED BY <3>1, <3>3, <4>1, <4>2, <2>1 DEF CreateActor
    <3>4. CASE SuspendActor(d)
      <4>1. CASE call' = [Disturb(call, id) EXCEPT ![d].pc = "delete"]
        BY <3>2, <4>1, <1>3
      <4>2. Goto(d, "delete") \/ call' = [Disturb(call, id) EXCEPT ![d].pc = "delete"]
        BY <3>1, <3>4, Zenon DEF SuspendActor
      <4> QED BY <4>1, <4>2, <2>1
    <3> QED BY <2>6, <3>3, <3>4
  <2>7. CASE ProbeAnswered(d) \/ ListPage(d)
    <3>1. d # c
      BY <2>7, <1>1
    <3>2. call'[c] = call[c]
      BY <2>7, <3>1 DEF ProbeAnswered, ListPage, Answer
    <3> QED BY <3>2, <1>2
  <2>8. CASE DeleteActor(d)
    <3>1. d # c
      BY <2>8, <1>1
    <3>2. CASE Answer(d, None)
      BY <3>1, <3>2, <1>2 DEF Answer
    <3>3. CASE call' = [Disturb(call, call[d].id) EXCEPT ![d] = Returned(d, "ok", None)]
      <4>1. call'[c] = Disturb(call, call[d].id)[c]
        BY <3>1, <3>3 DEF Disturb
      <4> QED BY <4>1, NoticeOut, <1>2
    <3> QED BY <2>8, <3>2, <3>3, <1>4 DEF DeleteActor
  <2> QED BY <1>5, <2>3, <2>4, <2>5, <2>6, <2>7, <2>8 DEF ActorCallStep
<1>6. ASSUME NEW d \in Calls,
             \/ ApiFails(d) \/ Take(d) \/ StartList(d, ActorsManaged)
             \/ \E id \in Ids : StartEnsure(d, id, ActorsTerminating) \/ StartDelete(d, id)
      PROVE  call'[c].out # "ok"
  BY <1>6, SharedOut
<1>7. ASSUME NEW id \in Ids, ServerStep(id) \/ Intervenes(id) \/ OperatorPolicy(id)
      PROVE  call'[c].out # "ok"
  <2>1. call' = call \/ call' = Disappears(call, id)
    BY <1>7 DEF ServerStep, Completes, AppListens, Intervenes, OperatorPolicy, providerVars
  <2> QED BY <2>1, <1>2, NoticeOut
<1> QED BY <1>5, <1>6, <1>7 DEF ActorNext

(* A step in which a call succeeds is a step of Next. *)
LEMMA Succeeds ==
  ASSUME ProvidersInv, [Next]_pvars, NEW c \in Calls, call[c].out = None, call'[c].out = "ok"
  PROVE  \/ /\ kind \in CustomResourceKinds /\ kind # "substrate" /\ kind' = kind
            /\ PollResource(c) \/ ListPods(c) \/ DeleteResource(c) \/ ListResources(c)
         \/ /\ kind = "substrate" /\ kind' = kind
            /\ ProbeAnswered(c) \/ DeleteActor(c) \/ ListPage(c)
<1>1. Next
  <2>1. None # "ok"
    BY ProviderAssumption
  <2> QED BY <2>1 DEF pvars
<1>2. CASE kind \in CustomResourceKinds /\ CRNext
  BY <1>2, CRSucceeds
     DEF CustomResourceKinds, PollResource, ListPods, DeleteResource, ListResources
<1>3. CASE kind = "substrate" /\ ActorNext
  BY <1>3, ActorSucceeds DEF ProbeAnswered, DeleteActor, ListPage
<1> QED BY <1>1, <1>2, <1>3 DEF Next

(* A Delete that reports success leaves the sandbox gone or going, however *)
(* many proxies ensure it meanwhile.                                       *)
THEOREM DeletesHonest == Spec => DeleteIsHonest
<1> DEFINE A == \A c \in Calls :
                  call[c].op = "delete" /\ call[c].out = None /\ call'[c].out = "ok"
                     => \/ call[c].id \notin resources'
                        \/ call[c].id \in (CRTerminating \cup ActorsTerminating)'
<1>1. ProvidersInv /\ [Next]_pvars => A
  <2> SUFFICES ASSUME ProvidersInv, [Next]_pvars, NEW c \in Calls,
                      call[c].op = "delete", call[c].out = None, call'[c].out = "ok"
               PROVE  \/ call[c].id \notin resources'
                      \/ call[c].id \in (CRTerminating \cup ActorsTerminating)'
    OBVIOUS
  <2> USE DEF ProvidersInv, ProvidersTypeOK, ProviderTypeOK, CustomResourceTypeOK, SubstrateTypeOK
  <2>1. PICK id \in Ids : id = call[c].id
    BY DEF CallsInv, IdInv
  <2>2. CASE DeleteResource(c) /\ kind # "substrate" /\ kind' = kind
    <3>1. CASE cr[id].exists
      <4>1. cr' = [cr EXCEPT ![id].deleting = TRUE]
        BY <2>1, <2>2, <3>1 DEF DeleteResource
      <4>2. cr'[id].deleting
        BY <4>1 DEF Resource
      <4> QED BY <2>1, <4>2 DEF CRTerminating
    <3>2. CASE ~cr[id].exists
      BY <2>1, <2>2, <3>2 DEF DeleteResource, resources, CRManaged
    <3> QED BY <3>1, <3>2
  <2>3. CASE DeleteActor(c) /\ kind = "substrate" /\ kind' = kind
    <3>1. CASE actor[id].state \in {"SUSPENDED", "CRASHED"}
      <4>1. actor' = Moved(id, "DELETING")
        BY <2>1, <2>3, <3>1 DEF DeleteActor, Exists
      <4>2. actor'[id].state = "DELETING"
        BY <4>1 DEF Moved, Actor
      <4> QED BY <2>1, <4>2 DEF ActorsTerminating
    <3>2. CASE actor[id].state = "ABSENT"
      BY <2>1, <2>3, <3>2 DEF DeleteActor, resources, Exists
    <3>3. CASE actor[id].state \notin {"SUSPENDED", "CRASHED", "ABSENT"}
      <4>1. Fail(c)
        BY <2>1, <2>3, <3>3 DEF DeleteActor, Exists
      <4> QED BY <4>1 DEF Fail, Returned, Call
    <3> QED BY <3>1, <3>2, <3>3
  <2> QED BY <2>2, <2>3, Succeeds
      DEF PollResource, ListPods, ListResources, ProbeAnswered, ListPage, At
<1> QED BY <1>1, ProvidersInvariant, PTL DEF Spec, DeleteIsHonest

(* The endpoint an Ensure returns is published at that moment. *)
THEOREM EndpointsPublished == Spec => AnswersArePublished
<1> DEFINE A == \A c \in Calls :
                  call[c].op = "ensure" /\ call[c].out = None /\ call'[c].out = "ok"
                     => /\ call[c].id \in resources
                        /\ call'[c].ans = published[call[c].id]
                        /\ call'[c].ans # None
<1>1. ProvidersInv /\ [Next]_pvars => A
  <2> SUFFICES ASSUME ProvidersInv, [Next]_pvars, NEW c \in Calls,
                      call[c].op = "ensure", call[c].out = None, call'[c].out = "ok"
               PROVE  /\ call[c].id \in resources
                      /\ call'[c].ans = published[call[c].id]
                      /\ call'[c].ans # None
    OBVIOUS
  <2> USE DEF ProvidersInv, ProvidersTypeOK, ProviderTypeOK, CustomResourceTypeOK, SubstrateTypeOK
  <2>1. PICK id \in Ids : id = call[c].id
    BY DEF CallsInv, IdInv
  <2>2. ASSUME NEW a, Answer(c, a) PROVE call'[c].ans = a
    BY <2>2 DEF Answer, Returned, Call
  <2>3. \A pc \in PCs : Goto(c, pc) => FALSE
    BY ProviderAssumption DEF Goto, Call
  <2>4. Fail(c) => FALSE
    BY DEF Fail, Returned, Call
  <2>5. CASE (PollResource(c) \/ ListPods(c)) /\ kind # "substrate"
    <3>1. cr[id].exists /\ cr[id].ip # None /\ Answer(c, cr[id].ip)
      BY <2>1, <2>3, <2>4, <2>5 DEF PollResource, ListPods, ClaimReady, PCs
    <3> QED BY <2>1, <2>2, <2>5, <3>1 DEF resources, CRManaged, published
  <2>6. CASE ProbeAnswered(c) /\ kind = "substrate"
    <3>1. actor[id].app /\ Answer(c, id)
      BY <2>1, <2>6 DEF ProbeAnswered
    <3>2. actor[id].served /\ Exists(id)
      BY <3>1 DEF ActorInv
    <3> QED BY <2>1, <2>2, <2>6, <3>1, <3>2, ProviderAssumption DEF resources, published
  <2> QED BY <2>5, <2>6, Succeeds DEF DeleteResource, ListResources, DeleteActor, ListPage, At
<1> QED BY <1>1, ProvidersInvariant, PTL DEF Spec, AnswersArePublished
=============================================================================
