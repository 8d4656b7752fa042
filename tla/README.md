# A TLA+ model of the Playwright sandbox proxy

This directory models the proxy of this repository in TLA+. TLC checks the
models on small instances; TLAPS proves the central results for every value of
the constants. `PROJECT.json` lists, for every definition, the lines of the
source it stands for, and every run, mutant, finding, hazard and theorem.

## The system

A client pod labelled `playwright-id: <id>` connects to the proxy. The proxy
finds out which id the source address belongs to, gets the session of the id
(creating a sandbox at a provider if there is none), and forwards the request:
an HTTP round trip, or a WebSocket tunnel. Sessions nobody uses are reaped.

| Component | State | Operations | Hard because |
|---|---|---|---|
| `internal/session` | map id → `*Session`, map id → time of last refresh; per session: endpoint, `ready` channel, error, `lastActive`, `activeConn` | `Get`, `Refresh`, `resolve`, `reapOnce`, `Reconcile`, `MarkActive`, `ConnOpened`, `ConnClosed` | one goroutine per request, one per Ensure, one reaper; the lock is released between deciding and acting |
| `internal/proxy` | per request: the session it holds, its connection | `ServeHTTP`, `handleHTTP`, `RoundTrip`, `handleWS` | a failed dial replaces the session under other requests; clients leave at any point |
| `internal/backend` | the provider's resources, their status and policies | `Ensure`, `Delete`, `List` of four providers, each several API calls | pods are evicted and come back elsewhere; calls fail half done; two proxies at once during a rolling update |
| `internal/identify` | map address → id, diagnosed addresses, ready flag | `Lookup`, informer handlers, diagnostics | two unordered writers of one map; addresses outlive pods |
| the tunnel in `handleWS` | two connections, what was buffered behind the headers, byte totals, `errc` | upgrade, hijack, two copy loops, accounting | either side may end, reset or stop reading at any byte, and writes have no deadline |
| `cmd/playwright-proxy` | the context, four goroutines | start, `Signal`, `Shutdown` | a goroutine that ends must not leave half a process behind |
| `internal/config` | – | `FromEnv`, `parsePort` | two switches on the backend's name; zero means different things for two ports |
| `internal/metrics` | collectors | increments | the gauge of open connections must come back to zero |
| `ateapipb` | – | generated client of substrate's Control service | – |

Interactions: `ServeHTTP` calls `Lookup`, then `Get`; `Get` starts a `resolve`
goroutine that calls `Ensure`; a failed dial calls `Refresh`, which calls `Get`;
the reaper calls `Delete`; `Reconcile` calls `List` once at start. The session
map, guarded by `Manager.mu`, and the atomics of a session are the shared state.

What makes each part correct:

* sessions: one Ensure per id at a time; a session in use is not reaped; the
  connection count is exact; failures and idle sessions go away; a dead
  endpoint is replaced, but not on every request;
* handlers: every waiter is answered; a request reaches the sandbox of its own
  id; the session that was counted is the one that is released;
* providers: an endpoint belongs to the sandbox that was checked, an operator's
  policy is never replaced, `Delete` does not claim what it did not do, `List`
  misses nothing, retrying comes to something;
* the tunnel and the process: no byte is skipped, doubled or miscounted; a tunnel
  ends when either side does, unless the other has stopped reading; a process
  without its informer or its listener ends;
* identify: a client is taken for the id of its own label, labelled pods are not
  turned away, lookups end, diagnostics run once.

## The modules

    Backend  <-  SessionManager  <-  ProxyHandler  <-  ProxyGate      <-  MCProxy, ProxyProofs
                                                       (INSTANCE EnsureGate)
                                     ProxyHandler  <-  RefreshRate    <-  MCProxy
                                     ProxyHandler  <-  ProxyLiveness  <-  ProxyClaims
    ProxyProofs  <-  ConnProofs;  ProxyProofs, RefreshRate  <-  RateProofs
    Identify <-  MCIdentify, IdentifyProofs  <-  IndexProofs
    Provider <-  CustomResource, Substrate  <-  Providers  <-  ProviderProofs
                                                (INSTANCE Backend)
    Process  <-  Tunnel  <-  TunnelProofs  <-  SpliceProofs

* **Backend** – what the session manager relies on in a provider: a resource per
  id, an address in its status, a pod that may or may not serve at it. The
  controller is external: it starts a pod for a resource (`PodReady`), pods die
  (`Evict`), and after an eviction the status keeps the dead address until the
  replacement is up. `BackendCreate` is the idempotent create every `Ensure`
  begins with, `EndpointsFound` what its polling can return.
* **SessionManager** – `internal/session`. A `*Session` is a slot of `Sess`;
  `obj[s]` holds its fields, and its phase says whether `ready` is open
  (`ensure`, before the create; `poll`, after it) or closed (`ready`, `failed`).
  Every critical section of `Manager.mu` is one operator. `ReapScan` is
  `reapOnce` up to the unlock; the `Delete` calls follow one by one.
  `Refresh` is `RefreshStale` or `RefreshNoop`, then `Get`.
* **ProxyHandler** – the handlers, composed with the two above, and the process
  itself (`Crash`, `Start`). `req[r].pc` is the handler's program counter;
  `sess` is the variable of that name in the code, `ref` the session that
  `Refresh` is about to return. Several details of the code are kept because
  properties depend on them: `handleWS` assigns the refreshed session to
  `sess`, `RoundTrip` does not; `handleHTTP` marks its first session active at
  the end even after an error, but not when the response is aborted
  (`ReverseProxy` panics); `ConnClosed` is two steps; within the cooldown
  `Refresh` returns an unresolved session.
* **EnsureGate** – the concurrency contract stated at `backend.Backend`, as a
  specification of its own. **ProxyGate** states that the proxy refines it, with
  `holder[id]` mapped to the sessions of `id` that are resolving.
* **RefreshRate** – adds a history variable, the time since `Refresh` last threw
  a session of the id away.
* **ProxyLiveness** – fairness and the liveness properties. **ProxyClaims** –
  what documents and comments say and the code does not do.
* **Identify** – `internal/identify`. The pods, the API server, the watch and the
  delivery of events to handlers are the environment. A pod can send requests
  before its status shows its address; a completed pod keeps its status while
  its address is free again; a broken watch leads to a relist in which deletes
  come last. Lookups begin once the index is ready: `/readyz` (`main.go`, lines 120
  to 131) keeps the Service from sending connections before the first list.
* **Provider** – calls through `backend.Backend`: any mix of `Ensure`, `Delete` and
  `List`, of one proxy or of several. A call is a slot with a program counter;
  every API call of the code is a step. `disturbed`, `kept` and `met` record what
  happened while a call was under way and only the properties read them.
* **CustomResource** – `sandboxclaim.go`, `isola.go` and `karssandbox.go`, which share
  get-or-create and polling. What differs is kept: only sandboxclaim reads again
  after `AlreadyExists`; isola and kars have terminal statuses; kars waits for a
  namespace, creates or compares an ingress policy in it, and then lists pods.
  The controllers publish readiness and address separately, lose pods, and
  delete gracefully.
* **Substrate** – `substrate.go`: `getOrCreate` and the check of the template,
  `ensureEgressPolicy`, `waitForRunning` (which decides on the state it observed
  last and resumes once), `waitUpstreamReady`, the two calls of `Delete`, the
  pages of `List`. The server is external; its rules are those stated at
  `ControlClient` in `ateapi_grpc.pb.go`.
* **Providers** – the provider main selects, its fairness, its properties, and the
  refinement of **Backend**: a resource or an actor is a `resource`, the published
  address (or, once the application has listened, the actor) is `addr`.
* **Process** – `FromEnv` as a predicate on the environment, `run` with the goroutines
  it starts and what their ends do, both `Shutdown`s and their deadline.
* **Tunnel** – `handleWS` from the written upgrade request on, byte by byte, in that
  process. A byte is its position in its sender's stream, so a skipped, doubled or
  reordered byte is visible in `out`. `ReadByte` takes a byte from the source, from
  then on the copy is in a `Write` (`held`) until `WriteByte`, or until the connection
  breaks or is closed. A peer that is there need not read: a write may block for good.
* **ProxyProofs**, **ConnProofs**, **RateProofs**, **IdentifyProofs**, **IndexProofs**,
  **ProviderProofs**, **TunnelProofs**, **SpliceProofs** – the proofs.

### Abstractions

* Time is kept as ages, capped where the code stops telling values apart:
  `idle` at `IdleTTL`, `lastRefresh` at `Cooldown` (an expired and an absent
  entry are alike). Any number of steps may happen between two ticks.
* Slots of `Sess` nobody refers to become unused again, as after garbage
  collection, so behaviours are unbounded although `Sess` is finite. `Collect`
  and the choice of the least free slot are not code.
* The select in `Get` and the `MarkActive` after it are one step, as are the two
  writes of `ConnOpened` (the positive count alone protects the session). The
  two writes of `ConnClosed` are not.
* `Endpoint` of an unresolved session is read without synchronisation in the
  code; in the model the dial may read it before or after the write.
* A client that leaves during a dial makes it fail; in the model that is one of
  the things the fault `flaky` stands for.
* In `ProxyHandler` a shutdown is a crash: whatever it drains, it may end at any
  point. `Process` has it in detail. There `Signal` happens only once it is
  caught, and the sync of the informer is `Identify`'s.
* Names of resources are injective in the id, isola's truncated hash included. A
  create the API server refuses (an invalid name, say) is an `ApiFails`.
* A page of `ListActors` is any part of the actors not on an earlier page; the
  last one has all that are left. `SuspendActor` may return before the actor is
  suspended. Nothing in the repository says more of either.
* A copy loop that ends adds its bytes to the total in the same step: nobody
  reads the total before both results are in.
* `InformerLists(f)` announces the pods the informer selects or did so far in the
  order `f`, any in which the tombstones come last.
* In `Identify` an unchanged pod may be announced again by a relist, which
  client-go may suppress; the handlers are idempotent. Edits of the label of a
  live pod are left out.

## The runs

Faults are constants of a run: `flaky` (a dial of a healthy endpoint may fail),
`evict`, `reuse` (addresses are given out again while remembered), `delete`,
`list` (these calls may fail), `crash`. An Ensure may always fail.

| Run | Instance | Shows |
|---|---|---|
| `handlers` | 2 requests, 1 id, 4 sessions, limits of 2 ticks; flaky, crash, delete | `TypeOK`, `IndInv`, `SingleEnsure`, `ConnAccounting`, `TunnelKeepsSession`, `GateSpec`, `DropsAreSpaced` |
| `two_ids` | 1 request, 2 ids, 3 addresses; evict, crash | `DialsOwnSandbox` |
| `progress` | 2 requests, 1 id; flaky | `RequestsProgress`, `UnusedReaped`, `FailureForgotten` |
| `recovery` | 1 request, 1 id, 3 addresses, limits of 2 ticks; evict, crash, list, delete | `StaleReplaced` |
| `identify_fresh` | 2 pods, 2 addresses, 1 lookup; watch breaks | `TypeOK`, `NoMisidentification`, `CaughtUp` |
| `identify_reuse` | 2 pods share 1 address, early reuse, watch breaks | `NoFalseForbidden` |
| `identify_lookups` | 2 lookups, 1 address, 2 polls; reuse, jobs, lists fail, time passes | `SingleDiagnosis`, `LookupsEnd` |
| `backends` | 2 calls, 1 id, 2 addresses, 2 faults, each of the 4 providers | `ProvidersTypeOK`, `AnsweredInForce`, `ListIsComplete`, `ImplementsBackend`, `AnswersArePublished`, `PolicyKept`, `DeleteIsHonest`, `RetriesSucceed` |
| `streams` | 1 tunnel, 2 bytes, any environment with the numbers 0, 1 and 65536 | `TypeOK`, `AccountingExact`, `StreamsIntact`, `ConfigUsable`, `TunnelsEnd`, `ExitsWhenBroken` |

Bounds. Two requests of an id are what the races between `Get`, `Refresh` and
the reaper need: one to hold or replace a session, one to see it change. Four
sessions are as many as two requests and the map can refer to at once, with one
to spare; with fewer, a `Get` could wait for a slot, which the code never does.
`IdleTTL` and `Cooldown` of 1 or 2 ticks give every order of ages and limits;
`DropsAreSpaced` needs `IdleTTL >= Cooldown`, as in the code (10 minutes and 2
seconds), because the reaper forgets when an id was last refreshed. Three
requests, or two requests with two ids, are beyond what TLC does in minutes: the
proofs cover any number. `MaxEvents` bounds the undelivered events of
`Identify`, `MaxTries` the polls of a lookup (100 in the code); the proofs are for
every value. `identify_lookups` has two polls, so that a lookup sleeps and comes back
to a cache and a cluster that have changed.

Ids do not interact inside a provider, except on the pages of `List`, so one id
with two calls has the races of `backends`: two creates, an Ensure and a Delete, a
List and either. Two faults are what it takes to interrupt a call and to disturb
its retry. The proofs cover any number of ids, calls and faults. Two bytes per
tunnel let one be buffered behind the headers and one follow, or one flow each
way; 0 and 65536 are just outside the range of a port.

Deadlock is checked in every run but `streams`, whose process may end, which
stops everything. Requests, addresses and ids are symmetric in the safety runs of
the proxy; liveness runs use no symmetry.

Fairness (`ProxyLiveness!Fairness`): runnable goroutines run; a dead connection
breaks (TCP keep-alive is on by default in `net.Dialer` and `net/http`); an
Ensure ends, because `resolve` gives it `ensureTimeout`; `Delete` returns; the
clock advances; the Deployment restarts a crashed proxy. Nothing is assumed of
cancellations, nor of the end of an upgrade, a tunnel or a round trip, which the
code leaves without a deadline. `StaleReplaced` assumes in addition clients that
keep asking with requests that can be replayed and do not all leave before the
proxy has dialled (`RetryingSpec`): nothing else triggers a refresh. `LookupsEnd`
assumes that a lookup's own steps are taken.

`Providers!Fairness`: a goroutine that can go on does; a deadline ends a wait that
is enabled again and again (strong fairness: `WaitExpires` is enabled only between
two polls, and `ensureTimeout` runs on through both); controllers and the server
complete what they began. Failing calls, dying pods and operators are never made
to happen. `RetriesSucceed` leaves out what only an operator can repair (`Wedged`:
a crashed actor, a foreign template, a conflicting policy, a terminal status):
the code reports those and never deletes on its own. `Tunnel!Fairness`: handlers
run, and copiers where no peer keeps them; the deadlines of `Reconcile` and `Shutdown`
pass. Nothing makes a peer send, read, end or answer, so there is no fairness on
`WriteByte`, and `TunnelsEnd` names the one thing that can keep a tunnel whose side has
left: the copy from that side waits for ever in a write (`Stalled`).

### Where documents and code disagree

Each of these runs ends with a counterexample; `PROJECT.json` has the quotes.

| Run | What happens |
|---|---|
| `claim_tunnel_kept` | between the reaper's scan and its `Delete`, a new session of the id is made, resolved and tunnelled; the `Delete` removes its sandbox |
| `claim_redial` | within the cooldown `Refresh` hands out a session whose Ensure is in flight |
| `claim_unlabelled` | a lookup stores its entry after the pod's delete event was handled; the entry identifies the next owner of the address |

Three more things a reader of the documents may not expect, which the models reach
and no property forbids: a side of a tunnel can leave unnoticed while the other does
not read, because the copy that would notice is blocked in a write without a deadline
(the exception in `TunnelsEnd`), and the tunnel keeps its sandbox; a plain request is no connection, so one that outlasts
`IDLE_TTL` does not keep its sandbox; and a resource whose Ensure failed after the
create has no session, so it is deleted only after a later request of its id, or a
restart, has given it one.

## The proofs

`ProxyProofs` proves, for every `Ids`, finite `Reqs`, `Sess`, `Addrs`, `Kinds`,
`Faults` and every positive `IdleTTL` and `Cooldown`:

* `TypeCorrect`: `Spec => []TypeOK`;
* `HandlersAgree`: `Spec => []IndInv`;
* `AtMostOneEnsure`: `Spec => []SingleEnsure`;
* `ImplementsGate`: `Spec => GateSpec`;
* `WaitersAnswered`: `Spec => []NobodyWaitsInVain`;
* `RequestsMoveOn`: `Spec => [][\A r \in Reqs : Onward(req[r], req'[r])]_vars`.

`SingleEnsure` is not inductive. Two facts make it so, and `IndInv` is their
closure: a session that is resolving is the one the map has for its id
(`ResolvingInv`), so a `Get` that finds none starts the only Ensure; and a
handler that is about to call `Refresh` holds a session whose Ensure succeeded
(part of `RequestInv`), so the drop in `Refresh`, guarded by the comparison with
`stale`, never removes one that is resolving. That the reaper skips unresolved
sessions, that a failed `Get` drops only the session it saw, that garbage
collection spares what handlers hold, and that `Start` begins from nothing
(`UnusedInv`) close the induction. Most steps move one request and change
sessions harmlessly; `MoveInv` treats all of them. The refinement adds that no
step replaces a mapped session by another one directly (`StepMap`).
`WaitersAnswered` is what the invariant says to a handler in the `select` of `Get`: the
session it waits on has its outcome, or is the one the map has and its Ensure is in
flight; none is given up with a waiter. `RequestsMoveOn` orders the places of a
handler: it only moves forward or returns, so it dials at most twice.
The assumptions are `NoneAssumption`, `SessionAssumption` and
`HandlerAssumption`: `None` is none of the other values, `Sess` consists of
naturals, `Reqs` is finite, limits are positive. TLC evaluates them in every run.

`ConnProofs` proves, from `IndInv` and two more invariants,

* `ConnectionsCounted`: `Spec => []ConnAccounting`;
* `TunnelsKeepSessions`: `Spec => TunnelKeepsSession`;
* `DialsStayHome`: `"reuse" \notin Faults => (Spec => DialsOwnSandbox)`.

`ConnAccounting` compares a counter with the number of requests in a tunnel, so every
step is shown to change both or neither; almost all do neither (`Quiet`). `ConnInv`
adds what that needs: a session with an endpoint is resolved, and a WebSocket goes
on to the upgrade with the resolved session it dialled. With the count exact, a
tunnel of a session is a positive count, and `reapOnce` takes only sessions with
none: `TunnelsKeepSessions` is the consequence for every step. `DialsStayHome` needs
`AddrInv`: no two resources publish one address, and an address a session
remembers is published by no resource but the session's own. That is false once
addresses are given out again while remembered, hence the hypothesis; nothing in
the code prevents that.
`Reqs` is finite because at any time there are finitely many requests; a
cardinality means something only then.

`RateProofs` proves `DropsSpaced`:
`IdleTTL >= Cooldown => (RateSpec => DropsAreSpaced)`. `Refresh` itself only looks at
`lastRefresh`, which the reaper clears together with a session. `RateInv` says that
`lastRefresh` is never older than the last drop, and neither is the idle time of the
session in the map, unless the last drop is a cooldown ago: the drop emptied the
map, so whatever is there now came later. The reaper takes only a session that
was idle for `IdleTTL`, so by then the cooldown has passed anyway. The code does not
enforce the hypothesis (`IDLE_TTL` can be set); the defaults, 10 minutes and 2
seconds, satisfy it.

`IdentifyProofs` proves `AtMostOneDiagnosis`: `Spec => []SingleDiagnosis`. The
strengthening says that a lookup that runs the unlabelled list owns a valid
entry. It rests on `EntryExpires` not happening during a list: the list has two
seconds, the entry ten minutes. `LookupsProceed` gives each lookup a rank, from the
polls it has left and its place within one, that each of its steps makes smaller
and nobody else's changes: it returns after at most `6 * MaxTries + 5` steps.

`IndexProofs` proves, for every `Ids`, finite `Pods`, `IPs`, `Lookups`, `MaxTries` and
`MaxEvents`,

* `IndexTypeCorrect`: `Spec => []TypeOK`;
* `LabelledServed`: `Faults \cap {"jobs", "api"} = {} => (Spec => []NoFalseForbidden)`;
* `NeverMisidentified`: `Faults \cap {"reuse", "early"} = {} => (Spec => []NoMisidentification)`;
* `InformerCatchesUp`: `Faults \cap {"reuse", "early"} = {} => (Spec => []CaughtUp)`;
* `UnlabelledTurnedAway`: `Faults \cap {"reuse", "early"} = {} => (Spec => []UnlabelledForbidden)`.

`PlaceInv` says where pods and lookups are: running pods have addresses of their
own, and the living client of a lookup runs at the address that is looked up.
`LabelledServed` adds that the list of the fallback finds the client and nobody
else, so the lookup never reaches the branches that end without an id. A
completed pod keeps its address in its status while another pod has it, and a list
that fails says nothing: the hypothesis excludes both, and nothing else.
`NeverMisidentified` and `InformerCatchesUp` share `FreshInv`. An address is owned by
the pod that runs or is listed at it and by the one the informer's store has there.
All these are one pod with one label (`OneOwner`), and events, index and answers
about an owned address carry that label. The hard steps are a delete (the handlers
remove the entry of an address whoever has it, so nobody may own it by then,
`GoneUnowned`) and a list after the watch broke, when pods may have gone and come
back under their names. The hypothesis is that an address is given out again only
when no event, store, entry or lookup has it; `claim_unlabelled` shows what happens
without it, and `UnlabelledTurnedAway` that the claim holds with it.

`ProviderProofs` proves, for every `Ids`, `Addrs`, `Calls` and `MaxFaults`, all four
providers and either setting of the allowlist:

* `ProvidersTypeCorrect`: `Spec => []ProvidersTypeOK`;
* `ProvidersImplementBackend`: `Spec => ImplementsBackend`;
* `EndpointsInForce`: `Spec => []AnsweredInForce`;
* `EndpointsPublished`: `Spec => AnswersArePublished`;
* `OperatorPolicyKept`: `Spec => PolicyKept`;
* `DeletesHonest`: `Spec => DeleteIsHonest`;
* `ListsComplete`: `Spec => []ListIsComplete`.

The inductive invariant `ProvidersInv` says of every call what its reads are still
worth. A resource goes only after it was being deleted, and whoever begins a
deletion marks the Ensures of its id as disturbed; so for an Ensure that is not
disturbed, what it read is still so at each later program counter: the resource
exists, has its template, has its policy (`EnsureInv`). A List between two pages
has collected, of what was there all along, all that is on the pages read, and
nothing that was never there (`ListInv`). `ResourceInv` and `ActorInv` tie status to
existence, which the refinement needs: nothing is published for what does not
exist. Calls do not touch each other's slots but for the marks, so each action is
checked for its own call, and `BystanderInv` treats the rest. The refinement goes
action by action: creates map to `BackendCreate`, `Finalized` and the completion of
a deletion to `BackendDelete`, publication to `PodReady`, deaths to `Evict`, all else
stutters. The only assumption is `ProviderAssumption` (`None` is no other value, the
bound is a natural); TLC evaluates it in `backends`.

`TunnelProofs` proves, for every finite `Tunnels` and every `MaxBytes`, environment and
process,

* `TypeCorrect`: `Spec => []TypeOK`;
* `AccountingIsExact`: `Spec => []AccountingExact`;
* `StreamsStayIntact`: `Spec => []StreamsIntact`;
* `ConfigIsUsable`: `Spec => []ConfigUsable`.

Each tunnel satisfies `SpliceInv` whatever the others do. What was written in a
direction is the beginning of what was sent, up to the byte that is held, and a copy
that ended cleanly had nothing left (`PassedOn`); every written byte is in the running copy's count or in the
total, once (`Counted`); the results in `errc` and those the handler took are the
copiers that are done (`ResultsInv`), so both are done when it accounts. The gauge is
the cardinality of the set of spliced tunnels, which is why `Tunnels` is finite.
`ConfigIsUsable` follows `FromEnv` through both switches on the backend: whatever
passes has a backend `run` knows and ports a dial can use.

`SpliceProofs` proves the two parts of `TunnelsEnd` that are safety:

* `TunnelsNeverStuck`: `Spec => [](NeverStuck /\ CopierAwaited)`;
* `TunnelsAdvance`: the rank of every tunnel is a natural number, and every step of
  its handler or of a copier makes it smaller; peers, other tunnels and the process
  leave it alone.

`NeverStuck` says that whoever waits for the second result waits for nobody outside the
process: every copier that is not done can move, because the close has made its read
or its write fail. Before the close, the copier of a side that left can move unless it is
in a write that the other side does not take. `CopierAwaited`: a handler with nothing in
`errc` has a copier that is not done. Both need two facts beyond `SpliceInv` (`Waits`): a
handler waits for the second result only after it closed both connections, and `CopyN`
does not pass the end of the buffer. The rank adds up what the handler and each copier
have before them and the bytes still to be read and written (`MaxBytes` bounds what the
peers send): at most `15 + 4 * MaxBytes` steps. `TunnelsEnd` itself adds that a step that can be taken is taken, which is fairness.

Every invariant and every safety action property that a passing run checks is also a
theorem. Only model-checked are the liveness properties, because fairness and
`ENABLED` are out of the prover's reach: `RequestsProgress`, `UnusedReaped`,
`FailureForgotten`, `StaleReplaced`, `LookupsEnd`, `RetriesSucceed`, `TunnelsEnd` and
`ExitsWhenBroken`. Of these, `TunnelsEnd`, `LookupsEnd` and `RequestsProgress` have their
safety parts proved: nobody waits for what nobody will do, and no step goes back.
The proofs check within a fifth of the provers' default time limits, so that they
do not depend on the machine.

## Not modelled

* The generated client (`ateapipb`, 12823 of the 15703 lines of Go outside the
  tests): serialisation, getters and services the proxy does not call. The enum of
  actor states, the actor and the calls the proxy makes are in `Substrate`. The rest
  of the program fits in the other 2880 lines, and those are what the map covers.
* Metrics nobody reads back, beyond the gauge and the byte counters of tunnels.
* The bodies of resources (pod templates, security contexts, egress rules), headers,
  the routing of a request to an actor by its host name, error texts, logging.
* Token files of substrate beyond whether they can be read, TLS, `Close`.
* Manifests and test scripts; what they imply for the process (it is restarted,
  two run during an update) is in the models.

## Plan

1. Done: the session manager and the handlers over the backend contract, with
   the refinement of `EnsureGate`; identify; the four providers and their
   refinement of `Backend`; the tunnel and the process; the proofs above.
2. Done: a theorem for every invariant and safety action property of the runs.
3. Done: the step properties behind the liveness of tunnels, lookups and requests,
   as theorems.
4. Left: the same for the calls of the providers, whose polls end by a deadline and
   not by a count, so that a rank would have to include time.
