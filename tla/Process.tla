------------------------------ MODULE Process ------------------------------
(***************************************************************************)
(* cmd/playwright-proxy and internal/config: what the environment has to   *)
(* say for the process to start, the goroutines run starts, and how the    *)
(* process ends.                                                           *)
(*                                                                         *)
(* proc is where run is:                                                   *)
(*   config     about to call config.FromEnv                               *)
(*   backend    in the switch on cfg.Backend                               *)
(*   reconcile  the informer runs, in Reconcile                            *)
(*   serving    blocked on ctx.Done()                                      *)
(*   draining   in dataSrv.Shutdown                                        *)
(*   stopping   in mgmtSrv.Shutdown                                        *)
(*   exited     returned; failed: returned an error, exit status 1         *)
(*   panicked   a goroutine panicked                                       *)
(***************************************************************************)
EXTENDS Integers

CONSTANTS
    Numbers,  \* the values a numeric variable may have in the environment
    None      \* a variable that is unset, or does not parse

ASSUME ProcessAssumption == Numbers \subseteq Int /\ None \notin Numbers

VARIABLES
    proc,
    env,        \* the environment; None once the components are built from it
    cancelled,  \* ctx is done
    informer,   \* the goroutine of idx.Run
    reaper,     \* the goroutine of ReapLoop
    data,       \* the goroutine of the data listener
    mgmt        \* the goroutine of the management listener

processVars == <<proc, env, cancelled, informer, reaper, data, mgmt>>

Kinds == {"sandboxclaim", "substrate", "karssandbox", "isola"}

(* What each backend cannot do without. *)
Required ==
    [k \in Kinds |->
        CASE k = "sandboxclaim" -> {"WARMPOOL_NAME"}
          [] k = "substrate" -> {"SUBSTRATE_ACTOR_TEMPLATE"}
          [] k = "karssandbox" -> {"KARS_INFERENCE_REF", "KARS_SANDBOX_IMAGE"}
          [] k = "isola" -> {"ISOLA_SANDBOX_IMAGE"}]

Names == {"POD_NAMESPACE"} \cup UNION {Required[k] : k \in Kinds}

(* The environment, as far as FromEnv and the constructors look at it.     *)
(* malformed: a variable that is set to something of the wrong shape.      *)
Environment ==
    [backend : Kinds \cup {"unknown"},
     unset : Names \cup {None},
     malformed : {"SUBSTRATE_ALLOWED_HTTP_HOSTS", "IDLE_TTL", "SUBSTRATE_ACTOR_TEMPLATE",
                  "SUBSTRATE_FORCE_BOOT", "SUBSTRATE_TOKEN_FILE", None},
     port : Numbers \cup {None},      \* SANDBOX_PORT, given or defaulted
     mcpPort : Numbers \cup {None},   \* SANDBOX_MCP_PORT; 0 also when unset
     router : Numbers \cup {None},    \* the port of SUBSTRATE_ROUTER_ADDR
     interval : Numbers]              \* IDLE_CHECK_INTERVAL

Ended == {"exited", "failed", "panicked"}

ProcessTypeOK ==
    /\ proc \in {"config", "backend", "reconcile", "serving", "draining", "stopping"}
                   \cup Ended
    /\ env \in Environment \cup {None}
    /\ cancelled \in BOOLEAN
    /\ informer \in {"off", "running", "stopped"}
    /\ reaper \in {"off", "loops", "panics"}
    /\ data \in {"off", "starting", "up", "failed", "closed"}
    /\ mgmt \in {"off", "up", "failed", "closed"}

ProcessInit ==
    /\ proc = "config"
    /\ env \in Environment
    /\ cancelled = FALSE
    /\ informer = "off" /\ reaper = "off" /\ data = "off" /\ mgmt = "off"

-----------------------------------------------------------------------------
MaxPort == 65535

(* Mutant: zero is a port. *)
parsePort_Zero(p, allowZero) == p # None /\ p >= 0 /\ p <= MaxPort

parsePort(p, allowZero) ==
    /\ p # None
    /\ \/ allowZero /\ p = 0
       \/ p >= 1 /\ p <= MaxPort

(* FromEnv returns a configuration.  Which error it returns otherwise does *)
(* not matter.  A template is only asked to contain a slash here.          *)
Accepted(e) ==
    /\ e.malformed \notin {"SUBSTRATE_ALLOWED_HTTP_HOSTS", "IDLE_TTL"}
    /\ parsePort(e.port, FALSE)
    /\ parsePort(e.mcpPort, TRUE)
    /\ e.unset # "POD_NAMESPACE"
    /\ e.backend \in Kinds
    /\ e.unset \notin Required[e.backend]

(* NewSubstrateWithOptions refuses the old boot override and checks the    *)
(* template's parts, the token file and that the router's port is a        *)
(* number, any number; the other constructors check nothing.               *)
Constructed(e) ==
    e.backend = "substrate" =>
        /\ e.malformed \notin {"SUBSTRATE_ACTOR_TEMPLATE", "SUBSTRATE_FORCE_BOOT",
                               "SUBSTRATE_TOKEN_FILE"}
        /\ e.router # None

(* Endpoint.Addr and MCPAddr: the ports dialled for WebSockets and MCP.    *)
(* Only a claim's endpoint has a port of its own for MCP.                  *)
DialledPorts(e) ==
    CASE e.backend = "sandboxclaim" ->
             {e.port, IF e.mcpPort = 0 THEN e.port ELSE e.mcpPort}
      [] e.backend = "substrate" -> {e.router}
      [] OTHER -> {e.port}

LoadConfig ==
    /\ proc = "config"
    /\ proc' = IF Accepted(env) THEN "backend" ELSE "failed"
    /\ UNCHANGED <<env, cancelled, informer, reaper, data, mgmt>>

(* The clients, the backend, the informer's goroutine and the manager.     *)
(* Outside a cluster there are no clients, whatever the environment.       *)
BuildComponents ==
    /\ proc = "backend"
    /\ \/ /\ env.backend \in Kinds /\ Constructed(env)
          /\ proc' = "reconcile"
          /\ informer' = "running"
       \/ /\ proc' = "failed"
          /\ UNCHANGED informer
    /\ UNCHANGED <<env, cancelled, reaper, data, mgmt>>

(* Reconcile returns, after List, after an error, or when ctx or its 10    *)
(* seconds are over; then the reaper and the listeners start.              *)
ReconcileReturns ==
    /\ proc = "reconcile"
    /\ proc' = "serving"
    /\ reaper' = IF env.interval > 0 THEN "loops" ELSE "panics"
    /\ data' = "starting" /\ mgmt' = "up"
    /\ env' = None
    /\ UNCHANGED <<cancelled, informer>>

(* A ticker does not take a period that is not positive, and the panic of  *)
(* the reaper's goroutine ends the process.                                *)
ReaperPanics ==
    /\ reaper = "panics" /\ proc \notin Ended
    /\ proc' = "panicked"
    /\ UNCHANGED <<env, cancelled, informer, reaper, data, mgmt>>

(* The log line, and cancel, unless ctx is done already. *)
InformerStops ==
    /\ informer = "running" /\ ~cancelled /\ proc \notin Ended
    /\ informer' = "stopped"
    /\ cancelled' = TRUE
    /\ UNCHANGED <<proc, env, reaper, data, mgmt>>

(* The address cannot be bound, or accepting fails.  Without its data      *)
(* listener the process ends; without the other one it stays.              *)
DataListener ==
    /\ proc \notin Ended
    /\ \/ data = "starting" /\ data' = "up" /\ UNCHANGED cancelled
       \/ data \in {"starting", "up"} /\ data' = "failed" /\ cancelled' = TRUE
    /\ UNCHANGED <<proc, env, informer, reaper, mgmt>>

MgmtFails ==
    /\ proc \notin Ended /\ mgmt = "up"
    /\ mgmt' = "failed"
    /\ UNCHANGED <<proc, env, cancelled, informer, reaper, data>>

(* SIGTERM or SIGINT, once they are caught. *)
Signal ==
    /\ proc \in {"reconcile", "serving"} /\ ~cancelled
    /\ cancelled' = TRUE
    /\ UNCHANGED <<proc, env, informer, reaper, data, mgmt>>

(* Shutdown closes the listener at once and then waits.                    *)
Shutdown ==
    /\ proc = "serving" /\ cancelled
    /\ proc' = "draining"
    /\ data' = "closed"
    /\ UNCHANGED <<env, cancelled, informer, reaper, mgmt>>

(* Shutdown waits for the handlers that have not hijacked their connection *)
(* (busy), and mgmtSrv is shut down after it.                              *)
Drained(busy) ==
    /\ proc = "draining" /\ ~busy
    /\ proc' = "stopping"
    /\ mgmt' = "closed"
    /\ UNCHANGED <<env, cancelled, informer, reaper, data>>

(* Mutant: a Shutdown without a deadline. *)
DrainExpires_Never ==
    proc = "draining" /\ FALSE /\ UNCHANGED processVars

(* Its context gives them 10 seconds, however busy they are.               *)
DrainExpires ==
    /\ proc = "draining"
    /\ proc' = "stopping"
    /\ mgmt' = "closed"
    /\ UNCHANGED <<env, cancelled, informer, reaper, data>>

Exit ==
    /\ proc = "stopping"
    /\ proc' = "exited"
    /\ UNCHANGED <<env, cancelled, informer, reaper, data, mgmt>>
=============================================================================
