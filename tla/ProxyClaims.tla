---------------------------- MODULE ProxyClaims ----------------------------
(***************************************************************************)
(* What the repository's documents and comments say of the proxy and the   *)
(* code does not do.  Each claim is refuted by a run of its own.           *)
(***************************************************************************)
EXTENDS ProxyLiveness

(* "A long-lived but silent WebSocket keeps the sandbox alive"             *)
(* (docs/ARCHITECTURE.md): a resource is not deleted while a tunnel of its *)
(* id's own session, the one on the map, is open to its pod.  reapOnce     *)
(* calls Delete after the unlock, by id: a new session of that id that was *)
(* resolved and tunnelled in between loses its sandbox.                    *)
TunnelKeepsSandbox ==
    [][\A r \in Reqs :
          /\ req[r].pc = "tunnel"
          /\ sessions[req[r].id] = Target(req[r])
          /\ ServersOf(req[r].conn) = {req[r].id}
          => req[r].id \in resource']_vars

(* "concurrent callers racing on the same dead endpoint collapse onto a    *)
(* single re-Ensure via Get's existing singleflight-by-ready-channel"      *)
(* (internal/session/session.go): a caller of Refresh dials only an        *)
(* endpoint that Ensure has returned.  Within the cooldown Refresh returns *)
(* the mapped session without waiting for its ready channel.               *)
RedialsResolved ==
    \A r \in Reqs : req[r].pc = "redial" => obj[Target(req[r])].phase = "ready"
=============================================================================
