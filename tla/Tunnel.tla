------------------------------ MODULE Tunnel ------------------------------
(***************************************************************************)
(* handleWS from the moment the upgrade request has been written: the      *)
(* sandbox's answer, the hijack, the two goroutines that splice the        *)
(* connections and the accounting; with the process the tunnels live in.   *)
(*                                                                         *)
(* pc is where handleWS is:                                                *)
(*   free      not called yet          first   in the first <-errc         *)
(*   upgrade   in ReadResponse         close   about to close both         *)
(*   hijack    about to Hijack         second  in the second <-errc        *)
(*   handshake about to write the 101  account about to run the deferred   *)
(*   open      about to ConnOpened             accounting                  *)
(*                                     ended   returned                    *)
(*                                                                         *)
(* A byte is its position in what its sender sent.  The two directions are *)
(* c2b (from the client to the backend) and b2c.  A copy reads and writes; *)
(* its write has no deadline, and returns when the peer has room for it,   *)
(* which a peer that stopped reading never has, or the connection ends.    *)
(***************************************************************************)
EXTENDS Process, Sequences, FiniteSets

CONSTANTS
    Tunnels,   \* the upgrade requests of the run
    MaxBytes   \* bound: what both sides together send over one tunnel

ASSUME TunnelAssumption == IsFiniteSet(Tunnels) /\ MaxBytes \in Nat

VARIABLES
    tunnel,  \* the state of each request
    gauge    \* the metric active_connections

vars == <<processVars, tunnel, gauge>>

Dirs == {"c2b", "b2c"}
Sides == {"client", "backend"}
Source(d) == IF d = "c2b" THEN "client" ELSE "backend"
Sink(d) == IF d = "c2b" THEN "backend" ELSE "client"

(* Past ConnOpened and not yet past ConnClosed. *)
OpenPcs == {"first", "close", "second", "account"}

Tunnel ==
    [pc : {"free", "upgrade", "hijack", "handshake", "open", "ended"} \cup OpenPcs,
     link : [Sides -> {"open", "eof", "dead"}],  \* what each peer did to its connection
     shut : BOOLEAN,                             \* handleWS closed both
     sent : [Dirs -> 0..MaxBytes],
     buf : [Dirs -> 0..MaxBytes],    \* the end of what brw and backendBr hold
     pos : [Dirs -> 0..MaxBytes],    \* the last byte read
     held : [Dirs -> 0..1],          \* read, and not yet written
     out : [Dirs -> Seq(1..MaxBytes)],
     copier : [Dirs -> {"off", "drain", "copy", "send", "done"}],
     n : [Dirs -> 0..MaxBytes],      \* what the running copy has written
     total : [Dirs -> 0..MaxBytes],  \* the atomic counters c2b and b2c
     clean : [Dirs -> BOOLEAN],      \* the copy ended because its source did
     errc : 0..2,                    \* the length of the channel
     added : [Dirs -> 0..MaxBytes]]  \* what AddBytes was given

NewTunnel ==
    LET zero == [d \in Dirs |-> 0] IN
    [pc |-> "free", link |-> [s \in Sides |-> "open"], shut |-> FALSE,
     sent |-> zero, buf |-> zero, pos |-> zero, held |-> zero,
     out |-> [d \in Dirs |-> <<>>], copier |-> [d \in Dirs |-> "off"],
     n |-> zero, total |-> zero, clean |-> [d \in Dirs |-> FALSE],
     errc |-> 0, added |-> zero]

Init ==
    /\ ProcessInit
    /\ tunnel = [t \in Tunnels |-> NewTunnel]
    /\ gauge = 0

Running == proc \notin Ended

(* The metrics of open connections. *)
ConnOpened == gauge' = gauge + 1
ConnClosed == gauge' = gauge - 1

-----------------------------------------------------------------------------
(* The request is accepted, and written to the sandbox.                    *)
Accept(t) ==
    /\ data = "up" /\ tunnel[t].pc = "free"
    /\ tunnel' = [tunnel EXCEPT ![t].pc = "upgrade"]
    /\ UNCHANGED <<processVars, gauge>>

(* ReadResponse returns: a 101, with k bytes behind it in backendBr; any   *)
(* other status, or an error, is passed on and ends the handler.  Nothing  *)
(* makes the sandbox answer.                                               *)
UpgradeAnswered(t) ==
    /\ Running /\ tunnel[t].pc = "upgrade"
    /\ \/ \E k \in 0..MaxBytes :
            tunnel' = [tunnel EXCEPT ![t].pc = "hijack",
                                     ![t].sent["b2c"] = k, ![t].buf["b2c"] = k]
       \/ tunnel' = [tunnel EXCEPT ![t].pc = "ended"]
    /\ UNCHANGED <<processVars, gauge>>

(* Hijack fails, or hands over the connection and k bytes in brw that the  *)
(* client sent behind its request.                                         *)
Hijack(t) ==
    /\ Running /\ tunnel[t].pc = "hijack"
    /\ \/ \E k \in 0..(MaxBytes - tunnel[t].sent["b2c"]) :
            tunnel' = [tunnel EXCEPT ![t].pc = "handshake",
                                     ![t].sent["c2b"] = k, ![t].buf["c2b"] = k]
       \/ tunnel' = [tunnel EXCEPT ![t].pc = "ended"]
    /\ UNCHANGED <<processVars, gauge>>

WriteHandshake(t) ==
    /\ Running /\ tunnel[t].pc = "handshake"
    /\ \/ tunnel[t].link["client"] # "dead" /\ tunnel' = [tunnel EXCEPT ![t].pc = "open"]
       \/ tunnel[t].link["client"] = "dead" /\ tunnel' = [tunnel EXCEPT ![t].pc = "ended"]
    /\ UNCHANGED <<processVars, gauge>>

(* Mutant: what the server has already read of the client is left behind. *)
OpenTunnel_SkipsBuffered(t) ==
    /\ Running /\ tunnel[t].pc = "open"
    /\ tunnel' = [tunnel EXCEPT ![t].pc = "first",
                                ![t].pos["c2b"] = tunnel[t].buf["c2b"],
                                ![t].copier = [d \in Dirs |-> "copy"]]
    /\ ConnOpened
    /\ UNCHANGED processVars

(* ConnOpened, and the two goroutines. *)
OpenTunnel(t) ==
    /\ Running /\ tunnel[t].pc = "open"
    /\ tunnel' = [tunnel EXCEPT
                    ![t].pc = "first",
                    ![t].copier = [d \in Dirs |->
                        IF d = "c2b" /\ tunnel[t].buf[d] > 0 THEN "drain" ELSE "copy"]]
    /\ ConnOpened
    /\ UNCHANGED processVars

-----------------------------------------------------------------------------
(* What a read of t's direction d finds now.  Bytes in a bufio.Reader      *)
(* survive their connection.                                               *)
Readable(t, d) ==
    LET u == tunnel[t] IN
    \/ u.pos[d] < u.buf[d]
    \/ u.pos[d] < u.sent[d] /\ u.link[Source(d)] # "dead" /\ ~u.shut

AtEOF(t, d) ==
    LET u == tunnel[t] IN
    u.pos[d] = u.sent[d] /\ u.link[Source(d)] = "eof" /\ ~u.shut

ReadFails(t, d) ==
    LET u == tunnel[t] IN
    u.pos[d] >= u.buf[d] /\ (u.link[Source(d)] = "dead" \/ u.shut)

(* A write of direction d does not fail; it may block. *)
Writable(t, d) == tunnel[t].link[Sink(d)] # "dead" /\ ~tunnel[t].shut

(* A copy is in Read, or in Write. *)
InRead(t, d) == tunnel[t].copier[d] \in {"drain", "copy"} /\ tunnel[t].held[d] = 0
InWrite(t, d) == tunnel[t].copier[d] \in {"drain", "copy"} /\ tunnel[t].held[d] = 1

(* CopyN reads no further than what was buffered. *)
ReadByte(t, d) ==
    /\ Running /\ InRead(t, d) /\ Readable(t, d)
    /\ tunnel[t].copier[d] = "drain" => tunnel[t].pos[d] < tunnel[t].buf[d]
    /\ tunnel' = [tunnel EXCEPT ![t].pos[d] = @ + 1, ![t].held[d] = 1]
    /\ UNCHANGED <<processVars, gauge>>

(* The peer takes the byte. *)
WriteByte(t, d) ==
    /\ Running /\ InWrite(t, d) /\ Writable(t, d)
    /\ tunnel' = [tunnel EXCEPT ![t].held[d] = 0,
                                ![t].out[d] = Append(@, tunnel[t].pos[d]),
                                ![t].n[d] = @ + 1]
    /\ UNCHANGED <<processVars, gauge>>

(* CopyN has written all that was buffered: it is counted, and Copy begins.*)
DrainEnds(t, d) ==
    /\ Running /\ InRead(t, d)
    /\ tunnel[t].copier[d] = "drain" /\ tunnel[t].pos[d] = tunnel[t].buf[d]
    /\ tunnel' = [tunnel EXCEPT ![t].copier[d] = "copy", ![t].n[d] = 0,
                                ![t].total[d] = @ + tunnel[t].n[d]]
    /\ UNCHANGED <<processVars, gauge>>

(* A copy ends: a write fails, a read fails, or the source is at its end;  *)
(* what it wrote is counted either way.                                    *)
CopyEnds(t, d) ==
    /\ Running
    /\ \/ InWrite(t, d) /\ ~Writable(t, d)
       \/ /\ InRead(t, d) /\ tunnel[t].copier[d] = "copy"
          /\ ReadFails(t, d) \/ AtEOF(t, d)
    /\ tunnel' = [tunnel EXCEPT ![t].copier[d] = "send", ![t].n[d] = 0,
                                ![t].clean[d] = InRead(t, d) /\ AtEOF(t, d),
                                ![t].total[d] = @ + tunnel[t].n[d]]
    /\ UNCHANGED <<processVars, gauge>>

(* Mutant: the return after the first errc <- err is missing. *)
SendResult_NoReturn(t, d) ==
    /\ Running /\ tunnel[t].copier[d] = "send"
    /\ tunnel' = [tunnel EXCEPT ![t].copier[d] = "done", ![t].errc = @ + 2]
    /\ UNCHANGED <<processVars, gauge>>

(* errc has room for both. *)
SendResult(t, d) ==
    /\ Running /\ tunnel[t].copier[d] = "send"
    /\ tunnel' = [tunnel EXCEPT ![t].copier[d] = "done", ![t].errc = @ + 1]
    /\ UNCHANGED <<processVars, gauge>>

FirstResult(t) ==
    /\ Running /\ tunnel[t].pc = "first" /\ tunnel[t].errc > 0
    /\ tunnel' = [tunnel EXCEPT ![t].pc = "close", ![t].errc = @ - 1]
    /\ UNCHANGED <<processVars, gauge>>

(* Mutant: the connections are left to the deferred calls. *)
CloseBoth_Deferred(t) ==
    /\ Running /\ tunnel[t].pc = "close"
    /\ tunnel' = [tunnel EXCEPT ![t].pc = "second"]
    /\ UNCHANGED <<processVars, gauge>>

(* Mutant: the other direction's result is not waited for. *)
CloseBoth_NoWait(t) ==
    /\ Running /\ tunnel[t].pc = "close"
    /\ tunnel' = [tunnel EXCEPT ![t].pc = "account", ![t].shut = TRUE]
    /\ UNCHANGED <<processVars, gauge>>

CloseBoth(t) ==
    /\ Running /\ tunnel[t].pc = "close"
    /\ tunnel' = [tunnel EXCEPT ![t].pc = "second", ![t].shut = TRUE]
    /\ UNCHANGED <<processVars, gauge>>

SecondResult(t) ==
    /\ Running /\ tunnel[t].pc = "second" /\ tunnel[t].errc > 0
    /\ tunnel' = [tunnel EXCEPT ![t].pc = "account", ![t].errc = @ - 1]
    /\ UNCHANGED <<processVars, gauge>>

(* The deferred calls: ConnClosed and AddBytes, twice. *)
Account(t) ==
    /\ Running /\ tunnel[t].pc = "account"
    /\ tunnel' = [tunnel EXCEPT ![t].pc = "ended", ![t].added = tunnel[t].total]
    /\ ConnClosed
    /\ UNCHANGED processVars

(* A peer sends, ends its half of the connection, or is gone: from the     *)
(* client's first byte until handleWS is done.                             *)
PeerActs(t, d) ==
    /\ Running /\ tunnel[t].pc \in {"handshake", "open"} \cup OpenPcs
    /\ \/ /\ tunnel[t].link[Source(d)] = "open"
          /\ tunnel[t].sent["c2b"] + tunnel[t].sent["b2c"] < MaxBytes
          /\ tunnel' = [tunnel EXCEPT ![t].sent[d] = @ + 1]
       \/ /\ tunnel[t].link[Source(d)] = "open"
          /\ tunnel' = [tunnel EXCEPT ![t].link[Source(d)] = "eof"]
       \/ /\ tunnel[t].link[Source(d)] # "dead"
          /\ tunnel' = [tunnel EXCEPT ![t].link[Source(d)] = "dead"]
    /\ UNCHANGED <<processVars, gauge>>

-----------------------------------------------------------------------------
(* The handlers Shutdown waits for: those it still knows the connection of.*)
Busy == \E t \in Tunnels : tunnel[t].pc \in {"upgrade", "hijack"}

ShutdownStep == Shutdown \/ Drained(Busy) \/ DrainExpires \/ Exit

ProcessStep ==
    /\ \/ LoadConfig \/ BuildComponents \/ ReconcileReturns \/ ReaperPanics
       \/ InformerStops \/ DataListener \/ MgmtFails
       \/ Signal \/ ShutdownStep
    /\ UNCHANGED <<tunnel, gauge>>

HandlerStep(t) ==
    \/ OpenTunnel(t) \/ FirstResult(t) \/ CloseBoth(t)
    \/ SecondResult(t) \/ Account(t)

CopierStep(t, d) ==
    \/ ReadByte(t, d) \/ DrainEnds(t, d) \/ CopyEnds(t, d) \/ SendResult(t, d)

Next ==
    \/ ProcessStep
    \/ \E t \in Tunnels :
        \/ Accept(t) \/ UpgradeAnswered(t) \/ Hijack(t) \/ WriteHandshake(t)
        \/ HandlerStep(t)
        \/ \E d \in Dirs : CopierStep(t, d) \/ WriteByte(t, d) \/ PeerActs(t, d)

(* Goroutines run, as far as no peer keeps them.  The deadlines of         *)
(* Reconcile and of Shutdown pass.  No peer is made to send, to read, to   *)
(* end or to answer an upgrade, and no signal has to come.                 *)
Fairness ==
    /\ WF_vars(ReconcileReturns /\ UNCHANGED <<tunnel, gauge>>)
    /\ WF_vars(ShutdownStep /\ UNCHANGED <<tunnel, gauge>>)
    /\ \A t \in Tunnels :
        /\ WF_vars(HandlerStep(t))
        /\ \A d \in Dirs : WF_vars(CopierStep(t, d))

Spec == Init /\ [][Next]_vars

FairSpec == Spec /\ Fairness

-----------------------------------------------------------------------------
TypeOK ==
    /\ ProcessTypeOK
    /\ tunnel \in [Tunnels -> Tunnel]
    /\ gauge \in Nat

(* What handleWS counts is what it copied (proxy.go:360): when a tunnel    *)
(* has ended, both byte metrics got exactly the bytes written in their     *)
(* direction, whichever side ended first, whatever failed, and the gauge   *)
(* of open connections counts the tunnels that have not ended.             *)
AccountingExact ==
    /\ \A t \in Tunnels : tunnel[t].pc = "ended" =>
        \A d \in Dirs : tunnel[t].added[d] = Len(tunnel[t].out[d])
    /\ gauge = Cardinality({t \in Tunnels : tunnel[t].pc \in OpenPcs})

(* No byte is skipped, doubled or reordered (proxy.go:279, proxy.go:337):  *)
(* a direction carries the bytes its sender sent, the ones read together   *)
(* with the headers first, up to where it is cut off; one that ended       *)
(* because its sender did is not cut off and has carried all of them.      *)
StreamsIntact ==
    \A t \in Tunnels, d \in Dirs :
        LET u == tunnel[t] IN
        /\ u.out[d] = [i \in 1..Len(u.out[d]) |-> i]
        /\ u.clean[d] => Len(u.out[d]) = u.sent[d]

(* The switch of FromEnv and the switch of run agree, and every address    *)
(* built from SANDBOX_PORT and SANDBOX_MCP_PORT can be dialled             *)
(* (config.go:203).  The router's port is not looked at.                   *)
ConfigUsable ==
    proc \in {"backend", "reconcile"} =>
        /\ env.backend \in Kinds
        /\ env.backend # "substrate" => DialledPorts(env) \subseteq 1..MaxPort

(* A write that waits for a peer that is there. *)
Stalled(t, d) == InWrite(t, d) /\ Writable(t, d)

(* A spliced tunnel ends when either side does (proxy.go:358), even if the *)
(* other copy is blocked on a peer that says nothing or reads nothing.     *)
(* The one thing that keeps it is the copy that reads from the side that   *)
(* left, when it waits for ever for the other peer to read: writes have no *)
(* deadline, and a copy in Write does not see its source close             *)
(* (proxy.go:341, proxy.go:349, proxy.go:356).                             *)
TunnelsEnd ==
    \A t \in Tunnels, d \in Dirs :
        (tunnel[t].pc = "first" /\ tunnel[t].link[Source(d)] # "open")
            ~> \/ tunnel[t].pc = "ended" \/ proc \in Ended
               \/ [](Stalled(t, d) /\ tunnel[t].pc = "first")

(* A process that is told to stop, or has lost its informer or its data    *)
(* listener, ends (main.go:90, main.go:140), whatever upgrade is still     *)
(* unanswered and whatever tunnel is still open.                           *)
ExitsWhenBroken ==
    (cancelled \/ informer = "stopped" \/ data = "failed") ~> (proc \in Ended)
=============================================================================
