---------------------------- MODULE SpliceProofs ----------------------------
(***************************************************************************)
(* Why a tunnel ends, as far as that is a matter of safety: in no          *)
(* reachable state is everyone waiting, but for a peer that does not read  *)
(* (NeverStuck), and every step of handleWS and of its two goroutines uses *)
(* up some of a number that no peer and no other tunnel adds to (Rank).    *)
(* Fairness has only to add that a step that can be taken is taken, which  *)
(* is TunnelsEnd.                                                          *)
(***************************************************************************)
EXTENDS TunnelProofs

(* What handleWS has before it. *)
PcRank(pc) ==
    CASE pc = "free" -> 15      [] pc = "upgrade" -> 14
      [] pc = "hijack" -> 13    [] pc = "handshake" -> 12
      [] pc = "open" -> 11      [] pc = "first" -> 4
      [] pc = "close" -> 3      [] pc = "second" -> 2
      [] pc = "account" -> 1    [] pc = "ended" -> 0

(* What a copier has before it, but for the bytes. *)
CopierRank(c) ==
    CASE c = "drain" -> 3 [] c = "copy" -> 2 [] c = "send" -> 1
      [] c \in {"off", "done"} -> 0

(* A byte has to be read and written. *)
BytesRank(u, d) == 2 * (MaxBytes - u.pos[d]) + u.held[d]

(* The steps a tunnel can still take at most, beyond its peers'. *)
Rank(u) ==
    PcRank(u.pc) + CopierRank(u.copier["c2b"]) + CopierRank(u.copier["b2c"])
        + BytesRank(u, "c2b") + BytesRank(u, "b2c")

(* Neither the handler nor a copier moved. *)
Still(u, v) ==
    v.pc = u.pc /\ v.copier = u.copier /\ v.pos = u.pos /\ v.held = u.held

Advances(u, v) == Still(u, v) \/ Rank(v) < Rank(u)

(* The two facts NeverStuck needs beyond SpliceInv: the handler waits for  *)
(* the second result with both connections closed, and CopyN does not read *)
(* past what was buffered.                                                 *)
Waits(u) ==
    /\ u.pc = "second" => u.shut
    /\ \A d \in Dirs : u.copier[d] = "drain" => u.pos[d] <= u.buf[d]

(* The ranks are natural numbers. *)
LEMMA RankTypes ==
  /\ \A pc \in Pcs : PcRank(pc) \in Nat
  /\ \A c \in Copiers : CopierRank(c) \in Nat
  /\ PcRank("free") = 15 /\ PcRank("upgrade") = 14 /\ PcRank("hijack") = 13
  /\ PcRank("handshake") = 12 /\ PcRank("open") = 11 /\ PcRank("first") = 4
  /\ PcRank("close") = 3 /\ PcRank("second") = 2 /\ PcRank("account") = 1
  /\ PcRank("ended") = 0
  /\ CopierRank("off") = 0 /\ CopierRank("drain") = 3 /\ CopierRank("copy") = 2
  /\ CopierRank("send") = 1 /\ CopierRank("done") = 0
<1>1. /\ PcRank("free") = 15 /\ PcRank("upgrade") = 14 /\ PcRank("hijack") = 13
      /\ PcRank("handshake") = 12 /\ PcRank("open") = 11 /\ PcRank("first") = 4
      /\ PcRank("close") = 3 /\ PcRank("second") = 2 /\ PcRank("account") = 1
      /\ PcRank("ended") = 0
  BY DEF PcRank
<1>2. /\ CopierRank("off") = 0 /\ CopierRank("drain") = 3 /\ CopierRank("copy") = 2
      /\ CopierRank("send") = 1 /\ CopierRank("done") = 0
  BY DEF CopierRank
<1>3. \A pc \in Pcs : PcRank(pc) \in Nat
  BY <1>1 DEF Pcs, BeforeOpen, OpenPcs
<1>4. \A c \in Copiers : CopierRank(c) \in Nat
  BY <1>2 DEF Copiers
<1> QED BY <1>1, <1>2, <1>3, <1>4

(* The parts of the rank of a tunnel. *)
LEMMA RankParts ==
  ASSUME NEW u, SpliceInv(u)
  PROVE  /\ PcRank(u.pc) \in Nat
         /\ CopierRank(u.copier["c2b"]) \in Nat /\ CopierRank(u.copier["b2c"]) \in Nat
         /\ BytesRank(u, "c2b") \in Nat /\ BytesRank(u, "b2c") \in Nat
         /\ Rank(u) \in Nat
<1>1. u.pc \in Pcs /\ \A d \in Dirs : u.copier[d] \in Copiers /\ u.pos[d] \in 0..MaxBytes
  BY Fields DEF SpliceInv, Dirs
<1>2. \A d \in Dirs : CopierRank(u.copier[d]) \in Nat
  BY <1>1, RankTypes
<1>3. PcRank(u.pc) \in Nat
  BY <1>1, RankTypes
<1>4. ASSUME NEW d \in Dirs PROVE BytesRank(u, d) \in Nat
  <2>1. u.held[d] \in Nat /\ MaxBytes \in Nat /\ u.pos[d] \in Nat /\ u.pos[d] <= MaxBytes
    BY <1>1, NumberFields DEF SpliceInv
  <2> QED BY <2>1 DEF BytesRank
<1>5. "c2b" \in Dirs /\ "b2c" \in Dirs
  BY DEF Dirs
<1> QED BY <1>2, <1>3, <1>4, <1>5 DEF Rank

(* The bytes of a tunnel whose copiers neither read nor write. *)
LEMMA BytesStay ==
  ASSUME NEW u, NEW v, v.pos = u.pos, v.held = u.held
  PROVE  BytesRank(v, "c2b") = BytesRank(u, "c2b") /\ BytesRank(v, "b2c") = BytesRank(u, "b2c")
BY DEF BytesRank

(* The handler moves on. *)
LEMMA PcDrops ==
  ASSUME NEW u, NEW v, SpliceInv(u), SpliceInv(v), v.held = u.held,
         v.copier = u.copier, v.pos = u.pos, PcRank(v.pc) < PcRank(u.pc)
  PROVE  Rank(v) < Rank(u)
BY RankParts, BytesStay DEF Rank

(* A copier moves on. *)
LEMMA CopierDrops ==
  ASSUME NEW u, NEW v, SpliceInv(u), SpliceInv(v), v.pc = u.pc, v.pos = u.pos, v.held = u.held,
         NEW d \in Dirs, CopierRank(v.copier[d]) < CopierRank(u.copier[d]),
         \A e \in Dirs : e # d => v.copier[e] = u.copier[e]
  PROVE  Rank(v) < Rank(u)
<1>1. CASE d = "c2b"
  BY <1>1, RankParts, BytesStay DEF Rank, Dirs
<1>2. CASE d = "b2c"
  BY <1>2, RankParts, BytesStay DEF Rank, Dirs
<1> QED BY <1>1, <1>2 DEF Dirs

(* A copier reads or writes a byte. *)
LEMMA BytesDrop ==
  ASSUME NEW u, NEW v, SpliceInv(u), SpliceInv(v), v.pc = u.pc, v.copier = u.copier,
         NEW d \in Dirs,
         \/ v.pos[d] = u.pos[d] + 1 /\ v.held[d] = 1 /\ u.held[d] = 0
         \/ v.pos[d] = u.pos[d] /\ v.held[d] = 0 /\ u.held[d] = 1,
         \A e \in Dirs : e # d => v.pos[e] = u.pos[e] /\ v.held[e] = u.held[e]
  PROVE  Rank(v) < Rank(u)
<1>1. BytesRank(v, d) < BytesRank(u, d)
  <2>1. u.pos[d] \in Nat /\ MaxBytes \in Nat
    BY NumberFields DEF SpliceInv
  <2> QED BY <2>1 DEF BytesRank
<1>2. \A e \in Dirs : e # d => BytesRank(v, e) = BytesRank(u, e)
  BY DEF BytesRank
<1>3. CASE d = "c2b"
  BY <1>1, <1>2, <1>3, RankParts DEF Rank, Dirs
<1>4. CASE d = "b2c"
  BY <1>1, <1>2, <1>4, RankParts DEF Rank, Dirs
<1> QED BY <1>3, <1>4 DEF Dirs

-----------------------------------------------------------------------------
(* A tunnel that goes on as it should, from u to v. *)
Goes(u, v) == Waits(v) /\ Advances(u, v)

(* Before the copiers run. *)
LEMMA SetupGoes ==
  ASSUME NEW u, NEW v, SpliceInv(u), SpliceInv(v), u.pc \in BeforeOpen,
         v.copier = u.copier, v.pos = u.pos, v.held = u.held,
         PcRank(v.pc) < PcRank(u.pc), v.pc # "second"
  PROVE  Goes(u, v)
<1>1. \A d \in Dirs : v.copier[d] = "off"
  BY DEF SpliceInv, Counted
<1>2. Waits(v)
  BY <1>1 DEF Waits
<1> QED BY <1>2, PcDrops DEF Goes, Advances

(* Accept and WriteHandshake, and the answers that end the handler. *)
LEMMA AcceptGoes ==
  ASSUME TunnelsInv, TunnelsInv', NEW t \in Tunnels,
         Accept(t) \/ UpgradeAnswered(t) \/ Hijack(t) \/ WriteHandshake(t)
  PROVE  Goes(tunnel[t], tunnel'[t])
<1> DEFINE u == tunnel[t]
<1>1. u \in Tunnel /\ SpliceInv(u) /\ SpliceInv(tunnel'[t])
  BY DEF TunnelsInv
<1>2. ASSUME NEW p, p # "second", u.pc \in BeforeOpen, PcRank(p) < PcRank(u.pc),
             tunnel' = [tunnel EXCEPT ![t].pc = p]
      PROVE  Goes(tunnel[t], tunnel'[t])
  <2>1. /\ tunnel'[t].pc = p /\ tunnel'[t].copier = u.copier /\ tunnel'[t].pos = u.pos
        /\ tunnel'[t].held = u.held
    BY <1>1, <1>2 DEF TunnelsInv, Tunnel
  <2> QED BY <1>1, <1>2, <2>1, SetupGoes
<1>3. ASSUME NEW p, p # "second", u.pc \in BeforeOpen, PcRank(p) < PcRank(u.pc), NEW d, NEW k,
             tunnel' = [tunnel EXCEPT ![t].pc = p, ![t].sent[d] = k, ![t].buf[d] = k]
      PROVE  Goes(tunnel[t], tunnel'[t])
  <2>1. /\ tunnel'[t].pc = p /\ tunnel'[t].copier = u.copier /\ tunnel'[t].pos = u.pos
        /\ tunnel'[t].held = u.held
    BY <1>1, <1>3 DEF TunnelsInv, Tunnel
  <2> QED BY <1>1, <1>3, <2>1, SetupGoes
<1>4. /\ PcRank("upgrade") < PcRank("free") /\ PcRank("hijack") < PcRank("upgrade")
      /\ PcRank("ended") < PcRank("upgrade") /\ PcRank("handshake") < PcRank("hijack")
      /\ PcRank("ended") < PcRank("hijack") /\ PcRank("open") < PcRank("handshake")
      /\ PcRank("ended") < PcRank("handshake")
  BY RankTypes
<1>5. CASE Accept(t)
  <2>1. u.pc = "free" /\ tunnel' = [tunnel EXCEPT ![t].pc = "upgrade"]
    BY <1>5 DEF Accept
  <2> QED BY <1>2, <1>4, <2>1 DEF BeforeOpen
<1>6. CASE UpgradeAnswered(t)
  <2>1. u.pc = "upgrade"
    BY <1>6 DEF UpgradeAnswered
  <2>2. CASE tunnel' = [tunnel EXCEPT ![t].pc = "ended"]
    BY <1>2, <1>4, <2>1, <2>2 DEF BeforeOpen
  <2>3. ASSUME NEW k, tunnel' = [tunnel EXCEPT ![t].pc = "hijack",
                                     ![t].sent["b2c"] = k, ![t].buf["b2c"] = k]
        PROVE  Goes(tunnel[t], tunnel'[t])
    BY <1>3, <1>4, <2>1, <2>3 DEF BeforeOpen
  <2> QED BY <1>6, <2>2, <2>3 DEF UpgradeAnswered
<1>7. CASE Hijack(t)
  <2>1. u.pc = "hijack"
    BY <1>7 DEF Hijack
  <2>2. CASE tunnel' = [tunnel EXCEPT ![t].pc = "ended"]
    BY <1>2, <1>4, <2>1, <2>2 DEF BeforeOpen
  <2>3. ASSUME NEW k, tunnel' = [tunnel EXCEPT ![t].pc = "handshake",
                                     ![t].sent["c2b"] = k, ![t].buf["c2b"] = k]
        PROVE  Goes(tunnel[t], tunnel'[t])
    BY <1>3, <1>4, <2>1, <2>3 DEF BeforeOpen
  <2> QED BY <1>7, <2>2, <2>3 DEF Hijack
<1>8. CASE WriteHandshake(t)
  <2>1. u.pc = "handshake"
    BY <1>8 DEF WriteHandshake
  <2>2. CASE tunnel' = [tunnel EXCEPT ![t].pc = "ended"]
    BY <1>2, <1>4, <2>1, <2>2 DEF BeforeOpen
  <2>3. CASE tunnel' = [tunnel EXCEPT ![t].pc = "open"]
    BY <1>2, <1>4, <2>1, <2>3 DEF BeforeOpen
  <2> QED BY <1>8, <2>2, <2>3 DEF WriteHandshake
<1> QED BY <1>5, <1>6, <1>7, <1>8

(* OpenTunnel starts the copiers with nothing read. *)
LEMMA OpenGoes ==
  ASSUME TunnelsInv, TunnelsInv', NEW t \in Tunnels, OpenTunnel(t)
  PROVE  Goes(tunnel[t], tunnel'[t])
<1> DEFINE u == tunnel[t]
           v == tunnel'[t]
<1>1. u \in Tunnel /\ SpliceInv(u) /\ SpliceInv(v)
  BY DEF TunnelsInv
<1>2. u.pc = "open"
  BY DEF OpenTunnel
<1>3. v = [u EXCEPT !.pc = "first", !.copier = [d \in Dirs |->
                        IF d = "c2b" /\ u.buf[d] > 0 THEN "drain" ELSE "copy"]]
  BY <1>1 DEF OpenTunnel, TunnelsInv
<1>4. /\ v.pc = "first" /\ v.pos = u.pos /\ v.buf = u.buf /\ v.held = u.held
      /\ \A d \in Dirs : v.copier[d] \in {"drain", "copy"}
  BY <1>1, <1>3 DEF Tunnel
<1> HIDE DEF u, v
<1>5. \A d \in Dirs : u.copier[d] = "off" /\ u.pos[d] = 0 /\ u.buf[d] \in Nat
  BY <1>1, <1>2, NumberFields DEF SpliceInv, Counted, BeforeOpen
<1>6. Waits(v)
  BY <1>4, <1>5 DEF Waits
<1>7. Rank(v) < Rank(u)
  <2>1. /\ CopierRank(v.copier["c2b"]) \in {2, 3}
        /\ CopierRank(v.copier["b2c"]) \in {2, 3}
    BY <1>4, RankTypes DEF Dirs
  <2>2. CopierRank(u.copier["c2b"]) = 0 /\ CopierRank(u.copier["b2c"]) = 0
    BY <1>5, RankTypes DEF Dirs
  <2>3. PcRank(u.pc) = 11 /\ PcRank(v.pc) = 4
    BY <1>2, <1>4, RankTypes
  <2> DEFINE x == BytesRank(u, "c2b")
             y == BytesRank(u, "b2c")
  <2>4. x \in Nat /\ y \in Nat
    BY <1>1, RankParts
  <2>5. Rank(v) = PcRank(v.pc) + CopierRank(v.copier["c2b"]) + CopierRank(v.copier["b2c"]) + x + y
    BY <1>4, BytesStay DEF Rank
  <2>6. Rank(u) = PcRank(u.pc) + CopierRank(u.copier["c2b"]) + CopierRank(u.copier["b2c"]) + x + y
    BY DEF Rank
  <2> HIDE DEF x, y
  <2> QED BY <2>1, <2>2, <2>3, <2>4, <2>5, <2>6
<1>8. Goes(u, v)
  BY <1>6, <1>7 DEF Goes, Advances
<1> QED BY <1>8 DEF u, v

(* The handler while the copiers run: it closes both connections before it *)
(* waits for the second result.                                            *)
LEMMA HandlerGoes ==
  ASSUME TunnelsInv, TunnelsInv', NEW t \in Tunnels, Waits(tunnel[t]),
         FirstResult(t) \/ CloseBoth(t) \/ SecondResult(t) \/ Account(t)
  PROVE  Goes(tunnel[t], tunnel'[t])
<1> DEFINE u == tunnel[t]
           v == tunnel'[t]
<1>1. u \in Tunnel /\ SpliceInv(u) /\ SpliceInv(v)
  BY DEF TunnelsInv
<1>2. /\ v.copier = u.copier /\ v.pos = u.pos /\ v.buf = u.buf /\ v.held = u.held
      /\ \/ u.pc = "first" /\ v.pc = "close"
         \/ u.pc = "close" /\ v.pc = "second" /\ v.shut
         \/ u.pc = "second" /\ v.pc = "account"
         \/ u.pc = "account" /\ v.pc = "ended"
  <2>1. CASE FirstResult(t)
    BY <1>1, <2>1 DEF FirstResult, TunnelsInv, Tunnel
  <2>2. CASE CloseBoth(t)
    BY <1>1, <2>2 DEF CloseBoth, TunnelsInv, Tunnel
  <2>3. CASE SecondResult(t)
    BY <1>1, <2>3 DEF SecondResult, TunnelsInv, Tunnel
  <2>4. CASE Account(t)
    BY <1>1, <2>4 DEF Account, TunnelsInv, Tunnel
  <2> QED BY <2>1, <2>2, <2>3, <2>4
<1>3. Waits(u)
  OBVIOUS
<1> HIDE DEF u, v
<1>4. Waits(v)
  BY <1>2, <1>3 DEF Waits
<1>5. PcRank(v.pc) < PcRank(u.pc)
  BY <1>2, RankTypes
<1>6. Goes(u, v)
  BY <1>1, <1>2, <1>4, <1>5, PcDrops DEF Goes, Advances
<1> QED BY <1>6 DEF u, v

(* A copier reads a byte; CopyN stops at the end of the buffer. *)
LEMMA ReadGoes ==
  ASSUME TunnelsInv, TunnelsInv', NEW t \in Tunnels, Waits(tunnel[t]), NEW d \in Dirs,
         ReadByte(t, d)
  PROVE  Goes(tunnel[t], tunnel'[t])
<1> DEFINE u == tunnel[t]
           v == tunnel'[t]
<1>1. u \in Tunnel /\ SpliceInv(u) /\ SpliceInv(v)
  BY DEF TunnelsInv
<1>2. /\ v.pc = u.pc /\ v.shut = u.shut /\ v.copier = u.copier /\ v.buf = u.buf
      /\ v.pos = [u.pos EXCEPT ![d] = u.pos[d] + 1] /\ v.held = [u.held EXCEPT ![d] = 1]
  BY <1>1 DEF ReadByte, TunnelsInv, Tunnel
<1>3. /\ Waits(u) /\ (u.copier[d] = "drain" => u.pos[d] < u.buf[d])
      /\ u.held[d] = 0
  BY DEF ReadByte, InRead
<1> HIDE DEF u, v
<1>4. u.pos \in [Dirs -> 0..MaxBytes] /\ u.held \in [Dirs -> 0..1]
  BY <1>1 DEF Tunnel
<1>5. /\ v.pos[d] = u.pos[d] + 1 /\ v.held[d] = 1
      /\ \A e \in Dirs : e # d => v.pos[e] = u.pos[e] /\ v.held[e] = u.held[e]
  BY <1>2, <1>4
<1>6. u.pos[d] \in Nat /\ u.buf[d] \in Nat
  BY <1>1, NumberFields
<1>7. Waits(v)
  BY <1>2, <1>3, <1>5, <1>6 DEF Waits
<1>8. Goes(u, v)
  BY <1>1, <1>2, <1>3, <1>5, <1>7, BytesDrop DEF Goes, Advances
<1> QED BY <1>8 DEF u, v

(* A copier writes a byte. *)
LEMMA WriteGoes ==
  ASSUME TunnelsInv, TunnelsInv', NEW t \in Tunnels, Waits(tunnel[t]), NEW d \in Dirs,
         WriteByte(t, d)
  PROVE  Goes(tunnel[t], tunnel'[t])
<1> DEFINE u == tunnel[t]
           v == tunnel'[t]
<1>1. u \in Tunnel /\ SpliceInv(u) /\ SpliceInv(v)
  BY DEF TunnelsInv
<1>2. /\ v.pc = u.pc /\ v.shut = u.shut /\ v.copier = u.copier /\ v.buf = u.buf
      /\ v.pos = u.pos /\ v.held = [u.held EXCEPT ![d] = 0]
  BY <1>1 DEF WriteByte, TunnelsInv, Tunnel
<1>3. Waits(u) /\ u.held[d] = 1
  BY DEF WriteByte, InWrite
<1> HIDE DEF u, v
<1>4. u.held \in [Dirs -> 0..1]
  BY <1>1 DEF Tunnel
<1>5. /\ v.pos[d] = u.pos[d] /\ v.held[d] = 0
      /\ \A e \in Dirs : e # d => v.pos[e] = u.pos[e] /\ v.held[e] = u.held[e]
  BY <1>2, <1>4
<1>6. Waits(v)
  BY <1>2, <1>3 DEF Waits
<1>7. Goes(u, v)
  BY <1>1, <1>2, <1>3, <1>5, <1>6, BytesDrop DEF Goes, Advances
<1> QED BY <1>7 DEF u, v

(* A copier goes from CopyN to Copy, ends, or reports. *)
LEMMA CopierGoes ==
  ASSUME TunnelsInv, TunnelsInv', NEW t \in Tunnels, Waits(tunnel[t]), NEW d \in Dirs,
         DrainEnds(t, d) \/ CopyEnds(t, d) \/ SendResult(t, d)
  PROVE  Goes(tunnel[t], tunnel'[t])
<1> DEFINE u == tunnel[t]
           v == tunnel'[t]
<1>1. u \in Tunnel /\ SpliceInv(u) /\ SpliceInv(v)
  BY DEF TunnelsInv
<1>2. PICK c : /\ v.pc = u.pc /\ v.shut = u.shut /\ v.pos = u.pos /\ v.buf = u.buf
               /\ v.held = u.held
               /\ v.copier = [u.copier EXCEPT ![d] = c]
               /\ \/ u.copier[d] = "drain" /\ c = "copy"
                  \/ u.copier[d] \in {"drain", "copy"} /\ c = "send"
                  \/ u.copier[d] = "send" /\ c = "done"
  <2>1. CASE DrainEnds(t, d)
    <3>1. u.copier[d] = "drain"
      BY <2>1 DEF DrainEnds
    <3>2. PICK n, k : v = [u EXCEPT !.copier = [u.copier EXCEPT ![d] = "copy"],
                                    !.n = n, !.total = k]
      BY <2>1 DEF DrainEnds, TunnelsInv
    <3> HIDE DEF u, v
    <3> QED BY <1>1, <3>1, <3>2 DEF Tunnel
  <2>2. CASE CopyEnds(t, d)
    <3>1. u.copier[d] \in {"drain", "copy"}
      BY <2>2 DEF CopyEnds, InRead, InWrite
    <3>2. PICK n, b, k : v = [u EXCEPT !.copier = [u.copier EXCEPT ![d] = "send"],
                                       !.n = n, !.clean = b, !.total = k]
      BY <2>2 DEF CopyEnds, TunnelsInv
    <3> HIDE DEF u, v
    <3> QED BY <1>1, <3>1, <3>2 DEF Tunnel
  <2>3. CASE SendResult(t, d)
    BY <1>1, <2>3 DEF SendResult, TunnelsInv, Tunnel
  <2> QED BY <2>1, <2>2, <2>3
<1>3. Waits(u)
  OBVIOUS
<1> HIDE DEF u, v
<1>4. u.copier \in [Dirs -> Copiers]
  BY <1>1 DEF Tunnel, Copiers
<1>5. v.copier[d] = c /\ \A e \in Dirs : e # d => v.copier[e] = u.copier[e]
  BY <1>2, <1>4
<1>6. Waits(v)
  BY <1>2, <1>3, <1>5 DEF Waits
<1>7. CopierRank(c) < CopierRank(u.copier[d])
  BY <1>2, RankTypes
<1>8. Goes(u, v)
  BY <1>1, <1>2, <1>5, <1>6, <1>7, CopierDrops DEF Goes, Advances
<1> QED BY <1>8 DEF u, v

(* A peer changes neither. *)
LEMMA PeerGoes ==
  ASSUME TunnelsInv, NEW t \in Tunnels, Waits(tunnel[t]), NEW d \in Dirs, PeerActs(t, d)
  PROVE  Goes(tunnel[t], tunnel'[t])
<1> DEFINE u == tunnel[t]
           v == tunnel'[t]
<1>1. u \in Tunnel
  BY DEF TunnelsInv
<1>2. /\ v.pc = u.pc /\ v.shut = u.shut /\ v.pos = u.pos /\ v.buf = u.buf
      /\ v.copier = u.copier /\ v.held = u.held
  <2>1. ASSUME NEW k, tunnel' = [tunnel EXCEPT ![t].sent[d] = k]
        PROVE  /\ v.pc = u.pc /\ v.shut = u.shut /\ v.pos = u.pos /\ v.buf = u.buf
               /\ v.copier = u.copier /\ v.held = u.held
    BY <1>1, <2>1 DEF TunnelsInv, Tunnel
  <2>2. ASSUME NEW s, NEW k, tunnel' = [tunnel EXCEPT ![t].link[s] = k]
        PROVE  /\ v.pc = u.pc /\ v.shut = u.shut /\ v.pos = u.pos /\ v.buf = u.buf
               /\ v.copier = u.copier /\ v.held = u.held
    BY <1>1, <2>2 DEF TunnelsInv, Tunnel
  <2>3. \/ tunnel' = [tunnel EXCEPT ![t].sent[d] = tunnel[t].sent[d] + 1]
        \/ tunnel' = [tunnel EXCEPT ![t].link[Source(d)] = "eof"]
        \/ tunnel' = [tunnel EXCEPT ![t].link[Source(d)] = "dead"]
    BY DEF PeerActs
  <2> QED BY <2>1, <2>2, <2>3
<1>3. Waits(u)
  OBVIOUS
<1> HIDE DEF u, v
<1>4. Goes(u, v)
  BY <1>2, <1>3 DEF Goes, Waits, Advances, Still
<1> QED BY <1>4 DEF u, v

-----------------------------------------------------------------------------
WaitsInv == \A t \in Tunnels : Waits(tunnel[t])

(* Every tunnel goes on as it should in every step, its own or not. *)
LEMMA AllGo ==
  ASSUME TunnelInv, TunnelInv', WaitsInv, [Next]_vars, NEW s \in Tunnels
  PROVE  Goes(tunnel[s], tunnel'[s])
<1>0. TunnelsInv /\ TunnelsInv' /\ \A t \in Tunnels : Waits(tunnel[t])
  BY DEF TunnelInv, WaitsInv
<1>1. CASE tunnel'[s] = tunnel[s]
  BY <1>0, <1>1 DEF Goes, Advances, Still
<1>2. CASE UNCHANGED vars \/ ProcessStep
  BY <1>1, <1>2 DEF vars, ProcessStep
<1>3. ASSUME NEW t \in Tunnels,
             \/ Accept(t) \/ UpgradeAnswered(t) \/ Hijack(t) \/ WriteHandshake(t)
             \/ HandlerStep(t)
             \/ \E d \in Dirs : CopierStep(t, d) \/ WriteByte(t, d) \/ PeerActs(t, d)
      PROVE  Goes(tunnel[s], tunnel'[s])
  <2>1. CASE s = t
    <3>1. CASE Accept(t) \/ UpgradeAnswered(t) \/ Hijack(t) \/ WriteHandshake(t)
      BY <1>0, <2>1, <3>1, AcceptGoes
    <3>2. CASE HandlerStep(t)
      BY <1>0, <2>1, <3>2, OpenGoes, HandlerGoes DEF HandlerStep
    <3>3. ASSUME NEW d \in Dirs, CopierStep(t, d) \/ WriteByte(t, d)
          PROVE  Goes(tunnel[s], tunnel'[s])
      BY <1>0, <2>1, <3>3, ReadGoes, WriteGoes, CopierGoes DEF CopierStep
    <3>4. ASSUME NEW d \in Dirs, PeerActs(t, d) PROVE Goes(tunnel[s], tunnel'[s])
      BY <1>0, <2>1, <3>4, PeerGoes
    <3> QED BY <1>3, <3>1, <3>2, <3>3, <3>4
  <2>2. CASE s # t
    <3>1. Moves(t)
      BY <1>0, <1>3, SetupMoves, BufferedMoves, OpenMoves, HandlerMoves, ReadMoves,
         WriteMoves, CopierMoves, SendMoves, PeerMoves DEF HandlerStep, CopierStep
    <3> QED BY <1>0, <1>1, <2>2, <3>1 DEF Moves, TunnelsInv
  <2> QED BY <2>1, <2>2
<1> QED BY <1>2, <1>3 DEF Next

(* The handler closes before it waits again, and CopyN stays within its    *)
(* buffer, always.                                                         *)
LEMMA WaitsInvariant == Spec => []WaitsInv
<1>1. Init => WaitsInv
  <2>1. NewTunnel.pc = "free" /\ \A d \in Dirs : NewTunnel.copier[d] = "off"
    BY DEF NewTunnel
  <2> QED BY <2>1 DEF Init, WaitsInv, Waits
<1>2. TunnelInv /\ TunnelInv' /\ WaitsInv /\ [Next]_vars => WaitsInv'
  BY AllGo DEF WaitsInv, Goes
<1> QED BY <1>1, <1>2, TunnelInvariant, PTL DEF Spec

(* The copier of direction d can take a step of CopierStep: none of these  *)
(* needs a peer to read, to send or to leave.                              *)
CopierCanMove(t, d) ==
    \/ tunnel[t].copier[d] = "send"
    \/ InWrite(t, d) /\ ~Writable(t, d)
    \/ InRead(t, d) /\ tunnel[t].copier[d] = "drain" /\ tunnel[t].pos[d] <= tunnel[t].buf[d]
    \/ /\ InRead(t, d) /\ tunnel[t].copier[d] = "copy"
       /\ Readable(t, d) \/ ReadFails(t, d) \/ AtEOF(t, d)

(* Once both connections are closed every copier that is not done can      *)
(* move, wherever it was blocked.  Before that, the copier of a side that  *)
(* left can, unless it is stalled by the other side.                       *)
NeverStuck ==
    \A t \in Tunnels, d \in Dirs :
        /\ tunnel[t].copier[d] # "done"
        /\ \/ tunnel[t].pc = "second"
           \/ /\ tunnel[t].pc = "first" /\ tunnel[t].link[Source(d)] # "open"
              /\ ~Stalled(t, d)
        => CopierCanMove(t, d)

(* It is a copier that handleWS waits for: without a result in errc one is *)
(* not done.                                                               *)
CopierAwaited ==
    \A t \in Tunnels : tunnel[t].pc \in {"first", "second"} =>
        tunnel[t].errc > 0 \/ \E d \in Dirs : tunnel[t].copier[d] # "done"

(* The second <-errc waits for nobody outside the process: a copier that   *)
(* is not done when both connections are closed can move, even one that    *)
(* was blocked in a write its peer does not read (proxy.go:358-367).  The  *)
(* first <-errc waits, for a side that left, only for the copier of that   *)
(* side to move or for the other side to read.                             *)
THEOREM TunnelsNeverStuck == Spec => [](NeverStuck /\ CopierAwaited)
<1>1. TunnelInv /\ WaitsInv => NeverStuck
  <2> SUFFICES ASSUME TunnelInv, WaitsInv, NEW t \in Tunnels, NEW d \in Dirs,
                      tunnel[t].copier[d] # "done",
                      \/ tunnel[t].pc = "second"
                      \/ /\ tunnel[t].pc = "first" /\ tunnel[t].link[Source(d)] # "open"
                         /\ ~Stalled(t, d)
               PROVE  CopierCanMove(t, d)
    BY DEF NeverStuck
  <2> DEFINE u == tunnel[t]
  <2>1. u \in Tunnel /\ SpliceInv(u) /\ Waits(u)
    BY DEF TunnelInv, TunnelsInv, WaitsInv
  <2>2. u.shut \/ u.link[Source(d)] # "open"
    BY <2>1 DEF Waits
  <2>3. /\ u.pos[d] \in Nat /\ u.buf[d] \in Nat /\ u.sent[d] \in Nat
        /\ u.pos[d] <= u.sent[d] /\ u.copier[d] \in {"drain", "copy", "send"}
    BY <2>1, Fields, NumberFields DEF SpliceInv, PassedOn, Counted, OpenPcs, Copiers
  <2>4. u.held[d] = 0 \/ u.held[d] = 1
    BY <2>1, Fields
  <2>5. CASE u.copier[d] = "send"
    BY <2>5 DEF CopierCanMove
  <2>6. CASE InWrite(t, d)
    <3>1. ~Writable(t, d)
      <4>1. CASE u.pc = "second"
        BY <2>1, <4>1 DEF Waits, Writable
      <4>2. CASE ~Stalled(t, d)
        BY <2>6, <4>2 DEF Stalled
      <4> QED BY <4>1, <4>2
    <3> QED BY <2>6, <3>1 DEF CopierCanMove
  <2>7. CASE InRead(t, d)
    <3>1. CASE u.copier[d] = "drain"
      BY <2>1, <2>7, <3>1 DEF CopierCanMove, Waits
    <3>2. CASE u.copier[d] = "copy"
      <4>1. u.link[Source(d)] \in {"open", "eof", "dead"}
        BY <2>1 DEF Tunnel, Source, Sides
      <4>2. Readable(t, d) \/ ReadFails(t, d) \/ AtEOF(t, d)
        BY <2>2, <2>3, <4>1 DEF Readable, ReadFails, AtEOF
      <4> QED BY <2>7, <3>2, <4>2 DEF CopierCanMove
    <3> QED BY <2>7, <3>1, <3>2 DEF InRead
  <2> QED BY <2>3, <2>4, <2>5, <2>6, <2>7 DEF InRead, InWrite
<1>2. ASSUME TunnelInv, NEW t \in Tunnels, tunnel[t].pc \in {"first", "second"}
      PROVE  tunnel[t].errc > 0 \/ \E d \in Dirs : tunnel[t].copier[d] # "done"
  <2> DEFINE u == tunnel[t]
  <2>1. SpliceInv(u) /\ u \in Tunnel
    BY <1>2 DEF TunnelInv, TunnelsInv
  <2> SUFFICES ASSUME \A d \in Dirs : u.copier[d] = "done" PROVE u.errc > 0
    OBVIOUS
  <2>2. Count(u) = 2
    BY DEF Count, Dirs
  <2>3. u.errc \in Nat
    <3>1. u.errc \in 0..2
      BY <2>1 DEF Tunnel
    <3> QED BY <3>1
  <2>4. u.errc = Count(u) \/ u.errc + 1 = Count(u)
    BY <1>2, <2>1 DEF SpliceInv, ResultsInv
  <2>5. u.errc \in Nat /\ (u.errc = 2 \/ u.errc + 1 = 2)
    BY <2>2, <2>3, <2>4
  <2> QED BY <2>5
<1>3. TunnelInv => CopierAwaited
  BY <1>2 DEF CopierAwaited
<1> QED BY <1>1, <1>3, TunnelInvariant, WaitsInvariant, PTL

(* No step of handleWS or of a copier goes back: each makes the rank of    *)
(* its tunnel smaller, and no peer, other tunnel or step of the process    *)
(* changes it.  So a tunnel takes at most 15 + 4 * MaxBytes steps.         *)
THEOREM TunnelsAdvance ==
  Spec => /\ [](\A t \in Tunnels : Rank(tunnel[t]) \in Nat)
          /\ [][\A t \in Tunnels : Advances(tunnel[t], tunnel'[t])]_vars
<1>1. TunnelInv => \A t \in Tunnels : Rank(tunnel[t]) \in Nat
  BY RankParts DEF TunnelInv, TunnelsInv
<1>2. TunnelInv /\ TunnelInv' /\ WaitsInv /\ [Next]_vars
        => [\A t \in Tunnels : Advances(tunnel[t], tunnel'[t])]_vars
  BY AllGo DEF Goes
<1> QED BY <1>1, <1>2, TunnelInvariant, WaitsInvariant, PTL DEF Spec
=============================================================================
