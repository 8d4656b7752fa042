---------------------------- MODULE TunnelProofs ----------------------------
(***************************************************************************)
(* Proofs about Tunnel for every finite set of upgrade requests, every     *)
(* number of bytes and every environment.                                  *)
(*                                                                         *)
(* The argument: each tunnel satisfies SpliceInv whatever the others do.   *)
(* What was written in a direction is the beginning of what was sent, and  *)
(* a byte that was read and not written comes next (PassedOn), every       *)
(* written byte is in the running copy's n or in total (Counted), and the  *)
(* results in errc together with the ones handleWS has taken are the       *)
(* copiers that are done (ResultsInv), so that both are done when it       *)
(* accounts.  A lemma ...Rec shows this for one record and one change, a   *)
(* lemma ...Moves that an action makes that change to its own tunnel, and  *)
(* MovesKeep adds up the tunnels and the gauge.                            *)
(***************************************************************************)
EXTENDS Tunnel, FiniteSetTheorems, TLAPS

(* The copiers of u that have sent their result. *)
Count(u) == (IF u.copier["c2b"] = "done" THEN 1 ELSE 0)
              + (IF u.copier["b2c"] = "done" THEN 1 ELSE 0)

(* The copiers do not run yet. *)
BeforeOpen == {"free", "upgrade", "hijack", "handshake", "open"}

(* The bytes written in direction d are the first ones sent, in order, the *)
(* one that is held comes next, and a copy that ended cleanly had nothing  *)
(* left.                                                                   *)
PassedOn(u, d) ==
    /\ Len(u.out[d]) + u.held[d] = u.pos[d]
    /\ \A i \in 1..Len(u.out[d]) : u.out[d][i] = i
    /\ u.pos[d] <= u.sent[d] /\ u.buf[d] <= u.sent[d]
    /\ u.clean[d] => /\ u.copier[d] \in {"send", "done"}
                     /\ u.pos[d] = u.sent[d] /\ u.held[d] = 0
                     /\ u.link[Source(d)] # "open"

(* Every byte written is counted once, and given to AddBytes when the      *)
(* handler ends; the copier runs exactly while the tunnel is spliced.      *)
Counted(u, d) ==
    /\ u.total[d] + u.n[d] + u.held[d] = u.pos[d]
    /\ u.copier[d] \in {"off", "send", "done"} => u.n[d] = 0
    /\ u.copier[d] = "off" => u.pos[d] = 0
    /\ u.pc \in BeforeOpen => u.copier[d] = "off"
    /\ u.pc \in OpenPcs => u.copier[d] # "off"
    /\ u.pc = "ended" => u.copier[d] \in {"off", "done"}
    /\ u.added[d] = IF u.pc = "ended" THEN u.total[d] ELSE 0

(* errc holds the results nobody has taken. *)
ResultsInv(u) ==
    /\ u.pc \in BeforeOpen => u.errc = 0
    /\ u.pc = "first" => u.errc = Count(u)
    /\ u.pc \in {"close", "second"} => u.errc + 1 = Count(u)
    /\ u.pc = "account" => u.errc + 2 = Count(u)
    /\ u.pc = "ended" => u.errc = 0

(* What every tunnel satisfies. *)
SpliceInv(u) ==
    /\ u \in Tunnel
    /\ \A d \in Dirs : PassedOn(u, d) /\ Counted(u, d)
    /\ ResultsInv(u)

(* The values of two fields of a tunnel. *)
Pcs == BeforeOpen \cup OpenPcs \cup {"ended"}
Copiers == {"off", "drain", "copy", "send", "done"}

(* The types of a tunnel's fields, for one direction. *)
LEMMA Fields ==
  ASSUME NEW u \in Tunnel, NEW d \in Dirs
  PROVE  /\ u.pc \in Pcs /\ u.errc \in 0..2
         /\ u.sent[d] \in 0..MaxBytes /\ u.buf[d] \in 0..MaxBytes /\ u.pos[d] \in 0..MaxBytes
         /\ u.n[d] \in 0..MaxBytes /\ u.total[d] \in 0..MaxBytes /\ u.added[d] \in 0..MaxBytes
         /\ u.out[d] \in Seq(1..MaxBytes) /\ u.copier[d] \in Copiers /\ u.held[d] \in 0..1
         /\ u.clean[d] \in BOOLEAN
  BY DEF Tunnel, Pcs, BeforeOpen, Copiers

(* Its numbers. *)
LEMMA NumberFields ==
  ASSUME NEW u \in Tunnel, NEW d \in Dirs
  PROVE  /\ u.sent[d] \in Nat /\ u.buf[d] \in Nat /\ u.pos[d] \in Nat
         /\ u.n[d] \in Nat /\ u.total[d] \in Nat /\ u.added[d] \in Nat
         /\ u.held[d] \in Nat /\ MaxBytes \in Nat
<1>1. /\ u.sent[d] \in 0..MaxBytes /\ u.buf[d] \in 0..MaxBytes /\ u.pos[d] \in 0..MaxBytes
      /\ u.n[d] \in 0..MaxBytes /\ u.total[d] \in 0..MaxBytes /\ u.added[d] \in 0..MaxBytes
      /\ u.held[d] \in 0..1
  BY Fields
<1>2. MaxBytes \in Nat
  BY TunnelAssumption
<1> QED BY <1>1, <1>2

(* The records the actions build are tunnels. *)
LEMMA Shapes ==
  ASSUME NEW u \in Tunnel
  PROVE  /\ \A pc \in Pcs : [u EXCEPT !.pc = pc] \in Tunnel
         /\ \A pc \in Pcs, s \in [Dirs -> 0..MaxBytes], b \in [Dirs -> 0..MaxBytes] :
               [u EXCEPT !.pc = pc, !.sent = s, !.buf = b] \in Tunnel
         /\ \A pc \in Pcs, c \in [Dirs -> Copiers] :
               [u EXCEPT !.pc = pc, !.copier = c] \in Tunnel
         /\ \A p \in [Dirs -> 0..MaxBytes], h \in [Dirs -> 0..1] :
               [u EXCEPT !.pos = p, !.held = h] \in Tunnel
         /\ \A h \in [Dirs -> 0..1], o \in [Dirs -> Seq(1..MaxBytes)],
               n \in [Dirs -> 0..MaxBytes] :
               [u EXCEPT !.held = h, !.out = o, !.n = n] \in Tunnel
         /\ \A c \in [Dirs -> Copiers], n \in [Dirs -> 0..MaxBytes],
               k \in [Dirs -> 0..MaxBytes], b \in [Dirs -> BOOLEAN] :
               [u EXCEPT !.copier = c, !.n = n, !.clean = b, !.total = k] \in Tunnel
         /\ \A c \in [Dirs -> Copiers], e \in 0..2 : [u EXCEPT !.copier = c, !.errc = e] \in Tunnel
         /\ \A pc \in Pcs, e \in 0..2 : [u EXCEPT !.pc = pc, !.errc = e] \in Tunnel
         /\ \A pc \in Pcs : [u EXCEPT !.pc = pc, !.shut = TRUE] \in Tunnel
         /\ \A pc \in Pcs, a \in [Dirs -> 0..MaxBytes] :
               [u EXCEPT !.pc = pc, !.added = a] \in Tunnel
         /\ \A s \in [Dirs -> 0..MaxBytes] : [u EXCEPT !.sent = s] \in Tunnel
         /\ \A l \in [Sides -> {"open", "eof", "dead"}] : [u EXCEPT !.link = l] \in Tunnel
<1> USE DEF Tunnel, Pcs, BeforeOpen, Copiers
<1>1. \A pc \in Pcs : [u EXCEPT !.pc = pc] \in Tunnel
  OBVIOUS
<1>2. ASSUME NEW pc \in Pcs, NEW s \in [Dirs -> 0..MaxBytes], NEW b \in [Dirs -> 0..MaxBytes]
      PROVE  [u EXCEPT !.pc = pc, !.sent = s, !.buf = b] \in Tunnel
  OBVIOUS
<1>3. ASSUME NEW pc \in Pcs, NEW c \in [Dirs -> Copiers]
      PROVE  [u EXCEPT !.pc = pc, !.copier = c] \in Tunnel
  OBVIOUS
<1>4. ASSUME NEW p \in [Dirs -> 0..MaxBytes], NEW h \in [Dirs -> 0..1]
      PROVE  [u EXCEPT !.pos = p, !.held = h] \in Tunnel
  OBVIOUS
<1>4a. ASSUME NEW h \in [Dirs -> 0..1], NEW o \in [Dirs -> Seq(1..MaxBytes)],
              NEW n \in [Dirs -> 0..MaxBytes]
       PROVE  [u EXCEPT !.held = h, !.out = o, !.n = n] \in Tunnel
  OBVIOUS
<1>5. ASSUME NEW c \in [Dirs -> Copiers], NEW n \in [Dirs -> 0..MaxBytes],
             NEW k \in [Dirs -> 0..MaxBytes], NEW b \in [Dirs -> BOOLEAN]
      PROVE  [u EXCEPT !.copier = c, !.n = n, !.clean = b, !.total = k] \in Tunnel
  OBVIOUS
<1>6. ASSUME NEW c \in [Dirs -> Copiers], NEW e \in 0..2
      PROVE  [u EXCEPT !.copier = c, !.errc = e] \in Tunnel
  OBVIOUS
<1>7. ASSUME NEW pc \in Pcs, NEW e \in 0..2
      PROVE  [u EXCEPT !.pc = pc, !.errc = e] \in Tunnel
  OBVIOUS
<1>8. \A pc \in Pcs : [u EXCEPT !.pc = pc, !.shut = TRUE] \in Tunnel
  OBVIOUS
<1>9. ASSUME NEW pc \in Pcs, NEW a \in [Dirs -> 0..MaxBytes]
      PROVE  [u EXCEPT !.pc = pc, !.added = a] \in Tunnel
  OBVIOUS
<1>10. /\ \A s \in [Dirs -> 0..MaxBytes] : [u EXCEPT !.sent = s] \in Tunnel
       /\ \A l \in [Sides -> {"open", "eof", "dead"}] : [u EXCEPT !.link = l] \in Tunnel
  OBVIOUS
<1> HIDE DEF Tunnel, Pcs, Copiers
<1> QED BY <1>1, <1>2, <1>3, <1>4, <1>4a, <1>5, <1>6, <1>7, <1>8, <1>9, <1>10, Zenon

(* Reading the next byte keeps a tunnel's invariant. *)
LEMMA ReadRec ==
  ASSUME NEW u, SpliceInv(u), NEW d \in Dirs, u.copier[d] \in {"drain", "copy"},
         u.held[d] = 0, u.pos[d] < u.sent[d], NEW v,
         v = [u EXCEPT !.pos = [u.pos EXCEPT ![d] = u.pos[d] + 1],
                       !.held = [u.held EXCEPT ![d] = 1]]
  PROVE  SpliceInv(v)
<1>1. u \in Tunnel /\ PassedOn(u, d) /\ Counted(u, d)
  BY DEF SpliceInv
<1>2. /\ u.pos[d] \in Nat /\ u.sent[d] \in Nat /\ u.n[d] \in Nat
      /\ u.total[d] \in Nat /\ MaxBytes \in Nat /\ u.sent[d] \in 0..MaxBytes
  BY <1>1, Fields, NumberFields
<1>3. v \in Tunnel
  <2>1. /\ [u.pos EXCEPT ![d] = u.pos[d] + 1] \in [Dirs -> 0..MaxBytes]
        /\ [u.held EXCEPT ![d] = 1] \in [Dirs -> 0..1]
    <3>1. u.pos \in [Dirs -> 0..MaxBytes] /\ u.held \in [Dirs -> 0..1]
      BY <1>1 DEF Tunnel
    <3>2. u.pos[d] + 1 \in 0..MaxBytes /\ 1 \in 0..1
      BY <1>2
    <3> QED BY <3>1, <3>2
  <2> QED BY <1>1, <2>1, Shapes
<1>4. /\ v.pos = [u.pos EXCEPT ![d] = u.pos[d] + 1]
      /\ v.held = [u.held EXCEPT ![d] = 1] /\ v.out = u.out /\ v.n = u.n
      /\ v.sent = u.sent /\ v.buf = u.buf /\ v.total = u.total /\ v.copier = u.copier
      /\ v.clean = u.clean /\ v.link = u.link /\ v.pc = u.pc /\ v.added = u.added
      /\ v.errc = u.errc
  BY <1>1 DEF Tunnel
<1>5. ASSUME NEW e \in Dirs, e # d PROVE PassedOn(v, e) /\ Counted(v, e)
  <2>1. v.pos[e] = u.pos[e] /\ v.held[e] = u.held[e]
    BY <1>1, <1>4, <1>5 DEF Tunnel
  <2> QED BY <1>4, <2>1 DEF PassedOn, Counted, SpliceInv
<1>6. v.pos[d] = u.pos[d] + 1 /\ v.held[d] = 1
  BY <1>1, <1>4 DEF Tunnel
<1>7. PassedOn(v, d)
  <2>1. u.out[d] \in Seq(1..MaxBytes)
    BY <1>1, Fields
  <2>2. Len(v.out[d]) + v.held[d] = v.pos[d]
    <3>1. Len(u.out[d]) \in Nat /\ Len(u.out[d]) + u.held[d] = u.pos[d]
      BY <1>1, <2>1 DEF PassedOn
    <3>2. v.out[d] = u.out[d]
      BY <1>4
    <3> QED BY <1>2, <1>6, <3>1, <3>2
  <2>3. v.pos[d] <= v.sent[d] /\ v.buf[d] <= v.sent[d]
    BY <1>1, <1>2, <1>4, <1>6 DEF PassedOn
  <2>4. ~u.clean[d]
    BY <1>1, <1>2 DEF PassedOn
  <2> QED BY <1>1, <1>4, <2>2, <2>3, <2>4 DEF PassedOn
<1>8. Counted(v, d)
  <2>1. v.total[d] + v.n[d] + v.held[d] = v.pos[d]
    <3>1. u.total[d] + u.n[d] + u.held[d] = u.pos[d]
      BY <1>1 DEF Counted
    <3>2. v.total[d] = u.total[d] /\ v.n[d] = u.n[d]
      BY <1>4
    <3> QED BY <1>2, <1>6, <3>1, <3>2
  <2>2. u.copier[d] # "off"
    OBVIOUS
  <2> QED BY <1>1, <1>4, <2>1, <2>2, Zenon DEF Counted
<1>9. ResultsInv(v)
  BY <1>4 DEF ResultsInv, Count, SpliceInv
<1> QED BY <1>3, <1>5, <1>7, <1>8, <1>9 DEF SpliceInv

(* So does writing it: the byte is the one after the last, and the running *)
(* copy counts it.                                                         *)
LEMMA WriteRec ==
  ASSUME NEW u, SpliceInv(u), NEW d \in Dirs, u.copier[d] \in {"drain", "copy"},
         u.held[d] = 1, NEW v,
         v = [u EXCEPT !.held = [u.held EXCEPT ![d] = 0],
                       !.out = [u.out EXCEPT ![d] = Append(u.out[d], u.pos[d])],
                       !.n = [u.n EXCEPT ![d] = u.n[d] + 1]]
  PROVE  SpliceInv(v)
<1> DEFINE o == Append(u.out[d], u.pos[d])
<1>1. u \in Tunnel /\ PassedOn(u, d) /\ Counted(u, d)
  BY DEF SpliceInv
<1>2. /\ u.pos[d] \in Nat /\ u.n[d] \in Nat /\ u.pos[d] \in 0..MaxBytes
      /\ u.total[d] \in Nat /\ MaxBytes \in Nat
  BY <1>1, Fields, NumberFields
<1>3. /\ o \in Seq(1..MaxBytes) /\ Len(o) = u.pos[d]
      /\ \A i \in 1..Len(o) : o[i] = i
  <2>1. /\ u.out[d] \in Seq(1..MaxBytes) /\ Len(u.out[d]) + 1 = u.pos[d]
        /\ \A i \in 1..Len(u.out[d]) : u.out[d][i] = i
    BY <1>1, Fields DEF PassedOn
  <2>2. Len(u.out[d]) \in Nat
    BY <2>1
  <2>3. u.pos[d] \in 1..MaxBytes
    BY <1>2, <2>1, <2>2
  <2> QED BY <2>1, <2>2, <2>3
<1>4. u.n[d] + 1 \in 0..MaxBytes
  <2>1. u.total[d] + u.n[d] + 1 = u.pos[d]
    BY <1>1 DEF Counted
  <2> QED BY <1>2, <2>1
<1>5. v \in Tunnel
  <2>1. /\ [u.held EXCEPT ![d] = 0] \in [Dirs -> 0..1]
        /\ [u.n EXCEPT ![d] = u.n[d] + 1] \in [Dirs -> 0..MaxBytes]
        /\ [u.out EXCEPT ![d] = o] \in [Dirs -> Seq(1..MaxBytes)]
    <3> HIDE DEF o
    <3>1. /\ u.held \in [Dirs -> 0..1] /\ u.n \in [Dirs -> 0..MaxBytes]
          /\ u.out \in [Dirs -> Seq(1..MaxBytes)]
      BY <1>1 DEF Tunnel
    <3>2. 0 \in 0..1
      OBVIOUS
    <3> QED BY <1>3, <1>4, <3>1, <3>2
  <2> QED BY <1>1, <2>1, Shapes
<1>6. /\ v.out = [u.out EXCEPT ![d] = o] /\ v.held = [u.held EXCEPT ![d] = 0]
      /\ v.n = [u.n EXCEPT ![d] = u.n[d] + 1] /\ v.pos = u.pos
      /\ v.sent = u.sent /\ v.buf = u.buf /\ v.total = u.total /\ v.copier = u.copier
      /\ v.clean = u.clean /\ v.link = u.link /\ v.pc = u.pc /\ v.added = u.added
      /\ v.errc = u.errc
  BY <1>1 DEF Tunnel
<1>7. ASSUME NEW e \in Dirs, e # d PROVE PassedOn(v, e) /\ Counted(v, e)
  <2>1. v.out[e] = u.out[e] /\ v.held[e] = u.held[e] /\ v.n[e] = u.n[e]
    BY <1>1, <1>6, <1>7 DEF Tunnel
  <2> HIDE DEF o
  <2>2. PassedOn(u, e) /\ Counted(u, e)
    BY DEF SpliceInv
  <2>3. PassedOn(v, e)
    BY <1>6, <2>1, <2>2, Zenon DEF PassedOn
  <2>4. /\ v.pos[e] = u.pos[e] /\ v.total[e] = u.total[e] /\ v.copier[e] = u.copier[e]
        /\ v.added[e] = u.added[e] /\ v.pc = u.pc
    BY <1>6
  <2>5. Counted(v, e)
    BY <2>1, <2>2, <2>4 DEF Counted
  <2> QED BY <2>3, <2>5
<1>8. v.out[d] = o /\ v.held[d] = 0 /\ v.n[d] = u.n[d] + 1
  BY <1>1, <1>6 DEF Tunnel
<1> HIDE DEF o
<1>9. PassedOn(v, d)
  <2>1. Len(v.out[d]) + v.held[d] = v.pos[d]
    BY <1>2, <1>3, <1>6, <1>8
  <2>2. \A i \in 1..Len(v.out[d]) : v.out[d][i] = i
    BY <1>3, <1>8
  <2>3. ~u.clean[d]
    BY <1>1 DEF PassedOn
  <2> QED BY <1>1, <1>6, <2>1, <2>2, <2>3 DEF PassedOn
<1>10. Counted(v, d)
  <2>1. v.total[d] + v.n[d] + v.held[d] = v.pos[d]
    <3>1. u.total[d] + u.n[d] + u.held[d] = u.pos[d]
      BY <1>1 DEF Counted
    <3>2. v.total[d] = u.total[d] /\ v.pos[d] = u.pos[d]
      BY <1>6
    <3> QED BY <1>2, <1>8, <3>1, <3>2
  <2>2. u.copier[d] \notin {"off", "send", "done"}
    OBVIOUS
  <2> QED BY <1>1, <1>6, <2>1, <2>2, Zenon DEF Counted
<1>11. ResultsInv(v)
  BY <1>6 DEF ResultsInv, Count, SpliceInv
<1> QED BY <1>5, <1>7, <1>9, <1>10, <1>11 DEF SpliceInv

(* So does handleWS going on before the copiers run, or giving up. *)
LEMMA SetupRec ==
  ASSUME NEW u, SpliceInv(u), u.pc \in BeforeOpen,
         NEW p \in BeforeOpen \cup {"ended"}, NEW v, v = [u EXCEPT !.pc = p]
  PROVE  SpliceInv(v)
<1>1. u \in Tunnel
  BY DEF SpliceInv
<1>2. v \in Tunnel
  BY <1>1, Shapes DEF Pcs
<1>3. /\ v.pc = p /\ v.out = u.out /\ v.pos = u.pos /\ v.held = u.held /\ v.n = u.n
      /\ v.sent = u.sent /\ v.buf = u.buf /\ v.total = u.total /\ v.copier = u.copier
      /\ v.clean = u.clean /\ v.link = u.link /\ v.added = u.added /\ v.errc = u.errc
  BY <1>1 DEF Tunnel
<1>4. ASSUME NEW d \in Dirs PROVE PassedOn(v, d) /\ Counted(v, d)
  <2>1. PassedOn(u, d) /\ Counted(u, d)
    BY DEF SpliceInv
  <2>2. PassedOn(v, d)
    BY <1>3, <2>1 DEF PassedOn
  <2>3. u.copier[d] = "off" /\ u.pos[d] = 0 /\ u.added[d] = 0 /\ p \notin OpenPcs
    BY <2>1 DEF Counted, BeforeOpen, OpenPcs
  <2>3a. u.total[d] = 0
    <3>1. u.total[d] + u.n[d] + u.held[d] = 0
      BY <2>1, <2>3 DEF Counted
    <3> QED BY <1>1, <3>1, NumberFields
  <2>4. Counted(v, d)
    BY <1>3, <2>1, <2>3, <2>3a DEF Counted
  <2> QED BY <2>2, <2>4
<1>5. ResultsInv(v)
  BY <1>3 DEF ResultsInv, SpliceInv, BeforeOpen
<1> QED BY <1>2, <1>4, <1>5 DEF SpliceInv

(* So does finding bytes behind the headers, of either side. *)
LEMMA BufferedRec ==
  ASSUME NEW u, SpliceInv(u), u.pc \in BeforeOpen, NEW p \in BeforeOpen,
         NEW d \in Dirs, NEW k \in 0..MaxBytes, NEW v,
         v = [u EXCEPT !.pc = p, !.sent = [u.sent EXCEPT ![d] = k],
                       !.buf = [u.buf EXCEPT ![d] = k]]
  PROVE  SpliceInv(v)
<1>1. u \in Tunnel
  BY DEF SpliceInv
<1>2. v \in Tunnel
  <2>1. /\ [u.sent EXCEPT ![d] = k] \in [Dirs -> 0..MaxBytes]
        /\ [u.buf EXCEPT ![d] = k] \in [Dirs -> 0..MaxBytes]
    BY <1>1 DEF Tunnel
  <2> QED BY <1>1, <2>1, Shapes DEF Pcs
<1>3. /\ v.pc = p /\ v.out = u.out /\ v.pos = u.pos /\ v.held = u.held /\ v.n = u.n
      /\ v.sent = [u.sent EXCEPT ![d] = k] /\ v.buf = [u.buf EXCEPT ![d] = k]
      /\ v.total = u.total /\ v.copier = u.copier
      /\ v.clean = u.clean /\ v.link = u.link /\ v.added = u.added /\ v.errc = u.errc
  BY <1>1 DEF Tunnel
<1>4. ASSUME NEW e \in Dirs PROVE PassedOn(v, e) /\ Counted(v, e)
  <2>1. PassedOn(u, e) /\ Counted(u, e)
    BY DEF SpliceInv
  <2>2. /\ u.copier[e] = "off" /\ u.pos[e] = 0 /\ u.added[e] = 0
        /\ p \notin OpenPcs /\ p # "ended" /\ ~u.clean[e]
    BY <2>1 DEF Counted, PassedOn, BeforeOpen, OpenPcs
  <2>3. v.buf[e] <= v.sent[e] /\ 0 <= v.sent[e]
    <3>1. u.sent \in [Dirs -> 0..MaxBytes] /\ u.buf \in [Dirs -> 0..MaxBytes]
      BY <1>1 DEF Tunnel
    <3>2. CASE e = d
      BY <1>3, <3>1, <3>2, TunnelAssumption
    <3>3. CASE e # d
      BY <1>3, <2>1, <3>1, <3>3, TunnelAssumption DEF PassedOn
    <3> QED BY <3>2, <3>3
  <2>4. PassedOn(v, e)
    BY <1>3, <2>1, <2>2, <2>3 DEF PassedOn
  <2>5. Counted(v, e)
    BY <1>3, <2>1, <2>2 DEF Counted
  <2> QED BY <2>4, <2>5
<1>5. ResultsInv(v)
  BY <1>3 DEF ResultsInv, SpliceInv, BeforeOpen
<1> QED BY <1>2, <1>4, <1>5 DEF SpliceInv

(* So does starting the copiers, whichever way they begin. *)
LEMMA OpenRec ==
  ASSUME NEW u, SpliceInv(u), u.pc = "open",
         NEW c \in [Dirs -> {"drain", "copy"}], NEW v,
         v = [u EXCEPT !.pc = "first", !.copier = c]
  PROVE  SpliceInv(v)
<1>1. u \in Tunnel
  BY DEF SpliceInv
<1>2. v \in Tunnel
  <2>1. c \in [Dirs -> Copiers]
    BY DEF Copiers
  <2> QED BY <1>1, <2>1, Shapes DEF Pcs, OpenPcs
<1>3. /\ v.pc = "first" /\ v.out = u.out /\ v.pos = u.pos /\ v.held = u.held /\ v.n = u.n
      /\ v.sent = u.sent /\ v.buf = u.buf /\ v.total = u.total /\ v.copier = c
      /\ v.clean = u.clean /\ v.link = u.link /\ v.added = u.added /\ v.errc = u.errc
  BY <1>1 DEF Tunnel
<1>4. ASSUME NEW e \in Dirs PROVE PassedOn(v, e) /\ Counted(v, e)
  <2>1. PassedOn(u, e) /\ Counted(u, e)
    BY DEF SpliceInv
  <2>2. /\ u.copier[e] = "off" /\ u.added[e] = 0 /\ ~u.clean[e]
        /\ c[e] \in {"drain", "copy"}
    BY <2>1 DEF Counted, PassedOn, BeforeOpen
  <2>3. PassedOn(v, e)
    BY <1>3, <2>1, <2>2 DEF PassedOn
  <2>4. Counted(v, e)
    BY <1>3, <2>1, <2>2 DEF Counted, BeforeOpen
  <2> QED BY <2>3, <2>4
<1>5. ResultsInv(v)
  <2>1. Count(v) = 0 /\ v.errc = 0
    BY <1>3 DEF Count, Dirs, SpliceInv, ResultsInv, BeforeOpen
  <2> QED BY <1>3, <2>1 DEF ResultsInv, BeforeOpen
<1> QED BY <1>2, <1>4, <1>5 DEF SpliceInv

(* So does the end of a CopyN or a Copy, which moves n into total; if the  *)
(* source was at its end, all that was sent had been written.              *)
LEMMA CopierRec ==
  ASSUME NEW u, SpliceInv(u), NEW d \in Dirs, u.copier[d] \in {"drain", "copy"},
         NEW c \in {"copy", "send"}, NEW b \in [Dirs -> BOOLEAN],
         \A e \in Dirs : e # d => b[e] = u.clean[e],
         b[d] => /\ c = "send" /\ u.pos[d] = u.sent[d] /\ u.held[d] = 0
                 /\ u.link[Source(d)] # "open",
         NEW v,
         v = [u EXCEPT !.copier = [u.copier EXCEPT ![d] = c],
                       !.n = [u.n EXCEPT ![d] = 0], !.clean = b,
                       !.total = [u.total EXCEPT ![d] = u.total[d] + u.n[d]]]
  PROVE  SpliceInv(v)
<1>1. u \in Tunnel /\ PassedOn(u, d) /\ Counted(u, d)
  BY DEF SpliceInv
<1>2. /\ u.total[d] + u.n[d] + u.held[d] = u.pos[d]
      /\ u.total[d] + u.n[d] \in 0..MaxBytes /\ 0 \in 0..MaxBytes
      /\ u.pc \in OpenPcs /\ u.total[d] + u.n[d] \in Nat
  <2>1. u.pc \in OpenPcs
    BY <1>1, Fields DEF Counted, Pcs
  <2>2. u.total[d] + u.n[d] + u.held[d] = u.pos[d]
    BY <1>1 DEF Counted
  <2>3. /\ u.total[d] \in Nat /\ u.n[d] \in Nat /\ u.held[d] \in Nat
        /\ u.pos[d] \in 0..MaxBytes /\ MaxBytes \in Nat
    BY <1>1, Fields, NumberFields
  <2> QED BY <2>1, <2>2, <2>3
<1>3. v \in Tunnel
  <2>1. /\ [u.copier EXCEPT ![d] = c] \in [Dirs -> Copiers]
        /\ [u.n EXCEPT ![d] = 0] \in [Dirs -> 0..MaxBytes]
        /\ [u.total EXCEPT ![d] = u.total[d] + u.n[d]] \in [Dirs -> 0..MaxBytes]
    <3>1. /\ u.copier \in [Dirs -> Copiers] /\ u.n \in [Dirs -> 0..MaxBytes]
          /\ u.total \in [Dirs -> 0..MaxBytes]
      BY <1>1 DEF Tunnel, Copiers
    <3>2. c \in Copiers
      BY DEF Copiers
    <3> QED BY <1>2, <3>1, <3>2
  <2> QED BY <1>1, <2>1, Shapes
<1>4. /\ v.copier = [u.copier EXCEPT ![d] = c] /\ v.n = [u.n EXCEPT ![d] = 0]
      /\ v.clean = b /\ v.total = [u.total EXCEPT ![d] = u.total[d] + u.n[d]]
      /\ v.out = u.out /\ v.pos = u.pos /\ v.held = u.held /\ v.sent = u.sent /\ v.buf = u.buf
      /\ v.link = u.link /\ v.pc = u.pc /\ v.added = u.added /\ v.errc = u.errc
  BY <1>1 DEF Tunnel
<1>5. ASSUME NEW e \in Dirs, e # d PROVE PassedOn(v, e) /\ Counted(v, e)
  <2>1. v.copier[e] = u.copier[e] /\ v.n[e] = u.n[e] /\ v.clean[e] = u.clean[e]
        /\ v.total[e] = u.total[e]
    BY <1>1, <1>4, <1>5 DEF Tunnel
  <2> QED BY <1>4, <2>1 DEF PassedOn, Counted, SpliceInv
<1>6. PassedOn(v, d) /\ Counted(v, d)
  <2>1. /\ v.copier[d] = c /\ v.n[d] = 0 /\ v.clean[d] = b[d]
        /\ v.total[d] = u.total[d] + u.n[d]
    BY <1>1, <1>2, <1>4 DEF Tunnel
  <2>2. PassedOn(v, d)
    BY <1>1, <1>4, <2>1 DEF PassedOn
  <2>3. Counted(v, d)
    <3>1. v.total[d] + v.n[d] + v.held[d] = v.pos[d]
      BY <1>2, <1>4, <2>1
    <3>2. v.pc # "ended" /\ v.added[d] = 0
      BY <1>1, <1>2, <1>4 DEF Counted, OpenPcs
    <3> QED BY <1>2, <1>4, <2>1, <3>1, <3>2 DEF Counted, OpenPcs, BeforeOpen
  <2> QED BY <2>2, <2>3
<1>7. ResultsInv(v)
  <2>1. Count(v) = Count(u)
    <3>1. \A e \in Dirs : v.copier[e] = "done" <=> u.copier[e] = "done"
      BY <1>1, <1>4 DEF Tunnel
    <3> QED BY <3>1 DEF Count, Dirs
  <2> QED BY <1>4, <2>1 DEF ResultsInv, SpliceInv
<1> QED BY <1>3, <1>5, <1>6, <1>7 DEF SpliceInv

(* So does sending a result: errc stays within its two places. *)
LEMMA SendRec ==
  ASSUME NEW u, SpliceInv(u), NEW d \in Dirs, u.copier[d] = "send", NEW v,
         v = [u EXCEPT !.copier = [u.copier EXCEPT ![d] = "done"], !.errc = u.errc + 1]
  PROVE  SpliceInv(v)
<1>1. u \in Tunnel /\ PassedOn(u, d) /\ Counted(u, d) /\ ResultsInv(u)
  BY DEF SpliceInv
<1>2. u.pc \in OpenPcs
  BY <1>1, Fields DEF Counted, Pcs
<1>3. Count([u EXCEPT !.copier = [u.copier EXCEPT ![d] = "done"]]) = Count(u) + 1
  <2>1. u.copier \in [Dirs -> Copiers]
    BY <1>1 DEF Tunnel, Copiers
  <2>2. CASE d = "c2b"
    BY <1>1, <2>1, <2>2 DEF Count, Dirs, Tunnel
  <2>3. CASE d = "b2c"
    BY <1>1, <2>1, <2>3 DEF Count, Dirs, Tunnel
  <2> QED BY <2>2, <2>3 DEF Dirs
<1>4. /\ v.copier = [u.copier EXCEPT ![d] = "done"] /\ v.errc = u.errc + 1
      /\ v.n = u.n /\ v.clean = u.clean /\ v.total = u.total
      /\ v.out = u.out /\ v.pos = u.pos /\ v.held = u.held /\ v.sent = u.sent /\ v.buf = u.buf
      /\ v.link = u.link /\ v.pc = u.pc /\ v.added = u.added
  BY <1>1 DEF Tunnel
<1>5. Count(v) = Count(u) + 1
  BY <1>1, <1>3, <1>4 DEF Count, Tunnel
<1>6. u.errc \in Nat /\ Count(v) <= 2 /\ Count(u) \in 0..2
  BY <1>1, Fields DEF Count
<1>7. ResultsInv(v)
  <2>1. u.errc \in Nat /\ Count(u) \in Nat
    BY <1>6
  <2>2. v.pc = "first" => v.errc = Count(v)
    BY <1>1, <1>4, <1>5, <2>1 DEF ResultsInv
  <2>3. v.pc \in {"close", "second"} => v.errc + 1 = Count(v)
    BY <1>1, <1>4, <1>5, <2>1 DEF ResultsInv
  <2>4. v.pc = "account" => v.errc + 2 = Count(v)
    BY <1>1, <1>4, <1>5, <2>1 DEF ResultsInv
  <2> QED BY <1>2, <1>4, <2>2, <2>3, <2>4 DEF ResultsInv, OpenPcs, BeforeOpen
<1>8. v.errc \in 0..2
  BY <1>2, <1>4, <1>6, <1>7 DEF ResultsInv, OpenPcs
<1>9. v \in Tunnel
  <2>1. [u.copier EXCEPT ![d] = "done"] \in [Dirs -> Copiers]
    BY <1>1 DEF Tunnel, Copiers
  <2>2. u.errc + 1 \in 0..2
    BY <1>4, <1>8
  <2> QED BY <1>1, <2>1, <2>2, Shapes
<1>10. ASSUME NEW e \in Dirs PROVE PassedOn(v, e) /\ Counted(v, e)
  <2>1. \/ e # d /\ v.copier[e] = u.copier[e]
        \/ e = d /\ v.copier[e] = "done"
    BY <1>1, <1>4 DEF Tunnel
  <2>2. PassedOn(v, e)
    BY <1>4, <2>1 DEF PassedOn, SpliceInv
  <2>3. Counted(v, e)
    BY <1>2, <1>4, <2>1 DEF Counted, SpliceInv, OpenPcs, BeforeOpen
  <2> QED BY <2>2, <2>3
<1> QED BY <1>7, <1>9, <1>10 DEF SpliceInv

(* So does taking a result. *)
LEMMA ResultRec ==
  ASSUME NEW u, SpliceInv(u), u.errc > 0, NEW p,
         \/ u.pc = "first" /\ p = "close"
         \/ u.pc = "second" /\ p = "account",
         NEW v, v = [u EXCEPT !.pc = p, !.errc = u.errc - 1]
  PROVE  SpliceInv(v)
<1>1. u \in Tunnel /\ ResultsInv(u) /\ u.errc \in 0..2
  BY Fields DEF SpliceInv, Dirs
<1>2. v \in Tunnel
  <2>1. u.errc - 1 \in 0..2
    BY <1>1
  <2> QED BY <1>1, <2>1, Shapes DEF Pcs, OpenPcs
<1>3. /\ v.pc = p /\ v.errc = u.errc - 1
      /\ v.out = u.out /\ v.pos = u.pos /\ v.held = u.held /\ v.n = u.n
      /\ v.sent = u.sent /\ v.buf = u.buf /\ v.total = u.total /\ v.copier = u.copier
      /\ v.clean = u.clean /\ v.link = u.link /\ v.added = u.added
  BY <1>1 DEF Tunnel
<1>4. ASSUME NEW d \in Dirs PROVE PassedOn(v, d) /\ Counted(v, d)
  BY <1>3 DEF SpliceInv, PassedOn, Counted, OpenPcs, BeforeOpen
<1>5. ResultsInv(v)
  <2>1. Count(v) = Count(u)
    BY <1>3 DEF Count
  <2>2. v.errc + 1 = u.errc
    BY <1>1, <1>3
  <2>3. v.pc = "close" => v.errc + 1 = Count(v)
    BY <1>1, <1>3, <2>1, <2>2 DEF ResultsInv
  <2>4. v.pc = "account" => v.errc + 2 = Count(v)
    <3>1. v.errc + 2 = u.errc + 1
      BY <1>1, <1>3
    <3> QED BY <1>1, <1>3, <2>1, <3>1 DEF ResultsInv
  <2> QED BY <1>3, <2>3, <2>4 DEF ResultsInv, BeforeOpen
<1> QED BY <1>2, <1>4, <1>5 DEF SpliceInv

(* So does closing the connections. *)
LEMMA CloseRec ==
  ASSUME NEW u, SpliceInv(u), u.pc = "close", NEW v,
         v = [u EXCEPT !.pc = "second", !.shut = TRUE]
  PROVE  SpliceInv(v)
<1>1. u \in Tunnel
  BY DEF SpliceInv
<1>2. v \in Tunnel
  BY <1>1, Shapes DEF Pcs, OpenPcs
<1>3. /\ v.pc = "second" /\ v.errc = u.errc
      /\ v.out = u.out /\ v.pos = u.pos /\ v.held = u.held /\ v.n = u.n
      /\ v.sent = u.sent /\ v.buf = u.buf /\ v.total = u.total /\ v.copier = u.copier
      /\ v.clean = u.clean /\ v.link = u.link /\ v.added = u.added
  BY <1>1 DEF Tunnel
<1>4. ASSUME NEW d \in Dirs PROVE PassedOn(v, d) /\ Counted(v, d)
  BY <1>3 DEF SpliceInv, PassedOn, Counted, OpenPcs, BeforeOpen
<1>5. ResultsInv(v)
  BY <1>3 DEF ResultsInv, SpliceInv, Count, BeforeOpen
<1> QED BY <1>2, <1>4, <1>5 DEF SpliceInv

(* So does the accounting: two results were taken, so both copiers are     *)
(* done and total is all that was written.                                 *)
LEMMA AccountRec ==
  ASSUME NEW u, SpliceInv(u), u.pc = "account", NEW v,
         v = [u EXCEPT !.pc = "ended", !.added = u.total]
  PROVE  SpliceInv(v)
<1>1. u \in Tunnel /\ ResultsInv(u)
  BY DEF SpliceInv
<1>2. \A d \in Dirs : u.copier[d] = "done"
  <2>1. u.errc \in 0..2 /\ u.errc + 2 = Count(u)
    BY <1>1, Fields DEF ResultsInv, Dirs
  <2> QED BY <2>1 DEF Count, Dirs
<1>3. u.errc = 0
  <2>1. Count(u) = 2
    BY <1>2 DEF Count, Dirs
  <2>2. u.errc \in Nat /\ u.errc + 2 = Count(u)
    BY <1>1, Fields DEF ResultsInv, Dirs
  <2> QED BY <2>1, <2>2
<1>4. v \in Tunnel
  <2>1. u.total \in [Dirs -> 0..MaxBytes]
    BY <1>1 DEF Tunnel
  <2> QED BY <1>1, <2>1, Shapes DEF Pcs
<1>5. /\ v.pc = "ended" /\ v.errc = u.errc
      /\ v.out = u.out /\ v.pos = u.pos /\ v.held = u.held /\ v.n = u.n
      /\ v.sent = u.sent /\ v.buf = u.buf /\ v.total = u.total /\ v.copier = u.copier
      /\ v.clean = u.clean /\ v.link = u.link /\ v.added = u.total
  BY <1>1 DEF Tunnel
<1>6. ASSUME NEW d \in Dirs PROVE PassedOn(v, d) /\ Counted(v, d)
  <2>1. PassedOn(u, d) /\ Counted(u, d)
    BY DEF SpliceInv
  <2>2. PassedOn(v, d)
    BY <1>5, <2>1 DEF PassedOn
  <2>3. Counted(v, d)
    BY <1>2, <1>5, <2>1 DEF Counted, OpenPcs, BeforeOpen
  <2> QED BY <2>2, <2>3
<1>7. ResultsInv(v)
  BY <1>3, <1>5 DEF ResultsInv, BeforeOpen
<1> QED BY <1>4, <1>6, <1>7 DEF SpliceInv

(* So does a peer that sends: its direction cannot have ended cleanly. *)
LEMMA PeerSendsRec ==
  ASSUME NEW u, SpliceInv(u), NEW d \in Dirs, u.link[Source(d)] = "open",
         u.sent["c2b"] + u.sent["b2c"] < MaxBytes,
         NEW v, v = [u EXCEPT !.sent = [u.sent EXCEPT ![d] = u.sent[d] + 1]]
  PROVE  SpliceInv(v)
<1>1. u \in Tunnel
  BY DEF SpliceInv
<1>2. u.sent[d] \in Nat /\ u.sent[d] + 1 \in 0..MaxBytes
  <2>1. u.sent["c2b"] \in Nat /\ u.sent["b2c"] \in Nat /\ MaxBytes \in Nat
    BY <1>1, Fields, TunnelAssumption DEF Dirs
  <2> QED BY <2>1 DEF Dirs
<1>3. v \in Tunnel
  <2>1. u.sent \in [Dirs -> 0..MaxBytes]
    BY <1>1 DEF Tunnel
  <2>2. [u.sent EXCEPT ![d] = u.sent[d] + 1] \in [Dirs -> 0..MaxBytes]
    BY <1>2, <2>1
  <2> QED BY <1>1, <2>2, Shapes
<1>4. /\ v.pc = u.pc /\ v.errc = u.errc
      /\ v.out = u.out /\ v.pos = u.pos /\ v.held = u.held /\ v.n = u.n
      /\ v.sent = [u.sent EXCEPT ![d] = u.sent[d] + 1]
      /\ v.buf = u.buf /\ v.total = u.total /\ v.copier = u.copier
      /\ v.clean = u.clean /\ v.link = u.link /\ v.added = u.added
  BY <1>1 DEF Tunnel
<1>5. ASSUME NEW e \in Dirs PROVE PassedOn(v, e) /\ Counted(v, e)
  <2>1. PassedOn(u, e) /\ Counted(u, e)
    BY DEF SpliceInv
  <2>2. \/ e # d /\ v.sent[e] = u.sent[e]
        \/ e = d /\ v.sent[e] = u.sent[e] + 1 /\ ~u.clean[e]
    BY <1>1, <1>4, <2>1 DEF Tunnel, PassedOn
  <2>3. v.pos[e] <= v.sent[e] /\ v.buf[e] <= v.sent[e]
    <3>1. u.pos[e] \in Nat /\ u.buf[e] \in Nat /\ u.sent[e] \in Nat
      BY <1>1, Fields, TunnelAssumption
    <3> QED BY <1>4, <2>1, <2>2, <3>1 DEF PassedOn
  <2>4. PassedOn(v, e)
    BY <1>4, <2>1, <2>2, <2>3 DEF PassedOn
  <2>5. Counted(v, e)
    BY <1>4, <2>1 DEF Counted
  <2> QED BY <2>4, <2>5
<1>6. ResultsInv(v)
  BY <1>4 DEF ResultsInv, SpliceInv, Count
<1> QED BY <1>3, <1>5, <1>6 DEF SpliceInv

(* So does a peer that ends its half, or is gone. *)
LEMMA PeerLeavesRec ==
  ASSUME NEW u, SpliceInv(u), NEW d \in Dirs, NEW l \in {"eof", "dead"},
         NEW v, v = [u EXCEPT !.link = [u.link EXCEPT ![Source(d)] = l]]
  PROVE  SpliceInv(v)
<1>1. u \in Tunnel
  BY DEF SpliceInv
<1>2. v \in Tunnel
  <2>1. [u.link EXCEPT ![Source(d)] = l] \in [Sides -> {"open", "eof", "dead"}]
    BY <1>1 DEF Tunnel
  <2> QED BY <1>1, <2>1, Shapes
<1>3. /\ v.pc = u.pc /\ v.errc = u.errc
      /\ v.out = u.out /\ v.pos = u.pos /\ v.held = u.held /\ v.n = u.n
      /\ v.sent = u.sent /\ v.buf = u.buf /\ v.total = u.total /\ v.copier = u.copier
      /\ v.clean = u.clean /\ v.link = [u.link EXCEPT ![Source(d)] = l]
      /\ v.added = u.added
  BY <1>1 DEF Tunnel
<1>4. ASSUME NEW e \in Dirs PROVE PassedOn(v, e) /\ Counted(v, e)
  <2>1. v.link[Source(e)] = "open" => u.link[Source(e)] = "open"
    BY <1>1, <1>3 DEF Tunnel, Source, Sides
  <2>2. PassedOn(v, e)
    BY <1>3, <2>1 DEF PassedOn, SpliceInv
  <2>3. Counted(v, e)
    BY <1>3 DEF Counted, SpliceInv
  <2> QED BY <2>2, <2>3
<1>5. ResultsInv(v)
  BY <1>3 DEF ResultsInv, SpliceInv, Count
<1> QED BY <1>2, <1>4, <1>5 DEF SpliceInv

-----------------------------------------------------------------------------
(* All tunnels; the ones the gauge counts; and the gauge. *)
TunnelsInv ==
    /\ tunnel \in [Tunnels -> Tunnel]
    /\ \A t \in Tunnels : SpliceInv(tunnel[t])

OpenTunnels == {t \in Tunnels : tunnel[t].pc \in OpenPcs}

GaugeInv == gauge \in Nat /\ gauge = Cardinality(OpenTunnels)

(* When t becomes v the gauge goes up, goes down or stays as it should. *)
Metered(t, v) ==
    \/ (v.pc \in OpenPcs) = (tunnel[t].pc \in OpenPcs) /\ gauge' = gauge
    \/ v.pc \in OpenPcs /\ tunnel[t].pc \notin OpenPcs /\ gauge' = gauge + 1
    \/ v.pc \notin OpenPcs /\ tunnel[t].pc \in OpenPcs /\ gauge' = gauge - 1

(* A step that only changes tunnel t, to a record with the invariant. *)
Moves(t) ==
    \E v : SpliceInv(v) /\ tunnel' = [tunnel EXCEPT ![t] = v] /\ Metered(t, v)

(* Accepting a request and writing the 101 are such steps. *)
LEMMA SetupMoves ==
  ASSUME TunnelsInv, NEW t \in Tunnels, Accept(t) \/ WriteHandshake(t)
  PROVE  Moves(t)
<1> DEFINE u == tunnel[t]
<1>1. u \in Tunnel /\ SpliceInv(u)
  BY DEF TunnelsInv
<1>2. PICK p \in BeforeOpen \cup {"ended"} :
          tunnel' = [tunnel EXCEPT ![t] = [u EXCEPT !.pc = p]]
  BY DEF Accept, WriteHandshake, BeforeOpen
<1>3. gauge' = gauge /\ u.pc \in BeforeOpen
  BY DEF Accept, WriteHandshake, BeforeOpen
<1> DEFINE v == [u EXCEPT !.pc = p]
<1>4. SpliceInv(v)
  BY <1>1, <1>3, SetupRec
<1>5. v.pc = p
  BY <1>1 DEF Tunnel
<1> HIDE DEF u, v
<1>6. Metered(t, v)
  BY <1>3, <1>5 DEF u, Metered, BeforeOpen, OpenPcs
<1> QED BY <1>2, <1>4, <1>6 DEF Moves, v

(* So are the sandbox's answer and the hijack. *)
LEMMA BufferedMoves ==
  ASSUME TunnelsInv, NEW t \in Tunnels, UpgradeAnswered(t) \/ Hijack(t)
  PROVE  Moves(t)
<1> DEFINE u == tunnel[t]
<1>1. u \in Tunnel /\ SpliceInv(u)
  BY DEF TunnelsInv
<1>2. gauge' = gauge /\ u.pc \in BeforeOpen
  BY DEF UpgradeAnswered, Hijack, BeforeOpen
<1>3. CASE tunnel' = [tunnel EXCEPT ![t].pc = "ended"]
  <2> DEFINE v == [u EXCEPT !.pc = "ended"]
  <2>1. SpliceInv(v)
    BY <1>1, <1>2, SetupRec
  <2>2. v.pc = "ended"
    BY <1>1 DEF Tunnel
  <2>3. tunnel' = [tunnel EXCEPT ![t] = v]
    BY <1>3
  <2> HIDE DEF u, v
  <2>4. Metered(t, v)
    BY <1>2, <2>2 DEF u, Metered, BeforeOpen, OpenPcs
  <2> QED BY <2>1, <2>3, <2>4 DEF Moves
<1>4. ASSUME NEW d \in Dirs, NEW k \in 0..MaxBytes, NEW p \in BeforeOpen,
             tunnel' = [tunnel EXCEPT ![t].pc = p, ![t].sent[d] = k, ![t].buf[d] = k]
      PROVE  Moves(t)
  <2> DEFINE v == [u EXCEPT !.pc = p, !.sent = [u.sent EXCEPT ![d] = k],
                            !.buf = [u.buf EXCEPT ![d] = k]]
  <2>1. SpliceInv(v)
    BY <1>1, <1>2, BufferedRec
  <2>2. v.pc = p
    BY <1>1 DEF Tunnel
  <2>3. tunnel' = [tunnel EXCEPT ![t] = v]
    BY <1>1, <1>4 DEF Tunnel
  <2> HIDE DEF u, v
  <2>4. Metered(t, v)
    BY <1>2, <2>2 DEF u, Metered, BeforeOpen, OpenPcs
  <2> QED BY <2>1, <2>3, <2>4 DEF Moves
<1>5. CASE UpgradeAnswered(t)
  <2>1. CASE \E k \in 0..MaxBytes :
               tunnel' = [tunnel EXCEPT ![t].pc = "hijack",
                                        ![t].sent["b2c"] = k, ![t].buf["b2c"] = k]
    BY <1>4, <2>1 DEF Dirs, BeforeOpen
  <2> QED BY <1>3, <1>5, <2>1 DEF UpgradeAnswered
<1>6. CASE Hijack(t)
  <2>1. CASE \E k \in 0..(MaxBytes - u.sent["b2c"]) :
               tunnel' = [tunnel EXCEPT ![t].pc = "handshake",
                                        ![t].sent["c2b"] = k, ![t].buf["c2b"] = k]
    <3>1. \A k \in 0..(MaxBytes - u.sent["b2c"]) : k \in 0..MaxBytes
      <4>1. u.sent["b2c"] \in 0..MaxBytes
        BY <1>1, Fields DEF Dirs
      <4> QED BY <4>1, TunnelAssumption
    <3> QED BY <1>4, <2>1, <3>1 DEF Dirs, BeforeOpen
  <2> QED BY <1>3, <1>6, <2>1 DEF Hijack
<1> QED BY <1>5, <1>6

(* So is ConnOpened with the start of the copiers. *)
LEMMA OpenMoves ==
  ASSUME TunnelsInv, NEW t \in Tunnels, OpenTunnel(t)
  PROVE  Moves(t)
<1> DEFINE u == tunnel[t]
           c == [d \in Dirs |-> IF d = "c2b" /\ u.buf[d] > 0 THEN "drain" ELSE "copy"]
           v == [u EXCEPT !.pc = "first", !.copier = c]
<1>1. u \in Tunnel /\ SpliceInv(u)
  BY DEF TunnelsInv
<1>2. gauge' = gauge + 1 /\ u.pc = "open" /\ tunnel' = [tunnel EXCEPT ![t] = v]
  BY <1>1 DEF OpenTunnel, ConnOpened, Tunnel
<1>3. c \in [Dirs -> {"drain", "copy"}]
  OBVIOUS
<1> HIDE DEF c
<1>4. SpliceInv(v)
  BY <1>1, <1>2, <1>3, OpenRec
<1>5. v.pc = "first"
  BY <1>1 DEF Tunnel
<1> HIDE DEF u, v
<1>6. Metered(t, v)
  BY <1>2, <1>5 DEF u, Metered, OpenPcs
<1> QED BY <1>2, <1>4, <1>6 DEF Moves

(* So is the rest of handleWS. *)
LEMMA HandlerMoves ==
  ASSUME TunnelsInv, NEW t \in Tunnels,
         FirstResult(t) \/ CloseBoth(t) \/ SecondResult(t) \/ Account(t)
  PROVE  Moves(t)
<1> DEFINE u == tunnel[t]
<1>1. u \in Tunnel /\ SpliceInv(u)
  BY DEF TunnelsInv
<1>2. CASE FirstResult(t) \/ SecondResult(t)
  <2>1. PICK p : /\ \/ u.pc = "first" /\ p = "close"
                    \/ u.pc = "second" /\ p = "account"
                 /\ tunnel' = [tunnel EXCEPT ![t].pc = p, ![t].errc = @ - 1]
    BY <1>2 DEF FirstResult, SecondResult
  <2> DEFINE v == [u EXCEPT !.pc = p, !.errc = u.errc - 1]
  <2>2. tunnel' = [tunnel EXCEPT ![t] = v] /\ v.pc = p
    BY <1>1, <2>1 DEF Tunnel
  <2>3. gauge' = gauge /\ u.errc > 0
    BY <1>2 DEF FirstResult, SecondResult
  <2>4. SpliceInv(v)
    BY <1>1, <2>1, <2>3, ResultRec
  <2> HIDE DEF u, v
  <2>5. Metered(t, v)
    BY <2>1, <2>2, <2>3 DEF u, Metered, OpenPcs
  <2> QED BY <2>2, <2>4, <2>5 DEF Moves
<1>3. CASE CloseBoth(t)
  <2> DEFINE v == [u EXCEPT !.pc = "second", !.shut = TRUE]
  <2>1. tunnel' = [tunnel EXCEPT ![t] = v] /\ v.pc = "second"
    BY <1>1, <1>3 DEF Tunnel, CloseBoth
  <2>2. gauge' = gauge /\ u.pc = "close"
    BY <1>3 DEF CloseBoth
  <2>3. SpliceInv(v)
    BY <1>1, <2>2, CloseRec
  <2> HIDE DEF u, v
  <2>4. Metered(t, v)
    BY <2>1, <2>2 DEF u, Metered, OpenPcs
  <2> QED BY <2>1, <2>3, <2>4 DEF Moves
<1>4. CASE Account(t)
  <2> DEFINE v == [u EXCEPT !.pc = "ended", !.added = u.total]
  <2>1. tunnel' = [tunnel EXCEPT ![t] = v] /\ v.pc = "ended"
    BY <1>1, <1>4 DEF Tunnel, Account
  <2>2. gauge' = gauge - 1 /\ u.pc = "account"
    BY <1>4 DEF Account, ConnClosed
  <2>3. SpliceInv(v)
    BY <1>1, <2>2, AccountRec
  <2> HIDE DEF u, v
  <2>4. Metered(t, v)
    BY <2>1, <2>2 DEF u, Metered, OpenPcs
  <2> QED BY <2>1, <2>3, <2>4 DEF Moves
<1> QED BY <1>2, <1>3, <1>4

(* So is a copier that reads a byte. *)
LEMMA ReadMoves ==
  ASSUME TunnelsInv, NEW t \in Tunnels, NEW d \in Dirs, ReadByte(t, d)
  PROVE  Moves(t)
<1> DEFINE u == tunnel[t]
           v == [u EXCEPT !.pos = [u.pos EXCEPT ![d] = u.pos[d] + 1],
                          !.held = [u.held EXCEPT ![d] = 1]]
<1>1. u \in Tunnel /\ SpliceInv(u)
  BY DEF TunnelsInv
<1>2. tunnel' = [tunnel EXCEPT ![t] = v]
  BY <1>1 DEF ReadByte, Tunnel
<1>3. v.pc = u.pc
  BY <1>1 DEF Tunnel
<1>4. u.pos[d] < u.sent[d]
  <2>1. u.pos[d] < u.buf[d] \/ u.pos[d] < u.sent[d]
    BY DEF ReadByte, Readable
  <2>2. u.buf[d] <= u.sent[d]
    BY <1>1 DEF SpliceInv, PassedOn
  <2>3. u.pos[d] \in Nat /\ u.buf[d] \in Nat /\ u.sent[d] \in Nat
    BY <1>1, NumberFields
  <2> QED BY <2>1, <2>2, <2>3
<1>5. SpliceInv(v)
  <2>1. u.copier[d] \in {"drain", "copy"} /\ u.held[d] = 0
    BY DEF ReadByte, InRead
  <2> HIDE DEF u
  <2> QED BY <1>1, <1>4, <2>1, ReadRec DEF v
<1>6. gauge' = gauge
  BY DEF ReadByte
<1> HIDE DEF u, v
<1>7. Metered(t, v)
  BY <1>3, <1>6 DEF u, Metered
<1> QED BY <1>2, <1>5, <1>7 DEF Moves

(* So is one that writes it. *)
LEMMA WriteMoves ==
  ASSUME TunnelsInv, NEW t \in Tunnels, NEW d \in Dirs, WriteByte(t, d)
  PROVE  Moves(t)
<1> DEFINE u == tunnel[t]
           v == [u EXCEPT !.held = [u.held EXCEPT ![d] = 0],
                          !.out = [u.out EXCEPT ![d] = Append(u.out[d], u.pos[d])],
                          !.n = [u.n EXCEPT ![d] = u.n[d] + 1]]
<1>1. u \in Tunnel /\ SpliceInv(u)
  BY DEF TunnelsInv
<1>2. tunnel' = [tunnel EXCEPT ![t] = v]
  BY <1>1 DEF WriteByte, Tunnel
<1>3. v.pc = u.pc
  BY <1>1 DEF Tunnel
<1>4. SpliceInv(v)
  <2>1. u.copier[d] \in {"drain", "copy"} /\ u.held[d] = 1
    BY DEF WriteByte, InWrite
  <2> HIDE DEF u
  <2> QED BY <1>1, <2>1, WriteRec DEF v
<1>5. gauge' = gauge
  BY DEF WriteByte
<1> HIDE DEF u, v
<1>6. Metered(t, v)
  BY <1>3, <1>5 DEF u, Metered
<1> QED BY <1>2, <1>4, <1>6 DEF Moves

(* So is a copier whose CopyN or Copy ends. *)
LEMMA CopierMoves ==
  ASSUME TunnelsInv, NEW t \in Tunnels, NEW d \in Dirs,
         DrainEnds(t, d) \/ CopyEnds(t, d)
  PROVE  Moves(t)
<1> DEFINE u == tunnel[t]
<1>1. u \in Tunnel /\ SpliceInv(u)
  BY DEF TunnelsInv
<1>2. gauge' = gauge /\ u.copier[d] \in {"drain", "copy"}
  BY DEF DrainEnds, CopyEnds, InRead, InWrite
<1>3. ASSUME NEW c \in {"copy", "send"}, NEW b \in [Dirs -> BOOLEAN],
             \A e \in Dirs : e # d => b[e] = u.clean[e],
             b[d] => /\ c = "send" /\ u.pos[d] = u.sent[d] /\ u.held[d] = 0
                     /\ u.link[Source(d)] # "open",
             tunnel' = [tunnel EXCEPT ![t] =
                 [u EXCEPT !.copier = [u.copier EXCEPT ![d] = c],
                           !.n = [u.n EXCEPT ![d] = 0], !.clean = b,
                           !.total = [u.total EXCEPT ![d] = u.total[d] + u.n[d]]]]
      PROVE  Moves(t)
  <2> DEFINE v == [u EXCEPT !.copier = [u.copier EXCEPT ![d] = c],
                            !.n = [u.n EXCEPT ![d] = 0], !.clean = b,
                            !.total = [u.total EXCEPT ![d] = u.total[d] + u.n[d]]]
  <2>1. SpliceInv(v)
    <3> HIDE DEF u
    <3> QED BY <1>1, <1>2, <1>3, CopierRec
  <2>2. v.pc = u.pc
    BY <1>1 DEF Tunnel
  <2> HIDE DEF u, v
  <2>3. Metered(t, v)
    BY <1>2, <2>2 DEF u, Metered
  <2> QED BY <1>3, <2>1, <2>3 DEF Moves, v
<1>4. CASE DrainEnds(t, d)
  <2>1. u.clean \in [Dirs -> BOOLEAN] /\ ~u.clean[d]
    BY <1>1, <1>2 DEF Tunnel, SpliceInv, PassedOn
  <2>2. tunnel' = [tunnel EXCEPT ![t] =
                 [u EXCEPT !.copier = [u.copier EXCEPT ![d] = "copy"],
                           !.n = [u.n EXCEPT ![d] = 0], !.clean = u.clean,
                           !.total = [u.total EXCEPT ![d] = u.total[d] + u.n[d]]]]
    <3>1. tunnel' = [tunnel EXCEPT ![t] =
                 [u EXCEPT !.copier = [u.copier EXCEPT ![d] = "copy"],
                           !.n = [u.n EXCEPT ![d] = 0],
                           !.total = [u.total EXCEPT ![d] = u.total[d] + u.n[d]]]]
      BY <1>1, <1>4 DEF DrainEnds, Tunnel
    <3> HIDE DEF u
    <3>2. \A c, n, k : [u EXCEPT !.copier = c, !.n = n, !.total = k]
                          = [u EXCEPT !.copier = c, !.n = n, !.clean = u.clean, !.total = k]
      BY <1>1 DEF Tunnel
    <3> QED BY <3>1, <3>2
  <2> HIDE DEF u
  <2> QED BY <1>3, <2>1, <2>2
<1>5. CASE CopyEnds(t, d)
  <2> DEFINE b == [u.clean EXCEPT ![d] = InRead(t, d) /\ AtEOF(t, d)]
  <2>0. (InRead(t, d) /\ AtEOF(t, d)) \in BOOLEAN
    BY DEF AtEOF
  <2>1. b \in [Dirs -> BOOLEAN] /\ \A e \in Dirs : e # d => b[e] = u.clean[e]
    BY <1>1, <2>0 DEF Tunnel
  <2>2. b[d] => u.pos[d] = u.sent[d] /\ u.held[d] = 0 /\ u.link[Source(d)] # "open"
    BY <1>1 DEF Tunnel, AtEOF, InRead
  <2>3. tunnel' = [tunnel EXCEPT ![t] =
                 [u EXCEPT !.copier = [u.copier EXCEPT ![d] = "send"],
                           !.n = [u.n EXCEPT ![d] = 0], !.clean = b,
                           !.total = [u.total EXCEPT ![d] = u.total[d] + u.n[d]]]]
    BY <1>1, <1>5 DEF CopyEnds, Tunnel
  <2> HIDE DEF u, b
  <2> QED BY <1>3, <2>1, <2>2, <2>3
<1> QED BY <1>4, <1>5

(* So is a copier that reports its result. *)
LEMMA SendMoves ==
  ASSUME TunnelsInv, NEW t \in Tunnels, NEW d \in Dirs, SendResult(t, d)
  PROVE  Moves(t)
<1> DEFINE u == tunnel[t]
           v == [u EXCEPT !.copier = [u.copier EXCEPT ![d] = "done"], !.errc = u.errc + 1]
<1>1. u \in Tunnel /\ SpliceInv(u)
  BY DEF TunnelsInv
<1>2. tunnel' = [tunnel EXCEPT ![t] = v] /\ v.pc = u.pc
  BY <1>1 DEF SendResult, Tunnel
<1>3. gauge' = gauge /\ u.copier[d] = "send"
  BY DEF SendResult
<1>4. SpliceInv(v)
  BY <1>1, <1>3, SendRec
<1> HIDE DEF u, v
<1>5. Metered(t, v)
  BY <1>2, <1>3 DEF u, Metered
<1> QED BY <1>2, <1>4, <1>5 DEF Moves

(* So is what a peer does. *)
LEMMA PeerMoves ==
  ASSUME TunnelsInv, NEW t \in Tunnels, NEW d \in Dirs, PeerActs(t, d)
  PROVE  Moves(t)
<1> DEFINE u == tunnel[t]
<1>1. u \in Tunnel /\ SpliceInv(u) /\ gauge' = gauge
  BY DEF TunnelsInv, PeerActs
<1>2. CASE /\ u.link[Source(d)] = "open"
           /\ u.sent["c2b"] + u.sent["b2c"] < MaxBytes
           /\ tunnel' = [tunnel EXCEPT ![t].sent[d] = @ + 1]
  <2> DEFINE v == [u EXCEPT !.sent = [u.sent EXCEPT ![d] = u.sent[d] + 1]]
  <2>1. tunnel' = [tunnel EXCEPT ![t] = v] /\ v.pc = u.pc
    BY <1>1, <1>2 DEF Tunnel
  <2> HIDE DEF u
  <2>2. SpliceInv(v)
    BY <1>1, <1>2, PeerSendsRec
  <2> HIDE DEF v
  <2>3. Metered(t, v)
    BY <1>1, <2>1 DEF u, Metered
  <2> QED BY <2>1, <2>2, <2>3 DEF Moves
<1>3. ASSUME NEW l \in {"eof", "dead"},
             tunnel' = [tunnel EXCEPT ![t].link[Source(d)] = l]
      PROVE  Moves(t)
  <2> DEFINE v == [u EXCEPT !.link = [u.link EXCEPT ![Source(d)] = l]]
  <2>1. tunnel' = [tunnel EXCEPT ![t] = v] /\ v.pc = u.pc
    BY <1>1, <1>3 DEF Tunnel
  <2> HIDE DEF u
  <2>2. SpliceInv(v)
    BY <1>1, PeerLeavesRec
  <2> HIDE DEF v
  <2>3. Metered(t, v)
    BY <1>1, <2>1 DEF u, Metered
  <2> QED BY <2>1, <2>2, <2>3 DEF Moves
<1> QED BY <1>2, <1>3 DEF PeerActs

-----------------------------------------------------------------------------
(* run is only past FromEnv with a configuration FromEnv accepted. *)
ConfigInv ==
    /\ proc \in {"config", "backend", "reconcile"} => env \in Environment
    /\ proc \in {"backend", "reconcile"} => Accepted(env)

(* The inductive invariant. *)
TunnelInv == ProcessTypeOK /\ ConfigInv /\ TunnelsInv /\ GaugeInv

(* A request nobody has sent yet has the invariant. *)
LEMMA NewTunnelInv == SpliceInv(NewTunnel)
<1> DEFINE zero == [d \in Dirs |-> 0]
           none == [d \in Dirs |-> <<>>]
<1>1. /\ NewTunnel.pc = "free" /\ NewTunnel.errc = 0
      /\ NewTunnel.sent = zero /\ NewTunnel.buf = zero /\ NewTunnel.pos = zero
      /\ NewTunnel.held = zero /\ NewTunnel.n = zero /\ NewTunnel.total = zero
      /\ NewTunnel.added = zero
      /\ NewTunnel.out = none /\ NewTunnel.copier = [d \in Dirs |-> "off"]
      /\ NewTunnel.clean = [d \in Dirs |-> FALSE]
  BY DEF NewTunnel
<1>2. NewTunnel \in Tunnel
  <2>1. /\ zero \in [Dirs -> 0..MaxBytes] /\ zero \in [Dirs -> 0..1]
        /\ none \in [Dirs -> Seq(1..MaxBytes)]
    BY TunnelAssumption
  <2>2. /\ [d \in Dirs |-> FALSE] \in [Dirs -> BOOLEAN]
        /\ [d \in Dirs |-> "off"] \in [Dirs -> {"off", "drain", "copy", "send", "done"}]
        /\ [s \in Sides |-> "open"] \in [Sides -> {"open", "eof", "dead"}]
    OBVIOUS
  <2> HIDE DEF zero, none
  <2>3. ASSUME NEW f \in [Dirs -> BOOLEAN],
               NEW c \in [Dirs -> {"off", "drain", "copy", "send", "done"}],
               NEW l \in [Sides -> {"open", "eof", "dead"}]
        PROVE  [pc |-> "free", link |-> l, shut |-> FALSE,
                sent |-> zero, buf |-> zero, pos |-> zero, held |-> zero, out |-> none,
                copier |-> c, n |-> zero, total |-> zero,
                clean |-> f, errc |-> 0, added |-> zero] \in Tunnel
    BY <2>1 DEF Tunnel
  <2> QED BY <2>2, <2>3, Zenon DEF NewTunnel, zero, none
<1>3. ASSUME NEW d \in Dirs PROVE PassedOn(NewTunnel, d) /\ Counted(NewTunnel, d)
  <2>1. /\ NewTunnel.sent[d] = 0 /\ NewTunnel.buf[d] = 0 /\ NewTunnel.pos[d] = 0
        /\ NewTunnel.held[d] = 0 /\ NewTunnel.n[d] = 0 /\ NewTunnel.total[d] = 0
        /\ NewTunnel.added[d] = 0
        /\ NewTunnel.out[d] = <<>> /\ NewTunnel.copier[d] = "off"
        /\ ~NewTunnel.clean[d]
    BY <1>1
  <2>2. PassedOn(NewTunnel, d)
    BY <2>1 DEF PassedOn
  <2>3. Counted(NewTunnel, d)
    BY <1>1, <2>1 DEF Counted, OpenPcs
  <2> QED BY <2>2, <2>3
<1>4. ResultsInv(NewTunnel)
  BY <1>1 DEF ResultsInv
<1> QED BY <1>2, <1>3, <1>4 DEF SpliceInv

(* The process starts with it. *)
LEMMA TunnelInit == Init => TunnelInv
<1> SUFFICES ASSUME Init PROVE TunnelInv
  OBVIOUS
<1>1. ProcessTypeOK /\ ConfigInv
  BY DEF Init, ProcessInit, ProcessTypeOK, ConfigInv
<1>2. TunnelsInv
  <2>1. NewTunnel \in Tunnel
    BY NewTunnelInv DEF SpliceInv
  <2> QED BY <2>1, NewTunnelInv DEF Init, TunnelsInv
<1>3. GaugeInv
  <2>1. OpenTunnels = {}
    <3>1. NewTunnel.pc = "free"
      BY DEF NewTunnel
    <3> QED BY <3>1 DEF OpenTunnels, Init, OpenPcs
  <2> QED BY <2>1, FS_EmptySet DEF GaugeInv, Init
<1> QED BY <1>1, <1>2, <1>3 DEF TunnelInv

(* A step of one tunnel keeps all of them, and the gauge. *)
LEMMA MovesKeep ==
  ASSUME TunnelsInv, GaugeInv, NEW t \in Tunnels, Moves(t)
  PROVE  TunnelsInv' /\ GaugeInv'
<1>1. PICK v : SpliceInv(v) /\ tunnel' = [tunnel EXCEPT ![t] = v] /\ Metered(t, v)
  BY DEF Moves
<1>2. TunnelsInv'
  <2>1. v \in Tunnel
    BY <1>1 DEF SpliceInv
  <2>2. tunnel' \in [Tunnels -> Tunnel]
    BY <1>1, <2>1 DEF TunnelsInv
  <2>3. ASSUME NEW s \in Tunnels PROVE SpliceInv(tunnel'[s])
    BY <1>1 DEF TunnelsInv
  <2> QED BY <2>2, <2>3 DEF TunnelsInv
<1>3. IsFiniteSet(OpenTunnels)
  BY TunnelAssumption, FS_Subset DEF OpenTunnels
<1>4. \A s \in Tunnels : tunnel'[s].pc = IF s = t THEN v.pc ELSE tunnel[s].pc
  BY <1>1 DEF TunnelsInv
<1>5. GaugeInv'
  <2>1. CASE (v.pc \in OpenPcs) = (tunnel[t].pc \in OpenPcs) /\ gauge' = gauge
    <3>1. OpenTunnels' = OpenTunnels
      BY <1>4, <2>1 DEF OpenTunnels
    <3> QED BY <2>1, <3>1 DEF GaugeInv
  <2>2. CASE v.pc \in OpenPcs /\ tunnel[t].pc \notin OpenPcs /\ gauge' = gauge + 1
    <3>1. OpenTunnels' = OpenTunnels \cup {t} /\ t \notin OpenTunnels
      BY <1>4, <2>2 DEF OpenTunnels
    <3>2. Cardinality(OpenTunnels') = Cardinality(OpenTunnels) + 1
      BY <1>3, <3>1, FS_AddElement
    <3> QED BY <2>2, <3>2 DEF GaugeInv
  <2>3. CASE v.pc \notin OpenPcs /\ tunnel[t].pc \in OpenPcs /\ gauge' = gauge - 1
    <3>1. OpenTunnels' = OpenTunnels \ {t} /\ t \in OpenTunnels
      BY <1>4, <2>3 DEF OpenTunnels
    <3>2. Cardinality(OpenTunnels') = Cardinality(OpenTunnels) - 1
      BY <1>3, <3>1, FS_RemoveElement
    <3>3. Cardinality(OpenTunnels') \in Nat
      BY <1>3, <3>1, FS_RemoveElement, FS_CardinalityType
    <3> QED BY <2>3, <3>2, <3>3 DEF GaugeInv
  <2> QED BY <1>1, <2>1, <2>2, <2>3 DEF Metered
<1> QED BY <1>2, <1>5

(* A step of the process keeps the invariant. *)
LEMMA ProcessKeeps ==
  ASSUME TunnelInv, ProcessStep
  PROVE  TunnelInv'
<1> USE DEF TunnelInv
<1>1. TunnelsInv' /\ GaugeInv'
  BY DEF ProcessStep, TunnelsInv, GaugeInv, OpenTunnels
<1>2. ProcessTypeOK' /\ ConfigInv'
  <2> USE DEF ProcessTypeOK, ConfigInv, Ended
  <2>1. CASE LoadConfig
    BY <2>1 DEF LoadConfig
  <2>2. CASE BuildComponents
    BY <2>2 DEF BuildComponents
  <2>3. CASE ReconcileReturns
    BY <2>3 DEF ReconcileReturns
  <2>4. CASE ReaperPanics
    BY <2>4 DEF ReaperPanics
  <2>5. CASE InformerStops
    BY <2>5 DEF InformerStops
  <2>6. CASE DataListener
    BY <2>6 DEF DataListener
  <2>7. CASE MgmtFails
    BY <2>7 DEF MgmtFails
  <2>8. CASE Signal
    BY <2>8 DEF Signal
  <2>9. CASE ShutdownStep
    BY <2>9 DEF ShutdownStep, Shutdown, Drained, DrainExpires, Exit
  <2> QED BY <2>1, <2>2, <2>3, <2>4, <2>5, <2>6, <2>7, <2>8, <2>9 DEF ProcessStep
<1> QED BY <1>1, <1>2

(* Every step keeps the invariant. *)
LEMMA TunnelStep == TunnelInv /\ [Next]_vars => TunnelInv'
<1> SUFFICES ASSUME TunnelInv, [Next]_vars PROVE TunnelInv'
  OBVIOUS
<1>1. CASE UNCHANGED vars
  BY <1>1 DEF vars, processVars, TunnelInv, ProcessTypeOK, ConfigInv, TunnelsInv, GaugeInv,
              OpenTunnels
<1>2. CASE ProcessStep
  BY <1>2, ProcessKeeps
<1>3. ASSUME NEW t \in Tunnels, Moves(t), UNCHANGED processVars PROVE TunnelInv'
  <2>1. TunnelsInv' /\ GaugeInv'
    BY <1>3, MovesKeep DEF TunnelInv
  <2> QED BY <1>3, <2>1 DEF TunnelInv, processVars, ProcessTypeOK, ConfigInv
<1>4. ASSUME NEW t \in Tunnels,
             \/ Accept(t) \/ UpgradeAnswered(t) \/ Hijack(t) \/ WriteHandshake(t)
             \/ HandlerStep(t)
      PROVE  TunnelInv'
  <2>1. Moves(t)
    BY <1>4, SetupMoves, BufferedMoves, OpenMoves, HandlerMoves DEF HandlerStep, TunnelInv
  <2>2. UNCHANGED processVars
    BY <1>4 DEF Accept, UpgradeAnswered, Hijack, WriteHandshake, HandlerStep, OpenTunnel,
                FirstResult, CloseBoth, SecondResult, Account
  <2> QED BY <1>3, <2>1, <2>2
<1>5. ASSUME NEW t \in Tunnels, NEW d \in Dirs,
             CopierStep(t, d) \/ WriteByte(t, d) \/ PeerActs(t, d)
      PROVE  TunnelInv'
  <2>1. Moves(t)
    BY <1>5, ReadMoves, WriteMoves, CopierMoves, SendMoves, PeerMoves
    DEF CopierStep, TunnelInv
  <2>2. UNCHANGED processVars
    BY <1>5 DEF CopierStep, ReadByte, WriteByte, DrainEnds, CopyEnds, SendResult, PeerActs
  <2> QED BY <1>3, <2>1, <2>2
<1> QED BY <1>1, <1>2, <1>4, <1>5 DEF Next

(* So it always holds. *)
LEMMA TunnelInvariant == Spec => []TunnelInv
BY TunnelInit, TunnelStep, PTL DEF Spec

(* The tunnels, the process and the gauge always have their types; in      *)
(* particular no more than two results are ever in errc and the gauge      *)
(* never goes below zero.                                                  *)
THEOREM TypeCorrect == Spec => []TypeOK
<1>1. TunnelInv => TypeOK
  BY DEF TunnelInv, TypeOK, TunnelsInv, GaugeInv
<1> QED BY <1>1, TunnelInvariant, PTL

(* A tunnel that ended has reported exactly the bytes it wrote, in each    *)
(* direction, and the gauge is the number of tunnels that are spliced, for *)
(* any number of tunnels that open and end in any order (proxy.go:360).    *)
THEOREM AccountingIsExact == Spec => []AccountingExact
<1>1. TunnelInv => AccountingExact
  <2> SUFFICES ASSUME TunnelInv PROVE AccountingExact
    OBVIOUS
  <2>1. ASSUME NEW t \in Tunnels, tunnel[t].pc = "ended", NEW d \in Dirs
        PROVE  tunnel[t].added[d] = Len(tunnel[t].out[d])
    <3> DEFINE u == tunnel[t]
    <3>1. u \in Tunnel /\ PassedOn(u, d) /\ Counted(u, d) /\ u.pc = "ended"
      BY <2>1 DEF TunnelInv, TunnelsInv, SpliceInv
    <3> HIDE DEF u
    <3>2. u.added[d] = u.total[d] /\ u.n[d] = 0
      BY <3>1 DEF Counted
    <3>3. /\ u.total[d] + u.n[d] + u.held[d] = u.pos[d]
          /\ Len(u.out[d]) + u.held[d] = u.pos[d]
      BY <3>1 DEF PassedOn, Counted
    <3>4. u.total[d] \in Nat /\ u.held[d] \in Nat /\ u.out[d] \in Seq(1..MaxBytes)
      BY <3>1, Fields, NumberFields
    <3>5. Len(u.out[d]) \in Nat
      BY <3>4
    <3>6. u.added[d] = Len(u.out[d])
      BY <3>2, <3>3, <3>4, <3>5
    <3> QED BY <3>6 DEF u
  <2> QED BY <2>1 DEF AccountingExact, TunnelInv, GaugeInv, OpenTunnels
<1> QED BY <1>1, TunnelInvariant, PTL

(* In each direction the bytes written are the first ones sent, in order,  *)
(* none of them twice, the ones read with the headers included; a copy     *)
(* that ended at the end of its source wrote all of them (proxy.go:337).   *)
THEOREM StreamsStayIntact == Spec => []StreamsIntact
<1>1. TunnelInv => StreamsIntact
  <2> SUFFICES ASSUME TunnelInv, NEW t \in Tunnels, NEW d \in Dirs
               PROVE  LET u == tunnel[t] IN
                      /\ u.out[d] = [i \in 1..Len(u.out[d]) |-> i]
                      /\ u.clean[d] => Len(u.out[d]) = u.sent[d]
    BY DEF StreamsIntact
  <2>1. tunnel[t] \in Tunnel /\ PassedOn(tunnel[t], d)
    BY DEF TunnelInv, TunnelsInv, SpliceInv
  <2>2. tunnel[t].out[d] \in Seq(1..MaxBytes)
    BY <2>1, Fields
  <2>3. Len(tunnel[t].out[d]) \in Nat
    BY <2>2
  <2> QED BY <2>1, <2>2, <2>3 DEF PassedOn
<1> QED BY <1>1, TunnelInvariant, PTL

(* What parsePort lets through. *)
LEMMA PortRange ==
  ASSUME NEW p \in Numbers \cup {None}
  PROVE  /\ parsePort(p, FALSE) => p \in 1..MaxPort
         /\ parsePort(p, TRUE) => p = 0 \/ p \in 1..MaxPort
<1>1. MaxPort \in Int
  BY DEF MaxPort
<1>2. ASSUME NEW b, parsePort(p, b) PROVE p \in Int
  BY <1>2, ProcessAssumption, Zenon DEF parsePort
<1> QED BY <1>1, <1>2 DEF parsePort

(* Whatever the environment says, a process that gets past FromEnv has a   *)
(* backend run knows, and the ports it will dial are ports                 *)
(* (config.go:203).                                                        *)
THEOREM ConfigIsUsable == Spec => []ConfigUsable
<1>1. ASSUME TunnelInv, proc \in {"backend", "reconcile"}
      PROVE  /\ env.backend \in Kinds
             /\ env.backend # "substrate" => DialledPorts(env) \subseteq 1..MaxPort
  <2>1. env \in Environment /\ Accepted(env)
    BY <1>1 DEF TunnelInv, ConfigInv
  <2>2. env.port \in Numbers \cup {None} /\ env.mcpPort \in Numbers \cup {None}
    BY <2>1 DEF Environment
  <2>3. parsePort(env.port, FALSE) /\ parsePort(env.mcpPort, TRUE) /\ env.backend \in Kinds
    BY <2>1 DEF Accepted
  <2>4. env.port \in 1..MaxPort /\ (env.mcpPort # 0 => env.mcpPort \in 1..MaxPort)
    BY <2>2, <2>3, PortRange, Zenon
  <2>5. ASSUME NEW p \in DialledPorts(env), env.backend # "substrate"
        PROVE  p = env.port \/ (p = env.mcpPort /\ env.mcpPort # 0)
    BY <2>5, Zenon DEF DialledPorts
  <2> QED BY <2>3, <2>4, <2>5, Zenon
<1>2. TunnelInv => ConfigUsable
  BY <1>1 DEF ConfigUsable
<1> QED BY <1>2, TunnelInvariant, PTL
=============================================================================
