-------------------------- MODULE TcpClient_proofs --------------------------
(***************************************************************************)
(* Proofs about the TCP client of lab2, for every number of bytes, of      *)
(* connections and of segments under way.                                  *)
(*                                                                         *)
(* The numbers of the two directions have two bounds.  What the client     *)
(* sends on a socket is numbered without a gap up to its first FIN; behind *)
(* that number g nothing is in sequence for a server that has not taken    *)
(* the FIN.  What the server sends on its current connection lies between  *)
(* Iss and SndNxt(peer); everything older lies below Iss.                  *)
(***************************************************************************)
EXTENDS TcpClient, TLAPS

SegType == [flags : {"SYN", "SYNACK", "ACK", "FIN"}, seq : Nat, ack : Nat,
            data : Seq(Nat)]
TcbType == [used : BOOLEAN, remote : BOOLEAN, seq : Nat, ack : Nat,
            state : {"CLOSED", "SYN_SENT", "ESTABLISHED", "FIN_WAIT1", "FIN_WAIT2"}]
PeerType == [st : {"LISTEN", "SYN_RCVD", "ESTAB"}, opens : Nat, rcv : Nat,
             got : Seq(Nat), said : 0..MaxSaid, finGot : BOOLEAN, finSent : BOOLEAN]

TypeInv ==
  /\ tcb \in [Slots -> TcbType] /\ peer \in PeerType
  /\ call \in [waits : 0..2, closes : {0} \cup Slots]
  /\ toPeer \subseteq SegType /\ toClient \subseteq SegType
  /\ sent \in Nat /\ taken \in Seq(Nat)

(* Consecutive bytes from byte a on. *)
Run(s, a) == \A k \in 1..Len(s) : s[k] = a + k - 1

(* get_socket finds slot 1 only: nothing happens to the others. *)
SlotInv ==
  /\ \A s \in Slots : s # 1 => tcb[s].state = "CLOSED"
  /\ tcb[1].state # "CLOSED" => tcb[1].seq > ISN
  /\ tcb[1].used => tcb[1].seq >= ISN

InConnection == tcb[1].state \in {"ESTABLISHED", "FIN_WAIT1", "FIN_WAIT2"}

-----------------------------------------------------------------------------
(* The client's direction, up to g. *)
Early(m) == m.flags \in {"SYN", "FIN"} /\ m.seq = ISN
Plain(m, g) ==
  /\ m.flags = "ACK" /\ m.seq > ISN
  /\ Run(m.data, m.seq - ISN) /\ m.seq + Len(m.data) <= g
Behind(m, g) == m.flags # "SYN" /\ (m.seq > g \/ (m.flags = "FIN" /\ m.seq = g))
NoDataBut == \A m \in toPeer : m.flags # "ACK" => m.data = <<>>

(* Is the server's connection one of this socket? *)
Current ==
  \/ peer.st = "SYN_RCVD"
  \/ tcb[1].ack > Iss
  \/ \E m \in toClient : m.flags = "SYNACK" /\ m.seq = Iss

Received(g) ==
  /\ Run(peer.got, 1) /\ ISN + 1 + Len(peer.got) <= g
  /\ peer.rcv = ISN + 1 + Len(peer.got) + (IF peer.finGot THEN 1 ELSE 0)

(* No FIN was sent after the first number; ... *)
Unclosed ==
  LET g == IF tcb[1].seq <= ISN THEN ISN + 1 ELSE tcb[1].seq
  IN  /\ g = ISN + 1 + sent
      /\ tcb[1].state \notin {"FIN_WAIT1", "FIN_WAIT2"}
      /\ tcb[1].state = "CLOSED" => tcb[1].seq <= ISN
      /\ \A m \in toPeer : Early(m) \/ Plain(m, g)
      /\ Current => Received(g) /\ ~peer.finGot

(* ... or g was the first of them. *)
ClosedAt(g) ==
  /\ ISN < g /\ g <= ISN + 1 + sent
  /\ tcb[1].seq > g /\ tcb[1].seq >= ISN + 2 + sent
  /\ \A m \in toPeer : Early(m) \/ Plain(m, g) \/ Behind(m, g)
  /\ Current => Received(g)
  /\ Current /\ peer.finGot => peer.rcv = g + 1

SendInv == Unclosed \/ \E g \in ISN..tcb[1].seq : ClosedAt(g)

-----------------------------------------------------------------------------
(* The server's direction. *)
Old(m) == m.seq + Len(m.data) + (IF m.flags = "ACK" THEN 1 ELSE 2) <= Iss
Answer(m) ==
  /\ m.ack <= peer.rcv
  /\ \/ m.flags = "SYNACK" /\ m.seq = Iss
     \/ /\ m.flags = "ACK" /\ m.seq > Iss
        /\ m.data # <<>> => m.seq + Len(m.data) <= Iss + 1 + peer.said
        /\ m.seq <= SndNxt(peer) /\ Run(m.data, m.seq - Iss)
     \/ m.flags = "FIN" /\ m.seq = Iss + 1 + peer.said /\ peer.finSent

AnswerInv ==
  /\ \A m \in toClient : Old(m) \/ Answer(m)
  /\ \A m \in toClient : m.flags # "ACK" => m.data = <<>>
  /\ tcb[1].ack < Iss \/ tcb[1].ack \in {0} \cup (Iss + 1)..SndNxt(peer)
  /\ peer.st = "SYN_RCVD" => peer.got = <<>> /\ ~peer.finGot /\ peer.rcv = ISN + 1

TakenInv ==
  InConnection /\ tcb[1].ack > Iss =>
    /\ Run(taken, 1) /\ Len(taken) <= peer.said
    /\ tcb[1].ack = Iss + 1 + Len(taken)

IInv == TypeInv /\ SlotInv /\ NoDataBut /\ SendInv /\ AnswerInv /\ TakenInv

-----------------------------------------------------------------------------
(* Numbers of the server. *)
LEMMA Product == ASSUME NEW a \in Nat, NEW b \in Nat
                 PROVE  a * b \in Nat /\ (a + 1) * b = a * b + b
OBVIOUS

LEMMA IssNumber ==
  ASSUME TypeInv
  PROVE  /\ Iss \in Nat
         /\ SndNxt(peer) = Iss + 1 + peer.said + (IF peer.finSent THEN 1 ELSE 0)
         /\ SndNxt(peer) \in Nat /\ peer.said <= MaxSaid /\ peer.said \in Nat
<1>1. peer.opens \in Nat /\ peer.said \in 0..MaxSaid /\ peer.finSent \in BOOLEAN
  BY DEF TypeInv, PeerType
<1>2. Iss \in Nat
  BY <1>1, Product, TcpConstants DEF Iss
<1>3. SndNxt(peer) = Iss + 1 + peer.said + (IF peer.finSent THEN 1 ELSE 0)
  BY DEF Iss, SndNxt
<1> QED BY <1>1, <1>2, <1>3, TcpConstants

LEMMA SameIss ==
  ASSUME peer'.opens = peer.opens
  PROVE  Iss' = Iss
BY DEF Iss

(* Bytes. *)
LEMMA BytesRun ==
  ASSUME NEW a \in Nat, NEW b \in Nat, a <= b + 1
  PROVE  /\ Bytes(a, b) \in Seq(Nat) /\ Len(Bytes(a, b)) = b + 1 - a
         /\ Run(Bytes(a, b), a)
<1>1. b + 1 - a \in Nat
  OBVIOUS
<1>2. \A k \in 1..(b + 1 - a) : a + k - 1 \in Nat
  OBVIOUS
<1>3. Bytes(a, b) \in Seq(Nat) /\ Len(Bytes(a, b)) = b + 1 - a
  BY <1>1, <1>2 DEF Bytes
<1> QED BY <1>3 DEF Bytes, Run

LEMMA RunConcat ==
  ASSUME NEW s \in Seq(Nat), NEW t \in Seq(Nat), Run(s, 1), Run(t, Len(s) + 1)
  PROVE  /\ s \o t \in Seq(Nat) /\ Len(s \o t) = Len(s) + Len(t)
         /\ Run(s \o t, 1)
<1>1. /\ s \o t \in Seq(Nat) /\ Len(s \o t) = Len(s) + Len(t)
      /\ Len(s) \in Nat /\ Len(t) \in Nat
      /\ \A k \in 1..Len(s) : (s \o t)[k] = s[k]
      /\ \A k \in (Len(s) + 1)..(Len(s) + Len(t)) : (s \o t)[k] = t[k - Len(s)]
  OBVIOUS
<1>2. ASSUME NEW k \in 1..(Len(s) + Len(t)) PROVE (s \o t)[k] = k
  <2>1. CASE k <= Len(s)
    BY <1>1, <2>1 DEF Run
  <2>2. CASE k > Len(s)
    <3>1. k - Len(s) \in 1..Len(t) /\ k \in (Len(s) + 1)..(Len(s) + Len(t))
      BY <1>1, <2>2
    <3> QED BY <1>1, <3>1 DEF Run
  <2> QED BY <1>1, <2>1, <2>2
<1> QED BY <1>1, <1>2 DEF Run

LEMMA RunIsBytes ==
  ASSUME NEW s \in Seq(Nat), Run(s, 1)
  PROVE  s = Bytes(1, Len(s))
<1>1. Len(s) \in Nat /\ 1 \in Nat /\ 1 <= Len(s) + 1 /\ Len(s) + 1 - 1 = Len(s)
  OBVIOUS
<1>2. /\ Bytes(1, Len(s)) \in Seq(Nat) /\ Len(Bytes(1, Len(s))) = Len(s) + 1 - 1
      /\ Run(Bytes(1, Len(s)), 1)
  BY <1>1, BytesRun
<1>3. \A k \in 1..Len(s) : s[k] = Bytes(1, Len(s))[k]
  BY <1>2 DEF Run
<1> QED BY <1>1, <1>2, <1>3

(* Segments. *)
LEMMA CarryOK ==
  ASSUME NEW net, NEW m, NEW n \in Carry(net, m)
  PROVE  n \subseteq net \cup {m}
BY DEF Carry

LEMMA SegOK ==
  ASSUME NEW f \in {"SYN", "SYNACK", "ACK", "FIN"}, NEW q \in Nat, NEW a \in Nat,
         NEW d \in Seq(Nat)
  PROVE  /\ Seg(f, q, a, d) \in SegType
         /\ Seg(f, q, a, d).flags = f /\ Seg(f, q, a, d).seq = q
         /\ Seg(f, q, a, d).ack = a /\ Seg(f, q, a, d).data = d
BY DEF Seg, SegType

-----------------------------------------------------------------------------
LEMMA InitInv == Init => IInv
<1> SUFFICES ASSUME Init PROVE IInv
  OBVIOUS
<1> USE TcpConstants DEF Init
<1>1. TypeInv
  <2>1. tcb \in [Slots -> TcbType]
    BY DEF FreeTcb, TcbType
  <2>2. peer \in PeerType /\ call \in [waits : 0..2, closes : {0} \cup Slots]
    BY DEF PeerType, Idle
  <2> QED BY <2>1, <2>2 DEF TypeInv
<1>2. 1 \in Slots /\ Iss = 0
  BY DEF Slots, Iss
<1>3. tcb[1] = FreeTcb
  BY <1>2
<1>4. SlotInv
  BY <1>3 DEF SlotInv, FreeTcb
<1>5. ~Current
  BY <1>2, <1>3 DEF Current, FreeTcb
<1>6. SendInv
  BY <1>3, <1>5 DEF SendInv, Unclosed, FreeTcb
<1>7. NoDataBut /\ AnswerInv /\ TakenInv
  BY <1>2, <1>3 DEF NoDataBut, AnswerInv, TakenInv, InConnection, FreeTcb
<1> QED BY <1>1, <1>4, <1>6, <1>7 DEF IInv

(***************************************************************************)
(* A step that changes nothing the invariant speaks of but types and flags *)
(* of the slots.                                                           *)
(***************************************************************************)
LEMMA QuietStep ==
  ASSUME IInv, tcb' \in [Slots -> TcbType],
         call' \in [waits : 0..2, closes : {0} \cup Slots],
         \A q \in Slots : tcb'[q].state = tcb[q].state,
         tcb'[1].seq = tcb[1].seq, tcb'[1].ack = tcb[1].ack,
         tcb'[1].used => tcb[1].used,
         UNCHANGED <<toPeer, toClient, peer, sent, taken>>
  PROVE  IInv'
<1> 1 \in Slots
  BY TcpConstants DEF Slots
<1>1. TypeInv' /\ SlotInv' /\ NoDataBut'
  BY DEF IInv, TypeInv, SlotInv, NoDataBut
<1>2. Iss' = Iss /\ SndNxt(peer)' = SndNxt(peer)
  BY DEF Iss, SndNxt
<1>3. Current' = Current
  BY <1>2 DEF Current
<1>4. \A g : Received(g)' = Received(g)
  BY DEF Received
<1>5. Unclosed' = Unclosed
  BY <1>3, <1>4 DEF Unclosed, Early, Plain
<1>6. \A g : ClosedAt(g)' = ClosedAt(g)
  BY <1>3, <1>4 DEF ClosedAt, Early, Plain, Behind
<1>7. SendInv'
  BY <1>5, <1>6 DEF IInv, SendInv
<1>8. AnswerInv' /\ TakenInv'
  BY <1>2 DEF IInv, AnswerInv, TakenInv, InConnection, Old, Answer
<1> QED BY <1>1, <1>7, <1>8 DEF IInv

LEMMA TimeoutInv == ASSUME IInv, Timeout PROVE IInv'
<1>1. tcb \in [Slots -> TcbType] /\ call' \in [waits : 0..2, closes : {0} \cup Slots]
  BY DEF IInv, TypeInv, Timeout, Idle
<1> QED BY <1>1, QuietStep DEF Timeout

(* What GoOn and Freed do. *)
LEMMA GoOnOK ==
  ASSUME TypeInv, call # Idle, GoOn
  PROVE  call' \in [waits : 0..2, closes : {0} \cup Slots]
BY DEF TypeInv, GoOn, Idle

LEMMA FreedOK ==
  ASSUME TypeInv, NEW t \in [Slots -> TcbType]
  PROVE  /\ Freed(t) \in [Slots -> TcbType]
         /\ \A q \in Slots : /\ Freed(t)[q].state = t[q].state
                             /\ Freed(t)[q].seq = t[q].seq
                             /\ Freed(t)[q].ack = t[q].ack
                             /\ Freed(t)[q].used => t[q].used
<1>1. CASE call.closes # 0 /\ call.waits = 1
  <2>1. call.closes \in Slots
    BY <1>1 DEF TypeInv
  <2>2. Freed(t) = [t EXCEPT ![call.closes] = [t[call.closes] EXCEPT !.used = FALSE]]
    BY <1>1 DEF Freed
  <2>3. [t[call.closes] EXCEPT !.used = FALSE] \in TcbType
    BY <2>1 DEF TcbType
  <2> QED BY <2>1, <2>2, <2>3 DEF TcbType
<1>2. CASE ~(call.closes # 0 /\ call.waits = 1)
  BY <1>2 DEF Freed
<1> QED BY <1>1, <1>2

LEMMA TakeBadInv == ASSUME IInv, TakeBad PROVE IInv'
<1>1. /\ TypeInv /\ tcb \in [Slots -> TcbType] /\ tcb' = Freed(tcb) /\ call # Idle /\ GoOn
      /\ 1 \in Slots
  BY TcpConstants DEF IInv, TypeInv, TakeBad, Slots
<1>2. call' \in [waits : 0..2, closes : {0} \cup Slots]
  BY <1>1, GoOnOK
<1>3. /\ tcb' \in [Slots -> TcbType]
      /\ \A q \in Slots : tcb'[q].state = tcb[q].state
      /\ tcb'[1].seq = tcb[1].seq /\ tcb'[1].ack = tcb[1].ack
      /\ tcb'[1].used => tcb[1].used
  BY <1>1, FreedOK
<1> QED BY <1>2, <1>3, QuietStep DEF TakeBad

-----------------------------------------------------------------------------
(* Steps of the client. *)
LEMMA OutputOK ==
  ASSUME TypeInv, NEW s \in Slots, NEW t \in TcbType,
         NEW flags \in {"SYN", "ACK", "FIN"}, NEW data \in Seq(Nat),
         Output(s, t, flags, data)
  PROVE  /\ tcb' \in [Slots -> TcbType] /\ toPeer' \subseteq SegType
         /\ \A q \in Slots : q # s => tcb'[q] = tcb[q]
         /\ \/ /\ tcb'[s] = t /\ toPeer' = toPeer
               /\ s # 1 \/ ~tcb[1].used \/ OutState(t.state, flags) = "error"
            \/ /\ s = 1 /\ OutState(t.state, flags) # "error"
               /\ tcb'[1] = [t EXCEPT !.state = OutState(t.state, flags),
                                      !.seq = Kick(t.seq, flags, data)]
               /\ toPeer' \subseteq toPeer \cup {Seg(flags, t.seq, t.ack, data)}
<1> DEFINE state == OutState(t.state, flags)
           u == [t EXCEPT !.state = state, !.seq = Kick(t.seq, flags, data)]
<1>0. tcb \in [Slots -> TcbType] /\ toPeer \subseteq SegType /\ t.seq \in Nat /\ t.ack \in Nat
  BY DEF TypeInv, TcbType
<1>1. CASE GetSocket(s) = s /\ state # "error"
  <2>1. s = 1
    BY <1>1, TcpConstants DEF GetSocket, Slots
  <2>2. tcb' = [tcb EXCEPT ![s] = u]
    BY <1>1 DEF Output
  <2>3. state \in {"SYN_SENT", "FIN_WAIT1", "ESTABLISHED"}
    BY <1>1 DEF OutState
  <2>4. Kick(t.seq, flags, data) \in Nat
    BY <1>0 DEF Kick
  <2>5. u \in TcbType
    BY <2>3, <2>4 DEF TcbType
  <2>6. toPeer' \subseteq toPeer \cup {Seg(flags, t.seq, t.ack, data)}
    BY <1>1, CarryOK DEF Output
  <2>7. Seg(flags, t.seq, t.ack, data) \in SegType
    BY <1>0, SegOK
  <2>8. tcb' \in [Slots -> TcbType] /\ tcb'[s] = u /\ \A q \in Slots : q # s => tcb'[q] = tcb[q]
    BY <1>0, <2>2, <2>5
  <2> QED BY <1>0, <1>1, <2>1, <2>6, <2>7, <2>8
<1>2. CASE ~(GetSocket(s) = s /\ state # "error")
  <2>1. tcb' = [tcb EXCEPT ![s] = t] /\ toPeer' = toPeer
    BY <1>2 DEF Output
  <2>2. s # 1 \/ ~tcb[1].used \/ state = "error"
    BY <1>2 DEF GetSocket
  <2> QED BY <1>0, <2>1, <2>2
<1> QED BY <1>1, <1>2

(* The server's direction, when the client changes no ack. *)
LEMMA ServerSideKept ==
  ASSUME IInv, UNCHANGED <<toClient, peer, taken>>, tcb'[1].ack = tcb[1].ack,
         InConnection' => InConnection
  PROVE  AnswerInv' /\ TakenInv' /\ (Current' <=> Current)
         /\ \A g : Received(g)' <=> Received(g)
<1>1. Iss' = Iss /\ SndNxt(peer)' = SndNxt(peer)
  BY DEF Iss, SndNxt
<1>2. AnswerInv'
  BY <1>1 DEF IInv, AnswerInv, Old, Answer
<1>3. TakenInv'
  BY <1>1 DEF IInv, TakenInv, InConnection
<1>4. Current' <=> Current
  BY <1>1 DEF Current
<1>5. \A g : Received(g)' <=> Received(g)
  BY DEF Received
<1> QED BY <1>2, <1>3, <1>4, <1>5

LEMMA SlotType == ASSUME TypeInv, NEW s \in Slots
                  PROVE  tcb[s] \in TcbType /\ tcb[1] \in TcbType /\ 1 \in Slots
BY TcpConstants DEF TypeInv, Slots

(* A call on another slot than 1 does nothing, nor one on slot 1 that ends *)
(* in an error.                                                            *)
LEMMA QuietOutput ==
  ASSUME IInv, NEW s \in Slots, NEW t \in TcbType, tcb[s].used,
         t.state = tcb[s].state, t.seq = tcb[s].seq, t.ack = tcb[s].ack,
         tcb' \in [Slots -> TcbType], \A q \in Slots : q # s => tcb'[q] = tcb[q],
         tcb'[s] = t, toPeer' = toPeer,
         call' \in [waits : 0..2, closes : {0} \cup Slots],
         UNCHANGED <<toClient, peer, sent, taken>>
  PROVE  IInv'
<1>1. /\ \A q \in Slots : tcb'[q].state = tcb[q].state
      /\ tcb'[1].seq = tcb[1].seq /\ tcb'[1].ack = tcb[1].ack
      /\ tcb'[1].used => tcb[1].used
  BY SlotType DEF IInv
<1> QED BY <1>1, QuietStep

LEMMA EnterOK ==
  ASSUME NEW w \in {1, 2}, NEW c \in {0} \cup Slots, Enter(w, c)
  PROVE  call' \in [waits : 0..2, closes : {0} \cup Slots]
BY DEF Enter

LEMMA RecvInv == ASSUME IInv, NEW s \in Slots, Recv(s) PROVE IInv'
<1>1. tcb \in [Slots -> TcbType] /\ call' \in [waits : 0..2, closes : {0} \cup Slots]
  BY EnterOK DEF IInv, TypeInv, Recv
<1> QED BY <1>1, QuietStep DEF Recv

(* What remains of the invariant when slot 1 has sent x. *)
LEMMA SentStep ==
  ASSUME IInv, NEW x \in SegType, x.flags # "ACK" => x.data = <<>>,
         tcb' \in [Slots -> TcbType], \A q \in Slots : q # 1 => tcb'[q] = tcb[q],
         tcb'[1].ack = tcb[1].ack, tcb'[1].seq > ISN,
         InConnection' => InConnection,
         toPeer' \subseteq toPeer \cup {x}, sent' \in Nat,
         call' \in [waits : 0..2, closes : {0} \cup Slots],
         UNCHANGED <<toClient, peer, taken>>
  PROVE  /\ TypeInv' /\ SlotInv' /\ NoDataBut' /\ AnswerInv' /\ TakenInv'
         /\ (Current' <=> Current) /\ \A g : Received(g)' <=> Received(g)
<1>1. TypeInv'
  BY DEF IInv, TypeInv
<1>2. SlotInv'
  BY TcpConstants, <1>1 DEF IInv, SlotInv, TypeInv, TcbType, Slots
<1>3. NoDataBut'
  BY DEF IInv, NoDataBut
<1> QED BY <1>1, <1>2, <1>3, ServerSideKept

(* An early SYN or FIN on slot 1 leaves the first number for the data. *)
LEMMA EarlyStep ==
  ASSUME IInv, NEW x \in SegType, Early(x), x.data = <<>>, tcb[1].seq = ISN,
         Unclosed, tcb'[1].seq = ISN + 1, tcb'[1].state = "SYN_SENT",
         tcb' \in [Slots -> TcbType], \A q \in Slots : q # 1 => tcb'[q] = tcb[q],
         tcb'[1].ack = tcb[1].ack, toPeer' \subseteq toPeer \cup {x},
         call' \in [waits : 0..2, closes : {0} \cup Slots],
         UNCHANGED <<toClient, peer, sent, taken>>
  PROVE  IInv'
<1>1. sent' \in Nat /\ ISN + 1 > ISN /\ (InConnection' => InConnection)
  BY TcpConstants DEF IInv, TypeInv, InConnection
<1>2. /\ TypeInv' /\ SlotInv' /\ NoDataBut' /\ AnswerInv' /\ TakenInv'
      /\ (Current' <=> Current) /\ \A g : Received(g)' <=> Received(g)
  BY <1>1, SentStep
<1>3. /\ ISN + 1 = ISN + 1 + sent
      /\ \A m \in toPeer : Early(m) \/ Plain(m, ISN + 1)
      /\ Current => Received(ISN + 1) /\ ~peer.finGot
  BY TcpConstants DEF Unclosed
<1>4. Unclosed'
  BY TcpConstants, <1>2, <1>3 DEF Unclosed, Early, Plain
<1> QED BY <1>2, <1>4 DEF IInv, SendInv

(* What slot 1 sends behind g leaves everything up to g as it was. *)
LEMMA BehindStep ==
  ASSUME IInv, NEW x \in SegType, x.flags # "ACK" => x.data = <<>>,
         NEW g \in ISN..tcb[1].seq, ClosedAt(g),
         x.flags # "SYN", x.seq = tcb[1].seq,
         tcb'[1].seq >= tcb[1].seq + (sent' - sent), sent' \in Nat, sent' >= sent,
         InConnection' => InConnection,
         tcb' \in [Slots -> TcbType], \A q \in Slots : q # 1 => tcb'[q] = tcb[q],
         tcb'[1].ack = tcb[1].ack, toPeer' \subseteq toPeer \cup {x},
         call' \in [waits : 0..2, closes : {0} \cup Slots],
         UNCHANGED <<toClient, peer, taken>>
  PROVE  IInv'
<1>0. 1 \in Slots
  BY TcpConstants DEF Slots
<1>1. /\ tcb[1].seq \in Nat /\ tcb'[1].seq \in Nat /\ sent \in Nat /\ ISN \in Nat
      /\ g \in Nat
  BY <1>0, TcpConstants DEF IInv, TypeInv, TcbType
<1>2. ISN < g /\ tcb[1].seq > g
  BY DEF ClosedAt
<1>3. tcb'[1].seq > ISN /\ tcb'[1].seq > g /\ g \in ISN..tcb'[1].seq
  BY <1>1, <1>2
<1>4. /\ TypeInv' /\ SlotInv' /\ NoDataBut' /\ AnswerInv' /\ TakenInv'
      /\ (Current' <=> Current) /\ \A h : Received(h)' <=> Received(h)
  BY <1>3, SentStep
<1>5. \A m \in toPeer' : Early(m) \/ Plain(m, g) \/ Behind(m, g)
  BY <1>2 DEF ClosedAt, Behind
<1>6. g <= ISN + 1 + sent' /\ tcb'[1].seq >= ISN + 2 + sent'
  BY <1>1 DEF ClosedAt
<1>7. ClosedAt(g)'
  BY <1>2, <1>3, <1>4, <1>5, <1>6 DEF ClosedAt, Early, Plain, Behind
<1> QED BY <1>3, <1>4, <1>7 DEF IInv, SendInv

LEMMA ConnectInv == ASSUME IInv, NEW s \in Slots, Connect(s) PROVE IInv'
<1> DEFINE t == [tcb[s] EXCEPT !.remote = TRUE]
           x == Seg("SYN", t.seq, t.ack, <<>>)
<1>1. /\ TypeInv /\ tcb[s].used /\ Output(s, t, "SYN", <<>>) /\ <<>> \in Seq(Nat)
      /\ (tcb[s].seq = ISN \/ tcb[s].state = "SYN_SENT")
      /\ UNCHANGED <<toClient, peer, sent, taken>> /\ Enter(1, 0)
  BY DEF Connect, Held, IInv
<1>2. tcb[s] \in TcbType /\ tcb[1] \in TcbType
  BY <1>1, SlotType
<1>3. /\ t \in TcbType /\ t.state = tcb[s].state /\ t.seq = tcb[s].seq
      /\ t.ack = tcb[s].ack
  BY <1>2 DEF TcbType
<1>4. call' \in [waits : 0..2, closes : {0} \cup Slots]
  BY <1>1, EnterOK
<1>5. /\ tcb' \in [Slots -> TcbType] /\ toPeer' \subseteq SegType
      /\ \A q \in Slots : q # s => tcb'[q] = tcb[q]
      /\ \/ /\ tcb'[s] = t /\ toPeer' = toPeer
            /\ s # 1 \/ ~tcb[1].used \/ OutState(t.state, "SYN") = "error"
         \/ /\ s = 1 /\ OutState(t.state, "SYN") # "error"
            /\ tcb'[1] = [t EXCEPT !.state = OutState(t.state, "SYN"),
                                   !.seq = Kick(t.seq, "SYN", <<>>)]
            /\ toPeer' \subseteq toPeer \cup {x}
  BY <1>1, <1>3, OutputOK, Zenon
<1>6. CASE tcb'[s] = t /\ toPeer' = toPeer
  BY <1>1, <1>3, <1>4, <1>5, <1>6, QuietOutput
<1>7. CASE /\ s = 1 /\ OutState(t.state, "SYN") # "error"
           /\ tcb'[1] = [t EXCEPT !.state = OutState(t.state, "SYN"),
                                  !.seq = Kick(t.seq, "SYN", <<>>)]
           /\ toPeer' \subseteq toPeer \cup {x}
  <2>1. tcb[1].state # "SYN_SENT"
    BY <1>3, <1>7 DEF OutState
  <2>2. tcb[1].seq = ISN /\ tcb[1].state = "CLOSED"
    BY <1>1, <1>2, <1>7, <2>1, TcpConstants DEF IInv, SlotInv
  <2>3. Unclosed
    BY <2>2, TcpConstants, <1>2 DEF IInv, SendInv, ClosedAt, TcbType
  <2>4. /\ tcb'[1].seq = ISN + 1 /\ tcb'[1].state = "SYN_SENT"
        /\ tcb'[1].ack = tcb[1].ack
    BY <1>3, <1>7, <2>2 DEF OutState, Kick, TcbType
  <2>5. x \in SegType /\ Early(x) /\ x.data = <<>>
    <3>1. t.seq = ISN /\ t.seq \in Nat /\ t.ack \in Nat
      BY <1>3, <1>7, <2>2, TcpConstants DEF TcbType
    <3>2. <<>> \in Seq(Nat)
      OBVIOUS
    <3> HIDE DEF t
    <3>3. x \in SegType /\ x.flags = "SYN" /\ x.seq = ISN /\ x.data = <<>>
      BY <3>1, <3>2 DEF Seg, SegType
    <3> QED BY <3>3 DEF Early
  <2> QED BY <1>1, <1>4, <1>5, <1>7, <2>2, <2>3, <2>4, <2>5, EarlyStep
<1> QED BY <1>5, <1>6, <1>7

LEMMA SendStepInv ==
  ASSUME IInv, NEW s \in Slots, NEW n \in 1..MaxSent, Send(s, n)
  PROVE  IInv'
<1> DEFINE t == tcb[s]
           d == Bytes(sent + 1, sent + n)
           x == Seg("ACK", t.seq, t.ack, d)
<1>1. /\ TypeInv /\ SlotInv /\ t.used /\ t.state = "ESTABLISHED" /\ sent \in Nat /\ n \in Nat
      /\ 1 <= n /\ sent' = sent + n /\ sent' \in Nat
  BY TcpConstants DEF IInv, TypeInv, Send, Held
<1>2. s = 1 /\ t \in TcbType /\ 1 \in Slots
  BY <1>1, SlotType DEF SlotInv
<1>3. d \in Seq(Nat) /\ Len(d) = n /\ Run(d, sent + 1)
  BY <1>1, BytesRun, sent + n + 1 - (sent + 1) = n, sent + 1 \in Nat, sent + n \in Nat,
     sent + 1 <= sent + n + 1
<1>4. call' \in [waits : 0..2, closes : {0} \cup Slots]
  BY EnterOK DEF Send
<1>5. t.seq \in Nat /\ t.ack \in Nat /\ t.seq > ISN
  BY <1>1, <1>2 DEF SlotInv, TcbType
<1>6. /\ x \in SegType /\ x.flags = "ACK" /\ x.seq = t.seq /\ x.data = d
  <2> HIDE DEF t, d
  <2> QED BY <1>3, <1>5 DEF Seg, SegType
<1>7. OutState(t.state, "ACK") = "ESTABLISHED" /\ Kick(t.seq, "ACK", d) = t.seq + n
  BY <1>1, <1>3 DEF OutState, Kick
<1>8. /\ tcb' \in [Slots -> TcbType] /\ toPeer' \subseteq SegType
      /\ \A q \in Slots : q # 1 => tcb'[q] = tcb[q]
      /\ tcb'[1] = [t EXCEPT !.state = "ESTABLISHED", !.seq = t.seq + n]
      /\ toPeer' \subseteq toPeer \cup {x}
  <2> HIDE DEF d
  <2>1. Output(s, t, "ACK", d)
    BY DEF Send, d
  <2>2. /\ tcb' \in [Slots -> TcbType] /\ toPeer' \subseteq SegType
        /\ \A q \in Slots : q # s => tcb'[q] = tcb[q]
        /\ \/ /\ tcb'[s] = t /\ toPeer' = toPeer
              /\ s # 1 \/ ~tcb[1].used \/ OutState(t.state, "ACK") = "error"
           \/ /\ s = 1 /\ OutState(t.state, "ACK") # "error"
              /\ tcb'[1] = [t EXCEPT !.state = OutState(t.state, "ACK"),
                                     !.seq = Kick(t.seq, "ACK", d)]
              /\ toPeer' \subseteq toPeer \cup {x}
    BY <1>1, <1>2, <1>3, <2>1, OutputOK, Zenon
  <2> QED BY <1>1, <1>2, <1>7, <2>2
<1>9. /\ tcb'[1].state = tcb[1].state /\ tcb'[1].seq = tcb[1].seq + n
      /\ tcb'[1].ack = tcb[1].ack
  BY <1>1, <1>2, <1>8 DEF TcbType
<1>10. UNCHANGED <<toClient, peer, taken>> /\ (InConnection' => InConnection)
  BY <1>9 DEF Send, InConnection
<1>11. CASE Unclosed
  <2>0. PICK g \in Nat : g = tcb[1].seq
    BY <1>2, <1>5
  <2>1. /\ g = ISN + 1 + sent /\ tcb[1].state = "ESTABLISHED"
        /\ \A m \in toPeer : Early(m) \/ Plain(m, g)
        /\ Current => Received(g) /\ ~peer.finGot
    BY <1>1, <1>2, <1>5, <1>11, <2>0, TcpConstants DEF Unclosed
  <2>2. tcb'[1].seq > ISN
    BY <1>1, <1>2, <1>5, <1>9, TcpConstants
  <2>3. /\ TypeInv' /\ SlotInv' /\ NoDataBut' /\ AnswerInv' /\ TakenInv'
        /\ (Current' <=> Current) /\ \A h : Received(h)' <=> Received(h)
    BY <1>1, <1>4, <1>6, <1>8, <1>9, <1>10, <2>2, SentStep
  <2>4. Plain(x, g + n)
    BY <1>1, <1>2, <1>3, <1>5, <1>6, <2>0, <2>1, TcpConstants DEF Plain
  <2>5. \A m \in toPeer : Plain(m, g) => Plain(m, g + n)
    <3>1. \A m \in toPeer : m.seq \in Nat /\ Len(m.data) \in Nat
      BY <1>1 DEF TypeInv, SegType
    <3> QED BY <1>1, <2>0, <3>1 DEF Plain
  <2>6. \A m \in toPeer' : Early(m) \/ Plain(m, g + n)
    BY <1>8, <2>1, <2>4, <2>5
  <2>7. Received(g) => Received(g + n)
    <3>1. Len(peer.got) \in Nat
      BY <1>1 DEF TypeInv, PeerType
    <3>2. n \in Nat /\ ISN \in Nat
      BY <1>1, TcpConstants
    <3>3. \A l, i, k, j \in Nat : i + 1 + l <= k => i + 1 + l <= k + j
      OBVIOUS
    <3>4. ISN + 1 + Len(peer.got) <= g => ISN + 1 + Len(peer.got) <= g + n
      BY <2>0, <3>1, <3>2, <3>3
    <3> QED BY <3>4 DEF Received
  <2>8. Current' => Received(g + n)' /\ ~peer'.finGot
    BY <1>10, <2>1, <2>3, <2>7
  <2>9. g + n = ISN + 1 + sent'
    BY <1>1, <2>1, TcpConstants
  <2>10. tcb'[1].seq = g + n /\ ~(g + n <= ISN)
    BY <1>1, <1>2, <1>5, <1>9, <2>0, TcpConstants
  <2>11. Unclosed'
    BY <1>1, <1>2, <1>9, <2>6, <2>8, <2>9, <2>10 DEF Unclosed, Early, Plain
  <2> QED BY <2>3, <2>11 DEF IInv, SendInv
<1>12. CASE \E g \in ISN..tcb[1].seq : ClosedAt(g)
  <2>1. /\ tcb'[1].seq >= tcb[1].seq + (sent' - sent) /\ sent' >= sent
        /\ x.flags # "SYN" /\ (x.flags # "ACK" => x.data = <<>>)
    BY <1>1, <1>2, <1>5, <1>6, <1>9
  <2> QED BY <1>1, <1>2, <1>4, <1>6, <1>8, <1>9, <1>10, <1>12, <2>1, BehindStep
<1> QED BY <1>11, <1>12 DEF IInv, SendInv

LEMMA SocketInv == ASSUME ~Outlive, IInv, NEW s \in Slots, Socket(s) PROVE IInv'
<1> DEFINE t == [tcb[s] EXCEPT !.used = TRUE, !.state = "CLOSED", !.seq = ISN, !.ack = 0]
<1>1. /\ TypeInv /\ SlotInv /\ ISN \in Nat /\ tcb \in [Slots -> TcbType]
      /\ tcb' = [tcb EXCEPT ![s] = t]
      /\ UNCHANGED <<call, peer, taken>>
  BY TcpConstants DEF IInv, TypeInv, Socket
<1>2. tcb[s] \in TcbType /\ 1 \in Slots
  BY <1>1, SlotType
<1>3. t \in TcbType /\ t.state = "CLOSED" /\ t.seq = ISN /\ t.ack = 0
  BY <1>1, <1>2 DEF TcbType
<1>4. tcb' \in [Slots -> TcbType] /\ call' \in [waits : 0..2, closes : {0} \cup Slots]
  BY <1>1, <1>3 DEF TypeInv
<1>5. CASE s # 1
  <2>1. UNCHANGED <<toPeer, toClient, sent>>
    BY <1>5 DEF Socket
  <2>2. /\ \A q \in Slots : tcb'[q].state = tcb[q].state
        /\ tcb'[1] = tcb[1]
    BY <1>1, <1>2, <1>3, <1>5 DEF SlotInv
  <2> QED BY <1>1, <1>4, <2>1, <2>2, QuietStep
<1>6. CASE s = 1
  <2>1. toPeer' = {} /\ toClient' = {} /\ sent' = 0
    BY <1>6 DEF Socket
  <2>2. /\ tcb'[1].state = "CLOSED" /\ tcb'[1].seq = ISN /\ tcb'[1].ack = 0
        /\ \A q \in Slots : q # 1 => tcb'[q] = tcb[q]
    BY <1>1, <1>2, <1>3, <1>6
  <2>3. TypeInv'
    BY <1>1, <1>4, <2>1 DEF TypeInv
  <2>4. Iss' = Iss /\ SndNxt(peer)' = SndNxt(peer) /\ Iss \in Nat
    BY <1>1, IssNumber DEF Iss, SndNxt
  <2>5. SlotInv' /\ NoDataBut' /\ TakenInv'
    BY <1>1, <2>1, <2>2 DEF SlotInv, NoDataBut, TakenInv, InConnection
  <2>6. AnswerInv'
    BY <1>1, <2>1, <2>2 DEF IInv, AnswerInv
  <2>7. Current' => peer.st = "SYN_RCVD"
    BY <1>1, <2>1, <2>2, <2>4 DEF Current
  <2>8. peer.st = "SYN_RCVD" => Received(ISN + 1) /\ ~peer.finGot
    BY <1>1 DEF IInv, AnswerInv, Received, Run
  <2>9. Received(ISN + 1)' <=> Received(ISN + 1)
    BY <1>1 DEF Received
  <2>10. Unclosed'
    BY <1>1, <2>1, <2>2, <2>7, <2>8, <2>9 DEF Unclosed
  <2> QED BY <2>3, <2>5, <2>6, <2>10 DEF IInv, SendInv
<1> QED BY <1>5, <1>6

LEMMA CloseInv == ASSUME IInv, NEW s \in Slots, Close(s) PROVE IInv'
<1> DEFINE t == tcb[s]
           x == Seg("FIN", t.seq, t.ack, <<>>)
<1>1. /\ TypeInv /\ SlotInv /\ t.used /\ UNCHANGED <<toClient, peer, sent, taken>>
      /\ sent \in Nat /\ ISN \in Nat
  BY TcpConstants DEF IInv, TypeInv, Close, Held
<1>2. t \in TcbType /\ 1 \in Slots
  BY <1>1, SlotType
<1>3. call' \in [waits : 0..2, closes : {0} \cup Slots]
  BY EnterOK DEF Close
<1>4. t.seq \in Nat /\ t.ack \in Nat /\ <<>> \in Seq(Nat)
  BY <1>2 DEF TcbType
<1>5. x \in SegType /\ x.flags = "FIN" /\ x.seq = t.seq /\ x.data = <<>>
  <2> HIDE DEF t
  <2> QED BY <1>4 DEF Seg, SegType
<1>6. /\ tcb' \in [Slots -> TcbType] /\ toPeer' \subseteq SegType
      /\ \A q \in Slots : q # s => tcb'[q] = tcb[q]
      /\ \/ /\ tcb'[s] = t /\ toPeer' = toPeer
            /\ s # 1 \/ ~tcb[1].used \/ OutState(t.state, "FIN") = "error"
         \/ /\ s = 1 /\ OutState(t.state, "FIN") # "error"
            /\ tcb'[1] = [t EXCEPT !.state = OutState(t.state, "FIN"),
                                   !.seq = Kick(t.seq, "FIN", <<>>)]
            /\ toPeer' \subseteq toPeer \cup {x}
  <2>1. Output(s, t, "FIN", <<>>)
    BY DEF Close
  <2> QED BY <1>1, <1>2, <1>4, <2>1, OutputOK, Zenon
<1>7. CASE tcb'[s] = t /\ toPeer' = toPeer
  BY <1>1, <1>2, <1>3, <1>6, <1>7, QuietOutput
<1>8. CASE /\ s = 1 /\ OutState(t.state, "FIN") # "error"
           /\ tcb'[1] = [t EXCEPT !.state = OutState(t.state, "FIN"),
                                  !.seq = Kick(t.seq, "FIN", <<>>)]
           /\ toPeer' \subseteq toPeer \cup {x}
  <2>1. /\ tcb'[1].seq = tcb[1].seq + 1 /\ tcb'[1].ack = tcb[1].ack
        /\ \/ t.state = "CLOSED" /\ tcb'[1].state = "SYN_SENT"
           \/ t.state = "ESTABLISHED" /\ tcb'[1].state = "FIN_WAIT1"
    BY <1>2, <1>8 DEF OutState, Kick, TcbType
  <2>2. InConnection' => InConnection
    BY <1>8, <2>1 DEF InConnection
  <2>3. CASE Unclosed /\ t.state = "CLOSED"
    <3>1. tcb[1].seq = ISN
      BY <1>1, <1>4, <1>8, <2>3 DEF SlotInv, Unclosed
    <3>2. Early(x)
      BY <1>5, <1>8, <3>1 DEF Early
    <3>3. tcb'[1].seq = ISN + 1 /\ tcb'[1].state = "SYN_SENT"
      BY <2>1, <2>3, <3>1
    <3> QED BY <1>1, <1>3, <1>5, <1>6, <1>8, <2>1, <2>3, <3>1, <3>2, <3>3, EarlyStep
  <2>4. CASE Unclosed /\ t.state = "ESTABLISHED"
    <3>0. PICK g \in Nat : g = tcb[1].seq
      BY <1>4, <1>8
    <3>1. /\ g = ISN + 1 + sent /\ g > ISN
          /\ \A m \in toPeer : Early(m) \/ Plain(m, g)
          /\ Current => Received(g) /\ ~peer.finGot
      BY <1>1, <1>8, <2>4, <3>0 DEF SlotInv, Unclosed
    <3>2. tcb'[1].seq = g + 1 /\ tcb'[1].seq > ISN /\ g \in ISN..tcb'[1].seq
      BY <1>1, <2>1, <3>0, <3>1
    <3>3. /\ TypeInv' /\ SlotInv' /\ NoDataBut' /\ AnswerInv' /\ TakenInv'
          /\ (Current' <=> Current) /\ \A h : Received(h)' <=> Received(h)
      BY <1>1, <1>3, <1>5, <1>6, <1>8, <2>1, <2>2, <3>2, SentStep
    <3>4. Behind(x, g)
      BY <1>5, <1>8, <3>0 DEF Behind
    <3>5. \A m \in toPeer' : Early(m) \/ Plain(m, g) \/ Behind(m, g)
      BY <1>8, <3>1, <3>4
    <3>6. ClosedAt(g)'
      BY <1>1, <3>1, <3>2, <3>3, <3>5 DEF ClosedAt, Early, Plain, Behind
    <3> QED BY <3>2, <3>3, <3>6 DEF IInv, SendInv
  <2>5. CASE \E g \in ISN..tcb[1].seq : ClosedAt(g)
    <3>1. /\ tcb'[1].seq >= tcb[1].seq + (sent' - sent) /\ sent' >= sent /\ sent' \in Nat
          /\ x.flags # "SYN" /\ (x.flags # "ACK" => x.data = <<>>)
      BY <1>1, <1>4, <1>5, <1>8, <2>1
    <3> QED BY <1>1, <1>3, <1>5, <1>6, <1>8, <2>1, <2>2, <2>5, <3>1, BehindStep
  <2> QED BY <2>1, <2>3, <2>4, <2>5 DEF IInv, SendInv
<1> QED BY <1>6, <1>7, <1>8

-----------------------------------------------------------------------------
(* The client takes a segment. *)
LEMMA ReactOK ==
  ASSUME IInv, NEW m \in toClient
  PROVE  LET t == tcb[1]
             r == React(t, m)
         IN  /\ r \in TcbType /\ r.seq = t.seq /\ r.used = t.used
             /\ \/ r = t
                \/ /\ t.state = "SYN_SENT" /\ m.flags = "SYNACK"
                   /\ r.state = "ESTABLISHED" /\ r.ack = m.seq + 1
                \/ /\ t.state = "ESTABLISHED" /\ m.flags = "ACK" /\ m.seq = t.ack
                   /\ r.state = "ESTABLISHED" /\ r.ack = t.ack + Len(m.data)
                \/ /\ t.state = "FIN_WAIT1" /\ m.flags = "ACK" /\ m.seq = t.ack
                   /\ m.ack = t.seq /\ r.state = "FIN_WAIT2" /\ r.ack = t.ack
                \/ /\ t.state = "FIN_WAIT2" /\ m.flags = "FIN" /\ m.seq = t.ack
                   /\ r.state = "CLOSED" /\ r.ack = t.ack + 1
<1> DEFINE t == tcb[1]
           r == React(t, m)
<1>1. t \in TcbType /\ m \in SegType
  BY TcpConstants DEF IInv, TypeInv, Slots
<1>2. m.seq \in Nat /\ Len(m.data) \in Nat /\ t.ack \in Nat
  BY <1>1 DEF TcbType, SegType
<1> HIDE DEF t
<1>3. CASE t.state = "SYN_SENT" /\ m.flags = "SYNACK"
  <2>1. r = [t EXCEPT !.ack = m.seq + 1, !.state = "ESTABLISHED"]
    BY <1>3 DEF React
  <2>2. /\ r \in TcbType /\ r.seq = t.seq /\ r.used = t.used
        /\ r.state = "ESTABLISHED" /\ r.ack = m.seq + 1
    <3>1. m.seq + 1 \in Nat
      BY <1>2
    <3> QED BY <1>1, <2>1, <3>1 DEF TcbType
  <2> QED BY <1>3, <2>2 DEF t
<1>4. CASE t.state = "ESTABLISHED" /\ InSequence(t, m) /\ m.flags = "ACK"
  <2>1. r = [t EXCEPT !.ack = t.ack + Len(m.data)]
    BY <1>4 DEF React
  <2> QED BY <1>1, <1>2, <1>4, <2>1 DEF TcbType, t, InSequence
<1>5. CASE t.state = "FIN_WAIT1" /\ InSequence(t, m) /\ AcksFin(t, m)
  <2>1. r = [t EXCEPT !.state = "FIN_WAIT2"]
    BY <1>5 DEF React
  <2> QED BY <1>1, <1>2, <1>5, <2>1 DEF TcbType, t, InSequence, AcksFin
<1>6. CASE t.state = "FIN_WAIT2" /\ InSequence(t, m) /\ m.flags = "FIN"
  <2>1. r = [t EXCEPT !.ack = t.ack + 1, !.state = "CLOSED"]
    BY <1>6 DEF React
  <2>2. /\ r \in TcbType /\ r.seq = t.seq /\ r.used = t.used
        /\ r.state = "CLOSED" /\ r.ack = t.ack + 1
    <3>1. t.ack + 1 \in Nat
      BY <1>2
    <3> QED BY <1>1, <2>1, <3>1 DEF TcbType
  <2> QED BY <1>6, <2>2 DEF t, InSequence
<1>7. CASE /\ ~(t.state = "SYN_SENT" /\ m.flags = "SYNACK")
           /\ ~(t.state = "ESTABLISHED" /\ InSequence(t, m) /\ m.flags = "ACK")
           /\ ~(t.state = "FIN_WAIT1" /\ InSequence(t, m) /\ AcksFin(t, m))
           /\ ~(t.state = "FIN_WAIT2" /\ InSequence(t, m) /\ m.flags = "FIN")
  <2>1. r = t
    BY <1>7 DEF React
  <2> QED BY <1>1, <2>1 DEF TcbType, t
<1> QED BY <1>3, <1>4, <1>5, <1>6, <1>7

(* What the segment makes of ack and of the bytes taken. *)
LEMMA ReactNumbers ==
  ASSUME IInv, NEW m \in toClient, NEW r \in TcbType, r = React(tcb[1], m), r # tcb[1]
  PROVE  LET t == tcb[1]
         IN  /\ r.ack < Iss \/ r.ack \in {0} \cup (Iss + 1)..SndNxt(peer)
             /\ r.ack > Iss => Current
             /\ r.ack > Iss /\ t.state = "ESTABLISHED" =>
                  /\ t.ack > Iss /\ Run(m.data, t.ack - Iss)
                  /\ r.ack # t.ack => m.seq + Len(m.data) <= Iss + 1 + peer.said
             /\ r.ack > Iss /\ t.state = "SYN_SENT" => r.ack = Iss + 1
             /\ t.state \in {"FIN_WAIT1", "FIN_WAIT2"} /\ r.ack > Iss => t.ack > Iss
<1> DEFINE t == tcb[1]
<1>1. t \in TcbType /\ m \in SegType /\ TypeInv
  BY TcpConstants DEF IInv, TypeInv, Slots
<1>2. /\ Iss \in Nat /\ SndNxt(peer) = Iss + 1 + peer.said + (IF peer.finSent THEN 1 ELSE 0)
      /\ SndNxt(peer) \in Nat /\ peer.said \in Nat
  BY <1>1, IssNumber
<1>3. /\ Old(m) \/ Answer(m)
      /\ m.flags # "ACK" => m.data = <<>>
      /\ t.ack < Iss \/ t.ack \in {0} \cup (Iss + 1)..SndNxt(peer)
  BY DEF IInv, AnswerInv
<1>4. /\ m.seq \in Nat /\ Len(m.data) \in Nat /\ t.ack \in Nat /\ r.ack \in Nat
      /\ m.data = <<>> <=> Len(m.data) = 0
      /\ m.flags \in {"SYN", "SYNACK", "ACK", "FIN"}
  BY <1>1 DEF TcbType, SegType
<1>5. Current <=> \/ peer.st = "SYN_RCVD" \/ t.ack > Iss
                  \/ \E n \in toClient : n.flags = "SYNACK" /\ n.seq = Iss
  BY DEF Current
<1>6. CASE t.state = "SYN_SENT" /\ m.flags = "SYNACK" /\ r.ack = m.seq + 1
  <2>1. CASE Old(m)
    <3>1. r.ack < Iss
      BY <1>2, <1>3, <1>4, <1>6, <2>1 DEF Old
    <3>2. ~(r.ack > Iss)
      BY <1>2, <1>4, <3>1
    <3> QED BY <1>6, <3>1, <3>2
  <2>2. CASE Answer(m)
    <3>1. m.seq = Iss
      BY <1>6, <2>2 DEF Answer
    <3>2. r.ack = Iss + 1 /\ r.ack \in (Iss + 1)..SndNxt(peer) /\ Current
      BY <1>2, <1>5, <1>6, <3>1
    <3> QED BY <1>6, <3>2
  <2> QED BY <1>3, <2>1, <2>2
<1>7. CASE /\ t.state = "ESTABLISHED" /\ m.flags = "ACK" /\ m.seq = t.ack
           /\ r.ack = t.ack + Len(m.data)
  <2>1. CASE Old(m)
    <3>1. r.ack < Iss
      BY <1>2, <1>3, <1>4, <1>7, <2>1 DEF Old
    <3>2. ~(r.ack > Iss)
      BY <1>2, <1>4, <3>1
    <3> QED BY <1>7, <3>1, <3>2
  <2>2. CASE Answer(m)
    <3>1. /\ m.seq > Iss /\ Run(m.data, m.seq - Iss)
          /\ m.data # <<>> => m.seq + Len(m.data) <= Iss + 1 + peer.said
      BY <1>7, <2>2 DEF Answer
    <3>2. t.ack > Iss /\ Current
      BY <1>5, <1>7, <3>1
    <3>3. r.ack # t.ack => m.seq + Len(m.data) <= Iss + 1 + peer.said
      BY <1>4, <1>7, <3>1
    <3>4. r.ack \in (Iss + 1)..SndNxt(peer)
      BY <1>2, <1>3, <1>4, <1>7, <3>2, <3>3
    <3> QED BY <1>7, <3>1, <3>2, <3>3, <3>4
  <2> QED BY <1>3, <2>1, <2>2
<1>8. CASE t.state = "FIN_WAIT1" /\ r.ack = t.ack
  BY <1>3, <1>5, <1>8
<1>9. CASE t.state = "FIN_WAIT2" /\ m.flags = "FIN" /\ m.seq = t.ack /\ r.ack = t.ack + 1
  <2>1. CASE Old(m)
    <3>1. r.ack < Iss
      BY <1>2, <1>3, <1>4, <1>9, <2>1 DEF Old
    <3>2. ~(r.ack > Iss)
      BY <1>2, <1>4, <3>1
    <3> QED BY <1>9, <3>1, <3>2
  <2>2. CASE Answer(m)
    <3>1. m.seq = Iss + 1 + peer.said /\ peer.finSent
      BY <1>9, <2>2 DEF Answer
    <3>2. t.ack > Iss /\ Current /\ r.ack \in (Iss + 1)..SndNxt(peer)
      BY <1>2, <1>4, <1>5, <1>9, <3>1
    <3> QED BY <1>9, <3>2
  <2> QED BY <1>3, <2>1, <2>2
<1> QED BY ReactOK, <1>6, <1>7, <1>8, <1>9

(***************************************************************************)
(* The client's direction, when neither what was sent nor what the server  *)
(* has got changes.                                                        *)
(***************************************************************************)
LEMMA SendKept ==
  ASSUME IInv, tcb'[1].seq = tcb[1].seq,
         tcb'[1].state \in {"FIN_WAIT1", "FIN_WAIT2"}
           => tcb[1].state \in {"FIN_WAIT1", "FIN_WAIT2"},
         tcb'[1].state = "CLOSED"
           => tcb[1].state \in {"CLOSED", "FIN_WAIT2"},
         \A m \in toPeer' \ toPeer :
            m.flags = "ACK" /\ m.seq = tcb[1].seq /\ m.data = <<>> /\ tcb[1].seq > ISN,
         Current' => Current, peer'.got = peer.got, peer'.rcv = peer.rcv,
         peer'.finGot = peer.finGot, sent' = sent
  PROVE  SendInv' /\ NoDataBut'
<1>1. \A g : Received(g)' <=> Received(g)
  BY DEF Received
<1>2. NoDataBut'
  BY DEF IInv, NoDataBut
<1>3. ISN \in Nat /\ tcb[1].seq \in Nat /\ sent \in Nat
  BY TcpConstants DEF IInv, TypeInv, TcbType, Slots
<1>4. ASSUME Unclosed PROVE Unclosed'
  <2>1. PICK g \in Nat : g = IF tcb[1].seq <= ISN THEN ISN + 1 ELSE tcb[1].seq
    BY <1>3
  <2>2. ASSUME NEW m \in toPeer' PROVE Early(m) \/ Plain(m, g)
    <3>1. CASE m \in toPeer
      BY <1>4, <2>1, <3>1 DEF Unclosed
    <3>2. CASE m \notin toPeer
      <4>1. /\ m.flags = "ACK" /\ m.seq = tcb[1].seq /\ m.data = <<>>
            /\ tcb[1].seq > ISN
        BY <3>2
      <4>2. g = tcb[1].seq
        BY <1>3, <2>1, <4>1
      <4> QED BY <1>3, <4>1, <4>2 DEF Plain, Run
    <3> QED BY <3>1, <3>2
  <2>3. /\ g = ISN + 1 + sent
        /\ tcb'[1].state \notin {"FIN_WAIT1", "FIN_WAIT2"}
        /\ tcb'[1].state = "CLOSED" => tcb'[1].seq <= ISN
        /\ Current' => Received(g)' /\ ~peer'.finGot
    BY <1>1, <1>4, <2>1 DEF Unclosed
  <2> QED BY <2>1, <2>2, <2>3 DEF Unclosed, Early, Plain
<1>5. ASSUME NEW g \in ISN..tcb[1].seq, ClosedAt(g) PROVE ClosedAt(g)'
  <2>1. \A m \in toPeer' : Early(m) \/ Plain(m, g) \/ Behind(m, g)
    <3>1. tcb[1].seq > g
      BY <1>5 DEF ClosedAt
    <3> QED BY <1>5, <3>1 DEF ClosedAt, Behind
  <2> QED BY <1>1, <1>5, <2>1 DEF ClosedAt, Early, Plain, Behind
<1> QED BY <1>2, <1>4, <1>5 DEF IInv, SendInv

LEMMA TakeGoodInv == ASSUME IInv, TakeGood PROVE IInv'
<1> DEFINE t == tcb[1]
<1>1. PICK m \in toClient :
        LET r == React(t, m)
        IN  /\ tcb' = Freed([tcb EXCEPT ![1] = r])
            /\ IF r.ack = t.ack THEN UNCHANGED toPeer
               ELSE toPeer' \in Carry(toPeer, Seg("ACK", r.seq, r.ack, <<>>))
            /\ taken' = CASE t.state = "SYN_SENT" /\ r # t -> <<>>
                          [] t.state = "ESTABLISHED" /\ r # t -> taken \o m.data
                          [] OTHER -> taken
  BY DEF TakeGood
<1> DEFINE r == React(t, m)
           x == Seg("ACK", r.seq, r.ack, <<>>)
<1>2. /\ TypeInv /\ SlotInv /\ tcb \in [Slots -> TcbType] /\ 1 \in Slots /\ t \in TcbType
      /\ call # Idle /\ GoOn /\ UNCHANGED <<toClient, peer, sent>>
      /\ ISN \in Nat /\ m \in SegType /\ taken \in Seq(Nat)
  <2>1. call # Idle /\ GoOn /\ UNCHANGED <<toClient, peer, sent>>
    BY DEF TakeGood
  <2>2. 1 \in Slots
    BY TcpConstants DEF Slots
  <2> QED BY <2>1, <2>2, TcpConstants DEF IInv, TypeInv
<1>3. /\ r \in TcbType /\ r.seq = t.seq /\ r.used = t.used
      /\ \/ r = t
         \/ /\ t.state = "SYN_SENT" /\ m.flags = "SYNACK"
            /\ r.state = "ESTABLISHED" /\ r.ack = m.seq + 1
         \/ /\ t.state = "ESTABLISHED" /\ m.flags = "ACK" /\ m.seq = t.ack
            /\ r.state = "ESTABLISHED" /\ r.ack = t.ack + Len(m.data)
         \/ /\ t.state = "FIN_WAIT1" /\ m.flags = "ACK" /\ m.seq = t.ack
            /\ m.ack = t.seq /\ r.state = "FIN_WAIT2" /\ r.ack = t.ack
         \/ /\ t.state = "FIN_WAIT2" /\ m.flags = "FIN" /\ m.seq = t.ack
            /\ r.state = "CLOSED" /\ r.ack = t.ack + 1
  BY ReactOK
<1>4. r # t =>
        /\ r.ack < Iss \/ r.ack \in {0} \cup (Iss + 1)..SndNxt(peer)
        /\ r.ack > Iss => Current
        /\ r.ack > Iss /\ t.state = "ESTABLISHED" =>
             /\ t.ack > Iss /\ Run(m.data, t.ack - Iss)
             /\ r.ack # t.ack => m.seq + Len(m.data) <= Iss + 1 + peer.said
        /\ r.ack > Iss /\ t.state = "SYN_SENT" => r.ack = Iss + 1
        /\ t.state \in {"FIN_WAIT1", "FIN_WAIT2"} /\ r.ack > Iss => t.ack > Iss
  BY <1>3, ReactNumbers
<1>5. /\ tcb' = Freed([tcb EXCEPT ![1] = r])
      /\ taken' = CASE t.state = "SYN_SENT" /\ r # t -> <<>>
                    [] t.state = "ESTABLISHED" /\ r # t -> taken \o m.data
                    [] OTHER -> taken
      /\ toPeer' \subseteq toPeer \cup {x}
      /\ r.ack = t.ack => toPeer' = toPeer
  <2> HIDE DEF r
  <2> QED BY <1>1, CarryOK DEF r
<1> HIDE DEF r
<1>6. /\ tcb' \in [Slots -> TcbType]
      /\ tcb'[1].state = r.state /\ tcb'[1].seq = t.seq /\ tcb'[1].ack = r.ack
      /\ tcb'[1].used => t.used
      /\ \A q \in Slots : q # 1 => tcb'[q].state = tcb[q].state
  <2> DEFINE u == [tcb EXCEPT ![1] = r]
  <2>1. /\ u \in [Slots -> TcbType] /\ u[1] = r
        /\ \A q \in Slots : q # 1 => u[q] = tcb[q]
    BY <1>2, <1>3
  <2>2. tcb' = Freed(u)
    BY <1>5
  <2> HIDE DEF u
  <2>3. /\ Freed(u) \in [Slots -> TcbType]
        /\ \A q \in Slots : /\ Freed(u)[q].state = u[q].state
                            /\ Freed(u)[q].seq = u[q].seq
                            /\ Freed(u)[q].ack = u[q].ack
                            /\ Freed(u)[q].used => u[q].used
    BY <1>2, <2>1, FreedOK
  <2> QED BY <1>2, <1>3, <2>1, <2>2, <2>3
<1>7. t.ack \in Nat /\ r.ack \in Nat /\ t.seq \in Nat /\ Len(m.data) \in Nat /\ m.data \in Seq(Nat)
  BY <1>2, <1>3 DEF TcbType, SegType
<1>8. /\ x \in SegType /\ x.flags = "ACK" /\ x.seq = t.seq /\ x.data = <<>>
  <2>1. r.seq \in Nat /\ r.ack \in Nat /\ <<>> \in Seq(Nat)
    BY <1>3, <1>7 DEF TcbType
  <2> QED BY <1>3, <2>1 DEF Seg, SegType
<1>9. call' \in [waits : 0..2, closes : {0} \cup Slots]
  BY <1>2, GoOnOK
<1>10. taken' \in Seq(Nat)
  <2>1. taken \o m.data \in Seq(Nat) /\ <<>> \in Seq(Nat)
    BY <1>2, <1>7
  <2> QED BY <1>2, <1>5, <2>1
<1>11. TypeInv'
  BY <1>2, <1>5, <1>6, <1>8, <1>9, <1>10 DEF TypeInv
<1>12. t.state # "CLOSED" => t.seq > ISN
  BY <1>2 DEF SlotInv
<1>13. SlotInv'
  BY <1>2, <1>3, <1>6, <1>12 DEF SlotInv
<1>14. Iss' = Iss /\ SndNxt(peer)' = SndNxt(peer) /\ Iss \in Nat /\ peer.said \in Nat
  BY <1>2, IssNumber DEF Iss, SndNxt
<1>15. Current' => Current
  <2>1. r.ack > Iss => Current
    BY <1>4 DEF Current
  <2> QED BY <1>2, <1>6, <1>14, <2>1 DEF Current
<1>16. SendInv' /\ NoDataBut'
  <2>1. /\ r.state \in {"FIN_WAIT1", "FIN_WAIT2"} => t.state \in {"FIN_WAIT1", "FIN_WAIT2"}
        /\ r.state = "CLOSED" => t.state \in {"CLOSED", "FIN_WAIT2"}
    BY <1>3
  <2>2. \A n \in toPeer' \ toPeer :
          n.flags = "ACK" /\ n.seq = tcb[1].seq /\ n.data = <<>> /\ tcb[1].seq > ISN
    BY <1>3, <1>5, <1>8, <1>12
  <2> QED BY <1>2, <1>6, <1>15, <2>1, <2>2, SendKept
<1>17. AnswerInv'
  <2>1. tcb'[1].ack < Iss \/ tcb'[1].ack \in {0} \cup (Iss + 1)..SndNxt(peer)
    BY <1>4, <1>6 DEF IInv, AnswerInv
  <2> QED BY <1>2, <1>14, <2>1 DEF IInv, AnswerInv, Old, Answer
<1>18. TakenInv'
  <2> SUFFICES ASSUME r.state \in {"ESTABLISHED", "FIN_WAIT1", "FIN_WAIT2"}, r.ack > Iss
               PROVE  /\ Run(taken', 1) /\ Len(taken') <= peer.said
                      /\ r.ack = Iss + 1 + Len(taken')
    BY <1>2, <1>6, <1>14 DEF TakenInv, InConnection
  <2>1. CASE r = t \/ t.state \in {"FIN_WAIT1", "FIN_WAIT2"}
    <3>1. taken' = taken /\ r.ack = t.ack /\ t.ack > Iss
          /\ t.state \in {"ESTABLISHED", "FIN_WAIT1", "FIN_WAIT2"}
      BY <1>3, <1>5, <2>1
    <3> QED BY <3>1 DEF IInv, TakenInv, InConnection
  <2>2. CASE r # t /\ t.state = "SYN_SENT"
    <3>1. taken' = <<>> /\ r.ack = Iss + 1
      BY <1>4, <1>5, <2>2
    <3> QED BY <1>14, <3>1 DEF Run
  <2>3. CASE r # t /\ t.state = "ESTABLISHED"
    <3>1. /\ taken' = taken \o m.data /\ t.ack > Iss /\ Run(m.data, t.ack - Iss)
          /\ r.ack # t.ack => m.seq + Len(m.data) <= Iss + 1 + peer.said
          /\ r.ack = t.ack + Len(m.data) /\ m.seq = t.ack
      BY <1>3, <1>4, <1>5, <2>3
    <3>2. /\ Run(taken, 1) /\ Len(taken) <= peer.said /\ t.ack = Iss + 1 + Len(taken)
      BY <2>3, <3>1 DEF IInv, TakenInv, InConnection
    <3>3. Len(taken) \in Nat /\ t.ack - Iss = Len(taken) + 1
      BY <1>2, <1>14, <3>2
    <3>4. Len(taken') = Len(taken) + Len(m.data) /\ Run(taken', 1)
      BY <1>2, <1>7, <3>1, <3>2, <3>3, RunConcat
    <3>0. Iss \in Nat /\ peer.said \in Nat
      BY <1>14
    <3>5. PICK n \in Nat, l \in Nat : n = Len(m.data) /\ l = Len(taken)
      BY <1>7, <3>3
    <3>6. r.ack = Iss + 1 + (l + n) /\ t.ack = Iss + 1 + l
      <4>1. r.ack = t.ack + n
        BY <3>1, <3>5
      <4>2. t.ack = Iss + 1 + l
        BY <3>2, <3>5
      <4> QED BY <3>0, <4>1, <4>2
    <3>7. /\ r.ack = Iss + 1 + Len(taken')
          /\ r.ack <= Iss + 1 + peer.said => Len(taken') <= peer.said
          /\ r.ack = t.ack => Len(taken') = Len(taken)
      <4>1. Len(taken') = l + n
        BY <3>4, <3>5
      <4>2. r.ack <= Iss + 1 + peer.said => l + n <= peer.said
        BY <3>0, <3>6
      <4>3. r.ack = t.ack => l + n = l
        BY <3>0, <3>6
      <4> QED BY <3>5, <3>6, <4>1, <4>2, <4>3
    <3>8. Len(taken') <= peer.said
      BY <3>1, <3>2, <3>7
    <3> QED BY <3>4, <3>7, <3>8
  <2> QED BY <1>3, <2>1, <2>2, <2>3
<1> QED BY <1>11, <1>13, <1>16, <1>17, <1>18 DEF IInv

-----------------------------------------------------------------------------
(* Steps of the server on one connection: it sends x, or nothing. *)
LEMMA ServerStep ==
  ASSUME IInv, peer' \in PeerType, UNCHANGED <<tcb, call, toPeer, sent, taken>>,
         peer'.opens = peer.opens, peer.said <= peer'.said, peer.rcv <= peer'.rcv,
         peer.finSent => peer'.finSent /\ peer'.said = peer.said,
         peer'.st = "SYN_RCVD" => peer.st = "SYN_RCVD" /\ peer'.got = peer.got
                                  /\ peer'.finGot = peer.finGot /\ peer'.rcv = peer.rcv,
         toClient' \subseteq SegType,
         \A x \in toClient' \ toClient :
            /\ Answer(x)' /\ (x.flags # "ACK" => x.data = <<>>)
            /\ x.flags = "SYNACK" => peer.st = "SYN_RCVD"
  PROVE  /\ TypeInv' /\ SlotInv' /\ NoDataBut' /\ AnswerInv' /\ TakenInv'
         /\ Current' => Current
<1>1. /\ TypeInv /\ peer \in PeerType /\ Iss' = Iss
      /\ Iss \in Nat /\ SndNxt(peer) = Iss + 1 + peer.said + (IF peer.finSent THEN 1 ELSE 0)
      /\ peer.said \in Nat
  BY IssNumber DEF IInv, TypeInv, Iss
<1>2. TypeInv'
  BY <1>1 DEF TypeInv
<1>3. /\ SndNxt(peer)' = Iss + 1 + peer'.said + (IF peer'.finSent THEN 1 ELSE 0)
      /\ peer'.said \in Nat
  BY <1>1, <1>2, TcpConstants DEF SndNxt, PeerType, Iss
<1>4. SndNxt(peer) <= SndNxt(peer)' /\ SndNxt(peer) \in Nat /\ SndNxt(peer)' \in Nat
  BY <1>1, <1>3
<1>5. SlotInv' /\ NoDataBut'
  BY DEF IInv, SlotInv, NoDataBut
<1>6. Current' => Current
  BY <1>1 DEF Current
<1>7. TakenInv'
  <2>1. Len(taken) \in Nat
    BY <1>1 DEF TypeInv
  <2> QED BY <1>1, <1>3, <2>1 DEF IInv, TakenInv, InConnection
<1>8. ASSUME NEW m \in toClient' PROVE (Old(m) \/ Answer(m))' /\ (m.flags # "ACK" => m.data = <<>>)
  <2>1. CASE m \notin toClient
    BY <2>1
  <2>2. CASE m \in toClient
    <3>1. m \in SegType
      BY <2>2, <1>1 DEF TypeInv
    <3>2. m.seq \in Nat /\ m.ack \in Nat
      BY <3>1 DEF SegType
    <3>3. CASE Old(m)
      BY <1>1, <2>2, <3>3 DEF IInv, AnswerInv, Old
    <3>4. CASE Answer(m)
      <4>1. m.ack <= peer'.rcv
        BY <1>1, <3>2, <3>4 DEF Answer, PeerType
      <4>2. CASE m.flags = "SYNACK" /\ m.seq = Iss
        BY <1>1, <2>2, <4>1, <4>2 DEF IInv, AnswerInv, Answer
      <4>3. CASE m.flags = "FIN" /\ m.seq = Iss + 1 + peer.said /\ peer.finSent
        BY <1>1, <2>2, <4>1, <4>3 DEF IInv, AnswerInv, Answer
      <4>4. CASE /\ m.flags = "ACK" /\ m.seq > Iss
                 /\ m.data # <<>> => m.seq + Len(m.data) <= Iss + 1 + peer.said
                 /\ m.seq <= SndNxt(peer) /\ Run(m.data, m.seq - Iss)
        <5>1. m.seq <= SndNxt(peer)'
          BY <1>4, <3>2, <4>4
        <5>2. m.data # <<>> => m.seq + Len(m.data) <= Iss + 1 + peer'.said
          <6>1. PICK l \in Nat : l = Len(m.data)
            BY <3>1 DEF SegType
          <6>2. m.data # <<>> => m.seq + l <= Iss + 1 + peer.said
            BY <4>4, <6>1
          <6>3. m.data # <<>> => m.seq + l <= Iss + 1 + peer'.said
            BY <1>1, <1>3, <3>2, <6>2
          <6> QED BY <6>1, <6>3
        <5>3. Answer(m)'
          BY <1>1, <4>1, <4>4, <5>1, <5>2 DEF Answer, Run
        <5> QED BY <4>4, <5>3
      <4> QED BY <3>4, <4>2, <4>3, <4>4 DEF Answer
    <3> QED BY <2>2, <3>3, <3>4 DEF IInv, AnswerInv
  <2> QED BY <2>1, <2>2
<1>9. tcb'[1].ack < Iss' \/ tcb'[1].ack \in {0} \cup (Iss' + 1)..SndNxt(peer)'
  BY <1>1, <1>4 DEF IInv, AnswerInv
<1>10. peer'.st = "SYN_RCVD" => peer'.got = <<>> /\ ~peer'.finGot /\ peer'.rcv = ISN + 1
  BY DEF IInv, AnswerInv
<1>11. AnswerInv'
  BY <1>8, <1>9, <1>10 DEF AnswerInv
<1> QED BY <1>2, <1>5, <1>6, <1>7, <1>11

LEMMA SaysOK ==
  ASSUME TypeInv, NEW f \in {"SYNACK", "ACK", "FIN"}, NEW q \in Nat, NEW p \in PeerType,
         NEW d \in Seq(Nat), Says(f, q, p, d)
  PROVE  /\ toClient' \subseteq SegType
         /\ \A x \in toClient' \ toClient :
              x.flags = f /\ x.seq = q /\ x.ack = p.rcv /\ x.data = d
<1> DEFINE x == Seg(f, q, p.rcv, d)
<1>1. x \in SegType /\ x.flags = f /\ x.seq = q /\ x.ack = p.rcv /\ x.data = d
  BY DEF Seg, SegType, PeerType
<1>2. toClient' \subseteq toClient \cup {x}
  BY CarryOK DEF Says
<1> HIDE DEF x
<1> QED BY <1>1, <1>2 DEF TypeInv

LEMMA PeerForgetsInv == ASSUME IInv, PeerForgets PROVE IInv'
<1>1. /\ peer' = [peer EXCEPT !.st = "LISTEN"] /\ peer \in PeerType /\ toClient \subseteq SegType
      /\ UNCHANGED <<tcb, call, toPeer, toClient, sent, taken>>
  BY DEF PeerForgets, IInv, TypeInv
<1>2. /\ peer' \in PeerType /\ peer'.opens = peer.opens /\ peer'.said = peer.said
      /\ peer'.rcv = peer.rcv /\ peer'.finSent = peer.finSent /\ peer'.got = peer.got
      /\ peer'.finGot = peer.finGot /\ peer'.st = "LISTEN"
      /\ peer.said \in Nat /\ peer.rcv \in Nat
  <2>1. /\ peer' \in PeerType /\ peer'.opens = peer.opens /\ peer'.said = peer.said
        /\ peer'.rcv = peer.rcv /\ peer'.finSent = peer.finSent /\ peer'.got = peer.got
    BY <1>1 DEF PeerType
  <2>2. peer'.finGot = peer.finGot /\ peer'.st = "LISTEN" /\ peer.rcv \in Nat
    BY <1>1 DEF PeerType
  <2>3. peer.said \in 0..MaxSaid
    BY <1>1 DEF PeerType
  <2> QED BY <2>1, <2>2, <2>3, TcpConstants
<1>3. /\ TypeInv' /\ SlotInv' /\ NoDataBut' /\ AnswerInv' /\ TakenInv'
      /\ Current' => Current
  BY <1>1, <1>2, ServerStep
<1>4. SendInv'
  BY <1>1, <1>2, <1>3, SendKept
<1> QED BY <1>3, <1>4 DEF IInv

LEMMA PeerSynAckInv == ASSUME IInv, PeerSynAck PROVE IInv'
<1>1. /\ TypeInv /\ peer \in PeerType /\ peer.st = "SYN_RCVD" /\ Says("SYNACK", Iss, peer, <<>>)
      /\ UNCHANGED <<tcb, call, toPeer, peer, sent, taken>>
  BY DEF PeerSynAck, IInv, TypeInv
<1>2. /\ peer.said \in Nat /\ peer.rcv \in Nat /\ Iss \in Nat /\ <<>> \in Seq(Nat) /\ Iss' = Iss
  BY <1>1, IssNumber DEF PeerType, Iss
<1>3. /\ toClient' \subseteq SegType
      /\ \A x \in toClient' \ toClient :
           x.flags = "SYNACK" /\ x.seq = Iss /\ x.ack = peer.rcv /\ x.data = <<>>
  BY <1>1, <1>2, SaysOK
<1>4. \A x \in toClient' \ toClient : Answer(x)'
  BY <1>1, <1>2, <1>3 DEF Answer
<1>5. /\ TypeInv' /\ SlotInv' /\ NoDataBut' /\ AnswerInv' /\ TakenInv'
      /\ Current' => Current
  BY <1>1, <1>2, <1>3, <1>4, ServerStep
<1>6. SendInv'
  BY <1>1, <1>5, SendKept
<1> QED BY <1>5, <1>6 DEF IInv

LEMMA PeerFinInv == ASSUME IInv, PeerFin PROVE IInv'
<1>1. /\ TypeInv /\ peer \in PeerType /\ peer.st = "ESTAB"
      /\ peer' = [peer EXCEPT !.finSent = TRUE] /\ Says("FIN", Iss + 1 + peer.said, peer, <<>>)
      /\ UNCHANGED <<tcb, call, toPeer, sent, taken>>
  BY DEF PeerFin, IInv, TypeInv
<1>2. /\ peer.said \in Nat /\ peer.rcv \in Nat /\ Iss \in Nat /\ <<>> \in Seq(Nat)
  BY <1>1, IssNumber DEF PeerType
<1>3. /\ peer' \in PeerType /\ peer'.opens = peer.opens /\ peer'.said = peer.said
      /\ peer'.rcv = peer.rcv /\ peer'.finSent /\ peer'.got = peer.got
      /\ peer'.finGot = peer.finGot /\ peer'.st = "ESTAB"
  BY <1>1 DEF PeerType
<1>4. Iss' = Iss /\ Iss + 1 + peer.said \in Nat
  BY <1>2, <1>3 DEF Iss
<1>5. /\ toClient' \subseteq SegType
      /\ \A x \in toClient' \ toClient :
           x.flags = "FIN" /\ x.seq = Iss + 1 + peer.said /\ x.ack = peer.rcv /\ x.data = <<>>
  BY <1>1, <1>2, <1>4, SaysOK
<1>6. \A x \in toClient' \ toClient : Answer(x)'
  BY <1>2, <1>3, <1>4, <1>5 DEF Answer
<1>7. /\ TypeInv' /\ SlotInv' /\ NoDataBut' /\ AnswerInv' /\ TakenInv'
      /\ Current' => Current
  BY <1>1, <1>2, <1>3, <1>5, <1>6, ServerStep
<1>8. SendInv'
  BY <1>1, <1>3, <1>7, SendKept
<1> QED BY <1>7, <1>8 DEF IInv

LEMMA PeerSendsInv == ASSUME IInv, PeerSends PROVE IInv'
<1>1. PICK a \in 1..(peer.said + 1), b \in 1..MaxSaid :
        /\ a <= b /\ (peer.finSent => b <= peer.said)
        /\ peer' = [peer EXCEPT !.said = IF b > peer.said THEN b ELSE peer.said]
        /\ Says("ACK", Iss + a, peer, Bytes(a, b))
  BY DEF PeerSends
<1>2. /\ TypeInv /\ peer \in PeerType /\ peer.st = "ESTAB"
      /\ UNCHANGED <<tcb, call, toPeer, sent, taken>>
  BY DEF PeerSends, IInv, TypeInv
<1>3. /\ peer.said \in Nat /\ peer.said <= MaxSaid /\ peer.rcv \in Nat /\ Iss \in Nat
      /\ MaxSaid \in Nat
  BY <1>2, IssNumber, TcpConstants DEF PeerType
<1>4. /\ a \in Nat /\ b \in Nat /\ 1 <= a /\ b <= MaxSaid /\ a <= b + 1 /\ Iss + a \in Nat
  BY <1>1, <1>3
<1>5. PICK n \in 0..MaxSaid : n = IF b > peer.said THEN b ELSE peer.said
  BY <1>3, <1>4
<1>6. n \in Nat /\ b <= n /\ peer.said <= n /\ (peer.finSent => n = peer.said)
  BY <1>1, <1>3, <1>4, <1>5
<1>7. /\ peer' \in PeerType /\ peer'.opens = peer.opens /\ peer'.said = n
      /\ peer'.rcv = peer.rcv /\ peer'.finSent = peer.finSent /\ peer'.got = peer.got
      /\ peer'.finGot = peer.finGot /\ peer'.st = "ESTAB"
  <2>1. peer' = [peer EXCEPT !.said = n]
    BY <1>1, <1>5
  <2> QED BY <1>2, <2>1 DEF PeerType
<1>8. Iss' = Iss /\ SndNxt(peer)' = Iss + 1 + n + (IF peer.finSent THEN 1 ELSE 0)
  BY <1>7 DEF Iss, SndNxt
<1>9. /\ Bytes(a, b) \in Seq(Nat) /\ Len(Bytes(a, b)) = b + 1 - a /\ Run(Bytes(a, b), a)
  BY <1>4, BytesRun
<1>10. /\ toClient' \subseteq SegType
       /\ \A x \in toClient' \ toClient :
            x.flags = "ACK" /\ x.seq = Iss + a /\ x.ack = peer.rcv /\ x.data = Bytes(a, b)
  BY <1>1, <1>2, <1>4, <1>9, SaysOK
<1>11. ASSUME NEW x \in toClient' \ toClient PROVE Answer(x)'
  <2>1. x.flags = "ACK" /\ x.seq = Iss + a /\ x.ack = peer.rcv /\ x.data = Bytes(a, b)
    BY <1>10
  <2>2. x.seq > Iss /\ x.seq - Iss = a /\ x.seq <= SndNxt(peer)'
    BY <1>1, <1>3, <1>4, <1>6, <1>8, <2>1
  <2>3. x.seq + Len(x.data) <= Iss + 1 + n
    <3>1. Iss + a + (b + 1 - a) <= Iss + 1 + n
      BY <1>3, <1>4, <1>6
    <3> QED BY <1>9, <2>1, <3>1
  <2>4. x.ack <= peer'.rcv
    BY <1>3, <1>7, <2>1
  <2>5. Run(x.data, x.seq - Iss)'
    BY <1>8, <1>9, <2>1, <2>2 DEF Run
  <2> QED BY <1>7, <1>8, <2>1, <2>2, <2>3, <2>4, <2>5 DEF Answer
<1>12. /\ TypeInv' /\ SlotInv' /\ NoDataBut' /\ AnswerInv' /\ TakenInv'
       /\ Current' => Current
  BY <1>2, <1>3, <1>6, <1>7, <1>10, <1>11, ServerStep
<1>13. SendInv'
  BY <1>2, <1>7, <1>12, SendKept
<1> QED BY <1>12, <1>13 DEF IInv

(***************************************************************************)
(* A segment in sequence continues what the server has, and no other does; *)
(* its FIN is the one at g.                                                *)
(***************************************************************************)
Continues(m, g) ==
  /\ m.seq = ISN + 1 + Len(peer.got) /\ m.flags \in {"ACK", "FIN"}
  /\ m.flags = "FIN" => m.data = <<>> /\ Behind(m, g) /\ peer.rcv = g
  /\ m.flags = "ACK" => /\ Run(m.data, Len(peer.got) + 1)
                        /\ m.seq + Len(m.data) <= g

LEMMA InOrder ==
  ASSUME IInv, NEW m \in toPeer, NEW g \in Nat, Received(g), ISN < g,
         Early(m) \/ Plain(m, g) \/ Behind(m, g), m.seq = peer.rcv, ~peer.finGot
  PROVE  Continues(m, g)
<1>1. /\ m \in SegType /\ peer \in PeerType /\ ISN \in Nat
  BY TcpConstants DEF IInv, TypeInv
<1>2. m.seq \in Nat /\ m.flags \in {"SYN", "SYNACK", "ACK", "FIN"}
  BY <1>1 DEF SegType
<1>3. PICK l \in Nat : l = Len(peer.got)
  BY <1>1 DEF PeerType
<1>4. m.seq = ISN + 1 + l + 0 /\ m.seq <= g
  <2>1. peer.rcv = ISN + 1 + l + 0 /\ ISN + 1 + l <= g
    BY <1>3 DEF Received
  <2> QED BY <1>1, <2>1
<1>5. ~Early(m) /\ m.seq = ISN + 1 + l /\ m.seq - ISN = l + 1
  BY <1>1, <1>4 DEF Early
<1>6. CASE Plain(m, g)
  BY <1>3, <1>5, <1>6 DEF Plain, Continues
<1>7. CASE Behind(m, g)
  <2>1. m.flags = "FIN" /\ m.seq = g
    BY <1>2, <1>4, <1>7 DEF Behind
  <2> QED BY <1>3, <1>5, <1>7, <2>1 DEF IInv, NoDataBut, Continues
<1> QED BY <1>5, <1>6, <1>7

LEMMA PeerTakesInv == ASSUME IInv, PeerTakes PROVE IInv'
<1>1. PICK m \in toPeer :
       /\ m.flags # "SYN"
       /\ LET inSeq == m.seq = peer.rcv /\ ~peer.finGot
              fin == m.flags = "FIN" /\ inSeq
              p == [peer EXCEPT
                     !.st = "ESTAB",
                     !.rcv = IF inSeq THEN @ + Len(m.data) + (IF fin THEN 1 ELSE 0) ELSE @,
                     !.got = IF inSeq THEN @ \o m.data ELSE @,
                     !.finGot = @ \/ fin]
          IN  /\ peer' = IF p.finGot /\ p.finSent /\ m.ack = SndNxt(p)
                         THEN [p EXCEPT !.st = "LISTEN"] ELSE p
              /\ IF m.data # <<>> \/ m.flags = "FIN"
                 THEN Says("ACK", SndNxt(p), p, <<>>) ELSE UNCHANGED toClient
  BY DEF PeerTakes
<1> DEFINE inSeq == m.seq = peer.rcv /\ ~peer.finGot
           fin == m.flags = "FIN" /\ inSeq
           size == Len(m.data)
           rcv == IF inSeq THEN peer.rcv + size + (IF fin THEN 1 ELSE 0) ELSE peer.rcv
           got == IF inSeq THEN peer.got \o m.data ELSE peer.got
           p == [peer EXCEPT !.st = "ESTAB", !.rcv = rcv, !.got = got,
                             !.finGot = peer.finGot \/ fin]
<1>2. /\ TypeInv /\ peer \in PeerType /\ m \in SegType
      /\ UNCHANGED <<tcb, call, toPeer, sent, taken>>
  BY DEF PeerTakes, IInv, TypeInv
<1>3. /\ peer.said \in Nat /\ peer.rcv \in Nat /\ Iss \in Nat /\ m.data \in Seq(Nat)
      /\ size \in Nat /\ peer.got \in Seq(Nat) /\ m.seq \in Nat /\ peer.finGot \in BOOLEAN
      /\ ISN \in Nat
  BY <1>2, IssNumber, TcpConstants DEF PeerType, SegType
<1> HIDE DEF size
<1>4. rcv \in Nat /\ rcv >= peer.rcv /\ got \in Seq(Nat)
  BY <1>3
<1>5. /\ p \in PeerType /\ p.opens = peer.opens /\ p.said = peer.said /\ p.rcv = rcv
      /\ p.finSent = peer.finSent /\ p.got = got /\ p.finGot = (peer.finGot \/ fin)
      /\ p.st = "ESTAB"
  <2> HIDE DEF rcv, got, fin
  <2> QED BY <1>2, <1>3, <1>4 DEF PeerType
<1>6. /\ peer' = (IF p.finGot /\ p.finSent /\ m.ack = SndNxt(p)
                  THEN [p EXCEPT !.st = "LISTEN"] ELSE p)
      /\ IF m.data # <<>> \/ m.flags = "FIN"
         THEN Says("ACK", SndNxt(p), p, <<>>) ELSE UNCHANGED toClient
  BY <1>1, Zenon DEF size
<1> HIDE DEF p
<1>7. /\ peer' \in PeerType /\ peer'.opens = peer.opens /\ peer'.said = peer.said
      /\ peer'.rcv = rcv /\ peer'.finSent = peer.finSent /\ peer'.got = got
      /\ peer'.finGot = (peer.finGot \/ fin) /\ peer'.st # "SYN_RCVD"
  <2> HIDE DEF rcv, got, fin
  <2>1. CASE peer' = p
    BY <1>5, <2>1
  <2>2. CASE peer' = [p EXCEPT !.st = "LISTEN"]
    BY <1>5, <2>2 DEF PeerType
  <2> QED BY <1>6, <2>1, <2>2
<1>8. Iss' = Iss /\ SndNxt(peer)' = SndNxt(peer) /\ SndNxt(p) = SndNxt(peer)
  BY <1>5, <1>7 DEF Iss, SndNxt
<1>9. SndNxt(peer) \in Nat /\ SndNxt(peer) > Iss
  BY <1>2, IssNumber
<1>10. /\ toClient' \subseteq SegType
       /\ \A x \in toClient' \ toClient :
            x.flags = "ACK" /\ x.seq = SndNxt(peer) /\ x.ack = rcv /\ x.data = <<>>
  <2>1. CASE Says("ACK", SndNxt(p), p, <<>>)
    <3>1. <<>> \in Seq(Nat) /\ SndNxt(p) \in Nat
      BY <1>8, <1>9
    <3>2. p \in PeerType /\ p.rcv = rcv
      BY <1>5
    <3> HIDE DEF rcv
    <3>3. /\ toClient' \subseteq SegType
          /\ \A x \in toClient' \ toClient :
               x.flags = "ACK" /\ x.seq = SndNxt(p) /\ x.ack = p.rcv /\ x.data = <<>>
      BY <1>2, <2>1, <3>1, <3>2, SaysOK
    <3> QED BY <1>8, <3>2, <3>3
  <2>2. CASE UNCHANGED toClient
    BY <1>2, <2>2 DEF TypeInv
  <2> QED BY <1>6, <2>1, <2>2
<1> HIDE DEF rcv
<1>11. \A x \in toClient' \ toClient : Answer(x)'
  BY <1>4, <1>7, <1>8, <1>9, <1>10 DEF Answer, Run
<1> HIDE DEF got, inSeq, fin
<1>12. /\ TypeInv' /\ SlotInv' /\ NoDataBut' /\ AnswerInv' /\ TakenInv'
       /\ Current' => Current
  BY <1>2, <1>3, <1>4, <1>7, <1>10, <1>11, ServerStep
<1>13. CASE ~inSeq
  <2>1. peer'.rcv = peer.rcv /\ peer'.got = peer.got /\ peer'.finGot = peer.finGot
    BY <1>3, <1>7, <1>13 DEF rcv, got, fin
  <2>2. SendInv'
    BY <1>2, <1>12, <2>1, SendKept
  <2> QED BY <1>12, <2>2 DEF IInv
<1>14. CASE inSeq
  <2>1. ASSUME NEW g \in Nat, Received(g), ISN < g,
               Early(m) \/ Plain(m, g) \/ Behind(m, g)
        PROVE  /\ Received(g)'
               /\ peer'.finGot => Behind(m, g) /\ peer'.rcv = g + 1
    <3>1. /\ m.seq = ISN + 1 + Len(peer.got) /\ m.flags \in {"ACK", "FIN"}
          /\ m.flags = "FIN" => m.data = <<>> /\ Behind(m, g) /\ peer.rcv = g
          /\ m.flags = "ACK" => /\ Run(m.data, Len(peer.got) + 1)
                                /\ m.seq + Len(m.data) <= g
      <4>1. m.seq = peer.rcv /\ ~peer.finGot
        BY <1>14 DEF inSeq
      <4>2. Continues(m, g)
        BY <2>1, <4>1, InOrder
      <4> QED BY <4>2 DEF Continues
    <3>2. PICK n \in Nat, l \in Nat : n = size /\ l = Len(peer.got)
      BY <1>3
    <3>3. Run(peer.got, 1) /\ ISN + 1 + l <= g
      BY <2>1, <3>2 DEF Received
    <3>4. CASE m.flags = "ACK"
      <4>1. peer'.rcv = peer.rcv + n /\ peer'.got = peer.got \o m.data /\ ~peer'.finGot
        <5>1. ~fin /\ ~peer.finGot
          BY <1>14, <3>4 DEF inSeq, fin
        <5>2. rcv = peer.rcv + size + 0 /\ got = peer.got \o m.data
          BY <1>14, <5>1 DEF rcv, got
        <5>3. rcv = peer.rcv + n
          BY <1>3, <3>2, <5>2
        <5> QED BY <1>7, <5>1, <5>2, <5>3
      <4>2. Run(peer'.got, 1) /\ Len(peer'.got) = l + n
        <5>1. Run(m.data, Len(peer.got) + 1)
          BY <3>1, <3>4
        <5> QED BY <1>3, <3>2, <3>3, <4>1, <5>1, RunConcat DEF size
      <4>3. m.seq + n <= g /\ m.seq = ISN + 1 + l /\ peer.rcv = m.seq
        BY <1>14, <3>1, <3>2, <3>4 DEF inSeq, size
      <4>4. ISN + 1 + (l + n) <= g /\ peer'.rcv = ISN + 1 + (l + n) + 0
        BY <1>3, <4>1, <4>3
      <4> QED BY <4>1, <4>2, <4>4 DEF Received
    <3>5. CASE m.flags = "FIN"
      <4>1. m.data = <<>> /\ Behind(m, g) /\ peer.rcv = g
        BY <3>1, <3>5
      <4>2. peer.got \o <<>> = peer.got
        BY <1>3
      <4>3. peer'.rcv = peer.rcv + 1 /\ peer'.got = peer.got /\ peer'.finGot
        <5>1. size = 0
          BY <4>1 DEF size
        <5>2. fin
          BY <1>14, <3>5 DEF fin
        <5>3. rcv = peer.rcv + size + 1 /\ got = peer.got \o m.data
          BY <1>14, <5>2 DEF rcv, got
        <5>4. rcv = peer.rcv + 1
          BY <1>3, <5>1, <5>3
        <5> QED BY <1>7, <4>1, <4>2, <5>2, <5>3, <5>4
      <4>4. m.seq = ISN + 1 + l /\ peer.rcv = m.seq
        BY <1>14, <3>1, <3>2 DEF inSeq
      <4>5. Len(peer'.got) = l
        BY <3>2, <4>3
      <4>6. peer'.rcv = ISN + 1 + l + 1 /\ peer'.rcv = g + 1
        BY <1>3, <4>1, <4>3, <4>4
      <4> QED BY <3>3, <4>1, <4>3, <4>5, <4>6 DEF Received
    <3> QED BY <3>1, <3>4, <3>5
  <2>2. tcb[1].seq \in Nat
    BY <1>2, SlotType, TcpConstants DEF TcbType, Slots
  <2>3. ASSUME Unclosed PROVE Unclosed'
    <3>0. ISN \in Nat
      BY <1>3
    <3>1. PICK g \in Nat : g = IF tcb[1].seq <= ISN THEN ISN + 1 ELSE tcb[1].seq
      BY <2>2, <3>0
    <3>2. ISN < g
      BY <2>2, <3>0, <3>1
    <3>3. /\ g = ISN + 1 + sent
          /\ tcb[1].state \notin {"FIN_WAIT1", "FIN_WAIT2"}
          /\ tcb[1].state = "CLOSED" => tcb[1].seq <= ISN
          /\ \A n \in toPeer : Early(n) \/ Plain(n, g)
          /\ Current => Received(g) /\ ~peer.finGot
      BY <2>3, <3>1 DEF Unclosed
    <3>4. ~(m.flags = "FIN" /\ m.seq = peer.rcv) \/ ~Current
      <4>1. Received(g) => peer.rcv # ISN \/ peer.finGot
        <5>1. PICK l \in Nat : l = Len(peer.got)
          BY <1>3
        <5>2. Received(g) => peer.rcv = ISN + 1 + l + (IF peer.finGot THEN 1 ELSE 0)
          BY <5>1 DEF Received
        <5> QED BY <3>0, <5>2
      <4> QED BY <3>3, <4>1 DEF Early, Plain
    <3>5. Current' => Received(g)' /\ ~peer'.finGot
      <4> SUFFICES ASSUME Current PROVE Received(g)' /\ ~peer'.finGot
        BY <1>12
      <4>1. Received(g)'
        BY <2>1, <3>2, <3>3
      <4>2. ~peer'.finGot
        BY <1>7, <1>14, <3>3, <3>4 DEF inSeq, fin
      <4> QED BY <4>1, <4>2
    <3>6. /\ g = ISN + 1 + sent'
          /\ tcb'[1].state \notin {"FIN_WAIT1", "FIN_WAIT2"}
          /\ tcb'[1].state = "CLOSED" => tcb'[1].seq <= ISN
          /\ \A n \in toPeer' : Early(n) \/ Plain(n, g)
          /\ g = IF tcb'[1].seq <= ISN THEN ISN + 1 ELSE tcb'[1].seq
      BY <1>2, <3>1, <3>3
    <3> QED BY <3>5, <3>6 DEF Unclosed, Early, Plain
  <2>4. ASSUME NEW g \in ISN..tcb[1].seq, ClosedAt(g) PROVE ClosedAt(g)'
    <3>1. g \in Nat /\ ISN < g
      BY <1>3, <2>2, <2>4 DEF ClosedAt
    <3>2. Current' => Received(g)' /\ (peer'.finGot => peer'.rcv = g + 1)
      <4> SUFFICES ASSUME Current PROVE Received(g)' /\ (peer'.finGot => peer'.rcv = g + 1)
        BY <1>12
      <4>1. Received(g) /\ (Early(m) \/ Plain(m, g) \/ Behind(m, g))
        BY <2>4 DEF ClosedAt
      <4> QED BY <2>1, <3>1, <4>1
    <3> QED BY <1>2, <2>4, <3>2 DEF ClosedAt, Early, Plain, Behind
  <2>5. SendInv'
    BY <1>2, <2>3, <2>4 DEF IInv, SendInv
  <2> QED BY <1>12, <2>5 DEF IInv
<1> QED BY <1>13, <1>14

(***************************************************************************)
(* A new connection: its numbers lie above all that the server has sent,   *)
(* and no byte of it was taken yet.                                        *)
(***************************************************************************)
LEMMA PeerSynInv == ASSUME IInv, PeerSyn PROVE IInv'
<1>1. PICK m \in toPeer :
       /\ m.flags = "SYN"
       /\ peer' = [st |-> "SYN_RCVD", opens |-> peer.opens + 1, rcv |-> m.seq + 1,
                   got |-> <<>>, said |-> 0, finGot |-> FALSE, finSent |-> FALSE]
       /\ Says("SYNACK", peer'.opens * (MaxSaid + 3), peer', <<>>)
  BY DEF PeerSyn
<1>2. /\ TypeInv /\ peer \in PeerType /\ m \in SegType
      /\ UNCHANGED <<tcb, call, toPeer, sent, taken>>
  BY DEF PeerSyn, IInv, TypeInv
<1>3. /\ Iss \in Nat /\ SndNxt(peer) \in Nat /\ peer.said \in Nat /\ peer.said <= MaxSaid
      /\ SndNxt(peer) = Iss + 1 + peer.said + (IF peer.finSent THEN 1 ELSE 0)
      /\ peer.opens \in Nat /\ m.seq \in Nat /\ MaxSaid \in Nat /\ ISN \in Nat
  BY <1>2, IssNumber, TcpConstants DEF PeerType, SegType
<1>4. m.seq = ISN
  <2>1. \A n \in toPeer : Early(n) \/ \E g \in Nat : Plain(n, g) \/ Behind(n, g)
    <3>1. tcb[1].seq \in Nat
      BY <1>2, SlotType, TcpConstants DEF TcbType, Slots
    <3>2. CASE Unclosed
      <4>1. PICK g \in Nat : g = IF tcb[1].seq <= ISN THEN ISN + 1 ELSE tcb[1].seq
        <5>1. ISN + 1 \in Nat
          BY <1>3
        <5> QED BY <3>1, <5>1
      <4> QED BY <3>2, <4>1 DEF Unclosed
    <3>3. CASE \E g \in ISN..tcb[1].seq : ClosedAt(g)
      <4>1. PICK g \in ISN..tcb[1].seq : ClosedAt(g)
        BY <3>3
      <4>2. g \in Nat
        BY <1>3, <3>1
      <4> QED BY <4>1, <4>2 DEF ClosedAt
    <3> QED BY <3>2, <3>3 DEF IInv, SendInv
  <2> QED BY <1>1, <2>1 DEF Early, Plain, Behind
<1>5. /\ peer' \in PeerType /\ peer'.opens = peer.opens + 1 /\ peer'.rcv = ISN + 1
      /\ peer'.got = <<>> /\ peer'.said = 0 /\ ~peer'.finGot /\ ~peer'.finSent
      /\ peer'.st = "SYN_RCVD"
  <2>1. ISN + 1 \in Nat /\ peer.opens + 1 \in Nat /\ 0 \in 0..MaxSaid
    BY <1>3
  <2>2. m.seq + 1 = ISN + 1
    BY <1>4
  <2> QED BY <1>1, <2>1, <2>2 DEF PeerType
<1>6. /\ peer'.opens * (MaxSaid + 3) = Iss'
      /\ Iss' = Iss + (MaxSaid + 3) /\ SndNxt(peer)' = Iss' + 1
  <2>1. MaxSaid + 3 \in Nat
    BY <1>3
  <2>2. (peer.opens + 1) * (MaxSaid + 3) = peer.opens * (MaxSaid + 3) + (MaxSaid + 3)
    BY <1>3, <2>1, Product
  <2>3. peer'.opens * (MaxSaid + 3) = Iss' /\ Iss' = Iss + (MaxSaid + 3)
    BY <1>5, <2>2 DEF Iss
  <2>4. Iss' \in Nat
    BY <1>3, <2>3
  <2>5. SndNxt(peer)' = Iss' + 1 + 0 + 0
    BY <1>5 DEF SndNxt, Iss
  <2> QED BY <2>3, <2>4, <2>5
<1>7. Iss' \in Nat /\ SndNxt(peer) + 1 <= Iss' /\ SndNxt(peer) < Iss'
  BY <1>3, <1>6
<1>8. /\ toClient' \subseteq SegType
      /\ \A x \in toClient' \ toClient :
           x.flags = "SYNACK" /\ x.seq = Iss' /\ x.ack = ISN + 1 /\ x.data = <<>>
  <2>1. PICK i \in Nat : i = Iss'
    BY <1>7
  <2>2. PICK p \in PeerType : p = peer'
    BY <1>5
  <2>3. Says("SYNACK", i, p, <<>>) /\ <<>> \in Seq(Nat)
    BY <1>1, <1>6, <2>1, <2>2
  <2>4. /\ toClient' \subseteq SegType
        /\ \A x \in toClient' \ toClient :
             x.flags = "SYNACK" /\ x.seq = i /\ x.ack = p.rcv /\ x.data = <<>>
    BY <1>2, <2>3, SaysOK
  <2> QED BY <1>5, <2>1, <2>2, <2>4
<1>9. ASSUME NEW n \in toClient' PROVE (Old(n) \/ Answer(n))' /\ (n.flags # "ACK" => n.data = <<>>)
  <2>1. CASE n \notin toClient
    <3>1. n.flags = "SYNACK" /\ n.seq = Iss' /\ n.ack = ISN + 1 /\ n.data = <<>>
      BY <1>8, <2>1
    <3>2. Answer(n)'
      BY <1>3, <1>5, <3>1 DEF Answer
    <3> QED BY <3>1, <3>2
  <2>2. CASE n \in toClient
    <3>1. n.seq \in Nat /\ n.data \in Seq(Nat) /\ (n.flags # "ACK" => n.data = <<>>)
      BY <1>2, <2>2 DEF TypeInv, SegType, IInv, AnswerInv
    <3>2. PICK l \in Nat : l = Len(n.data)
      BY <3>1
    <3>3. n.data = <<>> => l = 0
      BY <3>2
    <3>4. CASE Old(n)
      <4>1. n.seq + l + (IF n.flags = "ACK" THEN 1 ELSE 2) <= Iss
        BY <3>2, <3>4 DEF Old
      <4>2. n.seq + l + (IF n.flags = "ACK" THEN 1 ELSE 2) <= Iss'
        <5>1. Iss <= Iss' /\ Iss \in Nat /\ Iss' \in Nat /\ n.seq \in Nat
          BY <1>3, <1>6, <1>7, <3>1
        <5>2. CASE n.flags = "ACK"
          BY <4>1, <5>1, <5>2
        <5>3. CASE n.flags # "ACK"
          BY <4>1, <5>1, <5>3
        <5> QED BY <5>2, <5>3
      <4> QED BY <3>1, <3>2, <4>2 DEF Old
    <3>5. CASE Answer(n)
      <4>1. n.seq + l + (IF n.flags = "ACK" THEN 1 ELSE 2) <= Iss'
        <5>1. CASE n.flags = "SYNACK" /\ n.seq = Iss
          BY <1>3, <1>6, <3>1, <3>3, <5>1
        <5>2. CASE n.flags = "FIN" /\ n.seq = Iss + 1 + peer.said
          BY <1>3, <1>6, <3>1, <3>3, <5>2
        <5>3. CASE /\ n.flags = "ACK" /\ n.seq <= SndNxt(peer)
                   /\ n.data # <<>> => n.seq + Len(n.data) <= Iss + 1 + peer.said
          <6>1. CASE n.data = <<>>
            BY <1>3, <1>7, <3>1, <3>3, <5>3, <6>1
          <6>2. CASE n.data # <<>>
            <7>1. n.seq + l <= Iss + 1 + peer.said
              BY <3>2, <5>3, <6>2
            <7> QED BY <1>3, <1>6, <3>1, <5>3, <7>1
          <6> QED BY <6>1, <6>2
        <5> QED BY <3>5, <5>1, <5>2, <5>3 DEF Answer
      <4> QED BY <3>1, <3>2, <4>1 DEF Old
    <3> QED BY <2>2, <3>4, <3>5 DEF IInv, AnswerInv
  <2> QED BY <2>1, <2>2
<1>10. tcb[1].ack < Iss'
  <2>1. tcb[1].ack \in Nat
    BY <1>2, SlotType, TcpConstants DEF TcbType, Slots
  <2>2. tcb[1].ack < Iss \/ tcb[1].ack = 0 \/ tcb[1].ack <= SndNxt(peer)
    BY <1>3 DEF IInv, AnswerInv
  <2> QED BY <1>3, <1>6, <1>7, <2>1, <2>2
<1>11. AnswerInv'
  BY <1>2, <1>5, <1>9, <1>10 DEF AnswerInv
<1>12. TakenInv'
  <2>1. tcb[1].ack \in Nat
    BY <1>2, SlotType, TcpConstants DEF TcbType, Slots
  <2> QED BY <1>2, <1>7, <1>10, <2>1 DEF TakenInv
<1>13. TypeInv' /\ SlotInv' /\ NoDataBut'
  BY <1>2, <1>5, <1>8 DEF IInv, TypeInv, SlotInv, NoDataBut
<1>14. ASSUME NEW g \in Nat, ISN < g PROVE Received(g)'
  <2>1. Run(peer'.got, 1) /\ Len(peer'.got) = 0
    BY <1>5 DEF Run
  <2>2. ISN + 1 + 0 <= g /\ ISN + 1 + 0 + 0 = ISN + 1
    BY <1>3, <1>14
  <2> QED BY <1>5, <2>1, <2>2 DEF Received
<1>15. tcb[1].seq \in Nat
  BY <1>2, SlotType, TcpConstants DEF TcbType, Slots
<1>16. ASSUME Unclosed PROVE Unclosed'
  <2>1. PICK g \in Nat : ISN < g /\ g = IF tcb[1].seq <= ISN THEN ISN + 1 ELSE tcb[1].seq
    <3>1. ISN \in Nat
      BY <1>3
    <3> QED BY <1>15, <3>1
  <2>2. Received(g)' /\ ~peer'.finGot
    BY <1>5, <1>14, <2>1
  <2> QED BY <1>2, <1>16, <2>1, <2>2 DEF Unclosed, Early, Plain
<1>17. ASSUME NEW g \in ISN..tcb[1].seq, ClosedAt(g) PROVE ClosedAt(g)'
  <2>1. g \in Nat /\ ISN < g
    BY <1>3, <1>15, <1>17 DEF ClosedAt
  <2>2. Received(g)' /\ ~peer'.finGot
    BY <1>5, <1>14, <2>1
  <2> QED BY <1>2, <1>17, <2>2 DEF ClosedAt, Early, Plain, Behind
<1>18. SendInv'
  BY <1>2, <1>16, <1>17 DEF IInv, SendInv
<1> QED BY <1>11, <1>12, <1>13, <1>18 DEF IInv

-----------------------------------------------------------------------------
LEMMA NextInv == ASSUME ~Outlive, IInv, [Next]_vars PROVE IInv'
<1>1. CASE Application
  <2>1. PICK s \in Slots : \/ Socket(s) \/ Connect(s) \/ Recv(s) \/ Close(s)
                           \/ \E n \in 1..MaxSent : Send(s, n)
    BY <1>1 DEF Application
  <2> QED BY <2>1, SocketInv, ConnectInv, RecvInv, CloseInv, SendStepInv
<1>2. CASE Waiting
  BY <1>2, TimeoutInv, TakeGoodInv, TakeBadInv DEF Waiting
<1>3. CASE Server
  BY <1>3, PeerSynInv, PeerTakesInv, PeerSendsInv, PeerFinInv, PeerSynAckInv,
     PeerForgetsInv DEF Server
<1>4. CASE UNCHANGED vars
  <2>1. /\ tcb \in [Slots -> TcbType] /\ call \in [waits : 0..2, closes : {0} \cup Slots]
    BY DEF IInv, TypeInv
  <2> QED BY <1>4, <2>1, QuietStep DEF vars
<1> QED BY <1>1, <1>2, <1>3, <1>4 DEF Next

(* The invariant holds in every state of every behaviour, if no segment    *)
(* outlives its socket.                                                    *)
THEOREM Inductive == ASSUME ~Outlive PROVE Spec => []IInv
<1>1. IInv /\ [Next]_vars => IInv'
  BY NextInv
<1> QED BY <1>1, InitInv, PTL DEF Spec

(* In one connection the server's acknowledgment is of this socket. *)
LEMMA SameIsCurrent == ASSUME IInv, SameConnection PROVE Current /\ tcb[1].ack > Iss
<1>1. Iss \in Nat /\ tcb[1].ack \in Nat
  BY IssNumber, SlotType, TcpConstants DEF IInv, TcbType, Slots
<1> QED BY <1>1 DEF SameConnection, Current

(***************************************************************************)
(* Whatever is lost, damaged, repeated or late of one socket, and whenever *)
(* a call times out or is repeated, what the server has is the beginning   *)
(* of what tcp_send was given.  The hypothesis is needed: gSeqNum gives    *)
(* every connection the same first number, so that data of an earlier      *)
(* socket, if they came now, would be taken for this one's.                *)
(***************************************************************************)
THEOREM PrefixDelivered == ASSUME ~Outlive PROVE Spec => []ServerHasPrefix
<1>1. IInv => ServerHasPrefix
  <2> SUFFICES ASSUME IInv, SameConnection
               PROVE  Len(peer.got) <= sent /\ peer.got = Bytes(1, Len(peer.got))
    BY DEF ServerHasPrefix
  <2>1. Current
    BY SameIsCurrent
  <2>2. /\ peer.got \in Seq(Nat) /\ sent \in Nat /\ ISN \in Nat
        /\ tcb[1].seq \in Nat
    BY SlotType, TcpConstants DEF IInv, TypeInv, PeerType, TcbType, Slots
  <2>3. PICK l \in Nat : l = Len(peer.got)
    BY <2>2
  <2>4. \E g \in Nat : Received(g) /\ g <= ISN + 1 + sent
    <3>1. CASE Unclosed
      BY <2>1, <2>2, <3>1 DEF Unclosed
    <3>2. CASE \E g \in ISN..tcb[1].seq : ClosedAt(g)
      <4>1. PICK g \in ISN..tcb[1].seq : ClosedAt(g)
        BY <3>2
      <4>2. g \in Nat
        BY <2>2
      <4> QED BY <2>1, <4>1, <4>2 DEF ClosedAt
    <3> QED BY <3>1, <3>2 DEF IInv, SendInv
  <2>5. PICK g \in Nat : Run(peer.got, 1) /\ ISN + 1 + l <= g /\ g <= ISN + 1 + sent
    BY <2>3, <2>4 DEF Received
  <2>6. l <= sent
    BY <2>2, <2>5
  <2> QED BY <2>2, <2>3, <2>5, <2>6, RunIsBytes
<1> QED BY <1>1, Inductive, PTL

(***************************************************************************)
(* The bytes of the server that the client has acknowledged it has taken   *)
(* each once and in order, and the number it acknowledges counts them.     *)
(***************************************************************************)
THEOREM TakenInOrder == ASSUME ~Outlive PROVE Spec => []AckedOnceInOrder
<1>1. IInv => AckedOnceInOrder
  <2> SUFFICES ASSUME IInv, SameConnection
               PROVE  /\ taken = Bytes(1, Len(taken)) /\ Len(taken) <= peer.said
                      /\ tcb[1].ack = Iss + 1 + Len(taken)
    BY DEF AckedOnceInOrder
  <2>1. /\ Run(taken, 1) /\ Len(taken) <= peer.said
        /\ tcb[1].ack = Iss + 1 + Len(taken)
    BY SameIsCurrent DEF IInv, TakenInv, InConnection, SameConnection
  <2>2. taken \in Seq(Nat)
    BY DEF IInv, TypeInv
  <2> QED BY <2>1, <2>2, RunIsBytes
<1> QED BY <1>1, Inductive, PTL

-----------------------------------------------------------------------------
(* Only a segment, or a new socket, ends FIN_WAIT1 and FIN_WAIT2. *)
LEMMA FinWaitStays ==
  ASSUME IInv, [Next]_vars, tcb[1].state \in {"FIN_WAIT1", "FIN_WAIT2"}
  PROVE  \/ tcb'[1].state = tcb[1].state
         \/ tcb'[1].state = "CLOSED" /\ tcb'[1].ack = 0
         \/ TakeGood
<1>1. TypeInv /\ tcb \in [Slots -> TcbType] /\ 1 \in Slots /\ tcb[1] \in TcbType
  BY TcpConstants DEF IInv, TypeInv, Slots
<1>2. ASSUME NEW s \in Slots, NEW t \in TcbType, t.state = tcb[s].state,
             NEW flags \in {"SYN", "ACK", "FIN"}, NEW data \in Seq(Nat),
             Output(s, t, flags, data)
      PROVE  tcb'[1].state = tcb[1].state
  <2>1. s = 1 => OutState(t.state, flags) = "error"
    BY <1>2 DEF OutState
  <2>2. s # 1 => GetSocket(s) # s
    BY TcpConstants DEF GetSocket, Slots
  <2>3. tcb' = [tcb EXCEPT ![s] = t]
    BY <1>2, <2>1, <2>2 DEF Output
  <2> QED BY <1>1, <1>2, <2>3
<1>3. ASSUME NEW s \in Slots, Socket(s)
      PROVE  \/ tcb'[1].state = tcb[1].state
             \/ tcb'[1].state = "CLOSED" /\ tcb'[1].ack = 0
  <2>1. tcb' = [tcb EXCEPT ![s] = [tcb[s] EXCEPT !.used = TRUE, !.state = "CLOSED",
                                                 !.seq = ISN, !.ack = 0]]
    BY <1>3 DEF Socket
  <2> QED BY <1>1, <2>1 DEF TcbType
<1>4. ASSUME NEW s \in Slots, Connect(s) PROVE tcb'[1].state = tcb[1].state
  <2> DEFINE t == [tcb[s] EXCEPT !.remote = TRUE]
  <2>1. t \in TcbType /\ t.state = tcb[s].state
    BY <1>1 DEF TcbType
  <2>2. Output(s, t, "SYN", <<>>) /\ <<>> \in Seq(Nat)
    BY <1>4 DEF Connect
  <2> QED BY <1>2, <2>1, <2>2
<1>5. ASSUME NEW s \in Slots, Close(s) PROVE tcb'[1].state = tcb[1].state
  <2>1. Output(s, tcb[s], "FIN", <<>>) /\ <<>> \in Seq(Nat) /\ tcb[s] \in TcbType
    BY <1>1, <1>5 DEF Close
  <2> QED BY <1>2, <2>1
<1>6. ASSUME NEW s \in Slots, NEW n \in 1..MaxSent, Send(s, n) PROVE FALSE
  BY <1>6 DEF Send, IInv, SlotInv
<1>7. ASSUME TakeBad PROVE tcb'[1].state = tcb[1].state
  BY <1>1, <1>7, FreedOK DEF TakeBad
<1>8. ASSUME Server \/ Timeout \/ UNCHANGED vars PROVE tcb' = tcb
  BY <1>8 DEF Server, PeerSyn, PeerTakes, PeerSends, PeerFin, PeerSynAck, PeerForgets,
     Timeout, vars
<1>9. ASSUME NEW s \in Slots, Recv(s) PROVE tcb' = tcb
  BY <1>9 DEF Recv
<1> QED BY <1>3, <1>4, <1>5, <1>6, <1>7, <1>8, <1>9 DEF Next, Application, Waiting

(* What it was, if a segment did. *)
LEMMA FinWaitTakes ==
  ASSUME IInv, TakeGood, tcb[1].state \in {"FIN_WAIT1", "FIN_WAIT2"},
         tcb'[1].state # tcb[1].state
  PROVE  \E m \in toClient :
           /\ m.seq = tcb[1].ack
           /\ \/ tcb[1].state = "FIN_WAIT1" /\ m.flags = "ACK" /\ m.ack = tcb[1].seq
              \/ /\ tcb[1].state = "FIN_WAIT2" /\ m.flags = "FIN"
<1>1. PICK m \in toClient : tcb' = Freed([tcb EXCEPT ![1] = React(tcb[1], m)])
  BY DEF TakeGood
<1>2. PICK r \in TcbType : r = React(tcb[1], m)
  BY ReactOK
<1>3. tcb'[1].state = r.state
  <2>1. TypeInv /\ tcb \in [Slots -> TcbType] /\ 1 \in Slots
    BY TcpConstants DEF IInv, TypeInv, Slots
  <2> DEFINE u == [tcb EXCEPT ![1] = r]
  <2>2. u \in [Slots -> TcbType] /\ u[1] = r /\ tcb' = Freed(u)
    BY <1>1, <1>2, <2>1
  <2> HIDE DEF u
  <2>3. Freed(u)[1].state = u[1].state
    BY <2>1, <2>2, FreedOK
  <2> QED BY <2>2, <2>3
<1> QED BY <1>2, <1>3, ReactOK

(***************************************************************************)
(* What FIN_WAIT2, and the CLOSED that a segment brings after it, tell the *)
(* client: the server has every byte of tcp_send and the FIN; and every    *)
(* byte of the server, and its FIN, are acknowledged.  It is not said that *)
(* a connection ends in this way: tcp_close frees the slot in any state.   *)
(***************************************************************************)
THEOREM FinWaitTellsTruth == ASSUME ~Outlive PROVE Spec => OrderlyEnd
<1> DEFINE Step ==
      SameConnection =>
        /\ (tcb[1].state = "FIN_WAIT1" /\ tcb'[1].state = "FIN_WAIT2" =>
             peer.got = Bytes(1, sent) /\ peer.finGot)
        /\ (tcb[1].state = "FIN_WAIT2" /\ tcb'[1].state = "CLOSED" /\ tcb'[1].ack > 0 =>
             Len(taken) = peer.said /\ peer.finSent)
<1>1. IInv /\ [Next]_vars => [Step]_vars
  <2> SUFFICES ASSUME IInv, [Next]_vars, SameConnection
               PROVE  /\ (tcb[1].state = "FIN_WAIT1" /\ tcb'[1].state = "FIN_WAIT2" =>
                           peer.got = Bytes(1, sent) /\ peer.finGot)
                      /\ (tcb[1].state = "FIN_WAIT2" /\ tcb'[1].state = "CLOSED"
                            /\ tcb'[1].ack > 0 =>
                           Len(taken) = peer.said /\ peer.finSent)
    OBVIOUS
  <2>1. /\ Current /\ tcb[1].ack > Iss /\ Iss \in Nat /\ TypeInv
        /\ tcb[1].seq \in Nat /\ tcb[1].ack \in Nat /\ sent \in Nat /\ ISN \in Nat
        /\ peer.rcv \in Nat /\ peer.got \in Seq(Nat) /\ taken \in Seq(Nat)
        /\ toClient \subseteq SegType /\ peer.said \in Nat /\ peer.finGot \in BOOLEAN
    <3>1. TypeInv /\ 1 \in Slots /\ tcb \in [Slots -> TcbType] /\ peer \in PeerType
      BY TcpConstants DEF IInv, TypeInv, Slots
    <3>2. Current /\ tcb[1].ack > Iss /\ Iss \in Nat
      BY <3>1, SameIsCurrent, IssNumber
    <3>3. tcb[1].seq \in Nat /\ tcb[1].ack \in Nat
      BY <3>1 DEF TcbType
    <3>4. /\ peer.rcv \in Nat /\ peer.got \in Seq(Nat) /\ peer.said \in Nat
          /\ peer.finGot \in BOOLEAN
      BY <3>1, TcpConstants DEF PeerType
    <3> QED BY <3>1, <3>2, <3>3, <3>4, TcpConstants DEF TypeInv
  <2>2. ASSUME NEW m \in toClient, m.seq = tcb[1].ack PROVE Answer(m)
    <3>1. m.seq \in Nat /\ Len(m.data) \in Nat
      BY <2>1 DEF SegType
    <3>2. PICK l \in Nat : l = Len(m.data)
      BY <3>1
    <3>3. Old(m) => m.seq + l + (IF m.flags = "ACK" THEN 1 ELSE 2) <= Iss
      BY <3>2 DEF Old
    <3>4. ~Old(m)
      BY <2>1, <2>2, <3>1, <3>3
    <3> QED BY <3>4 DEF IInv, AnswerInv
  <2>3. ASSUME tcb[1].state = "FIN_WAIT1", tcb'[1].state = "FIN_WAIT2"
        PROVE  peer.got = Bytes(1, sent) /\ peer.finGot
    <3>1. TakeGood
      BY <2>3, FinWaitStays
    <3>2. PICK m \in toClient : m.seq = tcb[1].ack /\ m.ack = tcb[1].seq
      BY <2>3, <3>1, FinWaitTakes
    <3>3. tcb[1].seq <= peer.rcv
      BY <2>2, <3>2 DEF Answer
    <3>4. PICK g \in ISN..tcb[1].seq : ClosedAt(g)
      BY <2>3 DEF IInv, SendInv, Unclosed
    <3>5. PICK l \in Nat : l = Len(peer.got)
      BY <2>1
    <3>6. /\ g \in Nat /\ g <= ISN + 1 + sent /\ tcb[1].seq >= ISN + 2 + sent
          /\ Run(peer.got, 1) /\ ISN + 1 + l <= g
          /\ peer.rcv = ISN + 1 + l + (IF peer.finGot THEN 1 ELSE 0)
      <4>1. g \in Nat
        BY <2>1
      <4>2. Received(g) /\ g <= ISN + 1 + sent /\ tcb[1].seq >= ISN + 2 + sent
        BY <2>1, <3>4 DEF ClosedAt
      <4> QED BY <3>5, <4>1, <4>2 DEF Received
    <3>7. l = sent /\ peer.finGot
      <4>1. /\ sent \in Nat /\ ISN \in Nat /\ tcb[1].seq \in Nat /\ peer.rcv \in Nat
            /\ peer.finGot \in BOOLEAN
        BY <2>1
      <4>2. CASE peer.finGot
        BY <3>3, <3>6, <4>1, <4>2
      <4>3. CASE ~peer.finGot
        BY <3>3, <3>6, <4>1, <4>3
      <4> QED BY <4>2, <4>3
    <3> QED BY <2>1, <3>5, <3>6, <3>7, RunIsBytes
  <2>4. ASSUME tcb[1].state = "FIN_WAIT2", tcb'[1].state = "CLOSED", tcb'[1].ack > 0
        PROVE  Len(taken) = peer.said /\ peer.finSent
    <3>1. TakeGood
      BY <2>4, FinWaitStays
    <3>2. PICK m \in toClient : m.seq = tcb[1].ack /\ m.flags = "FIN"
      BY <2>4, <3>1, FinWaitTakes
    <3>3. tcb[1].ack = Iss + 1 + peer.said /\ peer.finSent
      BY <2>2, <3>2 DEF Answer
    <3>4. tcb[1].ack = Iss + 1 + Len(taken)
      BY <2>1, <2>4 DEF IInv, TakenInv, InConnection
    <3>5. Len(taken) \in Nat
      BY <2>1
    <3> QED BY <2>1, <3>3, <3>4, <3>5
  <2> QED BY <2>3, <2>4
<1> QED BY <1>1, Inductive, PTL DEF Spec, OrderlyEnd
=============================================================================
