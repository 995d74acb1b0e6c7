----------------------------- MODULE TcpClient ------------------------------
(***************************************************************************)
(* The TCP client of lab2 (tcp_client.c): a pool of control blocks, a      *)
(* state machine that sends (OUTPUT) and reacts to segments (INPUT), and   *)
(* five calls of one application thread, which wait in waitIpPacket for    *)
(* one segment each.  Below it is an IP network, beyond it a TCP server:   *)
(* both are external.  Data travel with the flag ACK alone (0x10) in both  *)
(* directions.  What tcp_recv hands out is left out, see the README.       *)
(*                                                                         *)
(* A segment that was sent may arrive never, once or again, and in any     *)
(* order: the network is a set of segments of this connection, of which    *)
(* any may be lost whenever one is added.  One that is damaged, or is for  *)
(* no socket, is "bad": tcp_input returns -1.  Every SYN has the same      *)
(* number gSeqNum, and nothing in the code tells a segment of an earlier   *)
(* socket from a new one: Outlive says whether such segments arrive.       *)
(***************************************************************************)
EXTENDS Naturals, Sequences, FiniteSets

CONSTANTS
  MaxConnections,   \* MAX_TCP_CONNECTIONS; slot 0 is never used
  ISN,              \* gSeqNum
  Outlive,          \* environment: may a segment outlive its socket?
  MaxSent,          \* bound: bytes the application sends on a connection
  MaxSaid,          \* bound: bytes the server sends on a connection
  MaxOpens,         \* bound: connections the server takes
  NetCap            \* bound: segments that are under way in one direction

ASSUME TcpConstants ==
  /\ MaxConnections \in Nat \ {0, 1} /\ ISN \in Nat /\ Outlive \in BOOLEAN
  /\ MaxSent \in Nat /\ MaxSaid \in Nat /\ MaxOpens \in Nat /\ NetCap \in Nat

SeqCap == ISN + MaxSent + 1   \* bound: the seq with which a FIN is sent
Slots == 1..(MaxConnections - 1)
Idle == [waits |-> 0, closes |-> 0]

VARIABLES
  tcb,       \* gTCB: used, state, remote (is it set?), seq and ack
  call,      \* the waits the call has before it, the slot it closes, or 0
  toPeer, toClient,   \* the segments of this connection
  peer,      \* the server's end of the connection of slot 1
  sent,      \* bytes given to tcp_send on this connection: 1, 2, ...
  taken      \* the server's bytes that tcp_established has acknowledged

vars == <<tcb, call, toPeer, toClient, peer, sent, taken>>

Seg(flags, seq, ack, data) ==
  [flags |-> flags, seq |-> seq, ack |-> ack, data |-> data]

(* What the network may hold after m was sent: it is full, or loses some. *)
Carry(net, m) == {n \in SUBSET (net \cup {m}) : Cardinality(n) <= NetCap}

Bytes(a, b) == [k \in 1..(b + 1 - a) |-> a + k - 1]

FreeTcb == [used |-> FALSE, state |-> "CLOSED", remote |-> FALSE,
            seq |-> 0, ack |-> 0]

Init ==
  /\ tcb = [s \in Slots |-> FreeTcb]
  /\ call = Idle /\ toPeer = {} /\ toClient = {}
  /\ peer = [st |-> "LISTEN", opens |-> 0, rcv |-> 0, got |-> <<>>,
             said |-> 0, finGot |-> FALSE, finSent |-> FALSE]
  /\ sent = 0 /\ taken = <<>>

-----------------------------------------------------------------------------
(* The state machine. *)

(* get_socket: the break is not in the if, so that only slot 1 is looked   *)
(* at; a search for the ports of another slot ends with -1.                *)
GetSocket(s) == IF s = 1 /\ tcb[1].used THEN 1 ELSE 0

(* tcp_kick: what sending a segment does to seq. *)
Kick_DataIsFree(seq, flags, data) ==                    \* mutant
  IF flags = "ACK" THEN seq ELSE seq + 1
Kick(seq, flags, data) == IF flags = "ACK" THEN seq + Len(data) ELSE seq + 1

(* The states in which tcp_switch sends what tcp_output has built. *)
OutState(state, flags) ==
  CASE state = "CLOSED" -> "SYN_SENT"
    [] state = "ESTABLISHED" /\ flags = "FIN" -> "FIN_WAIT1"
    [] state = "ESTABLISHED" /\ flags # "FIN" -> "ESTABLISHED"
    [] OTHER -> "error"

(* tcp_output on a socket whose block is t. *)
Output(s, t, flags, data) ==
  LET state == OutState(t.state, flags)
  IN  IF GetSocket(s) = s /\ state # "error"
      THEN /\ tcb' = [tcb EXCEPT ![s] =
                [t EXCEPT !.state = state, !.seq = Kick(@, flags, data)]]
           /\ IF t.remote THEN toPeer' \in Carry(toPeer, Seg(flags, t.seq, t.ack, data))
              ELSE UNCHANGED toPeer
      ELSE /\ tcb' = [tcb EXCEPT ![s] = t]
           /\ UNCHANGED toPeer

(* The test at the head of tcp_established, tcp_finwait_1 and _2. *)
InSequence_Old(t, m) == m.seq <= t.ack                  \* mutant
InSequence(t, m) == m.seq = t.ack

(* tcp_finwait_1: does the segment acknowledge the FIN? *)
AcksFin_Any(t, m) == m.flags = "ACK"                    \* mutant
AcksFin(t, m) == m.flags = "ACK" /\ m.ack = t.seq

(* tcp_switch on INPUT: the block afterwards. *)
React(t, m) ==
  CASE t.state = "SYN_SENT" /\ m.flags = "SYNACK" ->
         [t EXCEPT !.ack = m.seq + 1, !.state = "ESTABLISHED"]
    [] t.state = "ESTABLISHED" /\ InSequence(t, m) /\ m.flags = "ACK" ->
         [t EXCEPT !.ack = @ + Len(m.data)]
    [] t.state = "FIN_WAIT1" /\ InSequence(t, m) /\ AcksFin(t, m) ->
         [t EXCEPT !.state = "FIN_WAIT2"]
    [] t.state = "FIN_WAIT2" /\ InSequence(t, m) /\ m.flags = "FIN" ->
         [t EXCEPT !.ack = @ + 1, !.state = "CLOSED"]
    [] OTHER -> t

-----------------------------------------------------------------------------
(* The calls.  The application uses the sockets it was given and that      *)
(* tcp_close has not freed, in any order, one call at a time.              *)
Held(s) == call = Idle /\ tcb[s].used

(* tcp_socket: the first free slot; tcp_init leaves remote as it was.      *)
(* What an earlier connection left in the network is still there, unless   *)
(* the environment promises that no segment outlives its socket.           *)
Socket(s) ==
  /\ call = Idle /\ ~tcb[s].used /\ \A q \in 1..(s - 1) : tcb[q].used
  /\ tcb' = [tcb EXCEPT ![s] = [@ EXCEPT !.used = TRUE, !.state = "CLOSED",
                                         !.seq = ISN, !.ack = 0]]
  /\ sent' = IF s = 1 THEN 0 ELSE sent
  /\ IF s = 1 /\ ~Outlive THEN toPeer' = {} /\ toClient' = {}
     ELSE UNCHANGED <<toPeer, toClient>>
  /\ UNCHANGED <<call, peer, taken>>

Enter(waits, closes) == call' = [waits |-> waits, closes |-> closes]

(* tcp_connect, once for a socket or again after a timeout. *)
Connect(s) ==
  /\ Held(s) /\ (tcb[s].seq = ISN \/ tcb[s].state = "SYN_SENT")
  /\ Enter(1, 0)
  /\ Output(s, [tcb[s] EXCEPT !.remote = TRUE], "SYN", <<>>)
  /\ UNCHANGED <<toClient, peer, sent, taken>>

Send(s, n) ==
  /\ Held(s) /\ tcb[s].state = "ESTABLISHED" /\ sent + n <= MaxSent
  /\ Enter(1, 0)
  /\ Output(s, tcb[s], "ACK", Bytes(sent + 1, sent + n))
  /\ sent' = sent + n
  /\ UNCHANGED <<toClient, peer, taken>>

Recv(s) ==
  /\ Held(s) /\ Enter(1, 0)
  /\ UNCHANGED <<tcb, toPeer, toClient, peer, sent, taken>>

Close(s) ==
  /\ Held(s) /\ tcb[s].seq <= SeqCap /\ Enter(2, s)
  /\ Output(s, tcb[s], "FIN", <<>>)
  /\ UNCHANGED <<toClient, peer, sent, taken>>

(* waitIpPacket ends after 10 seconds without a segment: the call returns  *)
(* -1, and tcp_close leaves the slot used.                                 *)
Timeout ==
  /\ call # Idle /\ call' = Idle
  /\ UNCHANGED <<tcb, toPeer, toClient, peer, sent, taken>>

(* The call goes on after a segment: tcp_close waits once more, and frees  *)
(* the slot after the second segment, whatever the two have been.          *)
GoOn == call' = IF call.waits = 2 THEN [call EXCEPT !.waits = 1] ELSE Idle
Freed(t) == IF call.closes # 0 /\ call.waits = 1
            THEN [t EXCEPT ![call.closes].used = FALSE] ELSE t

(* The wait ends with a segment for slot 1, whichever socket waits. *)
TakeGood ==
  /\ call # Idle /\ tcb[1].used /\ tcb[1].remote
  /\ \E m \in toClient :
       LET t == tcb[1]
           r == React(t, m)
       IN  /\ tcb' = Freed([tcb EXCEPT ![1] = r])
           /\ IF r.ack = t.ack THEN UNCHANGED toPeer
              ELSE toPeer' \in Carry(toPeer, Seg("ACK", r.seq, r.ack, <<>>))
           /\ taken' = CASE t.state = "SYN_SENT" /\ r # t -> <<>>
                         [] t.state = "ESTABLISHED" /\ r # t -> taken \o m.data
                         [] OTHER -> taken
  /\ GoOn
  /\ UNCHANGED <<toClient, peer, sent>>

(* The wait ends with a segment that tcp_input refuses: bad checksum, or   *)
(* not for a socket.                                                       *)
TakeBad ==
  /\ call # Idle
  /\ tcb' = Freed(tcb)
  /\ GoOn
  /\ UNCHANGED <<toPeer, toClient, peer, sent, taken>>

-----------------------------------------------------------------------------
(* The server (external): its numbers are fresh with every connection.     *)
Iss == peer.opens * (MaxSaid + 3)
SndNxt(p) == p.opens * (MaxSaid + 3) + 1 + p.said + (IF p.finSent THEN 1 ELSE 0)
Says(flags, seq, p, data) == toClient' \in Carry(toClient, Seg(flags, seq, p.rcv, data))

PeerSyn ==
  /\ peer.st = "LISTEN" /\ peer.opens < MaxOpens
  /\ \E m \in toPeer :
       /\ m.flags = "SYN"
       /\ peer' = [st |-> "SYN_RCVD", opens |-> peer.opens + 1, rcv |-> m.seq + 1,
                   got |-> <<>>, said |-> 0, finGot |-> FALSE, finSent |-> FALSE]
       /\ Says("SYNACK", peer'.opens * (MaxSaid + 3), peer', <<>>)
  /\ UNCHANGED <<tcb, call, toPeer, sent, taken>>

(* A segment in SYN_RCVD must acknowledge the SYNACK; text and FIN are     *)
(* taken in sequence; the server is done when both FINs are acknowledged.  *)
PeerTakes ==
  /\ peer.st # "LISTEN"
  /\ \E m \in toPeer :
       /\ m.flags # "SYN" /\ (peer.st = "SYN_RCVD" => m.ack = SndNxt(peer))
       /\ LET inSeq == m.seq = peer.rcv /\ ~peer.finGot
              fin == m.flags = "FIN" /\ inSeq
              p == [peer EXCEPT
                     !.st = "ESTAB",
                     !.rcv = IF inSeq THEN @ + Len(m.data) + (IF fin THEN 1 ELSE 0) ELSE @,
                     !.got = IF inSeq THEN @ \o m.data ELSE @,
                     !.finGot = @ \/ fin]
          IN  /\ peer' = IF p.finGot /\ p.finSent /\ m.ack = SndNxt(p)
                         THEN [p EXCEPT !.st = "LISTEN"] ELSE p
              /\ IF m.data # <<>> \/ m.flags = "FIN"
                 THEN Says("ACK", SndNxt(p), p, <<>>) ELSE UNCHANGED toClient
  /\ UNCHANGED <<tcb, call, toPeer, sent, taken>>

(* It sends new bytes or old ones again, a FIN, or its SYNACK again. *)
PeerSends ==
  /\ peer.st = "ESTAB"
  /\ \E a \in 1..(peer.said + 1), b \in 1..MaxSaid :
       /\ a <= b /\ (peer.finSent => b <= peer.said)
       /\ peer' = [peer EXCEPT !.said = IF b > @ THEN b ELSE @]
       /\ Says("ACK", Iss + a, peer, Bytes(a, b))
  /\ UNCHANGED <<tcb, call, toPeer, sent, taken>>

PeerFin ==
  /\ peer.st = "ESTAB"
  /\ peer' = [peer EXCEPT !.finSent = TRUE]
  /\ Says("FIN", Iss + 1 + peer.said, peer, <<>>)
  /\ UNCHANGED <<tcb, call, toPeer, sent, taken>>

PeerSynAck ==
  /\ peer.st = "SYN_RCVD" /\ Says("SYNACK", Iss, peer, <<>>)
  /\ UNCHANGED <<tcb, call, toPeer, peer, sent, taken>>

(* It gives the connection up. *)
PeerForgets ==
  /\ peer.st # "LISTEN"
  /\ peer' = [peer EXCEPT !.st = "LISTEN"]
  /\ UNCHANGED <<tcb, call, toPeer, toClient, sent, taken>>

-----------------------------------------------------------------------------
Application ==
  \E s \in Slots : Socket(s) \/ Connect(s) \/ Recv(s) \/ Close(s)
                   \/ \E n \in 1..MaxSent : Send(s, n)
Waiting == Timeout \/ TakeGood \/ TakeBad
Server == PeerSyn \/ PeerTakes \/ PeerSends \/ PeerFin \/ PeerSynAck \/ PeerForgets

Next == Application \/ Waiting \/ Server
Spec == Init /\ [][Next]_vars

-----------------------------------------------------------------------------
(* Are both ends in a connection, and in the same? *)
SameConnection ==
  /\ tcb[1].state \in {"ESTABLISHED", "FIN_WAIT1", "FIN_WAIT2"}
  /\ Iss < tcb[1].ack /\ tcb[1].ack <= SndNxt(peer)

(* tcp_kick counts every byte once (tcp_client.c:224-229), and nothing is  *)
(* sent again: after a loss the server has a gap for ever, but what it has *)
(* is always a prefix of what tcp_send was given.  (It is not if a segment *)
(* of an earlier socket arrives: Outlive.)                                 *)
ServerHasPrefix ==
  SameConnection => Len(peer.got) <= sent /\ peer.got = Bytes(1, Len(peer.got))

(* What the client acknowledges (tcp_client.c:288-304) it has taken from   *)
(* the server once, in order and without a gap, although the server sends  *)
(* again what it believes lost, in segments cut in another way.            *)
AckedOnceInOrder ==
  SameConnection =>
    /\ taken = Bytes(1, Len(taken)) /\ Len(taken) <= peer.said
    /\ tcb[1].ack = Iss + 1 + Len(taken)

(* What the last states mean: FIN_WAIT2 is entered only when the server    *)
(* has every byte and the FIN (tcp_client.c:334), and left for CLOSED by a *)
(* segment only when the client has acknowledged every byte of the server, *)
(* and its FIN (line 352).  tcp_close itself promises neither: it frees    *)
(* the slot after any two segments.                                        *)
OrderlyEnd ==
  [][SameConnection =>
      /\ (tcb[1].state = "FIN_WAIT1" /\ tcb'[1].state = "FIN_WAIT2" =>
           peer.got = Bytes(1, sent) /\ peer.finGot)
      /\ (tcb[1].state = "FIN_WAIT2" /\ tcb'[1].state = "CLOSED" /\ tcb'[1].ack > 0 =>
           Len(taken) = peer.said /\ peer.finSent)]_vars
=============================================================================
