------------------------------ MODULE GoBackN -------------------------------
(***************************************************************************)
(* The data path of STCP (lab6): the first stcp_client_send() on a         *)
(* connection, from the return of stcp_client_connect() to the last acked  *)
(* segment.  Four threads and the overlay TCP connection take part:        *)
(*                                                                         *)
(*   main          the caller of stcp_client_send: builds the send buffer, *)
(*                 starts the timer thread, polls until the buffer is      *)
(*                 empty;                                                  *)
(*   sendBuf_timer resends head..unSent and sends new segments while the   *)
(*                 window has room, once per DATA_TIMEOUT;                 *)
(*   client seghandler   handles SYNACK and DATAACK;                       *)
(*   server seghandler   handles late SYNs and DATA;                       *)
(*   server app    calls stcp_server_recv().                               *)
(*                                                                         *)
(* The critical sections under bufMutex are single steps.  The appends of  *)
(* main are not under the mutex, but on the first send no other thread     *)
(* reaches the buffer before pthread_create: no DATA is out, so there is   *)
(* no DATAACK.  (Later sends do race: module SendBuffer.)                  *)
(*                                                                         *)
(* The overlay is one TCP connection, so each direction is FIFO; a segment *)
(* is lost only in the receiver's sip_recvseg (seglost, checksum).         *)
(***************************************************************************)
EXTENDS Naturals, Sequences

CONSTANTS
  ISN,          \* seq_num of the SYN, the client's next_seqNum at connect
  Length,       \* the length argument of stcp_client_send
  MaxSegLen,    \* MAX_SEG_LEN
  GbnWindow,    \* GBN_WINDOW
  RecvLen,      \* the length argument of every stcp_server_recv
  CopyOrders,   \* directions in which the C library's memcpy may copy
  DupSyn,       \* bound: SYNs and SYNACKs still under way after connect
  NetCap        \* bound: segments under way in one direction

ASSUME ConstantsOK ==
  /\ ISN \in Nat /\ Length \in Nat
  /\ MaxSegLen \in Nat \ {0} /\ GbnWindow \in Nat \ {0}
  /\ RecvLen \in Nat \ {0} /\ CopyOrders \subseteq {"up", "down"}
  /\ DupSyn \in Nat /\ NetCap \in Nat

VARIABLES
  mainPc,       \* "append", "wait" (polling) or "done" (send returned)
  timerPc,      \* "none", "running" or "exited"
  segs,         \* every segment appended to the send buffer, oldest first
  head,         \* sendBufHead, as an index into segs
  unSent,       \* sendBufunSent, as an index into segs
  unAck,        \* unAck_segNum
  nextSeq,      \* next_seqNum
  c2s, s2c,     \* segments under way, oldest first
  expect,       \* expect_seqNum
  recvBuf,      \* the first usedBufLen bytes of recvBuf
  delivered     \* everything stcp_server_recv has copied out, in order

clientVars == <<mainPc, timerPc, segs, head, unSent, unAck, nextSeq>>
serverVars == <<expect, recvBuf, delivered>>
vars == <<clientVars, c2s, s2c, serverVars>>

Base == ISN + 1                 \* seq_num of the first data byte
Null == Len(segs) + 1           \* the index that stands for a NULL pointer

(* The number of segments of a call and the length of the i-th. *)
SegNum == Length \div MaxSegLen + IF Length % MaxSegLen # 0 THEN 1 ELSE 0

SegLen(i) == IF Length % MaxSegLen # 0 /\ i = SegNum
             THEN Length % MaxSegLen ELSE MaxSegLen

(* A byte of user data is known by its offset in the caller's buffer. *)
Bytes(off, n) == [b \in 1..n |-> off + b]

Data(s) == [type |-> "DATA", seq |-> s.seq, len |-> s.len, off |-> s.off]
Syn == [type |-> "SYN", seq |-> ISN]
Ack(type, n) == [type |-> type, ack |-> n]

-----------------------------------------------------------------------------
(* stcp_client_connect has just returned 1 and stcp_server_accept too.  It *)
(* may have sent up to SYN_MAX_RETRY SYNs, so some SYNs and SYNACKs can    *)
(* still be on their way.                                                  *)
Init ==
  /\ mainPc = "append" /\ timerPc = "none"
  /\ segs = <<>> /\ head = 1 /\ unSent = 1 /\ unAck = 0 /\ nextSeq = Base
  /\ \E n \in 0..DupSyn : \E m \in 0..(DupSyn - n) :
       /\ c2s = [k \in 1..n |-> Syn]
       /\ s2c = [k \in 1..m |-> Ack("SYNACK", Base)]
  /\ expect = Base /\ recvBuf = <<>> /\ delivered = <<>>

-----------------------------------------------------------------------------
(* One iteration of the loop that cuts the data into segments.  An empty   *)
(* buffer gets head, unSent and tail set to the new segment; otherwise the *)
(* segment is linked behind the tail.  With indices both leave head and    *)
(* unSent as they are: NULL is the index of the segment to come.           *)
AppendSeg ==
  /\ mainPc = "append" /\ Len(segs) < SegNum
  /\ LET i == Len(segs) + 1
     IN  /\ segs' = Append(segs, [seq |-> nextSeq, len |-> SegLen(i),
                                  off |-> (i - 1) * MaxSegLen])
         /\ nextSeq' = nextSeq + SegLen(i)
  /\ UNCHANGED <<mainPc, timerPc, head, unSent, unAck, c2s, s2c, serverVars>>

(* The loop is over: start sendBuf_timer and begin to poll. *)
StartTimer ==
  /\ mainPc = "append" /\ Len(segs) = SegNum
  /\ mainPc' = "wait" /\ timerPc' = "running"
  /\ UNCHANGED <<segs, head, unSent, unAck, nextSeq, c2s, s2c, serverVars>>

(* The test of main's poll and of the timer. *)
AllSent == unSent = Null                                \* mutant
SendBufEmpty == head = Null

(* A poll under the mutex that finds the buffer empty: send returns. *)
SendReturns ==
  /\ mainPc = "wait" /\ SendBufEmpty
  /\ mainPc' = "done"
  /\ UNCHANGED <<timerPc, segs, head, unSent, unAck, nextSeq,
                 c2s, s2c, serverVars>>

NewSegs_OffByOne == LET room == IF unAck <= GbnWindow   \* mutant
                                THEN GbnWindow + 1 - unAck ELSE 0
                        left == Null - unSent
                    IN  IF room < left THEN room ELSE left

(* How many new segments a round sends: the loop runs while the window has *)
(* room and there is an unsent segment.                                    *)
NewSegs == LET room == IF unAck < GbnWindow THEN GbnWindow - unAck ELSE 0
               left == Null - unSent
           IN  IF room < left THEN room ELSE left

(* The resending loop of a round starts at the head of the buffer. *)
ResendFrom_None == unSent                               \* mutant
ResendFrom == head

(* What a round sends: all sent and unacknowledged segments again, then    *)
(* the new ones.                                                           *)
Burst == [k \in 1..((unSent + NewSegs) - ResendFrom) |->
            Data(segs[ResendFrom + k - 1])]

(* A round of sendBuf_timer that finds a segment in the buffer.  It fits   *)
(* into the channel: a full TCP connection would hold the round up.        *)
TimerRound ==
  /\ timerPc = "running" /\ ~SendBufEmpty
  /\ Len(c2s) + Len(Burst) <= NetCap
  /\ c2s' = c2s \o Burst
  /\ unAck' = unAck + NewSegs
  /\ unSent' = unSent + NewSegs
  /\ UNCHANGED <<mainPc, timerPc, segs, head, nextSeq, s2c, serverVars>>

(* A round that finds the buffer empty: the thread ends. *)
TimerExit ==
  /\ timerPc = "running" /\ SendBufEmpty
  /\ timerPc' = "exited"
  /\ UNCHANGED <<mainPc, segs, head, unSent, unAck, nextSeq,
                 c2s, s2c, serverVars>>

-----------------------------------------------------------------------------
StopsAt_Inclusive(h, ack) ==                            \* mutant
  /\ \A j \in head..(h - 1) : j # unSent /\ segs[j].seq <= ack
  /\ h # Null /\ h # unSent => segs[h].seq > ack

(* Where the loop of the DATAACK handler stops: the first segment that is  *)
(* NULL, unsent, or not covered by the ack.                                *)
StopsAt(h, ack) ==
  /\ \A j \in head..(h - 1) : j # unSent /\ segs[j].seq < ack
  /\ h # Null /\ h # unSent => segs[h].seq >= ack

UnAckAfter_OneMore(h) == (unAck - (h - head)) - 1       \* mutant

(* unAck_segNum after the segments head..h-1 are freed. *)
UnAckAfter(h) == IF h = Null THEN 0 ELSE unAck - (h - head)

(* DATAACK: free the acknowledged segments; an empty buffer also resets    *)
(* unSent and the counter.                                                 *)
ClientDataAck ==
  /\ s2c # <<>> /\ Head(s2c).type = "DATAACK"
  /\ \E h \in head..Null :
       /\ StopsAt(h, Head(s2c).ack)
       /\ head' = h
       /\ unSent' = IF h = Null THEN Null ELSE unSent
       /\ unAck' = UnAckAfter(h)
  /\ s2c' = Tail(s2c)
  /\ UNCHANGED <<mainPc, timerPc, segs, nextSeq, c2s, serverVars>>

(* A SYNACK in CONNECTED is ignored. *)
ClientSynAck ==
  /\ s2c # <<>> /\ Head(s2c).type = "SYNACK"
  /\ s2c' = Tail(s2c)
  /\ UNCHANGED <<clientVars, c2s, serverVars>>

(* sip_recvseg on either side drops a segment.  The server's thread reads  *)
(* the next segment only after the answer to the last one is on its way.   *)
ClientLoses ==
  /\ s2c # <<>> /\ s2c' = Tail(s2c)
  /\ UNCHANGED <<clientVars, c2s, serverVars>>

ServerLoses ==
  /\ c2s # <<>> /\ Len(s2c) < NetCap
  /\ c2s' = Tail(c2s)
  /\ UNCHANGED <<clientVars, s2c, serverVars>>

-----------------------------------------------------------------------------
(* The segment after a SYN is the first of the data. *)
AfterSyn_Same(m) == m.seq                               \* mutant
AfterSyn(m) == m.seq + 1

(* A SYN in CONNECTED: expect_seqNum is set again and a SYNACK is sent. *)
ServerSyn ==
  /\ c2s # <<>> /\ Head(c2s).type = "SYN" /\ Len(s2c) < NetCap
  /\ c2s' = Tail(c2s)
  /\ expect' = AfterSyn(Head(c2s))
  /\ s2c' = Append(s2c, Ack("SYNACK", expect'))
  /\ UNCHANGED <<clientVars, recvBuf, delivered>>

(* The test for storing a segment. *)
IsExpected_NotOld(m) == expect <= m.seq                 \* mutant
IsExpected(m) == expect = m.seq

(* DATA in CONNECTED: the expected segment is stored, and every segment is *)
(* answered with the number of the next byte expected.                     *)
ServerData ==
  /\ c2s # <<>> /\ Head(c2s).type = "DATA" /\ Len(s2c) < NetCap
  /\ c2s' = Tail(c2s)
  /\ LET m == Head(c2s)
     IN  IF IsExpected(m)
         THEN /\ expect' = expect + m.len
              /\ recvBuf' = recvBuf \o Bytes(m.off, m.len)
         ELSE UNCHANGED <<expect, recvBuf>>
  /\ s2c' = Append(s2c, Ack("DATAACK", expect'))
  /\ UNCHANGED <<clientVars, delivered>>

(* What memcpy(recvBuf, recvBuf + n, used - n) leaves in front: the two    *)
(* areas overlap when used > 2n, and a copy from the high end downwards    *)
(* then reads bytes it has already written.                                *)
MovedDown(buf, n, order) ==
  LET rest == Len(buf) - n
  IN  [k \in 1..rest |->
         IF order = "up" THEN buf[n + k]
                         ELSE buf[k + n * ((rest + n - k) \div n)]]

(* A stcp_server_recv whose poll finds enough bytes. *)
ServerRecv ==
  /\ Len(recvBuf) >= RecvLen
  /\ delivered' = delivered \o SubSeq(recvBuf, 1, RecvLen)
  /\ \E order \in CopyOrders : recvBuf' = MovedDown(recvBuf, RecvLen, order)
  /\ UNCHANGED <<clientVars, c2s, s2c, expect>>

-----------------------------------------------------------------------------
(* The call is over and nothing is left to do. *)
Finished ==
  /\ mainPc = "done" /\ timerPc = "exited" /\ c2s = <<>> /\ s2c = <<>>
  /\ Len(recvBuf) < RecvLen
  /\ UNCHANGED vars

Main == AppendSeg \/ StartTimer \/ SendReturns
Timer == TimerRound \/ TimerExit
ClientSeghandler == ClientDataAck \/ ClientSynAck \/ ClientLoses
ServerSeghandler == ServerSyn \/ ServerData \/ ServerLoses

Next == Main \/ Timer \/ ClientSeghandler \/ ServerSeghandler \/ ServerRecv
          \/ Finished

(* Every thread that can run does; losses are independent random draws, so *)
(* a segment that keeps being sent is not lost for ever.                   *)
DeliverSeg(i) == /\ i \in 1..Len(segs) /\ c2s # <<>>
                 /\ Head(c2s) = Data(segs[i])
                 /\ ServerData

Fairness ==
  /\ WF_vars(Main) /\ WF_vars(Timer) /\ WF_vars(ServerRecv)
  /\ WF_vars(ClientSeghandler) /\ WF_vars(ServerSeghandler)
  /\ SF_vars(ClientDataAck)
  /\ \A i \in 1..SegNum : SF_vars(DeliverSeg(i))

Spec == Init /\ [][Next]_vars
FairSpec == Spec /\ Fairness
-----------------------------------------------------------------------------
SegType == [seq : Nat, len : Nat \ {0}, off : Nat]
DataType == [type : {"DATA"}, seq : Nat, len : Nat \ {0}, off : Nat]
SynType == [type : {"SYN"}, seq : {ISN}]
AckType == [type : {"SYNACK", "DATAACK"}, ack : Nat]

(* The type invariant.  The pointers of the send buffer stay between its   *)
(* first segment and NULL, and unSent is never behind head.                *)
TypeOK ==
  /\ mainPc \in {"append", "wait", "done"}
  /\ timerPc \in {"none", "running", "exited"}
  /\ segs \in Seq(SegType)
  /\ head \in Nat \ {0} /\ unSent \in Nat /\ unAck \in Nat /\ nextSeq \in Nat
  /\ head <= unSent /\ unSent <= Null
  /\ c2s \in Seq(DataType \cup SynType) /\ s2c \in Seq(AckType)
  /\ expect \in Nat /\ recvBuf \in Seq(Nat) /\ delivered \in Seq(Nat)

(* Segment s is in the server's receive buffer or was read from there. *)
Accepted(s) == s.seq + s.len <= expect

(* The counter unAck_segNum, kept by three loops of two threads, is the    *)
(* number of segments sent and not yet freed, and the window bounds it.    *)
WindowInv == unAck = unSent - head /\ unAck <= GbnWindow

(* stcp_client.c:397, assert(tp->unAck_segNum == 0): the timer thread      *)
(* never finds an empty buffer and a counter that is not 0.                *)
TimerAssertion == timerPc = "running" /\ head = Null => unAck = 0

(* The client frees a segment only after the server has stored its bytes,  *)
(* whatever was lost, resent or acknowledged twice.                        *)
FreedOnlyAccepted == \A i \in 1..(head - 1) : Accepted(segs[i])

(* When stcp_client_send returns, every segment of the call has reached    *)
(* the server's receive buffer.                                            *)
ReturnMeansAccepted ==
  mainPc = "done" => Len(segs) = SegNum /\ \A i \in 1..SegNum : Accepted(segs[i])

(* The bytes the application has read, followed by those in the receive    *)
(* buffer, are a prefix of the caller's data: nothing is lost, repeated,   *)
(* or out of order.                                                        *)
InOrder == /\ \A k \in 1..Len(delivered) : delivered[k] = k
           /\ \A k \in 1..Len(recvBuf) : recvBuf[k] = Len(delivered) + k

(* A SYN that arrives after the connection is up sets expect_seqNum again  *)
(* (stcp_server.c:209), but it never goes back: FIFO delivery brings the   *)
(* SYNs before any data.                                                   *)
ExpectNeverDecreases == [][expect' >= expect]_vars

(* Every call of stcp_client_send returns, its timer thread ends and the   *)
(* traffic dies out.                                                       *)
SendCompletes == <>[](/\ mainPc = "done" /\ timerPc = "exited"
                      /\ c2s = <<>> /\ s2c = <<>>)

(* The protocol implements the byte stream of module ReliableStream. *)
Stream == INSTANCE ReliableStream
            WITH inbox <- recvBuf, read <- delivered,
                 status <- IF mainPc = "done" THEN "returned" ELSE "sending"
ImplementsStream == Stream!Spec

-----------------------------------------------------------------------------
(* The inductive invariant of the safety proofs, by parts. *)

(* The segments of the buffer follow one another without gaps. *)
BufInv ==
  /\ Len(segs) <= SegNum
  /\ mainPc # "append" => Len(segs) = SegNum
  /\ nextSeq >= Base
  /\ segs = <<>> => nextSeq = Base
  /\ segs # <<>> => nextSeq = segs[Len(segs)].seq + segs[Len(segs)].len
  /\ \A i \in 1..Len(segs) :
       /\ segs[i].seq >= Base /\ segs[i].off = segs[i].seq - Base
       /\ segs[i].len = SegLen(i) /\ segs[i].off = (i - 1) * MaxSegLen
       /\ segs[i].seq + segs[i].len <= nextSeq
       /\ \A j \in 1..(i - 1) : segs[j].seq + segs[j].len <= segs[i].seq
       /\ i > 1 => segs[i - 1].seq + segs[i - 1].len = segs[i].seq

(* Before the timer starts nothing was sent; afterwards only sent segments *)
(* are under way.  SYNs are in front of all data, and as long as one is    *)
(* under way nothing was stored.                                           *)
ChannelInv ==
  /\ mainPc = "append" <=> timerPc = "none"
  /\ mainPc = "append" => head = 1 /\ unSent = 1
  /\ \A k \in 1..Len(c2s) :
       /\ c2s[k].type = "DATA" =>
            \E i \in 1..Len(segs) : i < unSent /\ c2s[k] = Data(segs[i])
       /\ c2s[k].type = "SYN" =>
            /\ expect = Base
            /\ \A j \in 1..k : c2s[j].type = "SYN"
  /\ \A k \in 1..Len(s2c) : s2c[k].ack <= expect

(* expect_seqNum counts the stored bytes and is never inside a segment; no *)
(* unsent segment was stored.                                              *)
ExpectInv ==
  /\ expect = Base + Len(delivered) + Len(recvBuf)
  /\ expect <= nextSeq
  /\ \A i \in 1..Len(segs) :
       /\ segs[i].seq < expect => segs[i].seq + segs[i].len <= expect
       /\ i >= unSent => expect <= segs[i].seq

DoneInv == mainPc = "done" => head = Null

IInv == /\ TypeOK /\ BufInv /\ WindowInv /\ ChannelInv /\ ExpectInv /\ DoneInv
        /\ FreedOnlyAccepted
=============================================================================
