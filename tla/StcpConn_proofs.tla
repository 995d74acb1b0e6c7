-------------------------- MODULE StcpConn_proofs ---------------------------
(***************************************************************************)
(* Proofs about the connection management of STCP, for every number of     *)
(* connections, of retries and of calls.  All of them rest on four facts   *)
(* that stay true once they are: a client that has dialed, one that has    *)
(* left the calm before its FIN, a server's TCB that has been connected,   *)
(* and one that is done with its connection.                               *)
(***************************************************************************)
EXTENDS StcpConn, FiniteSetTheorems, TLAPS

RequestType == [type : {"SYN", "FIN"}, conn : Conn, num : Nat]
AnswerType == [type : {"SYNACK", "FINACK"}, conn : Conn, num : Nat]
HandType == [at : {"setConnected", "setSeq", "setClosed"}, conn : Conn, num : Nat]

(* The segments of a channel. *)
In(s) == {s[k] : k \in 1..Len(s)}

ClientTypes ==
  /\ cState \in [Conn -> {"NULL", "CLOSED", "SYNSENT", "CONNECTED", "FINWAIT", "FREED"}]
  /\ cSeq \in [Conn -> Nat] /\ cNum \in [Conn -> Nat] /\ cTries \in [Conn -> 0..MaxRetry]
  /\ cPc \in [Conn -> {"start", "made", "syn", "synSleep", "synLost", "up", "failed",
                       "fin", "finSleep", "finLost", "down", "down?", "closed"}]
  /\ cCalls \in [Conn -> 0..MaxConnects]
  /\ cHand = Idle \/ cHand \in HandType

ServerTypes ==
  /\ sState \in [Conn -> {"NULL", "CLOSED", "LISTENING", "CONNECTED", "CLOSEWAIT"}]
  /\ sExpect \in [Conn -> Nat] /\ sPort \in [Conn -> BOOLEAN]
  /\ sPc \in [Conn -> {"start", "made", "accept", "accepted", "closed"}]
  /\ sClock \in [Conn -> Nat]
  /\ sHand = Idle \/ sHand \in [at : {"finack"}, conn : Conn]
  /\ gsem \in Nat /\ aborted \in BOOLEAN

NetTypes == c2s \in Seq(RequestType) /\ s2c \in Seq(AnswerType)

(* Facts that stay true. *)
Dialed(i) == cPc[i] \notin {"start", "made"}
Calm(i) == cPc[i] \in {"start", "made", "syn", "synSleep", "synLost", "up", "failed"}
WasUp(i) == sPc[i] \notin {"start", "made"} /\ sState[i] # "LISTENING"
Gone(i) == sPc[i] \notin {"start", "made"} /\ sState[i] \in {"CLOSEWAIT", "CLOSED", "NULL"}

(* While a client has called connect once, both sides number from 0 and 1. *)
First(i) == cCalls[i] <= 1

ServerInv ==
  \A i \in Conn :
    /\ sPc[i] = "start" => sState[i] = "NULL"
    /\ sPc[i] = "made" => sState[i] = "CLOSED"
    /\ sClock[i] > 0 => sClock[i] = 1 /\ sState[i] = "CLOSEWAIT"
    /\ sPort[i] => WasUp(i)
    /\ sState[i] = "CONNECTED" /\ First(i) => sExpect[i] = 1

CalmInv == \A i \in Conn : Calm(i) => ~Gone(i)

ClientInv ==
  \A i \in Conn :
    /\ ~Dialed(i) => cSeq[i] = 0 /\ cCalls[i] = 0
    /\ cPc[i] \in {"syn", "synSleep", "synLost", "failed"} => cCalls[i] >= 1
    /\ cPc[i] \in {"syn", "synSleep"} /\ First(i) => cNum[i] = 0
    /\ cPc[i] \in {"synLost", "finLost"} => cTries[i] = MaxRetry

UpInv ==
  \A i \in Conn : cState[i] = "CONNECTED" \/ cPc[i] = "up" =>
    WasUp(i) /\ (First(i) => cSeq[i] = 1 \/ SeqPending(i))

DownInv ==
  \A i \in Conn :
    /\ cPc[i] \in {"fin", "finSleep", "finLost"} /\ cState[i] = "CLOSED" => Gone(i)
    /\ cPc[i] = "down" => Gone(i)

RequestOK(m) ==
  /\ Dialed(m.conn)
  /\ m.type = "FIN" => ~Calm(m.conn)
  /\ m.type = "SYN" /\ First(m.conn) => m.num = 0

AnswerOK(m) ==
  /\ Dialed(m.conn)
  /\ m.type = "SYNACK" => WasUp(m.conn) /\ (First(m.conn) => m.num = 1)
  /\ m.type = "FINACK" => Gone(m.conn)

NetInv == (\A m \in In(c2s) : RequestOK(m)) /\ (\A m \in In(s2c) : AnswerOK(m))

(* The client's handler is on its way to store; only a caller who gave up  *)
(* after its last try has moved the state away under it.                   *)
HandInv ==
  cHand # Idle => LET i == cHand.conn IN
    /\ Dialed(i)
    /\ cHand.at # "setClosed" => WasUp(i) /\ (First(i) => cHand.num = 1)
    /\ cHand.at = "setClosed" => Gone(i)
    /\ \/ cState[i] \in {"SYNSENT", "CONNECTED", "FINWAIT"}
       \/ cPc[i] \in {"failed", "down?", "closed"} /\ cTries[i] = MaxRetry

FinAckInv == sHand # Idle => Gone(sHand.conn)

IInv ==
  /\ ClientTypes /\ ServerTypes /\ NetTypes
  /\ ServerInv /\ CalmInv /\ ClientInv /\ UpInv /\ DownInv
  /\ NetInv /\ HandInv /\ FinAckInv /\ SemCount

-----------------------------------------------------------------------------
(* Channels as sets of segments. *)
LEMMA InType ==
  ASSUME NEW S, NEW s \in Seq(S)
  PROVE  In(s) \subseteq S
BY DEF In

LEMMA InAppend ==
  ASSUME NEW S, NEW s \in Seq(S), NEW x \in S
  PROVE  Append(s, x) \in Seq(S) /\ In(Append(s, x)) \subseteq In(s) \cup {x}
<1>1. /\ Append(s, x) \in Seq(S) /\ Len(Append(s, x)) = Len(s) + 1 /\ Len(s) \in Nat
      /\ \A k \in 1..Len(s) : Append(s, x)[k] = s[k]
      /\ Append(s, x)[Len(s) + 1] = x
  OBVIOUS
<1>2. \A k \in 1..(Len(s) + 1) : k \in 1..Len(s) \/ k = Len(s) + 1
  BY <1>1
<1> QED BY <1>1, <1>2 DEF In

LEMMA InTail ==
  ASSUME NEW S, NEW s \in Seq(S), s # <<>>
  PROVE  /\ Tail(s) \in Seq(S) /\ In(Tail(s)) \subseteq In(s)
         /\ Head(s) \in In(s) /\ Head(s) \in S
<1>1. /\ Tail(s) \in Seq(S) /\ Len(Tail(s)) = Len(s) - 1 /\ Len(s) \in Nat /\ Len(s) > 0
      /\ \A k \in 1..Len(Tail(s)) : Tail(s)[k] = s[k + 1]
      /\ Head(s) = s[1] /\ s[1] \in S
  OBVIOUS
<1>2. \A k \in 1..Len(Tail(s)) : k + 1 \in 1..Len(s)
  BY <1>1
<1>3. 1 \in 1..Len(s)
  BY <1>1
<1> QED BY <1>1, <1>2, <1>3 DEF In

(* What an action must do to the facts that stay true, and what follows    *)
(* for all that is under way.                                              *)
Steady ==
  \A i \in Conn :
    /\ Dialed(i) => Dialed(i)'
    /\ ~Calm(i) => ~Calm(i)'
    /\ WasUp(i) => WasUp(i)'
    /\ Gone(i) => Gone(i)'
    /\ First(i)' => First(i)

LEMMA UnderWay ==
  ASSUME IInv, Steady
  PROVE  /\ \A m \in In(c2s) : RequestOK(m)'
         /\ \A m \in In(s2c) : AnswerOK(m)'
         /\ sHand' \in {sHand, Idle} => FinAckInv'
<1>1. In(c2s) \subseteq RequestType /\ In(s2c) \subseteq AnswerType
  BY InType DEF IInv, NetTypes
<1>2. \A m \in In(c2s) : m.conn \in Conn /\ RequestOK(m)
  BY <1>1 DEF IInv, NetInv, RequestType
<1>3. \A m \in In(s2c) : m.conn \in Conn /\ AnswerOK(m)
  BY <1>1 DEF IInv, NetInv, AnswerType
<1>4. \A m \in In(c2s) : RequestOK(m)'
  BY <1>2 DEF Steady, RequestOK
<1>5. \A m \in In(s2c) : AnswerOK(m)'
  BY <1>3 DEF Steady, AnswerOK
<1>6. sHand' \in {sHand, Idle} => FinAckInv'
  BY DEF IInv, ServerTypes, FinAckInv, Steady, Idle
<1> QED BY <1>4, <1>5, <1>6

-----------------------------------------------------------------------------
LEMMA InitInv == Init => IInv
<1> SUFFICES ASSUME Init PROVE IInv OBVIOUS
<1> USE ConnConstants DEF Init
<1>1. ClientTypes /\ ServerTypes /\ NetTypes
  <2>1. 0 \in 0..MaxRetry /\ 0 \in 0..MaxConnects
    OBVIOUS
  <2>2. ClientTypes
    BY <2>1 DEF ClientTypes
  <2>3. ServerTypes
    BY DEF ServerTypes
  <2>4. NetTypes
    BY DEF NetTypes
  <2> QED BY <2>2, <2>3, <2>4
<1>2. ServerInv /\ CalmInv /\ ClientInv /\ UpInv /\ DownInv
  BY DEF ServerInv, CalmInv, ClientInv, UpInv, DownInv, Calm, Gone, WasUp, Dialed, First
<1>3. In(c2s) = {} /\ In(s2c) = {}
  BY DEF In
<1>4. NetInv /\ HandInv /\ FinAckInv
  BY <1>3 DEF NetInv, HandInv, FinAckInv
<1>5. SemCount
  <2>1. /\ {i \in Conn : sPc[i] \notin {"start", "made"} /\ sState[i] # "LISTENING"} = {}
        /\ {i \in Conn : sPc[i] \in {"accepted", "closed"}} = {}
    OBVIOUS
  <2>2. Cardinality({}) = 0
    BY FS_EmptySet
  <2>3. gsem + Cardinality({}) = Cardinality({})
    BY <2>2
  <2> QED BY <2>1, <2>3, Zenon DEF SemCount
<1> QED BY <1>1, <1>2, <1>4, <1>5 DEF IInv

(***************************************************************************)
(* One lemma per action: it keeps the inductive invariant.  First those of *)
(* the client's callers.                                                   *)
(***************************************************************************)
LEMMA ClientSockInv == ASSUME IInv, NEW i \in Conn, ClientSock(i) PROVE IInv'
<1> USE ConnConstants DEF IInv, ClientSock, serverVars
<1>1. ClientTypes' /\ ServerTypes' /\ NetTypes'
  <2>1. ClientTypes'
    BY DEF ClientTypes
  <2>2. ServerTypes'
    BY DEF ServerTypes
  <2>3. NetTypes'
    BY DEF NetTypes
  <2> QED BY <2>1, <2>2, <2>3
<1>2. Steady
  BY DEF Steady, Dialed, Calm, WasUp, Gone, First, ClientTypes
<1>3. ServerInv' /\ CalmInv' /\ SemCount'
  BY DEF ServerInv, CalmInv, SemCount, ClientTypes, Calm, Gone, WasUp, First
<1>4. ClientInv'
  BY DEF ClientInv, ClientTypes, Dialed, First
<1>5. UpInv'
  BY DEF UpInv, ClientTypes, ClientInv, WasUp, First, SeqPending, Dialed
<1>6. DownInv'
  BY DEF DownInv, ClientTypes, Gone
<1>7. NetInv' /\ FinAckInv'
  BY <1>2, UnderWay DEF NetInv
<1>8. HandInv'
  BY DEF HandInv, HandType, ClientTypes, ClientInv, Dialed, WasUp, Gone, First, Idle
<1> QED BY <1>1, <1>3, <1>4, <1>5, <1>6, <1>7, <1>8

LEMMA ConnectStartInv == ASSUME IInv, NEW i \in Conn, ConnectStart(i) PROVE IInv'
<1> USE ConnConstants DEF IInv, ConnectStart, serverVars
<1>1. ClientTypes' /\ ServerTypes' /\ NetTypes'
  <2>1. cCalls[i] + 1 \in 0..MaxConnects /\ 0 \in 0..MaxRetry /\ cSeq[i] \in Nat
    BY DEF ClientTypes
  <2>2. ClientTypes'
    BY <2>1 DEF ClientTypes
  <2>3. ServerTypes' /\ NetTypes'
    BY DEF ServerTypes, NetTypes
  <2> QED BY <2>2, <2>3
<1>2. Steady
  BY DEF Steady, Dialed, Calm, WasUp, Gone, First, ClientTypes
<1>3. ServerInv' /\ CalmInv' /\ SemCount'
  BY DEF ServerInv, CalmInv, SemCount, ClientTypes, Calm, Gone, WasUp, First
<1>4. ClientInv'
  BY DEF ClientInv, ClientTypes, Dialed, First
<1>5. UpInv'
  BY DEF UpInv, ClientTypes, ClientInv, WasUp, First, SeqPending, Dialed
<1>6. DownInv'
  BY DEF DownInv, ClientTypes, Gone
<1>7. NetInv' /\ FinAckInv'
  BY <1>2, UnderWay DEF NetInv
<1>8. HandInv'
  BY DEF HandInv, HandType, ClientTypes, ClientInv, Dialed, WasUp, Gone, First, Idle
<1> QED BY <1>1, <1>3, <1>4, <1>5, <1>6, <1>7, <1>8

LEMMA DisconnectStartInv == ASSUME IInv, NEW i \in Conn, DisconnectStart(i) PROVE IInv'
<1> USE ConnConstants DEF IInv, DisconnectStart, serverVars
<1>1. ClientTypes' /\ ServerTypes' /\ NetTypes'
  <2>1. ClientTypes'
    BY DEF ClientTypes
  <2>2. ServerTypes'
    BY DEF ServerTypes
  <2>3. NetTypes'
    BY DEF NetTypes
  <2> QED BY <2>1, <2>2, <2>3
<1>2. Steady
  BY DEF Steady, Dialed, Calm, WasUp, Gone, First, ClientTypes
<1>3. ServerInv' /\ CalmInv' /\ SemCount'
  BY DEF ServerInv, CalmInv, SemCount, ClientTypes, Calm, Gone, WasUp, First
<1>4. ClientInv'
  BY DEF ClientInv, ClientTypes, Dialed, First
<1>5. UpInv'
  BY DEF UpInv, ClientTypes, ClientInv, WasUp, First, SeqPending, Dialed
<1>6. DownInv'
  BY DEF DownInv, ClientTypes, Gone
<1>7. NetInv' /\ FinAckInv'
  BY <1>2, UnderWay DEF NetInv
<1>8. HandInv'
  BY DEF HandInv, HandType, ClientTypes, ClientInv, Dialed, WasUp, Gone, First, Idle
<1> QED BY <1>1, <1>3, <1>4, <1>5, <1>6, <1>7, <1>8

LEMMA ClientCloseInv == ASSUME IInv, NEW i \in Conn, ClientClose(i) PROVE IInv'
<1> USE ConnConstants DEF IInv, ClientClose, serverVars
<1>1. ClientTypes' /\ ServerTypes' /\ NetTypes'
  <2>1. ClientTypes'
    BY DEF ClientTypes
  <2>2. ServerTypes'
    BY DEF ServerTypes
  <2>3. NetTypes'
    BY DEF NetTypes
  <2> QED BY <2>1, <2>2, <2>3
<1>2. Steady
  BY DEF Steady, Dialed, Calm, WasUp, Gone, First, ClientTypes
<1>3. ServerInv' /\ CalmInv' /\ SemCount'
  BY DEF ServerInv, CalmInv, SemCount, ClientTypes, Calm, Gone, WasUp, First
<1>4. ClientInv'
  BY DEF ClientInv, ClientTypes, Dialed, First
<1>5. UpInv'
  BY DEF UpInv, ClientTypes, ClientInv, WasUp, First, SeqPending, Dialed
<1>6. DownInv'
  BY DEF DownInv, ClientTypes, Gone
<1>7. NetInv' /\ FinAckInv'
  BY <1>2, UnderWay DEF NetInv
<1>8. HandInv'
  BY DEF HandInv, HandType, ClientTypes, ClientInv, Dialed, WasUp, Gone, First, Idle
<1> QED BY <1>1, <1>3, <1>4, <1>5, <1>6, <1>7, <1>8

LEMMA SynWakeUpInv == ASSUME IInv, NEW i \in Conn, SynWakeUp(i) PROVE IInv'
<1> USE ConnConstants DEF IInv, SynWakeUp, WakeUp, serverVars
<1>1. ClientTypes' /\ ServerTypes' /\ NetTypes'
  <2>1. ClientTypes'
    BY DEF ClientTypes
  <2>2. ServerTypes'
    BY DEF ServerTypes
  <2>3. NetTypes'
    BY DEF NetTypes
  <2> QED BY <2>1, <2>2, <2>3
<1>2. Steady
  BY DEF Steady, Dialed, Calm, WasUp, Gone, First, ClientTypes
<1>3. ServerInv' /\ CalmInv' /\ SemCount'
  BY DEF ServerInv, CalmInv, SemCount, ClientTypes, Calm, Gone, WasUp, First
<1>4. ClientInv'
  BY DEF ClientInv, ClientTypes, Dialed, First
<1>5. UpInv'
  BY DEF UpInv, ClientTypes, ClientInv, WasUp, First, SeqPending, Dialed
<1>6. DownInv'
  BY DEF DownInv, ClientTypes, Gone
<1>7. NetInv' /\ FinAckInv'
  BY <1>2, UnderWay DEF NetInv
<1>8. HandInv'
  BY DEF HandInv, HandType, ClientTypes, ClientInv, Dialed, WasUp, Gone, First, Idle
<1> QED BY <1>1, <1>3, <1>4, <1>5, <1>6, <1>7, <1>8

LEMMA FinWakeUpInv == ASSUME IInv, NEW i \in Conn, FinWakeUp(i) PROVE IInv'
<1> USE ConnConstants DEF IInv, FinWakeUp, WakeUp, serverVars
<1>1. ClientTypes' /\ ServerTypes' /\ NetTypes'
  <2>1. ClientTypes'
    BY DEF ClientTypes
  <2>2. ServerTypes'
    BY DEF ServerTypes
  <2>3. NetTypes'
    BY DEF NetTypes
  <2> QED BY <2>1, <2>2, <2>3
<1>2. Steady
  BY DEF Steady, Dialed, Calm, WasUp, Gone, First, ClientTypes
<1>3. ServerInv' /\ CalmInv' /\ SemCount'
  BY DEF ServerInv, CalmInv, SemCount, ClientTypes, Calm, Gone, WasUp, First
<1>4. ClientInv'
  BY DEF ClientInv, ClientTypes, Dialed, First
<1>5. UpInv'
  BY DEF UpInv, ClientTypes, ClientInv, WasUp, First, SeqPending, Dialed
<1>6. DownInv'
  BY DEF DownInv, ClientTypes, Gone
<1>7. NetInv' /\ FinAckInv'
  BY <1>2, UnderWay DEF NetInv
<1>8. HandInv'
  BY DEF HandInv, HandType, ClientTypes, ClientInv, Dialed, WasUp, Gone, First, Idle
<1> QED BY <1>1, <1>3, <1>4, <1>5, <1>6, <1>7, <1>8

LEMMA ConnectFailsInv == ASSUME IInv, NEW i \in Conn, ConnectFails(i) PROVE IInv'
<1> USE ConnConstants DEF IInv, ConnectFails, GiveUp, serverVars
<1>1. ClientTypes' /\ ServerTypes' /\ NetTypes'
  <2>1. ClientTypes'
    BY DEF ClientTypes
  <2>2. ServerTypes'
    BY DEF ServerTypes
  <2>3. NetTypes'
    BY DEF NetTypes
  <2> QED BY <2>1, <2>2, <2>3
<1>2. Steady
  BY DEF Steady, Dialed, Calm, WasUp, Gone, First, ClientTypes
<1>3. ServerInv' /\ CalmInv' /\ SemCount'
  BY DEF ServerInv, CalmInv, SemCount, ClientTypes, Calm, Gone, WasUp, First
<1>4. ClientInv'
  BY DEF ClientInv, ClientTypes, Dialed, First
<1>5. UpInv'
  BY DEF UpInv, ClientTypes, ClientInv, WasUp, First, SeqPending, Dialed
<1>6. DownInv'
  BY DEF DownInv, ClientTypes, Gone
<1>7. NetInv' /\ FinAckInv'
  BY <1>2, UnderWay DEF NetInv
<1>8. HandInv'
  BY DEF HandInv, HandType, ClientTypes, ClientInv, Dialed, WasUp, Gone, First, Idle
<1> QED BY <1>1, <1>3, <1>4, <1>5, <1>6, <1>7, <1>8

LEMMA DisconnectFailsInv == ASSUME IInv, NEW i \in Conn, DisconnectFails(i) PROVE IInv'
<1> USE ConnConstants DEF IInv, DisconnectFails, GiveUp, serverVars
<1>1. ClientTypes' /\ ServerTypes' /\ NetTypes'
  <2>1. ClientTypes'
    BY DEF ClientTypes
  <2>2. ServerTypes'
    BY DEF ServerTypes
  <2>3. NetTypes'
    BY DEF NetTypes
  <2> QED BY <2>1, <2>2, <2>3
<1>2. Steady
  BY DEF Steady, Dialed, Calm, WasUp, Gone, First, ClientTypes
<1>3. ServerInv' /\ CalmInv' /\ SemCount'
  BY DEF ServerInv, CalmInv, SemCount, ClientTypes, Calm, Gone, WasUp, First
<1>4. ClientInv'
  BY DEF ClientInv, ClientTypes, Dialed, First
<1>5. UpInv'
  BY DEF UpInv, ClientTypes, ClientInv, WasUp, First, SeqPending, Dialed
<1>6. DownInv'
  BY DEF DownInv, ClientTypes, Gone
<1>7. NetInv' /\ FinAckInv'
  BY <1>2, UnderWay DEF NetInv
<1>8. HandInv'
  BY DEF HandInv, HandType, ClientTypes, ClientInv, Dialed, WasUp, Gone, First, Idle
<1> QED BY <1>1, <1>3, <1>4, <1>5, <1>6, <1>7, <1>8

LEMMA SendSynInv == ASSUME IInv, NEW i \in Conn, SendSyn(i) PROVE IInv'
<1> USE ConnConstants DEF IInv, SendSyn, SendAndSleep, CountTry, serverVars
<1>m. PICK m : m = Seg("SYN", i, cNum[i])
  OBVIOUS
<1>0. /\ m \in RequestType /\ m.conn = i /\ m.type = "SYN" /\ m.num = cNum[i]
      /\ c2s' = Append(c2s, m) /\ cPc[i] = "syn" /\ cPc'[i] = "synSleep"
  BY <1>m DEF Seg, RequestType, ClientTypes
<1>1. ClientTypes' /\ ServerTypes' /\ NetTypes'
  <2>1. cTries[i] + 1 \in 0..MaxRetry
    BY DEF ClientTypes
  <2>2. ClientTypes'
    BY <2>1 DEF ClientTypes
  <2>3. ServerTypes'
    BY DEF ServerTypes
  <2>4. NetTypes'
    BY <1>0, InAppend DEF NetTypes
  <2> QED BY <2>2, <2>3, <2>4
<1>2. Steady
  BY DEF Steady, Dialed, Calm, WasUp, Gone, First, ClientTypes
<1>3. ServerInv' /\ CalmInv' /\ SemCount'
  BY DEF ServerInv, CalmInv, SemCount, ClientTypes, Calm, Gone, WasUp, First
<1>4. ClientInv' /\ UpInv' /\ DownInv'
  <2>1. ClientInv'
    BY DEF ClientInv, ClientTypes, Dialed, First
  <2>2. UpInv'
    BY DEF UpInv, ClientTypes, First, WasUp, SeqPending
  <2>3. DownInv'
    BY DEF DownInv, ClientTypes, Gone
  <2> QED BY <2>1, <2>2, <2>3
<1>5. NetInv' /\ FinAckInv'
  <2>1. In(c2s') \subseteq In(c2s) \cup {m}
    BY <1>0, InAppend DEF NetTypes
  <2>2. RequestOK(m)'
    BY <1>0 DEF RequestOK, First, ClientInv, Dialed
  <2> QED BY <1>2, <2>1, <2>2, UnderWay DEF NetInv
<1>6. HandInv'
  BY DEF HandInv, HandType, ClientTypes, Dialed, WasUp, Gone, First, Idle
<1> QED BY <1>1, <1>3, <1>4, <1>5, <1>6

LEMMA SendFinInv == ASSUME IInv, NEW i \in Conn, SendFin(i) PROVE IInv'
<1> USE ConnConstants DEF IInv, SendFin, SendAndSleep, CountTry, serverVars
<1>m. PICK m : m = Seg("FIN", i, cNum[i])
  OBVIOUS
<1>0. /\ m \in RequestType /\ m.conn = i /\ m.type = "FIN" /\ m.num = cNum[i]
      /\ c2s' = Append(c2s, m) /\ cPc[i] = "fin" /\ cPc'[i] = "finSleep"
  BY <1>m DEF Seg, RequestType, ClientTypes
<1>1. ClientTypes' /\ ServerTypes' /\ NetTypes'
  <2>1. cTries[i] + 1 \in 0..MaxRetry
    BY DEF ClientTypes
  <2>2. ClientTypes'
    BY <2>1 DEF ClientTypes
  <2>3. ServerTypes'
    BY DEF ServerTypes
  <2>4. NetTypes'
    BY <1>0, InAppend DEF NetTypes
  <2> QED BY <2>2, <2>3, <2>4
<1>2. Steady
  BY DEF Steady, Dialed, Calm, WasUp, Gone, First, ClientTypes
<1>3. ServerInv' /\ CalmInv' /\ SemCount'
  BY DEF ServerInv, CalmInv, SemCount, ClientTypes, Calm, Gone, WasUp, First
<1>4. ClientInv' /\ UpInv' /\ DownInv'
  <2>1. ClientInv'
    BY DEF ClientInv, ClientTypes, Dialed, First
  <2>2. UpInv'
    BY DEF UpInv, ClientTypes, First, WasUp, SeqPending
  <2>3. DownInv'
    BY DEF DownInv, ClientTypes, Gone
  <2> QED BY <2>1, <2>2, <2>3
<1>5. NetInv' /\ FinAckInv'
  <2>1. In(c2s') \subseteq In(c2s) \cup {m}
    BY <1>0, InAppend DEF NetTypes
  <2>2. RequestOK(m)'
    BY <1>0 DEF RequestOK, Calm, First, ClientInv, Dialed
  <2> QED BY <1>2, <2>1, <2>2, UnderWay DEF NetInv
<1>6. HandInv'
  BY DEF HandInv, HandType, ClientTypes, Dialed, WasUp, Gone, First, Idle
<1> QED BY <1>1, <1>3, <1>4, <1>5, <1>6

(* The client's handler. *)
LEMMA ClientReceivesInv == ASSUME IInv, ClientReceives PROVE IInv'
<1> USE ConnConstants DEF IInv, ClientReceives, callerVars, serverVars
<1> DEFINE m == Head(s2c)
<1>0. /\ m \in AnswerType /\ m \in In(s2c) /\ AnswerOK(m)
      /\ s2c' \in Seq(AnswerType) /\ In(s2c') \subseteq In(s2c)
  BY InTail DEF NetTypes, NetInv
<1> HIDE DEF m
<1>1. \/ cHand' = Idle
      \/ /\ m.type = "SYNACK" /\ cState[m.conn] = "SYNSENT"
         /\ cHand' = [at |-> "setConnected", conn |-> m.conn, num |-> m.num]
      \/ /\ m.type = "FINACK" /\ cState[m.conn] = "FINWAIT"
         /\ cHand' = [at |-> "setClosed", conn |-> m.conn, num |-> m.num]
  BY DEF Reaction, m
<1>2. ClientTypes' /\ ServerTypes' /\ NetTypes'
  <2>1. cHand' = Idle \/ cHand' \in HandType
    BY <1>0, <1>1 DEF HandType, AnswerType
  <2> QED BY <1>0, <2>1 DEF ClientTypes, ServerTypes, NetTypes
<1>3. Steady
  BY DEF Steady, Dialed, Calm, WasUp, Gone, First
<1>4. ServerInv' /\ CalmInv' /\ SemCount' /\ ClientInv' /\ DownInv'
  BY DEF ServerInv, CalmInv, SemCount, ClientInv, DownInv, Dialed, Calm, WasUp, Gone, First
<1>5. UpInv'
  BY DEF UpInv, WasUp, First, SeqPending, Idle
<1>6. NetInv' /\ FinAckInv'
  BY <1>0, <1>3, UnderWay DEF NetInv
<1>7. HandInv'
  BY <1>0, <1>1 DEF HandInv, AnswerOK, Dialed, WasUp, Gone, First
<1> QED BY <1>2, <1>4, <1>5, <1>6, <1>7

LEMMA ClientLosesInv == ASSUME IInv, ClientLoses PROVE IInv'
<1> USE DEF IInv, ClientLoses, clientVars, serverVars
<1>1. s2c' \in Seq(AnswerType) /\ In(s2c') \subseteq In(s2c)
  BY InTail DEF NetTypes
<1>2. ClientTypes' /\ ServerTypes' /\ NetTypes'
  BY <1>1 DEF ClientTypes, ServerTypes, NetTypes
<1>3. Steady
  BY DEF Steady, Dialed, Calm, WasUp, Gone, First
<1>4. /\ ServerInv' /\ CalmInv' /\ SemCount' /\ ClientInv' /\ UpInv' /\ DownInv'
      /\ HandInv'
  BY DEF ServerInv, CalmInv, SemCount, ClientInv, UpInv, DownInv, HandInv, SeqPending,
     Dialed, Calm, WasUp, Gone, First
<1>5. NetInv' /\ FinAckInv'
  BY <1>1, <1>3, UnderWay DEF NetInv
<1> QED BY <1>2, <1>4, <1>5

LEMMA SetConnectedInv == ASSUME IInv, SetConnected PROVE IInv'
<1> USE ConnConstants DEF IInv, SetConnected, StoreState, callerVars, serverVars
<1> DEFINE i == cHand.conn
<1>0. cHand \in HandType /\ i \in Conn /\ cHand.num \in Nat
  BY DEF ClientTypes, HandType, Idle
<1>1. ClientTypes' /\ ServerTypes' /\ NetTypes'
  BY <1>0 DEF ClientTypes, ServerTypes, NetTypes, HandType
<1>2. Steady
  BY DEF Steady, Dialed, Calm, WasUp, Gone, First
<1>3. ServerInv' /\ CalmInv' /\ SemCount'
  BY DEF ServerInv, CalmInv, SemCount, Calm, WasUp, Gone, First
<1>4. Dialed(i) /\ WasUp(i)
  BY <1>0 DEF HandInv, Idle
<1>5. ClientInv' /\ DownInv'
  BY <1>0, <1>4 DEF ClientInv, DownInv, ClientTypes, Dialed, Gone, First
<1>6. UpInv'
  BY <1>0, <1>4 DEF UpInv, ClientTypes, HandType, WasUp, First, SeqPending, Idle
<1>7. NetInv' /\ FinAckInv'
  BY <1>2, UnderWay DEF NetInv
<1>8. HandInv'
  BY <1>0, <1>4 DEF HandInv, ClientTypes, HandType, Dialed, WasUp, Gone, First, Idle
<1> QED BY <1>1, <1>3, <1>5, <1>6, <1>7, <1>8

LEMMA SetSeqInv == ASSUME IInv, SetSeq PROVE IInv'
<1> USE ConnConstants DEF IInv, SetSeq, callerVars, serverVars
<1> DEFINE i == cHand.conn
<1>0. cHand \in HandType /\ i \in Conn /\ cHand.num \in Nat
  BY DEF ClientTypes, HandType, Idle
<1>1. ClientTypes' /\ ServerTypes' /\ NetTypes'
  BY <1>0 DEF ClientTypes, ServerTypes, NetTypes, HandType
<1>2. Steady
  BY DEF Steady, Dialed, Calm, WasUp, Gone, First
<1>3. ServerInv' /\ CalmInv' /\ SemCount'
  BY DEF ServerInv, CalmInv, SemCount, Calm, WasUp, Gone, First
<1>4. Dialed(i) /\ WasUp(i) /\ (First(i) => cHand.num = 1)
  BY <1>0 DEF HandInv, Idle
<1>5. ClientInv' /\ DownInv'
  BY <1>0, <1>4 DEF ClientInv, DownInv, ClientTypes, Dialed, Gone, First
<1>6. UpInv'
  BY <1>0, <1>4 DEF UpInv, ClientTypes, HandType, WasUp, First, SeqPending, Idle
<1>7. NetInv' /\ FinAckInv'
  BY <1>2, UnderWay DEF NetInv
<1>8. HandInv'
  BY <1>0, <1>4 DEF HandInv, ClientTypes, HandType, Dialed, WasUp, Gone, First, Idle
<1> QED BY <1>1, <1>3, <1>5, <1>6, <1>7, <1>8

LEMMA SetClosedInv == ASSUME IInv, SetClosed PROVE IInv'
<1> USE ConnConstants DEF IInv, SetClosed, StoreState, callerVars, serverVars
<1> DEFINE i == cHand.conn
<1>0. cHand \in HandType /\ i \in Conn /\ cHand.num \in Nat
  BY DEF ClientTypes, HandType, Idle
<1>1. ClientTypes' /\ ServerTypes' /\ NetTypes'
  BY <1>0 DEF ClientTypes, ServerTypes, NetTypes, HandType
<1>2. Steady
  BY DEF Steady, Dialed, Calm, WasUp, Gone, First
<1>3. ServerInv' /\ CalmInv' /\ SemCount'
  BY DEF ServerInv, CalmInv, SemCount, Calm, WasUp, Gone, First
<1>4. Dialed(i) /\ Gone(i)
  BY <1>0 DEF HandInv, Idle
<1>5. ClientInv' /\ DownInv'
  BY <1>0, <1>4 DEF ClientInv, DownInv, ClientTypes, Dialed, Gone, First
<1>6. UpInv'
  BY <1>0, <1>4 DEF UpInv, ClientTypes, HandType, WasUp, First, SeqPending, Idle
<1>7. NetInv' /\ FinAckInv'
  BY <1>2, UnderWay DEF NetInv
<1>8. HandInv'
  BY <1>0, <1>4 DEF HandInv, ClientTypes, HandType, Dialed, WasUp, Gone, First, Idle
<1> QED BY <1>1, <1>3, <1>5, <1>6, <1>7, <1>8

(***************************************************************************)
(* The server's callers and finclock.  The semaphore counts two sets.      *)
(***************************************************************************)
Left == {i \in Conn : sPc[i] \notin {"start", "made"} /\ sState[i] # "LISTENING"}
Returned == {i \in Conn : sPc[i] \in {"accepted", "closed"}}

LEMMA FiniteSets ==
  /\ IsFiniteSet(Left) /\ Cardinality(Left) \in Nat /\ Cardinality(Left) <= NConn
  /\ IsFiniteSet(Returned) /\ Cardinality(Returned) \in Nat
<1>1. IsFiniteSet(Conn) /\ Cardinality(Conn) = NConn
  <2>1. NConn \in Int /\ 1 \in Int /\ ~(1 > NConn) /\ NConn - 1 + 1 = NConn
    BY ConnConstants
  <2> QED BY <2>1, FS_Interval DEF Conn
<1>2. Left \in SUBSET Conn /\ Returned \in SUBSET Conn
  BY DEF Left, Returned
<1> QED BY <1>1, <1>2, FS_Subset, FS_CardinalityType

LEMMA SameSets ==
  ASSUME IInv, gsem' = gsem, Left' = Left, Returned' = Returned
  PROVE  SemCount'
BY DEF IInv, SemCount, Left, Returned

LEMMA ServerSockInv == ASSUME IInv, NEW i \in Conn, ServerSock(i) PROVE IInv'
<1> USE ConnConstants DEF IInv, ServerSock, clientVars
<1>1. ClientTypes' /\ ServerTypes' /\ NetTypes'
  <2>1. ClientTypes'
    BY DEF ClientTypes
  <2>2. ServerTypes'
    BY DEF ServerTypes
  <2>3. NetTypes'
    BY DEF NetTypes
  <2> QED BY <2>1, <2>2, <2>3
<1>2. Steady
  BY DEF Steady, Dialed, Calm, WasUp, Gone, First, ServerTypes, ServerInv
<1>3. ServerInv' /\ CalmInv'
  BY DEF ServerInv, CalmInv, ServerTypes, Calm, Gone, WasUp, First
<1>4. ClientInv' /\ UpInv' /\ DownInv' /\ HandInv'
  BY <1>2 DEF ClientInv, UpInv, DownInv, HandInv, Steady, Dialed, First, SeqPending,
     ClientTypes, HandType, Idle
<1>5. NetInv' /\ FinAckInv'
  BY <1>2, UnderWay DEF NetInv
<1>6. SemCount'
  BY SameSets DEF Left, Returned, ServerTypes, ServerInv
<1> QED BY <1>1, <1>3, <1>4, <1>5, <1>6

LEMMA AcceptStartInv == ASSUME IInv, NEW i \in Conn, AcceptStart(i) PROVE IInv'
<1> USE ConnConstants DEF IInv, AcceptStart, clientVars
<1>1. ClientTypes' /\ ServerTypes' /\ NetTypes'
  <2>1. ClientTypes'
    BY DEF ClientTypes
  <2>2. ServerTypes'
    BY DEF ServerTypes
  <2>3. NetTypes'
    BY DEF NetTypes
  <2> QED BY <2>1, <2>2, <2>3
<1>2. Steady
  BY DEF Steady, Dialed, Calm, WasUp, Gone, First, ServerTypes, ServerInv
<1>3. ServerInv' /\ CalmInv'
  BY DEF ServerInv, CalmInv, ServerTypes, Calm, Gone, WasUp, First
<1>4. ClientInv' /\ UpInv' /\ DownInv' /\ HandInv'
  BY <1>2 DEF ClientInv, UpInv, DownInv, HandInv, Steady, Dialed, First, SeqPending,
     ClientTypes, HandType, Idle
<1>5. NetInv' /\ FinAckInv'
  BY <1>2, UnderWay DEF NetInv
<1>6. SemCount'
  BY SameSets DEF Left, Returned, ServerTypes, ServerInv
<1> QED BY <1>1, <1>3, <1>4, <1>5, <1>6

LEMMA AcceptReturnsInv == ASSUME IInv, NEW i \in Conn, AcceptReturns(i) PROVE IInv'
<1> USE ConnConstants DEF IInv, AcceptReturns, clientVars
<1>1. ClientTypes' /\ ServerTypes' /\ NetTypes'
  <2>1. ClientTypes'
    BY DEF ClientTypes
  <2>2. ServerTypes'
    BY DEF ServerTypes
  <2>3. NetTypes'
    BY DEF NetTypes
  <2> QED BY <2>1, <2>2, <2>3
<1>2. Steady
  BY DEF Steady, Dialed, Calm, WasUp, Gone, First, ServerTypes, ServerInv
<1>3. ServerInv' /\ CalmInv'
  BY DEF ServerInv, CalmInv, ServerTypes, Calm, Gone, WasUp, First
<1>4. ClientInv' /\ UpInv' /\ DownInv' /\ HandInv'
  BY <1>2 DEF ClientInv, UpInv, DownInv, HandInv, Steady, Dialed, First, SeqPending,
     ClientTypes, HandType, Idle
<1>5. NetInv' /\ FinAckInv'
  BY <1>2, UnderWay DEF NetInv
<1>6. SemCount'
  <2>1. Left' = Left /\ Returned' = Returned \cup {i} /\ i \notin Returned
    BY DEF Left, Returned, ServerTypes
  <2>2. Cardinality(Returned') = Cardinality(Returned) + 1
    BY <2>1, FiniteSets, FS_AddElement
  <2>3. gsem \in Nat /\ gsem > 0 /\ gsem' = gsem - 1 /\ Cardinality(Returned) \in Nat
    BY FiniteSets DEF ServerTypes
  <2>4. gsem + Cardinality(Returned) = Cardinality(Left)
    BY DEF SemCount, Left, Returned
  <2>5. gsem' + Cardinality(Returned') = Cardinality(Left')
    BY <2>1, <2>2, <2>3, <2>4
  <2> QED BY <2>5 DEF SemCount, Left, Returned
<1> QED BY <1>1, <1>3, <1>4, <1>5, <1>6

LEMMA ServerCloseInv == ASSUME IInv, NEW i \in Conn, ServerClose(i) PROVE IInv'
<1> USE ConnConstants DEF IInv, ServerClose, clientVars
<1>1. ClientTypes' /\ ServerTypes' /\ NetTypes'
  <2>1. ClientTypes'
    BY DEF ClientTypes
  <2>2. ServerTypes'
    BY DEF ServerTypes
  <2>3. NetTypes'
    BY DEF NetTypes
  <2> QED BY <2>1, <2>2, <2>3
<1>2. Steady
  BY DEF Steady, Dialed, Calm, WasUp, Gone, First, ServerTypes, ServerInv
<1>3. ServerInv' /\ CalmInv'
  BY DEF ServerInv, CalmInv, ServerTypes, Calm, Gone, WasUp, First
<1>4. ClientInv' /\ UpInv' /\ DownInv' /\ HandInv'
  BY <1>2 DEF ClientInv, UpInv, DownInv, HandInv, Steady, Dialed, First, SeqPending,
     ClientTypes, HandType, Idle
<1>5. NetInv' /\ FinAckInv'
  BY <1>2, UnderWay DEF NetInv
<1>6. SemCount'
  BY SameSets DEF Left, Returned, ServerTypes, ServerInv
<1> QED BY <1>1, <1>3, <1>4, <1>5, <1>6

LEMMA FinclockInv == ASSUME IInv, NEW i \in Conn, Finclock(i) PROVE IInv'
<1> USE ConnConstants DEF IInv, Finclock, clientVars
<1>1. ClientTypes' /\ ServerTypes' /\ NetTypes'
  <2>1. sClock[i] = 1 /\ sClock' = [sClock EXCEPT ![i] = sClock[i] - 1]
    BY DEF ServerInv
  <2>2. sClock' \in [Conn -> Nat]
    <3> HIDE DEF IInv, Finclock
    <3>1. sClock \in [Conn -> Nat]
      BY DEF IInv, ServerTypes
    <3> QED BY <2>1, <3>1
  <2>3. sState' \in [Conn -> {"NULL", "CLOSED", "LISTENING", "CONNECTED", "CLOSEWAIT"}]
    <3>1. sState' = sState \/ sState' = [sState EXCEPT ![i] = "CLOSED"]
      OBVIOUS
    <3> HIDE DEF Finclock
    <3> QED BY <3>1 DEF ServerTypes
  <2>4. ServerTypes'
    BY <2>2, <2>3 DEF ServerTypes
  <2>5. ClientTypes' /\ NetTypes'
    BY DEF ClientTypes, NetTypes
  <2> QED BY <2>4, <2>5
<1>2. Steady
  BY DEF Steady, Dialed, Calm, WasUp, Gone, First, ServerTypes, ServerInv
<1>3. ServerInv' /\ CalmInv'
  BY DEF ServerInv, CalmInv, ServerTypes, Calm, Gone, WasUp, First
<1>4. ClientInv' /\ UpInv' /\ DownInv' /\ HandInv'
  BY <1>2 DEF ClientInv, UpInv, DownInv, HandInv, Steady, Dialed, First, SeqPending,
     ClientTypes, HandType, Idle
<1>5. NetInv' /\ FinAckInv'
  BY <1>2, UnderWay DEF NetInv
<1>6. SemCount'
  BY SameSets DEF Left, Returned, ServerTypes, ServerInv
<1> QED BY <1>1, <1>3, <1>4, <1>5, <1>6

(***************************************************************************)
(* The server's handler.                                                   *)
(***************************************************************************)
(* What it reads. *)
LEMMA HeadOK ==
  ASSUME IInv, NEW type \in {"SYN", "FIN"}, ServerReads(type)
  PROVE  /\ Head(c2s) \in RequestType /\ Head(c2s).type = type
         /\ RequestOK(Head(c2s))
         /\ c2s' \in Seq(RequestType) /\ In(c2s') \subseteq In(c2s)
<1>1. /\ c2s # <<>> /\ c2s \in Seq(RequestType) /\ c2s' = Tail(c2s)
      /\ Head(c2s).type = type
  BY DEF ServerReads, IInv, NetTypes
<1>2. Head(c2s) \in In(c2s)
  BY <1>1, InTail
<1>3. \A m \in In(c2s) : RequestOK(m)
  BY DEF IInv, NetInv
<1> QED BY <1>1, <1>2, <1>3, InTail

LEMMA ServerLosesInv == ASSUME IInv, ServerLoses PROVE IInv'
<1> USE DEF IInv, ServerLoses, clientVars, serverVars
<1>1. c2s' \in Seq(RequestType) /\ In(c2s') \subseteq In(c2s)
  BY HeadOK
<1>2. ClientTypes' /\ ServerTypes' /\ NetTypes'
  BY <1>1 DEF ClientTypes, ServerTypes, NetTypes
<1>3. Steady
  BY DEF Steady, Dialed, Calm, WasUp, Gone, First
<1>4. /\ ServerInv' /\ CalmInv' /\ SemCount' /\ ClientInv' /\ UpInv' /\ DownInv'
      /\ HandInv'
  BY DEF ServerInv, CalmInv, SemCount, ClientInv, UpInv, DownInv, HandInv, SeqPending,
     Dialed, Calm, WasUp, Gone, First
<1>5. NetInv' /\ FinAckInv'
  BY <1>1, <1>3, UnderWay DEF NetInv
<1> QED BY <1>2, <1>4, <1>5

LEMMA AssertFailsInv == ASSUME IInv, AssertFails PROVE IInv'
<1> USE DEF IInv, AssertFails, clientVars
<1>1. c2s' \in Seq(RequestType) /\ In(c2s') \subseteq In(c2s)
  BY HeadOK
<1>2. ClientTypes' /\ ServerTypes' /\ NetTypes'
  BY <1>1 DEF ClientTypes, ServerTypes, NetTypes
<1>3. Steady
  BY DEF Steady, Dialed, Calm, WasUp, Gone, First
<1>4. /\ ServerInv' /\ CalmInv' /\ SemCount' /\ ClientInv' /\ UpInv' /\ DownInv'
      /\ HandInv'
  BY DEF ServerInv, CalmInv, SemCount, ClientInv, UpInv, DownInv, HandInv, SeqPending,
     Dialed, Calm, WasUp, Gone, First
<1>5. NetInv' /\ FinAckInv'
  BY <1>1, <1>3, UnderWay DEF NetInv
<1> QED BY <1>2, <1>4, <1>5

LEMMA ServerSynInv == ASSUME IInv, ServerSyn PROVE IInv'
<1> USE ConnConstants DEF IInv, ServerSyn, clientVars
<1>m. PICK m : m = Head(c2s)
  OBVIOUS
<1>i. PICK i : i = m.conn
  OBVIOUS
<1>0. /\ m \in RequestType /\ i \in Conn /\ m.num \in Nat /\ m.type = "SYN" /\ RequestOK(m)
      /\ c2s' \in Seq(RequestType) /\ In(c2s') \subseteq In(c2s)
  BY <1>m, <1>i, HeadOK DEF RequestType
<1>1. CASE sState[i] \notin {"LISTENING", "CONNECTED"}
  <2>1. UNCHANGED <<gsem, sState, sPort, sExpect, s2c, sPc, sClock, sHand, aborted>>
    BY <1>1, <1>m, <1>i
  <2>2. ClientTypes' /\ ServerTypes' /\ NetTypes'
    BY <1>0, <2>1 DEF ClientTypes, ServerTypes, NetTypes
  <2>3. Steady
    BY <2>1 DEF Steady, Dialed, Calm, WasUp, Gone, First
  <2>4. /\ ServerInv' /\ CalmInv' /\ SemCount' /\ ClientInv' /\ UpInv' /\ DownInv'
        /\ HandInv'
    BY <2>1 DEF ServerInv, CalmInv, SemCount, ClientInv, UpInv, DownInv, HandInv,
       SeqPending, Dialed, Calm, WasUp, Gone, First
  <2>5. NetInv' /\ FinAckInv'
    BY <1>0, <2>1, <2>3, UnderWay DEF NetInv
  <2> QED BY <2>2, <2>4, <2>5
<1>2. CASE sState[i] \in {"LISTENING", "CONNECTED"}
  <2>a. PICK a : a = Seg("SYNACK", i, m.num + 1)
    OBVIOUS
  <2>1. /\ gsem' = IF sState[i] = "LISTENING" THEN gsem + 1 ELSE gsem
        /\ sState' = [sState EXCEPT ![i] = "CONNECTED"]
        /\ sPort' = [sPort EXCEPT ![i] = TRUE]
        /\ sExpect' = [sExpect EXCEPT ![i] = m.num + 1]
        /\ UNCHANGED <<sPc, sClock, sHand, aborted>>
    BY <1>2, <1>m, <1>i DEF WakesAccept
  <2>2. s2c' = Append(s2c, a)
    <3>1. s2c' = Append(s2c, Seg("SYNACK", i, sExpect'[i]))
      BY <1>2, <1>m, <1>i
    <3>2. sExpect'[i] = m.num + 1
      BY <1>0, <2>1 DEF ServerTypes
    <3> QED BY <2>a, <3>1, <3>2
  <2>3. /\ a \in AnswerType /\ a.conn = i /\ a.type = "SYNACK" /\ a.num = m.num + 1
        /\ m.num + 1 \in Nat
    BY <1>0, <2>a DEF Seg, AnswerType
  <2>4. sPc[i] \notin {"start", "made"}
    BY <1>0, <1>2 DEF ServerInv
  <2>5. ClientTypes' /\ ServerTypes' /\ NetTypes'
    <3>1. ClientTypes'
      BY DEF ClientTypes
    <3>2. ServerTypes'
      BY <1>0, <2>1, <2>3 DEF ServerTypes
    <3>3. NetTypes'
      BY <1>0, <2>2, <2>3, InAppend DEF NetTypes
    <3> QED BY <3>1, <3>2, <3>3
  <2>6. Steady
    BY <1>0, <1>2, <2>1, <2>4 DEF Steady, Dialed, Calm, WasUp, Gone, First, ServerTypes
  <2>7. ServerInv'
    <3>1. First(i) => m.num + 1 = 1
      BY <1>0, <1>i DEF RequestOK
    <3> QED BY <1>0, <1>2, <2>1, <2>3, <2>4, <3>1 DEF ServerInv, ServerTypes, WasUp, First
  <2>8. CalmInv'
    BY <1>0, <2>1 DEF CalmInv, ServerTypes, Calm, Gone
  <2>9. ClientInv' /\ UpInv' /\ DownInv' /\ HandInv'
    BY <2>6 DEF ClientInv, UpInv, DownInv, HandInv, Steady, Dialed, First, SeqPending,
       ClientTypes, HandType, Idle
  <2>10. NetInv' /\ FinAckInv'
    <3>1. In(s2c') \subseteq In(s2c) \cup {a}
      BY <2>2, <2>3, InAppend DEF NetTypes
    <3>2. AnswerOK(a)'
      <4>1. Dialed(i)'
        BY <1>0, <1>i DEF RequestOK, Dialed
      <4>2. WasUp(i)'
        BY <1>0, <2>1, <2>4 DEF WasUp, ServerTypes
      <4>3. First(i)' => a.num = 1
        BY <1>0, <1>i, <2>3 DEF RequestOK, First
      <4> QED BY <2>3, <4>1, <4>2, <4>3 DEF AnswerOK
    <3> QED BY <1>0, <2>1, <2>6, <3>1, <3>2, UnderWay DEF NetInv
  <2>11. SemCount'
    <3>1. CASE sState[i] = "CONNECTED"
      BY <1>0, <2>1, <3>1, SameSets DEF Left, Returned, ServerTypes
    <3>2. CASE sState[i] = "LISTENING"
      <4>1. Left' = Left \cup {i} /\ i \notin Left /\ Returned' = Returned
        BY <1>0, <2>1, <2>4, <3>2 DEF Left, Returned, ServerTypes
      <4>2. Cardinality(Left') = Cardinality(Left) + 1
        BY <4>1, FiniteSets, FS_AddElement
      <4>3. /\ gsem \in Nat /\ gsem' = gsem + 1
            /\ Cardinality(Returned) \in Nat /\ Cardinality(Left) \in Nat
        BY <2>1, <3>2, FiniteSets DEF ServerTypes
      <4>4. gsem + Cardinality(Returned) = Cardinality(Left)
        BY DEF SemCount, Left, Returned
      <4>5. gsem' + Cardinality(Returned') = Cardinality(Left')
        BY <4>1, <4>2, <4>3, <4>4
      <4> QED BY <4>5 DEF SemCount, Left, Returned
    <3> QED BY <1>2, <3>1, <3>2
  <2> QED BY <2>5, <2>7, <2>8, <2>9, <2>10, <2>11
<1> QED BY <1>1, <1>2

LEMMA ServerFinInv == ASSUME IInv, ServerFin PROVE IInv'
<1> USE ConnConstants DEF IInv, ServerFin, StartsClock, clientVars
<1>m. PICK m : m = Head(c2s)
  OBVIOUS
<1>i. PICK i : i = m.conn
  OBVIOUS
<1>0. /\ m \in RequestType /\ i \in Conn /\ m.type = "FIN" /\ RequestOK(m)
      /\ c2s' \in Seq(RequestType) /\ In(c2s') \subseteq In(c2s)
  BY <1>m, <1>i, HeadOK DEF RequestType
<1>1. sPort[i] /\ WasUp(i) /\ ~Calm(i)
  BY <1>0, <1>m, <1>i DEF ServerInv, RequestOK
<1>2. /\ IF sState[i] = "CONNECTED"
           THEN /\ sState' = [sState EXCEPT ![i] = "CLOSEWAIT"]
                /\ sClock' = [sClock EXCEPT ![i] = @ + 1]
           ELSE UNCHANGED <<sState, sClock>>
      /\ sHand' = IF sState[i] \in {"CONNECTED", "CLOSEWAIT"}
                  THEN [at |-> "finack", conn |-> i] ELSE Idle
  BY <1>m, <1>i
<1>3. ClientTypes' /\ ServerTypes' /\ NetTypes'
  <2>1. sClock[i] + 1 \in Nat
    BY <1>0 DEF ServerTypes
  <2>2. sHand' = Idle \/ sHand' \in [at : {"finack"}, conn : Conn]
    <3>1. [at |-> "finack", conn |-> i] \in [at : {"finack"}, conn : Conn]
      BY <1>0
    <3> QED BY <1>2, <3>1
  <2>3. /\ sState' \in [Conn -> {"NULL", "CLOSED", "LISTENING", "CONNECTED", "CLOSEWAIT"}]
        /\ sClock' \in [Conn -> Nat]
    <3>1. CASE sState[i] = "CONNECTED"
      <4>1. /\ sState' = [sState EXCEPT ![i] = "CLOSEWAIT"]
            /\ sClock' = [sClock EXCEPT ![i] = sClock[i] + 1]
        BY <1>2, <3>1
      <4> HIDE DEF ServerFin, StartsClock
      <4> QED BY <1>0, <2>1, <4>1 DEF ServerTypes
    <3>2. CASE sState[i] # "CONNECTED"
      BY <1>2, <3>2 DEF ServerTypes
    <3> QED BY <3>1, <3>2
  <2>4. ServerTypes'
    BY <2>2, <2>3 DEF ServerTypes
  <2> QED BY <1>0, <2>4 DEF ClientTypes, NetTypes
<1>4. Steady
  BY <1>0, <1>1, <1>2 DEF Steady, Dialed, Calm, WasUp, Gone, First, ServerTypes
<1>5. ServerInv'
  BY <1>0, <1>1, <1>2 DEF ServerInv, ServerTypes, WasUp, First
<1>6. CalmInv'
  BY <1>0, <1>1, <1>2 DEF CalmInv, ServerTypes, Calm, Gone
<1>7. ClientInv' /\ UpInv' /\ DownInv' /\ HandInv'
  BY <1>4 DEF ClientInv, UpInv, DownInv, HandInv, Steady, Dialed, First, SeqPending,
     ClientTypes, HandType, Idle
<1>8. NetInv'
  BY <1>0, <1>4, UnderWay DEF NetInv
<1>9. FinAckInv'
  <2>1. sState[i] \in {"CONNECTED", "CLOSEWAIT"} => Gone(i)'
    BY <1>0, <1>1, <1>2 DEF Gone, WasUp, ServerTypes
  <2> QED BY <1>2, <2>1 DEF FinAckInv, Idle
<1>10. SemCount'
  BY <1>0, <1>2, SameSets DEF Left, Returned, ServerTypes
<1> QED BY <1>3, <1>5, <1>6, <1>7, <1>8, <1>9, <1>10

LEMMA ServerFinAckInv == ASSUME IInv, ServerFinAck PROVE IInv'
<1> USE ConnConstants DEF IInv, ServerFinAck, clientVars
<1>a. PICK a : a = Seg("FINACK", sHand.conn, sExpect[sHand.conn])
  OBVIOUS
<1>0. /\ sHand.conn \in Conn /\ Gone(sHand.conn) /\ a \in AnswerType
      /\ a.type = "FINACK" /\ a.conn = sHand.conn /\ s2c' \in {s2c, Append(s2c, a)}
  BY <1>a DEF ServerTypes, FinAckInv, Idle, Seg, AnswerType
<1>1. ClientTypes' /\ ServerTypes' /\ NetTypes'
  <2>1. NetTypes'
    BY <1>0, InAppend DEF NetTypes
  <2> QED BY <2>1 DEF ClientTypes, ServerTypes
<1>2. Steady
  BY DEF Steady, Dialed, Calm, WasUp, Gone, First
<1>3. /\ ServerInv' /\ CalmInv' /\ SemCount' /\ ClientInv' /\ UpInv' /\ DownInv'
      /\ HandInv'
  BY DEF ServerInv, CalmInv, SemCount, ClientInv, UpInv, DownInv, HandInv, SeqPending,
     Dialed, Calm, WasUp, Gone, First
<1>4. NetInv' /\ FinAckInv'
  <2>1. In(s2c') \subseteq In(s2c) \cup {a}
    BY <1>0, InAppend DEF NetTypes
  <2>2. AnswerOK(a)'
    BY <1>0 DEF AnswerOK, CalmInv, Calm, Dialed, Gone
  <2> QED BY <1>2, <2>1, <2>2, UnderWay DEF NetInv
<1> QED BY <1>1, <1>3, <1>4

-----------------------------------------------------------------------------
(* Every step of the two programs keeps the inductive invariant. *)
LEMMA StutterInv == ASSUME IInv, UNCHANGED vars PROVE IInv'
<1> USE DEF IInv, vars, clientVars, serverVars
<1>1. ClientTypes' /\ ServerTypes' /\ NetTypes'
  BY DEF ClientTypes, ServerTypes, NetTypes
<1>2. /\ ServerInv' /\ CalmInv' /\ SemCount' /\ ClientInv' /\ UpInv' /\ DownInv'
      /\ HandInv' /\ NetInv' /\ FinAckInv'
  BY DEF ServerInv, CalmInv, SemCount, ClientInv, UpInv, DownInv, HandInv, NetInv,
     FinAckInv, SeqPending, Dialed, Calm, WasUp, Gone, First, RequestOK, AnswerOK, In
<1> QED BY <1>1, <1>2

LEMMA NextInv == IInv /\ [Next]_vars => IInv'
<1> SUFFICES ASSUME IInv, [Next]_vars PROVE IInv'
  OBVIOUS
<1>1. ASSUME NEW i \in Conn, ClientCaller(i) PROVE IInv'
  BY <1>1, ClientSockInv, ConnectStartInv, SendSynInv, SynWakeUpInv, ConnectFailsInv,
     DisconnectStartInv, SendFinInv, FinWakeUpInv, DisconnectFailsInv, ClientCloseInv
     DEF ClientCaller
<1>2. ASSUME NEW i \in Conn, ServerCaller(i) PROVE IInv'
  BY <1>2, ServerSockInv, AcceptStartInv, AcceptReturnsInv, ServerCloseInv
     DEF ServerCaller
<1>3. ASSUME NEW i \in Conn, Finclock(i) PROVE IInv'
  BY <1>3, FinclockInv
<1>4. CASE ClientSeghandler
  BY <1>4, ClientReceivesInv, ClientLosesInv, SetConnectedInv, SetSeqInv, SetClosedInv
     DEF ClientSeghandler
<1>5. CASE ServerSeghandler
  BY <1>5, ServerLosesInv, AssertFailsInv, ServerSynInv, ServerFinInv, ServerFinAckInv
     DEF ServerSeghandler
<1>6. CASE UNCHANGED vars
  BY <1>6, StutterInv
<1> QED BY <1>1, <1>2, <1>3, <1>4, <1>5, <1>6 DEF Next

(* The inductive invariant holds in every state of every behaviour. *)
THEOREM Inductive == Spec => []IInv
BY InitInv, NextInv, PTL DEF Spec

(***************************************************************************)
(* What follows for the properties of StcpConn.                            *)
(***************************************************************************)
(* Every variable keeps its type; in particular the semaphore never holds  *)
(* more units than there are connections.                                  *)
THEOREM TypeCorrect == Spec => []TypeOK
<1>1. IInv => TypeOK
  <2> SUFFICES ASSUME IInv PROVE TypeOK
    OBVIOUS
  <2>1. ClientTypes /\ ServerTypes /\ NetTypes /\ SemCount
    BY DEF IInv
  <2>2. /\ \A k \in 1..Len(c2s) : c2s[k] \in RequestType
        /\ \A k \in 1..Len(s2c) : s2c[k] \in AnswerType
    BY <2>1 DEF NetTypes
  <2>3. gsem \in 0..NConn
    <3>3. gsem \in Nat /\ Cardinality(Returned) \in Nat
      BY <2>1, FiniteSets DEF ServerTypes
    <3>4. gsem + Cardinality(Returned) = Cardinality(Left)
      BY <2>1 DEF SemCount, Left, Returned
    <3> QED BY <3>3, <3>4, FiniteSets, ConnConstants
  <2>4. cHand.at \in {"idle", "setConnected", "setSeq", "setClosed"}
    BY <2>1 DEF ClientTypes, HandType, Idle
  <2>5. sHand.at \in {"idle", "finack"}
    BY <2>1 DEF ServerTypes, Idle
  <2> QED BY <2>1, <2>2, <2>3, <2>4, <2>5
      DEF TypeOK, ClientTypes, ServerTypes, RequestType, AnswerType
<1> QED BY <1>1, Inductive, PTL

(* stcp_client_connect returns 1 only when the server is CONNECTED, with   *)
(* the sequence number the client goes on from.                            *)
THEOREM ConnectTellsTruth == Spec => []ConnectAgrees
<1>1. IInv => ConnectAgrees
  <2> SUFFICES ASSUME IInv, NEW i \in Conn, cPc[i] = "up"
               PROVE  /\ sState[i] = "CONNECTED"
                      /\ cSeq[i] = sExpect[i] \/ SeqPending(i) \/ cCalls[i] > 1
    BY DEF ConnectAgrees
  <2>1. /\ WasUp(i) /\ (First(i) => cSeq[i] = 1 \/ SeqPending(i))
        /\ ~Gone(i)
    BY DEF IInv, UpInv, CalmInv, Calm
  <2>2. sState[i] = "CONNECTED"
    BY <2>1 DEF IInv, ServerTypes, WasUp, Gone
  <2>3. First(i) => sExpect[i] = 1
    BY <2>2 DEF IInv, ServerInv
  <2>4. cCalls[i] \in Nat
    BY ConnConstants DEF IInv, ClientTypes
  <2> QED BY <2>1, <2>2, <2>3, <2>4 DEF First
<1> QED BY <1>1, Inductive, PTL

(* stcp_client_disconnect returns 1 only when the server has left          *)
(* CONNECTED for good.                                                     *)
THEOREM DisconnectTellsTruth == Spec => []DisconnectAgrees
<1>1. IInv => DisconnectAgrees
  BY DEF IInv, DownInv, Gone, DisconnectAgrees
<1> QED BY <1>1, Inductive, PTL

(* finclock finds the TCB it was started for: there is one of them, and    *)
(* the TCB is still in CLOSEWAIT.                                          *)
THEOREM ClockIsSafe == Spec => []ClockSafe
<1>1. IInv => ClockSafe
  BY DEF IInv, ServerInv, ClockSafe
<1> QED BY <1>1, Inductive, PTL

(* The semaphore of stcp_server_accept holds one unit for every connection *)
(* that has left LISTENING and was not accepted yet.                       *)
THEOREM SemaphoreExact == Spec => []SemCount
<1>1. IInv => SemCount
  BY DEF IInv
<1> QED BY <1>1, Inductive, PTL

(* The client's seghandler stores to a freed TCB only when connect or      *)
(* disconnect had sent its last try.                                       *)
THEOREM StaleOnlyLate == Spec => []StaleOnlyAfterLastTry
<1>1. IInv => StaleOnlyAfterLastTry
  BY DEF IInv, HandInv, StaleOnlyAfterLastTry
<1> QED BY <1>1, Inductive, PTL

(***************************************************************************)
(* Why the server aborts.  The channel keeps the order: the SYNs of a      *)
(* connection come before its FINs, and when the server has taken a FIN,   *)
(* those that follow were sent again.                                      *)
(***************************************************************************)
SentFin(m) == m.type = "FIN" => WasUp(m.conn) /\ cTries[m.conn] >= 1
Again(m) == m.type = "FIN" /\ cTries[m.conn] >= 2

(* The same after the step. *)
WasUpNext(i) == sPc'[i] \notin {"start", "made"} /\ sState'[i] # "LISTENING"
GoneNext(i) ==
  sPc'[i] \notin {"start", "made"} /\ sState'[i] \in {"CLOSEWAIT", "CLOSED", "NULL"}
SentFinNext(m) == m.type = "FIN" => WasUpNext(m.conn) /\ cTries'[m.conn] >= 1
AgainNext(m) == m.type = "FIN" /\ cTries'[m.conn] >= 2

FinSides ==
  \A i \in Conn : /\ InDisconnect(i) => WasUp(i)
                  /\ WasUp(i) => sPort[i] \/ sPc[i] = "closed"
                  /\ Gone(i) => cTries[i] >= 1
                  /\ sPc[i] = "closed" => sState[i] = "NULL"

FinQueue ==
  /\ \A k \in 1..Len(c2s) : SentFin(c2s[k]) /\ (Gone(c2s[k].conn) => Again(c2s[k]))
  /\ \A j, k \in 1..Len(c2s) :
       j < k /\ c2s[j].type = "FIN" /\ c2s[j].conn = c2s[k].conn => Again(c2s[k])

FinQueueNext ==
  /\ \A k \in 1..Len(c2s') :
       SentFinNext(c2s'[k]) /\ (GoneNext(c2s'[k].conn) => AgainNext(c2s'[k]))
  /\ \A j, k \in 1..Len(c2s') :
       j < k /\ c2s'[j].type = "FIN" /\ c2s'[j].conn = c2s'[k].conn => AgainNext(c2s'[k])

LEMMA QueueNext == FinQueueNext => FinQueue'
BY DEF FinQueueNext, FinQueue, SentFinNext, SentFin, AgainNext, Again, GoneNext, Gone,
   WasUpNext, WasUp

(* What most steps do: no connection but those of S goes away. *)
Kept(S) ==
  \A i \in Conn :
    /\ WasUp(i) => WasUpNext(i)
    /\ GoneNext(i) => Gone(i) \/ i \in S
    /\ InDisconnect(i)' => InDisconnect(i) \/ WasUp(i)
    /\ WasUpNext(i) => WasUp(i) \/ sPort'[i]
    /\ sPort[i] => sPort'[i] \/ sPc'[i] = "closed"
    /\ sPc[i] = "closed" /\ sState[i] = "NULL" => sPc'[i] = "closed" /\ sState'[i] = "NULL"
    /\ sPc'[i] = "closed" => sPc[i] = "closed" \/ sState'[i] = "NULL"

LEMMA SidesKept ==
  ASSUME FinSides, NEW S, Kept(S), \A i \in Conn : Gone(i) \/ i \in S => cTries'[i] >= 1
  PROVE  FinSides'
BY DEF FinSides, Kept, WasUp, WasUpNext, Gone, GoneNext

LEMMA QueueTypes ==
  ASSUME IInv
  PROVE  /\ Len(c2s) \in Nat
         /\ \A k \in 1..Len(c2s) : c2s[k].conn \in Conn /\ RequestOK(c2s[k])
         /\ \A i \in Conn : cTries[i] \in Nat
<1>1. c2s \in Seq(RequestType) /\ cTries \in [Conn -> 0..MaxRetry]
  BY DEF IInv, NetTypes, ClientTypes
<1>2. \A k \in 1..Len(c2s) : c2s[k] \in RequestType /\ c2s[k] \in In(c2s)
  BY <1>1 DEF In
<1> QED BY <1>1, <1>2, ConnConstants DEF IInv, NetInv, RequestType

(* Nothing is sent or taken. *)
LEMMA QuietStep ==
  ASSUME IInv, FinSides, FinQueue, Kept({}), UNCHANGED c2s, UNCHANGED cTries
  PROVE  FinSides' /\ FinQueue'
<1>1. FinSides'
  BY SidesKept DEF FinSides
<1>2. \A k \in 1..Len(c2s) : SentFinNext(c2s[k]) /\ (GoneNext(c2s[k].conn) => AgainNext(c2s[k]))
  BY QueueTypes DEF FinQueue, Kept, SentFin, SentFinNext, Again, AgainNext
<1>3. \A k \in 1..Len(c2s) : Again(c2s[k]) => AgainNext(c2s[k])
  BY DEF Again, AgainNext
<1>4. c2s' = c2s
  OBVIOUS
<1> QED BY <1>1, <1>2, <1>3, <1>4, QueueNext DEF FinQueue, FinQueueNext

(* The server takes the oldest segment. *)
LEMMA TakenStep ==
  ASSUME IInv, FinSides, FinQueue, NEW S, Kept(S), c2s # <<>>, c2s' = Tail(c2s),
         UNCHANGED cTries, \A i \in S : Head(c2s).type = "FIN" /\ Head(c2s).conn = i
  PROVE  FinSides' /\ FinQueue'
<1>1. /\ Len(c2s) \in Nat /\ Len(c2s) >= 1 /\ Head(c2s) = c2s[1]
      /\ Len(c2s') = Len(c2s) - 1 /\ \A k \in 1..Len(c2s') : c2s'[k] = c2s[k + 1]
  BY DEF IInv, NetTypes
<1>2. \A k \in 1..Len(c2s') : k + 1 \in 1..Len(c2s) /\ 1 < k + 1
  BY <1>1
<1>3. SentFin(c2s[1]) /\ c2s[1].conn \in Conn
  BY <1>1, QueueTypes DEF FinQueue
<1>4. FinSides'
  BY <1>1, <1>3, SidesKept DEF FinSides, SentFin
<1>5. \A k \in 1..Len(c2s') : GoneNext(c2s[k + 1].conn) => Again(c2s[k + 1])
  BY <1>1, <1>2, QueueTypes DEF FinQueue, Kept
<1>6. \A k \in 1..Len(c2s') :
        SentFinNext(c2s[k + 1]) /\ (Again(c2s[k + 1]) => AgainNext(c2s[k + 1]))
  BY <1>2, QueueTypes DEF FinQueue, Kept, SentFin, SentFinNext, Again, AgainNext
<1>7. \A k \in 1..Len(c2s') : SentFinNext(c2s'[k]) /\ (GoneNext(c2s'[k].conn) => AgainNext(c2s'[k]))
  BY <1>1, <1>5, <1>6
<1>8. \A j, k \in 1..Len(c2s') :
        j < k /\ c2s'[j].type = "FIN" /\ c2s'[j].conn = c2s'[k].conn => AgainNext(c2s'[k])
  <2> SUFFICES ASSUME NEW j \in 1..Len(c2s'), NEW k \in 1..Len(c2s'), j < k,
                      c2s'[j].type = "FIN", c2s'[j].conn = c2s'[k].conn
               PROVE  AgainNext(c2s'[k])
    OBVIOUS
  <2>1. j + 1 \in 1..Len(c2s) /\ k + 1 \in 1..Len(c2s) /\ j + 1 < k + 1
    BY <1>2
  <2>2. Again(c2s[k + 1])
    BY <1>1, <2>1 DEF FinQueue
  <2> QED BY <1>1, <1>6, <2>2
<1> QED BY <1>4, <1>7, <1>8, QueueNext DEF FinQueueNext

(* connect or disconnect begins to count from 0. *)
LEMMA ResetStep ==
  ASSUME IInv, FinSides, FinQueue, Kept({}), UNCHANGED c2s,
         NEW i \in Conn, Calm(i), cTries' = [cTries EXCEPT ![i] = 0]
  PROVE  FinSides' /\ FinQueue'
<1>1. ~Gone(i) /\ \A j \in Conn : j # i => cTries'[j] = cTries[j]
  BY DEF IInv, CalmInv, ClientTypes
<1>2. \A k \in 1..Len(c2s) : c2s[k].conn = i => c2s[k].type # "FIN"
  BY QueueTypes DEF RequestOK
<1>3. FinSides'
  BY <1>1, SidesKept DEF FinSides
<1>4. \A k \in 1..Len(c2s) : SentFinNext(c2s[k]) /\ (Again(c2s[k]) => AgainNext(c2s[k]))
  BY <1>1, <1>2, QueueTypes DEF FinQueue, Kept, SentFin, SentFinNext, Again, AgainNext
<1>5. \A k \in 1..Len(c2s) : GoneNext(c2s[k].conn) => Again(c2s[k])
  BY QueueTypes DEF FinQueue, Kept
<1>6. c2s' = c2s
  OBVIOUS
<1> QED BY <1>3, <1>4, <1>5, <1>6, QueueNext DEF FinQueue, FinQueueNext

(* A try is sent and counted. *)
LEMMA SentStep ==
  ASSUME IInv, FinSides, FinQueue, Kept({}), NEW i \in Conn, NEW m \in RequestType,
         m.conn = i, c2s' = Append(c2s, m), cTries' = [cTries EXCEPT ![i] = cTries[i] + 1],
         m.type = "SYN" => Calm(i), m.type = "FIN" => WasUp(i)
  PROVE  FinSides' /\ FinQueue'
<1> DEFINE n == Len(c2s) + 1
<1>1. /\ Len(c2s) \in Nat /\ Len(c2s') = n /\ c2s'[n] = m
      /\ \A k \in 1..Len(c2s) : c2s'[k] = c2s[k]
  BY DEF IInv, NetTypes
<1>2. \A j \in Conn : cTries[j] \in Nat /\ cTries'[j] \in Nat /\ cTries'[j] >= cTries[j]
  <2>1. /\ cTries[i] \in Nat /\ cTries'[i] = cTries[i] + 1
        /\ \A j \in Conn : j # i => cTries'[j] = cTries[j]
    BY QueueTypes DEF IInv, ClientTypes
  <2> QED BY <2>1, QueueTypes
<1>3. FinSides'
  <2>1. \A j \in Conn : Gone(j) => cTries'[j] >= 1
    BY <1>2 DEF FinSides
  <2> QED BY <2>1, SidesKept
<1>4. \A k \in 1..Len(c2s) : /\ SentFinNext(c2s[k]) /\ (Again(c2s[k]) => AgainNext(c2s[k]))
                             /\ GoneNext(c2s[k].conn) => Again(c2s[k])
  <2> TAKE k \in 1..Len(c2s)
  <2>1. c2s[k].conn \in Conn
    BY QueueTypes
  <2>2. /\ cTries[c2s[k].conn] \in Nat /\ cTries'[c2s[k].conn] \in Nat
        /\ cTries'[c2s[k].conn] >= cTries[c2s[k].conn]
    BY <1>2, <2>1
  <2> QED BY <2>1, <2>2 DEF FinQueue, Kept, SentFin, SentFinNext, Again, AgainNext
<1>5. cTries[i] \in Nat /\ cTries'[i] = cTries[i] + 1
  BY <1>2 DEF IInv, ClientTypes
<1>6. SentFinNext(m)
  BY <1>5 DEF SentFinNext, Kept
<1>7. GoneNext(i) => AgainNext(m)
  <2>1. GoneNext(i) => Gone(i) /\ ~Calm(i) /\ cTries[i] >= 1
    BY DEF Kept, IInv, CalmInv, FinSides
  <2> QED BY <1>5, <2>1 DEF AgainNext, RequestType
<1>8. ASSUME NEW j \in 1..Len(c2s), c2s[j].type = "FIN", c2s[j].conn = i
      PROVE  AgainNext(m)
  <2>1. ~Calm(i) /\ cTries[i] >= 1
    BY <1>8, QueueTypes DEF RequestOK, FinQueue, SentFin
  <2> QED BY <1>5, <2>1 DEF AgainNext, RequestType
<1>9. \A k \in 1..n : k \in 1..Len(c2s) \/ k = n
  BY <1>1
<1>10. \A k \in 1..n : SentFinNext(c2s'[k]) /\ (GoneNext(c2s'[k].conn) => AgainNext(c2s'[k]))
  BY <1>1, <1>4, <1>6, <1>7, <1>9
<1>11. ASSUME NEW j \in 1..n, NEW k \in 1..n, j < k,
              c2s'[j].type = "FIN", c2s'[j].conn = c2s'[k].conn
       PROVE  AgainNext(c2s'[k])
  <2>1. j \in 1..Len(c2s)
    BY <1>1, <1>11
  <2>2. CASE k = n
    BY <1>1, <1>8, <1>11, <2>1, <2>2
  <2>3. CASE k \in 1..Len(c2s)
    BY <1>1, <1>4, <1>11, <2>1, <2>3 DEF FinQueue
  <2> QED BY <1>9, <2>2, <2>3
<1> QED BY <1>1, <1>3, <1>10, <1>11, QueueNext DEF FinQueueNext

FinInv == FinSides /\ FinQueue

LEMMA FinNext == IInv /\ FinInv /\ [Next]_vars => FinInv'
<1> SUFFICES ASSUME IInv, FinSides, FinQueue, [Next]_vars PROVE FinSides' /\ FinQueue'
  BY DEF FinInv
<1> USE DEF InDisconnect
<1>1. ASSUME NEW i \in Conn, ClientCaller(i) PROVE FinSides' /\ FinQueue'
  <2>1. CASE ConnectStart(i) \/ DisconnectStart(i)
    <3>1. /\ Calm(i) /\ UNCHANGED c2s /\ cTries' = [cTries EXCEPT ![i] = 0]
          /\ UNCHANGED <<sPc, sState, sPort>>
          /\ \A j \in Conn : j # i => cPc'[j] = cPc[j]
          /\ cPc'[i] = "fin" => WasUp(i)
          /\ cPc'[i] \in {"syn", "fin"}
      BY <2>1 DEF ConnectStart, DisconnectStart, serverVars, Calm, IInv, UpInv, ClientTypes
    <3>2. Kept({})
      BY <3>1 DEF Kept, WasUp, WasUpNext, Gone, GoneNext
    <3> QED BY <3>1, <3>2, ResetStep
  <2>2. CASE SendSyn(i) \/ SendFin(i)
    <3>1. PICK m : \/ m = Seg("SYN", i, cNum[i]) /\ SendSyn(i)
                   \/ m = Seg("FIN", i, cNum[i]) /\ SendFin(i)
      BY <2>2
    <3>2. cNum[i] \in Nat
      BY DEF IInv, ClientTypes
    <3>3. m \in RequestType /\ m.conn = i
      BY <3>1, <3>2 DEF Seg, RequestType
    <3>4. /\ c2s' = Append(c2s, m) /\ cTries' = [cTries EXCEPT ![i] = cTries[i] + 1]
          /\ UNCHANGED <<sPc, sState, sPort>>
      BY <3>1 DEF SendSyn, SendFin, SendAndSleep, CountTry, serverVars
    <3>5. /\ m.type = "SYN" => cPc[i] = "syn" /\ cPc'[i] = "synSleep"
          /\ m.type = "FIN" => cPc[i] = "fin" /\ cPc'[i] = "finSleep"
          /\ \A j \in Conn : j # i => cPc'[j] = cPc[j]
      BY <3>1 DEF SendSyn, SendFin, SendAndSleep, Seg, IInv, ClientTypes
    <3>6. (m.type = "SYN" => Calm(i)) /\ (m.type = "FIN" => WasUp(i))
      BY <3>5 DEF Calm, FinSides
    <3>7. Kept({})
      BY <3>3, <3>4, <3>5, <3>6 DEF Kept, WasUp, WasUpNext, Gone, GoneNext, RequestType
    <3> QED BY <3>3, <3>4, <3>6, <3>7, SentStep
  <2>3. CASE ClientSock(i) \/ SynWakeUp(i) \/ ConnectFails(i) \/ FinWakeUp(i)
               \/ DisconnectFails(i) \/ ClientClose(i)
    <3>1. UNCHANGED <<c2s, cTries, sPc, sState, sPort>>
      BY <2>3 DEF ClientSock, SynWakeUp, ConnectFails, FinWakeUp, DisconnectFails, ClientClose,
         WakeUp, GiveUp, serverVars
    <3>2. \A j \in Conn : InDisconnect(j)' => InDisconnect(j)
      BY <2>3 DEF ClientSock, SynWakeUp, ConnectFails, FinWakeUp, DisconnectFails, ClientClose,
         WakeUp, GiveUp, IInv, ClientTypes
    <3>3. Kept({})
      BY <3>1, <3>2 DEF Kept, WasUp, WasUpNext, Gone, GoneNext
    <3> QED BY <3>1, <3>3, QuietStep
  <2> QED BY <1>1, <2>1, <2>2, <2>3 DEF ClientCaller
<1>2. ASSUME NEW i \in Conn, ServerCaller(i) \/ Finclock(i) PROVE FinSides' /\ FinQueue'
  <2>1. UNCHANGED <<c2s, cTries, cPc>>
    BY <1>2 DEF ServerCaller, ServerSock, AcceptStart, AcceptReturns, ServerClose, Finclock,
       clientVars
  <2>2. /\ \A j \in Conn : j # i => sState'[j] = sState[j] /\ sPc'[j] = sPc[j]
                                     /\ sPort'[j] = sPort[j]
        /\ \/ sPc[i] \in {"start", "made"} /\ sPc'[i] \in {"start", "made"} /\ sPort'[i] = sPort[i]
           \/ /\ sPc[i] = "made" /\ sPc'[i] = "accept"
              /\ sState'[i] = "LISTENING" /\ sPort'[i] = sPort[i]
           \/ /\ sPc[i] \notin {"start", "made", "closed"} /\ sPc'[i] \notin {"start", "made", "closed"}
              /\ sState'[i] = sState[i] /\ sPort'[i] = sPort[i]
           \/ sPc[i] = "accepted" /\ sPc'[i] = "closed" /\ sState[i] = "CLOSED" /\ sState'[i] = "NULL"
           \/ /\ sState[i] = "CLOSEWAIT" /\ sState'[i] = "CLOSED"
              /\ sPc'[i] = sPc[i] /\ sPort'[i] = sPort[i]
    BY <1>2 DEF ServerCaller, ServerSock, AcceptStart, AcceptReturns, ServerClose, Finclock,
       IInv, ServerTypes, ServerInv
  <2>3. Kept({})
    BY <2>1, <2>2 DEF Kept, WasUp, WasUpNext, Gone, GoneNext
  <2> QED BY <2>1, <2>3, QuietStep
<1>3. CASE ClientSeghandler
  <2>1. UNCHANGED <<c2s, cTries, cPc, sPc, sState, sPort>>
    BY <1>3 DEF ClientSeghandler, ClientReceives, ClientLoses, SetConnected, SetSeq, SetClosed,
       clientVars, callerVars, serverVars
  <2>2. Kept({})
    BY <2>1 DEF Kept, WasUp, WasUpNext, Gone, GoneNext
  <2> QED BY <2>1, <2>2, QuietStep
<1>4. CASE ServerLoses \/ AssertFails
  <2>1. /\ c2s # <<>> /\ c2s' = Tail(c2s) /\ UNCHANGED cTries
        /\ UNCHANGED <<cPc, sPc, sState, sPort>>
    BY <1>4 DEF ServerLoses, AssertFails, ServerReads, clientVars, serverVars
  <2>2. Kept({})
    BY <2>1 DEF Kept, WasUp, WasUpNext, Gone, GoneNext
  <2> QED BY <2>1, <2>2, TakenStep
<1>5. CASE ServerSyn
  <2>1. c2s # <<>> /\ c2s' = Tail(c2s) /\ UNCHANGED cTries /\ UNCHANGED <<cPc, sPc>>
    BY <1>5 DEF ServerSyn, ServerReads, clientVars
  <2>2. PICK i \in Conn : /\ i = Head(c2s).conn
    BY <1>5, HeadOK DEF ServerSyn, RequestType
  <2>3. \/ UNCHANGED <<sState, sPort>>
        \/ /\ sState[i] \in {"LISTENING", "CONNECTED"}
           /\ sState' = [sState EXCEPT ![i] = "CONNECTED"] /\ sPort' = [sPort EXCEPT ![i] = TRUE]
    BY <1>5, <2>2 DEF ServerSyn
  <2>4. Kept({})
    BY <2>1, <2>3 DEF Kept, WasUp, WasUpNext, Gone, GoneNext, IInv, ServerTypes
  <2> QED BY <2>1, <2>4, TakenStep
<1>6. CASE ServerFin
  <2>1. c2s # <<>> /\ c2s' = Tail(c2s) /\ UNCHANGED cTries /\ UNCHANGED <<cPc, sPc, sPort>>
    BY <1>6 DEF ServerFin, ServerReads, clientVars
  <2>2. PICK i \in Conn : i = Head(c2s).conn
    BY <1>6, HeadOK DEF ServerFin, RequestType
  <2>3. /\ Head(c2s).type = "FIN"
        /\ \/ UNCHANGED sState
           \/ sState[i] = "CONNECTED" /\ sState' = [sState EXCEPT ![i] = "CLOSEWAIT"]
    BY <1>6, <2>2 DEF ServerFin, ServerReads, StartsClock
  <2>4. Kept({i})
    BY <2>1, <2>3 DEF Kept, WasUp, WasUpNext, Gone, GoneNext, IInv, ServerTypes
  <2>5. \A j \in {i} : Head(c2s).type = "FIN" /\ Head(c2s).conn = j
    BY <2>2, <2>3
  <2> QED BY <2>1, <2>4, <2>5, TakenStep
<1>7. CASE ServerFinAck \/ UNCHANGED vars
  <2>1. UNCHANGED <<c2s, cTries, cPc, sPc, sState, sPort>>
    BY <1>7 DEF ServerFinAck, vars, clientVars, serverVars
  <2>2. Kept({})
    BY <2>1 DEF Kept, WasUp, WasUpNext, Gone, GoneNext
  <2> QED BY <2>1, <2>2, QuietStep
<1> QED BY <1>1, <1>2, <1>3, <1>4, <1>5, <1>6, <1>7 DEF Next, ServerSeghandler

(* An assertion of the server's handler (lines 200 and 233) fails for one  *)
(* of two reasons: a SYN that comes before the socket is made, or a FIN    *)
(* that was sent again to a connection which is closed by now.             *)
THEOREM AbortIsKnown == Spec => AbortCause
<1>1. Init => FinInv
  <2>1. Init => FinSides
    BY DEF Init, FinSides, InDisconnect, WasUp, Gone
  <2>2. Init => Len(c2s) = 0
    BY DEF Init
  <2>3. Init => FinQueue
    BY <2>2 DEF FinQueue
  <2> QED BY <2>1, <2>3 DEF FinInv
<1>2. ASSUME IInv, FinInv, AssertFails, NEW m, m = Head(c2s)
      PROVE  IF m.type = "SYN" THEN sPc[m.conn] = "start"
             ELSE sPc[m.conn] = "closed" /\ cTries[m.conn] > 1
  <2>1. /\ c2s # <<>> /\ m.type \in {"SYN", "FIN"} /\ m.conn \in Conn
        /\ m.type = "SYN" => sState[m.conn] = "NULL"
        /\ m.type = "FIN" => ~sPort[m.conn]
    BY <1>2, HeadOK DEF AssertFails, ServerReads, RequestType
  <2>2. Len(c2s) \in Nat /\ 1 \in 1..Len(c2s) /\ m = c2s[1]
    BY <1>2, <2>1 DEF IInv, NetTypes
  <2>3. SentFin(m) /\ (Gone(m.conn) => Again(m)) /\ cTries[m.conn] \in Nat
    BY <1>2, <2>1, <2>2, QueueTypes DEF FinInv, FinQueue
  <2>4. CASE m.type = "SYN"
    <3>1. ~Gone(m.conn) /\ sPc[m.conn] # "made"
      BY <1>2, <2>1, <2>3, <2>4 DEF Again, IInv, ServerInv
    <3> QED BY <2>1, <2>4, <3>1 DEF Gone
  <2>5. CASE m.type = "FIN"
    <3>1. sPc[m.conn] = "closed"
      BY <1>2, <2>1, <2>3, <2>5 DEF SentFin, FinInv, FinSides
    <3>2. Gone(m.conn)
      BY <1>2, <2>1, <3>1 DEF Gone, FinInv, FinSides
    <3> QED BY <2>3, <2>5, <3>1, <3>2 DEF Again
  <2> QED BY <2>1, <2>4, <2>5
<1>3. IInv /\ FinInv /\ [Next]_vars
        => FinInv' /\ [AssertFails => LET m == Head(c2s)
                                      IN  IF m.type = "SYN" THEN sPc[m.conn] = "start"
                                          ELSE sPc[m.conn] = "closed" /\ cTries[m.conn] > 1]_vars
  BY <1>2, FinNext
<1> QED BY <1>1, <1>3, Inductive, PTL DEF Spec, AbortCause

(* When one thread accepts: it has come to a connection only after it has  *)
(* accepted those before.                                                  *)
OneByOne ==
  \A i, j \in Conn : j < i /\ sPc[i] # "start" => sPc[j] \in {"accepted", "closed"}

LEMMA StaysOneByOne ==
  ~ParallelAccept /\ IInv /\ OneByOne /\ [Next]_vars => OneByOne'
<1> SUFFICES ASSUME ~ParallelAccept, IInv, OneByOne, [Next]_vars PROVE OneByOne'
  OBVIOUS
<1>1. CASE UNCHANGED sPc
  BY <1>1 DEF OneByOne
<1>2. ASSUME NEW i \in Conn, ServerSock(i) PROVE OneByOne'
  <2>1. sPc' = [sPc EXCEPT ![i] = "made"] /\ sPc[i] = "start"
        /\ \A j \in 1..(i - 1) : sPc[j] = "accepted"
    BY <1>2 DEF ServerSock
  <2>2. \A j \in Conn : j < i => j \in 1..(i - 1)
    BY ConnConstants DEF Conn
  <2>3. \A j \in Conn : j # i => sPc'[j] = sPc[j]
    BY <2>1 DEF IInv, ServerTypes
  <2>4. ASSUME NEW k \in Conn, NEW j \in Conn, j < k, sPc'[k] # "start"
        PROVE  sPc'[j] \in {"accepted", "closed"}
    <3>1. CASE k = i
      <4>1. j # i
        BY <2>4, <3>1, ConnConstants DEF Conn
      <4> QED BY <2>1, <2>2, <2>3, <2>4, <3>1, <4>1
    <3>2. CASE k # i
      <4>1. sPc[j] \in {"accepted", "closed"}
        BY <2>3, <2>4, <3>2 DEF OneByOne
      <4> QED BY <2>1, <2>3, <4>1
    <3> QED BY <3>1, <3>2
  <2> QED BY <2>4 DEF OneByOne
<1>3. ASSUME NEW i \in Conn, AcceptStart(i) \/ AcceptReturns(i) \/ ServerClose(i)
      PROVE  OneByOne'
  <2>1. /\ sPc[i] # "start" /\ \A j \in Conn : j # i => sPc'[j] = sPc[j]
        /\ sPc[i] \in {"accepted", "closed"} => sPc'[i] \in {"accepted", "closed"}
    BY <1>3 DEF AcceptStart, AcceptReturns, ServerClose, IInv, ServerTypes
  <2>2. \A j \in Conn : /\ sPc'[j] # "start" => sPc[j] # "start"
                        /\ sPc[j] \in {"accepted", "closed"} => sPc'[j] \in {"accepted", "closed"}
    BY <2>1
  <2> QED BY <2>2 DEF OneByOne
<1>4. CASE \E i \in Conn : ClientCaller(i) \/ Finclock(i)
  <2>1. ASSUME NEW i \in Conn, ClientCaller(i) \/ Finclock(i) PROVE UNCHANGED sPc
    <3>1. ClientSock(i) \/ ConnectStart(i) \/ SendSyn(i) => UNCHANGED sPc
      BY DEF ClientSock, ConnectStart, SendSyn, SendAndSleep, serverVars
    <3>2. SynWakeUp(i) \/ ConnectFails(i) \/ DisconnectStart(i) => UNCHANGED sPc
      BY DEF SynWakeUp, WakeUp, ConnectFails, GiveUp, DisconnectStart, serverVars
    <3>3. SendFin(i) \/ FinWakeUp(i) => UNCHANGED sPc
      BY DEF SendFin, SendAndSleep, FinWakeUp, WakeUp, serverVars
    <3>4. DisconnectFails(i) \/ ClientClose(i) \/ Finclock(i) => UNCHANGED sPc
      BY DEF DisconnectFails, GiveUp, ClientClose, Finclock, serverVars
    <3> QED BY <2>1, <3>1, <3>2, <3>3, <3>4 DEF ClientCaller
  <2> QED BY <1>1, <1>4, <2>1
<1>5. CASE ClientSeghandler \/ ServerSeghandler
  <2>1. UNCHANGED sPc
    <3>1. ClientReceives \/ ClientLoses \/ SetConnected \/ SetSeq \/ SetClosed => UNCHANGED sPc
      BY DEF ClientReceives, ClientLoses, SetConnected, SetSeq, SetClosed, serverVars
    <3>2. ServerLoses \/ AssertFails => UNCHANGED sPc
      BY DEF ServerLoses, AssertFails, serverVars
    <3>3. ServerSyn \/ ServerFin \/ ServerFinAck => UNCHANGED sPc
      BY DEF ServerSyn, ServerFin, ServerFinAck, serverVars
    <3> QED BY <1>5, <3>1, <3>2, <3>3 DEF ClientSeghandler, ServerSeghandler
  <2> QED BY <1>1, <2>1
<1>6. CASE UNCHANGED vars
  BY <1>1, <1>6 DEF vars, serverVars
<1> QED BY <1>2, <1>3, <1>4, <1>5, <1>6 DEF Next, ServerCaller

(* When one thread accepts the connections one after the other, accept     *)
(* returns only for a TCB that a SYN has reached: all units of the         *)
(* semaphore but its own have been taken.                                  *)
THEOREM AcceptTellsTruth == ASSUME ~ParallelAccept PROVE Spec => AcceptedMeansConnected
<1>1. Init => OneByOne
  BY DEF Init, OneByOne
<1>2. IInv /\ OneByOne => \A i \in Conn : AcceptReturns(i) => sState[i] # "LISTENING"
  <2> SUFFICES ASSUME IInv, OneByOne, NEW i \in Conn, AcceptReturns(i), sState[i] = "LISTENING"
               PROVE  FALSE
    OBVIOUS
  <2>1. sPc[i] = "accept" /\ gsem > 0
    BY DEF AcceptReturns
  <2>2. \A j \in Conn : j < i \/ j = i \/ i < j
    BY ConnConstants DEF Conn
  <2>3. \A j \in Conn : j < i => sPc[j] \in {"accepted", "closed"}
    BY <2>1 DEF OneByOne
  <2>4. \A j \in Conn : i < j => sPc[j] = "start"
    BY <2>1 DEF OneByOne
  <2>5. Left \in SUBSET Returned
    BY <2>2, <2>3, <2>4 DEF Left, Returned
  <2>6. Cardinality(Left) <= Cardinality(Returned)
    BY <2>5, FiniteSets, FS_Subset
  <2>7. gsem \in Nat /\ gsem + Cardinality(Returned) = Cardinality(Left)
    BY DEF IInv, ServerTypes, SemCount, Left, Returned
  <2> QED BY <2>1, <2>6, <2>7, FiniteSets
<1>3. ~ParallelAccept /\ IInv /\ OneByOne /\ [Next]_vars
        => OneByOne' /\ [\A i \in Conn : AcceptReturns(i) => sState[i] # "LISTENING"]_vars
  BY <1>2, StaysOneByOne
<1> QED BY <1>1, <1>3, Inductive, PTL DEF Spec, AcceptedMeansConnected
=============================================================================
