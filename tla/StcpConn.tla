------------------------------ MODULE StcpConn ------------------------------
(***************************************************************************)
(* Connection management of STCP (lab5 and lab6): connect, disconnect and  *)
(* close on the client; sock, accept and close on the server; the seghandler*)
(* of each side, finclock, and the one overlay TCP connection they share.  *)
(* Both labs take the same steps; the actions follow the code of lab6, whose*)
(* disconnect also waits for the send buffer to empty.  In lab5 expect_seqNum*)
(* starts uninitialized, but a SYN sets it before it is used.              *)
(*                                                                         *)
(* A connection is known by the slot its TCBs have in the two tables; both *)
(* programs open their sockets in the order of the slots.  next_seqNum of  *)
(* a fresh client TCB is 0, so the handshake agrees on 1.  The two stores  *)
(* of the SYNACK handler, and the test and the store in the handlers and   *)
(* in connect and disconnect, are separate steps: no lock protects state.  *)
(* A sleep may end at any moment; only the number of retries counts.  The  *)
(* tables are not full: a search that fails ends on a NULL slot.           *)
(***************************************************************************)
EXTENDS Naturals, Sequences, FiniteSets

CONSTANTS
  NConn,            \* connections, fewer than MAX_TRANSPORT_CONNECTIONS
  MaxRetry,         \* SYN_MAX_RETRY and FIN_MAX_RETRY
  MaxConnects,      \* bound: calls of stcp_client_connect on one socket
  ParallelAccept,   \* does every server socket have a thread of its own?
  NetCap            \* bound: segments under way in one direction

ASSUME ConnConstants ==
  /\ NConn \in Nat \ {0} /\ MaxRetry \in Nat \ {0}
  /\ MaxConnects \in Nat \ {0} /\ ParallelAccept \in BOOLEAN /\ NetCap \in Nat

Conn == 1..NConn
Idle == [at |-> "idle"]

VARIABLES
  cState, cSeq,     \* client TCBs: state ("NULL", "FREED" too), next_seqNum
  cNum,             \* seq_num of the one SYN or FIN a call builds and repeats
  cPc, cTries,      \* client callers: where they are, segments sent so far
  cCalls,           \* calls of stcp_client_connect so far
  cHand,            \* client seghandler between two of its steps
  sState, sExpect,  \* server TCBs: state ("NULL" too), expect_seqNum
  sPort,            \* client_portNum is set (it starts uninitialized)
  sPc,              \* server callers
  sClock,           \* number of finclock threads that have not yet run
  sHand,            \* server seghandler between two of its steps
  gsem,             \* the semaphore of stcp_server_accept
  aborted,          \* an assert(tp != NULL) of the server failed
  c2s, s2c          \* segments under way, oldest first

clientVars == <<cState, cSeq, cNum, cPc, cTries, cCalls, cHand>>
callerVars == <<cNum, cPc, cTries, cCalls>>
serverVars == <<sState, sExpect, sPort, sPc, sClock, sHand, gsem, aborted>>
vars == <<clientVars, serverVars, c2s, s2c>>

Seg(type, i, n) == [type |-> type, conn |-> i, num |-> n]

Init ==
  /\ cState = [i \in Conn |-> "NULL"] /\ cSeq = [i \in Conn |-> 0]
  /\ cPc = [i \in Conn |-> "start"] /\ cTries = [i \in Conn |-> 0]
  /\ cCalls = [i \in Conn |-> 0] /\ cNum = [i \in Conn |-> 0] /\ cHand = Idle
  /\ sState = [i \in Conn |-> "NULL"] /\ sExpect = [i \in Conn |-> 0]
  /\ sPort = [i \in Conn |-> FALSE] /\ sPc = [i \in Conn |-> "start"]
  /\ sClock = [i \in Conn |-> 0] /\ sHand = Idle
  /\ gsem = 0 /\ aborted = FALSE /\ c2s = <<>> /\ s2c = <<>>

-----------------------------------------------------------------------------
(* The client's callers.  One main thread serves all connections, in any   *)
(* order of calls; a call on one connection ends before the next begins.   *)
InConnect(i) == cPc[i] \in {"syn", "synSleep", "synLost"}
InDisconnect(i) == cPc[i] \in {"fin", "finSleep", "finLost"}
NoCall == \A j \in Conn : ~InConnect(j) /\ ~InDisconnect(j)

(* stcp_client_sock fills the next slot of the table. *)
ClientSock(i) ==
  /\ cPc[i] = "start" /\ NoCall /\ \A j \in 1..(i - 1) : cPc[j] # "start"
  /\ cState' = [cState EXCEPT ![i] = "CLOSED"]
  /\ cSeq' = [cSeq EXCEPT ![i] = 0]
  /\ cPc' = [cPc EXCEPT ![i] = "made"]
  /\ UNCHANGED <<cNum, cTries, cCalls, cHand, serverVars, c2s, s2c>>

(* stcp_client_connect in CLOSED, the first time or after a failure. *)
ConnectStart(i) ==
  /\ cPc[i] \in {"made", "failed"} /\ NoCall /\ cState[i] = "CLOSED"
  /\ cCalls[i] < MaxConnects
  /\ cState' = [cState EXCEPT ![i] = "SYNSENT"]
  /\ cCalls' = [cCalls EXCEPT ![i] = @ + 1]
  /\ cNum' = [cNum EXCEPT ![i] = cSeq[i]]
  /\ cTries' = [cTries EXCEPT ![i] = 0]
  /\ cPc' = [cPc EXCEPT ![i] = "syn"]
  /\ UNCHANGED <<cSeq, cHand, serverVars, c2s, s2c>>

(* The body of a retry loop: send, count the try, then sleep. *)
CountTry_Not(n) == n                                    \* mutant
CountTry(n) == n + 1

SendAndSleep(i, type, from, to) ==
  /\ cPc[i] = from /\ cTries[i] < MaxRetry /\ Len(c2s) < NetCap
  /\ c2s' = Append(c2s, Seg(type, i, cNum[i]))
  /\ cTries' = [cTries EXCEPT ![i] = CountTry(@)]
  /\ cPc' = [cPc EXCEPT ![i] = to]
  /\ UNCHANGED <<cState, cSeq, cNum, cCalls, cHand, serverVars, s2c>>

SendSyn(i) == SendAndSleep(i, "SYN", "syn", "synSleep")
SendFin(i) == SendAndSleep(i, "FIN", "fin", "finSleep")

WakeUp_TooSoon(i, from, goal, done, again, giveUp) ==   \* mutant
  /\ cPc[i] = from
  /\ cPc' = [cPc EXCEPT ![i] = IF cState[i] = goal THEN done
                               ELSE IF cTries[i] + 1 < MaxRetry THEN again
                               ELSE giveUp]
  /\ UNCHANGED <<cState, cSeq, cNum, cTries, cCalls, cHand, serverVars,
                 c2s, s2c>>

(* After the sleep: return if the handler has set the state, else loop on, *)
(* or give up after the last retry.                                        *)
WakeUp(i, from, goal, done, again, giveUp) ==
  /\ cPc[i] = from
  /\ cPc' = [cPc EXCEPT ![i] = IF cState[i] = goal THEN done
                               ELSE IF cTries[i] < MaxRetry THEN again
                               ELSE giveUp]
  /\ UNCHANGED <<cState, cSeq, cNum, cTries, cCalls, cHand, serverVars,
                 c2s, s2c>>

SynWakeUp_Early(i) ==                                   \* mutant
  WakeUp(i, "synSleep", "SYNSENT", "up", "syn", "synLost")
SynWakeUp(i) == WakeUp(i, "synSleep", "CONNECTED", "up", "syn", "synLost")
FinWakeUp_Early(i) ==                                   \* mutant
  WakeUp(i, "finSleep", "FINWAIT", "down", "fin", "finLost")
FinWakeUp(i) == WakeUp(i, "finSleep", "CLOSED", "down", "fin", "finLost")

(* tp->state = CLOSED; return -1, at the end of connect and disconnect. *)
GiveUp(i, from, to) ==
  /\ cPc[i] = from
  /\ cState' = [cState EXCEPT ![i] = "CLOSED"]
  /\ cPc' = [cPc EXCEPT ![i] = to]
  /\ UNCHANGED <<cSeq, cNum, cTries, cCalls, cHand, serverVars, c2s, s2c>>

ConnectFails(i) == GiveUp(i, "synLost", "failed")
DisconnectFails(i) == GiveUp(i, "finLost", "down?")

(* stcp_client_disconnect in CONNECTED, once the send buffer is empty. *)
DisconnectStart(i) ==
  /\ cPc[i] = "up" /\ NoCall /\ cState[i] = "CONNECTED"
  /\ cState' = [cState EXCEPT ![i] = "FINWAIT"]
  /\ cNum' = [cNum EXCEPT ![i] = cSeq[i]]
  /\ cTries' = [cTries EXCEPT ![i] = 0]
  /\ cPc' = [cPc EXCEPT ![i] = "fin"]
  /\ UNCHANGED <<cSeq, cCalls, cHand, serverVars, c2s, s2c>>

(* stcp_client_close in CLOSED frees the TCB; only a local pointer becomes *)
(* NULL, so the slot keeps the dangling pointer.                           *)
ClientClose(i) ==
  /\ cPc[i] \in {"made", "failed", "down", "down?"} /\ NoCall /\ cState[i] = "CLOSED"
  /\ cState' = [cState EXCEPT ![i] = "FREED"]
  /\ cPc' = [cPc EXCEPT ![i] = "closed"]
  /\ UNCHANGED <<cSeq, cNum, cTries, cCalls, cHand, serverVars, c2s, s2c>>

-----------------------------------------------------------------------------
(* The client's seghandler. *)

(* What a segment does in a state: the next step of the handler. *)
Reaction(m) ==
  CASE m.type = "SYNACK" /\ cState[m.conn] = "SYNSENT" ->
         [at |-> "setConnected", conn |-> m.conn, num |-> m.num]
    [] m.type = "FINACK" /\ cState[m.conn] = "FINWAIT" ->
         [at |-> "setClosed", conn |-> m.conn, num |-> m.num]
    [] OTHER -> Idle

(* A segment arrives: the table is searched and the state tested.  (A      *)
(* dangling slot is compared too, but does not match its freed TCB.)       *)
ClientReceives ==
  /\ cHand = Idle /\ s2c # <<>>
  /\ cHand' = Reaction(Head(s2c))
  /\ s2c' = Tail(s2c)
  /\ UNCHANGED <<cState, cSeq, callerVars, serverVars, c2s>>

ClientLoses ==
  /\ cHand = Idle /\ s2c # <<>>
  /\ s2c' = Tail(s2c)
  /\ UNCHANGED <<clientVars, serverVars, c2s>>

(* A store to tp->state; one to a freed TCB is lost.                       *)
StoreState(i, state) ==
  cState' = [cState EXCEPT ![i] = IF @ = "FREED" THEN @ ELSE state]

(* tp->state = CONNECTED, *)
SetConnected ==
  /\ cHand.at = "setConnected"
  /\ StoreState(cHand.conn, "CONNECTED")
  /\ cHand' = [cHand EXCEPT !.at = "setSeq"]
  /\ UNCHANGED <<cSeq, callerVars, serverVars, c2s, s2c>>

(* and then tp->next_seqNum = recv_seg.header.ack_num. *)
SetSeq ==
  /\ cHand.at = "setSeq"
  /\ cSeq' = [cSeq EXCEPT ![cHand.conn] = cHand.num]
  /\ cHand' = Idle
  /\ UNCHANGED <<cState, callerVars, serverVars, c2s, s2c>>

(* tp->state = CLOSED, in the handler of FINACK. *)
SetClosed ==
  /\ cHand.at = "setClosed"
  /\ StoreState(cHand.conn, "CLOSED")
  /\ cHand' = Idle
  /\ UNCHANGED <<cSeq, callerVars, serverVars, c2s, s2c>>

-----------------------------------------------------------------------------
(* The server's callers: one main thread that accepts one connection after *)
(* the other, or a thread for each socket.                                 *)
ServerSock(i) ==
  /\ ~aborted /\ sPc[i] = "start"
  /\ \A j \in 1..(i - 1) : IF ParallelAccept THEN sPc[j] # "start"
                           ELSE sPc[j] = "accepted"
  /\ sState' = [sState EXCEPT ![i] = "CLOSED"]
  /\ sExpect' = [sExpect EXCEPT ![i] = 0]
  /\ sPc' = [sPc EXCEPT ![i] = "made"]
  /\ UNCHANGED <<clientVars, sPort, sClock, sHand, gsem, aborted,
                 c2s, s2c>>

AcceptStart(i) ==
  /\ ~aborted /\ sPc[i] = "made" /\ sState[i] = "CLOSED"
  /\ sState' = [sState EXCEPT ![i] = "LISTENING"]
  /\ sPc' = [sPc EXCEPT ![i] = "accept"]
  /\ UNCHANGED <<clientVars, sExpect, sPort, sClock, sHand, gsem, aborted,
                 c2s, s2c>>

(* sem_wait(&gsem) returns, and stcp_server_accept with it. *)
AcceptReturns(i) ==
  /\ ~aborted /\ sPc[i] = "accept" /\ gsem > 0
  /\ gsem' = gsem - 1
  /\ sPc' = [sPc EXCEPT ![i] = "accepted"]
  /\ UNCHANGED <<clientVars, sState, sExpect, sPort, sClock, sHand, aborted,
                 c2s, s2c>>

ServerClose_AnyState(i) ==                              \* mutant
  /\ ~aborted /\ sPc[i] = "accepted"
  /\ sState' = [sState EXCEPT ![i] = "NULL"]
  /\ sPort' = [sPort EXCEPT ![i] = FALSE]
  /\ sPc' = [sPc EXCEPT ![i] = "closed"]
  /\ UNCHANGED <<clientVars, sExpect, sClock, sHand, gsem, aborted,
                 c2s, s2c>>

(* stcp_server_close in CLOSED; in every other state it returns -1. *)
ServerClose(i) ==
  /\ ~aborted
  /\ ParallelAccept \/ \A j \in Conn : sPc[j] \in {"accepted", "closed"}
  /\ sPc[i] = "accepted" /\ sState[i] = "CLOSED"
  /\ sState' = [sState EXCEPT ![i] = "NULL"]
  /\ sPort' = [sPort EXCEPT ![i] = FALSE]
  /\ sPc' = [sPc EXCEPT ![i] = "closed"]
  /\ UNCHANGED <<clientVars, sExpect, sClock, sHand, gsem, aborted,
                 c2s, s2c>>

-----------------------------------------------------------------------------
(* The server's seghandler. *)
ServerReads(type) ==
  /\ ~aborted /\ sHand = Idle /\ c2s # <<>> /\ Head(c2s).type = type
  /\ Len(s2c) < NetCap
  /\ c2s' = Tail(c2s)

ServerLoses ==
  /\ \E type \in {"SYN", "FIN"} : ServerReads(type)
  /\ UNCHANGED <<clientVars, serverVars, s2c>>

(* A segment for which no TCB is found fails an assertion. *)
AssertFails ==
  /\ \/ ServerReads("SYN") /\ sState[Head(c2s).conn] = "NULL"
     \/ ServerReads("FIN") /\ ~sPort[Head(c2s).conn]
  /\ aborted' = TRUE
  /\ UNCHANGED <<clientVars, sState, sExpect, sPort, sPc, sClock, sHand, gsem,
                 s2c>>

(* SYN: LISTENING becomes CONNECTED and wakes an accept; both answer. *)
WakesAccept_Always == {"LISTENING", "CONNECTED"}        \* mutant
WakesAccept_Retry == {"CONNECTED"}                      \* mutant
WakesAccept == {"LISTENING"}

ServerSyn ==
  /\ ServerReads("SYN") /\ sState[Head(c2s).conn] # "NULL"
  /\ LET i == Head(c2s).conn
     IN  IF sState[i] \in {"LISTENING", "CONNECTED"}
         THEN /\ gsem' = IF sState[i] \in WakesAccept THEN gsem + 1 ELSE gsem
              /\ sState' = [sState EXCEPT ![i] = "CONNECTED"]
              /\ sPort' = [sPort EXCEPT ![i] = TRUE]
              /\ sExpect' = [sExpect EXCEPT ![i] = Head(c2s).num + 1]
              /\ s2c' = Append(s2c, Seg("SYNACK", i, sExpect'[i]))
         ELSE UNCHANGED <<gsem, sState, sPort, sExpect, s2c>>
  /\ UNCHANGED <<clientVars, sPc, sClock, sHand, aborted>>

(* FIN: CONNECTED becomes CLOSEWAIT and starts finclock; both answer. *)
StartsClock_Twice == {"CONNECTED", "CLOSEWAIT"}         \* mutant
StartsClock == {"CONNECTED"}

ServerFin ==
  /\ ServerReads("FIN") /\ sPort[Head(c2s).conn]
  /\ LET i == Head(c2s).conn
     IN  /\ IF sState[i] \in StartsClock
            THEN /\ sState' = [sState EXCEPT ![i] = "CLOSEWAIT"]
                 /\ sClock' = [sClock EXCEPT ![i] = @ + 1]
            ELSE UNCHANGED <<sState, sClock>>
         /\ sHand' = IF sState[i] \in {"CONNECTED", "CLOSEWAIT"}
                     THEN [at |-> "finack", conn |-> i] ELSE Idle
  /\ UNCHANGED <<clientVars, sExpect, sPort, sPc, gsem, aborted, s2c>>

(* The FINACK is built from the TCB.  It may be freed by now: its memory   *)
(* still holds the ports, or others, and no client takes the segment.      *)
ServerFinAck ==
  /\ ~aborted /\ sHand.at = "finack"
  /\ \/ s2c' = Append(s2c, Seg("FINACK", sHand.conn, sExpect[sHand.conn]))
     \/ sState[sHand.conn] = "NULL" /\ UNCHANGED s2c
  /\ sHand' = Idle
  /\ UNCHANGED <<clientVars, sState, sExpect, sPort, sPc, sClock, gsem,
                 aborted, c2s>>

(* finclock: after CLOSEWAIT_TIMEOUT, tp->state = CLOSED. *)
Finclock(i) ==
  /\ ~aborted /\ sClock[i] > 0
  /\ sClock' = [sClock EXCEPT ![i] = @ - 1]
  /\ sState' = IF sState[i] = "NULL" THEN sState
               ELSE [sState EXCEPT ![i] = "CLOSED"]
  /\ UNCHANGED <<clientVars, sExpect, sPort, sPc, sHand, gsem, aborted, c2s, s2c>>

-----------------------------------------------------------------------------
ClientCaller(i) ==
  ClientSock(i) \/ ConnectStart(i) \/ SendSyn(i) \/ SynWakeUp(i)
    \/ ConnectFails(i) \/ DisconnectStart(i) \/ SendFin(i) \/ FinWakeUp(i)
    \/ DisconnectFails(i) \/ ClientClose(i)

ClientSeghandler ==
  ClientReceives \/ ClientLoses \/ SetConnected \/ SetSeq \/ SetClosed

ServerCaller(i) ==
  ServerSock(i) \/ AcceptStart(i) \/ AcceptReturns(i) \/ ServerClose(i)

ServerSeghandler ==
  ServerLoses \/ AssertFails \/ ServerSyn \/ ServerFin \/ ServerFinAck

Next == \/ \E i \in Conn : ClientCaller(i) \/ ServerCaller(i) \/ Finclock(i)
        \/ ClientSeghandler \/ ServerSeghandler

(* Every thread of a live process runs on; nothing is assumed of losses. *)
Fairness ==
  /\ WF_vars(\E i \in Conn : ClientCaller(i)) /\ WF_vars(ClientSeghandler)
  /\ WF_vars(\E i \in Conn : ServerCaller(i)) /\ WF_vars(ServerSeghandler)
  /\ \A i \in Conn : WF_vars(Finclock(i))

Spec == Init /\ [][Next]_vars
FairSpec == Spec /\ Fairness

-----------------------------------------------------------------------------
TypeOK ==
  /\ cState \in [Conn -> {"NULL", "CLOSED", "SYNSENT", "CONNECTED", "FINWAIT", "FREED"}]
  /\ cSeq \in [Conn -> Nat] /\ cNum \in [Conn -> Nat] /\ cTries \in [Conn -> 0..MaxRetry]
  /\ cPc \in [Conn -> {"start", "made", "syn", "synSleep", "synLost", "up", "failed",
                       "fin", "finSleep", "finLost", "down", "down?", "closed"}]
  /\ cCalls \in [Conn -> 0..MaxConnects]
  /\ cHand.at \in {"idle", "setConnected", "setSeq", "setClosed"}
  /\ sState \in [Conn -> {"NULL", "CLOSED", "LISTENING", "CONNECTED", "CLOSEWAIT"}]
  /\ sExpect \in [Conn -> Nat] /\ sPort \in [Conn -> BOOLEAN]
  /\ sPc \in [Conn -> {"start", "made", "accept", "accepted", "closed"}]
  /\ sClock \in [Conn -> Nat] /\ sHand.at \in {"idle", "finack"}
  /\ gsem \in 0..NConn /\ aborted \in BOOLEAN
  /\ \A k \in 1..Len(c2s) : c2s[k] \in [type : {"SYN", "FIN"}, conn : Conn, num : Nat]
  /\ \A k \in 1..Len(s2c) : s2c[k] \in [type : {"SYNACK", "FINACK"}, conn : Conn, num : Nat]

(* Is the client's handler between its two stores for connection i? *)
SeqPending(i) == cHand.at = "setSeq" /\ cHand.conn = i

(* When stcp_client_connect has returned 1, the server is CONNECTED, and   *)
(* the two sides agree on the next sequence number, unless the handler has *)
(* not made its second store yet (stcp_client.c:333-334) or the store of   *)
(* an earlier connect that failed came too late.                           *)
ConnectAgrees ==
  \A i \in Conn : cPc[i] = "up" =>
    /\ sState[i] = "CONNECTED"
    /\ cSeq[i] = sExpect[i] \/ SeqPending(i) \/ cCalls[i] > 1

(* When stcp_client_disconnect has returned 1, the server has left         *)
(* CONNECTED: a FINACK is never an answer to nothing.                      *)
DisconnectAgrees ==
  \A i \in Conn : cPc[i] = "down" => sState[i] \in {"CLOSEWAIT", "CLOSED", "NULL"}

(* A finclock thread holds a pointer to the TCB for CLOSEWAIT_TIMEOUT.     *)
(* There is at most one per TCB, and while it sleeps nothing else moves    *)
(* the TCB out of CLOSEWAIT, so close cannot free it (stcp_server.c:181).  *)
ClockSafe ==
  \A i \in Conn : sClock[i] > 0 => sClock[i] = 1 /\ sState[i] = "CLOSEWAIT"

(* The one global semaphore holds a unit for every connection that left    *)
(* LISTENING and has no returned accept: no wake-up is lost or left over   *)
(* by repeated SYNs.                                                       *)
SemCount ==
  LET Left == {i \in Conn : sPc[i] \notin {"start", "made"} /\ sState[i] # "LISTENING"}
      Returned == {i \in Conn : sPc[i] \in {"accepted", "closed"}}
  IN  gsem + Cardinality(Returned) = Cardinality(Left)

(* stcp_server.c:68-71: accept returns 1 when the state of its TCB has     *)
(* become CONNECTED (it may have moved on by then).                        *)
AcceptedMeansConnected ==
  [][\A i \in Conn : AcceptReturns(i) => sState[i] # "LISTENING"]_vars

(* Every call of connect and disconnect comes back, even if every segment  *)
(* is lost, unless the server process aborts: the client is again and      *)
(* again in no call.                                                       *)
CallsReturn == []<>(NoCall \/ aborted)

(* A connection the server has is handed to its application by accept. *)
ConnectedIsAccepted ==
  \A i \in Conn : sState[i] = "CONNECTED" ~> sPc[i] = "accepted" \/ aborted

(* close may free a TCB on which the handler is about to store; but only   *)
(* after a connect or disconnect that used up its retries.                 *)
StaleOnlyAfterLastTry ==
  \A i \in Conn : cHand # Idle /\ cHand.conn = i /\ cState[i] = "FREED" =>
    cTries[i] = MaxRetry

(* stcp_server.c:200 and 233, assert(tp != NULL): a segment without a TCB  *)
(* aborts the server.  It has two causes and no third: a SYN comes before  *)
(* stcp_server_sock; or a FIN is sent again, one second later, and by then *)
(* finclock has run and the application has closed the connection.         *)
AbortCause ==
  [][AssertFails =>
      LET m == Head(c2s)
      IN  IF m.type = "SYN" THEN sPc[m.conn] = "start"
          ELSE sPc[m.conn] = "closed" /\ cTries[m.conn] > 1]_vars

=============================================================================
