------------------------------ MODULE Overlay -------------------------------
(***************************************************************************)
(* The overlay network of lab7: on every node a SON process, connected to  *)
(* the SONs of its neighbours, and a SIP process that is a client of it.   *)
(* A SON accepts the neighbours with a greater ID (thread waitNbrs), sleeps *)
(* SON_START_DELAY, connects to those with a smaller ID, joins waitNbrs    *)
(* and starts one listen_to_neighbor per neighbour; its main thread then   *)
(* serves one SIP process after another.  The SIP broadcasts a route       *)
(* update now and then, and a signal 2 may stop either process at any      *)
(* moment: its handler runs in the main thread, the others go on.          *)
(*                                                                         *)
(* A TCP connection is a queue each way; connect() succeeds as soon as the *)
(* other side listens.  send() to a process that has closed its end is     *)
(* lost or, from the second call on, kills the sender by SIGPIPE, which    *)
(* nothing ignores; send() to -1 does nothing.  An update is a number,     *)
(* counted by its sender; how it is framed is the subject of Framing.      *)
(***************************************************************************)
EXTENDS Naturals, Sequences, FiniteSets, Functions

CONSTANTS
  Topology,      \* the lines of topology.dat, pairs of node IDs
  StartInTime,   \* does every SON listen before any sleep of 20 s is over?
  SipNodes,      \* bound: the nodes on which SIP processes are started
  MaxSessions,   \* bound: SIP processes started on one node
  MaxUpdates,    \* bound: updates sent by the SIPs of one node
  MaxStops       \* bound: signals sent

ASSUME OverlayConstants ==
  /\ Topology \in Seq(Nat \X Nat) /\ StartInTime \in BOOLEAN
  /\ \A k, l \in DOMAIN Topology :
       /\ Topology[k][1] # Topology[k][2]
       /\ k # l => {Topology[k][1], Topology[k][2]} # {Topology[l][1], Topology[l][2]}
  /\ MaxSessions \in Nat /\ MaxUpdates \in Nat /\ MaxStops \in Nat

Nodes == UNION {{Topology[k][1], Topology[k][2]} : k \in DOMAIN Topology}

(* nt_create: an entry for each line that names the host, in the order of  *)
(* the file, with the other node of the line.                              *)
Mine(n) == {k \in DOMAIN Topology : n \in {Topology[k][1], Topology[k][2]}}
Line(n, i) == CHOOSE k \in Mine(n) : Cardinality({l \in Mine(n) : l <= k}) = i
Other(n, k) == IF Topology[k][1] = n THEN Topology[k][2] ELSE Topology[k][1]
gnt == [n \in Nodes |-> [i \in 1..Cardinality(Mine(n)) |-> Other(n, Line(n, i))]]

Nbrs(n) == {gnt[n][i] : i \in DOMAIN gnt[n]}

(* The neighbours waitNbrs counts. *)
Greater(n) == {m \in Nbrs(n) : m > n}

VARIABLES
  son,        \* where the main thread of each SON is
  at,         \* its place in the loop over the neighbour table, or 0
  hand,       \* the update it broadcasts
  listening,  \* has waitNbrs opened CONNECTION_PORT?
  backlog,    \* connections it has not yet accepted
  conn,       \* conn[n][m]: field conn of n's entry for m: -1, open, closed
  link,       \* link[n][m]: updates under way from SON n to SON m
  sip,        \* each SIP process
  session,    \* SIP processes started so far, the last one is sip[n]
  served,     \* connections from SIP processes accepted so far
  live,       \* gsip_conn # -1: the last of them is being served
  toSon,      \* what the SIPs of a node sent, 0 where one closed its end
  toSip,      \* what SON n sent to the SIP of the last session
  sent,       \* updates sent by the SIPs of a node
  last,       \* last[n][m]: m's last update the SIP of this session saw
  stops       \* signals sent so far

sonVars == <<son, at, hand, listening, backlog, conn, link>>
sipVars == <<sip, session, toSon, sent, last>>
vars == <<sonVars, sipVars, served, live, toSip, stops>>

Init ==
  /\ son = [n \in Nodes |-> "off"] /\ at = [n \in Nodes |-> 0]
  /\ hand = [n \in Nodes |-> 0]
  /\ listening = [n \in Nodes |-> FALSE] /\ backlog = [n \in Nodes |-> <<>>]
  /\ conn = [n \in Nodes |-> [m \in Nbrs(n) |-> "none"]]
  /\ link = [n \in Nodes |-> [m \in Nbrs(n) |-> <<>>]]
  /\ sip = [n \in Nodes |-> "off"] /\ session = [n \in Nodes |-> 0]
  /\ served = [n \in Nodes |-> 0] /\ live = [n \in Nodes |-> FALSE]
  /\ toSon = [n \in Nodes |-> <<>>] /\ toSip = [n \in Nodes |-> <<>>]
  /\ sent = [n \in Nodes |-> 0] /\ last = [n \in Nodes |-> [m \in Nbrs(n) |-> 0]]
  /\ stops = 0

Running(n) == son[n] \notin {"off", "dead"}
AtPort(n) == listening[n] /\ Running(n)

(* SON m's end of its connection with n is closed. *)
Gone(m, n) == son[m] = "dead" \/ conn[m][n] = "closed"

-----------------------------------------------------------------------------
(* Starting a SON: the neighbour table, the handler, the waiting thread. *)
SonStart(n) ==
  /\ son[n] = "off"
  /\ son' = [son EXCEPT ![n] = "delay"]
  /\ UNCHANGED <<at, hand, listening, backlog, conn, link, sipVars, served, live, toSip, stops>>

Listen(n) ==
  /\ Running(n) /\ ~listening[n]
  /\ listening' = [listening EXCEPT ![n] = TRUE]
  /\ UNCHANGED <<son, at, hand, backlog, conn, link, sipVars, served, live, toSip, stops>>

(* waitNbrs accepts until cnt is 0: a connection of every greater neighbour *)
(* is in the table.                                                        *)
Waited(n) == listening[n] /\ \A m \in Greater(n) : conn[n][m] # "none"

AcceptNbr(n) ==
  /\ Running(n) /\ ~Waited(n) /\ backlog[n] # <<>>
  /\ conn' = [conn EXCEPT ![n][Head(backlog[n])] = "open"]
  /\ backlog' = [backlog EXCEPT ![n] = Tail(@)]
  /\ UNCHANGED <<son, at, hand, listening, link, sipVars, served, live, toSip, stops>>

DelayOver(n) ==
  /\ son[n] = "delay"
  /\ StartInTime => \A m \in Nodes : listening[m] \/ son[m] = "dead"
  /\ son' = [son EXCEPT ![n] = "connect"] /\ at' = [at EXCEPT ![n] = 1]
  /\ UNCHANGED <<hand, listening, backlog, conn, link, sipVars, served, live, toSip, stops>>

(* One round of connectNbrs: the next neighbour with a smaller ID, if one  *)
(* is left.                                                                *)
Turn(n) == {i \in at[n]..Len(gnt[n]) :
              gnt[n][i] < n /\ \A j \in at[n]..(i - 1) : ~(gnt[n][j] < n)}

NextEntry_Same(i) == i                                  \* mutant
NextEntry(i) == i + 1

ConnectNbr(n) ==
  /\ son[n] = "connect"
  /\ \E i \in Turn(n) :
       LET m == gnt[n][i]
       IN  /\ AtPort(m)
           /\ conn' = [conn EXCEPT ![n][m] = "open"]
           /\ backlog' = [backlog EXCEPT ![m] = Append(@, n)]
           /\ at' = [at EXCEPT ![n] = NextEntry(i)]
  /\ UNCHANGED <<son, hand, listening, link, sipVars, served, live, toSip, stops>>

(* It returns, with -1 when nobody listens; main does not look at that. *)
ConnectEnd(n) ==
  /\ son[n] = "connect"
  /\ \A i \in Turn(n) : ~AtPort(gnt[n][i])
  /\ son' = [son EXCEPT ![n] = "join"] /\ at' = [at EXCEPT ![n] = 0]
  /\ UNCHANGED <<hand, listening, backlog, conn, link, sipVars, served, live, toSip, stops>>

(* pthread_join, then the listening threads. *)
MayJoin_Not(n) == TRUE                                  \* mutant
MayJoin_Init(n) ==                                      \* mutant
  Waited(n) /\ \A m \in Nbrs(n) : son[m] \notin {"delay", "connect", "join"}
MayJoin(n) == Waited(n)

Join(n) ==
  /\ son[n] = "join" /\ MayJoin(n)
  /\ son' = [son EXCEPT ![n] = "up"]
  /\ UNCHANGED <<at, hand, listening, backlog, conn, link, sipVars, served, live, toSip, stops>>

-----------------------------------------------------------------------------
(* waitSIP: one client after the other; the next one waits in the queue. *)
AcceptSip(n) ==
  /\ son[n] = "up" /\ ~live[n] /\ served[n] < session[n]
  /\ live' = [live EXCEPT ![n] = TRUE] /\ served' = [served EXCEPT ![n] = @ + 1]
  /\ UNCHANGED <<sonVars, sipVars, toSip, stops>>

(* getpktToSend returns an update, or the end of the connection. *)
Fetch(n) == son[n] = "up" /\ at[n] = 0 /\ live[n] /\ toSon[n] # <<>>

GetPkt(n) ==
  /\ Fetch(n) /\ Head(toSon[n]) # 0
  /\ hand' = [hand EXCEPT ![n] = Head(toSon[n])] /\ at' = [at EXCEPT ![n] = 1]
  /\ toSon' = [toSon EXCEPT ![n] = Tail(@)]
  /\ UNCHANGED <<son, listening, backlog, conn, link, sip, session, sent, last,
                 served, live, toSip, stops>>

SipGone(n) ==
  /\ Fetch(n) /\ Head(toSon[n]) = 0
  /\ live' = [live EXCEPT ![n] = FALSE]
  /\ toSon' = [toSon EXCEPT ![n] = Tail(@)]
  /\ UNCHANGED <<sonVars, sip, session, sent, last, served, toSip, stops>>

(* One round of the broadcast: an update goes to one neighbour, with the   *)
(* sender's ID in it.                                                      *)
SendPkt(n) ==
  /\ son[n] = "up" /\ at[n] # 0
  /\ LET m == gnt[n][at[n]]
     IN  IF conn[n][m] = "none" \/ Gone(m, n)
         THEN UNCHANGED link
         ELSE link' = [link EXCEPT ![n][m] = Append(@, [src |-> n, num |-> hand[n]])]
  /\ at' = [at EXCEPT ![n] = IF @ < Len(gnt[n]) THEN @ + 1 ELSE 0]
  /\ UNCHANGED <<son, hand, listening, backlog, conn, sipVars, served, live, toSip, stops>>

SendPktKilled(n) ==
  /\ son[n] = "up" /\ at[n] # 0
  /\ conn[n][gnt[n][at[n]]] = "open" /\ Gone(gnt[n][at[n]], n)
  /\ son' = [son EXCEPT ![n] = "dead"]
  /\ UNCHANGED <<at, hand, listening, backlog, conn, link, sipVars, served, live, toSip, stops>>

(* listen_to_neighbor: an update of m is forwarded to the SIP process that *)
(* is being served, if there is one; it may be gone already.               *)
Hears(n, m) ==
  /\ son[n] \in {"up", "stopping"} /\ conn[n][m] = "open" /\ link[m][n] # <<>>

SipReads_Slot(n) ==                                     \* mutant
  live[n] /\ served[n] = session[n] /\ sip[n] = "up" /\ toSip[n] = <<>>
SipReads(n) == live[n] /\ served[n] = session[n] /\ sip[n] = "up"

Forwarded_Twice(p) == <<p, p>>                          \* mutant
Forwarded(p) == <<p>>

ListenToNeighbor(n, m) ==
  /\ Hears(n, m)
  /\ link' = [link EXCEPT ![m][n] = Tail(@)]
  /\ toSip' = IF SipReads(n) THEN [toSip EXCEPT ![n] = @ \o Forwarded(Head(link[m][n]))]
              ELSE toSip
  /\ UNCHANGED <<son, at, hand, listening, backlog, conn, sipVars, served, live, stops>>

ForwardKilled(n, m) ==
  /\ Hears(n, m) /\ live[n] /\ ~SipReads(n)
  /\ son' = [son EXCEPT ![n] = "dead"]
  /\ UNCHANGED <<at, hand, listening, backlog, conn, link, sipVars, served, live, toSip, stops>>

-----------------------------------------------------------------------------
(* Signal 2 at a SON.  nt_destroy closes the table's connections one after *)
(* the other and tries each until close() succeeds: it waits at an entry   *)
(* that is still -1.  Then the process ends.                               *)
SonStop(n) ==
  /\ son[n] \in {"delay", "connect", "join", "up"} /\ stops < MaxStops
  /\ son' = [son EXCEPT ![n] = "stopping"] /\ at' = [at EXCEPT ![n] = 1]
  /\ stops' = stops + 1
  /\ UNCHANGED <<hand, listening, backlog, conn, link, sipVars, served, live, toSip>>

NextClosed_Same(i) == i                                 \* mutant
NextClosed(i) == i + 1

CloseNbr(n) ==
  /\ son[n] = "stopping" /\ at[n] <= Len(gnt[n])
  /\ conn[n][gnt[n][at[n]]] # "none"
  /\ conn' = [conn EXCEPT ![n][gnt[n][at[n]]] = "closed"]
  /\ at' = [at EXCEPT ![n] = NextClosed(@)]
  /\ UNCHANGED <<son, hand, listening, backlog, link, sipVars, served, live, toSip, stops>>

SonExit(n) ==
  /\ son[n] = "stopping" /\ at[n] > Len(gnt[n])
  /\ son' = [son EXCEPT ![n] = "dead"]
  /\ UNCHANGED <<at, hand, listening, backlog, conn, link, sipVars, served, live, toSip, stops>>

-----------------------------------------------------------------------------
(* A SIP process starts, once its SON is up (README), and connects. *)
SipStart(n) ==
  /\ n \in SipNodes /\ sip[n] \in {"off", "dead"}
  /\ son[n] = "up" /\ session[n] < MaxSessions
  /\ sip' = [sip EXCEPT ![n] = "up"] /\ session' = [session EXCEPT ![n] = @ + 1]
  /\ last' = [last EXCEPT ![n] = [m \in Nbrs(n) |-> 0]]
  /\ UNCHANGED <<sonVars, toSon, sent, served, live, toSip, stops>>

(* routeupdate_daemon; after the pkthandler has set gson_conn to -1 its    *)
(* updates go nowhere.                                                     *)
RouteUpdate(n) ==
  /\ sip[n] = "up" /\ sent[n] < MaxUpdates
  /\ sent' = [sent EXCEPT ![n] = @ + 1]
  /\ toSon' = IF son[n] = "dead" THEN toSon
              ELSE [toSon EXCEPT ![n] = Append(@, sent[n] + 1)]
  /\ UNCHANGED <<sonVars, sip, session, last, served, live, toSip, stops>>

RouteUpdateKilled(n) ==
  /\ sip[n] = "up" /\ son[n] = "dead"
  /\ sip' = [sip EXCEPT ![n] = "dead"]
  /\ UNCHANGED <<sonVars, session, toSon, sent, last, served, live, toSip, stops>>

(* pkthandler, until the SON closes the connection. *)
PktHandler(n) ==
  /\ sip[n] = "up" /\ toSip[n] # <<>>
  /\ last' = [last EXCEPT ![n][Head(toSip[n]).src] = Head(toSip[n]).num]
  /\ toSip' = [toSip EXCEPT ![n] = Tail(@)]
  /\ UNCHANGED <<sonVars, sip, session, toSon, sent, served, live, stops>>

PktHandlerEnd(n) ==
  /\ sip[n] = "up" /\ toSip[n] = <<>> /\ son[n] = "dead"
  /\ sip' = [sip EXCEPT ![n] = "cut"]
  /\ UNCHANGED <<sonVars, session, toSon, sent, last, served, live, toSip, stops>>

(* Signal 2 at a SIP process: it closes gson_conn and ends, but tries in   *)
(* vain once that is -1.                                                   *)
SipStop(n) ==
  /\ sip[n] \in {"up", "cut"} /\ stops < MaxStops
  /\ stops' = stops + 1
  /\ sip' = [sip EXCEPT ![n] = IF sip[n] = "up" THEN "dead" ELSE "stopping"]
  /\ toSon' = IF sip[n] = "up" THEN [toSon EXCEPT ![n] = Append(@, 0)] ELSE toSon
  /\ toSip' = [toSip EXCEPT ![n] = <<>>]
  /\ UNCHANGED <<sonVars, session, sent, last, served, live>>

-----------------------------------------------------------------------------
WaitNbrs(n) == Listen(n) \/ AcceptNbr(n)
StartUp(n) == DelayOver(n) \/ ConnectNbr(n) \/ ConnectEnd(n) \/ Join(n)
WaitSip(n) == AcceptSip(n) \/ GetPkt(n) \/ SipGone(n) \/ SendPkt(n) \/ SendPktKilled(n)
Listener(n, m) == ListenToNeighbor(n, m) \/ ForwardKilled(n, m)
Stopping(n) == CloseNbr(n) \/ SonExit(n)
Daemon(n) == RouteUpdate(n) \/ RouteUpdateKilled(n)
Handler(n) == PktHandler(n) \/ PktHandlerEnd(n)

Next == \E n \in Nodes :
  \/ SonStart(n) \/ WaitNbrs(n) \/ StartUp(n) \/ WaitSip(n)
  \/ \E m \in Nbrs(n) : Listener(n, m)
  \/ SonStop(n) \/ Stopping(n)
  \/ SipStart(n) \/ Daemon(n) \/ Handler(n) \/ SipStop(n)

Spec == Init /\ [][Next]_vars

(* Every SON is started (README), every thread runs; nobody has to start or *)
(* stop a SIP process.                                                     *)
Fairness == \A n \in Nodes :
  /\ WF_vars(SonStart(n)) /\ WF_vars(WaitNbrs(n))
  /\ WF_vars(StartUp(n) \/ WaitSip(n) \/ Stopping(n))
  /\ \A m \in Nbrs(n) : WF_vars(Listener(n, m))
  /\ WF_vars(Daemon(n)) /\ WF_vars(Handler(n))

FairSpec == Spec /\ Fairness

-----------------------------------------------------------------------------
(* son.c:74: the assertion in waitNbrs never fails.  A connection waits for *)
(* accept() only while its entry is still -1, and only once.               *)
AcceptAssertion ==
  \A n \in Nodes :
    /\ \A k \in DOMAIN backlog[n] : conn[n][backlog[n][k]] = "none"
    /\ IsInjective(backlog[n])

(* son.c:206: when main goes on to serve the SIP process, all connections  *)
(* with the neighbours exist, even if some of them were stopped meanwhile; *)
(* only one that started to listen too late is left out by connectNbrs.    *)
UpHasLinks ==
  \A n \in Nodes : son[n] = "up" =>
    \A m \in Nbrs(n) : conn[n][m] # "none" \/ (~StartInTime /\ m < n)

(* Will the broadcast of m still come to n? *)
Due(m, n) == at[m] # 0 /\ \E i \in at[m]..Len(gnt[m]) : gnt[m][i] = n

(* The updates of m on their way to the SIP of n, with their places: seen  *)
(* by n's SIP or sent to it, between the SONs, in m's broadcast, not yet   *)
(* read by SON m.                                                          *)
OnTheWay(m, n) ==
  (IF sip[n] = "up" /\ last[n][m] # 0 THEN {[zone |-> 1, pos |-> 0, num |-> last[n][m]]}
                                      ELSE {})
  \cup {[zone |-> 2, pos |-> k, num |-> toSip[n][k].num] :
           k \in {k \in DOMAIN toSip[n] : toSip[n][k].src = m}}
  \cup {[zone |-> 3, pos |-> k, num |-> link[m][n][k].num] : k \in DOMAIN link[m][n]}
  \cup (IF Due(m, n) THEN {[zone |-> 4, pos |-> 0, num |-> hand[m]]} ELSE {})
  \cup {[zone |-> 5, pos |-> k, num |-> toSon[m][k]] :
           k \in {k \in DOMAIN toSon[m] : toSon[m][k] # 0}}

Ahead(a, b) == a.zone < b.zone \/ (a.zone = b.zone /\ a.pos < b.pos)

(* No update of a running neighbour is lost, repeated or overtaken between *)
(* the first one that a SIP process sees and the last one that was sent,   *)
(* whichever processes come and go meanwhile.                              *)
NoGap ==
  \A m \in Nodes : \A n \in Nbrs(m) :
    son[m] = "up" /\ conn[m][n] = "open" /\ ~Gone(n, m) =>
      \A a, b \in OnTheWay(m, n) : Ahead(a, b) =>
        a.num < b.num /\ \A u \in a.num..b.num : \E c \in OnTheWay(m, n) : c.num = u

(* As long as nobody is stopped, all SONs come up.                         *)
AllComeUp == <>(stops > 0 \/ \A n \in Nodes : son[n] = "up")

(* As long as nobody is stopped, a SIP that has seen an update of a        *)
(* neighbour is time and again up to date with it.                         *)
UpdatesArrive ==
  []<>(\/ stops > 0
       \/ \A n \in Nodes : \A m \in Nbrs(n) : last[n][m] \in {0, sent[m]})

(* A SON that has all its connections does not stay in its signal handler, *)
(* and a SIP whose SON has ended notices it.                               *)
StuckInStop(n) == son[n] = "stopping" /\ \A m \in Nbrs(n) : conn[n][m] # "none"

LinkedSonStops ==
  []<>(\A n \in Nodes : ~StuckInStop(n) /\ (son[n] = "dead" => sip[n] # "up"))

=============================================================================
