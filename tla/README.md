# Models of Experiments-in-Network

The repository holds the programs of a course on computer networks. Its core
are labs 5 to 7: a transport protocol (STCP, a small TCP with go-back-N) over
an overlay network of SON and SIP processes; labs 1 and 2 hold the state machine
of a TCP client, lab 3 is a weather service, lab 4 a game server. Most of it
is C with POSIX threads, blocking sockets, hand-made framing and very few
locks, so what can go wrong is mostly a matter of order: of threads, of
segments, of retries, of processes that end. This directory models that
behaviour in TLA+, checks it with TLC on small instances, and proves with TLAPS,
for every value of the constants, its safety: of the data transfer, the send
buffer, connection management, framing, the checksum, the overlay, the game
server and its clients (the wars for two players), the TCP client and the
weather service.

Line numbers in the modules and below refer to `src/`.

## 1. The system

| component | state | operations | interacts with |
|---|---|---|---|
| lab6 STCP client (`lab6/client/stcp_client.c`) | table of client TCBs: state, `next_seqNum`, send buffer list with `sendBufHead`, `sendBufunSent`, `sendBufTail`, `unAck_segNum`, `bufMutex` | sock, connect, send, disconnect, close; threads `seghandler`, `sendBuf_timer` | server by segments on one overlay TCP connection; threads share the TCB |
| lab6 STCP server (`lab6/server/stcp_server.c`) | table of server TCBs: state, `expect_seqNum`, `recvBuf`, `usedBufLen`; semaphore `gsem` | sock, accept, recv, close; threads `seghandler`, `finclock` | as above |
| lab6 segments (`lab6/common/seg.c`) | the byte machine of `sip_recvseg` | `sip_sendseg`, `sip_recvseg`, `seglost`, `checksum` | called by both sides |
| lab5 STCP (`lab5/client`, `lab5/server`) | the connection half of lab6, earlier | as lab6 without data | as lab6 |
| lab7 SON (`lab7/son`) | neighbour table `gnt`, `gsip_conn` | `waitNbrs`, `connectNbrs`, `listen_to_neighbor`, `waitSIP`, `son_stop` | neighbours' SONs and the local SIP by TCP |
| lab7 SIP (`lab7/sip/sip.c`) | `gson_conn` | `routeupdate_daemon`, `pkthandler`, `sip_stop` | its SON by TCP |
| lab7 packets (`lab7/common/pkt.c`) | three copies of the byte machine | `son_sendpkt`, `son_recvpkt`, `getpktToSend`, `forwardpktToSIP`, `sendpkt`, `recvpkt` | called by SON and SIP |
| lab4 game server (`lab4/src/server.cc`) | `user_table`, `war_room_table`, `credit_vec`, `broad_info` | sign up, in and out, lists, requests, answers, picks, chat; one thread per client, per war, one for broadcasts | clients by packets; threads share the tables |
| lab4 game client (`lab4/src/client.cc`) | `gcurrent_state`, `gadversary_name`, semaphore `gsem` | main thread (`welcome`, `online`, `war`), `listen_thread` | the server by packets; threads by `gsem` |
| lab1-2 TCP client (`lab1-2/lab2/tcp_client.c`) | the pool `gTCB`: state, `seq`, `ack` of each control block | `tcp_socket`, `tcp_connect`, `tcp_send`, `tcp_recv`, `tcp_close`; `tcp_input`, `tcp_output`, `tcp_switch` | a TCP server over IP; one application thread |
| lab3 weather client and server (`lab3/src`) | the menu of the client; a child of the server for each connection | ask for a city, for its weather; verify, answer | one TCP connection each |

What is hard: the client's threads share a list that only some of them lock;
connect and disconnect give up while an answer may be in the handler; SYNs and
FINs are repeated after their answers; acks are cumulative and may be lost;
TCBs are freed while other threads hold pointers to them; all accepts share one
semaphore; frames are not escaped and are sent by three calls of `send()`; the
SONs wait for one another in a circle of start-up delays; the game server's
threads use its tables without a lock and its client counts on one post of a
semaphore for each command; the TCP client gets whatever segment comes next, or
none; messages are read with one call of `recv()`; any process may be
stopped by a signal while others write to it. `PROJECT.json` lists each hazard
with its line and the properties that would catch it.

What makes each component correct:

* data transfer: the bytes read by the server are a prefix of the bytes sent, in
  order and once; nothing is freed before it is stored; send returns, and only
  after everything is stored; the window is kept (of the calls after the first
  only part of this holds: section 3);
* connections: the return values of connect, disconnect and accept tell the
  truth about the other side; calls return whatever is lost; no thread disturbs
  a TCB that has moved on;
* framing: what is returned is what was sent, and buffers are not overrun;
* overlay: all SONs come up, with all their links; updates arrive once and in
  order while processes come and go; a process that is told to stop does;
* game: a command is answered exactly once; credit is moved and never made or
  lost; a player is at war only while a thread runs his war, in the right room;
* TCP client: what either side has of the other's bytes is a prefix of what was
  said, whatever is lost or comes again, and an orderly end has both in full;
* checksum: an undamaged segment is accepted, a damaged one is not;
* weather: who asks is answered, and with the answer to his question.

## 2. The modules

* `ReliableStream`: what the data transfer promises, an abstract byte stream:
  bytes are accepted in order, read in order, and the sender's call returns
  only when all were accepted.
* `GoBackN`: one `stcp_client_send` and the whole data path. State: the send
  buffer as a sequence `segs` with the indices `head` and `unSent` (an index
  one past the end is NULL), `unAck`, the segments under way, `expect`,
  `recvBuf`, `delivered`. Actions: `AppendSeg` and `StartTimer` (the two halves
  of `stcp_client_send`), `SendReturns` (its poll), `TimerRound` and
  `TimerExit` (`sendBuf_timer`), `ClientDataAck`, `ClientSynAck`, `ServerSyn`,
  `ServerData` (the two seghandlers), `ServerRecv` (`stcp_server_recv`),
  `ClientLoses`, `ServerLoses` (`seglost` and a wrong checksum).
* `SendBuffer`: the same send buffer as a linked list, pointer by pointer and
  store by store, over several calls. The append loop of `stcp_client_send`
  takes no mutex; here it meets the timer thread of the call before
  (`TimerTest`, `TimerResend`, ...) and the DATAACK handler, which loads a
  segment's `next`, stores it to `sendBufHead` and frees the segment in three
  steps (`HandlerTest`, `HandlerLoad`, `HandlerUnlink`, `HandlerFree`). It also shows that the first call meets nobody, which is
  what allows `GoBackN` to take critical sections as single steps.
* `StcpConn`: connection management of lab5 and lab6, on several connections over
  one overlay connection. The labs take the same steps: lab5 has no send buffer,
  so its disconnect waits for none, and leaves `expect_seqNum` unset until the
  first SYN. Client callers (`ClientSock`, `ConnectStart`, `SendSyn`,
  `SynWakeUp`, `ConnectFails`, `DisconnectStart`, `SendFin`, `FinWakeUp`,
  `DisconnectFails`, `ClientClose`), the client seghandler whose two stores for
  a SYNACK are two steps (`ClientReceives`, `SetConnected`, `SetSeq`,
  `SetClosed`), the server's callers (`ServerSock`, `AcceptStart`,
  `AcceptReturns`, `ServerClose`), its seghandler (`ServerSyn`, `ServerFin`,
  `ServerFinAck`, `AssertFails`) and `Finclock`.
* `Framing`: `send()` of a begin mark, a struct and an end mark, and the
  receiving machine byte by byte, for lab5, lab6 and lab7 at once (`lab` says
  which), one or more writers, and in lab7 a sender that dies (`Close`, `Eof`).
* `Overlay`: SON and SIP processes on the nodes of a topology file. Start-up
  (`SonStart`, `Listen`, `AcceptNbr`, `DelayOver`, `ConnectNbr`, `ConnectEnd`,
  `Join`), service (`AcceptSip`, `GetPkt`, `SendPkt`, `SipGone`,
  `ListenToNeighbor`), stopping (`SonStop`, `CloseNbr`, `SonExit`, `SipStop`),
  death by SIGPIPE (`SendPktKilled`, `ForwardKilled`, `RouteUpdateKilled`), the
  SIP's threads (`RouteUpdate`, `PktHandler`, `PktHandlerEnd`).
* `GameServer`: the server of lab4 and its clients. A client's main thread
  types (`TypeSignUp`, `TypeSignIn`, `TypeList`, `TypeRequest`, `TypeAnswer`,
  `TypePick`, `TypeSignOut`) and waits for `gsem` (`Wake`); its other thread
  hears (`Listen`). The server has a thread for each connection (`SignUp`,
  `SignIn`, `FriendsCreditList`, `WarRequest`, `InsertRoom`, `WarResponse`,
  `Pick`, `SignOut` with its second step `SignedOut`) and for each war (`Ask`,
  `Answered`, `Judge`, `SendResults`, `Restore`). A room keeps the connections
  it was created with (`a_sockfd`, `b_sockfd`), and what is sent on one that has
  ended reaches nobody. Where the code follows an iterator that is `end()`
  (`Crash`, and the first disjunct of `Pick`) the behaviour ends. A client may
  end at any moment (`Leave`), the server's thread notices (`CloseConn`), and
  the player may start a new one (`Return`).
* `TcpClient`: the client of lab2 and its pool of control blocks against a
  server over a network that loses, repeats and reorders. The calls (`Socket`,
  `Connect`, `Send`, `Recv`, `Close`), their waits (`TakeGood`, `TakeBad`,
  `Timeout`) with `tcp_switch` in `Output` and `React`; the server (`PeerSyn`,
  `PeerTakes`, `PeerSends`, `PeerFin`, `PeerSynAck`, `PeerForgets`) is external.
* `Checksum`: one segment from `Send` (the pad, the sum) over `Arrive` or `Lose`
  (`seglost`, with its flipped bit) to `Check`.
* `Weather`: the client's menus (`AskCity`, `AskWeather`, `AskDay`, `Back`,
  `Quits`), its one `recv` for an answer (`SwallowIn`), and the server (`Forks`,
  `Serve`, `ChildEnds`). `Serve` takes what its buffer holds, which may cut a
  request in two.

The theorems about a module are in a module of their own: `GoBackN_proofs`,
`SendBuffer_proofs`, `StcpConn_proofs`, `Framing_proofs`, `Overlay_proofs`,
`TcpClient_proofs`, `Weather_proofs` and `GameServer_proofs`, which holds those
of `Checksum` too, since both need sums. `MC*` modules hold the values for TLC that a configuration
cannot express.
`GoBackN` instantiates `ReliableStream`; `GoBackN`, `SendBuffer`, `StcpConn`
and `Framing` are views of the same lab6 code at different grain: framing gives
segments, `Checksum` says why a damaged one counts as lost, connection
management gives a connected pair of TCBs, on which the data transfer starts.
The other modules stand for programs of their own. A definition that ends in a suffix such as `_OffByOne`
and is commented as mutant is the form a plausible bug would have; nothing uses
it but `PROJECT.json`, where it shows that a property notices the bug.

## 3. The runs

| run | what it shows | bounds and why they are enough |
|---|---|---|
| `GoBackN` | safety, liveness and refinement of the data path | 7 bytes in segments of 2 give four segments, one shorter, with a window of 3: the window fills, slides and ends inside; reads of 3 bytes do not match segments; up to 2 late SYNs or SYNACKs; 5 segments under way, more than the window. |
| `StcpConn` | return values against the other side's state | 2 connections, so that the shared semaphore, handler and FIFO matter; 2 tries, so that a retry and a last try differ; a second connect after a failure; 1 segment under way each way beyond the one being handled |
| `StcpConn_live` | calls return, connections reach accept | as above with accepts one after the other as the applications do, one connect each, 2 segments under way |
| `SendBuffer` | what survives the unlocked append, and that the first call is exact | calls of 3, 2 and 1 segments, a window of 2, 3 acks under way: first, middle and last segment, a call that fits the window and a call that does not |
| `SendBuffer_list` | **violation**: `ListIntact` | calls of 1 and 2 segments |
| `Framing` | structs arrive whole | all pairs of structs of two header bytes and one data byte over the four kinds of byte, in each of the labs |
| `Framing_threads` | **violation**: `FramesIntact` | two writers, one frame each |
| `Overlay` | start-up, service, stopping | hosts 1, 3 and 4 of `topology.dat` in a chain: one node with a smaller and a greater neighbour; SIP processes on two nodes, up to two sessions and two updates each, one signal |
| `GameServer` | credit, the client's semaphore, rooms and states | two players, one of them not signed up yet, who may ask each other: two requests, so that requests cross, and a second one finds a room, a war or a player who has left; credits of 255 and 0, so that both wrap; one answer typed ahead of the server; two hits decide a war, as in the code; A picks what he likes and B always the same (or too late), which gives every result of a turn; A may end his first client and come back with a second one, which is enough for a room to hold a connection that has ended |
| `TcpClient` | what each side has while both are in one connection; what the steps of an orderly end mean | a pool of three slots, of which two are used; 2 bytes each way, so that segments of one and two bytes meet; the server takes the port twice; one segment under way in each direction, lost or repeated (with 2 under way and fewer bytes the same holds); no segment outlives its socket (`Outlive = FALSE`, see below) |
| `Checksum` | what the test at the receiver accepts | bytes of 2 bits, words of 4, up to 6 bytes of data out of 0, 1 and 3: odd and even lengths, carries in both folds, a pad inside and behind the struct, all lengths an ack may leave unset, every bit |
| `Weather` | client and child in step; answers come | one client, since clients share nothing; a request of 4 bytes and a buffer of 9 instead of 23 and 100: a third request that waits is cut after its first byte, as a fifth one is in the code; 3 may wait; answers of two parts (with 23, 100 and 5 the same holds) |

A run of kind violation shows a disagreement between the code and what it or
its documents say; the trace of TLC is the evidence, and `findings` in
`PROJECT.json` quotes the line. Deadlock is checked in `GoBackN` and
`SendBuffer`, which have an explicit terminating step (`Finished`, `Stopped`),
and in `TcpClient`, whose calls all time out.
The other systems do stop: `StcpConn` when all sockets are closed or the server
aborted, `Framing` at the end of the stream, `Overlay` when nothing is left to
send, `Checksum` with its segment, `Weather` when the user quits, so these runs
do not check it; the ones with something to promise state liveness instead. `GameServer`
stops at undefined behaviour and when two players have asked each other at once:
each waits for an answer that only the other can type.

### What the runs say, by module

`GoBackN`. The window counter is exact and bounded although three loops in two
threads keep it; no segment is freed before the server has it; send returns
only then, and under fairness it always does; a late SYN cannot move
`expect_seqNum` back, because FIFO puts SYNs before data; delivered bytes are
in order. `CopyOrders` is `{"up"}`: `stcp_server_recv` moves the rest of its
buffer with `memcpy` although the areas overlap (stcp_server.c:123), and with a
library that copies from the high end `InOrder` fails. Nothing bounds the
server's buffer: line 277 stores behind `usedBufLen` without a look at
`RECEIVE_BUF_SIZE`, so a sender that is faster than the reader exceeds it.

`SendBuffer`. In the first call the list, counter and window are exact
(`FirstCallExact`). In later calls none of the three holds: the appended
segment may be linked behind a freed or NULL tail (`SendBuffer_list`), the
reset of the handler may undo the stores of the append, the unsigned counter
may wrap and send may then never return. A call may also return with segments
that were never sent: when the handler has loaded the `next` of the last segment
and an append then links behind it, line 363 stores the old NULL, and the new
segments are off the list. What does survive is checked: nothing unstored is
freed, every segment that was ever sent is stored when a call returns (in the
first call that is all of them), the timer's assertion holds.

`StcpConn`. connect returning 1 means the server is CONNECTED; disconnect
returning 1 means it left CONNECTED; there is one `finclock` per TCB and the
TCB is not freed under it; the semaphore counts exactly. What does not hold,
and which property carves it out: the first data segment may take an old number,
between the two stores of lines 333 and 334 of lab6's stcp_client.c
(`ConnectAgrees` excuses that window); a second connect
after a failed one may leave the numbers different for good (`cCalls > 1`); a
connect that returned -1 may leave the socket CONNECTED, when the handler
stores its state last;
with two accepts at once a SYN may wake the wrong one (`AcceptedMeansConnected`
is checked and proved with serial accepts only); a segment without a TCB aborts the server, for one of two reasons and no third
(`AbortCause`): a SYN comes before the server's `sock`, or a FIN is sent again
and the application has closed the connection meanwhile; the closed slot of the client dangles,
contrary to stcp_client.c:273, so a handler may store through a freed TCB
(`StaleOnlyAfterLastTry`).

`Framing`. If no mark occurs inside a struct, header included, every struct is
returned whole, and only the last one before the end of a connection may be cut
short. The comment at lab6/common/seg.c:77 assumes this of the data only; a
header field that holds the bytes of a mark breaks the frame. In lab5 a struct
that ends in `!` also breaks it, and the buffer is one byte short (`CleanIntact`
says by how much). Two threads on one connection break it too
(`Framing_threads`).

`Overlay`. If every SON listens before any 20 second sleep is over, all come
up with all their links, whatever the order; without that, a SON that is up has
still been linked to its neighbours with greater IDs, for which it waits
(`UpHasLinks` states both). The assertion at son.c:74 holds;
updates of a neighbour have no gaps, repeats or reordering between the first
and last one a SIP session sees (`NoGap`, which counts what a SIP has seen only
while it is up: what the SIP before it saw says nothing of what the next one
gets, since updates that come between the two are dropped); a SON that has its
links ends when told to.
What does not hold: `lab7/README:11` gives a minute for starting the SONs, but
`SON_START_DELAY` is 20 s, and a SON that connects too early fails for good
while its neighbour waits for ever (`StartInTime = FALSE` violates `AllComeUp`); a SON stopped while an entry is still -1 never leaves its
handler; a SIP whose SON ended first cannot be stopped, since its handler closes
-1 again and again (sip.c:88); the
end of a process may kill its neighbours by SIGPIPE, which nothing ignores.

`GameServer`. With two players, up to the first undefined behaviour, credit is
conserved modulo 256 (a player without credit who loses gets 253), a waiting
client is owed exactly one post (but for the case below), and rooms, threads and
states agree. All three are proved for two players, who may ask for wars without
end. What does not hold, and where the model shows it:

* undefined behaviour is reached by ordinary play: a player who is late in the
  last turn, or after a draw, types a pick for a room that is erased
  (server.cc:256); a war thread may look its room up before line 231 stores it;
* a final draw (`final_res` 3) has no case in client.cc:166-187: both clients
  stay in the war;
* stone of the requester beats cloth of the other (0 < 2, server.cc:360), but
  not the other way round (`LosesA`, `LosesB`);
* after a rejection the room stays, and `insert` (line 231) does not replace it,
  so a later request to somebody else is sent to the old adversary. It also
  keeps the connection of the requester: one who signs out, ends his client,
  comes back and asks again is answered on the connection that has ended
  (lines 222, 464, 474, 505) and waits for ever (`misled`, the exception that
  `OneAnswer` names);
* with three players `WarThreads` does not hold: an answer names the requester
  only (client.cc:362, server.cc:237-250) and the client keeps the last name it
  was asked by, so a `y` of a player who is asked no longer starts a war with
  one who never accepted, and who may then sign out. If that is while the war
  pays him, between the line that stores his credit for the file (304) and the
  one that erases his entry (307), the pay is lost and `CreditConserved` fails;
* a player may ask himself for a war (nothing in client.cc or server.cc forbids
  it); he is then told both results of each turn and `OneAnswer` fails, which is
  why `Asks` names others only in the run;
* a client that ends without signing out leaves its entry in the table: requests
  are sent to it and wait for ever, a war goes on and is lost by overtime, what it
  pays is in the table only (the file was written when the connection ended),
  and the player who comes again is refused as online until the server ends.

`TcpClient`. With segments lost, repeated and reordered, the server has a prefix
of what `tcp_send` was given (`ServerHasPrefix`), the client acknowledges what it
took in order and once (`AckedOnceInOrder`), and FIN_WAIT2 and the CLOSED after it
mean that everything arrived (`OrderlyEnd`). Nothing is sent again, so that one
loss leaves a gap for good: `seq` moves on (line 225). What else the code does,
and the model with it: `get_socket` looks at slot 1 only (its `break` is outside
the `if`), so every other socket is dead; `tcp_close` gives up a slot for ever
when it times out; a close of a socket that was never connected sends a FIN and
goes to SYN_SENT, where a late SYNACK establishes it; any two segments satisfy
`tcp_close`. The initial number is a constant, so that segments of an earlier
connection would be taken: `Outlive` says whether
any is still under way when a socket is made. Nothing in the code prevents that.
With `Outlive = TRUE` TLC finds `ServerHasPrefix` and `OrderlyEnd` violated, and
`AckedOnceInOrder` not (5.4 million states); the run and the theorems have
`FALSE`. `OrderlyEnd` says what the states mean, not that a connection is left
by them only: `tcp_close` frees the block after any two segments (lines 624-641)
and a timeout leaves it as it is.

`Checksum`. Both sides sum the same bytes, so an undamaged segment is accepted
(`WholeIsAccepted`) although the pad of an odd length is written at an index that
counts the header too, and so misses the byte that is summed. A flipped bit
outside of the length is always found; in the length it may not be
(`OnlyLengthSlips`), then another number of words is summed. In the instance this
happens for an ack, whose length is not set, and a sum over memory behind the
struct. For the same reason an undamaged ack may be refused.

`Weather`. As long as answers are read whole, a client has its request or its
answer under way and nothing else, and a forecast is asked for a known city only
(`InStep`). One answer that is read in two parts shifts every later one: the next
result is the rest of the last answer. Even then whoever waits is answered
(`AnswersCome`), also when requests that have met are read as one, but only as
long as none is cut: with five requests waiting the server's buffer of 100 bytes
takes four and eight bytes of the fifth. The first four are answered; the 15
bytes left over are read together with the next request, which is then no
request, and the client that sent it waits for ever.

## 4. Fairness

Threads of a live process run on: weak fairness for each thread's own actions
(the caller, the timer, each handler, each SON and SIP thread). Losses are
independent draws of `rand()` (`seglost`), so a segment or an ack that is sent
again and again is received in the end: strong fairness on the delivery of each
data segment and of acks, only where liveness needs it (`SendCompletes`).
`StcpConn` assumes nothing of losses: calls return because they give up.
`Overlay` assumes that every SON is started; nobody has to start or stop a SIP.
`Weather` assumes that the kernel runs the three processes (`SwallowIn`, `Forks`,
`Serve`) and not that anyone types. `SendBuffer`, `GameServer`, `TcpClient` and
`Checksum` have no liveness property: later calls of `SendBuffer` may hang, users
of `GameServer` may stop typing at any prompt (`OneAnswer` says instead that what
a client waits for is under way), and every call of `TcpClient` ends by its timer.

## 5. Proofs

`GoBackN_proofs` proves, for all values of the constants that satisfy
`ConstantsOK` (any length, segment size, window, bounds on the channels):

* `Inductive`: `Spec => []IInv`, and from it `TypeCorrect`, `WindowBounded`,
  `TimerAssertionHolds`, `NoUnstoredFree`, `SendReturnsLate`, and the action
  property `ExpectMonotone`;
* `DeliveredInOrder` (`InOrder`) and `StreamRefinement` (the protocol implements
  `ReliableStream!Spec`), with the additional hypothesis that `memcpy` copies
  upwards, without which they are false.

None of the properties is inductive alone. That a freed segment was stored
needs that an ack under way never exceeds `expect` and that `expect` is never
inside a segment; that the stored bytes are in order needs that a DATA segment
under way is one of the segments that were cut from the data (`ChannelInv`),
that the segments follow one another without gaps (`BufInv`), and that as long
as a SYN is under way nothing was stored (so handling it again changes
nothing). `IInv` is their conjunction with the pointer order and the window
invariant; the proof has one lemma per action. The refinement uses that
invariant together with `InOrder`: every step maps to `Accept`, `Read`,
`Return` or a stutter. TLC checks `IInv` as an invariant too.

`StcpConn_proofs` proves all safety invariants of `StcpConn` and the action
property `AbortCause`, from `ConnConstants` alone: any number of
connections, retries and calls, accepts one after the other or in parallel.
`Inductive` gives `Spec => []IInv`; from it follow `TypeCorrect`,
`ConnectTellsTruth`, `DisconnectTellsTruth`, `ClockIsSafe`, `SemaphoreExact`,
`StaleOnlyLate` and `AbortIsKnown`. None of the return values can be trusted by
looking at the two TCBs alone: the reason why a SYNACK or FINACK tells the truth
is older than the state it finds. The invariant therefore follows four facts that
stay true once they are (`Steady`), and ties every segment under way and every
half-done handler to them:

* `Dialed`: the client has called connect, so there may be segments of it;
* not `Calm`: the client has called disconnect, which every FIN implies;
* `WasUp`: the server's TCB has left LISTENING, which every SYNACK implies;
* `Gone`: it has left CONNECTED too, which every FINACK implies.

`CalmInv` joins the sides: while the client is calm the server is not gone, so
an "up" client has a CONNECTED server. `UpInv` and `DownInv` are the client's
two successful returns, `HandInv` and `FinAckInv` the handlers between two of
their steps, `NetInv` the segments. Numbers agree by `First`: as long as connect
was called once, every SYN carries 0 and every SYNACK 1. `SemCount` needs no help
but the fact that a SYN finds LISTENING at most once per TCB. There is one lemma
per action; `UnderWay` shows once for all of them that what is under way stays
true. `IInv` held in a TLC run on the instance of `StcpConn.cfg` before it was
proved. `AbortIsKnown` adds the order of the queue (`FinSides`, `FinQueue`): when a
FIN of a connection is under way behind another one, or after the server has
taken one, the client has sent its FIN more than once. A SYN is under way only
while the client is calm, when the server's connection cannot be closed yet.

`AcceptTellsTruth` (`AcceptedMeansConnected`) has the hypothesis
`~ParallelAccept`, as the applications do it. Then at most one thread stands in
accept (`OneByOne`), and `SemCount` says that the unit it takes was posted for a
TCB that nobody has accepted.

`SendBuffer_proofs` proves all invariants of `SendBuffer` for every number of
calls and segments and every window below the range of the counter: `Inductive`,
`AssertionHolds` (`TimerAssertion`), `FreedAreStored` (`FreedOnlyAccepted`),
`ReturnIsDelivery` (`ReturnMeansAccepted`), `FirstCallIsExact`
(`FirstCallExact`). Which of the stores of append and handler comes last decides
what is on the list, and segments may be cut off it for good. But as long as no
bad pointer was followed, `next` of a segment is its successor or NULL, and the
last segment that was sent can be reached from `sendBufHead` unless the server
has it (`ChainInv`, `Reached`), since only the timer sends, from the list and
under `bufMutex`: so an empty list at the poll means that whatever was sent is
stored, not that everything was sent. What is freed was acknowledged
(`AckInv`). The timer's assertion is a matter of
`bufMutex` (`LockInv`): whoever leaves it with an empty list leaves 0 in the
counter. For the first call the exact state is carried through: `Alone` until
its timer is started, `Running` after it; there what was freed is exactly
`1..FreedNum` (`ListInv`).

`Framing_proofs` proves `CleanIntact` (`CleanFrames`) for one writer, any number
and length of structs and any content, in the three labs. Each byte of the
stream has a place, `q` in frame `j`; `Position` says that what the writer has
written is what the receiver has read and what is under way, `StreamInv` and
`BufInv` that under way and in the buffer every place holds its byte. So the
state of the machine says where in a frame the receiver is, and a delimiter that
it sees is one that was sent as such, since none is inside a struct. With several
writers this is false (`Framing_threads`); the passing run has one as well.

`Overlay_proofs` proves `AcceptAssertion` and `UpHasLinks` for every topology
without double edges, SONs started in time or not, any number of stops. A
neighbour with a greater ID is queued once, after its own entry was set, and
before ours is (`Queued`, `Accepted`); its entry is free until its connectNbrs
comes to us (`Untried`), and it comes once, since the neighbour table numbers
the neighbours (`RankIsANumbering`, proved with the cardinality theorems). A
SON ends only after waitNbrs, even by a signal, because `nt_destroy` waits at an
entry that is -1 (`Ended`); so one that is dead has linked its greater
neighbours. `Reached` is the part that needs `StartInTime`.

Of the updates it proves `NoGap` (`UpdatesInOrder`) for any number of sessions,
updates and stops. A session that is over leaves exactly one end mark
in what the SON reads from its SIP, and the SON serves the next one only when it
has taken it (`Sessions`), so that a SIP that is not yet served has got nothing
(`Unserved`). The updates that a SON still has to take are consecutive (`Stock`),
on a link they are the numbers after the last one taken (`Channel`), and what
waits for a SIP goes without a gap from the first update to that last one, or
from the last one it has seen if it has seen any (`Inbox`). The first attempt
failed: `NoGap` then counted what a dead SIP had seen, and three updates, one more
than the run allows, violated it; it now says what was meant.

`TcpClient_proofs` proves all properties of `TcpClient`, for any pool, initial
number, amount of data, number of connections and a network that loses, repeats
and reorders what belongs to the present socket (`~Outlive`): `Inductive`,
`PrefixDelivered` (`ServerHasPrefix`), `TakenInOrder` (`AckedOnceInOrder`) and the
action property `FinWaitTellsTruth` (`OrderlyEnd`). Only
slot 1 is ever found by `get_socket` (`SlotInv`). In the client's direction
everything turns on the number `g` of the first FIN: up to it numbers and data
agree (`Plain`), and what is sent behind it can never be next for a server that
has not taken that FIN (`Behind`, `ClosedAt`); before a FIN `g` is the next number
itself (`Unclosed`). In the other direction a segment is either of an older
connection and lies wholly below the present `Iss` (`Old`), or it answers what the
client sent on this one (`Answer`); the client takes only what is next.

`Weather_proofs` proves `InStep` (`ClientsInStep`) for any number of clients and any
sizes of request and buffer: as long as its answers have been read whole, a
client has nothing under way, a request, or the answer to it (`Quiet`, `Asked`,
`Answered`), and shares none of it; so no request waits behind another, and none
is cut.

`GameServer_proofs` has four parts.

*Sums.* `Total` is the library's fold: a recursive function on sets, which is
chosen and takes the members of a set in a chosen order (`SumUnfolds`). That there
is such a function (`RecExists`) and that the order does not matter
(`PartialRemoves`) are inductions over finite sets. The library's induction
theorems take an operator, which the provers cannot instantiate, but for a given
set of naturals induction is a theorem without one (`SetInduction`), and the
cardinalities for which a claim holds are such a set. `TotalChanges` is the
result: a change of one value changes the sum by as much.

*The checksum* (`WholeAccepted`, `LengthSlips`, for bytes and segments of any
size, 8 bits and 1464 bytes among them). Two folds keep a sum modulo
`Word - 1` (`FoldedSame`) and leave one word of what at most `Word` words can add
up to, which is 0 only if they all are (`FoldedFits`); so with the complement
stored the receiver gets the word of all ones (`SealAdds`) and accepts
(`CkSend`, `CkCheck`). A flipped bit outside of the length changes one word by
less than `Word - 1`, so that the sum is no longer divisible (`DamageShows`).
`ChecksumConstants` names the arithmetic of powers of two that this uses, since
no prover knows what `^` is.

*Credit* (`Typed` for any number of players, those who ask themselves included;
`Conserved` with the hypothesis `TwoPlayers` explained below). Everything but a judged war moves a credit between table
and file; a judged war adds `DeltaCredit` to one and takes it from the other,
and each of the two additions wraps by a multiple of `CreditMod`. `Typed` gives
that credit is below `CreditMod` at all times, without which a wrap would lose
some. A sign-out copies the credit to the file in one step and erases the entry in
another (lines 304, 307): `Leaving` says that in between file and entry agree,
which takes the invariant of the wars, since a war that pays has fighters and a
fighter of two players cannot have signed out.

*The wars* (`ThreadsAgree`, `AnsweredOnce`), with the hypothesis `TwoPlayers`: there
are not three players, and nobody asks himself. Section 3 says what fails without
it. Neither property is inductive: what a thread of a war will do to
a client depends on what that client has typed, what of it the server has read,
and what the listener has still to hear. `WarInv` ties them together, and
`Sockets` adds that no connection in a room is newer than the one its player
signed in on, so that what is sent on it reaches his client or nobody; a player
for whom it is nobody is `misled`:

* `Others`: nobody names himself, in a message, a room or a client;
* `Threads`: two threads have different rooms and both still wait for an answer, so
  that a war that goes on has the only thread that has not ended; its players are at war in
  its room, and when it is decided neither has agreed to a next one;
* `UpOK`: a command is the last message of its client, and after a `y` there is at
  most one pick; so a client that is bound to a war (by a request, a fight or an
  agreement that no thread has seen yet) cannot sign out under it;
* `Client`, by the prompt its main thread is at (`Welcome`, `OnLine`, `AtWar`): no
  post, or exactly one, is there or under way (`NoPost`, `Will`), and which state
  the client will be in after it; `Turns` says that a pick that is noted or under
  way is one that the client still waits for.

There is one lemma for each action; `Frame`, `QuietFrame` and `Outsider` say what
becomes of the player whom an action does not touch. `OwedOne` and `OwedNone` then
count the four places of `Owed`. TLC had found earlier forms of `WarInv`
violated, and the last one not, on the instance of section 3 (2 million states).

TLC finds none of these inductive invariants violated on the instances of section 3.
The assumptions are the ones that the modules name (`ConnConstants`,
`SendBufferConstants`, `FramingConstants`, `OverlayConstants`, `TcpConstants`,
`WeatherConstants`, `GameOK`, `ChecksumConstants`): types, sizes that are not 0,
finitely many players, powers of two that double, and a topology file that names
each link once. Hypotheses of single theorems are `memcpy` copying upwards,
`~ParallelAccept`, `~Outlive` and `TwoPlayers`.

Only model-checked is liveness (`SendCompletes`, `CallsReturn`,
`ConnectedIsAccepted`, `AllReceived`, `AllComeUp`, `UpdatesArrive`,
`LinkedSonStops`, `AnswersCome`, and the fairness of `ImplementsStream`), which with
`ENABLED` is beyond the prover. Every safety property that a run finds true is
proved, the three of `GameServer` under `TwoPlayers`, those of `TcpClient` under
`~Outlive`.

`ListIntact` and `FramesIntact` are violated, which is what their runs are for.
No module of this project declares a `RECURSIVE` operator.

## 6. Abstractions

* Bytes of user data are known by their offset, segments by their numbers; the
  receiver's checksum is the loss of a segment. Sequence numbers do not wrap.
* Sleeps and timeouts may end at any moment; only their number counts.
* Channels are FIFO, as TCP is; their capacity is a bound of the model.
* `seglost` also flips a bit. `Checksum` shows what is then accepted; the other
  modules take the segment as lost, also where the sum holds by chance.
* `Checksum` scales bytes and words down, and has of the header the length and
  the checksum. A sum that runs behind the struct is any word.
* Uninitialized values: the port number of a server TCB (`sPort`) is modelled;
  the address length given to `accept` is not (the calls succeed).
* In `Overlay` packets are whole; a SON is started at most once; unread data
  do not turn a close into a reset.
* In `GameServer` a handler of the server is one step, although nothing locks
  the tables (three exceptions: a war thread starts before its room is stored,
  what it sends after a turn is a step after the judgement, and a sign-out stores
  the credit before it erases the entry); so torn tables are not shown. An account is used by one client. What was sent before a turn is
  heard within its 15 seconds (`Heard`), and the 5 seconds a client sleeps after
  a war outlast the two assignments of `Restore` (`Slept`). The erased room that
  lines 447-450 use is taken to keep its contents. What is sent to a client that
  has ended is lost, or kills the server, whose behaviour then stops; a player
  comes back only after the server's thread has noticed the end. Chat,
  `broadcast_thread` (one slot, `broad_info`, overwritten by the next change)
  and `credit_vec` are left out.
* `TcpClient`: what `tcp_recv` hands out is left out. `tcp_input` copies the data
  (line 485) before `tcp_switch` has looked at the number, so a repeated segment
  is delivered again, and one that comes during `tcp_send` is overwritten. Data
  carry the flag ACK alone; RST is not modelled. The file does not compile as it
  is (a brace is missing after line 568, `sockfd` is not declared in
  `tcp_output`); the model follows what is plainly meant.
* `Weather`: a request arrives whole, although the buffer may cut it (one that
  does not arrive whole would be taken for a shorter one, and its client might
  wait for ever); a fork that fails,
  children nobody waits for, a connect that fails and the widths of `scanf` are
  left out.

## 7. Plan

Done: the data path, the send buffer, connection management of lab5 and lab6,
framing, the checksum, the overlay, the TCP client, the weather service and the
game server with clients that end, each with proofs of its safety properties.

Left, in this order:

1. `GameServer`: what of `WarThreads` and `OneAnswer` survives with three players,
   where an answer names the requester only.
2. `GameServer`: the broadcast slot (server.cc:136, overwritten before the
   broadcast thread has read it) and chat, which so far only print.
3. `TcpClient`: what `tcp_recv` returns.

Not modelled: the example applications of lab5 and lab6, which call the modelled
functions in a fixed order that the models allow among others; makefiles,
reports and data.
