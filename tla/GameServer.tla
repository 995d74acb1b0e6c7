----------------------------- MODULE GameServer -----------------------------
(***************************************************************************)
(* The game platform of lab4: the server (server.cc), with a thread for    *)
(* each connection and one for each war, and the clients (client.cc), each *)
(* with a main thread that sends what its user types and a thread that     *)
(* listens.  The two threads of a client meet at its semaphore gsem: after *)
(* a command main waits there until the answer has been heard.             *)
(*                                                                         *)
(* The tables of the server have no lock.  A handler is one step, except   *)
(* that a war thread is started before its room is stored, and that credit *)
(* is written before its entry is erased; a war thread takes a step for    *)
(* each wait, each turn and each answer.  Where the code follows an        *)
(* iterator that is end() or that points to an erased entry, anything may  *)
(* happen: the behaviour ends with fault = TRUE.  Chat and the news about  *)
(* friends are only printed, and are left out.                             *)
(*                                                                         *)
(* A user may end his client at any moment and start it again.  The server *)
(* keeps descriptors in its tables and closes none, so that each stands    *)
(* for one connection.  What it sends on that of a client that has ended   *)
(* is lost, or kills the server by SIGPIPE, after which nothing happens.   *)
(***************************************************************************)
EXTENDS Integers, Sequences, FiniteSets, FiniteSetsExt

CONSTANTS
  Players,       \* accounts; each has one client program
  NoFile,        \* a player who has not signed up
  StoredCredit,  \* credit in user_info at the start, or NoFile
  Asks,          \* [Players -> SUBSET Players]: the adversaries a user may name
  InitBlood, BloodCut, DeltaCredit,
  CreditMod,     \* credit is an unsigned char
  Quitters,      \* players who may end their client without signing out
  MaxRequests,   \* bound: war requests
  MaxConns,      \* bound: connections of one player
  Throws,        \* bound: [Players -> SUBSET Picks]: the picks a user types
  AnswerCap      \* bound: y or n typed before the server has used the last ones

Nobody == "nobody"      \* an empty name
Picks == 0..2           \* stone, knife, cloth
NotRecved == 3          \* skc1_recved or skc2_recved is false

ASSUME GameOK ==
  /\ IsFiniteSet(Players) /\ Nobody \notin Players
  /\ Asks \in [Players -> SUBSET Players]
  /\ CreditMod \in Nat \ {0} /\ DeltaCredit \in 0..(CreditMod - 1)
  /\ NoFile \notin 0..(CreditMod - 1)
  /\ StoredCredit \in [Players -> (0..(CreditMod - 1)) \cup {NoFile}]
  /\ {InitBlood, BloodCut} \subseteq Nat \ {0}
  /\ Quitters \subseteq Players /\ MaxRequests \in Nat /\ AnswerCap \in Nat
  /\ MaxConns \in Nat \ {0} /\ Throws \in [Players -> SUBSET Picks]

VARIABLES
  file,        \* user_info: the credit stored for each player
  user_table,  \* players online -> state, credit, name of the room, connfd
  rooms,       \* war_room_table: requester -> room
  inserting,   \* the adversary of the room a connection thread has yet to insert
  b_sockfd,    \* and his connection
  leaving,     \* has the thread stored the credit of one who signs out?
  wars,        \* the war threads, in the order they were started
  conn,        \* the number of each client's connection
  up, down,    \* the connection of each client
  gstate,      \* gcurrent_state of each client
  loop,        \* the function its main thread runs; "left" when the client
               \* has ended, "closed" when the server's thread has too
  wait,        \* what its main thread waits for in sem_wait, or "no"
  gsem, gadversary,
  misled,      \* history: has the client asked while the room of an earlier
               \* one was there?
  fault        \* undefined behaviour has been reached

server == <<file, user_table, rooms, inserting, b_sockfd, leaving, wars>>
client == <<conn, gstate, loop, wait, gsem, gadversary, misled>>
vars == <<server, up, down, client, fault>>

Online == DOMAIN user_table

Init ==
  /\ file = StoredCredit
  /\ user_table = <<>> /\ rooms = <<>> /\ wars = <<>>
  /\ inserting = [p \in Players |-> Nobody] /\ b_sockfd = [p \in Players |-> 0]
  /\ leaving = [p \in Players |-> FALSE] /\ misled = [p \in Players |-> FALSE]
  /\ conn = [p \in Players |-> 1]
  /\ up = [p \in Players |-> <<>>] /\ down = [p \in Players |-> <<>>]
  /\ gstate = [p \in Players |-> "WELCOM"] /\ loop = [p \in Players |-> "welcome"]
  /\ wait = [p \in Players |-> "no"] /\ gsem = [p \in Players |-> 0]
  /\ gadversary = [p \in Players |-> Nobody]
  /\ fault = FALSE

Room(i) == wars[i].room
Fighters(i) == {Room(i), wars[i].b}

Faults == fault' = TRUE /\ UNCHANGED <<server, up, down, client>>

Put(f, k, v) == [x \in DOMAIN f \cup {k} |-> IF x = k THEN v ELSE f[x]]
Erase(f, k) == [x \in DOMAIN f \ {k} |-> f[x]]

\* Credit is an unsigned char.
Plus(n, d) == (n + d) % CreditMod

Ended(p) == loop[p] \in {"left", "closed"}

(* What is sent on a connection of p arrives if it is that of a client      *)
(* which is there.                                                          *)
Reaches(p, sockfd) == ~Ended(p) /\ sockfd = conn[p]

Deliver(d, p, sockfd, m) ==
  IF Reaches(p, sockfd) THEN [d EXCEPT ![p] = Append(@, m)] ELSE d

-----------------------------------------------------------------------------
(* The main thread of a client. *)

Sends(p, m, w) ==
  /\ up' = [up EXCEPT ![p] = Append(@, m)]
  /\ wait' = [wait EXCEPT ![p] = w]
  /\ UNCHANGED <<server, down, conn, gsem, gadversary, misled, fault>>

At(p, l) == loop[p] = l /\ wait[p] = "no"
Typing(p, l) == ~fault /\ At(p, l)

\* welcome()
TypeSignUp(p) ==
  /\ Typing(p, "welcome")
  /\ Sends(p, [t |-> "signup"], "call")
  /\ UNCHANGED <<gstate, loop>>

TypeSignIn(p, right) ==
  /\ Typing(p, "welcome")
  /\ Sends(p, [t |-> "signin", right |-> right], "call")
  /\ UNCHANGED <<gstate, loop>>

\* online()
TypeList(p) ==
  /\ Typing(p, "online")
  /\ Sends(p, [t |-> "list"], "call")
  /\ UNCHANGED <<gstate, loop>>

TypeSignOut(p) ==
  /\ Typing(p, "online")
  /\ Sends(p, [t |-> "signout"], "call")
  /\ UNCHANGED <<gstate, loop>>

\* How many members of s are such that Is?
Count(s, Is(_)) == Cardinality({k \in DOMAIN s : Is(s[k])})

Requesting == {p \in Players : \E k \in 1..Len(up[p]) : up[p][k].t = "request"}

TypeRequest(p, b) ==
  /\ Typing(p, "online") /\ Len(wars) + Cardinality(Requesting) < MaxRequests
  /\ Sends(p, [t |-> "request", to |-> b], "request")
  /\ UNCHANGED <<gstate, loop>>

\* "y" enters the war at once, "n" stays; neither looks whether one was asked.
Unused(p) ==
  Count(up[p], LAMBDA m : m.t = "answer")
    + (IF gadversary[p] \in DOMAIN rooms THEN rooms[gadversary[p]].sem ELSE 0)

TypeAnswer(p, yes) ==
  /\ Typing(p, "online") /\ Unused(p) < AnswerCap
  /\ Sends(p, [t |-> "answer", room |-> gadversary[p], yes |-> yes], "no")
  /\ gstate' = [gstate EXCEPT ![p] = IF yes THEN "CLIENT_WAR" ELSE @]
  /\ loop' = [loop EXCEPT ![p] = IF yes THEN "war" ELSE @]

\* war()
TypePick(p, skc) ==
  /\ Typing(p, "war") /\ skc \in Throws[p]
  /\ Sends(p, [t |-> "pick", skc |-> skc], "pick")
  /\ UNCHANGED <<gstate, loop>>

\* sem_wait returns; the loops and main_loop go where the state says.
LoopOf == [WELCOM |-> "welcome", CLIENT_ONLINE |-> "online", CLIENT_WAR |-> "war"]

Wake(p) ==
  /\ ~fault /\ wait[p] # "no" /\ gsem[p] > 0
  /\ gsem' = [gsem EXCEPT ![p] = @ - 1]
  /\ wait' = [wait EXCEPT ![p] = "no"]
  /\ loop' = [loop EXCEPT ![p] = LoopOf[gstate[p]]]
  /\ UNCHANGED <<server, up, down, conn, gstate, gadversary, misled, fault>>

\* exit at the first prompt, or a signal at any moment.
Leave(p) ==
  /\ ~fault /\ p \in Quitters /\ conn[p] < MaxConns /\ ~Ended(p)
  /\ loop' = [loop EXCEPT ![p] = "left"] /\ wait' = [wait EXCEPT ![p] = "no"]
  /\ gstate' = [gstate EXCEPT ![p] = "WELCOM"] /\ gsem' = [gsem EXCEPT ![p] = 0]
  /\ gadversary' = [gadversary EXCEPT ![p] = Nobody]
  /\ misled' = [misled EXCEPT ![p] = FALSE]
  /\ down' = [down EXCEPT ![p] = <<>>]
  /\ UNCHANGED <<server, conn, up, fault>>

\* A new client of the player, on a new connection.
Return(p) ==
  /\ ~fault /\ loop[p] = "closed" /\ conn[p] < MaxConns
  /\ loop' = [loop EXCEPT ![p] = "welcome"]
  /\ conn' = [conn EXCEPT ![p] = @ + 1]
  /\ UNCHANGED <<server, up, down, gstate, wait, gsem, gadversary, misled, fault>>

-----------------------------------------------------------------------------
(* The listening thread of a client: the next message, the state it brings   *)
(* and whether it posts gsem.                                                *)

Ends(m) == m.t = "turn" /\ m.final \in {1, 2}

Posts_Overtime(m) ==                                            \* mutant
  m.t \in {"reply", "in", "answered", "out", "turn"}
Posts(m) ==
  \/ m.t \in {"reply", "in", "answered", "out"}
  \/ Ends(m)
  \/ m.t = "turn" /\ m.res # 3

StateAfter(m, s) ==
  IF (m.t = "in" /\ m.valid = 0) \/ Ends(m) THEN "CLIENT_ONLINE"
  ELSE IF m.t = "answered" /\ m.answer = 3 THEN "CLIENT_WAR"
  ELSE IF m.t = "out" THEN "WELCOM" ELSE s

AdversaryAfter(m, a) ==
  IF m.t = "ask" THEN m.from
  ELSE IF m.t = "answered" /\ m.answer = 3 THEN m.adversary ELSE a

\* turn_result_proc sleeps 5 seconds after the last turn; the war thread has
\* only to store the states of the players.
Slept(p) == \A i \in DOMAIN wars : wars[i].pc = "restore" => p \notin Fighters(i)

Listen(p) ==
  /\ ~fault /\ down[p] # <<>> /\ (Ends(Head(down[p])) => Slept(p))
  /\ LET m == Head(down[p]) IN
       /\ gstate' = [gstate EXCEPT ![p] = StateAfter(m, @)]
       /\ gadversary' = [gadversary EXCEPT ![p] = AdversaryAfter(m, @)]
       /\ gsem' = [gsem EXCEPT ![p] = IF Posts(m) THEN @ + 1 ELSE @]
  /\ down' = [down EXCEPT ![p] = Tail(@)]
  /\ UNCHANGED <<server, conn, up, loop, wait, misled, fault>>

-----------------------------------------------------------------------------
(* client_thread: the handler of the next packet of a connection. *)

NextIs(p, t) == ~fault /\ inserting[p] = Nobody /\ up[p] # <<>> /\ Head(up[p]).t = t

Answers(p, m) ==
  /\ up' = [up EXCEPT ![p] = Tail(@)]
  /\ down' = IF Ended(p) THEN down ELSE [down EXCEPT ![p] = Append(@, m)]
  /\ UNCHANGED <<client, fault>>

SignUp(p) ==
  /\ NextIs(p, "signup")
  /\ file' = [file EXCEPT ![p] = IF @ = NoFile THEN 0 ELSE @]
  /\ Answers(p, [t |-> "reply"])
  /\ UNCHANGED <<user_table, rooms, inserting, b_sockfd, leaving, wars>>

Validity(p, right) ==
  IF file[p] = NoFile THEN 1
  ELSE IF p \in Online THEN 2
  ELSE IF right THEN 0 ELSE 1

SignIn(p) ==
  /\ NextIs(p, "signin")
  /\ LET valid == Validity(p, Head(up[p]).right) IN
       /\ user_table' = IF valid # 0 THEN user_table
            ELSE Put(user_table, p,
                     [state |-> "ONLINE", credit |-> file[p], room |-> Nobody,
                      connfd |-> conn[p]])
       /\ Answers(p, [t |-> "in", valid |-> valid])
  /\ UNCHANGED <<file, rooms, inserting, b_sockfd, leaving, wars>>

FriendsCreditList(p) ==
  /\ NextIs(p, "list")
  /\ Answers(p, [t |-> "reply"])
  /\ UNCHANGED server

Free(b) == b \in Online /\ user_table[b].state # "WAR"

Refused(p, b) ==
  /\ Answers(p, [t |-> "answered", adversary |-> b,
                 answer |-> IF b \in Online THEN 1 ELSE 0])
  /\ UNCHANGED server

NoResults == <<[t |-> "turn", res |-> 0, final |-> 0],
               [t |-> "turn", res |-> 0, final |-> 0]>>

(* The room p asked for earlier is there, with the connection p had then. *)
OldRoom(p) == p \in DOMAIN rooms /\ rooms[p].a_sockfd # conn[p]

\* pthread_create comes before the insertion of the room.
WarRequest(p) ==
  /\ NextIs(p, "request")
  /\ LET b == Head(up[p]).to IN
     \/ ~Free(b) /\ Refused(p, b)
     \/ /\ Free(b)
        /\ wars' = Append(wars, [room |-> p, b |-> Nobody, held |-> FALSE,
                                 results |-> NoResults, socks |-> <<0, 0>>,
                                 pc |-> "ask"])
        /\ inserting' = [inserting EXCEPT ![p] = b]
        /\ b_sockfd' = [b_sockfd EXCEPT ![p] = user_table[b].connfd]
        /\ misled' = [misled EXCEPT ![p] = @ \/ OldRoom(p)]
        /\ up' = [up EXCEPT ![p] = Tail(@)]
        /\ UNCHANGED <<file, user_table, rooms, leaving, conn, down, gstate, loop,
                       wait, gsem, gadversary, fault>>

NewRoom(b, a_sock, b_sock) ==
  [b |-> b, a_sockfd |-> a_sock, b_sockfd |-> b_sock,
   a_blood |-> InitBlood, b_blood |-> InitBlood, yes |-> TRUE, sem |-> 0,
   skc1 |-> NotRecved, skc2 |-> NotRecved]

\* insert() leaves a room that is there alone, and with it its connections.
Inserted(p) ==
  IF p \in DOMAIN rooms THEN rooms
  ELSE Put(rooms, p, NewRoom(inserting[p], conn[p], b_sockfd[p]))

InsertRoom(p) ==
  /\ ~fault /\ inserting[p] # Nobody
  /\ rooms' = Inserted(p)
  /\ inserting' = [inserting EXCEPT ![p] = Nobody]
  /\ b_sockfd' = [b_sockfd EXCEPT ![p] = 0]
  /\ UNCHANGED <<file, user_table, leaving, wars, up, down, client, fault>>

WarResponse(p) ==
  /\ NextIs(p, "answer")
  /\ LET m == Head(up[p]) IN
       rooms' = IF m.room \notin DOMAIN rooms THEN rooms
                ELSE [rooms EXCEPT ![m.room].yes = m.yes, ![m.room].sem = @ + 1]
  /\ up' = [up EXCEPT ![p] = Tail(@)]
  /\ UNCHANGED <<file, user_table, inserting, b_sockfd, leaving, wars, down,
                 client, fault>>

Picked(p, r, skc) ==
  IF p = r THEN [rooms EXCEPT ![r].skc1 = skc] ELSE [rooms EXCEPT ![r].skc2 = skc]

HasRoom(p) == p \in Online /\ user_table[p].room \in DOMAIN rooms

Pick(p) ==
  /\ NextIs(p, "pick")
  /\ \/ ~HasRoom(p) /\ Faults
     \/ /\ HasRoom(p)
        /\ rooms' = Picked(p, user_table[p].room, Head(up[p]).skc)
        /\ up' = [up EXCEPT ![p] = Tail(@)]
        /\ UNCHANGED <<file, user_table, inserting, b_sockfd, leaving, wars, down,
                       client, fault>>

\* One who is not online has no answer.
SignOut(p) ==
  /\ NextIs(p, "signout") /\ ~leaving[p]
  /\ IF p \in Online
     THEN /\ file' = [file EXCEPT ![p] = user_table[p].credit]
          /\ leaving' = [leaving EXCEPT ![p] = TRUE]
          /\ up' = up
     ELSE /\ up' = [up EXCEPT ![p] = Tail(@)]
          /\ UNCHANGED <<file, leaving>>
  /\ UNCHANGED <<user_table, rooms, inserting, b_sockfd, wars, down, client, fault>>

\* The war threads keep an iterator to player b.
SignedOut(p) ==
  /\ NextIs(p, "signout") /\ leaving[p]
  /\ leaving' = [leaving EXCEPT ![p] = FALSE]
  /\ user_table' = Erase(user_table, p)
  /\ wars' = [i \in DOMAIN wars |->
                IF wars[i].b = p THEN [wars[i] EXCEPT !.held = FALSE] ELSE wars[i]]
  /\ Answers(p, [t |-> "out"])
  /\ UNCHANGED <<file, rooms, inserting, b_sockfd>>

\* recv returns 0: the thread of one who is signed in stores his credit; his
\* entry stays, so that he is refused as online when he comes again.
CloseConn(p) ==
  /\ ~fault /\ loop[p] = "left" /\ up[p] = <<>> /\ inserting[p] = Nobody
  /\ loop' = [loop EXCEPT ![p] = "closed"]
  /\ file' = IF p \in Online /\ user_table[p].connfd = conn[p]
             THEN [file EXCEPT ![p] = user_table[p].credit] ELSE file
  /\ UNCHANGED <<user_table, rooms, inserting, b_sockfd, leaving, wars, conn,
                 up, down, gstate, wait, gsem, gadversary, misled, fault>>

-----------------------------------------------------------------------------
(* war_thread and war_turn_proc. *)

WarAt(i, pc) == ~fault /\ wars[i].pc = pc
Goes(i, pc) == wars' = [wars EXCEPT ![i].pc = pc]

Ask(i) ==
  /\ WarAt(i, "ask") /\ Room(i) \in DOMAIN rooms
  /\ LET r == rooms[Room(i)] IN
       down' = Deliver(down, r.b, r.b_sockfd, [t |-> "ask", from |-> Room(i)])
  /\ Goes(i, "wait")
  /\ UNCHANGED <<file, user_table, rooms, inserting, b_sockfd, leaving, up,
                 client, fault>>

TellA(i, answer) ==
  down' = Deliver(down, Room(i), rooms[Room(i)].a_sockfd,
            [t |-> "answered", answer |-> answer, adversary |-> rooms[Room(i)].b])

\* sem_wait of the thread returns.
Posted(i) == Room(i) \in DOMAIN rooms /\ rooms[Room(i)].sem > 0

Answered(i) ==
  /\ WarAt(i, "wait") /\ Posted(i)
  /\ UNCHANGED <<file, inserting, b_sockfd, leaving, up, client, fault>>
  /\ LET a == Room(i)
         b == rooms[a].b IN
     \/ /\ ~rooms[a].yes
        /\ TellA(i, 2)
        /\ rooms' = [rooms EXCEPT ![a].sem = @ - 1]
        /\ Goes(i, "exit")
        /\ UNCHANGED user_table
     \/ /\ rooms[a].yes /\ {a, b} \subseteq Online
        /\ TellA(i, 3)
        /\ user_table' = [p \in Online |-> IF p \notin {a, b} THEN user_table[p]
                            ELSE [user_table[p] EXCEPT !.state = "WAR", !.room = a]]
        /\ rooms' = [rooms EXCEPT ![a].sem = @ - 1,
                                  ![a].skc1 = NotRecved, ![a].skc2 = NotRecved]
        /\ wars' = [wars EXCEPT ![i].pc = "turn", ![i].b = b, ![i].held = TRUE]

\* Who loses blood in a turn.  0 < 2: stone of a beats cloth of b.
AWins(x, y) == x < y \/ (x = 2 /\ y = 0)

LosesA(x, y) == x = NotRecved \/ (y # NotRecved /\ x # y /\ ~AWins(x, y))
LosesB(x, y) == y = NotRecved \/ (x # NotRecved /\ x # y /\ AWins(x, y))

Res(mine, lost, other) ==
  IF mine = NotRecved THEN 3 ELSE IF lost THEN 1 ELSE IF other THEN 0 ELSE 2

Final(mine, other) ==
  IF mine <= 0 /\ other <= 0 /\ mine = other THEN 3
  ELSE IF mine <= 0 /\ other > 0 THEN 2
  ELSE IF mine > 0 /\ other <= 0 THEN 1 ELSE 0

\* The credit c of a player after a turn with final result f for him.
Paid_WhatThereIs(c, f) ==                                       \* mutant
  IF f = 1 THEN Plus(c, DeltaCredit)
  ELSE IF f = 2 /\ c >= DeltaCredit THEN c - DeltaCredit ELSE c
Paid(c, f) ==
  IF f = 1 THEN Plus(c, DeltaCredit)
  ELSE IF f = 2 THEN Plus(c, -DeltaCredit) ELSE c

\* The users after it: first a is paid, then b (who asks himself is both).
PaidBoth(turn) ==
  LET paidA(p) == IF p # turn.a THEN user_table[p].credit
                  ELSE Paid(user_table[p].credit, turn.a_result.final)
  IN  [p \in Online |-> [user_table[p] EXCEPT !.credit =
         IF p = turn.b THEN Paid(paidA(p), turn.b_result.final) ELSE paidA(p)]]

\* What was sent before a turn is heard within the 15 seconds the turn sleeps.
Heard(p) == down[p] = <<>> /\ (wait[p] # "no" => gsem[p] = 0)

TurnOver(i) ==
  Room(i) \in DOMAIN rooms /\ Heard(Room(i)) /\ Heard(wars[i].b)

\* The picks as they are after the sleep, and what follows from them.
Turn(i) ==
  LET r == rooms[Room(i)]
      la == LosesA(r.skc1, r.skc2)
      lb == LosesB(r.skc1, r.skc2)
      ba == r.a_blood - (IF la THEN BloodCut ELSE 0)
      bb == r.b_blood - (IF lb THEN BloodCut ELSE 0) IN
  [a |-> Room(i), b |-> r.b, a_blood |-> ba, b_blood |-> bb,
   a_result |-> [t |-> "turn", res |-> Res(r.skc1, la, lb), final |-> Final(ba, bb)],
   b_result |-> [t |-> "turn", res |-> Res(r.skc2, lb, la), final |-> Final(bb, ba)]]

Wins(turn) == turn.a_result.final \in {1, 2}

\* A war that is decided is paid, and its room erased; the thread still uses
\* the connections that were in it.
Judge(i) ==
  /\ WarAt(i, "turn") /\ TurnOver(i)
  /\ LET turn == Turn(i) IN
       /\ Wins(turn) => {turn.a, turn.b} \subseteq Online
       /\ user_table' = PaidBoth(turn)
       /\ rooms' = IF turn.a_result.final # 0 THEN Erase(rooms, turn.a)
                   ELSE [rooms EXCEPT ![turn.a].a_blood = turn.a_blood,
                                      ![turn.a].b_blood = turn.b_blood]
       /\ wars' = [wars EXCEPT ![i].pc = "results",
                               ![i].results = <<turn.a_result, turn.b_result>>,
                               ![i].socks = <<rooms[turn.a].a_sockfd,
                                              rooms[turn.a].b_sockfd>>]
  /\ UNCHANGED <<file, inserting, b_sockfd, leaving, up, down, client, fault>>

\* What came in since the picks were read is dropped, and both are told.
SendResults(i) ==
  /\ WarAt(i, "results")
  /\ LET a == Room(i)
         socks == wars[i].socks
         ended == wars[i].results[1].final # 0 IN
       /\ rooms' = IF ended THEN rooms
                   ELSE [rooms EXCEPT ![a].skc1 = NotRecved, ![a].skc2 = NotRecved]
       /\ down' = Deliver(Deliver(down, a, socks[1], wars[i].results[1]),
                          wars[i].b, socks[2], wars[i].results[2])
       /\ wars' = [wars EXCEPT ![i].pc = IF ended THEN "restore" ELSE "turn",
                               ![i].results = NoResults, ![i].socks = <<0, 0>>]
  /\ UNCHANGED <<file, user_table, inserting, b_sockfd, leaving, up, client, fault>>

BackOnline_OnlyB(a, b) ==                                       \* mutant
  [p \in Online |-> IF p = b THEN [user_table[p] EXCEPT !.state = "ONLINE"]
                    ELSE user_table[p]]
BackOnline(a, b) ==
  [p \in Online |-> IF p \in {a, b} THEN [user_table[p] EXCEPT !.state = "ONLINE"]
                    ELSE user_table[p]]

Restore(i) ==
  /\ WarAt(i, "restore") /\ wars[i].held /\ Room(i) \in Online
  /\ user_table' = BackOnline(Room(i), wars[i].b)
  /\ wars' = [wars EXCEPT ![i].pc = "exit", ![i].b = Nobody, ![i].held = FALSE]
  /\ UNCHANGED <<file, rooms, inserting, b_sockfd, leaving, up, down, client, fault>>

\* The next step of the thread looks up a room or a player that is not there.
Astray(i) ==
  LET w == wars[i]
      a == Room(i) IN
  CASE w.pc = "ask" -> a \notin DOMAIN rooms
    [] w.pc = "wait" ->
         Posted(i) /\ rooms[a].yes /\ ~({a, rooms[a].b} \subseteq Online)
    [] w.pc = "turn" ->
         TurnOver(i) /\ Wins(Turn(i)) /\ ~({a, rooms[a].b} \subseteq Online)
    [] w.pc = "restore" -> ~(w.held /\ a \in Online)
    [] OTHER -> FALSE

Crash(i) == ~fault /\ Astray(i) /\ Faults

-----------------------------------------------------------------------------
Types(p) ==
  \/ TypeSignUp(p) \/ \E right \in BOOLEAN : TypeSignIn(p, right)
  \/ TypeList(p) \/ TypeSignOut(p)
  \/ \E b \in Asks[p] : TypeRequest(p, b)
  \/ \E yes \in BOOLEAN : TypeAnswer(p, yes)
  \/ \E skc \in Picks : TypePick(p, skc)
  \/ Leave(p) \/ Return(p)

Serves(p) ==
  \/ SignUp(p) \/ SignIn(p) \/ FriendsCreditList(p) \/ WarRequest(p)
  \/ InsertRoom(p) \/ WarResponse(p) \/ Pick(p) \/ SignOut(p)
  \/ SignedOut(p) \/ CloseConn(p)

Fights(i) ==
  Ask(i) \/ Answered(i) \/ Judge(i) \/ SendResults(i) \/ Restore(i) \/ Crash(i)

Next ==
  \/ \E p \in Players : Types(p) \/ Wake(p) \/ Listen(p) \/ Serves(p)
  \/ \E i \in DOMAIN wars : Fights(i)

Spec == Init /\ [][Next]_vars

-----------------------------------------------------------------------------
CreditOf(p) ==
  IF p \in Online THEN user_table[p].credit
  ELSE IF file[p] = NoFile THEN 0 ELSE file[p]
Stored(p) == IF StoredCredit[p] = NoFile THEN 0 ELSE StoredCredit[p]

Total(f) == FoldFunction(+, 0, f)
Credits == [p \in Players |-> CreditOf(p)]
StoredCredits == [p \in Players |-> Stored(p)]

(* Wars, sign-outs and sign-ins move credit between players and between the *)
(* table and the files, and lose or create none, modulo 256 (server.cc      *)
(* lines 111-134, 296-313 and 415-440).                                     *)
CreditConserved == (Total(Credits) - Total(StoredCredits)) % CreditMod = 0

(* Will the answer to the request of p reach him? *)
Hears(p) ==
  IF p \in DOMAIN rooms THEN Reaches(p, rooms[p].a_sockfd) ELSE inserting[p] # Nobody

(* The posts of gsem that are there, under way, or will come without p. *)
Owed(p) ==
  gsem[p] + Count(down[p], Posts)
  + Count(up[p], LAMBDA m : m.t \notin {"answer", "pick"})
  + Cardinality({i \in DOMAIN wars : /\ Hears(p) /\ Room(i) = p
                                     /\ wars[i].pc \in {"ask", "wait"}})

(* A client that waits for the answer to a command is owed exactly one post  *)
(* of its semaphore, and one at a prompt outside of war is owed none: the    *)
(* posts of turns, overtime and ends of wars neither wake a later command    *)
(* too early nor let one wait for ever (client.cc lines 68-207, 243-407).    *)
(* The one exception are requests of a client whose player has asked before, *)
(* with an earlier client, and was rejected: the room is still there, and    *)
(* the answer goes to the connection that is in it (server.cc lines 222, 231 *)
(* and 464-505).                                                             *)
OneAnswer ==
  \A p \in Players :
    /\ wait[p] = "call" => Owed(p) = 1
    /\ wait[p] = "request" => Owed(p) = 1 \/ misled[p]
    /\ At(p, "welcome") \/ At(p, "online") => Owed(p) = 0

(* No two threads use one room; a player is in state WAR only while a thread *)
(* is there that will end it, and the fighters of a turn are online, at war  *)
(* and in the room their picks are looked up by (server.cc lines 252-265,    *)
(* 331-508).                                                                 *)
InRoom(i) == wars[i].pc \in {"ask", "wait", "turn", "results"}

WarThreads ==
  /\ \A i, j \in DOMAIN wars : Room(i) = Room(j) /\ InRoom(i) /\ InRoom(j) => i = j
  /\ \A p \in Online : user_table[p].state = "WAR" =>
       \E i \in DOMAIN wars :
         wars[i].pc \in {"turn", "results", "restore"} /\ p \in Fighters(i)
  /\ \A i \in DOMAIN wars : wars[i].pc \in {"turn", "results"} =>
       \A p \in Fighters(i) :
         p \in Online /\ user_table[p].state = "WAR" /\ user_table[p].room = Room(i)
=============================================================================
