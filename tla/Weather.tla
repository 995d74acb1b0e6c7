------------------------------ MODULE Weather -------------------------------
(***************************************************************************)
(* The weather query service of lab3: clients that ask for a city and then *)
(* for its weather, a server that forks a child for every connection.      *)
(*                                                                         *)
(* Both sides call recv once for a message.  A request is 23 bytes and is  *)
(* taken to arrive in one piece, but recv asks for 100 bytes: requests     *)
(* that have met in the connection are read together, all but the first    *)
(* are lost, and the last may be cut: its end is read as a request of its  *)
(* own, with all that has come behind it.  An answer is 77 bytes and may   *)
(* be read in two parts; what comes second is taken for the next answer,   *)
(* and its first byte for the result.  The forecast itself is left out;    *)
(* only day 9 has none.                                                    *)
(***************************************************************************)
EXTENDS Naturals, Sequences

CONSTANTS
  Clients,
  Cities, Known,   \* what a user may type; city_list of the server
  ReqLen, BufLen,  \* bytes of a request (23), of the buffer of serve (100)
  Pending, Backlog \* bounds: requests, and parts of answers, in a connection

ASSUME WeatherConstants ==
  /\ Known \subseteq Cities /\ Pending \in Nat \ {0} /\ Backlog \in Nat \ {0, 1}
  /\ ReqLen \in Nat \ {0, 1} /\ BufLen \in Nat /\ BufLen >= ReqLen

VARIABLES
  st,        \* clients: "INIT", "WEL", "QUERY", "CUSTOM" (command 3), "end"
  city,      \* the city a client has typed
  waits,     \* is the client in recv?
  up, down,  \* the connection: requests, parts of answers
  cut,       \* bytes of the first request in up that were read already
  child,     \* the child of the connection: "none", "serves", "gone"
  whole      \* history: has the client read only whole answers so far?

clientVars == <<st, city, waits, whole>>
vars == <<clientVars, up, down, cut, child>>

Init ==
  /\ st = [c \in Clients |-> "INIT"] /\ city \in [Clients -> Cities]
  /\ waits = [c \in Clients |-> FALSE] /\ whole = [c \in Clients |-> TRUE]
  /\ up = [c \in Clients |-> <<>>] /\ down = [c \in Clients |-> <<>>]
  /\ cut = [c \in Clients |-> 0] /\ child = [c \in Clients |-> "none"]

-----------------------------------------------------------------------------
(* The client. *)
Starts(c) ==
  /\ st[c] = "INIT" /\ st' = [st EXCEPT ![c] = "WEL"]
  /\ UNCHANGED <<city, waits, whole, up, down, cut, child>>

(* kick_out, and on to swallow_in. *)
KickOut(c, request) ==
  /\ ~waits[c] /\ Len(up[c]) < Pending
  /\ waits' = [waits EXCEPT ![c] = TRUE]
  /\ up' = [up EXCEPT ![c] = Append(@, request)]

AskCity(c) ==
  /\ st[c] = "WEL"
  /\ \E x \in Cities :
       /\ city' = [city EXCEPT ![c] = x]
       /\ KickOut(c, [stage |-> 1, option |-> 0, city |-> x, day |-> 0])
  /\ UNCHANGED <<st, whole, down, cut, child>>

(* The commands 1 and 2, and 3 with a digit. *)
AskWeather(c) ==
  /\ st[c] = "QUERY"
  /\ \E option \in {1, 2} :
       KickOut(c, [stage |-> 2, option |-> option, city |-> city[c],
                   day |-> IF option = 1 THEN 1 ELSE 3])
  /\ UNCHANGED <<st, city, whole, down, cut, child>>

AskDay(c) ==
  /\ st[c] \in {"QUERY", "CUSTOM"} /\ st' = [st EXCEPT ![c] = "CUSTOM"]
  /\ \E day \in {1, 9} :
       KickOut(c, [stage |-> 2, option |-> 1, city |-> city[c], day |-> day])
  /\ UNCHANGED <<city, whole, down, cut, child>>

(* The parts of an answer: its result, 1..4, and what is behind, which     *)
(* holds bytes that look like results in a forecast only (a month, a day). *)
RestOf(res) == IF res \in {1, 2} THEN 0 ELSE 5
FirstByte(part) == IF part = 5 THEN 0..4 ELSE {part}

After(c, res) ==
  IF <<st[c], res>> \in {<<"WEL", 1>>, <<"CUSTOM", 3>>, <<"CUSTOM", 4>>}
    THEN "QUERY" ELSE st[c]

SwallowIn(c) ==
  /\ waits[c] /\ down[c] # <<>>
  /\ \E n \in {1, 2}, res \in FirstByte(Head(down[c])) :
       /\ n <= Len(down[c])
       /\ st' = [st EXCEPT ![c] = After(c, res)]
       /\ down' = [down EXCEPT ![c] = SubSeq(@, n + 1, Len(@))]
       /\ whole' = [whole EXCEPT ![c] = @ /\ n = 2]
  /\ waits' = [waits EXCEPT ![c] = FALSE]
  /\ UNCHANGED <<city, up, cut, child>>

(* The command r; the command #, after which main closes the connection. *)
Back(c) ==
  /\ st[c] = "QUERY" /\ ~waits[c] /\ st' = [st EXCEPT ![c] = "WEL"]
  /\ UNCHANGED <<city, waits, whole, up, down, cut, child>>

Quits(c) ==
  /\ st[c] \in {"WEL", "QUERY"} /\ ~waits[c] /\ st' = [st EXCEPT ![c] = "end"]
  /\ UNCHANGED <<city, waits, whole, up, down, cut, child>>

-----------------------------------------------------------------------------
(* The server.  The parent accepts and forks. *)
Forks(c) ==
  /\ st[c] # "INIT" /\ child[c] = "none"
  /\ child' = [child EXCEPT ![c] = "serves"]
  /\ UNCHANGED <<clientVars, up, down, cut>>

CityVerify_FirstOnly(x) ==                                   \* mutant
  IF x = CHOOSE k \in Known : TRUE THEN 2 ELSE 1
CityVerify(x) == IF x \in Known THEN 1 ELSE 2

(* The result of the answer; 0 when there is none. *)
WeatherGen_OneDay(option, day) ==                            \* mutant
  IF option # 1 THEN 0 ELSE IF day = 9 THEN 4 ELSE 3
WeatherGen(option, day) ==
  IF option \notin {1, 2} THEN 0 ELSE IF option = 1 /\ day = 9 THEN 4 ELSE 3

Least(m, n) == IF m < n THEN m ELSE n

Result(r) ==
  CASE r.stage = 1 -> CityVerify(r.city)
    [] r.stage = 2 -> WeatherGen(r.option, r.day)
    [] OTHER -> 0

(* What is answered to a read: the request it begins with, or what looks   *)
(* like one.  Behind a cut the stage is a letter of a city, and there is   *)
(* no answer, but for an option or a day: either may look like a stage,    *)
(* and the bytes that follow like anything.                                *)
Results(c) ==
  IF cut[c] = 0 THEN {Result(Head(up[c]))}
  ELSE IF cut[c] \in {1, ReqLen - 1} THEN 0..4 ELSE {0}

(* recv: all that has come of the first n requests, or a full buffer. *)
Serve(c) ==
  /\ child[c] = "serves" /\ up[c] # <<>> /\ Len(down[c]) + 2 <= Backlog
  /\ \E n \in 1..Len(up[c]) :
       LET read == Least(ReqLen * n, cut[c] + BufLen)
       IN  /\ up' = [up EXCEPT ![c] = SubSeq(@, read \div ReqLen + 1, Len(@))]
           /\ cut' = [cut EXCEPT ![c] = read % ReqLen]
  /\ \E res \in Results(c) :
       down' = IF res = 0 THEN down
               ELSE [down EXCEPT ![c] = @ \o <<res, RestOf(res)>>]
  /\ UNCHANGED <<clientVars, child>>

(* recv returns 0, or an error, when the client has closed. *)
ChildEnds(c) ==
  /\ child[c] = "serves" /\ st[c] = "end"
  /\ child' = [child EXCEPT ![c] = "gone"]
  /\ UNCHANGED <<clientVars, up, down, cut>>

Next ==
  \E c \in Clients :
    \/ Starts(c) \/ AskCity(c) \/ AskWeather(c) \/ AskDay(c) \/ SwallowIn(c)
    \/ Back(c) \/ Quits(c) \/ Forks(c) \/ Serve(c) \/ ChildEnds(c)

(* The kernel runs every process; a user need not type anything. *)
Fairness ==
  \A c \in Clients :
    WF_vars(SwallowIn(c)) /\ WF_vars(Forks(c)) /\ WF_vars(Serve(c))

Spec == Init /\ [][Next]_vars
FairSpec == Spec /\ Fairness

-----------------------------------------------------------------------------
(* While answers come whole, client and child are in step: a client that   *)
(* waits has exactly its request or the answer to it under way, one that   *)
(* does not has nothing, no request is cut, and whoever sees the menu of   *)
(* forecasts has a city the server knows.  One short read ends all of this *)
(* for good.                                                               *)
InStep ==
  \A c \in Clients : whole[c] =>
    /\ 2 * Len(up[c]) + Len(down[c]) = IF waits[c] THEN 2 ELSE 0
    /\ cut[c] = 0
    /\ st[c] \in {"QUERY", "CUSTOM"} => city[c] \in Known

(* A client may wait for an answer for ever, but only once recv has cut a  *)
(* request: as long as it never does, whoever waits is given an answer, be *)
(* it the rest of an earlier one, although requests that are read together *)
(* have one answer only.                                                   *)
AnswersCome ==
  \A c \in Clients : [](cut[c] = 0) => (waits[c] ~> ~waits[c])
=============================================================================
