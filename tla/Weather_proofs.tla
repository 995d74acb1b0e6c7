--------------------------- MODULE Weather_proofs ---------------------------
(***************************************************************************)
(* Proofs about the weather service of lab3, for every set of clients and  *)
(* of cities and for every size of the buffers.  No client shares anything *)
(* with another: the invariant speaks of one client, its connection and    *)
(* its child, and each step disturbs that of one client only.              *)
(***************************************************************************)
EXTENDS Weather, Integers, TLAPS

Request == [stage : {1, 2}, option : 0..2, city : Cities, day : {0, 1, 3, 9}]

TypeInv ==
  /\ st \in [Clients -> {"INIT", "WEL", "QUERY", "CUSTOM", "end"}]
  /\ city \in [Clients -> Cities]
  /\ waits \in [Clients -> BOOLEAN] /\ whole \in [Clients -> BOOLEAN]
  /\ up \in [Clients -> Seq(Request)] /\ down \in [Clients -> Seq(0..5)]
  /\ cut \in [Clients -> 0..ReqLen - 1]
  /\ child \in [Clients -> {"none", "serves", "gone"}]

(* Is r what a client in this state has asked for? *)
Suits(c, r) ==
  IF st[c] = "WEL" THEN r.stage = 1 /\ r.city = city[c]
                   ELSE r.stage = 2 /\ r.option \in {1, 2}

(* Nothing is under way, or one request, or the answer to it. *)
Quiet(c) == ~waits[c] /\ up[c] = <<>> /\ down[c] = <<>>
Asked(c) ==
  /\ waits[c] /\ Len(up[c]) = 1 /\ down[c] = <<>>
  /\ Suits(c, Head(up[c]))
Answered(c) ==
  /\ waits[c] /\ up[c] = <<>>
  /\ \E r \in 1..4 : /\ down[c] = <<r, RestOf(r)>>
                     /\ st[c] = "WEL" /\ r = 1 => city[c] \in Known

ClientInv(c) ==
  whole[c] =>
    /\ Quiet(c) \/ Asked(c) \/ Answered(c)
    /\ st[c] \in {"QUERY", "CUSTOM"} => city[c] \in Known
    /\ waits[c] => st[c] \in {"WEL", "QUERY", "CUSTOM"}
    /\ cut[c] = 0

IInv == TypeInv /\ \A c \in Clients : ClientInv(c)

-----------------------------------------------------------------------------
LEMMA InitInv == Init => IInv
<1> SUFFICES ASSUME Init PROVE IInv
  OBVIOUS
<1>1. TypeInv
  BY WeatherConstants DEF Init, TypeInv
<1>2. \A c \in Clients : ClientInv(c)
  BY DEF Init, ClientInv, Quiet
<1> QED BY <1>1, <1>2 DEF IInv

(* The other clients. *)
LEMMA Elsewhere ==
  ASSUME IInv, NEW c \in Clients, TypeInv', ClientInv(c)',
         \A q \in Clients : q # c =>
           /\ st'[q] = st[q] /\ city'[q] = city[q] /\ waits'[q] = waits[q]
           /\ whole'[q] = whole[q] /\ up'[q] = up[q] /\ down'[q] = down[q]
           /\ cut'[q] = cut[q]
  PROVE  IInv'
<1>1. ASSUME NEW q \in Clients, q # c PROVE ClientInv(q)'
  BY <1>1 DEF IInv, ClientInv, Quiet, Asked, Answered, Suits
<1> QED BY <1>1 DEF IInv

(* A step of the menus alone. *)
LEMMA MenuInv ==
  ASSUME IInv, NEW c \in Clients, NEW s \in {"WEL", "end"}, st' = [st EXCEPT ![c] = s],
         UNCHANGED <<city, waits, whole, up, down, cut, child>>,
         ~waits[c] \/ ~whole[c]
  PROVE  IInv'
<1>1. TypeInv'
  BY DEF IInv, TypeInv
<1>2. ClientInv(c)'
  BY DEF IInv, TypeInv, ClientInv, Quiet, Asked, Answered
<1>3. \A q \in Clients : q # c => st'[q] = st[q]
  BY DEF IInv, TypeInv
<1> QED BY <1>1, <1>2, <1>3, Elsewhere

LEMMA StartsInv == ASSUME IInv, NEW c \in Clients, Starts(c) PROVE IInv'
<1>1. ~waits[c] \/ ~whole[c]
  BY DEF Starts, IInv, ClientInv
<1> QED BY <1>1, MenuInv DEF Starts

LEMMA BackInv == ASSUME IInv, NEW c \in Clients, Back(c) PROVE IInv'
BY MenuInv DEF Back

LEMMA QuitsInv == ASSUME IInv, NEW c \in Clients, Quits(c) PROVE IInv'
BY MenuInv DEF Quits

(***************************************************************************)
(* A request is sent: while answers come whole, nothing else is under way. *)
(***************************************************************************)
LEMMA KickOutInv ==
  ASSUME IInv, NEW c \in Clients, NEW r \in Request, KickOut(c, r),
         city' \in [Clients -> Cities],
         st' \in [Clients -> {"INIT", "WEL", "QUERY", "CUSTOM", "end"}],
         \A q \in Clients : q # c => city'[q] = city[q] /\ st'[q] = st[q],
         st'[c] \in {"WEL", "QUERY", "CUSTOM"}, Suits(c, r)',
         whole[c] /\ st'[c] \in {"QUERY", "CUSTOM"} => city'[c] \in Known,
         UNCHANGED <<whole, down, cut, child>>
  PROVE  IInv'
<1>1. /\ ~waits[c] /\ waits' = [waits EXCEPT ![c] = TRUE]
      /\ up' = [up EXCEPT ![c] = Append(up[c], r)]
      /\ up[c] \in Seq(Request)
  BY DEF KickOut, IInv, TypeInv
<1>2. TypeInv'
  BY <1>1 DEF IInv, TypeInv
<1>3. \A q \in Clients : q # c => waits'[q] = waits[q] /\ up'[q] = up[q]
  BY <1>1 DEF IInv, TypeInv
<1>4. waits'[c] /\ up'[c] = Append(up[c], r)
  BY <1>1 DEF IInv, TypeInv
<1>5. ASSUME whole[c] PROVE Asked(c)'
  <2>1. up[c] = <<>> /\ down[c] = <<>>
    BY <1>1, <1>5 DEF IInv, ClientInv, Quiet, Asked, Answered
  <2>2. Len(up'[c]) = 1 /\ Head(up'[c]) = r
    BY <1>4, <2>1
  <2> QED BY <1>4, <2>1, <2>2 DEF Asked, Suits
<1>6. ClientInv(c)'
  BY <1>5 DEF ClientInv, IInv
<1> QED BY <1>2, <1>3, <1>6, Elsewhere

LEMMA AskCityInv == ASSUME IInv, NEW c \in Clients, AskCity(c) PROVE IInv'
<1>1. PICK x \in Cities :
        /\ city' = [city EXCEPT ![c] = x]
        /\ KickOut(c, [stage |-> 1, option |-> 0, city |-> x, day |-> 0])
  BY DEF AskCity
<1>2. st[c] = "WEL" /\ UNCHANGED <<st, whole, down, cut, child>>
  BY DEF AskCity
<1>3. PICK r \in Request : r.stage = 1 /\ r.city = x /\ KickOut(c, r)
  BY <1>1 DEF Request
<1>4. /\ city' \in [Clients -> Cities] /\ city'[c] = x
      /\ st' \in [Clients -> {"INIT", "WEL", "QUERY", "CUSTOM", "end"}]
      /\ \A q \in Clients : q # c => city'[q] = city[q] /\ st'[q] = st[q]
  BY <1>1, <1>2 DEF IInv, TypeInv
<1>5. Suits(c, r)'
  BY <1>2, <1>3, <1>4 DEF Suits
<1> QED BY <1>2, <1>3, <1>4, <1>5, KickOutInv

LEMMA AskWeatherInv == ASSUME IInv, NEW c \in Clients, AskWeather(c) PROVE IInv'
<1>1. PICK option \in {1, 2} :
        KickOut(c, [stage |-> 2, option |-> option, city |-> city[c],
                    day |-> IF option = 1 THEN 1 ELSE 3])
  BY DEF AskWeather
<1>2. st[c] = "QUERY" /\ UNCHANGED <<st, city, whole, down, cut, child>>
  BY DEF AskWeather
<1>3. PICK r \in Request : r.stage = 2 /\ r.option \in {1, 2} /\ KickOut(c, r)
  <2> DEFINE x == [stage |-> 2, option |-> option, city |-> city[c],
                   day |-> IF option = 1 THEN 1 ELSE 3]
  <2>1. city[c] \in Cities
    BY DEF IInv, TypeInv
  <2>2. x \in Request /\ x.stage = 2 /\ x.option \in {1, 2} /\ KickOut(c, x)
    BY <1>1, <2>1 DEF Request
  <2> QED BY <2>2
<1>4. /\ city' \in [Clients -> Cities]
      /\ st' \in [Clients -> {"INIT", "WEL", "QUERY", "CUSTOM", "end"}]
      /\ whole[c] => city[c] \in Known
  BY <1>2 DEF IInv, TypeInv, ClientInv
<1>5. Suits(c, r)'
  BY <1>2, <1>3 DEF Suits
<1> QED BY <1>2, <1>3, <1>4, <1>5, KickOutInv

LEMMA AskDayInv == ASSUME IInv, NEW c \in Clients, AskDay(c) PROVE IInv'
<1>1. PICK day \in {1, 9} :
        KickOut(c, [stage |-> 2, option |-> 1, city |-> city[c], day |-> day])
  BY DEF AskDay
<1>2. /\ st[c] \in {"QUERY", "CUSTOM"} /\ st' = [st EXCEPT ![c] = "CUSTOM"]
      /\ UNCHANGED <<city, whole, down, cut, child>>
  BY DEF AskDay
<1>3. PICK r \in Request : r.stage = 2 /\ r.option \in {1, 2} /\ KickOut(c, r)
  <2> DEFINE x == [stage |-> 2, option |-> 1, city |-> city[c], day |-> day]
  <2>1. city[c] \in Cities
    BY DEF IInv, TypeInv
  <2>2. x \in Request /\ x.stage = 2 /\ x.option \in {1, 2} /\ KickOut(c, x)
    BY <1>1, <2>1 DEF Request
  <2> QED BY <2>2
<1>4. /\ city' \in [Clients -> Cities] /\ st'[c] = "CUSTOM"
      /\ st' \in [Clients -> {"INIT", "WEL", "QUERY", "CUSTOM", "end"}]
      /\ \A q \in Clients : q # c => st'[q] = st[q]
      /\ whole[c] => city[c] \in Known
  BY <1>2 DEF IInv, TypeInv, ClientInv
<1>5. Suits(c, r)'
  BY <1>3, <1>4 DEF Suits
<1> QED BY <1>2, <1>3, <1>4, <1>5, KickOutInv

-----------------------------------------------------------------------------
(* An answer is read: its first byte is the result, if it comes whole. *)
LEMMA SwallowInInv == ASSUME IInv, NEW c \in Clients, SwallowIn(c) PROVE IInv'
<1>1. PICK n \in {1, 2}, res \in FirstByte(Head(down[c])) :
        /\ n <= Len(down[c])
        /\ st' = [st EXCEPT ![c] = After(c, res)]
        /\ down' = [down EXCEPT ![c] = SubSeq(down[c], n + 1, Len(down[c]))]
        /\ whole' = [whole EXCEPT ![c] = whole[c] /\ n = 2]
  BY DEF SwallowIn
<1>2. /\ waits[c] /\ waits' = [waits EXCEPT ![c] = FALSE]
      /\ UNCHANGED <<city, up, cut, child>> /\ down[c] \in Seq(0..5)
  BY DEF SwallowIn, IInv, TypeInv
<1>3. After(c, res) \in {"INIT", "WEL", "QUERY", "CUSTOM", "end"}
  BY DEF After, IInv, TypeInv
<1>4. SubSeq(down[c], n + 1, Len(down[c])) \in Seq(0..5)
  BY <1>1, <1>2
<1>5. TypeInv'
  BY <1>1, <1>2, <1>3, <1>4 DEF IInv, TypeInv
<1>6. \A q \in Clients : q # c =>
        st'[q] = st[q] /\ waits'[q] = waits[q] /\ whole'[q] = whole[q] /\ down'[q] = down[q]
  BY <1>1, <1>2 DEF IInv, TypeInv
<1>7. /\ st'[c] = After(c, res) /\ ~waits'[c] /\ whole'[c] = (whole[c] /\ n = 2)
      /\ down'[c] = SubSeq(down[c], n + 1, Len(down[c]))
  BY <1>1, <1>2 DEF IInv, TypeInv
<1>8. ASSUME whole'[c]
      PROVE  Quiet(c)' /\ (st'[c] \in {"QUERY", "CUSTOM"} => city[c] \in Known)
  <2>1. whole[c] /\ n = 2
    BY <1>7, <1>8
  <2>2. down[c] # <<>>
    BY DEF SwallowIn
  <2>3. Answered(c) /\ (st[c] \in {"QUERY", "CUSTOM"} => city[c] \in Known)
    BY <1>2, <2>1, <2>2 DEF IInv, ClientInv, Quiet, Asked
  <2>4. PICK r \in 1..4 : /\ down[c] = <<r, RestOf(r)>>
                          /\ st[c] = "WEL" /\ r = 1 => city[c] \in Known
    BY <2>3 DEF Answered
  <2>5. Head(down[c]) = r /\ Len(down[c]) = 2 /\ SubSeq(down[c], 3, 2) = <<>>
    BY <2>4
  <2>6. res = r
    BY <2>5 DEF FirstByte
  <2>7. down'[c] = <<>> /\ up'[c] = <<>>
    BY <1>2, <1>7, <2>1, <2>3, <2>5 DEF Answered
  <2>8. st'[c] \in {"QUERY", "CUSTOM"} => city[c] \in Known
    BY <1>7, <2>3, <2>4, <2>6 DEF After
  <2> QED BY <1>7, <2>7, <2>8 DEF Quiet
<1>9. ClientInv(c)'
  BY <1>2, <1>7, <1>8 DEF ClientInv, IInv
<1> QED BY <1>2, <1>5, <1>6, <1>9, Elsewhere

-----------------------------------------------------------------------------
(* What the server answers, and that it answers what was asked. *)
LEMMA ResultOK ==
  ASSUME NEW r \in Request
  PROVE  /\ Result(r) \in 0..4 /\ RestOf(Result(r)) \in 0..5
         /\ r.stage = 1 => Result(r) # 0 /\ (Result(r) = 1 => r.city \in Known)
         /\ r.stage = 2 /\ r.option \in {1, 2} => Result(r) \in {3, 4}
BY DEF Request, Result, CityVerify, WeatherGen, RestOf

(* Quotients of naturals are naturals. *)
LEMMA DivNat ==
  ASSUME NEW m \in Nat \ {0}, NEW n \in Nat
  PROVE  n \div m \in Nat
<1> DEFINE q == n \div m
           r == n % m
<1>1. q \in Int /\ r \in 0..m - 1 /\ n = m * q + r
  OBVIOUS
<1> HIDE DEF q, r
<1>2. ASSUME q < 0 PROVE FALSE
  <2>1. PICK k \in Nat : q = -1 - k
    <3>1. -1 - q \in Nat
      BY <1>1, <1>2
    <3> QED BY <1>1, <3>1
  <2>2. m * k \in Nat
    OBVIOUS
  <2>3. m * q = - m - m * k
    BY <2>1
  <2> QED BY <1>1, <2>2, <2>3
<1>3. q >= 0
  BY <1>1, <1>2
<1> QED BY <1>1, <1>3 DEF q

(* One request alone is read whole, and nothing of it is left. *)
LEMMA OneRequest ==
  /\ Least(ReqLen * 1, 0 + BufLen) = ReqLen
  /\ ReqLen \div ReqLen = 1 /\ ReqLen % ReqLen = 0
<1>1. ReqLen \in Nat /\ ReqLen > 1 /\ BufLen \in Nat /\ BufLen >= ReqLen
  BY WeatherConstants
<1>2. Least(ReqLen * 1, 0 + BufLen) = ReqLen
  BY <1>1 DEF Least
<1>3. ReqLen \div ReqLen = 1 /\ ReqLen % ReqLen = 0
  BY <1>1
<1> QED BY <1>2, <1>3

(* A read, and the answer to it. *)
LEMMA ServeStep ==
  ASSUME IInv, NEW c \in Clients, Serve(c)
  PROVE  \E n \in Nat, res \in 0..4 :
           LET read == Least(ReqLen * n, cut[c] + BufLen)
           IN  /\ n >= 1 /\ n <= Len(up[c]) /\ res \in Results(c)
               /\ up' = [up EXCEPT ![c] =
                           SubSeq(up[c], read \div ReqLen + 1, Len(up[c]))]
               /\ cut' = [cut EXCEPT ![c] = read % ReqLen]
               /\ down' = IF res = 0 THEN down
                          ELSE [down EXCEPT ![c] = down[c] \o <<res, RestOf(res)>>]
<1>1. PICK n \in 1..Len(up[c]) :
        LET read == Least(ReqLen * n, cut[c] + BufLen)
        IN  /\ up' = [up EXCEPT ![c] =
                        SubSeq(up[c], read \div ReqLen + 1, Len(up[c]))]
            /\ cut' = [cut EXCEPT ![c] = read % ReqLen]
  BY DEF Serve
<1>2. PICK res \in Results(c) :
        down' = IF res = 0 THEN down
                ELSE [down EXCEPT ![c] = down[c] \o <<res, RestOf(res)>>]
  BY DEF Serve
<1>3. up[c] \in Seq(Request) /\ up[c] # <<>>
  BY DEF Serve, IInv, TypeInv
<1>4. n \in Nat /\ n >= 1 /\ n <= Len(up[c])
  BY <1>1, <1>3
<1>5. Result(Head(up[c])) \in 0..4
  <2>1. Head(up[c]) \in Request
    BY <1>3
  <2> QED BY <2>1, ResultOK
<1>6. res \in 0..4
  BY <1>2, <1>5 DEF Results
<1> QED BY <1>1, <1>2, <1>4, <1>6

LEMMA ServeInv == ASSUME IInv, NEW c \in Clients, Serve(c) PROVE IInv'
<1>1. PICK n \in Nat, res \in 0..4 :
        LET read == Least(ReqLen * n, cut[c] + BufLen)
        IN  /\ n >= 1 /\ n <= Len(up[c]) /\ res \in Results(c)
            /\ up' = [up EXCEPT ![c] =
                        SubSeq(up[c], read \div ReqLen + 1, Len(up[c]))]
            /\ cut' = [cut EXCEPT ![c] = read % ReqLen]
            /\ down' = IF res = 0 THEN down
                       ELSE [down EXCEPT ![c] = down[c] \o <<res, RestOf(res)>>]
  BY ServeStep
<1> DEFINE read == Least(ReqLen * n, cut[c] + BufLen)
<1>2. /\ up' = [up EXCEPT ![c] = SubSeq(up[c], read \div ReqLen + 1, Len(up[c]))]
      /\ cut' = [cut EXCEPT ![c] = read % ReqLen]
      /\ down' = IF res = 0 THEN down
                 ELSE [down EXCEPT ![c] = down[c] \o <<res, RestOf(res)>>]
  BY <1>1
<1>3. up[c] # <<>> /\ UNCHANGED <<st, city, waits, whole, child>>
  BY DEF Serve, clientVars
<1>4. /\ up \in [Clients -> Seq(Request)] /\ down \in [Clients -> Seq(0..5)]
      /\ up[c] \in Seq(Request) /\ down[c] \in Seq(0..5)
      /\ cut \in [Clients -> 0..ReqLen - 1] /\ cut[c] \in 0..ReqLen - 1
      /\ ReqLen \in Nat /\ ReqLen > 1 /\ BufLen \in Nat
  BY WeatherConstants DEF IInv, TypeInv
<1>5. read \in Nat
  BY <1>4 DEF Least
<1>6. read % ReqLen \in 0..ReqLen - 1 /\ read \div ReqLen \in Nat
  <2> HIDE DEF read
  <2>1. read % ReqLen \in 0..ReqLen - 1
    BY <1>4, <1>5
  <2>2. ReqLen \in Nat \ {0}
    BY <1>4
  <2>3. read \div ReqLen \in Nat
    BY <1>5, <2>2, DivNat
  <2> QED BY <2>1, <2>3
<1> HIDE DEF read
<1>7. up' \in [Clients -> Seq(Request)]
  <2>1. SubSeq(up[c], read \div ReqLen + 1, Len(up[c])) \in Seq(Request)
    BY <1>4, <1>6
  <2> QED BY <1>2, <1>4, <2>1
<1>8. down' \in [Clients -> Seq(0..5)]
  <2>1. res \in 0..5 /\ RestOf(res) \in 0..5
    BY DEF RestOf
  <2>2. <<res, RestOf(res)>> \in Seq(0..5)
    BY <2>1
  <2>3. down[c] \o <<res, RestOf(res)>> \in Seq(0..5)
    BY <1>4, <2>2
  <2> QED BY <1>2, <1>4, <2>3
<1>9. cut' \in [Clients -> 0..ReqLen - 1]
  BY <1>2, <1>4, <1>6
<1>10. TypeInv'
  BY <1>3, <1>7, <1>8, <1>9 DEF IInv, TypeInv
<1>11. \A q \in Clients : q # c =>
         up'[q] = up[q] /\ down'[q] = down[q] /\ cut'[q] = cut[q]
  BY <1>2, <1>4
<1>12. ASSUME whole[c] PROVE Answered(c)' /\ cut'[c] = 0
  <2>1. Asked(c) /\ cut[c] = 0
    BY <1>3, <1>12 DEF IInv, ClientInv, Quiet, Answered
  <2>2. /\ waits[c] /\ Len(up[c]) = 1 /\ down[c] = <<>> /\ Suits(c, Head(up[c]))
    BY <2>1 DEF Asked
  <2>3. n = 1
    BY <1>1, <2>2
  <2>4. read = ReqLen
    BY <2>1, <2>3, OneRequest DEF read
  <2>5. read \div ReqLen = 1 /\ read % ReqLen = 0
    BY <2>4, OneRequest
  <2>6. up'[c] = <<>> /\ cut'[c] = 0
    <3>1. up'[c] = SubSeq(up[c], 2, 1) /\ cut'[c] = 0
      BY <1>2, <1>4, <2>2, <2>5
    <3> QED BY <1>4, <3>1
  <2>7. res = Result(Head(up[c])) /\ Head(up[c]) \in Request
    BY <1>1, <1>3, <1>4, <2>1 DEF Results
  <2>8. res \in 1..4 /\ (st[c] = "WEL" /\ res = 1 => city[c] \in Known)
    BY <2>2, <2>7, ResultOK DEF Suits
  <2>9. <<>> \o <<res, RestOf(res)>> = <<res, RestOf(res)>>
    OBVIOUS
  <2>10. down'[c] = <<res, RestOf(res)>>
    BY <1>2, <1>4, <2>2, <2>8, <2>9
  <2> QED BY <1>3, <2>2, <2>6, <2>8, <2>10 DEF Answered
<1>13. ClientInv(c)'
  BY <1>3, <1>12 DEF IInv, ClientInv
<1> QED BY <1>3, <1>10, <1>11, <1>13, Elsewhere

LEMMA ChildInv ==
  ASSUME IInv, NEW c \in Clients, Forks(c) \/ ChildEnds(c)
  PROVE  IInv'
<1>1. /\ UNCHANGED <<st, city, waits, whole, up, down, cut>>
      /\ child' \in [Clients -> {"none", "serves", "gone"}]
  BY DEF Forks, ChildEnds, clientVars, IInv, TypeInv
<1>2. TypeInv' /\ ClientInv(c)'
  BY <1>1 DEF IInv, TypeInv, ClientInv, Quiet, Asked, Answered, Suits
<1> QED BY <1>1, <1>2, Elsewhere

LEMMA NextInv == IInv /\ [Next]_vars => IInv'
<1> SUFFICES ASSUME IInv, [Next]_vars PROVE IInv'
  OBVIOUS
<1>1. ASSUME NEW c \in Clients,
             \/ Starts(c) \/ AskCity(c) \/ AskWeather(c) \/ AskDay(c) \/ SwallowIn(c)
             \/ Back(c) \/ Quits(c) \/ Forks(c) \/ Serve(c) \/ ChildEnds(c)
      PROVE  IInv'
  BY <1>1, StartsInv, AskCityInv, AskWeatherInv, AskDayInv, SwallowInInv, BackInv,
     QuitsInv, ChildInv, ServeInv
<1>2. CASE UNCHANGED vars
  BY <1>2 DEF vars, clientVars, IInv, TypeInv, ClientInv, Quiet, Asked, Answered, Suits
<1> QED BY <1>1, <1>2 DEF Next

(* The invariant, and with it the types, of every client's connection. *)
THEOREM Inductive == Spec => []IInv
<1> QED BY InitInv, NextInv, PTL DEF Spec

(***************************************************************************)
(* Whatever the users type, as long as a client has only read whole        *)
(* answers it has exactly one request or answer under way while it waits,  *)
(* and none else; no request of it was ever cut by the server's buffer;    *)
(* and it is among the forecasts for a known city only.  Nothing is said   *)
(* of a client after its first short read.                                 *)
(***************************************************************************)
THEOREM ClientsInStep == Spec => []InStep
<1>1. IInv => InStep
  <2> SUFFICES ASSUME IInv, NEW c \in Clients, whole[c]
               PROVE  /\ 2 * Len(up[c]) + Len(down[c]) = IF waits[c] THEN 2 ELSE 0
                      /\ cut[c] = 0
                      /\ st[c] \in {"QUERY", "CUSTOM"} => city[c] \in Known
    BY DEF InStep
  <2>1. /\ Quiet(c) \/ Asked(c) \/ Answered(c)
        /\ cut[c] = 0
        /\ st[c] \in {"QUERY", "CUSTOM"} => city[c] \in Known
    BY DEF IInv, ClientInv
  <2>2. CASE Quiet(c)
    BY <2>1, <2>2 DEF Quiet
  <2>3. CASE Asked(c)
    BY <2>1, <2>3 DEF Asked
  <2>4. CASE Answered(c)
    <3>1. Len(up[c]) = 0 /\ Len(down[c]) = 2 /\ waits[c]
      BY <2>4 DEF Answered
    <3> QED BY <2>1, <3>1
  <2> QED BY <2>1, <2>2, <2>3, <2>4
<1> QED BY <1>1, Inductive, PTL
=============================================================================
