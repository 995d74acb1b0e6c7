--------------------------- MODULE Overlay_proofs ---------------------------
(***************************************************************************)
(* Proofs about the overlay network of lab7, for every topology, every     *)
(* number of SIP processes, of updates and of signals: the assertion of    *)
(* waitNbrs never fails, a SON that has come up has a connection with each *)
(* of its neighbours, and the updates of a neighbour arrive in order.      *)
(***************************************************************************)
EXTENDS Overlay, FiniteSetTheorems, TLAPS

-----------------------------------------------------------------------------
(* The neighbour table *)

(* Numbering the members of a finite set of naturals from the smallest one. *)
Rank(S, k) == Cardinality({l \in S : l <= k})

LEMMA RankIsANumbering ==
  ASSUME NEW S \in SUBSET Nat, IsFiniteSet(S)
  PROVE  /\ Cardinality(S) \in Nat
         /\ \A k \in S : Rank(S, k) \in 1..Cardinality(S)
         /\ \A k, l \in S : Rank(S, k) = Rank(S, l) => k = l
         /\ \A i \in 1..Cardinality(S) : \E k \in S : Rank(S, k) = i
<1> DEFINE upTo(k) == {l \in S : l <= k}
           f == [k \in S |-> Rank(S, k)]
<1>1. Cardinality(S) \in Nat
  BY FS_CardinalityType
<1>2. ASSUME NEW k \in S PROVE Rank(S, k) \in 1..Cardinality(S)
  <2>1. upTo(k) \in SUBSET S /\ k \in upTo(k)
    OBVIOUS
  <2>2. /\ IsFiniteSet(upTo(k)) /\ Cardinality(upTo(k)) \in Nat
        /\ Cardinality(upTo(k)) <= Cardinality(S)
    BY <2>1, FS_Subset, FS_CardinalityType
  <2>3. Cardinality(upTo(k)) # 0
    BY <2>1, <2>2, FS_EmptySet
  <2> QED BY <1>1, <2>2, <2>3 DEF Rank
<1>3. ASSUME NEW k \in S, NEW l \in S, k < l PROVE Rank(S, k) < Rank(S, l)
  <2>1. upTo(l) \in SUBSET S /\ upTo(k) \in SUBSET upTo(l)
    <3>1. \A x \in S : x <= k => x <= l
      BY <1>3
    <3> QED BY <3>1
  <2>2. l \in upTo(l) /\ l \notin upTo(k)
    BY <1>3
  <2>3. /\ IsFiniteSet(upTo(l))
        /\ Cardinality(upTo(k)) <= Cardinality(upTo(l))
        /\ Cardinality(upTo(l)) = Cardinality(upTo(k)) => upTo(l) = upTo(k)
    BY <2>1, FS_Subset
  <2>4. Cardinality(upTo(k)) # Cardinality(upTo(l))
    BY <2>2, <2>3
  <2>5. Rank(S, k) <= Rank(S, l) /\ Rank(S, k) # Rank(S, l)
    BY <2>3, <2>4 DEF Rank
  <2> QED BY <1>2, <2>5
<1>4. ASSUME NEW k \in S, NEW l \in S, Rank(S, k) = Rank(S, l) PROVE k = l
  <2>1. Rank(S, k) \in Nat /\ k \in Nat /\ l \in Nat
    BY <1>2
  <2>2. ~(k < l) /\ ~(l < k)
    BY <1>3, <1>4, <2>1
  <2> QED BY <2>1, <2>2
<1>5. f \in Injection(S, 1..Cardinality(S))
  BY <1>2, <1>4 DEF Injection, IsInjective
<1>6. IsFiniteSet(1..Cardinality(S)) /\ Cardinality(1..Cardinality(S)) = Cardinality(S)
  BY <1>1, FS_Interval
<1>7. f \in Surjection(S, 1..Cardinality(S))
  BY <1>5, <1>6, FS_Injection
<1>8. ASSUME NEW i \in 1..Cardinality(S) PROVE \E k \in S : Rank(S, k) = i
  BY <1>7 DEF Surjection
<1> QED BY <1>1, <1>2, <1>4, <1>8

(* The lines of the file that name a host. *)
LEMMA MineIsFinite ==
  ASSUME NEW n
  PROVE  Mine(n) \in SUBSET Nat /\ IsFiniteSet(Mine(n))
<1>1. DOMAIN Topology = 1..Len(Topology) /\ Len(Topology) \in Nat
  BY OverlayConstants
<1>2. IsFiniteSet(1..Len(Topology))
  BY <1>1, FS_Interval
<1>3. Mine(n) \in SUBSET (1..Len(Topology))
  BY <1>1 DEF Mine
<1> QED BY <1>1, <1>2, <1>3, FS_Subset

LEMMA LineIsANumbering ==
  ASSUME NEW n
  PROVE  /\ Cardinality(Mine(n)) \in Nat
         /\ \A i \in 1..Cardinality(Mine(n)) : Line(n, i) \in Mine(n)
         /\ \A i, j \in 1..Cardinality(Mine(n)) : Line(n, i) = Line(n, j) => i = j
         /\ \A k \in Mine(n) : \E i \in 1..Cardinality(Mine(n)) : Line(n, i) = k
<1>1. Mine(n) \in SUBSET Nat /\ IsFiniteSet(Mine(n))
  BY MineIsFinite
<1> DEFINE S == Mine(n)
<1>2. /\ Cardinality(S) \in Nat
      /\ \A k \in S : Rank(S, k) \in 1..Cardinality(S)
      /\ \A k, l \in S : Rank(S, k) = Rank(S, l) => k = l
      /\ \A i \in 1..Cardinality(S) : \E k \in S : Rank(S, k) = i
  BY <1>1, RankIsANumbering
<1>3. \A i : Line(n, i) = CHOOSE k \in S : Rank(S, k) = i
  BY DEF Line, Rank
<1>4. \A i \in 1..Cardinality(S) : Line(n, i) \in S /\ Rank(S, Line(n, i)) = i
  <2> HIDE DEF S
  <2> QED BY <1>2, <1>3
<1>5. \A k \in S : Line(n, Rank(S, k)) = k
  <2> HIDE DEF S
  <2> QED BY <1>2, <1>4
<1> QED BY <1>2, <1>4, <1>5

(* The other node of a line. *)
LEMMA OtherNode ==
  ASSUME NEW n, NEW k \in Mine(n)
  PROVE  /\ k \in DOMAIN Topology
         /\ Other(n, k) \in Nodes /\ Other(n, k) # n
         /\ {Topology[k][1], Topology[k][2]} = {n, Other(n, k)}
         /\ k \in Mine(Other(n, k)) /\ Other(Other(n, k), k) = n
<1>1. k \in DOMAIN Topology /\ n \in {Topology[k][1], Topology[k][2]}
  BY DEF Mine
<1>2. Topology[k][1] # Topology[k][2]
  BY <1>1, OverlayConstants
<1>3. Topology[k][1] \in Nodes /\ Topology[k][2] \in Nodes
  BY <1>1 DEF Nodes
<1> QED BY <1>1, <1>2, <1>3 DEF Mine, Other

LEMMA NodesAreNaturals == Nodes \in SUBSET Nat
<1> SUFFICES ASSUME NEW n \in Nodes PROVE n \in Nat
  OBVIOUS
<1>1. PICK k \in DOMAIN Topology : n \in {Topology[k][1], Topology[k][2]}
  BY DEF Nodes
<1>2. Topology[k] \in Nat \X Nat
  BY OverlayConstants
<1> QED BY <1>1, <1>2

(* nt_create: the table has an entry for each neighbour and only one; a    *)
(* node is in the tables of those that are in its table.                   *)
LEMMA NeighbourTable ==
  ASSUME NEW n \in Nodes
  PROVE  /\ Len(gnt[n]) \in Nat /\ DOMAIN gnt[n] = 1..Len(gnt[n])
         /\ \A i \in 1..Len(gnt[n]) : gnt[n][i] \in Nbrs(n)
         /\ \A i, j \in 1..Len(gnt[n]) : gnt[n][i] = gnt[n][j] => i = j
         /\ \A m \in Nbrs(n) : /\ m \in Nodes /\ m # n /\ n \in Nbrs(m)
                               /\ \E i \in 1..Len(gnt[n]) : gnt[n][i] = m
<1> DEFINE N(p) == Cardinality(Mine(p))
<1>1. ASSUME NEW p \in Nodes
      PROVE  /\ gnt[p] = [i \in 1..N(p) |-> Other(p, Line(p, i))]
             /\ Len(gnt[p]) = N(p) /\ N(p) \in Nat
             /\ \A m : m \in Nbrs(p) <=> \E k \in Mine(p) : m = Other(p, k)
  <2>1. gnt[p] = [i \in 1..N(p) |-> Other(p, Line(p, i))]
    BY DEF gnt
  <2>2. N(p) \in Nat
    BY LineIsANumbering
  <2>3. Len(gnt[p]) = N(p)
    <3> HIDE DEF N
    <3> QED BY <2>1, <2>2
  <2>4. Nbrs(p) = {Other(p, Line(p, i)) : i \in 1..N(p)}
    BY <2>1 DEF Nbrs
  <2>5. \A m : m \in Nbrs(p) <=> \E k \in Mine(p) : m = Other(p, k)
    BY <2>4, LineIsANumbering
  <2> QED BY <2>1, <2>2, <2>3, <2>5
<1>2. ASSUME NEW i \in 1..Len(gnt[n]), NEW j \in 1..Len(gnt[n]), gnt[n][i] = gnt[n][j]
      PROVE  i = j
  <2>1. Line(n, i) \in Mine(n) /\ Line(n, j) \in Mine(n)
    BY <1>1, LineIsANumbering
  <2>2. Other(n, Line(n, i)) = Other(n, Line(n, j))
    <3>1. i \in 1..N(n) /\ j \in 1..N(n)
      BY <1>1
    <3>2. \A x \in 1..N(n) : gnt[n][x] = Other(n, Line(n, x))
      BY <1>1
    <3> HIDE DEF N
    <3> QED BY <1>2, <3>1, <3>2
  <2>3. Line(n, i) = Line(n, j)
    <3>1. PICK k \in Mine(n) : k = Line(n, i)
      BY <2>1
    <3>2. PICK l \in Mine(n) : l = Line(n, j)
      BY <2>1
    <3>3. /\ k \in DOMAIN Topology /\ l \in DOMAIN Topology
          /\ {Topology[k][1], Topology[k][2]} = {n, Other(n, k)}
          /\ {Topology[l][1], Topology[l][2]} = {n, Other(n, l)}
      BY OtherNode
    <3>4. {Topology[k][1], Topology[k][2]} = {Topology[l][1], Topology[l][2]}
      BY <2>2, <3>1, <3>2, <3>3
    <3>5. k = l
      BY <3>3, <3>4, OverlayConstants
    <3> QED BY <3>1, <3>2, <3>5
  <2> QED BY <1>1, <2>3, LineIsANumbering
<1>3. ASSUME NEW m \in Nbrs(n) PROVE m \in Nodes /\ m # n /\ n \in Nbrs(m)
  <2>1. PICK k \in Mine(n) : m = Other(n, k)
    BY <1>1
  <2>2. m \in Nodes /\ m # n /\ k \in Mine(m) /\ n = Other(m, k)
    BY <2>1, OtherNode
  <2> QED BY <1>1, <2>2
<1>4. DOMAIN gnt[n] = 1..Len(gnt[n])
  BY <1>1
<1> QED BY <1>1, <1>2, <1>3, <1>4 DEF Nbrs

-----------------------------------------------------------------------------
(* The invariant *)

TypeInv ==
  /\ son \in [Nodes -> {"off", "delay", "connect", "join", "up", "stopping", "dead"}]
  /\ at \in [Nodes -> Nat]
  /\ \A n \in Nodes : son[n] \in {"connect", "stopping"} => at[n] # 0
  /\ listening \in [Nodes -> BOOLEAN] /\ live \in [Nodes -> BOOLEAN]
  /\ backlog \in [Nodes -> Seq(Nodes)]
  /\ DOMAIN conn = Nodes
  /\ \A n \in Nodes : conn[n] \in [Nbrs(n) -> {"none", "open", "closed"}]

Linked(n, m) == conn[n][m] # "none"

(* connectNbrs has not come to these entries. *)
Untried(n) ==
  \A i \in 1..Len(gnt[n]) :
    gnt[n][i] < n /\ \/ son[n] \in {"off", "delay"}
                     \/ son[n] = "connect" /\ at[n] <= i
      => ~Linked(n, gnt[n][i])

(* A greater neighbour is queued once, after its connect(), until accept(). *)
Queued(n) ==
  /\ \A k \in 1..Len(backlog[n]) :
       /\ backlog[n][k] \in Greater(n)
       /\ ~Linked(n, backlog[n][k]) /\ Linked(backlog[n][k], n)
  /\ \A k, l \in 1..Len(backlog[n]) : backlog[n][k] = backlog[n][l] => k = l

(* It connected first. *)
Accepted(n) == \A m \in Greater(n) : Linked(n, m) => Linked(m, n)

(* A process ends only after waitNbrs: nt_destroy waits at an entry -1. *)
Ended(n) ==
  /\ listening[n] => son[n] # "off"
  /\ son[n] \in {"up", "dead"} \/ live[n] => \A m \in Greater(n) : Linked(n, m)
  /\ son[n] = "stopping" =>
       \A i \in 1..Len(gnt[n]) : i < at[n] => Linked(n, gnt[n][i])

(* With all started in time, connectNbrs finds everybody listening. *)
Reached(n) ==
  StartInTime =>
    \A i \in 1..Len(gnt[n]) : gnt[n][i] < n =>
      /\ son[n] = "connect" => listening[gnt[n][i]]
      /\ son[n] = "connect" /\ i < at[n] => Linked(n, gnt[n][i])
      /\ son[n] \in {"join", "up"} => Linked(n, gnt[n][i])

NodeInv(n) == Untried(n) /\ Queued(n) /\ Accepted(n) /\ Ended(n) /\ Reached(n)

IInv == TypeInv /\ \A n \in Nodes : NodeInv(n)

LEMMA InitInv == Init => IInv
<1> SUFFICES ASSUME Init PROVE IInv
  OBVIOUS
<1>1. TypeInv
  BY DEF Init, TypeInv
<1>2. ASSUME NEW n \in Nodes PROVE NodeInv(n)
  <2>1. \A m \in Nbrs(n) : ~Linked(n, m)
    BY DEF Init, Linked
  <2>2. Untried(n)
    BY <2>1, NeighbourTable DEF Untried
  <2>3. Queued(n) /\ Accepted(n) /\ Ended(n) /\ Reached(n)
    BY <2>1 DEF Init, Queued, Accepted, Ended, Reached, Greater
  <2> QED BY <2>2, <2>3 DEF NodeInv
<1> QED BY <1>1, <1>2 DEF IInv

(* No step sets an entry back to -1. *)
LEMMA EntrySet ==
  ASSUME TypeInv, NEW n \in Nodes, NEW m \in Nbrs(n), NEW v \in {"open", "closed"},
         conn' = [conn EXCEPT ![n][m] = v]
  PROVE  /\ DOMAIN conn' = Nodes
         /\ \A p \in Nodes : conn'[p] \in [Nbrs(p) -> {"none", "open", "closed"}]
         /\ \A p \in Nodes : \A q \in Nbrs(p) :
              Linked(p, q)' <=> Linked(p, q) \/ (p = n /\ q = m)
<1>1. conn' = [conn EXCEPT ![n] = [conn[n] EXCEPT ![m] = v]]
  BY DEF TypeInv
<1>2. /\ DOMAIN conn' = Nodes /\ conn'[n] = [conn[n] EXCEPT ![m] = v]
      /\ \A p \in Nodes : p # n => conn'[p] = conn[p]
  BY <1>1 DEF TypeInv
<1>3. conn'[n] \in [Nbrs(n) -> {"none", "open", "closed"}]
  BY <1>2 DEF TypeInv
<1>4. ASSUME NEW q \in Nbrs(n)
      PROVE  conn'[n][q] = IF q = m THEN v ELSE conn[n][q]
  BY <1>2 DEF TypeInv
<1> QED BY <1>2, <1>3, <1>4 DEF TypeInv, Linked

(* A node whose own state has not changed. *)
LEMMA Elsewhere ==
  ASSUME NEW p \in Nodes, NodeInv(p),
         son'[p] = son[p], at'[p] = at[p], listening'[p] = listening[p],
         live'[p] = live[p], backlog'[p] = backlog[p],
         \A q \in Nbrs(p) : Linked(p, q)' <=> Linked(p, q),
         \A q \in Nbrs(p) : Linked(q, p) => Linked(q, p)',
         \A q \in Nbrs(p) : listening[q] => listening'[q]
  PROVE  NodeInv(p)'
<1>1. \A i \in 1..Len(gnt[p]) : gnt[p][i] \in Nbrs(p)
  BY NeighbourTable
<1>2. Untried(p)'
  BY <1>1 DEF NodeInv, Untried
<1>3. Queued(p)'
  BY DEF NodeInv, Queued, Greater
<1>4. Accepted(p)' /\ Ended(p)'
  BY <1>1 DEF NodeInv, Accepted, Ended, Greater
<1>5. Reached(p)'
  BY <1>1 DEF NodeInv, Reached
<1> QED BY <1>2, <1>3, <1>4, <1>5 DEF NodeInv

(* Steps of one SON that leave the entries and the queues alone. *)
LEMMA OwnStep ==
  ASSUME IInv, NEW n \in Nodes, TypeInv', NodeInv(n)', UNCHANGED <<backlog, conn>>,
         \A p \in Nodes : p # n => /\ son'[p] = son[p] /\ at'[p] = at[p]
                                   /\ listening'[p] = listening[p] /\ live'[p] = live[p],
         listening[n] => listening'[n]
  PROVE  IInv'
<1>1. ASSUME NEW p \in Nodes, p # n PROVE NodeInv(p)'
  <2>1. \A q, r : Linked(q, r)' <=> Linked(q, r)
    BY DEF Linked
  <2>2. \A q \in Nbrs(p) : listening[q] => listening'[q]
    BY NeighbourTable
  <2> QED BY <1>1, <2>1, <2>2, Elsewhere DEF IInv
<1> QED BY <1>1 DEF IInv

LEMMA SonStartInv ==
  ASSUME IInv, NEW n \in Nodes, SonStart(n) PROVE IInv'
<1> USE DEF SonStart
<1>1. TypeInv'
  BY DEF IInv, TypeInv
<1>2. son[n] = "off" /\ son'[n] = "delay" /\ UNCHANGED <<at, listening, backlog, conn, live>>
  BY DEF IInv, TypeInv
<1>3. NodeInv(n)
  BY DEF IInv
<1>4. NodeInv(n)'
  BY <1>2, <1>3 DEF NodeInv, Untried, Queued, Accepted, Ended, Reached, Linked
<1> QED BY <1>1, <1>2, <1>4, OwnStep DEF IInv, TypeInv

LEMMA ListenInv ==
  ASSUME IInv, NEW n \in Nodes, Listen(n) PROVE IInv'
<1> USE DEF Listen
<1>1. TypeInv'
  BY DEF IInv, TypeInv
<1>2. /\ son[n] # "off" /\ UNCHANGED <<son, at, backlog, conn, live>>
      /\ \A p \in Nodes : p # n => listening'[p] = listening[p]
  BY DEF IInv, TypeInv, Running
<1>3. NodeInv(n)
  BY DEF IInv
<1>4. \A i \in 1..Len(gnt[n]) : gnt[n][i] \in Nodes /\ gnt[n][i] # n
  BY NeighbourTable
<1>5. NodeInv(n)'
  BY <1>2, <1>3, <1>4 DEF NodeInv, Untried, Queued, Accepted, Ended, Reached, Linked
<1> QED BY <1>1, <1>2, <1>5, OwnStep

(* Who is dead has accepted all, so who has not connected is awaited. *)
LEMMA DelayOverInv ==
  ASSUME IInv, NEW n \in Nodes, DelayOver(n) PROVE IInv'
<1> USE DEF DelayOver
<1>1. TypeInv'
  BY DEF IInv, TypeInv
<1>2. /\ son[n] = "delay" /\ son'[n] = "connect" /\ at'[n] = 1
      /\ UNCHANGED <<listening, backlog, conn, live>>
      /\ \A p \in Nodes : p # n => son'[p] = son[p] /\ at'[p] = at[p]
  BY DEF IInv, TypeInv
<1>3. NodeInv(n)
  BY DEF IInv
<1>4. Untried(n)' /\ Queued(n)' /\ Accepted(n)' /\ Ended(n)'
  BY <1>2, <1>3 DEF NodeInv, Untried, Queued, Accepted, Ended, Linked
<1>5. Reached(n)'
  <2>1. ASSUME StartInTime, NEW i \in 1..Len(gnt[n]), gnt[n][i] < n
        PROVE  listening[gnt[n][i]]
    <3> DEFINE m == gnt[n][i]
    <3>1. m \in Nodes /\ n \in Nbrs(m) /\ m \in Nat /\ n \in Nat
      BY NeighbourTable, NodesAreNaturals
    <3>2. n \in Greater(m)
      BY <2>1, <3>1 DEF Greater
    <3>3. ~Linked(n, m)
      BY <1>2, <1>3, <2>1 DEF NodeInv, Untried
    <3>4. son[m] # "dead"
      BY <3>1, <3>2, <3>3 DEF IInv, NodeInv, Accepted, Ended
    <3> QED BY <2>1, <3>1, <3>4
  <2> QED BY <1>2, <2>1 DEF Reached
<1> QED BY <1>1, <1>2, <1>4, <1>5, OwnStep DEF NodeInv

(* The loop of connectNbrs *)
LEMMA LeastNumber ==
  ASSUME NEW S \in SUBSET Nat, S # {}
  PROVE  \E i \in S : \A j \in S : i <= j
<1> DEFINE R == {p \in Nat \X Nat : p[1] < p[2]}
<1>1. IsWellFoundedOn(R, Nat)
  BY NatLessThanWellFounded DEF OpToRel
<1>2. PICK i \in S : \A j \in S : ~(<<j, i>> \in R)
  <2>1. S \subseteq Nat
    OBVIOUS
  <2> HIDE DEF R
  <2> QED BY <1>1, <2>1, WFMin
<1>3. ASSUME NEW j \in S PROVE i <= j
  <2>1. i \in Nat /\ j \in Nat
    OBVIOUS
  <2>2. j < i => <<j, i>> \in R
    BY <2>1
  <2> QED BY <1>2, <2>1, <2>2
<1> QED BY <1>3

LEMMA TurnOrNone ==
  ASSUME TypeInv, NEW n \in Nodes, at[n] # 0
  PROVE  /\ \A i \in Turn(n) :
              /\ i \in 1..Len(gnt[n]) /\ at[n] <= i /\ gnt[n][i] < n
              /\ \A j \in Nat : at[n] <= j /\ j < i => ~(gnt[n][j] < n)
         /\ Turn(n) = {} => \A j \in at[n]..Len(gnt[n]) : ~(gnt[n][j] < n)
<1>1. at[n] \in Nat /\ Len(gnt[n]) \in Nat
  BY NeighbourTable DEF TypeInv
<1> DEFINE S == {j \in at[n]..Len(gnt[n]) : gnt[n][j] < n}
<1>2. S # {} => Turn(n) # {}
  <2> SUFFICES ASSUME S # {} PROVE Turn(n) # {}
    OBVIOUS
  <2>1. S \in SUBSET Nat
    BY <1>1
  <2>2. PICK i \in S : \A j \in S : i <= j
    BY <2>1, LeastNumber
  <2>3. \A j \in at[n]..(i - 1) : ~(gnt[n][j] < n)
    <3> SUFFICES ASSUME NEW j \in at[n]..(i - 1), gnt[n][j] < n PROVE FALSE
      OBVIOUS
    <3>1. i \in Nat /\ j \in Nat /\ i <= Len(gnt[n]) /\ j < i /\ at[n] <= j
      BY <1>1
    <3>2. j \in S
      BY <1>1, <3>1
    <3> QED BY <2>2, <3>1, <3>2
  <2> QED BY <2>2, <2>3 DEF Turn
<1>3. ASSUME NEW i \in Turn(n), NEW j \in Nat, at[n] <= j, j < i
      PROVE  ~(gnt[n][j] < n)
  <2>1. i \in Nat
    BY <1>1 DEF Turn
  <2>2. j \in at[n]..(i - 1)
    BY <1>1, <1>3, <2>1
  <2> QED BY <2>2 DEF Turn
<1>4. ASSUME NEW i \in Turn(n)
      PROVE  i \in 1..Len(gnt[n]) /\ at[n] <= i /\ gnt[n][i] < n
  <2>1. i \in at[n]..Len(gnt[n]) /\ gnt[n][i] < n
    BY DEF Turn
  <2> QED BY <1>1, <2>1
<1>5. ASSUME Turn(n) = {}, NEW j \in at[n]..Len(gnt[n]) PROVE ~(gnt[n][j] < n)
  <2>1. j \notin S
    BY <1>2, <1>5
  <2> QED BY <2>1
<1> QED BY <1>3, <1>4, <1>5

LEMMA ConnectEndInv ==
  ASSUME IInv, NEW n \in Nodes, ConnectEnd(n) PROVE IInv'
<1> USE DEF ConnectEnd
<1>1. TypeInv'
  BY DEF IInv, TypeInv
<1>2. /\ son[n] = "connect" /\ son'[n] = "join" /\ at[n] # 0
      /\ UNCHANGED <<listening, backlog, conn, live>>
      /\ \A p \in Nodes : p # n => son'[p] = son[p] /\ at'[p] = at[p]
  BY DEF IInv, TypeInv
<1>3. NodeInv(n)
  BY DEF IInv
<1>4. Untried(n)' /\ Queued(n)' /\ Accepted(n)' /\ Ended(n)'
  BY <1>2, <1>3 DEF NodeInv, Untried, Queued, Accepted, Ended, Linked
<1>5. Reached(n)'
  <2> SUFFICES ASSUME StartInTime PROVE Reached(n)'
    BY DEF Reached
  <2>1. Turn(n) = {}
    <3> SUFFICES ASSUME NEW i \in Turn(n) PROVE FALSE
      OBVIOUS
    <3> DEFINE m == gnt[n][i]
    <3>1. i \in 1..Len(gnt[n]) /\ at[n] <= i /\ m < n
      BY <1>2, TurnOrNone DEF IInv
    <3>2. m \in Nodes /\ n \in Nbrs(m)
      BY <3>1, NeighbourTable
    <3>3. n \in Greater(m)
      BY <3>1, <3>2, NodesAreNaturals DEF Greater
    <3>4. ~Linked(n, m)
      BY <1>2, <1>3, <3>1 DEF NodeInv, Untried
    <3>5. son[m] # "dead"
      BY <3>2, <3>3, <3>4 DEF IInv, NodeInv, Accepted, Ended
    <3>6. listening[m] /\ son[m] # "off"
      BY <1>2, <1>3, <3>1, <3>2 DEF IInv, NodeInv, Ended, Reached
    <3>7. AtPort(m)
      BY <3>5, <3>6 DEF AtPort, Running
    <3> QED BY <3>7
  <2>2. ASSUME NEW i \in 1..Len(gnt[n]), gnt[n][i] < n PROVE Linked(n, gnt[n][i])
    <3>1. Len(gnt[n]) \in Nat /\ at[n] \in Nat
      BY NeighbourTable DEF IInv, TypeInv
    <3>2. i < at[n]
      BY <1>2, <2>1, <2>2, <3>1, TurnOrNone DEF IInv
    <3> QED BY <1>2, <1>3, <2>2, <3>2 DEF NodeInv, Reached
  <2> QED BY <1>2, <2>2 DEF Reached, Linked
<1> QED BY <1>1, <1>2, <1>4, <1>5, OwnStep DEF NodeInv

LEMMA JoinInv ==
  ASSUME IInv, NEW n \in Nodes, Join(n) PROVE IInv'
<1> USE DEF Join
<1>1. TypeInv'
  BY DEF IInv, TypeInv
<1>2. /\ son[n] = "join" /\ son'[n] = "up"
      /\ \A m \in Greater(n) : Linked(n, m)
      /\ UNCHANGED <<at, listening, backlog, conn, live>>
      /\ \A p \in Nodes : p # n => son'[p] = son[p]
  BY DEF IInv, TypeInv, MayJoin, Waited, Linked
<1>3. NodeInv(n)
  BY DEF IInv
<1>4. NodeInv(n)'
  BY <1>2, <1>3 DEF NodeInv, Untried, Queued, Accepted, Ended, Reached, Linked
<1> QED BY <1>1, <1>2, <1>4, OwnStep

(* connect() at a neighbour that has no entry for this SON, nor a          *)
(* connection of it in the queue.                                          *)
LEMMA ConnectNbrInv ==
  ASSUME IInv, NEW n \in Nodes, ConnectNbr(n) PROVE IInv'
<1>1. PICK i \in Turn(n) :
        /\ conn' = [conn EXCEPT ![n][gnt[n][i]] = "open"]
        /\ backlog' = [backlog EXCEPT ![gnt[n][i]] = Append(@, n)]
        /\ at' = [at EXCEPT ![n] = i + 1]
  BY DEF ConnectNbr, NextEntry
<1>2. son[n] = "connect" /\ UNCHANGED <<son, listening, live>> /\ at[n] # 0
  BY DEF ConnectNbr, IInv, TypeInv
<1> DEFINE m == gnt[n][i]
<1>3. /\ i \in 1..Len(gnt[n]) /\ at[n] <= i /\ m < n
      /\ \A j \in Nat : at[n] <= j /\ j < i => ~(gnt[n][j] < n)
  BY <1>2, TurnOrNone DEF IInv
<1>4. m \in Nbrs(n) /\ m \in Nodes /\ n \in Nbrs(m) /\ n # m /\ m \in Nat /\ n \in Nat
  BY <1>3, NeighbourTable, NodesAreNaturals
<1>5. n \in Greater(m) /\ m \notin Greater(n)
  BY <1>3, <1>4 DEF Greater
<1>6. ~Linked(n, m)
  BY <1>2, <1>3 DEF IInv, NodeInv, Untried
<1>7. ~Linked(m, n) /\ \A k \in 1..Len(backlog[m]) : backlog[m][k] # n
  BY <1>4, <1>5, <1>6 DEF IInv, NodeInv, Accepted, Queued
<1>8. /\ DOMAIN conn' = Nodes
      /\ \A p \in Nodes : conn'[p] \in [Nbrs(p) -> {"none", "open", "closed"}]
      /\ \A p \in Nodes : \A q \in Nbrs(p) :
           Linked(p, q)' <=> Linked(p, q) \/ (p = n /\ q = m)
  <2> HIDE DEF m
  <2> QED BY <1>1, <1>4, EntrySet DEF IInv, m
<1>9. /\ at'[n] = i + 1 /\ \A p \in Nodes : p # n => at'[p] = at[p]
      /\ backlog'[m] = Append(backlog[m], n)
      /\ \A p \in Nodes : p # m => backlog'[p] = backlog[p]
  BY <1>1, <1>4 DEF IInv, TypeInv
<1>10. TypeInv'
  <2>1. at' \in [Nodes -> Nat] /\ backlog' \in [Nodes -> Seq(Nodes)]
    BY <1>1, <1>3, <1>4 DEF IInv, TypeInv
  <2>2. \A p \in Nodes : son'[p] \in {"connect", "stopping"} => at'[p] # 0
    BY <1>2, <1>3, <1>9 DEF IInv, TypeInv
  <2> QED BY <1>2, <1>8, <2>1, <2>2 DEF IInv, TypeInv
<1> HIDE DEF m
<1>11. NodeInv(n)'
  <2>1. NodeInv(n)
    BY DEF IInv
  <2>2. /\ backlog'[n] = backlog[n]
        /\ \A q \in Nbrs(n) : q # m => (Linked(n, q)' <=> Linked(n, q))
        /\ \A q \in Nbrs(n) : Linked(q, n)' <=> Linked(q, n)
        /\ Linked(n, m)'
    BY <1>4, <1>8, <1>9, NeighbourTable
  <2>3. Untried(n)'
    <3> SUFFICES ASSUME NEW j \in 1..Len(gnt[n]), gnt[n][j] < n, i + 1 <= j
                 PROVE  ~Linked(n, gnt[n][j])'
      BY <1>2, <1>9 DEF Untried
    <3>1. j # i /\ at[n] <= j
      BY <1>2, <1>3 DEF IInv, TypeInv
    <3>2. gnt[n][j] # m /\ gnt[n][j] \in Nbrs(n)
      BY <1>3, <3>1, NeighbourTable DEF m
    <3>3. ~Linked(n, gnt[n][j])
      BY <1>2, <2>1, <3>1 DEF NodeInv, Untried
    <3> QED BY <2>2, <3>2, <3>3
  <2>4. Queued(n)' /\ Accepted(n)'
    BY <1>5, <2>1, <2>2 DEF NodeInv, Queued, Accepted, Greater
  <2>5. Ended(n)'
    BY <1>2, <1>5, <2>1, <2>2 DEF NodeInv, Ended, Greater
  <2>6. Reached(n)'
    <3> SUFFICES ASSUME StartInTime, NEW j \in 1..Len(gnt[n]), gnt[n][j] < n
                 PROVE  listening[gnt[n][j]] /\ (j < i + 1 => Linked(n, gnt[n][j])')
      BY <1>2, <1>9 DEF Reached
    <3>1. listening[gnt[n][j]]
      BY <1>2, <2>1 DEF NodeInv, Reached
    <3>2. ASSUME j < i + 1 PROVE Linked(n, gnt[n][j])'
      <4>1. j = i \/ j < at[n]
        <5>1. i \in Nat /\ j \in Nat /\ at[n] \in Nat
          BY <1>3 DEF IInv, TypeInv
        <5>2. ~(at[n] <= j /\ j < i)
          BY <1>3, <5>1
        <5> QED BY <3>2, <5>1, <5>2
      <4>2. CASE j = i
        BY <2>2, <4>2 DEF m
      <4>3. CASE j < at[n]
        <5>1. Linked(n, gnt[n][j]) /\ gnt[n][j] \in Nbrs(n)
          BY <1>2, <2>1, <4>3, NeighbourTable DEF NodeInv, Reached
        <5> QED BY <2>2, <5>1
      <4> QED BY <4>1, <4>2, <4>3
    <3> QED BY <3>1, <3>2
  <2> QED BY <2>3, <2>4, <2>5, <2>6 DEF NodeInv
<1>12. NodeInv(m)'
  <2>1. NodeInv(m)
    BY <1>4 DEF IInv
  <2>2. /\ at'[m] = at[m]
        /\ \A q \in Nbrs(m) : Linked(m, q)' <=> Linked(m, q)
        /\ \A q \in Nbrs(m) : Linked(q, m) => Linked(q, m)'
        /\ Linked(n, m)'
        /\ \A j \in 1..Len(gnt[m]) : gnt[m][j] \in Nbrs(m)
    BY <1>4, <1>8, <1>9, NeighbourTable
  <2>3. Untried(m)' /\ Accepted(m)' /\ Ended(m)' /\ Reached(m)'
    BY <1>2, <2>1, <2>2 DEF NodeInv, Untried, Accepted, Ended, Reached, Greater
  <2>4. Queued(m)'
    <3>1. backlog[m] \in Seq(Nodes)
      BY <1>4 DEF IInv, TypeInv
    <3>2. /\ Len(backlog'[m]) = Len(backlog[m]) + 1 /\ Len(backlog[m]) \in Nat
          /\ \A k \in 1..Len(backlog[m]) : backlog'[m][k] = backlog[m][k]
          /\ backlog'[m][Len(backlog[m]) + 1] = n
      BY <1>9, <1>4, <3>1
    <3>3. \A k \in 1..Len(backlog'[m]) :
            k \in 1..Len(backlog[m]) \/ k = Len(backlog[m]) + 1
      BY <3>2
    <3>4. ASSUME NEW k \in 1..Len(backlog'[m]), NEW r, r = backlog'[m][k]
          PROVE  r \in Greater(m) /\ ~Linked(m, r)' /\ Linked(r, m)'
      <4>1. CASE k = Len(backlog[m]) + 1
        <5>1. r = n
          BY <3>2, <3>4, <4>1
        <5> QED BY <1>4, <1>5, <1>7, <2>2, <5>1
      <4>2. CASE k \in 1..Len(backlog[m])
        <5>1. r \in Greater(m) /\ ~Linked(m, r) /\ Linked(r, m)
          BY <2>1, <3>2, <3>4, <4>2 DEF NodeInv, Queued
        <5> QED BY <2>2, <5>1 DEF Greater
      <4> QED BY <3>3, <4>1, <4>2
    <3>5. ASSUME NEW k \in 1..Len(backlog'[m]), NEW l \in 1..Len(backlog'[m]),
                 backlog'[m][k] = backlog'[m][l]
          PROVE  k = l
      BY <1>7, <2>1, <3>2, <3>3, <3>5 DEF NodeInv, Queued
    <3>6. ASSUME NEW k \in 1..Len(backlog'[m])
          PROVE  /\ backlog'[m][k] \in Greater(m)
                 /\ conn'[m][backlog'[m][k]] = "none" /\ conn'[backlog'[m][k]][m] # "none"
      BY <3>4 DEF Linked
    <3> QED BY <3>5, <3>6 DEF Queued, Linked
  <2> QED BY <2>3, <2>4 DEF NodeInv
<1>13. ASSUME NEW p \in Nodes, p # n, p # m PROVE NodeInv(p)'
  <2>1. /\ \A q \in Nbrs(p) : Linked(p, q)' <=> Linked(p, q)
        /\ \A q \in Nbrs(p) : Linked(q, p) => Linked(q, p)'
    BY <1>8, <1>13, NeighbourTable
  <2> QED BY <1>2, <1>9, <1>13, <2>1, Elsewhere DEF IInv
<1> QED BY <1>10, <1>11, <1>12, <1>13 DEF IInv

LEMMA AcceptNbrInv ==
  ASSUME IInv, NEW n \in Nodes, AcceptNbr(n) PROVE IInv'
<1>1. PICK m : m = Head(backlog[n])
  OBVIOUS
<1>2. /\ backlog[n] # <<>> /\ backlog[n] \in Seq(Nodes)
      /\ conn' = [conn EXCEPT ![n][m] = "open"]
      /\ backlog' = [backlog EXCEPT ![n] = Tail(backlog[n])]
      /\ UNCHANGED <<son, at, listening, live>>
  BY <1>1 DEF AcceptNbr, IInv, TypeInv
<1>3. NodeInv(n)
  BY DEF IInv
<1>4. /\ Len(backlog[n]) \in Nat \ {0} /\ m = backlog[n][1]
      /\ Tail(backlog[n]) \in Seq(Nodes) /\ Len(Tail(backlog[n])) = Len(backlog[n]) - 1
      /\ \A k \in 1..Len(Tail(backlog[n])) : Tail(backlog[n])[k] = backlog[n][k + 1]
  BY <1>1, <1>2
<1>5. m \in Greater(n) /\ Linked(m, n)
  BY <1>3, <1>4 DEF NodeInv, Queued
<1>6. m \in Nbrs(n) /\ ~(m < n)
  <2>1. m \in Nbrs(n) /\ m > n
    BY <1>5 DEF Greater
  <2>2. m \in Nat /\ n \in Nat
    BY <2>1, NodesAreNaturals, NeighbourTable
  <2> QED BY <2>1, <2>2
<1>7. /\ DOMAIN conn' = Nodes
      /\ \A p \in Nodes : conn'[p] \in [Nbrs(p) -> {"none", "open", "closed"}]
      /\ \A p \in Nodes : \A q \in Nbrs(p) :
           Linked(p, q)' <=> Linked(p, q) \/ (p = n /\ q = m)
  BY <1>2, <1>6, EntrySet DEF IInv
<1>8. TypeInv'
  BY <1>2, <1>4, <1>7 DEF IInv, TypeInv
<1>9. /\ backlog'[n] = Tail(backlog[n])
      /\ \A p \in Nodes : p # n => backlog'[p] = backlog[p]
  BY <1>2 DEF IInv, TypeInv
<1>10. NodeInv(n)'
  <2>1. /\ \A q \in Nbrs(n) : q # m => (Linked(n, q)' <=> Linked(n, q))
        /\ \A q \in Nbrs(n) : Linked(n, q) => Linked(n, q)'
        /\ \A q \in Nbrs(n) : Linked(q, n)' <=> Linked(q, n)
        /\ \A i \in 1..Len(gnt[n]) : gnt[n][i] \in Nbrs(n)
    BY <1>7, NeighbourTable
  <2>2. Untried(n)' /\ Ended(n)' /\ Reached(n)' /\ Accepted(n)'
    BY <1>2, <1>3, <1>5, <1>6, <2>1
       DEF NodeInv, Untried, Ended, Reached, Accepted, Greater
  <2>3. Queued(n)'
    <3> DEFINE Q == Tail(backlog[n])
    <3>1. ASSUME NEW k \in 1..Len(Q)
          PROVE  Q[k] \in Greater(n) /\ Q[k] # m /\ ~Linked(n, Q[k]) /\ Linked(Q[k], n)
      <4>1. k + 1 \in 1..Len(backlog[n]) /\ k + 1 # 1 /\ Q[k] = backlog[n][k + 1]
        BY <1>4
      <4>2. 1 \in 1..Len(backlog[n])
        BY <1>4
      <4> HIDE DEF Q
      <4> QED BY <1>3, <1>4, <4>1, <4>2 DEF NodeInv, Queued
    <3>2. ASSUME NEW k \in 1..Len(Q), NEW l \in 1..Len(Q), Q[k] = Q[l] PROVE k = l
      <4>1. /\ k + 1 \in 1..Len(backlog[n]) /\ l + 1 \in 1..Len(backlog[n])
            /\ backlog[n][k + 1] = backlog[n][l + 1]
        BY <1>4, <3>2
      <4>2. k + 1 = l + 1
        BY <1>3, <4>1 DEF NodeInv, Queued
      <4> QED BY <4>2
    <3>3. backlog'[n] = Q
      BY <1>9
    <3> HIDE DEF Q
    <3>4. ASSUME NEW k \in 1..Len(Q)
          PROVE  Q[k] \in Greater(n) /\ conn'[n][Q[k]] = "none" /\ conn'[Q[k]][n] # "none"
      BY <2>1, <3>1 DEF Greater, Linked
    <3> QED BY <3>2, <3>3, <3>4 DEF Queued, Linked
  <2> QED BY <2>2, <2>3 DEF NodeInv
<1>11. ASSUME NEW p \in Nodes, p # n PROVE NodeInv(p)'
  <2>1. /\ \A q \in Nbrs(p) : Linked(p, q)' <=> Linked(p, q)
        /\ \A q \in Nbrs(p) : Linked(q, p) => Linked(q, p)'
    BY <1>7, <1>11, NeighbourTable
  <2> QED BY <1>2, <1>9, <1>11, <2>1, Elsewhere DEF IInv
<1> QED BY <1>8, <1>10, <1>11 DEF IInv

(* Signals and ends *)
LEMMA SonStopInv ==
  ASSUME IInv, NEW n \in Nodes, SonStop(n) PROVE IInv'
<1> USE DEF SonStop
<1>1. TypeInv'
  BY DEF IInv, TypeInv
<1>2. /\ son[n] \in {"delay", "connect", "join", "up"}
      /\ son'[n] = "stopping" /\ at'[n] = 1
      /\ UNCHANGED <<listening, backlog, conn, live>>
      /\ \A p \in Nodes : p # n => son'[p] = son[p] /\ at'[p] = at[p]
  BY DEF IInv, TypeInv
<1>3. NodeInv(n)
  BY DEF IInv
<1>4. NodeInv(n)'
  BY <1>2, <1>3 DEF NodeInv, Untried, Queued, Accepted, Ended, Reached, Linked
<1> QED BY <1>1, <1>2, <1>4, OwnStep

LEMMA CloseNbrInv ==
  ASSUME IInv, NEW n \in Nodes, CloseNbr(n) PROVE IInv'
<1>1. /\ son[n] = "stopping" /\ at[n] \in 1..Len(gnt[n])
      /\ Linked(n, gnt[n][at[n]])
      /\ conn' = [conn EXCEPT ![n][gnt[n][at[n]]] = "closed"]
      /\ at' = [at EXCEPT ![n] = at[n] + 1]
      /\ UNCHANGED <<son, listening, backlog, live>>
  BY NeighbourTable DEF CloseNbr, NextClosed, Linked, IInv, TypeInv
<1>2. gnt[n][at[n]] \in Nbrs(n)
  BY <1>1, NeighbourTable
<1>3. /\ DOMAIN conn' = Nodes
      /\ \A p \in Nodes : conn'[p] \in [Nbrs(p) -> {"none", "open", "closed"}]
      /\ \A p \in Nodes : \A q \in Nbrs(p) : Linked(p, q)' <=> Linked(p, q)
  <2>1. PICK m \in Nbrs(n) : m = gnt[n][at[n]]
    BY <1>2
  <2>2. conn' = [conn EXCEPT ![n][m] = "closed"] /\ Linked(n, m)
    BY <1>1, <2>1
  <2>3. /\ DOMAIN conn' = Nodes
        /\ \A p \in Nodes : conn'[p] \in [Nbrs(p) -> {"none", "open", "closed"}]
        /\ \A p \in Nodes : \A q \in Nbrs(p) :
             Linked(p, q)' <=> Linked(p, q) \/ (p = n /\ q = m)
    BY <2>2, EntrySet DEF IInv
  <2> QED BY <2>2, <2>3
<1>4. /\ at' \in [Nodes -> Nat] /\ at'[n] = at[n] + 1
      /\ \A p \in Nodes : p # n => at'[p] = at[p]
  BY <1>1 DEF IInv, TypeInv
<1>5. TypeInv'
  BY <1>1, <1>3, <1>4 DEF IInv, TypeInv
<1>6. NodeInv(n)'
  <2>1. NodeInv(n)
    BY DEF IInv
  <2>2. /\ \A q \in Nbrs(n) : (Linked(n, q)' <=> Linked(n, q))
        /\ \A q \in Nbrs(n) : Linked(q, n)' <=> Linked(q, n)
        /\ \A i \in 1..Len(gnt[n]) : gnt[n][i] \in Nbrs(n)
    BY <1>3, NeighbourTable
  <2>3. Untried(n)' /\ Queued(n)' /\ Accepted(n)' /\ Reached(n)'
    BY <1>1, <2>1, <2>2 DEF NodeInv, Untried, Queued, Accepted, Reached, Greater
  <2>4. \A i \in 1..Len(gnt[n]) : i < at'[n] => Linked(n, gnt[n][i])'
    <3> SUFFICES ASSUME NEW i \in 1..Len(gnt[n]), i < at'[n]
                 PROVE  Linked(n, gnt[n][i])
      BY <2>2
    <3>1. i = at[n] \/ i < at[n]
      BY <1>1, <1>4 DEF IInv, TypeInv
    <3> QED BY <1>1, <2>1, <3>1 DEF NodeInv, Ended
  <2>5. Ended(n)'
    BY <1>1, <2>1, <2>2, <2>4 DEF NodeInv, Ended, Greater
  <2> QED BY <2>3, <2>5 DEF NodeInv
<1>7. ASSUME NEW p \in Nodes, p # n PROVE NodeInv(p)'
  <2>1. /\ \A q \in Nbrs(p) : Linked(p, q)' <=> Linked(p, q)
        /\ \A q \in Nbrs(p) : Linked(q, p) => Linked(q, p)'
    BY <1>3, NeighbourTable
  <2> QED BY <1>1, <1>4, <1>7, <2>1, Elsewhere DEF IInv
<1> QED BY <1>5, <1>6, <1>7 DEF IInv

(* A SON ends with all its connections made. *)
LEMMA EndInv ==
  ASSUME IInv, NEW n \in Nodes, \A m \in Greater(n) : Linked(n, m),
         Running(n), son' = [son EXCEPT ![n] = "dead"],
         UNCHANGED <<at, listening, backlog, conn, live>>
  PROVE  IInv'
<1>1. TypeInv'
  BY DEF IInv, TypeInv
<1>2. son'[n] = "dead" /\ \A p \in Nodes : p # n => son'[p] = son[p]
  BY DEF IInv, TypeInv
<1>3. NodeInv(n)
  BY DEF IInv
<1>4. NodeInv(n)'
  BY <1>2, <1>3 DEF NodeInv, Untried, Queued, Accepted, Ended, Reached, Linked, Running
<1> QED BY <1>1, <1>2, <1>4, OwnStep

LEMMA SonExitInv ==
  ASSUME IInv, NEW n \in Nodes, SonExit(n) PROVE IInv'
<1>1. son[n] = "stopping" /\ at[n] > Len(gnt[n])
  BY DEF SonExit
<1>2. \A m \in Greater(n) : Linked(n, m)
  <2> SUFFICES ASSUME NEW m \in Greater(n) PROVE Linked(n, m)
    OBVIOUS
  <2>1. PICK i \in 1..Len(gnt[n]) : gnt[n][i] = m
    BY NeighbourTable DEF Greater
  <2>2. i < at[n]
    BY <1>1, NeighbourTable DEF IInv, TypeInv
  <2> QED BY <1>1, <2>1, <2>2 DEF IInv, NodeInv, Ended
<1> QED BY <1>1, <1>2, EndInv DEF SonExit, Running

LEMMA KilledInv ==
  ASSUME IInv, NEW n \in Nodes,
         SendPktKilled(n) \/ \E m \in Nbrs(n) : ForwardKilled(n, m)
  PROVE  IInv'
<1>1. /\ son[n] = "up" \/ (son[n] = "stopping" /\ live[n])
      /\ son' = [son EXCEPT ![n] = "dead"]
      /\ UNCHANGED <<at, listening, backlog, conn, live>>
  BY DEF SendPktKilled, ForwardKilled, Hears
<1>2. \A m \in Greater(n) : Linked(n, m)
  BY <1>1 DEF IInv, NodeInv, Ended
<1> QED BY <1>1, <1>2, EndInv DEF Running

(* waitSIP: only a SON that is up serves. *)
LEMMA ServeInv ==
  ASSUME IInv, NEW n \in Nodes, son[n] = "up",
         UNCHANGED <<son, listening, backlog, conn>>, TypeInv',
         \A p \in Nodes : p # n => at'[p] = at[p] /\ live'[p] = live[p]
  PROVE  IInv'
<1>1. NodeInv(n)
  BY DEF IInv
<1>2. NodeInv(n)'
  BY <1>1 DEF NodeInv, Untried, Queued, Accepted, Ended, Reached, Linked
<1> QED BY <1>2, OwnStep

LEMMA WaitSipInv ==
  ASSUME IInv, NEW n \in Nodes,
         AcceptSip(n) \/ GetPkt(n) \/ SipGone(n) \/ SendPkt(n)
  PROVE  IInv'
<1>1. CASE AcceptSip(n) \/ SipGone(n)
  <2>1. /\ son[n] = "up" /\ UNCHANGED <<son, at, listening, backlog, conn>>
        /\ live' \in [Nodes -> BOOLEAN]
        /\ \A p \in Nodes : p # n => live'[p] = live[p]
    BY <1>1 DEF AcceptSip, SipGone, Fetch, IInv, TypeInv, sonVars
  <2>2. TypeInv'
    BY <2>1 DEF IInv, TypeInv
  <2> QED BY <2>1, <2>2, ServeInv
<1>2. CASE GetPkt(n) \/ SendPkt(n)
  <2>1. /\ son[n] = "up" /\ UNCHANGED <<son, live, listening, backlog, conn>>
        /\ at' \in [Nodes -> Nat]
        /\ \A p \in Nodes : p # n => at'[p] = at[p]
    <3>1. Len(gnt[n]) \in Nat /\ at \in [Nodes -> Nat]
      BY NeighbourTable DEF IInv, TypeInv
    <3>2. CASE GetPkt(n)
      BY <3>1, <3>2 DEF GetPkt, Fetch
    <3>3. CASE SendPkt(n)
      <4>1. PICK k \in Nat : at' = [at EXCEPT ![n] = k]
        <5> DEFINE k == IF at[n] < Len(gnt[n]) THEN at[n] + 1 ELSE 0
        <5>1. at' = [at EXCEPT ![n] = k]
          BY <3>3 DEF SendPkt
        <5>2. k \in Nat
          BY <3>1
        <5> HIDE DEF k
        <5> QED BY <5>1, <5>2
      <4>2. son[n] = "up" /\ UNCHANGED <<son, live, listening, backlog, conn>>
        BY <3>3 DEF SendPkt
      <4> QED BY <3>1, <4>1, <4>2
    <3> QED BY <1>2, <3>2, <3>3
  <2>2. TypeInv'
    BY <2>1 DEF IInv, TypeInv
  <2> QED BY <2>1, <2>2, ServeInv
<1> QED BY <1>1, <1>2

LEMMA UntouchedInv ==
  ASSUME IInv, UNCHANGED <<son, at, listening, backlog, conn, live>> PROVE IInv'
<1>1. TypeInv'
  BY DEF IInv, TypeInv
<1>2. ASSUME NEW n \in Nodes PROVE NodeInv(n)'
  BY Elsewhere DEF IInv, Linked
<1> QED BY <1>1, <1>2 DEF IInv

LEMMA NextInv == IInv /\ [Next]_vars => IInv'
<1> SUFFICES ASSUME IInv, [Next]_vars PROVE IInv'
  OBVIOUS
<1>1. CASE UNCHANGED vars
  BY <1>1, UntouchedInv DEF vars, sonVars
<1>2. ASSUME NEW n \in Nodes, SonStart(n) \/ WaitNbrs(n) PROVE IInv'
  BY <1>2, SonStartInv, ListenInv, AcceptNbrInv DEF WaitNbrs
<1>3. ASSUME NEW n \in Nodes, StartUp(n) PROVE IInv'
  BY <1>3, DelayOverInv, ConnectNbrInv, ConnectEndInv, JoinInv DEF StartUp
<1>4. ASSUME NEW n \in Nodes, WaitSip(n) PROVE IInv'
  BY <1>4, WaitSipInv, KilledInv DEF WaitSip
<1>5. ASSUME NEW n \in Nodes, NEW m \in Nbrs(n), Listener(n, m) PROVE IInv'
  <2>1. CASE ListenToNeighbor(n, m)
    BY <2>1, UntouchedInv DEF ListenToNeighbor
  <2>2. CASE ForwardKilled(n, m)
    BY <2>2, KilledInv
  <2> QED BY <1>5, <2>1, <2>2 DEF Listener
<1>6. ASSUME NEW n \in Nodes, SonStop(n) \/ Stopping(n) PROVE IInv'
  BY <1>6, SonStopInv, CloseNbrInv, SonExitInv DEF Stopping
<1>7. ASSUME NEW n \in Nodes, SipStart(n) \/ Daemon(n) \/ Handler(n) \/ SipStop(n)
      PROVE  IInv'
  <2>1. UNCHANGED <<son, at, listening, backlog, conn, live>>
    BY <1>7 DEF SipStart, Daemon, RouteUpdate, RouteUpdateKilled, Handler,
                PktHandler, PktHandlerEnd, SipStop, sonVars
  <2> QED BY <2>1, UntouchedInv
<1> QED BY <1>1, <1>2, <1>3, <1>4, <1>5, <1>6, <1>7 DEF Next

THEOREM Inductive == Spec => []IInv
<1> QED BY InitInv, NextInv, PTL DEF Spec

-----------------------------------------------------------------------------
(* The assertion of waitNbrs, for every topology: a connection that waits  *)
(* for accept() is that of a neighbour without one, and it waits once.     *)
THEOREM AssertionHolds == Spec => []AcceptAssertion
<1>1. IInv => AcceptAssertion
  <2> SUFFICES ASSUME IInv, NEW n \in Nodes
               PROVE  /\ \A k \in DOMAIN backlog[n] : conn[n][backlog[n][k]] = "none"
                      /\ IsInjective(backlog[n])
    BY DEF AcceptAssertion
  <2>1. DOMAIN backlog[n] = 1..Len(backlog[n])
    BY DEF IInv, TypeInv
  <2> QED BY <2>1 DEF IInv, NodeInv, Queued, Linked, IsInjective
<1> QED BY <1>1, Inductive, PTL

(* When main comes to waitSIP, waitNbrs has accepted every greater         *)
(* neighbour, and connectNbrs has reached every smaller one unless that    *)
(* one was started too late.                                               *)
THEOREM AllLinksAtStart == Spec => []UpHasLinks
<1>1. IInv => UpHasLinks
  <2> SUFFICES ASSUME IInv, NEW n \in Nodes, son[n] = "up", NEW m \in Nbrs(n)
               PROVE  Linked(n, m) \/ (~StartInTime /\ m < n)
    BY DEF UpHasLinks, Linked
  <2>1. m \in Nodes /\ m # n /\ \E i \in 1..Len(gnt[n]) : gnt[n][i] = m
    BY NeighbourTable
  <2>2. m < n \/ m > n
    BY <2>1, NodesAreNaturals
  <2>3. CASE m > n
    BY <2>3 DEF IInv, NodeInv, Ended, Greater
  <2>4. CASE m < n
    BY <2>1, <2>4 DEF IInv, NodeInv, Reached
  <2> QED BY <2>2, <2>3, <2>4
<1> QED BY <1>1, Inductive, PTL

-----------------------------------------------------------------------------
(* The way of the route updates through the network: as long as two SONs  *)
(* run and are connected, no update is lost, repeated or overtaken between *)
(* them and their SIP processes.                                           *)

Update == [src : Nodes, num : Nat]

(* The ends of connections among what the SIPs sent. *)
Zeros(s) == Cardinality({k \in 1..Len(s) : s[k] = 0})

DataInv ==
  /\ hand \in [Nodes -> Nat] /\ sent \in [Nodes -> Nat]
  /\ session \in [Nodes -> Nat] /\ served \in [Nodes -> Nat]
  /\ sip \in [Nodes -> {"off", "up", "cut", "stopping", "dead"}]
  /\ toSon \in [Nodes -> Seq(Nat)] /\ toSip \in [Nodes -> Seq(Update)]
  /\ DOMAIN link = Nodes /\ DOMAIN last = Nodes
  /\ \A m \in Nodes : link[m] \in [Nbrs(m) -> Seq(Update)] /\ last[m] \in [Nbrs(m) -> Nat]
  /\ \A m \in Nodes : \A n \in Nbrs(m) : \A k \in 1..Len(link[m][n]) :
       link[m][n][k].src = m
  /\ \A n \in Nodes : \A k \in 1..Len(toSip[n]) : toSip[n][k].src \in Nbrs(n)

(* The inductive invariant: the sessions of a node's SIP processes, the    *)
(* stock of updates its SON has still to broadcast, and for each link on   *)
(* which updates flow what the receiver has taken of them.                 *)

(* Every session that is over has left a 0, which the SON takes before it  *)
(* serves the next one.                                                    *)
Sessions(n) ==
  /\ served[n] <= session[n]
  /\ son[n] # "dead" =>
       /\ sip[n] \in {"off", "up", "dead"}
       /\ session[n] + (IF live[n] THEN 1 ELSE 0)
            = served[n] + Zeros(toSon[n]) + (IF sip[n] = "up" THEN 1 ELSE 0)

(* A SIP that is not being served has got nothing. *)
Unserved(n) ==
  son[n] # "dead" /\ ~SipReads(n) =>
    /\ toSip[n] = <<>>
    /\ sip[n] = "up" => \A m \in Nbrs(n) : last[n][m] = 0

(* A node whose SON is not up has sent nothing. *)
Silent(m) ==
  son[m] \in {"off", "delay", "connect", "join"} =>
    /\ hand[m] = 0 /\ sent[m] = 0 /\ sip[m] = "off" /\ toSon[m] = <<>>
    /\ son[m] = "join" => at[m] = 0
    /\ \A n \in Nbrs(m) :
         /\ link[m][n] = <<>> /\ last[n][m] = 0
         /\ \A k \in 1..Len(toSip[n]) : toSip[n][k].src # m

(* The SON takes the updates of its SIP one by one: h is the last one it   *)
(* took, e the last one that was sent, and s what waits.                   *)
Stock(s, h, e) ==
  /\ h <= e
  /\ \A k \in 1..Len(s) : s[k] # 0 => h < s[k] /\ s[k] <= e
  /\ \A k, l \in 1..Len(s) : k < l /\ s[k] # 0 /\ s[l] # 0 => s[k] < s[l]
  /\ \A u \in (h + 1)..e : \E k \in 1..Len(s) : s[k] = u

Source(m) ==
  son[m] = "up" =>
    /\ at[m] \in 0..Len(gnt[m])
    /\ at[m] # 0 => hand[m] # 0
    /\ Stock(toSon[m], hand[m], sent[m])

Flow(m, n) == son[m] = "up" /\ conn[m][n] = "open" /\ ~Gone(n, m)

(* The last number sent from SON m to SON n, and the last one taken. *)
Put(m, n) == IF Due(m, n) THEN hand[m] - 1 ELSE hand[m]
Taken(m, n) == Put(m, n) - Len(link[m][n])

Channel(m, n) ==
  /\ Taken(m, n) \in Nat
  /\ \A k \in 1..Len(link[m][n]) : link[m][n][k].num = Taken(m, n) + k

(* What waits for n's SIP, in t, when a is the last number it saw of m and *)
(* z the last one taken: from the first one on, all of them.               *)
Waits(t, m, u) == \E k \in 1..Len(t) : t[k].src = m /\ t[k].num = u

Inbox(t, m, a, z) ==
  /\ \A k \in 1..Len(t) : t[k].src = m => a < t[k].num /\ t[k].num <= z
  /\ \A k \in 1..Len(t) : t[k].src = m => \A u \in t[k].num..z : Waits(t, m, u)
  /\ \A k, l \in 1..Len(t) : k < l /\ t[k].src = m /\ t[l].src = m => t[k].num < t[l].num
  /\ a # 0 => \A u \in (a + 1)..z : Waits(t, m, u)

Receiver(m, n) ==
  sip[n] = "up" => /\ last[n][m] <= Taken(m, n)
                   /\ Inbox(toSip[n], m, last[n][m], Taken(m, n))

PairInv(m, n) == Flow(m, n) => Channel(m, n) /\ Receiver(m, n)

UInv ==
  /\ DataInv
  /\ \A n \in Nodes : Sessions(n) /\ Unserved(n) /\ Silent(n) /\ Source(n)
  /\ \A m \in Nodes : \A n \in Nbrs(m) : PairInv(m, n)

-----------------------------------------------------------------------------
(* Lemmas about what waits: the ends of sessions, the stock of a SON, the  *)
(* inbox of a SIP, when a member is appended or taken                      *)

LEMMA ZerosAppend ==
  ASSUME NEW s \in Seq(Nat), NEW x \in Nat
  PROVE  Zeros(s) \in Nat /\ Zeros(Append(s, x)) = Zeros(s) + IF x = 0 THEN 1 ELSE 0
<1> DEFINE Z(t) == {k \in 1..Len(t) : t[k] = 0}
           t == Append(s, x)
<1>1. /\ Len(s) \in Nat /\ Len(t) = Len(s) + 1 /\ t[Len(s) + 1] = x
      /\ \A k \in 1..Len(s) : t[k] = s[k]
  OBVIOUS
<1>2. IsFiniteSet(Z(s)) /\ Cardinality(Z(s)) \in Nat
  <2>1. IsFiniteSet(1..Len(s)) /\ Z(s) \in SUBSET (1..Len(s))
    BY <1>1, FS_Interval
  <2> QED BY <2>1, FS_Subset, FS_CardinalityType
<1>3. Z(t) = IF x = 0 THEN Z(s) \cup {Len(s) + 1} ELSE Z(s)
  <2> HIDE DEF t
  <2> QED BY <1>1
<1>4. Len(s) + 1 \notin Z(s)
  BY <1>1
<1>5. Cardinality(Z(s) \cup {Len(s) + 1}) = Cardinality(Z(s)) + 1
  BY <1>2, <1>4, FS_AddElement
<1>6. Cardinality(Z(t)) = Cardinality(Z(s)) + IF x = 0 THEN 1 ELSE 0
  <2> HIDE DEF Z, t
  <2> QED BY <1>2, <1>3, <1>5
<1> QED BY <1>2, <1>6 DEF Zeros

LEMMA ZerosTail ==
  ASSUME NEW s \in Seq(Nat), s # <<>>
  PROVE  /\ Zeros(s) \in Nat /\ Zeros(Tail(s)) \in Nat
         /\ Zeros(s) = Zeros(Tail(s)) + IF Head(s) = 0 THEN 1 ELSE 0
<1> DEFINE Z(t) == {k \in 1..Len(t) : t[k] = 0}
           t == Tail(s)
           rest == {k \in 2..Len(s) : s[k] = 0}
           f == [k \in Z(t) |-> k + 1]
<1>1. /\ Len(s) \in Nat /\ Len(s) > 0 /\ Len(t) = Len(s) - 1 /\ Head(s) = s[1]
      /\ \A k \in 1..Len(t) : t[k] = s[k + 1]
  OBVIOUS
<1>2. IsFiniteSet(rest) /\ Cardinality(rest) \in Nat
  <2>1. IsFiniteSet(2..Len(s)) /\ rest \in SUBSET (2..Len(s))
    BY <1>1, FS_Interval
  <2> QED BY <2>1, FS_Subset, FS_CardinalityType
<1>3. IsFiniteSet(Z(t)) /\ Cardinality(Z(t)) \in Nat
  <2> HIDE DEF t
  <2>0. Len(t) \in Int
    BY <1>1
  <2>1. IsFiniteSet(1..Len(t)) /\ Z(t) \in SUBSET (1..Len(t))
    BY <2>0, FS_Interval
  <2> QED BY <2>1, FS_Subset, FS_CardinalityType
<1>4. Cardinality(Z(t)) = Cardinality(rest)
  <2> HIDE DEF t
  <2>1. \A k \in Z(t) : k + 1 \in rest
    BY <1>1
  <2>2. \A j \in rest : j - 1 \in Z(t) /\ j = (j - 1) + 1
    BY <1>1
  <2>3. \A k, l \in Z(t) : k + 1 = l + 1 => k = l
    OBVIOUS
  <2>4. f \in Bijection(Z(t), rest)
    <3> HIDE DEF Z, rest
    <3>1. f \in [Z(t) -> rest]
      BY <2>1
    <3>2. \A k, l \in Z(t) : f[k] = f[l] => k = l
      BY <2>3
    <3>3. \A j \in rest : \E k \in Z(t) : f[k] = j
      BY <2>2
    <3> QED BY <3>1, <3>2, <3>3 DEF Bijection, Injection, Surjection, IsInjective
  <2> HIDE DEF Z, rest, f
  <2>5. \E g : g \in Bijection(Z(t), rest)
    BY <2>4
  <2> QED BY <1>3, <2>5, FS_Bijection DEF ExistsBijection
<1>5. 1 \notin rest /\ Z(s) = IF Head(s) = 0 THEN rest \cup {1} ELSE rest
  BY <1>1
<1>6. Cardinality(rest \cup {1}) = Cardinality(rest) + 1
  BY <1>2, <1>5, FS_AddElement
<1>7. Cardinality(Z(s)) = Cardinality(Z(t)) + IF Head(s) = 0 THEN 1 ELSE 0
  <2> HIDE DEF Z, t, rest
  <2> QED BY <1>2, <1>4, <1>5, <1>6
<1>8. Cardinality(Z(s)) \in Nat
  <2> HIDE DEF Z, t, rest
  <2> QED BY <1>3, <1>7
<1>9. Zeros(s) = Cardinality(Z(s)) /\ Zeros(t) = Cardinality(Z(t))
  BY DEF Zeros
<1> HIDE DEF Z
<1> QED BY <1>3, <1>7, <1>8, <1>9

LEMMA StockTail ==
  ASSUME NEW s \in Seq(Nat), s # <<>>, NEW h \in Nat, NEW e \in Nat, Stock(s, h, e)
  PROVE  /\ Head(s) = 0 => Stock(Tail(s), h, e)
         /\ Head(s) # 0 => Head(s) = h + 1 /\ Stock(Tail(s), h + 1, e)
<1>0. Tail(s) \in Seq(Nat)
  OBVIOUS
<1>1. PICK t \in Seq(Nat) : t = Tail(s)
  BY <1>0
<1>2. /\ Len(s) \in Nat /\ Len(s) > 0 /\ Len(t) = Len(s) - 1 /\ Head(s) = s[1] /\ s[1] \in Nat
      /\ \A k \in 1..Len(t) : k + 1 \in 1..Len(s) /\ t[k] = s[k + 1]
      /\ \A k \in 2..Len(s) : k - 1 \in 1..Len(t) /\ t[k - 1] = s[k]
  BY <1>1
<1> DEFINE Low == \A k \in 1..Len(s) : s[k] # 0 => h < s[k]
           High == \A k \in 1..Len(s) : s[k] # 0 => s[k] <= e
           Rising == \A k, l \in 1..Len(s) : k < l /\ s[k] # 0 /\ s[l] # 0 => s[k] < s[l]
           Full == \A u \in (h + 1)..e : \E k \in 1..Len(s) : s[k] = u
<1>6. h <= e /\ Low /\ High /\ Rising /\ Full
  BY DEF Stock
<1>7. \A k \in 1..Len(s) : s[k] \in Nat
  OBVIOUS
<1>3. ASSUME NEW k \in 1..Len(t), NEW l \in 1..Len(t), k < l, t[k] # 0, t[l] # 0
      PROVE  t[k] < t[l]
  <2>1. k + 1 \in 1..Len(s) /\ l + 1 \in 1..Len(s) /\ k + 1 < l + 1
    BY <1>2, <1>3
  <2>2. t[k] = s[k + 1] /\ t[l] = s[l + 1]
    BY <1>2
  <2> QED BY <1>3, <1>6, <2>1, <2>2
<1>4. CASE s[1] = 0
  <2>1. \A k \in 1..Len(t) : t[k] # 0 => h < t[k] /\ t[k] <= e
    BY <1>2 DEF Stock
  <2>2. ASSUME NEW u \in (h + 1)..e PROVE \E k \in 1..Len(t) : t[k] = u
    <3>1. PICK k \in 1..Len(s) : s[k] = u
      BY DEF Stock
    <3>2. k \in 2..Len(s)
      BY <1>2, <1>4, <3>1
    <3> QED BY <1>2, <3>1, <3>2
  <2> QED BY <1>1, <1>2, <1>3, <1>4, <2>1, <2>2 DEF Stock
<1>5. CASE s[1] # 0
  <2>1. h < s[1] /\ s[1] <= e
    BY <1>2, <1>5 DEF Stock
  <2>2. PICK k \in 1..Len(s) : s[k] = h + 1
    <3>1. h + 1 \in (h + 1)..e
      BY <1>2, <2>1
    <3> QED BY <1>6, <3>1
  <2>3. k = 1
    <3>1. k # 1 => s[1] < s[k]
      <4>1. k # 1 => 1 \in 1..Len(s) /\ 1 < k /\ s[k] # 0
        BY SMTT(30), <1>2, <2>2
      <4> QED BY <1>5, <1>6, <4>1
    <3> QED BY <1>2, <2>1, <2>2, <3>1
  <2>4. \A l \in 1..Len(t) : t[l] # 0 => h + 1 < t[l] /\ t[l] <= e
    <3> SUFFICES ASSUME NEW l \in 1..Len(t), t[l] # 0 PROVE h + 1 < t[l] /\ t[l] <= e
      OBVIOUS
    <3>0. l + 1 \in 1..Len(s) /\ t[l] = s[l + 1]
      BY <1>2
    <3>1. 1 \in 1..Len(s) /\ 1 < l + 1 /\ s[l + 1] # 0
      BY <1>2, <3>0
    <3>2. s[1] < s[l + 1] /\ s[l + 1] <= e
      BY <1>5, <1>6, <3>0, <3>1
    <3> QED BY <2>2, <2>3, <3>0, <3>2
  <2>5. ASSUME NEW u \in (h + 2)..e PROVE \E l \in 1..Len(t) : t[l] = u
    <3>1. PICK l \in 1..Len(s) : s[l] = u
      BY DEF Stock
    <3>2. l \in 2..Len(s)
      BY <1>2, <2>2, <2>3, <3>1
    <3> QED BY <1>2, <3>1, <3>2
  <2>6. h + 1 <= e /\ (h + 1) + 1 = h + 2
    BY <1>2, <2>1
  <2> QED BY <1>1, <1>2, <1>3, <1>5, <2>2, <2>3, <2>4, <2>5, <2>6 DEF Stock
<1> QED BY <1>2, <1>4, <1>5

LEMMA StockAppend ==
  ASSUME NEW s \in Seq(Nat), NEW h \in Nat, NEW e \in Nat, Stock(s, h, e)
  PROVE  Stock(Append(s, 0), h, e) /\ Stock(Append(s, e + 1), h, e + 1)
<1>1. /\ Len(s) \in Nat
      /\ \A x \in Nat : /\ Append(s, x) \in Seq(Nat) /\ Len(Append(s, x)) = Len(s) + 1
                       /\ Append(s, x)[Len(s) + 1] = x
                       /\ \A k \in 1..Len(s) : Append(s, x)[k] = s[k] /\ s[k] \in Nat
  OBVIOUS
<1>2. ASSUME NEW x \in {0, e + 1}, NEW d \in Nat, d = IF x = 0 THEN e ELSE e + 1
      PROVE  Stock(Append(s, x), h, d)
  <2>0. Append(s, x) \in Seq(Nat) /\ x \in Nat
    BY <1>1
  <2>1. PICK t \in Seq(Nat) : t = Append(s, x)
    BY <2>0
  <2>2. /\ Len(t) = Len(s) + 1 /\ t[Len(s) + 1] = x
        /\ \A k \in 1..Len(s) : t[k] = s[k] /\ s[k] \in Nat /\ k \in 1..Len(t)
        /\ \A k \in 1..Len(t) : k = Len(s) + 1 \/ k \in 1..Len(s)
    BY <1>1, <2>1
  <2>3. h <= e /\ \A k \in 1..Len(s) : s[k] # 0 => h < s[k] /\ s[k] <= e
    BY DEF Stock
  <2>4. h <= d /\ \A k \in 1..Len(t) : t[k] # 0 => h < t[k] /\ t[k] <= d
    <3> SUFFICES ASSUME NEW k \in 1..Len(t), t[k] # 0 PROVE h < t[k] /\ t[k] <= d
      BY <1>2, <2>3
    <3>1. CASE k \in 1..Len(s)
      <4>1. t[k] = s[k] /\ s[k] \in Nat
        BY <2>2, <3>1
      <4>2. h < s[k] /\ s[k] <= e
        BY <2>3, <3>1, <4>1
      <4>3. e <= d
        BY <1>2
      <4> QED BY <4>1, <4>2, <4>3
    <3>2. CASE k = Len(s) + 1
      BY <1>2, <2>2, <2>3, <3>2
    <3> QED BY <2>2, <3>1, <3>2
  <2>5. \A k, l \in 1..Len(t) : k < l /\ t[k] # 0 /\ t[l] # 0 => t[k] < t[l]
    <3> SUFFICES ASSUME NEW k \in 1..Len(t), NEW l \in 1..Len(t), k < l, t[k] # 0, t[l] # 0
                 PROVE  t[k] < t[l]
      OBVIOUS
    <3>1. k \in 1..Len(s)
      BY <1>1, <2>2
    <3>2. CASE l \in 1..Len(s)
      BY <2>2, <3>1, <3>2 DEF Stock
    <3>3. CASE l = Len(s) + 1
      BY <1>2, <2>2, <2>3, <3>1, <3>3
    <3> QED BY <2>2, <3>2, <3>3
  <2>6. ASSUME NEW u \in (h + 1)..d PROVE \E k \in 1..Len(t) : t[k] = u
    <3>1. CASE u <= e
      <4>1. PICK k \in 1..Len(s) : s[k] = u
        BY <3>1 DEF Stock
      <4> QED BY <2>2, <4>1
    <3>2. CASE ~(u <= e)
      <4>1. u = x /\ Len(s) + 1 \in 1..Len(t)
        BY <1>1, <1>2, <2>2, <3>2
      <4> QED BY <2>2, <4>1
    <3> QED BY <3>1, <3>2
  <2> QED BY <2>1, <2>4, <2>5, <2>6 DEF Stock
<1>3. 0 \in {0, e + 1} /\ e + 1 \in {0, e + 1} /\ e + 1 \in Nat /\ e + 1 # 0
  OBVIOUS
<1> QED BY <1>2, <1>3

LEMMA InboxNone ==
  ASSUME NEW t, NEW m, NEW z, \A k \in 1..Len(t) : t[k].src # m
  PROVE  Inbox(t, m, 0, z)
BY DEF Inbox

LEMMA InboxAppend ==
  ASSUME NEW t \in Seq(Update), NEW r \in Update, NEW m, NEW a \in Nat, NEW z \in Nat,
         Inbox(t, m, a, z)
  PROVE  /\ r.src # m => Inbox(Append(t, r), m, a, z)
         /\ r.src = m /\ r.num = z + 1 /\ a <= z => Inbox(Append(t, r), m, a, z + 1)
<1>1. Append(t, r) \in Seq(Update) /\ Len(t) \in Nat
  OBVIOUS
<1>2. PICK s \in Seq(Update) : s = Append(t, r)
  BY <1>1
<1>3. PICK N \in Nat : N = Len(t)
  BY <1>1
<1>4. /\ Len(s) = N + 1 /\ s[N + 1] = r
      /\ \A k \in 1..N : s[k] = t[k]
      /\ \A k \in 1..(N + 1) : k \in 1..N \/ k = N + 1
      /\ \A k \in 1..N : k \in 1..(N + 1)
      /\ N + 1 \in 1..(N + 1)
  BY <1>2, <1>3
<1>5. r.num \in Nat /\ \A k \in 1..N : t[k].num \in Nat
  <2>1. \A k \in 1..N : t[k] \in Update
    BY <1>3
  <2> QED BY <2>1 DEF Update
<1>6. /\ \A k \in 1..N : t[k].src = m => a < t[k].num /\ t[k].num <= z
      /\ \A k \in 1..N : t[k].src = m => \A u \in t[k].num..z : Waits(t, m, u)
  BY <1>3 DEF Inbox
<1>7. /\ \A k, l \in 1..N : k < l /\ t[k].src = m /\ t[l].src = m => t[k].num < t[l].num
      /\ a # 0 => \A u \in (a + 1)..z : Waits(t, m, u)
  BY <1>3 DEF Inbox
<1>8. \A u : Waits(t, m, u) => Waits(s, m, u)
  BY <1>3, <1>4 DEF Waits
<1>9. ASSUME r.src # m PROVE Inbox(s, m, a, z)
  <2>1. /\ \A k \in 1..(N + 1) : s[k].src = m => a < s[k].num /\ s[k].num <= z
        /\ \A k \in 1..(N + 1) : s[k].src = m => \A u \in s[k].num..z : Waits(s, m, u)
    BY <1>4, <1>6, <1>8, <1>9
  <2>2. \A k, l \in 1..(N + 1) :
          k < l /\ s[k].src = m /\ s[l].src = m => s[k].num < s[l].num
    BY <1>4, <1>7, <1>9
  <2> QED BY <1>4, <1>7, <1>8, <2>1, <2>2 DEF Inbox
<1>10. ASSUME r.src = m, r.num = z + 1, a <= z PROVE Inbox(s, m, a, z + 1)
  <2>1. Waits(s, m, z + 1)
    BY <1>4, <1>10 DEF Waits
  <2>2. ASSUME NEW k \in 1..(N + 1), s[k].src = m
        PROVE  /\ a < s[k].num /\ s[k].num <= z + 1
               /\ \A u \in s[k].num..(z + 1) : Waits(s, m, u)
    <3>1. CASE k = N + 1
      BY <1>4, <1>10, <2>1, <3>1
    <3>2. CASE k \in 1..N
      <4>1. /\ s[k] = t[k] /\ t[k].num \in Nat /\ a < t[k].num /\ t[k].num <= z
            /\ \A u \in t[k].num..z : Waits(s, m, u)
        BY <1>4, <1>5, <1>6, <1>8, <2>2, <3>2
      <4>2. \A u \in t[k].num..(z + 1) : u = z + 1 \/ u \in t[k].num..z
        BY <4>1
      <4> QED BY <2>1, <4>1, <4>2
    <3> QED BY <1>4, <3>1, <3>2
  <2>3. ASSUME NEW k \in 1..(N + 1), NEW l \in 1..(N + 1), k < l, s[k].src = m, s[l].src = m
        PROVE  s[k].num < s[l].num
    <3>1. k \in 1..N
      BY <1>4, <2>3
    <3>2. CASE l \in 1..N
      BY <1>4, <1>7, <2>3, <3>1, <3>2
    <3>3. CASE l = N + 1
      <4>1. s[k] = t[k] /\ t[k].num \in Nat /\ t[k].num <= z /\ s[l] = r
        BY <1>4, <1>5, <1>6, <2>3, <3>1, <3>3
      <4> QED BY <1>10, <4>1
    <3> QED BY <1>4, <3>2, <3>3
  <2>4. a # 0 => \A u \in (a + 1)..(z + 1) : Waits(s, m, u)
    <3>1. \A u \in (a + 1)..(z + 1) : u = z + 1 \/ u \in (a + 1)..z
      OBVIOUS
    <3> QED BY <1>7, <1>8, <2>1, <3>1
  <2> QED BY <1>4, <2>2, <2>3, <2>4 DEF Inbox
<1> QED BY <1>2, <1>9, <1>10

LEMMA InboxTail ==
  ASSUME NEW t \in Seq(Update), t # <<>>, NEW m, NEW a \in Nat, NEW z \in Nat,
         Inbox(t, m, a, z)
  PROVE  /\ Head(t).src # m => Inbox(Tail(t), m, a, z)
         /\ Head(t).src = m => /\ Head(t).num <= z
                               /\ Inbox(Tail(t), m, Head(t).num, z)
<1>1. Tail(t) \in Seq(Update) /\ Len(t) \in Nat \ {0} /\ Head(t) \in Update
  OBVIOUS
<1>2. PICK s \in Seq(Update), r \in Update : s = Tail(t) /\ r = Head(t)
  BY <1>1
<1>3. PICK N \in Nat : Len(t) = N + 1
  <2>1. PICK l \in Nat \ {0} : l = Len(t)
    BY <1>1
  <2>2. l - 1 \in Nat /\ l = (l - 1) + 1
    OBVIOUS
  <2> QED BY <2>1, <2>2
<1>4. /\ Len(s) = N /\ t[1] = r
      /\ \A k \in 1..N : s[k] = t[k + 1] /\ k + 1 \in 1..(N + 1)
      /\ \A k \in 1..(N + 1) : k = 1 \/ (k - 1 \in 1..N /\ s[k - 1] = t[k])
      /\ 1 \in 1..(N + 1)
  BY <1>2, <1>3
<1>5. r.num \in Nat /\ \A k \in 1..(N + 1) : t[k].num \in Nat
  <2>1. \A k \in 1..(N + 1) : t[k] \in Update
    BY <1>3
  <2> QED BY <2>1 DEF Update
<1>6. /\ \A k \in 1..(N + 1) : t[k].src = m => a < t[k].num /\ t[k].num <= z
      /\ \A k \in 1..(N + 1) : t[k].src = m => \A u \in t[k].num..z : Waits(t, m, u)
  BY <1>3 DEF Inbox
<1>7. /\ \A k, l \in 1..(N + 1) :
           k < l /\ t[k].src = m /\ t[l].src = m => t[k].num < t[l].num
      /\ a # 0 => \A u \in (a + 1)..z : Waits(t, m, u)
  BY <1>3 DEF Inbox
<1>8. \A u : Waits(t, m, u) => Waits(s, m, u) \/ (r.src = m /\ r.num = u)
  BY <1>3, <1>4 DEF Waits
<1>9. \A k, l \in 1..N : k < l /\ s[k].src = m /\ s[l].src = m => s[k].num < s[l].num
  <2> SUFFICES ASSUME NEW k \in 1..N, NEW l \in 1..N, k < l, s[k].src = m, s[l].src = m
               PROVE  s[k].num < s[l].num
    OBVIOUS
  <2>1. k + 1 \in 1..(N + 1) /\ l + 1 \in 1..(N + 1) /\ k + 1 < l + 1
    OBVIOUS
  <2>2. s[k] = t[k + 1] /\ s[l] = t[l + 1]
    BY <1>4
  <2>3. t[k + 1].src = m /\ t[l + 1].src = m
    BY <2>2
  <2>4. t[k + 1].num < t[l + 1].num
    BY <1>7, <2>1, <2>3
  <2> QED BY <2>2, <2>4
<1>10. ASSUME r.src # m PROVE Inbox(s, m, a, z)
  <2>1. ASSUME NEW k \in 1..N, s[k].src = m
        PROVE  /\ a < s[k].num /\ s[k].num <= z
               /\ \A u \in s[k].num..z : Waits(s, m, u)
    <3>1. k + 1 \in 1..(N + 1) /\ s[k] = t[k + 1]
      BY <1>4
    <3>2. /\ a < t[k + 1].num /\ t[k + 1].num <= z
          /\ \A u \in t[k + 1].num..z : Waits(t, m, u)
      BY <1>6, <2>1, <3>1
    <3> QED BY <1>8, <1>10, <3>1, <3>2
  <2>2. a # 0 => \A u \in (a + 1)..z : Waits(s, m, u)
    BY <1>7, <1>8, <1>10
  <2> QED BY <1>4, <1>9, <2>1, <2>2 DEF Inbox
<1>11. ASSUME r.src = m PROVE r.num <= z /\ Inbox(s, m, r.num, z)
  <2>1. /\ a < r.num /\ r.num <= z
        /\ \A u \in r.num..z : Waits(t, m, u)
    BY <1>4, <1>6, <1>11
  <2>2. ASSUME NEW k \in 1..N, s[k].src = m
        PROVE  /\ r.num < s[k].num /\ s[k].num <= z
               /\ \A u \in s[k].num..z : Waits(s, m, u)
    <3>0. k + 1 \in 1..(N + 1) /\ 1 < k + 1
      OBVIOUS
    <3>1. s[k] = t[k + 1] /\ s[k].num \in Nat
      BY <1>4, <1>5, <3>0
    <3>2. r.num < s[k].num /\ s[k].num <= z
      <4>1. t[k + 1].src = m /\ t[1].src = m
        BY <1>4, <1>11, <2>2, <3>1
      <4>2. t[1].num < t[k + 1].num /\ t[k + 1].num <= z
        BY <1>4, <1>6, <1>7, <3>0, <4>1
      <4> QED BY <1>4, <3>1, <4>2
    <3>3. \A u \in s[k].num..z : Waits(t, m, u) /\ u # r.num
      BY <1>5, <1>6, <2>2, <3>0, <3>1, <3>2
    <3> QED BY <1>8, <3>2, <3>3
  <2>3. \A u \in (r.num + 1)..z : Waits(s, m, u)
    <3>1. \A u \in (r.num + 1)..z : u \in r.num..z /\ u # r.num
      BY <1>5
    <3> QED BY <1>8, <2>1, <3>1
  <2> QED BY <1>4, <1>9, <2>1, <2>2, <2>3 DEF Inbox
<1> QED BY <1>2, <1>10, <1>11

-----------------------------------------------------------------------------
(* The initial state, and each action in turn *)
LEMMA UInit == Init => UInv
<1> SUFFICES ASSUME Init PROVE UInv
  OBVIOUS
<1>1. DataInv
  BY NeighbourTable DEF Init, DataInv
<1>2. ASSUME NEW n \in Nodes PROVE Sessions(n) /\ Unserved(n) /\ Silent(n) /\ Source(n)
  <2>1. Zeros(toSon[n]) = 0
    <3>1. {k \in 1..Len(<<>>) : <<>>[k] = 0} = {}
      OBVIOUS
    <3> QED BY <3>1, FS_EmptySet DEF Init, Zeros
  <2>2. \A m \in Nbrs(n) : m \in Nodes /\ n \in Nbrs(m)
    BY NeighbourTable
  <2> QED BY <2>1, <2>2 DEF Init, Sessions, Unserved, Silent, Source
<1>3. ASSUME NEW m \in Nodes, NEW n \in Nbrs(m) PROVE PairInv(m, n)
  BY DEF Init, PairInv, Flow
<1> QED BY <1>1, <1>2, <1>3 DEF UInv

(* What is on its way between two nodes stays as it is when only others act. *)
LEMMA PairKept ==
  ASSUME NEW m, NEW n, PairInv(m, n), Flow(m, n)' => Flow(m, n),
         Put(m, n)' = Put(m, n), link'[m][n] = link[m][n],
         sip'[n] = sip[n], last'[n][m] = last[n][m], toSip'[n] = toSip[n]
  PROVE  PairInv(m, n)'
BY DEF PairInv, Channel, Receiver, Taken

LEMMA PutKept ==
  ASSUME NEW m, NEW n, at'[m] = at[m], hand'[m] = hand[m]
  PROVE  Put(m, n)' = Put(m, n)
BY DEF Put, Due

LEMMA FlowKept ==
  ASSUME NEW m, NEW n, UNCHANGED <<son, conn>> PROVE Flow(m, n)' <=> Flow(m, n)
BY DEF Flow, Gone

(* Steps of the start and of the end of a SON *)
LEMMA ControlStep ==
  ASSUME UInv,
         UNCHANGED <<hand, link, sip, session, served, live, toSon, toSip, sent, last>>,
         \A p \in Nodes :
           /\ son[p] = "dead" => son'[p] = "dead"
           /\ son'[p] = "up" => son[p] \in {"join", "up"} /\ at'[p] = at[p]
           /\ son'[p] \in {"off", "delay", "connect", "join"} =>
                son[p] \in {"off", "delay", "connect", "join"}
           /\ son'[p] = "join" => at'[p] = 0,
         \A m \in Nodes : \A n \in Nbrs(m) :
           Flow(m, n)' => Flow(m, n) \/ son[m] = "join"
  PROVE  UInv'
<1>1. DataInv'
  BY DEF UInv, DataInv
<1>2. ASSUME NEW n \in Nodes PROVE Sessions(n)' /\ Unserved(n)' /\ Silent(n)'
  <2>1. Sessions(n) /\ Unserved(n) /\ Silent(n)
    BY DEF UInv
  <2> QED BY <2>1 DEF Sessions, Unserved, Silent, SipReads
<1>3. ASSUME NEW n \in Nodes PROVE Source(n)'
  <2> SUFFICES ASSUME son'[n] = "up" PROVE Source(n)'
    BY DEF Source
  <2>1. Source(n) /\ Silent(n) /\ at'[n] = at[n]
    BY DEF UInv
  <2>2. CASE son[n] = "up"
    BY <2>1, <2>2 DEF Source
  <2>3. CASE son[n] = "join"
    <3>1. hand[n] = 0 /\ sent[n] = 0 /\ toSon[n] = <<>> /\ at[n] = 0
      BY <2>1, <2>3 DEF Silent
    <3>2. Len(gnt[n]) \in Nat
      BY NeighbourTable
    <3>3. Stock(<<>>, 0, 0)
      BY DEF Stock
    <3> QED BY <2>1, <3>1, <3>2, <3>3 DEF Source
  <2> QED BY <2>2, <2>3
<1>4. ASSUME NEW m \in Nodes, NEW n \in Nbrs(m) PROVE PairInv(m, n)'
  <2> SUFFICES ASSUME Flow(m, n)' PROVE Channel(m, n)' /\ Receiver(m, n)'
    BY DEF PairInv
  <2>1. at'[m] = at[m] /\ son[m] \in {"join", "up"}
    BY DEF Flow
  <2>2. CASE Flow(m, n)
    <3>1. PairInv(m, n) /\ Put(m, n)' = Put(m, n)
      BY <2>1, PutKept DEF UInv
    <3> QED BY <2>2, <3>1, PairKept DEF PairInv
  <2>3. CASE son[m] = "join"
    <3>1. /\ hand[m] = 0 /\ at[m] = 0 /\ link[m][n] = <<>> /\ last[n][m] = 0
          /\ \A k \in 1..Len(toSip[n]) : toSip[n][k].src # m
      BY <2>3 DEF UInv, Silent
    <3>2. Put(m, n)' = 0 /\ Len(link'[m][n]) = 0
      BY <2>1, <3>1 DEF Put, Due
    <3>3. Taken(m, n)' = 0
      BY <3>2 DEF Taken
    <3>4. Channel(m, n)'
      BY <3>2, <3>3 DEF Channel
    <3>5. Receiver(m, n)'
      BY <3>1, <3>3, InboxNone DEF Receiver
    <3> QED BY <3>4, <3>5
  <2> QED BY <2>2, <2>3
<1> QED BY <1>1, <1>2, <1>3, <1>4 DEF UInv

LEMMA EntryValue ==
  ASSUME TypeInv, NEW n \in Nodes, NEW m \in Nbrs(n), NEW v,
         conn' = [conn EXCEPT ![n][m] = v]
  PROVE  \A p \in Nodes : \A q \in Nbrs(p) :
           conn'[p][q] = IF p = n /\ q = m THEN v ELSE conn[p][q]
<1>1. conn' = [conn EXCEPT ![n] = [conn[n] EXCEPT ![m] = v]]
  OBVIOUS
<1>2. DOMAIN conn = Nodes /\ conn[n] \in [Nbrs(n) -> {"none", "open", "closed"}]
  BY DEF TypeInv
<1> QED BY <1>1, <1>2

LEMMA FlowStep ==
  ASSUME NEW m \in Nodes, NEW n \in Nbrs(m), Flow(m, n)',
         son[m] \notin {"join"} => son[m] = "up",
         son[n] = "dead" => son'[n] = "dead",
         conn'[m][n] = conn[m][n] \/ son'[m] # "up" \/ conn'[m][n] # "open",
         conn'[n][m] = conn[n][m] \/ conn'[n][m] = "closed" \/ conn[n][m] = "none"
  PROVE  Flow(m, n) \/ son[m] = "join"
BY DEF Flow, Gone

LEMMA StartUpdates ==
  ASSUME IInv, UInv, NEW n \in Nodes,
         SonStart(n) \/ WaitNbrs(n) \/ StartUp(n)
  PROVE  UInv'
<1>0. UNCHANGED <<hand, link, sip, session, served, live, toSon, toSip, sent, last>>
  BY DEF SonStart, WaitNbrs, Listen, AcceptNbr, StartUp, DelayOver, ConnectNbr, ConnectEnd,
         Join, sipVars
<1>1. /\ \A p \in Nodes : p # n => son'[p] = son[p] /\ at'[p] = at[p]
      /\ son[n] = "dead" => son'[n] = "dead"
      /\ son'[n] = "up" => son[n] \in {"join", "up"} /\ at'[n] = at[n]
      /\ son'[n] \in {"off", "delay", "connect", "join"} =>
           son[n] \in {"off", "delay", "connect", "join"}
      /\ son'[n] = "join" => at'[n] = 0
  <2>0. TypeInv /\ Silent(n)
    BY DEF IInv, UInv
  <2>1. CASE SonStart(n)
    BY <2>0, <2>1 DEF SonStart, TypeInv
  <2>2. CASE WaitNbrs(n)
    BY <2>0, <2>2 DEF WaitNbrs, Listen, AcceptNbr, TypeInv, Silent
  <2>3. CASE DelayOver(n) \/ ConnectEnd(n) \/ Join(n)
    BY <2>0, <2>3 DEF DelayOver, ConnectEnd, Join, TypeInv, Silent
  <2>4. CASE ConnectNbr(n)
    BY <2>0, <2>4 DEF ConnectNbr, TypeInv
  <2> QED BY <2>1, <2>2, <2>3, <2>4 DEF StartUp
<1>2. \A p \in Nodes : \A q \in Nbrs(p) :
        \/ conn'[p][q] = conn[p][q]
        \/ conn[p][q] = "none" /\ son'[p] # "up"
  <2>0. TypeInv /\ NodeInv(n)
    BY DEF IInv
  <2>1. CASE UNCHANGED conn
    BY <2>1
  <2>2. CASE AcceptNbr(n)
    <3>1. PICK m : m = Head(backlog[n])
      OBVIOUS
    <3>2. /\ backlog[n] # <<>> /\ backlog[n] \in Seq(Nodes) /\ ~Waited(n)
          /\ conn' = [conn EXCEPT ![n][m] = "open"] /\ UNCHANGED son /\ Running(n)
      BY <2>0, <2>2, <3>1 DEF AcceptNbr, TypeInv
    <3>3. m = backlog[n][1] /\ 1 \in 1..Len(backlog[n])
      BY <3>1, <3>2
    <3>4. m \in Greater(n) /\ m \in Nbrs(n) /\ conn[n][m] = "none"
      BY <2>0, <3>3 DEF NodeInv, Queued, Linked, Greater
    <3>5. son[n] # "up"
      BY <2>0, <3>4 DEF NodeInv, Ended, Linked
    <3> QED BY <2>0, <3>2, <3>4, <3>5, EntryValue
  <2>3. CASE ConnectNbr(n)
    <3>1. PICK i \in Turn(n) : conn' = [conn EXCEPT ![n][gnt[n][i]] = "open"]
      BY <2>3 DEF ConnectNbr
    <3>2. son[n] = "connect" /\ UNCHANGED son /\ at[n] # 0
      BY <2>0, <2>3 DEF ConnectNbr, TypeInv
    <3>3. i \in 1..Len(gnt[n]) /\ at[n] <= i /\ gnt[n][i] < n
      BY <2>0, <3>2, TurnOrNone
    <3>4. gnt[n][i] \in Nbrs(n) /\ conn[n][gnt[n][i]] = "none"
      BY <2>0, <3>2, <3>3, NeighbourTable DEF NodeInv, Untried, Linked
    <3> QED BY <2>0, <3>1, <3>2, <3>4, EntryValue
  <2> QED BY <2>1, <2>2, <2>3
          DEF SonStart, WaitNbrs, Listen, StartUp, DelayOver, ConnectEnd, Join
<1>3. ASSUME NEW p \in Nodes, NEW q \in Nbrs(p), Flow(p, q)'
      PROVE  Flow(p, q) \/ son[p] = "join"
  <2>1. q \in Nodes /\ p \in Nbrs(q)
    BY NeighbourTable
  <2>2. son'[p] = "up"
    BY <1>3 DEF Flow
  <2> QED BY <1>1, <1>2, <1>3, <2>1, <2>2, FlowStep
<1>4. \A p \in Nodes :
        /\ son[p] = "dead" => son'[p] = "dead"
        /\ son'[p] = "up" => son[p] \in {"join", "up"} /\ at'[p] = at[p]
        /\ son'[p] \in {"off", "delay", "connect", "join"} =>
             son[p] \in {"off", "delay", "connect", "join"}
        /\ son'[p] = "join" => at'[p] = 0
  <2>1. \A p \in Nodes : Silent(p)
    BY DEF UInv
  <2> QED BY <1>1, <2>1 DEF Silent
<1>5. \A p \in Nodes : \A q \in Nbrs(p) : Flow(p, q)' => Flow(p, q) \/ son[p] = "join"
  BY <1>3
<1> QED BY <1>0, <1>4, <1>5, ControlStep

LEMMA EndUpdates ==
  ASSUME IInv, UInv, NEW n \in Nodes,
         \/ SonStop(n) \/ Stopping(n) \/ SendPktKilled(n)
         \/ \E m \in Nbrs(n) : ForwardKilled(n, m)
  PROVE  UInv'
<1>0. UNCHANGED <<hand, link, sip, session, served, live, toSon, toSip, sent, last>>
  BY DEF SonStop, Stopping, CloseNbr, SonExit, SendPktKilled, ForwardKilled, sipVars
<1>1. /\ \A p \in Nodes : p # n => son'[p] = son[p] /\ at'[p] = at[p]
      /\ son[n] = "dead" => son'[n] = "dead"
      /\ son'[n] \in {"stopping", "dead"}
  BY DEF SonStop, Stopping, CloseNbr, SonExit, SendPktKilled, ForwardKilled, IInv, TypeInv
<1>2. \A p \in Nodes : \A q \in Nbrs(p) : conn'[p][q] \in {conn[p][q], "closed"}
  <2>1. CASE UNCHANGED conn
    BY <2>1
  <2>2. CASE CloseNbr(n)
    <3>1. at[n] \in 1..Len(gnt[n]) /\ conn' = [conn EXCEPT ![n][gnt[n][at[n]]] = "closed"]
      BY <2>2, NeighbourTable DEF CloseNbr, IInv, TypeInv
    <3>2. gnt[n][at[n]] \in Nbrs(n)
      BY <3>1, NeighbourTable
    <3> QED BY <3>1, <3>2, EntryValue DEF IInv
  <2> QED BY <2>1, <2>2 DEF SonStop, Stopping, SonExit, SendPktKilled, ForwardKilled
<1>3. ASSUME NEW p \in Nodes, NEW q \in Nbrs(p), Flow(p, q)'
      PROVE  Flow(p, q)
  <2>1. q \in Nodes /\ p \in Nbrs(q)
    BY NeighbourTable
  <2>2. p # n /\ son[p] = "up"
    BY <1>1, <1>3 DEF Flow
  <2> QED BY <1>1, <1>2, <1>3, <2>1, <2>2 DEF Flow, Gone
<1>4. \A p \in Nodes :
        /\ son[p] = "dead" => son'[p] = "dead"
        /\ son'[p] = "up" => son[p] \in {"join", "up"} /\ at'[p] = at[p]
        /\ son'[p] \in {"off", "delay", "connect", "join"} =>
             son[p] \in {"off", "delay", "connect", "join"}
        /\ son'[p] = "join" => at'[p] = 0
  <2>1. \A p \in Nodes : Silent(p)
    BY DEF UInv
  <2> QED BY <1>1, <2>1 DEF Silent
<1>5. \A p \in Nodes : \A q \in Nbrs(p) : Flow(p, q)' => Flow(p, q) \/ son[p] = "join"
  BY <1>3
<1> QED BY <1>0, <1>4, <1>5, ControlStep

(* The part of a node that a step of another node leaves alone. *)
LEMMA NodeKept ==
  ASSUME NEW p \in Nodes, Sessions(p), Unserved(p), Silent(p), Source(p),
         son'[p] = son[p], at'[p] = at[p], hand'[p] = hand[p], sent'[p] = sent[p],
         sip'[p] = sip[p], session'[p] = session[p], served'[p] = served[p],
         live'[p] = live[p], toSon'[p] = toSon[p], toSip'[p] = toSip[p],
         last'[p] = last[p],
         son[p] \in {"off", "delay", "connect", "join"} =>
           \A q \in Nbrs(p) :
             /\ link'[p][q] = link[p][q] /\ last'[q][p] = last[q][p]
             /\ \A k \in 1..Len(toSip'[q]) : toSip'[q][k].src = p =>
                  \E l \in 1..Len(toSip[q]) : toSip[q][l].src = p
  PROVE  Sessions(p)' /\ Unserved(p)' /\ Silent(p)' /\ Source(p)'
<1>1. Sessions(p)' /\ Unserved(p)' /\ Source(p)'
  BY DEF Sessions, Unserved, Source, SipReads
<1>2. Silent(p)'
  BY DEF Silent
<1> QED BY <1>1, <1>2

LEMMA AcceptSipUpdates ==
  ASSUME IInv, UInv, NEW n \in Nodes, AcceptSip(n) PROVE UInv'
<1>1. /\ son[n] = "up" /\ ~live[n] /\ served[n] < session[n]
      /\ live' = [live EXCEPT ![n] = TRUE] /\ served' = [served EXCEPT ![n] = served[n] + 1]
      /\ UNCHANGED <<son, at, hand, conn, link, sip, session, toSon, sent, last, toSip>>
  BY DEF AcceptSip, sonVars, sipVars
<1>2. live'[n] /\ served'[n] = served[n] + 1
      /\ \A p \in Nodes : p # n => live'[p] = live[p] /\ served'[p] = served[p]
  BY <1>1 DEF IInv, TypeInv, UInv, DataInv
<1>3. DataInv'
  <2>1. served' \in [Nodes -> Nat]
    BY <1>1 DEF UInv, DataInv
  <2> QED BY SMTT(30), <1>1, <2>1 DEF UInv, DataInv
<1>4. ASSUME NEW p \in Nodes PROVE Sessions(p)' /\ Unserved(p)' /\ Silent(p)' /\ Source(p)'
  <2>0. Sessions(p) /\ Unserved(p) /\ Silent(p) /\ Source(p)
    BY DEF UInv
  <2>1. CASE p = n
    <3>1. served[n] \in Nat /\ session[n] \in Nat /\ toSon[n] \in Seq(Nat)
      BY DEF UInv, DataInv
    <3>2. Zeros(toSon[n]) \in Nat
      BY <3>1, ZerosAppend
    <3>3. Sessions(p)'
      BY <1>1, <1>2, <2>0, <2>1, <3>1, <3>2 DEF Sessions, Zeros
    <3> QED BY <1>1, <1>2, <2>0, <2>1, <3>3 DEF Unserved, Silent, Source, SipReads
  <2>2. CASE p # n
    BY <1>1, <1>2, <2>0, <2>2, NodeKept
  <2> QED BY <2>1, <2>2
<1>5. ASSUME NEW p \in Nodes, NEW q \in Nbrs(p) PROVE PairInv(p, q)'
  BY <1>1, PairKept, PutKept, FlowKept DEF UInv
<1> QED BY <1>3, <1>4, <1>5 DEF UInv

LEMMA SipGoneUpdates ==
  ASSUME IInv, UInv, NEW n \in Nodes, SipGone(n) PROVE UInv'
<1>1. /\ son[n] = "up" /\ live[n] /\ toSon[n] # <<>> /\ Head(toSon[n]) = 0
      /\ live' = [live EXCEPT ![n] = FALSE] /\ toSon' = [toSon EXCEPT ![n] = Tail(toSon[n])]
      /\ UNCHANGED <<son, at, hand, conn, link, sip, session, served, sent, last, toSip>>
  BY DEF SipGone, Fetch, sonVars
<1>2. /\ DataInv /\ toSon[n] \in Seq(Nat) /\ live \in [Nodes -> BOOLEAN]
      /\ Tail(toSon[n]) \in Seq(Nat)
  <2>1. DataInv /\ toSon[n] \in Seq(Nat)
    BY DEF UInv, DataInv
  <2>2. live \in [Nodes -> BOOLEAN]
    BY DEF IInv, TypeInv
  <2> QED BY <1>1, <2>1, <2>2
<1>3. /\ ~live'[n] /\ toSon'[n] = Tail(toSon[n])
      /\ \A p \in Nodes : p # n => live'[p] = live[p] /\ toSon'[p] = toSon[p]
  BY <1>1, <1>2 DEF DataInv
<1>4. DataInv'
  BY <1>1, <1>2 DEF DataInv
<1>5. ASSUME NEW p \in Nodes PROVE Sessions(p)' /\ Unserved(p)' /\ Silent(p)' /\ Source(p)'
  <2>0. Sessions(p) /\ Unserved(p) /\ Silent(p) /\ Source(p)
    BY DEF UInv
  <2>1. CASE p = n
    <3>1. served[n] \in Nat /\ session[n] \in Nat /\ hand[n] \in Nat /\ sent[n] \in Nat
      BY <1>2 DEF DataInv
    <3>2. /\ Zeros(toSon[n]) \in Nat /\ Zeros(toSon[n])' \in Nat
          /\ Zeros(toSon[n]) = Zeros(toSon[n])' + 1
      <4>1. Zeros(toSon[n])' = Zeros(Tail(toSon[n]))
        BY <1>3 DEF Zeros
      <4> QED BY <1>1, <1>2, <4>1, ZerosTail
    <3>3. Sessions(p)'
      <4>1. /\ session[n] + 1 = served[n] + Zeros(toSon[n]) + (IF sip[n] = "up" THEN 1 ELSE 0)
            /\ sip[n] \in {"off", "up", "dead"} /\ served[n] <= session[n]
        BY <1>1, <2>0, <2>1 DEF Sessions
      <4>2. session[n] + 0 = served[n] + Zeros(toSon[n])' + (IF sip[n] = "up" THEN 1 ELSE 0)
        BY <3>1, <3>2, <4>1
      <4> QED BY <1>1, <1>3, <2>1, <4>1, <4>2 DEF Sessions
    <3>4. ~SipReads(n)
      BY <1>1, <2>0, <2>1, <3>1, <3>2 DEF Sessions, SipReads
    <3>5. Unserved(p)'
      BY <1>1, <2>0, <2>1, <3>4 DEF Unserved
    <3>6. Source(p)'
      BY <1>1, <1>2, <1>3, <2>0, <2>1, <3>1, StockTail DEF Source
    <3> QED BY <1>1, <1>3, <2>0, <2>1, <3>3, <3>5, <3>6 DEF Silent
  <2>2. CASE p # n
    BY <1>1, <1>3, <2>0, <2>2, NodeKept
  <2> QED BY <2>1, <2>2
<1>6. ASSUME NEW p \in Nodes, NEW q \in Nbrs(p) PROVE PairInv(p, q)'
  BY <1>1, PairKept, PutKept, FlowKept DEF UInv
<1> QED BY <1>4, <1>5, <1>6 DEF UInv

LEMMA SomeNeighbour == ASSUME NEW n \in Nodes PROVE Len(gnt[n]) \in Nat /\ Len(gnt[n]) >= 1
<1>1. PICK k \in DOMAIN Topology : n \in {Topology[k][1], Topology[k][2]}
  BY DEF Nodes
<1>2. k \in Mine(n)
  BY <1>1 DEF Mine
<1>3. PICK i \in 1..Cardinality(Mine(n)) : Line(n, i) = k
  BY <1>2, LineIsANumbering
<1>4. Cardinality(Mine(n)) \in Nat /\ Cardinality(Mine(n)) >= 1
  BY <1>3, LineIsANumbering
<1>5. DOMAIN gnt[n] = 1..Cardinality(Mine(n))
  BY DEF gnt
<1>6. DOMAIN gnt[n] = 1..Len(gnt[n]) /\ Len(gnt[n]) \in Nat
  BY NeighbourTable
<1> QED BY <1>4, <1>5, <1>6

LEMMA GetPktUpdates ==
  ASSUME IInv, UInv, NEW n \in Nodes, GetPkt(n) PROVE UInv'
<1>1. /\ son[n] = "up" /\ at[n] = 0 /\ toSon[n] # <<>> /\ Head(toSon[n]) # 0
      /\ hand' = [hand EXCEPT ![n] = Head(toSon[n])] /\ at' = [at EXCEPT ![n] = 1]
      /\ toSon' = [toSon EXCEPT ![n] = Tail(toSon[n])]
      /\ UNCHANGED <<son, conn, link, sip, session, served, live, sent, last, toSip>>
  BY DEF GetPkt, Fetch
<1>2. /\ DataInv /\ toSon[n] \in Seq(Nat) /\ hand[n] \in Nat /\ sent[n] \in Nat
  BY DEF UInv, DataInv
<1>3. at \in [Nodes -> Nat]
  BY DEF IInv, TypeInv
<1>4. Tail(toSon[n]) \in Seq(Nat) /\ Head(toSon[n]) \in Nat
  BY <1>1, <1>2
<1>5. /\ hand'[n] = Head(toSon[n]) /\ toSon'[n] = Tail(toSon[n]) /\ at'[n] = 1
      /\ \A p \in Nodes : p # n =>
           hand'[p] = hand[p] /\ toSon'[p] = toSon[p] /\ at'[p] = at[p]
  BY <1>1, <1>2, <1>3 DEF DataInv
<1>6. DataInv'
  <2>1. hand' \in [Nodes -> Nat] /\ toSon' \in [Nodes -> Seq(Nat)]
    BY <1>1, <1>2, <1>4 DEF DataInv
  <2> QED BY SMTT(30), <1>1, <1>2, <2>1 DEF DataInv
<1>7. Stock(toSon[n], hand[n], sent[n])
  BY <1>1 DEF UInv, Source
<1>8. hand'[n] = hand[n] + 1 /\ Stock(toSon'[n], hand[n] + 1, sent[n])
  BY <1>1, <1>2, <1>5, <1>7, StockTail
<1>9. ASSUME NEW p \in Nodes PROVE Sessions(p)' /\ Unserved(p)' /\ Silent(p)' /\ Source(p)'
  <2>0. Sessions(p) /\ Unserved(p) /\ Silent(p) /\ Source(p)
    BY DEF UInv
  <2>1. CASE p = n
    <3>1. Zeros(toSon[n])' = Zeros(toSon[n])
      <4>1. Zeros(toSon[n])' = Zeros(Tail(toSon[n]))
        BY <1>5 DEF Zeros
      <4>2. Zeros(toSon[n]) = Zeros(Tail(toSon[n])) + 0 /\ Zeros(Tail(toSon[n])) \in Nat
        BY <1>1, <1>2, ZerosTail
      <4> QED BY <4>1, <4>2
    <3>2. Sessions(p)' /\ Unserved(p)'
      BY <1>1, <2>0, <2>1, <3>1 DEF Sessions, Unserved, SipReads
    <3>3. Source(p)'
      BY <1>1, <1>2, <1>5, <1>8, <2>1, SomeNeighbour DEF Source
    <3> QED BY <1>1, <2>1, <3>2, <3>3 DEF Silent
  <2>2. CASE p # n
    BY <1>1, <1>5, <2>0, <2>2, NodeKept
  <2> QED BY <2>1, <2>2
<1>10. ASSUME NEW p \in Nodes, NEW q \in Nbrs(p) PROVE PairInv(p, q)'
  <2>1. CASE p = n
    <3>1. PICK i \in 1..Len(gnt[n]) : gnt[n][i] = q
      BY <2>1, NeighbourTable
    <3>2. Due(n, q)' /\ ~Due(n, q)
      BY <1>1, <1>5, <3>1 DEF Due
    <3>3. Put(n, q)' = Put(n, q)
      BY <1>2, <1>5, <1>8, <3>2 DEF Put
    <3> QED BY <1>1, <2>1, <3>3, PairKept, FlowKept DEF UInv
  <2>2. CASE p # n
    BY <1>1, <1>5, <2>2, PairKept, PutKept, FlowKept DEF UInv
  <2> QED BY <2>1, <2>2
<1> QED BY <1>6, <1>9, <1>10 DEF UInv

LEMMA SendPktUpdates ==
  ASSUME IInv, UInv, NEW n \in Nodes, SendPkt(n) PROVE UInv'
<1>0. PICK m, p0 : m = gnt[n][at[n]] /\ p0 = [src |-> n, num |-> hand[n]]
  OBVIOUS
<1>1. /\ son[n] = "up" /\ at[n] # 0
      /\ at' = [at EXCEPT ![n] = IF at[n] < Len(gnt[n]) THEN at[n] + 1 ELSE 0]
      /\ UNCHANGED <<son, conn, hand, sip, session, served, live, toSon, sent, last, toSip>>
      /\ IF conn[n][m] = "none" \/ Gone(m, n) THEN UNCHANGED link
         ELSE link' = [link EXCEPT ![n][m] = Append(@, p0)]
  BY <1>0 DEF SendPkt, sipVars
<1>2. DataInv /\ hand[n] \in Nat /\ Source(n)
  BY DEF UInv, DataInv
<1>3. at[n] \in 1..Len(gnt[n]) /\ Len(gnt[n]) \in Nat /\ hand[n] # 0
  BY <1>1, <1>2, SomeNeighbour DEF Source
<1>4. /\ m \in Nbrs(n) /\ m \in Nodes /\ m # n
      /\ \A i \in 1..Len(gnt[n]) : gnt[n][i] = m => i = at[n]
  BY <1>0, <1>3, NeighbourTable
<1>5. /\ at'[n] = IF at[n] < Len(gnt[n]) THEN at[n] + 1 ELSE 0
      /\ \A p \in Nodes : p # n => at'[p] = at[p]
  BY <1>1 DEF IInv, TypeInv
<1>6. p0 \in Update
  BY <1>0, <1>2 DEF Update
<1>7. link[n][m] \in Seq(Update)
  BY <1>2, <1>4 DEF DataInv
<1>8. Append(link[n][m], p0) \in Seq(Update)
  BY <1>6, <1>7
<1>9. /\ DOMAIN link' = Nodes
      /\ \A p \in Nodes : link'[p] \in [Nbrs(p) -> Seq(Update)]
      /\ \A p \in Nodes : \A q \in Nbrs(p) : p # n \/ q # m => link'[p][q] = link[p][q]
      /\ link'[n][m] = IF conn[n][m] = "none" \/ Gone(m, n) THEN link[n][m]
                       ELSE Append(link[n][m], p0)
  <2>1. CASE conn[n][m] = "none" \/ Gone(m, n)
    BY <1>1, <1>2, <2>1 DEF DataInv
  <2>2. CASE ~(conn[n][m] = "none" \/ Gone(m, n))
    <3>1. link' = [link EXCEPT ![n] = [link[n] EXCEPT ![m] = Append(link[n][m], p0)]]
      BY <1>1, <2>2
    <3>2. link[n] \in [Nbrs(n) -> Seq(Update)] /\ DOMAIN link = Nodes
      BY <1>2 DEF DataInv
    <3>3. [link[n] EXCEPT ![m] = Append(link[n][m], p0)] \in [Nbrs(n) -> Seq(Update)]
      BY <1>8, <3>2
    <3> QED BY <1>2, <1>4, <2>2, <3>1, <3>2, <3>3 DEF DataInv
  <2> QED BY <2>1, <2>2
<1>10. /\ Len(link[n][m]) \in Nat /\ Len(Append(link[n][m], p0)) = Len(link[n][m]) + 1
       /\ Append(link[n][m], p0)[Len(link[n][m]) + 1] = p0
       /\ \A k \in 1..Len(link[n][m]) : Append(link[n][m], p0)[k] = link[n][m][k]
  BY <1>6, <1>7
<1>11. p0.src = n /\ p0.num = hand[n]
  BY <1>0
<1>12. DataInv'
  <2>1. ASSUME NEW p \in Nodes, NEW q \in Nbrs(p), NEW k \in 1..Len(link'[p][q])
        PROVE  link'[p][q][k].src = p
    <3>1. CASE link'[p][q] = link[p][q]
      <4>1. k \in 1..Len(link[p][q]) /\ link'[p][q][k] = link[p][q][k]
        BY <3>1
      <4> QED BY SMTT(30), <1>2, <4>1 DEF DataInv
    <3>2. CASE p = n /\ q = m /\ link'[n][m] = Append(link[n][m], p0)
      <4>1. k \in 1..Len(link[n][m]) \/ k = Len(link[n][m]) + 1
        BY <1>10, <3>2
      <4> QED BY SMTT(30), <1>2, <1>4, <1>10, <1>11, <3>2, <4>1 DEF DataInv
    <3> QED BY <1>9, <3>1, <3>2
  <2> QED BY <1>1, <1>2, <1>9, <2>1 DEF DataInv
<1>13. ASSUME NEW p \in Nodes PROVE Sessions(p)' /\ Unserved(p)' /\ Silent(p)' /\ Source(p)'
  <2>0. Sessions(p) /\ Unserved(p) /\ Silent(p) /\ Source(p)
    BY DEF UInv
  <2>1. CASE p = n
    <3>1. Sessions(p)' /\ Unserved(p)'
      BY <1>1, <2>0, <2>1 DEF Sessions, Unserved, SipReads, Zeros
    <3>2. Source(p)'
      BY <1>1, <1>3, <1>5, <2>0, <2>1 DEF Source
    <3> QED BY <1>1, <2>1, <3>1, <3>2 DEF Silent
  <2>2. CASE p # n
    BY <1>1, <1>5, <1>9, <2>0, <2>2, NodeKept
  <2> QED BY <2>1, <2>2
<1>14. ASSUME NEW p \in Nodes, NEW q \in Nbrs(p) PROVE PairInv(p, q)'
  <2>0. PairInv(p, q) /\ (Flow(p, q)' <=> Flow(p, q))
    BY <1>1, FlowKept DEF UInv
  <2>1. CASE p # n
    BY <1>1, <1>5, <1>9, <2>0, <2>1, PairKept, PutKept
  <2>2. CASE p = n /\ q # m
    <3>1. Due(n, q)' <=> Due(n, q)
      <4>1. gnt[n][at[n]] # q
        BY <1>0, <2>2
      <4> QED BY <1>3, <1>5, <4>1 DEF Due
    <3>2. Put(n, q)' = Put(n, q)
      BY <1>1, <3>1 DEF Put
    <3> QED BY <1>1, <1>9, <2>0, <2>2, <3>2, PairKept
  <2>3. CASE p = n /\ q = m
    <3> SUFFICES ASSUME Flow(n, m)' PROVE Channel(n, m)' /\ Receiver(n, m)'
      BY <2>3 DEF PairInv
    <3>1. Flow(n, m) /\ Channel(n, m) /\ Receiver(n, m)
      BY <2>0, <2>3 DEF PairInv
    <3>2. link'[n][m] = Append(link[n][m], p0)
      BY <1>9, <3>1 DEF Flow
    <3>3. Due(n, m) /\ ~Due(n, m)'
      <4>1. Due(n, m)
        BY <1>0, <1>3, <1>4 DEF Due
      <4>2. \A i \in at'[n]..Len(gnt[n]) : at'[n] # 0 => i \in 1..Len(gnt[n]) /\ i # at[n]
        BY <1>3, <1>5
      <4>3. ~Due(n, m)'
        BY <1>4, <4>2 DEF Due
      <4> QED BY <4>1, <4>3
    <3>4. Put(n, m) = hand[n] - 1 /\ Put(n, m)' = hand[n]
      BY <1>1, <3>3 DEF Put
    <3>5. Taken(n, m)' = Taken(n, m)
      <4>1. Len(link'[n][m]) = Len(link[n][m]) + 1
        BY <1>10, <3>2
      <4>2. /\ Taken(n, m)' = hand[n] - Len(link'[n][m])
            /\ Taken(n, m) = (hand[n] - 1) - Len(link[n][m])
        BY <3>4 DEF Taken
      <4> QED BY <1>2, <1>10, <4>1, <4>2
    <3>6. Channel(n, m)'
      <4>1. Taken(n, m) \in Nat /\ Taken(n, m) + Len(link[n][m]) + 1 = hand[n]
        <5>1. Taken(n, m) \in Nat /\ Taken(n, m) = (hand[n] - 1) - Len(link[n][m])
          BY <3>1, <3>4 DEF Channel, Taken
        <5>2. PICK l \in Nat : l = Len(link[n][m])
          BY <1>10
        <5>3. PICK t \in Nat, h \in Nat : t = Taken(n, m) /\ h = hand[n]
          BY <1>2, <5>1
        <5>4. t = (h - 1) - l
          BY <5>1, <5>2, <5>3
        <5>5. t + l + 1 = h
          BY <5>4
        <5> QED BY <5>1, <5>2, <5>3, <5>5
      <4>2. ASSUME NEW k \in 1..Len(link'[n][m])
            PROVE  link'[n][m][k].num = Taken(n, m) + k
        <5>1. CASE k \in 1..Len(link[n][m])
          BY <1>10, <3>1, <3>2, <5>1 DEF Channel
        <5>2. CASE k = Len(link[n][m]) + 1
          BY <1>10, <1>11, <3>2, <4>1, <5>2
        <5> QED BY <1>10, <3>2, <5>1, <5>2
      <4> QED BY <3>5, <4>1, <4>2 DEF Channel
    <3>7. Receiver(n, m)'
      BY <1>1, <3>1, <3>5 DEF Receiver
    <3> QED BY <3>6, <3>7
  <2> QED BY <2>1, <2>2, <2>3
<1> QED BY <1>12, <1>13, <1>14 DEF UInv

LEMMA ListenUpdates ==
  ASSUME IInv, UInv, NEW n \in Nodes, NEW m \in Nbrs(n), ListenToNeighbor(n, m) PROVE UInv'
<1>1. /\ son[n] \in {"up", "stopping"} /\ link[m][n] # <<>>
      /\ link' = [link EXCEPT ![m][n] = Tail(link[m][n])]
      /\ toSip' = IF SipReads(n) THEN [toSip EXCEPT ![n] = toSip[n] \o <<Head(link[m][n])>>]
                  ELSE toSip
      /\ UNCHANGED <<son, conn, at, hand, sip, session, served, live, toSon, sent, last>>
  BY DEF ListenToNeighbor, Hears, Forwarded, sipVars
<1>2. DataInv /\ m \in Nodes /\ n \in Nbrs(m) /\ m # n
  BY NeighbourTable DEF UInv
<1>3. link[m][n] \in Seq(Update) /\ toSip[n] \in Seq(Update)
  BY <1>2 DEF DataInv
<1>4. /\ Head(link[m][n]) \in Update /\ Tail(link[m][n]) \in Seq(Update)
      /\ Head(link[m][n]) = link[m][n][1] /\ 1 \in 1..Len(link[m][n])
  BY <1>1, <1>3
<1>5. PICK s \in Seq(Update), t \in Seq(Update), p0 \in Update :
        s = link[m][n] /\ t = toSip[n] /\ p0 = Head(link[m][n])
  BY <1>3, <1>4
<1>6. p0.src = m /\ s[1] = p0 /\ s # <<>> /\ \A k \in 1..Len(s) : s[k].src = m
  <2>1. \A k \in 1..Len(link[m][n]) : link[m][n][k].src = m
    BY <1>2 DEF DataInv
  <2> QED BY <1>1, <1>4, <1>5, <2>1
<1>7. PICK L \in Nat : Len(s) = L + 1
  <2>1. PICK l \in Nat \ {0} : l = Len(s)
    BY SMTT(30), <1>1, <1>5
  <2>2. l - 1 \in Nat /\ l = (l - 1) + 1
    OBVIOUS
  <2> QED BY <2>1, <2>2
<1>8. /\ Len(Tail(s)) = L /\ Tail(s) \in Seq(Update)
      /\ \A k \in 1..L : Tail(s)[k] = s[k + 1] /\ k + 1 \in 1..Len(s)
  BY <1>6, <1>7
<1>9. /\ t \o <<p0>> = Append(t, p0) /\ Append(t, p0) \in Seq(Update)
      /\ Len(t) \in Nat /\ Len(Append(t, p0)) = Len(t) + 1 /\ Append(t, p0)[Len(t) + 1] = p0
      /\ \A k \in 1..Len(t) : Append(t, p0)[k] = t[k]
  OBVIOUS
<1>10. /\ DOMAIN link' = Nodes
       /\ \A p \in Nodes : link'[p] \in [Nbrs(p) -> Seq(Update)]
       /\ \A p \in Nodes : \A q \in Nbrs(p) : p # m \/ q # n => link'[p][q] = link[p][q]
       /\ link'[m][n] = Tail(s)
  <2>1. link' = [link EXCEPT ![m] = [link[m] EXCEPT ![n] = Tail(s)]]
    BY <1>1, <1>5
  <2>2. link[m] \in [Nbrs(m) -> Seq(Update)] /\ DOMAIN link = Nodes
    BY <1>2 DEF DataInv
  <2>3. [link[m] EXCEPT ![n] = Tail(s)] \in [Nbrs(m) -> Seq(Update)]
    BY <1>8, <2>2
  <2> QED BY <1>2, <2>1, <2>2, <2>3 DEF DataInv
<1>11. /\ toSip' \in [Nodes -> Seq(Update)]
       /\ \A p \in Nodes : p # n => toSip'[p] = toSip[p]
       /\ toSip'[n] = IF SipReads(n) THEN Append(t, p0) ELSE t
  BY <1>1, <1>2, <1>5, <1>9 DEF DataInv
<1>12. \A p \in Nodes : \A k \in 1..Len(toSip'[p]) :
         \/ k \in 1..Len(toSip[p]) /\ toSip'[p][k] = toSip[p][k]
         \/ p = n /\ toSip'[p][k] = p0
  <2> SUFFICES ASSUME NEW p \in Nodes, NEW k \in 1..Len(toSip'[p])
               PROVE  \/ k \in 1..Len(toSip[p]) /\ toSip'[p][k] = toSip[p][k]
                      \/ p = n /\ toSip'[p][k] = p0
    OBVIOUS
  <2>1. CASE p # n \/ ~SipReads(n)
    BY <1>5, <1>11, <2>1
  <2>2. CASE p = n /\ SipReads(n)
    <3>1. k \in 1..Len(t) \/ k = Len(t) + 1
      BY <1>9, <1>11, <2>2
    <3> QED BY <1>5, <1>9, <1>11, <2>2, <3>1
  <2> QED BY <2>1, <2>2
<1>13. DataInv'
  <2>1. ASSUME NEW p \in Nodes, NEW q \in Nbrs(p), NEW k \in 1..Len(link'[p][q])
        PROVE  link'[p][q][k].src = p
    <3>1. CASE p # m \/ q # n
      <4>1. k \in 1..Len(link[p][q]) /\ link'[p][q][k] = link[p][q][k]
        BY <1>10, <3>1
      <4>2. link[p][q][k].src = p
        BY <1>2, <4>1 DEF DataInv
      <4> QED BY <4>1, <4>2
    <3>2. CASE p = m /\ q = n
      <4>1. k \in 1..L /\ link'[m][n][k] = s[k + 1] /\ k + 1 \in 1..Len(s)
        BY <1>8, <1>10, <3>2
      <4> QED BY <1>6, <3>2, <4>1
    <3> QED BY <3>1, <3>2
  <2>2. \A p \in Nodes : \A k \in 1..Len(toSip'[p]) : toSip'[p][k].src \in Nbrs(p)
    <3>1. \A p \in Nodes : \A k \in 1..Len(toSip[p]) : toSip[p][k].src \in Nbrs(p)
      BY <1>2 DEF DataInv
    <3>2. p0.src \in Nbrs(n)
      BY <1>6
    <3> QED BY <1>12, <3>1, <3>2
  <2> QED BY <1>1, <1>2, <1>10, <1>11, <2>1, <2>2 DEF DataInv
<1>14. ASSUME NEW p \in Nodes PROVE Sessions(p)' /\ Unserved(p)' /\ Silent(p)' /\ Source(p)'
  <2>0. Sessions(p) /\ Unserved(p) /\ Silent(p) /\ Source(p)
    BY DEF UInv
  <2>1. CASE p = n
    <3>1. SipReads(n)' <=> SipReads(n)
      BY <1>1 DEF SipReads
    <3>2. Unserved(p)'
      BY <1>1, <1>5, <1>11, <2>0, <2>1, <3>1 DEF Unserved
    <3>3. Sessions(p)' /\ Source(p)'
      BY <1>1, <2>0, <2>1 DEF Sessions, Source, Zeros
    <3> QED BY <1>1, <2>1, <3>2, <3>3 DEF Silent
  <2>2. CASE p # n
    <3>1. son[p] \in {"off", "delay", "connect", "join"} => p # m
      BY <1>1, <1>2, <2>0 DEF Silent
    <3>2. ASSUME p # m, NEW q \in Nbrs(p)
          PROVE  /\ link'[p][q] = link[p][q] /\ last'[q][p] = last[q][p]
                 /\ \A k \in 1..Len(toSip'[q]) : toSip'[q][k].src = p =>
                      \E l \in 1..Len(toSip[q]) : toSip[q][l].src = p
      <4>1. q \in Nodes
        BY NeighbourTable
      <4>2. link'[p][q] = link[p][q] /\ last'[q][p] = last[q][p]
        BY <1>1, <1>10, <3>2
      <4>3. \A k \in 1..Len(toSip'[q]) : toSip'[q][k].src = p =>
              k \in 1..Len(toSip[q]) /\ toSip[q][k].src = p
        BY <1>6, <1>12, <3>2, <4>1
      <4> QED BY <4>2, <4>3
    <3> QED BY <1>1, <1>11, <2>0, <2>2, <3>1, <3>2, NodeKept
  <2> QED BY <2>1, <2>2
<1>15. ASSUME NEW p \in Nodes, NEW q \in Nbrs(p) PROVE PairInv(p, q)'
  <2>0. PairInv(p, q) /\ (Flow(p, q)' <=> Flow(p, q)) /\ Put(p, q)' = Put(p, q)
    BY <1>1, FlowKept, PutKept DEF UInv
  <2>1. CASE q # n
    <3>1. q \in Nodes
      BY NeighbourTable
    <3> QED BY <1>1, <1>10, <1>11, <2>0, <2>1, <3>1, PairKept
  <2> SUFFICES ASSUME q = n, Flow(p, n)' PROVE Channel(p, n)' /\ Receiver(p, n)'
    BY <2>1 DEF PairInv
  <2>2. Channel(p, n) /\ Receiver(p, n)
    BY <2>0 DEF PairInv
  <2>3. last[n][p] \in Nat
    BY <1>2, NeighbourTable DEF DataInv
  <2>4. Taken(p, n) \in Nat
    BY <2>2 DEF Channel
  <2>5. PICK a \in Nat, z \in Nat : a = last[n][p] /\ z = Taken(p, n)
    BY <2>3, <2>4
  <2>6. sip[n] = "up" => a <= z /\ Inbox(t, p, a, z)
    BY <1>5, <2>2, <2>5 DEF Receiver
  <2>7. CASE p # m
    <3>1. Taken(p, n)' = z
      BY <1>10, <2>0, <2>5, <2>7 DEF Taken
    <3>2. Channel(p, n)'
      BY <1>10, <2>2, <2>5, <2>7, <3>1 DEF Channel
    <3>3. sip[n] = "up" => Inbox(toSip'[n], p, a, z)
      BY <1>6, <1>11, <2>6, <2>7, InboxAppend
    <3> QED BY <1>1, <2>5, <2>6, <3>1, <3>2, <3>3 DEF Receiver
  <2>8. CASE p = m
    <3>1. Taken(p, n)' = z + 1
      <4>1. Taken(m, n) = Put(m, n) - (L + 1) /\ Taken(m, n)' = Put(m, n) - L
        BY <1>5, <1>7, <1>8, <1>10, <2>0, <2>8 DEF Taken
      <4>2. Put(m, n) \in Int
        <5>1. hand[m] \in Nat
          BY <1>2 DEF DataInv
        <5> QED BY <5>1 DEF Put
      <4>3. PICK u \in Int : u = Put(m, n)
        BY <4>2
      <4> QED BY <2>5, <2>8, <4>1, <4>3
    <3>2. \A k \in 1..(L + 1) : s[k].num = z + k
      BY <1>5, <1>7, <2>2, <2>5, <2>8 DEF Channel
    <3>3. Channel(p, n)'
      <4>1. \A k \in 1..L : k + 1 \in 1..(L + 1) /\ z + (k + 1) = (z + 1) + k
        OBVIOUS
      <4>2. \A k \in 1..L : Tail(s)[k].num = (z + 1) + k
        BY <1>8, <3>2, <4>1
      <4>3. Len(link'[m][n]) = L /\ \A k \in 1..L : link'[m][n][k].num = (z + 1) + k
        BY <1>8, <1>10, <4>2
      <4>4. z + 1 \in Nat
        OBVIOUS
      <4> QED BY <2>8, <3>1, <4>3, <4>4 DEF Channel
    <3>4. p0.num = z + 1
      <4>1. 1 \in 1..(L + 1)
        OBVIOUS
      <4> QED BY <1>6, <3>2, <4>1
    <3>5. CASE SipReads(n)
      <4>1. sip[n] = "up" => a <= z + 1 /\ Inbox(toSip'[n], p, a, z + 1)
        BY <1>6, <1>11, <2>6, <2>8, <3>4, <3>5, InboxAppend
      <4> QED BY <1>1, <2>5, <3>1, <3>3, <4>1 DEF Receiver
    <3>6. CASE ~SipReads(n)
      <4>1. toSip[n] = <<>> /\ (sip[n] = "up" => last[n][m] = 0)
        BY <1>1, <1>2, <3>6 DEF UInv, Unserved
      <4>2. \A k \in 1..Len(toSip'[n]) : toSip'[n][k].src # m
        BY <1>5, <1>11, <3>6, <4>1
      <4>3. Inbox(toSip'[n], m, 0, z + 1)
        BY <4>2, InboxNone
      <4> QED BY <1>1, <2>8, <3>1, <3>3, <4>1, <4>3 DEF Receiver
    <3> QED BY <3>5, <3>6
  <2> QED BY <2>7, <2>8
<1> QED BY <1>13, <1>14, <1>15 DEF UInv

LEMMA PktHandlerUpdates ==
  ASSUME IInv, UInv, NEW n \in Nodes, PktHandler(n) PROVE UInv'
<1>1. /\ sip[n] = "up" /\ toSip[n] # <<>>
      /\ last' = [last EXCEPT ![n][Head(toSip[n]).src] = Head(toSip[n]).num]
      /\ toSip' = [toSip EXCEPT ![n] = Tail(toSip[n])]
      /\ UNCHANGED <<son, conn, link, at, hand, sip, session, served, live, toSon, sent>>
  BY DEF PktHandler, sonVars
<1>2. DataInv /\ toSip[n] \in Seq(Update)
  BY DEF UInv, DataInv
<1>3. /\ Head(toSip[n]) \in Update /\ Tail(toSip[n]) \in Seq(Update)
      /\ Head(toSip[n]) = toSip[n][1] /\ 1 \in 1..Len(toSip[n])
  BY <1>1, <1>2
<1>4. PICK t \in Seq(Update), r \in Update : t = toSip[n] /\ r = Head(toSip[n])
  BY <1>2, <1>3
<1>5. PICK m : m = r.src
  OBVIOUS
<1>6. m \in Nbrs(n) /\ r.num \in Nat
  <2>1. toSip[n][1].src \in Nbrs(n)
    BY <1>2, <1>3 DEF DataInv
  <2> QED BY <1>3, <1>4, <1>5, <2>1 DEF Update
<1>7. Head(t) = r /\ t # <<>> /\ \A k \in 1..Len(Tail(t)) : k + 1 \in 1..Len(t) /\ Tail(t)[k] = t[k + 1]
  BY <1>1, <1>4
<1>8. /\ toSip' \in [Nodes -> Seq(Update)] /\ toSip'[n] = Tail(t)
      /\ \A p \in Nodes : p # n => toSip'[p] = toSip[p]
  BY <1>1, <1>2, <1>3, <1>4 DEF DataInv
<1>9. /\ DOMAIN last' = Nodes /\ \A p \in Nodes : last'[p] \in [Nbrs(p) -> Nat]
      /\ \A p \in Nodes : p # n => last'[p] = last[p]
      /\ \A q \in Nbrs(n) : last'[n][q] = IF q = m THEN r.num ELSE last[n][q]
  <2>1. last' = [last EXCEPT ![n] = [last[n] EXCEPT ![m] = r.num]]
    BY <1>1, <1>4, <1>5
  <2>2. last[n] \in [Nbrs(n) -> Nat] /\ DOMAIN last = Nodes
    BY <1>2 DEF DataInv
  <2>3. [last[n] EXCEPT ![m] = r.num] \in [Nbrs(n) -> Nat]
    BY <1>6, <2>2
  <2> QED BY <1>2, <2>1, <2>2, <2>3 DEF DataInv
<1>10. \A p \in Nodes : \A k \in 1..Len(toSip'[p]) :
         \E l \in 1..Len(toSip[p]) : toSip'[p][k] = toSip[p][l]
  <2> SUFFICES ASSUME NEW p \in Nodes, NEW k \in 1..Len(toSip'[p])
               PROVE  \E l \in 1..Len(toSip[p]) : toSip'[p][k] = toSip[p][l]
    OBVIOUS
  <2>1. CASE p = n
    BY <1>4, <1>7, <1>8, <2>1
  <2>2. CASE p # n
    BY <1>8, <2>2
  <2> QED BY <2>1, <2>2
<1>11. DataInv'
  <2>1. \A p \in Nodes : \A k \in 1..Len(toSip[p]) : toSip[p][k].src \in Nbrs(p)
    BY <1>2 DEF DataInv
  <2>2. \A p \in Nodes : \A k \in 1..Len(toSip'[p]) : toSip'[p][k].src \in Nbrs(p)
    BY <1>10, <2>1
  <2>3. /\ DOMAIN link' = Nodes
        /\ \A p \in Nodes : link'[p] \in [Nbrs(p) -> Seq(Update)]
        /\ \A p \in Nodes : \A q \in Nbrs(p) : \A k \in 1..Len(link'[p][q]) :
             link'[p][q][k].src = p
    <3>1. link' = link
      BY <1>1
    <3> QED BY <1>2, <3>1 DEF DataInv
  <2>5. \A p \in Nodes : link'[p] \in [Nbrs(p) -> Seq(Update)] /\ last'[p] \in [Nbrs(p) -> Nat]
    BY <1>9, <2>3
  <2>4. /\ hand' \in [Nodes -> Nat] /\ sent' \in [Nodes -> Nat]
        /\ session' \in [Nodes -> Nat] /\ served' \in [Nodes -> Nat]
        /\ sip' \in [Nodes -> {"off", "up", "cut", "stopping", "dead"}]
        /\ toSon' \in [Nodes -> Seq(Nat)]
    BY <1>1, <1>2 DEF DataInv
  <2> QED BY <1>8, <1>9, <2>2, <2>3, <2>4, <2>5 DEF DataInv
<1>12. ASSUME NEW p \in Nodes PROVE Sessions(p)' /\ Unserved(p)' /\ Silent(p)' /\ Source(p)'
  <2>0. Sessions(p) /\ Unserved(p) /\ Silent(p) /\ Source(p)
    BY DEF UInv
  <2>1. CASE p = n
    <3>1. SipReads(n)' <=> SipReads(n)
      BY <1>1 DEF SipReads
    <3>2. Unserved(p)'
      BY <1>1, <2>0, <2>1, <3>1 DEF Unserved
    <3>3. Sessions(p)' /\ Source(p)'
      BY <1>1, <2>0, <2>1 DEF Sessions, Source, Zeros
    <3> QED BY <1>1, <2>0, <2>1, <3>2, <3>3 DEF Silent
  <2>2. CASE p # n
    <3>1. son[p] \in {"off", "delay", "connect", "join"} => p # m
      <4>1. n \in Nbrs(m)
        BY <1>6, NeighbourTable
      <4> QED BY <1>3, <1>4, <1>5, <2>0, <4>1 DEF Silent
    <3>2. ASSUME p # m, NEW q \in Nbrs(p)
          PROVE  /\ link'[p][q] = link[p][q] /\ last'[q][p] = last[q][p]
                 /\ \A k \in 1..Len(toSip'[q]) : toSip'[q][k].src = p =>
                      \E l \in 1..Len(toSip[q]) : toSip[q][l].src = p
      <4>1. q \in Nodes /\ p \in Nbrs(q)
        BY NeighbourTable
      <4> QED BY <1>1, <1>9, <1>10, <3>2, <4>1
    <3> QED BY <1>1, <1>8, <1>9, <2>0, <2>2, <3>1, <3>2, NodeKept
  <2> QED BY <2>1, <2>2
<1>13. ASSUME NEW p \in Nodes, NEW q \in Nbrs(p) PROVE PairInv(p, q)'
  <2>0. PairInv(p, q) /\ (Flow(p, q)' <=> Flow(p, q)) /\ Put(p, q)' = Put(p, q)
    BY <1>1, FlowKept, PutKept DEF UInv
  <2>00. q \in Nodes /\ p \in Nbrs(q)
    BY NeighbourTable
  <2>1. CASE q # n
    BY <1>1, <1>8, <1>9, <2>0, <2>00, <2>1, PairKept
  <2> SUFFICES ASSUME q = n, Flow(p, n)' PROVE Channel(p, n)' /\ Receiver(p, n)'
    BY <2>1 DEF PairInv
  <2>2. Channel(p, n) /\ Receiver(p, n) /\ Taken(p, n)' = Taken(p, n)
    BY <1>1, <2>0 DEF PairInv, Taken
  <2>3. last[n][p] \in Nat /\ Taken(p, n) \in Nat
    BY <1>2, <2>00, <2>2 DEF DataInv, Channel
  <2>4. last[n][p] <= Taken(p, n) /\ Inbox(t, p, last[n][p], Taken(p, n))
    BY <1>1, <1>4, <2>2 DEF Receiver
  <2>5. PICK a \in Nat, z \in Nat : a = last[n][p] /\ z = Taken(p, n)
    BY <2>3
  <2>6. last'[n][p] <= z /\ Inbox(Tail(t), p, last'[n][p], z)
    BY <1>5, <1>7, <1>9, <2>00, <2>4, <2>5, InboxTail
  <2>7. Channel(p, n)'
    BY <1>1, <2>2 DEF Channel
  <2> QED BY <1>8, <2>2, <2>5, <2>6, <2>7 DEF Receiver
<1> QED BY <1>11, <1>12, <1>13 DEF UInv

LEMMA SipStartUpdates ==
  ASSUME IInv, UInv, NEW n \in Nodes, SipStart(n) PROVE UInv'
<1>1. /\ sip[n] \in {"off", "dead"} /\ son[n] = "up"
      /\ sip' = [sip EXCEPT ![n] = "up"] /\ session' = [session EXCEPT ![n] = session[n] + 1]
      /\ last' = [last EXCEPT ![n] = [m \in Nbrs(n) |-> 0]]
      /\ UNCHANGED <<son, conn, link, at, hand, served, live, toSon, sent, toSip>>
  BY DEF SipStart, sonVars
<1>2. DataInv /\ session[n] \in Nat /\ served[n] \in Nat /\ toSon[n] \in Seq(Nat)
  BY DEF UInv, DataInv
<1>3. /\ sip'[n] = "up" /\ session'[n] = session[n] + 1
      /\ \A q \in Nbrs(n) : last'[n][q] = 0
      /\ \A p \in Nodes : p # n =>
           sip'[p] = sip[p] /\ session'[p] = session[p] /\ last'[p] = last[p]
  BY <1>1, <1>2 DEF DataInv
<1>4. DataInv'
  <2>1. session' \in [Nodes -> Nat] /\ sip' \in [Nodes -> {"off", "up", "cut", "stopping", "dead"}]
    BY <1>1, <1>2 DEF DataInv
  <2>2. DOMAIN last' = Nodes /\ \A p \in Nodes : last'[p] \in [Nbrs(p) -> Nat]
    BY <1>1, <1>2 DEF DataInv
  <2> QED BY <1>1, <1>2, <2>1, <2>2 DEF DataInv
<1>5. toSip[n] = <<>>
  BY <1>1 DEF UInv, Unserved, SipReads
<1>6. ASSUME NEW p \in Nodes PROVE Sessions(p)' /\ Unserved(p)' /\ Silent(p)' /\ Source(p)'
  <2>0. Sessions(p) /\ Unserved(p) /\ Silent(p) /\ Source(p)
    BY DEF UInv
  <2>1. CASE p = n
    <3>1. Zeros(toSon[n]) \in Nat
      BY <1>2, ZerosAppend
    <3>2. PICK zs \in Nat : zs = Zeros(toSon[n]) /\ zs = Zeros(toSon[n])'
      BY <1>1, <3>1 DEF Zeros
    <3>3. session[n] + (IF live[n] THEN 1 ELSE 0) = served[n] + zs + 0 /\ served[n] <= session[n]
      BY <1>1, <2>0, <2>1, <3>2 DEF Sessions
    <3>4. /\ session'[n] + (IF live[n] THEN 1 ELSE 0) = served[n] + zs + 1
          /\ served[n] <= session'[n]
      BY <1>2, <1>3, <3>3
    <3>5. Sessions(p)'
      BY <1>1, <1>3, <2>1, <3>2, <3>4 DEF Sessions
    <3>6. Unserved(p)'
      BY <1>1, <1>3, <1>5, <2>1 DEF Unserved
    <3>7. Source(p)'
      BY <1>1, <2>0, <2>1 DEF Source
    <3> QED BY <1>1, <2>1, <3>5, <3>6, <3>7 DEF Silent
  <2>2. CASE p # n
    <3>1. ASSUME son[p] \in {"off", "delay", "connect", "join"}, NEW q \in Nbrs(p)
          PROVE  last'[q][p] = last[q][p]
      <4>1. q \in Nodes /\ p \in Nbrs(q) /\ last[q][p] = 0
        BY <2>0, <3>1, NeighbourTable DEF Silent
      <4> QED BY <1>3, <4>1
    <3> QED BY <1>1, <1>3, <2>0, <2>2, <3>1, NodeKept
  <2> QED BY <2>1, <2>2
<1>7. ASSUME NEW p \in Nodes, NEW q \in Nbrs(p) PROVE PairInv(p, q)'
  <2>0. PairInv(p, q) /\ (Flow(p, q)' <=> Flow(p, q)) /\ Put(p, q)' = Put(p, q)
    BY <1>1, FlowKept, PutKept DEF UInv
  <2>1. q \in Nodes /\ p \in Nbrs(q)
    BY NeighbourTable
  <2>2. CASE q # n
    BY <1>1, <1>3, <2>0, <2>1, <2>2, PairKept
  <2>3. CASE q = n
    <3> SUFFICES ASSUME Flow(p, n)' PROVE Channel(p, n)' /\ Receiver(p, n)'
      BY <2>3 DEF PairInv
    <3>1. Channel(p, n) /\ Taken(p, n)' = Taken(p, n) /\ last'[n][p] = 0
      BY <1>1, <1>3, <2>0, <2>1, <2>3 DEF PairInv, Taken
    <3>2. Inbox(toSip'[n], p, 0, Taken(p, n))
      <4>1. \A k \in 1..Len(toSip'[n]) : toSip'[n][k].src # p
        BY <1>1, <1>5
      <4> QED BY <4>1, InboxNone
    <3>3. 0 <= Taken(p, n) /\ Channel(p, n)'
      BY <1>1, <3>1 DEF Channel
    <3> QED BY <3>1, <3>2, <3>3 DEF Receiver
  <2> QED BY <2>2, <2>3
<1> QED BY <1>4, <1>6, <1>7 DEF UInv

LEMMA RouteUpdateUpdates ==
  ASSUME IInv, UInv, NEW n \in Nodes, RouteUpdate(n) PROVE UInv'
<1>1. /\ sip[n] = "up" /\ sent' = [sent EXCEPT ![n] = sent[n] + 1]
      /\ toSon' = IF son[n] = "dead" THEN toSon
                  ELSE [toSon EXCEPT ![n] = Append(toSon[n], sent[n] + 1)]
      /\ UNCHANGED <<son, conn, link, at, hand, sip, session, served, live, last, toSip>>
  BY DEF RouteUpdate, sonVars
<1>2. DataInv /\ sent[n] \in Nat /\ hand[n] \in Nat /\ toSon[n] \in Seq(Nat)
  BY DEF UInv, DataInv
<1>3. sent[n] + 1 \in Nat /\ sent[n] + 1 # 0 /\ Append(toSon[n], sent[n] + 1) \in Seq(Nat)
  BY <1>2
<1>4. /\ sent'[n] = sent[n] + 1
      /\ son[n] # "dead" => toSon'[n] = Append(toSon[n], sent[n] + 1)
      /\ \A p \in Nodes : p # n => sent'[p] = sent[p] /\ toSon'[p] = toSon[p]
  BY <1>1, <1>2 DEF DataInv
<1>5. DataInv'
  <2>1. sent' \in [Nodes -> Nat] /\ toSon' \in [Nodes -> Seq(Nat)]
    BY <1>1, <1>2, <1>3 DEF DataInv
  <2> QED BY <1>1, <1>2, <2>1 DEF DataInv
<1>6. ASSUME NEW p \in Nodes PROVE Sessions(p)' /\ Unserved(p)' /\ Silent(p)' /\ Source(p)'
  <2>0. Sessions(p) /\ Unserved(p) /\ Silent(p) /\ Source(p)
    BY DEF UInv
  <2>1. CASE p = n
    <3>1. son[n] # "dead" => Zeros(toSon[n])' = Zeros(toSon[n])
      <4>1. son[n] # "dead" => Zeros(toSon[n])' = Zeros(Append(toSon[n], sent[n] + 1))
        BY <1>4 DEF Zeros
      <4>2. /\ Zeros(Append(toSon[n], sent[n] + 1)) = Zeros(toSon[n]) + 0
            /\ Zeros(toSon[n]) \in Nat
        BY <1>2, <1>3, ZerosAppend
      <4> QED BY <4>1, <4>2
    <3>2. Sessions(p)' /\ Unserved(p)'
      BY <1>1, <2>0, <2>1, <3>1 DEF Sessions, Unserved, SipReads
    <3>3. Source(p)'
      BY <1>1, <1>2, <1>4, <2>0, <2>1, StockAppend DEF Source
    <3> QED BY <1>1, <2>0, <2>1, <3>2, <3>3 DEF Silent
  <2>2. CASE p # n
    BY <1>1, <1>4, <2>0, <2>2, NodeKept
  <2> QED BY <2>1, <2>2
<1>7. ASSUME NEW p \in Nodes, NEW q \in Nbrs(p) PROVE PairInv(p, q)'
  BY <1>1, PairKept, PutKept, FlowKept DEF UInv
<1> QED BY <1>5, <1>6, <1>7 DEF UInv

LEMMA SipStopUpdates ==
  ASSUME IInv, UInv, NEW n \in Nodes, SipStop(n) PROVE UInv'
<1>1. /\ sip[n] \in {"up", "cut"}
      /\ sip' = [sip EXCEPT ![n] = IF sip[n] = "up" THEN "dead" ELSE "stopping"]
      /\ toSon' = IF sip[n] = "up" THEN [toSon EXCEPT ![n] = Append(toSon[n], 0)] ELSE toSon
      /\ toSip' = [toSip EXCEPT ![n] = <<>>]
      /\ UNCHANGED <<son, conn, link, at, hand, session, served, live, sent, last>>
  BY DEF SipStop, sonVars
<1>2. /\ DataInv /\ sent[n] \in Nat /\ hand[n] \in Nat /\ toSon[n] \in Seq(Nat)
      /\ session[n] \in Nat /\ served[n] \in Nat
  BY DEF UInv, DataInv
<1>3. Append(toSon[n], 0) \in Seq(Nat)
  BY <1>2
<1>4. /\ sip'[n] = (IF sip[n] = "up" THEN "dead" ELSE "stopping") /\ toSip'[n] = <<>>
      /\ sip[n] = "up" => toSon'[n] = Append(toSon[n], 0)
      /\ \A p \in Nodes : p # n =>
           sip'[p] = sip[p] /\ toSip'[p] = toSip[p] /\ toSon'[p] = toSon[p]
  BY <1>1, <1>2 DEF DataInv
<1>5. DataInv'
  <2>1. /\ toSon' \in [Nodes -> Seq(Nat)] /\ toSip' \in [Nodes -> Seq(Update)]
        /\ sip' \in [Nodes -> {"off", "up", "cut", "stopping", "dead"}]
    BY <1>1, <1>2, <1>3 DEF DataInv
  <2>2. \A p \in Nodes : \A k \in 1..Len(toSip'[p]) : toSip'[p][k].src \in Nbrs(p)
    <3>1. \A p \in Nodes : \A k \in 1..Len(toSip[p]) : toSip[p][k].src \in Nbrs(p)
      BY <1>2 DEF DataInv
    <3>2. 1..Len(toSip'[n]) = {}
      BY <1>4
    <3> QED BY <1>4, <3>1, <3>2
  <2> QED BY SMTT(30), <1>1, <1>2, <2>1, <2>2 DEF DataInv
<1>6. ASSUME NEW p \in Nodes PROVE Sessions(p)' /\ Unserved(p)' /\ Silent(p)' /\ Source(p)'
  <2>0. Sessions(p) /\ Unserved(p) /\ Silent(p) /\ Source(p)
    BY DEF UInv
  <2>1. CASE p = n
    <3>0. son[n] # "dead" => sip[n] = "up"
      BY <1>1, <2>0, <2>1 DEF Sessions
    <3>1. son[n] # "dead" => /\ Zeros(toSon[n])' = Zeros(toSon[n]) + 1
                             /\ Zeros(toSon[n]) \in Nat
      <4>1. son[n] # "dead" => Zeros(toSon[n])' = Zeros(Append(toSon[n], 0))
        BY <1>4, <3>0 DEF Zeros
      <4> QED BY <1>2, <4>1, ZerosAppend
    <3>2. Sessions(p)'
      <4>1. CASE son[n] = "dead"
        BY <1>1, <2>0, <2>1, <4>1 DEF Sessions
      <4>2. CASE son[n] # "dead"
        <5>1. PICK zs \in Nat : zs = Zeros(toSon[n]) /\ Zeros(toSon[n])' = zs + 1
          BY <3>1, <4>2
        <5>2. /\ session[n] + (IF live[n] THEN 1 ELSE 0) = served[n] + zs + 1
              /\ served[n] <= session[n]
          BY <2>0, <2>1, <3>0, <4>2, <5>1 DEF Sessions
        <5>3. session[n] + (IF live[n] THEN 1 ELSE 0) = served[n] + (zs + 1) + 0
          <6>1. PICK v \in Nat : v = served[n]
            BY <1>2
          <6>2. v + zs + 1 = v + (zs + 1) + 0
            OBVIOUS
          <6> QED BY <5>2, <6>1, <6>2
        <5> QED BY <1>1, <1>4, <2>1, <3>0, <4>2, <5>1, <5>2, <5>3 DEF Sessions
      <4> QED BY <4>1, <4>2
    <3>3. Unserved(p)'
      BY <1>4, <2>1 DEF Unserved
    <3>4. Source(p)'
      BY <1>1, <1>2, <1>4, <2>0, <2>1, <3>0, StockAppend DEF Source
    <3> QED BY <1>1, <2>0, <2>1, <3>2, <3>3, <3>4 DEF Silent
  <2>2. CASE p # n
    <3>1. \A q \in Nbrs(p) : \A k \in 1..Len(toSip'[q]) :
            k \in 1..Len(toSip[q]) /\ toSip'[q][k] = toSip[q][k]
      <4>1. \A q \in Nbrs(p) : q \in Nodes
        BY NeighbourTable
      <4> QED BY <1>4, <4>1
    <3> QED BY <1>1, <1>4, <2>0, <2>2, <3>1, NodeKept
  <2> QED BY <2>1, <2>2
<1>7. ASSUME NEW p \in Nodes, NEW q \in Nbrs(p) PROVE PairInv(p, q)'
  <2>0. /\ PairInv(p, q) /\ (Flow(p, q)' <=> Flow(p, q)) /\ Put(p, q)' = Put(p, q)
        /\ q \in Nodes
    BY <1>1, FlowKept, PutKept, NeighbourTable DEF UInv
  <2>1. CASE q # n
    BY <1>1, <1>4, <2>0, <2>1, PairKept
  <2>2. CASE q = n
    BY <1>1, <1>4, <2>0, <2>2 DEF PairInv, Channel, Receiver, Taken
  <2> QED BY <2>1, <2>2
<1> QED BY <1>5, <1>6, <1>7 DEF UInv

(* The ends of a SIP process whose SON is dead. *)
LEMMA SipEndUpdates ==
  ASSUME IInv, UInv, NEW n \in Nodes, RouteUpdateKilled(n) \/ PktHandlerEnd(n) PROVE UInv'
<1>1. /\ son[n] = "dead" /\ \E v \in {"dead", "cut"} : sip' = [sip EXCEPT ![n] = v]
      /\ UNCHANGED <<son, conn, link, at, hand, session, served, live, toSon, sent, last, toSip>>
  BY DEF RouteUpdateKilled, PktHandlerEnd, sonVars
<1>2. DataInv
  BY DEF UInv
<1>3. \A p \in Nodes : p # n => sip'[p] = sip[p]
  BY <1>1, <1>2 DEF DataInv
<1>4. DataInv'
  BY <1>1, <1>2 DEF DataInv
<1>5. ASSUME NEW p \in Nodes PROVE Sessions(p)' /\ Unserved(p)' /\ Silent(p)' /\ Source(p)'
  <2>0. Sessions(p) /\ Unserved(p) /\ Silent(p) /\ Source(p)
    BY DEF UInv
  <2>1. CASE p = n
    BY <1>1, <2>0, <2>1 DEF Sessions, Unserved, Silent, Source
  <2>2. CASE p # n
    BY <1>1, <1>3, <2>0, <2>2, NodeKept
  <2> QED BY <2>1, <2>2
<1>6. ASSUME NEW p \in Nodes, NEW q \in Nbrs(p) PROVE PairInv(p, q)'
  <2>0. /\ PairInv(p, q) /\ (Flow(p, q)' <=> Flow(p, q)) /\ Put(p, q)' = Put(p, q)
        /\ q \in Nodes
    BY <1>1, FlowKept, PutKept, NeighbourTable DEF UInv
  <2>1. CASE q # n
    BY <1>1, <1>3, <2>0, <2>1, PairKept
  <2>2. CASE q = n
    BY <1>1, <2>0, <2>2 DEF PairInv, Flow, Gone
  <2> QED BY <2>1, <2>2
<1> QED BY <1>4, <1>5, <1>6 DEF UInv

LEMMA UNext == IInv /\ UInv /\ [Next]_vars => UInv'
<1> SUFFICES ASSUME IInv, UInv, [Next]_vars PROVE UInv'
  OBVIOUS
<1>1. CASE UNCHANGED vars
  <2>0. UNCHANGED <<son, at, hand, conn, link, sip, session, toSon, sent, last, served, live, toSip>>
    BY <1>1 DEF vars, sonVars, sipVars
  <2>1. DataInv'
    BY <2>0 DEF UInv, DataInv
  <2>2. ASSUME NEW p \in Nodes PROVE Sessions(p)' /\ Unserved(p)' /\ Silent(p)' /\ Source(p)'
    BY <2>0, NodeKept DEF UInv
  <2>3. ASSUME NEW p \in Nodes, NEW q \in Nbrs(p) PROVE PairInv(p, q)'
    BY <2>0, PairKept, PutKept, FlowKept DEF UInv
  <2> QED BY <2>1, <2>2, <2>3 DEF UInv
<1>2. ASSUME NEW n \in Nodes, SonStart(n) \/ WaitNbrs(n) \/ StartUp(n) PROVE UInv'
  BY <1>2, StartUpdates
<1>3. ASSUME NEW n \in Nodes, WaitSip(n) PROVE UInv'
  BY <1>3, AcceptSipUpdates, GetPktUpdates, SipGoneUpdates, SendPktUpdates, EndUpdates
     DEF WaitSip
<1>4. ASSUME NEW n \in Nodes, NEW m \in Nbrs(n), Listener(n, m) PROVE UInv'
  BY <1>4, ListenUpdates, EndUpdates DEF Listener
<1>5. ASSUME NEW n \in Nodes, SonStop(n) \/ Stopping(n) PROVE UInv'
  BY <1>5, EndUpdates
<1>6. ASSUME NEW n \in Nodes, SipStart(n) \/ Daemon(n) \/ Handler(n) \/ SipStop(n) PROVE UInv'
  BY <1>6, SipStartUpdates, RouteUpdateUpdates, SipEndUpdates, PktHandlerUpdates,
     SipStopUpdates DEF Daemon, Handler
<1> QED BY <1>1, <1>2, <1>3, <1>4, <1>5, <1>6 DEF Next

(* The updates' invariant holds in every reachable state. *)
THEOREM InductiveUpdates == Spec => []UInv
<1> QED BY Inductive, UInit, UNext, PTL DEF Spec

(* The numbers on the way from m to n's SIP, place by place: up to z, the  *)
(* last one SON n took, behind it those between the SONs, in m's hand and  *)
(* in front of SON m, up to the last one sent.                             *)
LEMMA GapFree ==
  ASSUME UInv, NEW m \in Nodes, NEW n \in Nbrs(m), Flow(m, n)
  PROVE  \A a, b \in OnTheWay(m, n) : Ahead(a, b) =>
           a.num < b.num /\ \A u \in a.num..b.num : \E c \in OnTheWay(m, n) : c.num = u
<1>1. /\ DataInv /\ Unserved(n) /\ Source(m) /\ Channel(m, n) /\ Receiver(m, n)
      /\ n \in Nodes /\ m \in Nbrs(n)
  BY NeighbourTable DEF UInv, PairInv
<1>2. /\ link[m][n] \in Seq(Update) /\ toSip[n] \in Seq(Update) /\ toSon[m] \in Seq(Nat)
      /\ hand[m] \in Nat /\ sent[m] \in Nat /\ last[n][m] \in Nat /\ Taken(m, n) \in Nat
  BY <1>1 DEF DataInv, Channel
<1>3. PICK t \in Seq(Update), q \in Seq(Nat), a0 \in Nat :
        t = toSip[n] /\ q = toSon[m] /\ a0 = last[n][m]
  BY <1>2
<1>4. PICK z \in Nat, h \in Nat, e \in Nat, L \in Nat :
        z = Taken(m, n) /\ h = hand[m] /\ e = sent[m] /\ L = Len(link[m][n])
  BY <1>2
<1>5. z + L <= h /\ (IF Due(m, n) THEN h = z + L + 1 ELSE h = z + L)
  <2>1. z = (IF Due(m, n) THEN h - 1 ELSE h) - L
    BY <1>4 DEF Taken, Put
  <2> QED BY <2>1
<1>6. Stock(q, h, e)
  BY <1>1, <1>3, <1>4 DEF Source, Flow
<1>7. DOMAIN t = 1..Len(t) /\ DOMAIN q = 1..Len(q) /\ DOMAIN link[m][n] = 1..L
  BY <1>2, <1>3, <1>4
<1> DEFINE P1 == sip[n] = "up" /\ a0 # 0
           K2 == {k \in 1..Len(t) : t[k].src = m}
           K3 == 1..L
           P4 == Due(m, n)
           K5 == {k \in 1..Len(q) : q[k] # 0}
           R(i, k, v) == [zone |-> i, pos |-> k, num |-> v]
           W == OnTheWay(m, n)
<1>8. \A k \in 1..L : link[m][n][k].num = z + k
  BY <1>1, <1>4 DEF Channel
<1>9. \A c : c \in W <=> \/ P1 /\ c = R(1, 0, a0)
                         \/ \E k \in K2 : c = R(2, k, t[k].num)
                         \/ \E k \in K3 : c = R(3, k, z + k)
                         \/ P4 /\ c = R(4, 0, h)
                         \/ \E k \in K5 : c = R(5, k, q[k])
  BY <1>3, <1>4, <1>7, <1>8 DEF OnTheWay
<1>10. ASSUME NEW c \in W
       PROVE  \/ c.zone = 1 /\ P1 /\ c.pos = 0 /\ c.num = a0
              \/ c.zone = 2 /\ c.pos \in K2 /\ c.num = t[c.pos].num
              \/ c.zone = 3 /\ c.pos \in K3 /\ c.num = z + c.pos
              \/ c.zone = 4 /\ P4 /\ c.pos = 0 /\ c.num = h
              \/ c.zone = 5 /\ c.pos \in K5 /\ c.num = q[c.pos]
  <2>1. \A i, k, v : R(i, k, v).zone = i /\ R(i, k, v).pos = k /\ R(i, k, v).num = v
    OBVIOUS
  <2> HIDE DEF P1, K2, K3, P4, K5, W, R
  <2>2. CASE P1 /\ c = R(1, 0, a0)
    BY <2>1, <2>2
  <2>3. CASE \E k \in K2 : c = R(2, k, t[k].num)
    BY <2>1, <2>3
  <2>4. CASE \E k \in K3 : c = R(3, k, z + k)
    BY <2>1, <2>4
  <2>5. CASE P4 /\ c = R(4, 0, h)
    BY <2>1, <2>5
  <2>6. CASE \E k \in K5 : c = R(5, k, q[k])
    BY <2>1, <2>6
  <2> QED BY <1>9, <2>2, <2>3, <2>4, <2>5, <2>6
<1>11. /\ P1 => \E c \in W : c.num = a0
       /\ \A k \in K2 : \E c \in W : c.num = t[k].num
       /\ \A k \in K3 : \E c \in W : c.num = z + k
       /\ P4 => \E c \in W : c.num = h
       /\ \A k \in K5 : \E c \in W : c.num = q[k]
  <2>1. /\ P1 => R(1, 0, a0) \in W
        /\ \A k \in K2 : R(2, k, t[k].num) \in W
        /\ \A k \in K3 : R(3, k, z + k) \in W
        /\ P4 => R(4, 0, h) \in W
        /\ \A k \in K5 : R(5, k, q[k]) \in W
    BY <1>9
  <2>2. \A i, k, v : R(i, k, v).num = v
    OBVIOUS
  <2> HIDE DEF P1, K2, K3, P4, K5, W, R
  <2>3. P1 => \E c \in W : c.num = a0
    BY <2>1, <2>2
  <2>4. \A k \in K2 : \E c \in W : c.num = t[k].num
    BY <2>1, <2>2
  <2>5. \A k \in K3 : \E c \in W : c.num = z + k
    BY <2>1, <2>2
  <2>6. P4 => \E c \in W : c.num = h
    BY <2>1, <2>2
  <2>7. \A k \in K5 : \E c \in W : c.num = q[k]
    BY <2>1, <2>2
  <2> QED BY <2>3, <2>4, <2>5, <2>6, <2>7
(* What n's SIP has seen or will get *)
<1>12. P1 \/ K2 # {} => a0 <= z /\ Inbox(t, m, a0, z)
  <2>1. sip[n] = "up" => a0 <= z /\ Inbox(t, m, a0, z)
    BY <1>1, <1>3, <1>4 DEF Receiver
  <2>2. sip[n] # "up" => t = <<>>
    BY <1>1, <1>3 DEF Unserved, Flow, Gone, SipReads
  <2> QED BY <2>1, <2>2
<1>13. \A k \in K2 : t[k].num \in Nat /\ a0 < t[k].num /\ t[k].num <= z
  <2>1. \A k \in K2 : t[k] \in Update
    OBVIOUS
  <2> QED BY <1>12, <2>1 DEF Update, Inbox
<1>14. \A k, l \in K2 : k < l => t[k].num < t[l].num
  BY <1>12 DEF Inbox
<1>15. \A k \in K2 : \A u \in t[k].num..z : \E c \in W : c.num = u
  <2> SUFFICES ASSUME NEW k \in K2, NEW u \in t[k].num..z PROVE \E c \in W : c.num = u
    OBVIOUS
  <2>1. Waits(t, m, u)
    BY <1>12 DEF Inbox
  <2> QED BY <1>11, <2>1 DEF Waits
<1>16. P1 => \A u \in a0..z : \E c \in W : c.num = u
  <2> SUFFICES ASSUME P1, NEW u \in a0..z PROVE \E c \in W : c.num = u
    OBVIOUS
  <2>1. CASE u = a0
    BY <1>11, <2>1
  <2>2. CASE u # a0
    <3>1. u \in (a0 + 1)..z
      BY <2>2
    <3>2. Waits(t, m, u)
      BY <1>12, <3>1 DEF Inbox
    <3> QED BY <1>11, <3>2 DEF Waits
  <2> QED BY <2>1, <2>2
(* What n has not taken *)
<1>17. ASSUME NEW u \in (z + 1)..e PROVE \E c \in W : c.num = u
  <2>1. CASE u <= z + L
    <3>1. u - z \in 1..L /\ z + (u - z) = u
      BY <2>1
    <3> QED BY <1>11, <3>1
  <2>2. CASE u > z + L /\ u <= h
    BY <1>5, <1>11, <2>2
  <2>3. CASE u > h
    <3>1. \A v \in (h + 1)..e : \E k \in 1..Len(q) : q[k] = v
      BY <1>6 DEF Stock
    <3>2. PICK k \in 1..Len(q) : q[k] = u
      BY <2>3, <3>1
    <3>3. k \in K5
      BY <2>3, <3>2
    <3> QED BY <1>11, <3>2, <3>3
  <2> QED BY <2>1, <2>2, <2>3
<1>18. /\ h <= e
       /\ \A k \in K5 : q[k] \in Nat /\ h < q[k] /\ q[k] <= e
       /\ \A k, l \in K5 : k < l => q[k] < q[l]
  BY <1>6 DEF Stock
<1> HIDE DEF P1, K2, K3, P4, K5, W
<1>19. ASSUME NEW c \in W
       PROVE  /\ c.num \in Nat /\ c.num <= e
              /\ c.zone \in 1..2 => c.num <= z
              /\ c.zone = 3 => z < c.num /\ c.num <= z + L
              /\ c.zone = 4 => c.num = h /\ h = z + L + 1
              /\ c.zone = 5 => h < c.num
              /\ \A u \in c.num..e : \E d \in W : d.num = u
  <2>1. CASE c.zone \in 1..2
    <3>1. /\ c.num \in Nat /\ c.num <= z
          /\ \A u \in c.num..z : \E d \in W : d.num = u
      <4>1. CASE c.zone = 1
        BY <1>10, <1>12, <1>16, <4>1
      <4>2. CASE c.zone = 2
        <5>1. PICK k \in K2 : c.num = t[k].num
          BY SMTT(30), <1>10, <4>2
        <5> QED BY <1>13, <1>15, <5>1
      <4> QED BY <2>1, <4>1, <4>2
    <3>2. \A u \in c.num..e : u \in c.num..z \/ u \in (z + 1)..e
      BY <3>1
    <3> QED BY <1>5, <1>17, <1>18, <2>1, <3>1, <3>2
  <2>2. CASE c.zone \notin 1..2
    <3>1. /\ c.num \in Nat /\ c.num <= e /\ z < c.num
          /\ c.zone = 3 => c.num <= z + L
          /\ c.zone = 4 => c.num = h /\ h = z + L + 1
          /\ c.zone = 5 => h < c.num
      <4>1. CASE c.zone = 3
        <5>1. PICK k \in 1..L : c.pos = k /\ c.num = z + k
          BY <1>10, <4>1 DEF K3
        <5> QED BY <1>5, <1>18, <4>1, <5>1
      <4>2. CASE c.zone = 4
        BY SMTT(30), <1>5, <1>10, <1>18, <4>2 DEF P4
      <4>3. CASE c.zone = 5
        BY SMTT(30), <1>5, <1>10, <1>18, <4>3
      <4> QED BY <1>10, <2>2, <4>1, <4>2, <4>3
    <3>2. \A u \in c.num..e : u \in (z + 1)..e
      BY <3>1
    <3> QED BY <1>17, <2>2, <3>1, <3>2
  <2> QED BY <2>1, <2>2
<1>20. ASSUME NEW a \in W, NEW b \in W, Ahead(a, b) PROVE a.num < b.num
  <2>1. CASE a.zone = b.zone
    <3>1. a.pos < b.pos
      BY <1>10, <1>20, <2>1 DEF Ahead
    <3>2. CASE a.zone = 2
      <4>0. b.zone = 2
        BY <2>1, <3>2
      <4>1. PICK k \in K2 : a.pos = k /\ a.num = t[k].num
        BY <1>10, <3>2
      <4>2. PICK l \in K2 : b.pos = l /\ b.num = t[l].num
        BY <1>10, <4>0
      <4> QED BY <1>14, <3>1, <4>1, <4>2
    <3>3. CASE a.zone = 3
      <4>1. PICK k \in 1..L : a.pos = k /\ a.num = z + k
        BY <1>10, <3>3 DEF K3
      <4>2. PICK l \in 1..L : b.pos = l /\ b.num = z + l
        <5>1. b.zone = 3
          BY <2>1, <3>3
        <5> QED BY <1>10, <5>1 DEF K3
      <4> QED BY <3>1, <4>1, <4>2
    <3>4. CASE a.zone = 5
      <4>0. b.zone = 5
        BY <2>1, <3>4
      <4>1. PICK k \in K5 : a.pos = k /\ a.num = q[k]
        BY SMTT(30), <1>10, <3>4
      <4>2. PICK l \in K5 : b.pos = l /\ b.num = q[l]
        BY <1>10, <4>0
      <4> QED BY <1>18, <3>1, <4>1, <4>2
    <3>5. a.zone \notin {1, 4}
      BY <1>10, <2>1, <3>1
    <3> QED BY <1>10, <3>2, <3>3, <3>4, <3>5
  <2>2. CASE a.zone # b.zone
    <3>1. a.zone \in 1..5 /\ b.zone \in 1..5
      BY <1>10
    <3>2. a.zone < b.zone
      BY <1>20, <2>2, <3>1 DEF Ahead
    <3>3. CASE a.zone = 1 /\ b.zone = 2
      <4>1. a.num = a0
        BY <1>10, <3>3
      <4>2. PICK l \in K2 : b.num = t[l].num
        BY SMTT(30), <1>10, <3>3
      <4> QED BY <1>13, <4>1, <4>2
    <3>4. CASE ~(a.zone = 1 /\ b.zone = 2)
      <4>1. /\ a.num \in Nat
            /\ a.zone \in 1..2 => a.num <= z
            /\ a.zone = 3 => a.num <= z + L
            /\ a.zone = 4 => a.num = h
        BY <1>19
      <4>2. /\ b.num \in Nat
            /\ b.zone = 3 => z < b.num
            /\ b.zone = 4 => b.num = h /\ h = z + L + 1
            /\ b.zone = 5 => h < b.num
        BY <1>19
      <4>3. b.zone \in 3..5
        BY <3>1, <3>2, <3>4
      <4>4. CASE a.zone \in 1..2
        BY <1>5, <4>1, <4>2, <4>3, <4>4
      <4>5. CASE a.zone = 3
        <5>1. b.zone \in 4..5
          BY <3>1, <3>2, <4>5
        <5> QED BY <1>5, <4>1, <4>2, <4>5, <5>1
      <4>6. CASE a.zone = 4
        <5>1. b.zone = 5
          BY <3>1, <3>2, <4>6
        <5> QED BY <4>1, <4>2, <4>6, <5>1
      <4> QED BY <3>1, <3>2, <4>4, <4>5, <4>6
    <3> QED BY <3>3, <3>4
  <2> QED BY <2>1, <2>2
<1>21. ASSUME NEW a \in W, NEW b \in W, NEW u \in a.num..b.num PROVE \E c \in W : c.num = u
  <2>1. u \in a.num..e
    BY <1>19
  <2> QED BY <1>19, <2>1
<1> QED BY <1>20, <1>21 DEF W

(* What a SIP process sees of a running neighbour is an unbroken piece of  *)
(* what the neighbour's SIP processes sent, and what is on its way follows *)
(* it without a gap.                                                       *)
THEOREM UpdatesInOrder == Spec => []NoGap
<1>1. UInv => NoGap
  BY GapFree DEF NoGap, Flow
<1> QED BY <1>1, InductiveUpdates, PTL
=============================================================================
