-------------------------- MODULE GameServer_proofs --------------------------
(***************************************************************************)
(* Proofs about lab4's game platform, and about lab6's checksum, which     *)
(* needs the same sums.  First what the sum of a function is, and what     *)
(* becomes of it when one of its values changes.  Then the checksum, for   *)
(* any size of byte and of segment: a segment that was not damaged is      *)
(* never refused, and one damaged bit slips through only in the length.    *)
(* Then the platform, for two players: its state keeps its type, for any   *)
(* number of them; the threads of the wars, the connections in the tables  *)
(* and the clients agree; so every command of a client is answered once,   *)
(* but for one whose room holds an earlier connection; and credit is       *)
(* conserved.                                                              *)
(***************************************************************************)
EXTENDS GameServer, Checksum, FiniteSetTheorems, WellFoundedInduction,
        SequenceTheorems, TLAPS

-----------------------------------------------------------------------------
(* Induction over the naturals, for a set. *)
LEMMA SetInduction ==
  ASSUME NEW T, 0 \in T, \A n \in Nat : n \in T => n + 1 \in T
  PROVE  Nat \subseteq T
<1> DEFINE R == {ss \in Nat \X Nat : ss[1] < ss[2]}
           U == Nat \ T
<1>1. IsWellFoundedOn(R, Nat)
  BY NatLessThanWellFounded DEF OpToRel
<1>2. SUFFICES ASSUME U # {} PROVE FALSE
  OBVIOUS
<1>3. PICK x \in U : \A y \in U : ~ (<<y, x>> \in R)
  <2>1. U \subseteq Nat
    OBVIOUS
  <2> HIDE DEF R, U
  <2> QED BY <1>1, <1>2, <2>1, WFMin
<1>4. x # 0 /\ x \in Nat
  OBVIOUS
<1>5. x - 1 \in Nat /\ x - 1 < x /\ x - 1 + 1 = x
  BY <1>4
<1>6. x - 1 \in U
  BY <1>5
<1> QED BY <1>3, <1>4, <1>5, <1>6

AnyOf(s) == CHOOSE x \in s : TRUE

Rec(f, S, it) ==
  it = [s \in SUBSET S |-> IF s = {} THEN 0 ELSE f[AnyOf(s)] + it[s \ {AnyOf(s)}]]

LEMMA SumUnfolds ==
  ASSUME NEW f
  PROVE  FoldFunction(+, 0, f) = (CHOOSE it : Rec(f, DOMAIN f, it))[DOMAIN f]
BY DEF FoldFunction, FoldFunctionOnSet, MapThenFoldSet, Rec, AnyOf

LEMMA AnyOfRemoves ==
  ASSUME NEW S, IsFiniteSet(S), NEW s \in SUBSET S, s # {}
  PROVE  /\ AnyOf(s) \in s /\ s \ {AnyOf(s)} \in SUBSET S
         /\ Cardinality(s) \in Nat \ {0}
         /\ Cardinality(s \ {AnyOf(s)}) = Cardinality(s) - 1
<1>1. AnyOf(s) \in s
  BY DEF AnyOf
<1>2. IsFiniteSet(s) /\ Cardinality(s) \in Nat
  BY FS_Subset, FS_CardinalityType
<1>3. Cardinality(s) # 0
  BY <1>2, FS_EmptySet
<1> QED BY <1>1, <1>2, <1>3, FS_RemoveElement

LEMMA RecExists ==
  ASSUME NEW S, IsFiniteSet(S), NEW f \in [S -> Int]
  PROVE  \E it \in [SUBSET S -> Int] : Rec(f, S, it)
<1> DEFINE Sub(n) == {s \in SUBSET S : Cardinality(s) <= n}
           Value(g, s) == IF s = {} THEN 0 ELSE f[AnyOf(s)] + g[s \ {AnyOf(s)}]
           Good(g, n) == \A s \in Sub(n) : g[s] = Value(g, s)
           T == {n \in Nat : \E g \in [Sub(n) -> Int] : Good(g, n)}
<1>0. \A s \in SUBSET S : IsFiniteSet(s) /\ Cardinality(s) \in Nat
  BY FS_Subset, FS_CardinalityType
<1>1. 0 \in T
  <2>1. \A s \in Sub(0) : s = {}
    BY <1>0, FS_EmptySet
  <2>2. [s \in Sub(0) |-> 0] \in [Sub(0) -> Int] /\ Good([s \in Sub(0) |-> 0], 0)
    BY <2>1
  <2> HIDE DEF Sub, Good
  <2> QED BY <2>2
<1>2. ASSUME NEW n \in Nat, n \in T PROVE n + 1 \in T
  <2>1. PICK g \in [Sub(n) -> Int] : Good(g, n)
    BY <1>2
  <2> DEFINE h == [s \in Sub(n + 1) |-> Value(g, s)]
  <2>2. ASSUME NEW s \in Sub(n + 1), s # {}
        PROVE  AnyOf(s) \in S /\ s \ {AnyOf(s)} \in Sub(n) /\ s \ {AnyOf(s)} \in Sub(n + 1)
    <3>1. s \in SUBSET S /\ Cardinality(s) \in Nat /\ Cardinality(s) <= n + 1
      BY <1>0
    <3>2. /\ AnyOf(s) \in s /\ s \ {AnyOf(s)} \in SUBSET S
          /\ Cardinality(s \ {AnyOf(s)}) = Cardinality(s) - 1
      BY <2>2, <3>1, AnyOfRemoves
    <3> QED BY <3>1, <3>2
  <2>3. \A s \in Sub(n + 1) : Value(g, s) \in Int
    <3> SUFFICES ASSUME NEW s \in Sub(n + 1), s # {} PROVE f[AnyOf(s)] + g[s \ {AnyOf(s)}] \in Int
      OBVIOUS
    <3>1. f[AnyOf(s)] \in Int /\ g[s \ {AnyOf(s)}] \in Int
      <4> HIDE DEF Sub
      <4> QED BY <2>2
    <3> QED BY <3>1
  <2>4. h \in [Sub(n + 1) -> Int]
    <3> HIDE DEF Sub, Value
    <3> QED BY <2>3
  <2>5. Good(h, n + 1)
    <3> SUFFICES ASSUME NEW s \in Sub(n + 1) PROVE h[s] = Value(h, s)
      OBVIOUS
    <3>1. h[s] = Value(g, s)
      <4> HIDE DEF Sub, Value
      <4> QED OBVIOUS
    <3>2. CASE s = {}
      BY <3>1, <3>2
    <3>3. CASE s # {}
      <4>1. PICK t : t = s \ {AnyOf(s)}
        OBVIOUS
      <4>2. t \in Sub(n) /\ t \in Sub(n + 1)
        BY <2>2, <3>3, <4>1
      <4>3. g[t] = Value(g, t) /\ h[t] = Value(g, t)
        <5> HIDE DEF Sub, Value
        <5> QED BY <2>1, <4>2
      <4>4. h[t] = g[t]
        BY <4>3
      <4> HIDE DEF h
      <4> QED BY <3>1, <3>3, <4>1, <4>4
    <3> QED BY <3>2, <3>3
  <2> HIDE DEF Sub, Good, h
  <2> QED BY <2>4, <2>5
<1>3. Nat \subseteq T
  <2> HIDE DEF T
  <2> QED BY <1>1, <1>2, SetInduction
<1>4. PICK n \in Nat : n = Cardinality(S)
  BY FS_CardinalityType
<1>5. Sub(n) = SUBSET S
  BY <1>0, <1>4, FS_Subset
<1>6. PICK g \in [Sub(n) -> Int] : Good(g, n)
  <2> HIDE DEF Sub, Good
  <2> QED BY <1>3
<1>7. g \in [SUBSET S -> Int] /\ \A s \in SUBSET S : g[s] = Value(g, s)
  <2> HIDE DEF Value
  <2> QED BY <1>5, <1>6
<1>8. g = [s \in SUBSET S |-> Value(g, s)]
  <2> HIDE DEF Value
  <2> QED BY <1>7
<1> QED BY <1>7, <1>8 DEF Rec

(* The partial sums of f. *)
Partial(f) == CHOOSE it : Rec(f, DOMAIN f, it)

LEMMA PartialRec ==
  ASSUME NEW S, IsFiniteSet(S), NEW f \in [S -> Int]
  PROVE  /\ Partial(f)[{}] = 0
         /\ \A s \in SUBSET S : s # {} =>
              Partial(f)[s] = f[AnyOf(s)] + Partial(f)[s \ {AnyOf(s)}]
<1>1. PICK it \in [SUBSET S -> Int] : Rec(f, S, it)
  BY RecExists
<1>2. DOMAIN f = S
  OBVIOUS
<1>3. Rec(f, S, Partial(f))
  BY <1>1, <1>2 DEF Partial
<1> DEFINE p == Partial(f)
           V(s) == IF s = {} THEN 0 ELSE f[AnyOf(s)] + p[s \ {AnyOf(s)}]
<1>4. p = [s \in SUBSET S |-> V(s)]
  BY <1>3 DEF Rec
<1> HIDE DEF V, p
<1>5. \A s \in SUBSET S : p[s] = V(s)
  BY <1>4
<1>6. V({}) = 0 /\ \A s \in SUBSET S : s # {} => V(s) = f[AnyOf(s)] + p[s \ {AnyOf(s)}]
  BY DEF V
<1>7. {} \in SUBSET S
  OBVIOUS
<1>8. p[{}] = 0 /\ \A s \in SUBSET S : s # {} => p[s] = f[AnyOf(s)] + p[s \ {AnyOf(s)}]
  BY <1>5, <1>6, <1>7
<1> QED BY <1>8 DEF p

LEMMA PartialInt ==
  ASSUME NEW S, IsFiniteSet(S), NEW f \in [S -> Int]
  PROVE  \A s \in SUBSET S : Partial(f)[s] \in Int
<1> DEFINE T == {n \in Nat : \A s \in SUBSET S : Cardinality(s) = n => Partial(f)[s] \in Int}
<1>1. \A s \in SUBSET S : IsFiniteSet(s) /\ Cardinality(s) \in Nat
  BY FS_Subset, FS_CardinalityType
<1>2. 0 \in T
  <2>1. \A s \in SUBSET S : Cardinality(s) = 0 => s = {}
    BY <1>1, FS_EmptySet
  <2>2. Partial(f)[{}] \in Int
    BY PartialRec
  <2> QED BY <2>1, <2>2
<1>3. ASSUME NEW n \in Nat, n \in T PROVE n + 1 \in T
  <2>1. ASSUME NEW s \in SUBSET S, Cardinality(s) = n + 1 PROVE Partial(f)[s] \in Int
    <3>1. s # {}
      BY <2>1, FS_EmptySet
    <3>2. /\ AnyOf(s) \in s /\ s \ {AnyOf(s)} \in SUBSET S
          /\ Cardinality(s \ {AnyOf(s)}) = n
      <4>1. /\ AnyOf(s) \in s /\ s \ {AnyOf(s)} \in SUBSET S
            /\ Cardinality(s \ {AnyOf(s)}) = Cardinality(s) - 1
        BY <3>1, AnyOfRemoves
      <4> QED BY <4>1, <2>1
    <3>3. Partial(f)[s \ {AnyOf(s)}] \in Int /\ f[AnyOf(s)] \in Int
      BY <1>3, <3>2
    <3>4. Partial(f)[s] = f[AnyOf(s)] + Partial(f)[s \ {AnyOf(s)}]
      BY <3>1, PartialRec
    <3> HIDE DEF T
    <3> QED BY <3>3, <3>4
  <2> QED BY <2>1
<1>4. Nat \subseteq T
  <2> HIDE DEF T
  <2> QED BY <1>2, <1>3, SetInduction
<1> QED BY <1>4, <1>1

(* A partial sum does not depend on the order in which it is taken. *)
LEMMA PartialRemoves ==
  ASSUME NEW S, IsFiniteSet(S), NEW f \in [S -> Int], NEW s0 \in SUBSET S, NEW x0 \in s0
  PROVE  Partial(f)[s0] = f[x0] + Partial(f)[s0 \ {x0}]
<1> DEFINE T == {n \in Nat : \A s \in SUBSET S : \A x \in s :
                   Cardinality(s) = n => Partial(f)[s] = f[x] + Partial(f)[s \ {x}]}
<1>0. /\ \A s \in SUBSET S : IsFiniteSet(s) /\ Cardinality(s) \in Nat
      /\ \A s \in SUBSET S : Partial(f)[s] \in Int
      /\ \A x \in S : f[x] \in Int
      /\ \A s \in SUBSET S : s # {} =>
           Partial(f)[s] = f[AnyOf(s)] + Partial(f)[s \ {AnyOf(s)}]
  <2>1. \A s \in SUBSET S : IsFiniteSet(s) /\ Cardinality(s) \in Nat
    BY FS_Subset, FS_CardinalityType
  <2>2. \A s \in SUBSET S : Partial(f)[s] \in Int
    BY PartialInt
  <2>3. \A s \in SUBSET S : s # {} =>
          Partial(f)[s] = f[AnyOf(s)] + Partial(f)[s \ {AnyOf(s)}]
    BY PartialRec
  <2> QED BY <2>1, <2>2, <2>3
<1>1. 0 \in T
  <2>1. \A s \in SUBSET S : Cardinality(s) = 0 => s = {}
    BY <1>0, FS_EmptySet
  <2> QED BY <2>1
<1>2. ASSUME NEW n \in Nat, n \in T PROVE n + 1 \in T
  <2> SUFFICES ASSUME NEW s \in SUBSET S, NEW x \in s, Cardinality(s) = n + 1
               PROVE  Partial(f)[s] = f[x] + Partial(f)[s \ {x}]
    OBVIOUS
  <2>1. PICK y : y = AnyOf(s)
    OBVIOUS
  <2>2. /\ y \in s /\ s \ {y} \in SUBSET S /\ Cardinality(s \ {y}) = n
        /\ Partial(f)[s] = f[y] + Partial(f)[s \ {y}]
    <3>1. s # {}
      OBVIOUS
    <3>2. /\ y \in s /\ s \ {y} \in SUBSET S
          /\ Cardinality(s \ {y}) = Cardinality(s) - 1
      BY <2>1, <3>1, AnyOfRemoves
    <3>3. Partial(f)[s] = f[y] + Partial(f)[s \ {y}]
      BY <1>0, <2>1, <3>1
    <3>4. Cardinality(s) = n + 1
      OBVIOUS
    <3> HIDE DEF T
    <3> QED BY <3>2, <3>3, <3>4
  <2>3. CASE x = y
    BY <2>2, <2>3
  <2>4. CASE x # y
    <3>1. PICK r : r = s \ {x, y}
      OBVIOUS
    <3>2. /\ r = (s \ {y}) \ {x} /\ r = (s \ {x}) \ {y} /\ r \in SUBSET S
          /\ x \in s \ {y} /\ y \in s \ {x} /\ s \ {x} \in SUBSET S
      BY <2>2, <2>4, <3>1
    <3>3. Cardinality(s \ {x}) = n
      <4>1. IsFiniteSet(s) /\ x \in s
        BY <1>0
      <4>2. Cardinality(s \ {x}) = Cardinality(s) - 1
        BY <4>1, FS_RemoveElement
      <4> QED BY <4>2
    <3>4. Partial(f)[s \ {y}] = f[x] + Partial(f)[r]
      BY <1>2, <2>2, <3>2
    <3>5. Partial(f)[s \ {x}] = f[y] + Partial(f)[r]
      BY <1>2, <3>2, <3>3
    <3>6. f[x] \in Int /\ f[y] \in Int /\ Partial(f)[r] \in Int
      BY <1>0, <2>2, <3>2
    <3> QED BY <2>2, <3>4, <3>5, <3>6
  <2> QED BY <2>3, <2>4
<1>3. Nat \subseteq T
  <2> HIDE DEF T
  <2> QED BY <1>1, <1>2, SetInduction
<1> QED BY <1>0, <1>3

(* It is determined by the members of its set. *)
LEMMA PartialSame ==
  ASSUME NEW S, IsFiniteSet(S), NEW f \in [S -> Int], NEW g \in [S -> Int],
         NEW R \in SUBSET S, \A x \in R : f[x] = g[x]
  PROVE  Partial(f)[R] = Partial(g)[R]
<1> DEFINE T == {n \in Nat : \A s \in SUBSET R :
                   Cardinality(s) = n => Partial(f)[s] = Partial(g)[s]}
<1>0. \A s \in SUBSET R : IsFiniteSet(s) /\ Cardinality(s) \in Nat
  <2>1. \A s \in SUBSET R : s \subseteq S
    OBVIOUS
  <2> QED BY <2>1, FS_Subset, FS_CardinalityType
<1>f. \A s \in SUBSET S : s # {} =>
        Partial(f)[s] = f[AnyOf(s)] + Partial(f)[s \ {AnyOf(s)}]
  BY PartialRec
<1>g. \A s \in SUBSET S : s # {} =>
        Partial(g)[s] = g[AnyOf(s)] + Partial(g)[s \ {AnyOf(s)}]
  BY PartialRec
<1>1. 0 \in T
  <2>1. \A s \in SUBSET R : Cardinality(s) = 0 => s = {}
    BY <1>0, FS_EmptySet
  <2>2. Partial(f)[{}] = 0 /\ Partial(g)[{}] = 0
    BY PartialRec
  <2> QED BY <2>1, <2>2
<1>2. ASSUME NEW n \in Nat, n \in T PROVE n + 1 \in T
  <2> SUFFICES ASSUME NEW s \in SUBSET R, Cardinality(s) = n + 1
               PROVE  Partial(f)[s] = Partial(g)[s]
    OBVIOUS
  <2>1. s # {} /\ s \in SUBSET S
    BY FS_EmptySet
  <2>2. PICK r : r = s \ {AnyOf(s)}
    OBVIOUS
  <2>3. /\ AnyOf(s) \in s /\ r \in SUBSET R /\ Cardinality(r) = n
        /\ Partial(f)[s] = f[AnyOf(s)] + Partial(f)[r]
        /\ Partial(g)[s] = g[AnyOf(s)] + Partial(g)[r]
    <3>1. AnyOf(s) \in s /\ Cardinality(r) = Cardinality(s) - 1
      BY <2>1, <2>2, AnyOfRemoves
    <3>2. Partial(f)[s] = f[AnyOf(s)] + Partial(f)[r]
      BY <1>f, <2>1, <2>2
    <3>3. Partial(g)[s] = g[AnyOf(s)] + Partial(g)[r]
      BY <1>g, <2>1, <2>2
    <3>4. Cardinality(s) = n + 1
      OBVIOUS
    <3> HIDE DEF T
    <3> QED BY <2>2, <3>1, <3>2, <3>3, <3>4
  <2>4. Partial(f)[r] = Partial(g)[r]
    BY <1>2, <2>3
  <2> QED BY <2>3, <2>4
<1>3. Nat \subseteq T
  <2> HIDE DEF T
  <2> QED BY <1>1, <1>2, SetInduction
<1>4. Cardinality(R) \in Nat
  BY <1>0
<1> QED BY <1>3, <1>4

LEMMA TotalIsInt ==
  ASSUME NEW S, IsFiniteSet(S), NEW f \in [S -> Int]
  PROVE  Total(f) \in Int
<1>1. Total(f) = Partial(f)[S]
  BY SumUnfolds DEF Total, Partial
<1>2. Partial(f)[S] \in Int
  BY PartialInt
<1> QED BY <1>1, <1>2

LEMMA TotalSplits ==
  ASSUME NEW S, IsFiniteSet(S), NEW f \in [S -> Int], NEW x \in S
  PROVE  /\ Partial(f)[S \ {x}] \in Int
         /\ Total(f) = f[x] + Partial(f)[S \ {x}]
<1>1. Total(f) = Partial(f)[S]
  BY SumUnfolds DEF Total, Partial
<1>2. Partial(f)[S] = f[x] + Partial(f)[S \ {x}]
  BY PartialRemoves
<1>3. \A s \in SUBSET S : Partial(f)[s] \in Int
  BY PartialInt
<1>4. S \ {x} \in SUBSET S
  OBVIOUS
<1> QED BY <1>1, <1>2, <1>3, <1>4

(* A change of one value changes the sum by as much. *)
LEMMA TotalChanges ==
  ASSUME NEW S, IsFiniteSet(S), NEW f \in [S -> Int], NEW g \in [S -> Int],
         NEW x \in S, \A y \in S : y # x => f[y] = g[y]
  PROVE  /\ Total(f) \in Int
         /\ Total(g) = Total(f) - f[x] + g[x]
<1>1. PICK u \in Int : u = Partial(f)[S \ {x}] /\ Total(f) = f[x] + u
  <2>1. Partial(f)[S \ {x}] \in Int /\ Total(f) = f[x] + Partial(f)[S \ {x}]
    BY TotalSplits
  <2> QED BY <2>1
<1>2. PICK v \in Int : v = Partial(g)[S \ {x}] /\ Total(g) = g[x] + v
  <2>1. Partial(g)[S \ {x}] \in Int /\ Total(g) = g[x] + Partial(g)[S \ {x}]
    BY TotalSplits
  <2> QED BY <2>1
<1>3. u = v
  <2>1. \A y \in S \ {x} : f[y] = g[y]
    OBVIOUS
  <2>2. Partial(f)[S \ {x}] = Partial(g)[S \ {x}]
    BY <2>1, PartialSame
  <2> QED BY <1>1, <1>2, <2>2
<1>4. PICK a \in Int, b \in Int : a = f[x] /\ b = g[x]
  OBVIOUS
<1> QED BY <1>1, <1>2, <1>3, <1>4

-----------------------------------------------------------------------------
LEMMA DivisibleIs ==
  ASSUME NEW m \in Nat \ {0}, NEW n \in Int
  PROVE  n % m = 0 <=> \E q \in Int : n = q * m
<1>1. ASSUME n % m = 0 PROVE \E q \in Int : n = q * m
  BY <1>1
<1>2. ASSUME NEW q \in Int, n = q * m PROVE n % m = 0
  BY <1>2
<1> QED BY <1>1, <1>2

LEMMA SumDivisible ==
  ASSUME NEW m \in Nat \ {0}, NEW n \in Int, NEW k \in Int, n % m = 0, k % m = 0
  PROVE  (n + k) % m = 0
<1>1. PICK q \in Int : n = q * m
  BY DivisibleIs
<1>2. PICK r \in Int : k = r * m
  BY DivisibleIs
<1>3. q + r \in Int /\ n + k = (q + r) * m
  BY <1>1, <1>2
<1>4. n + k \in Int
  OBVIOUS
<1> QED BY <1>3, <1>4, DivisibleIs

LEMMA RestDivisible ==
  ASSUME NEW m \in Nat \ {0}, NEW n \in Int
  PROVE  n % m \in 0..(m - 1) /\ ((n % m) - n) % m = 0
<1>0. (n - (n % m)) % m = 0
  OBVIOUS
<1>1. PICK r \in 0..(m - 1) : r = n % m
  OBVIOUS
<1>2. (n - r) % m = 0
  BY <1>0, <1>1
<1>3. n - r \in Int /\ r - n \in Int
  OBVIOUS
<1>4. PICK q \in Int : n - r = q * m
  BY <1>2, <1>3, DivisibleIs
<1>5. 0 - q \in Int /\ r - n = (0 - q) * m
  BY <1>4
<1> QED BY <1>1, <1>3, <1>5, DivisibleIs
(* A sum of values of 0..K is at most as large as there are values, times K. *)
LEMMA PartialBounded ==
  ASSUME NEW S, IsFiniteSet(S), NEW f \in [S -> Int], NEW K \in Nat,
         \A x \in S : f[x] \in 0..K
  PROVE  \A s \in SUBSET S : Partial(f)[s] \in Nat /\ Partial(f)[s] <= Cardinality(s) * K
<1> DEFINE T == {n \in Nat : \A s \in SUBSET S : Cardinality(s) = n =>
                   Partial(f)[s] \in Nat /\ Partial(f)[s] <= n * K}
<1>0. /\ \A s \in SUBSET S : IsFiniteSet(s) /\ Cardinality(s) \in Nat
      /\ Partial(f)[{}] = 0
      /\ \A s \in SUBSET S : s # {} =>
           Partial(f)[s] = f[AnyOf(s)] + Partial(f)[s \ {AnyOf(s)}]
  <2>1. \A s \in SUBSET S : IsFiniteSet(s) /\ Cardinality(s) \in Nat
    BY FS_Subset, FS_CardinalityType
  <2>2. Partial(f)[{}] = 0
    BY PartialRec
  <2>3. \A s \in SUBSET S : s # {} =>
          Partial(f)[s] = f[AnyOf(s)] + Partial(f)[s \ {AnyOf(s)}]
    BY PartialRec
  <2> QED BY <2>1, <2>2, <2>3
<1>1. 0 \in T
  <2>1. \A s \in SUBSET S : Cardinality(s) = 0 => s = {}
    BY <1>0, FS_EmptySet
  <2>2. 0 * K = 0
    OBVIOUS
  <2>3. \A s \in SUBSET S : Cardinality(s) = 0 =>
          Partial(f)[s] \in Nat /\ Partial(f)[s] <= 0 * K
    <3> SUFFICES ASSUME NEW s \in SUBSET S, Cardinality(s) = 0
                 PROVE  Partial(f)[s] \in Nat /\ Partial(f)[s] <= 0 * K
      OBVIOUS
    <3>1. Partial(f)[s] = 0
      BY <1>0, <2>1
    <3> QED BY <2>2, <3>1
  <2> QED BY <2>3
<1>2. ASSUME NEW n \in Nat, n \in T PROVE n + 1 \in T
  <2>1. ASSUME NEW s \in SUBSET S, Cardinality(s) = n + 1
        PROVE  Partial(f)[s] \in Nat /\ Partial(f)[s] <= (n + 1) * K
    <3>1. s # {}
      BY <2>1, FS_EmptySet
    <3>2. PICK y : y = AnyOf(s)
      OBVIOUS
    <3>3. /\ y \in s /\ s \ {y} \in SUBSET S
          /\ Cardinality(s \ {y}) = Cardinality(s) - 1
      BY <3>1, <3>2, AnyOfRemoves
    <3>4. Cardinality(s \ {y}) = n
      BY <2>1, <3>3
    <3>5. Partial(f)[s \ {y}] \in Nat /\ Partial(f)[s \ {y}] <= n * K
      BY <1>2, <3>3, <3>4
    <3>6. PICK u \in Nat, v \in 0..K : u = Partial(f)[s \ {y}] /\ v = f[y] /\ u <= n * K
      BY <3>3, <3>5
    <3>7. Partial(f)[s] = v + u
      BY <1>0, <3>1, <3>2, <3>6
    <3>8. n * K \in Nat /\ (n + 1) * K = n * K + K
      OBVIOUS
    <3> HIDE DEF T
    <3> QED BY <3>6, <3>7, <3>8
  <2> QED BY <2>1
<1>3. Nat \subseteq T
  <2> HIDE DEF T
  <2> QED BY <1>1, <1>2, SetInduction
<1> QED BY <1>0, <1>3

LEMMA TotalBounded ==
  ASSUME NEW n \in Nat, NEW N \in Nat, n <= N, NEW f \in [1..n -> Int], NEW K \in Nat,
         \A x \in 1..n : f[x] \in 0..K
  PROVE  Total(f) \in Nat /\ Total(f) <= N * K
<1>1. IsFiniteSet(1..n) /\ Cardinality(1..n) = n
  BY FS_Interval
<1>2. Total(f) = Partial(f)[1..n]
  BY <1>1, SumUnfolds DEF Total, Partial
<1>3. Partial(f)[1..n] \in Nat /\ Partial(f)[1..n] <= n * K
  <2>1. \A s \in SUBSET (1..n) :
          Partial(f)[s] \in Nat /\ Partial(f)[s] <= Cardinality(s) * K
    BY <1>1, PartialBounded
  <2> QED BY <1>1, <2>1
<1>4. PICK d \in Nat : N = n + d
  BY n <= N
<1>5. N * K = n * K + d * K /\ d * K \in Nat /\ n * K \in Nat
  BY <1>4
<1>6. PICK t \in Nat : t = Partial(f)[1..n] /\ t <= n * K
  BY <1>3
<1> QED BY <1>2, <1>5, <1>6

-----------------------------------------------------------------------------
LEMMA Sizes ==
  /\ Base \in Nat /\ Base >= 2
  /\ Word \in Nat /\ Word >= 4 /\ Word = Base * Base
  /\ StructLen \in Nat /\ StructLen >= 4 /\ StructLen <= 2 * Word
  /\ StructLen % 2 = 0 /\ HdrLen = 4 /\ StructLen = 4 + MaxSegLen
<1>1. Base \in Nat /\ MaxSegLen \in Nat /\ MaxSegLen % 2 = 0 /\ StructLen <= 2 * Word
  BY ChecksumConstants
<1>2. Base >= 2
  <2>1. Bits \in Nat \ {0} /\ 0 \in 0..(Bits - 1)
    BY ChecksumConstants
  <2>2. 2^0 \in Nat \ {0} /\ 2 * 2^0 <= Base
    BY <2>1, ChecksumConstants
  <2>3. PICK p \in Nat \ {0} : p = 2^0
    BY <2>2
  <2>4. 2 * p <= Base
    BY <2>2, <2>3
  <2> QED BY <1>1, <2>3, <2>4
<1>3. Word = Base * Base
  BY DEF Word
<1>4. PICK b \in Nat : b = Base /\ b >= 2
  BY <1>1, <1>2
<1>5. b * b \in Nat /\ b * b >= 4
  BY <1>4
<1>6. HdrLen = 4 /\ StructLen = 4 + MaxSegLen
  BY DEF HdrLen, StructLen
<1>7. (4 + MaxSegLen) % 2 = 0
  BY <1>1
<1> QED BY <1>1, <1>2, <1>3, <1>4, <1>5, <1>6, <1>7

(* Two folds keep the value modulo Word - 1. *)
LEMMA FoldSame ==
  ASSUME NEW x \in Int
  PROVE  \E y \in Int, j \in Int : y = Fold(x) /\ x = y + j * (Word - 1)
<1>1. PICK W \in Nat : W = Word /\ W >= 4
  BY Sizes
<1>2. PICK q \in Int, r \in Int : q = x \div W /\ r = x % W
  BY <1>1
<1>3. x = W * q + r
  BY <1>1, <1>2
<1>4. x = (r + q) + q * (W - 1) /\ r + q \in Int
  BY <1>3
<1>5. Fold(x) = r + q
  BY <1>1, <1>2 DEF Fold
<1> QED BY <1>1, <1>4, <1>5

LEMMA FoldedSame ==
  ASSUME NEW x \in Int
  PROVE  Folded(x) \in Int /\ \E j \in Int : x = Folded(x) + j * (Word - 1)
<1>1. PICK m \in Int : m = Word - 1
  BY Sizes
<1>2. PICK y \in Int, i \in Int : y = Fold(x) /\ x = y + i * m
  BY <1>1, FoldSame
<1>3. PICK z \in Int, j \in Int : z = Fold(y) /\ y = z + j * m
  BY <1>1, FoldSame
<1>4. z = Folded(x)
  BY <1>2, <1>3 DEF Folded
<1>5. x = z + (i + j) * m /\ i + j \in Int
  BY <1>2, <1>3
<1> QED BY <1>1, <1>4, <1>5

(* Of a sum of at most Word words, they leave one word, zero only of zero. *)
LEMMA FoldedFits ==
  ASSUME NEW x \in Nat, x <= Word * (Word - 1)
  PROVE  /\ Folded(x) \in 0..(Word - 1)
         /\ Folded(x) = 0 <=> x = 0
<1>1. PICK W \in Nat : W = Word /\ W >= 4
  BY Sizes
<1>2. PICK q \in Int, r \in Int : q = x \div W /\ r = x % W
  BY <1>1
<1>3. x = W * q + r /\ r \in 0..(W - 1)
  BY <1>1, <1>2
<1>4. q \in 0..(W - 1)
  <2>1. q >= 0
    <3> SUFFICES ASSUME q <= -1 PROVE FALSE
      OBVIOUS
    <3>1. W * q <= W * (-1)
      BY <1>1
    <3> QED BY <1>3, <3>1
  <2>2. q <= W - 1
    <3> SUFFICES ASSUME q >= W PROVE FALSE
      OBVIOUS
    <3>1. W * q >= W * W
      BY <1>1
    <3>2. x <= W * (W - 1) /\ W * (W - 1) = W * W - W /\ W * W \in Int /\ W * q \in Int
      BY <1>1
    <3> QED BY <1>1, <1>3, <3>1, <3>2
  <2> QED BY <2>1, <2>2
<1>5. PICK y \in Nat : y = q + r /\ y <= 2 * W - 2
  BY <1>1, <1>3, <1>4
<1>6. Fold(x) = y
  BY <1>1, <1>2, <1>5 DEF Fold
<1>7. (y % W) + (y \div W) \in 0..(W - 1) /\ ((y % W) + (y \div W) = 0 <=> y = 0)
  <2>1. CASE y < W
    <3>1. y % W = y /\ y \div W = 0
      BY <1>1, <2>1
    <3> QED BY <1>1, <2>1, <3>1
  <2>2. CASE y >= W
    <3>1. PICK v \in Nat : y = W + v /\ v <= W - 2
      BY <1>1, <1>5, <2>2
    <3>2. y % W = v /\ y \div W = 1
      <4>1. PICK e \in Int, d \in 0..(W - 1) : e = y \div W /\ d = y % W /\ y = W * e + d
        BY <1>1
      <4>2. e = 1
        <5>1. W * e = W + (v - d)
          BY <3>1, <4>1
        <5>2. v - d <= W - 2 /\ v - d >= -(W - 1)
          BY <1>1, <3>1, <4>1
        <5>3. e >= 1
          <6> SUFFICES ASSUME e <= 0 PROVE FALSE
            OBVIOUS
          <6>1. W * e <= 0
            BY <1>1
          <6> QED BY <5>1, <5>2, <6>1
        <5>4. e <= 1
          <6> SUFFICES ASSUME e >= 2 PROVE FALSE
            OBVIOUS
          <6>1. W * e >= W * 2
            BY <1>1
          <6> QED BY <1>1, <5>1, <5>2, <6>1
        <5> QED BY <5>3, <5>4
      <4> QED BY <3>1, <4>1, <4>2
    <3> QED BY <1>1, <3>1, <3>2
  <2> QED BY <2>1, <2>2
<1>8. Folded(x) = (y % W) + (y \div W)
  BY <1>1, <1>6 DEF Folded, Fold
<1>9. y = 0 <=> x = 0
  BY <1>1, <1>3, <1>4, <1>5
<1> QED BY <1>1, <1>7, <1>8, <1>9

(* The checksum brings the folded sum to the word of all ones. *)
LEMMA SealAdds ==
  ASSUME NEW x \in Nat, x <= Word * (Word - 1),
         NEW y \in Nat, y <= Word * (Word - 1),
         y = x + ((Word - 1) - Folded(x))
  PROVE  Folded(y) = Word - 1
<1>1. PICK m \in Nat : m = Word - 1 /\ m >= 3
  BY Sizes
<1>2. PICK a \in 0..m : a = Folded(x)
  BY <1>1, FoldedFits
<1>3. PICK j \in Int : x = a + j * m
  BY <1>1, <1>2, FoldedSame
<1>4. PICK b \in 0..m : b = Folded(y) /\ (b = 0 <=> y = 0)
  BY <1>1, FoldedFits
<1>5. PICK k \in Int : y = b + k * m
  BY <1>1, <1>4, FoldedSame
<1>6. y = x + (m - a)
  BY <1>1, <1>2
<1>7. b = (j + 1 - k) * m
  BY <1>3, <1>5, <1>6
<1>8. PICK d \in Int : d = j + 1 - k
  OBVIOUS
<1>9. d \in {0, 1}
  <2>1. b = d * m
    BY <1>7, <1>8
  <2>2. d >= 0
    <3> SUFFICES ASSUME d <= -1 PROVE FALSE
      OBVIOUS
    <3>1. d * m <= (-1) * m
      BY <1>1
    <3> QED BY <1>1, <2>1, <3>1
  <2>3. d <= 1
    <3> SUFFICES ASSUME d >= 2 PROVE FALSE
      OBVIOUS
    <3>1. d * m >= 2 * m
      BY <1>1
    <3> QED BY <1>1, <2>1, <3>1
  <2> QED BY <2>2, <2>3
<1>10. b # 0
  <2> SUFFICES ASSUME b = 0 PROVE FALSE
    OBVIOUS
  <2>1. y = 0
    BY <1>4
  <2>2. x = 0 /\ a = m
    BY <1>6, <2>1
  <2>3. Folded(0) = 0
    <3>1. 0 <= Word * (Word - 1)
      BY <2>2
    <3> QED BY <3>1, FoldedFits
  <2> QED BY <1>1, <1>2, <2>2, <2>3
<1>11. b = m
  BY <1>7, <1>8, <1>9, <1>10
<1> QED BY <1>1, <1>4, <1>11

-----------------------------------------------------------------------------
(* The bytes of a segment: as they are sent, and with a bit turned over. *)
CkByte == 0..(Base - 1)
CkStruct == [1..StructLen -> Nat]
CkBytes == [1..StructLen -> CkByte]

LEMMA LengthIsNat ==
  ASSUME NEW s \in CkStruct
  PROVE  LengthOf(s) \in Nat /\ LengthOf(s) = s[1] + Base * s[2]
<1>1. s[1] \in Nat /\ s[2] \in Nat
  BY Sizes DEF CkStruct
<1>2. LengthOf(s) = s[1] + Base * s[2]
  BY DEF LengthOf, WordAt
<1>3. PICK b \in Nat, x \in Nat, y \in Nat : b = Base /\ x = s[1] /\ y = s[2]
  BY <1>1, Sizes
<1>4. x + b * y \in Nat
  OBVIOUS
<1> QED BY <1>2, <1>3, <1>4

LEMMA BytesAreStruct == CkBytes \subseteq CkStruct
BY Sizes DEF CkBytes, CkStruct, CkByte

(* The words that are summed. *)
LEMMA SumLenFacts ==
  ASSUME NEW s \in CkStruct, InStruct(s)
  PROVE  \E n \in Nat : /\ n = SumLen(s) \div 2 /\ 2 <= n /\ n <= Word
                        /\ 2 * n <= StructLen
                        /\ HdrLen + LengthOf(s) <= 2 * n
<1>1. PICK l \in Nat : l = LengthOf(s) /\ l <= MaxSegLen
  BY LengthIsNat DEF InStruct
<1>2. MaxSegLen \in Nat /\ MaxSegLen % 2 = 0
  BY ChecksumConstants
<1>3. PICK n \in Nat : 2 * n = 4 + l + (l % 2)
  <2>1. CASE l % 2 = 0
    <3>1. PICK k \in Nat : l = 2 * k
      BY <2>1
    <3> QED BY <2>1, <3>1
  <2>2. CASE l % 2 = 1
    <3>1. PICK k \in Nat : l = 2 * k + 1
      BY <2>2
    <3> QED BY <2>2, <3>1
  <2> QED BY <2>1, <2>2
<1>4. SumLen(s) = 2 * n
  BY <1>1, <1>3, Sizes DEF SumLen
<1>5. n = SumLen(s) \div 2
  BY <1>4
<1>6. l + (l % 2) <= MaxSegLen
  BY <1>1, <1>2
<1>7. 2 * n <= StructLen
  BY <1>2, <1>3, <1>6, Sizes
<1>8. n <= Word
  BY <1>7, Sizes
<1>9. 2 <= n /\ 4 + l <= 2 * n
  BY <1>3
<1> QED BY <1>1, <1>5, <1>7, <1>8, <1>9, Sizes

LEMMA WordsFacts ==
  ASSUME NEW s \in CkStruct, InStruct(s),
         NEW n \in Nat, n = SumLen(s) \div 2
  PROVE  /\ Words(s) \in [1..n -> Int]
         /\ \A k \in 1..n : Words(s)[k] = WordAt(s, k)
<1>1. n <= Word /\ 2 * n <= StructLen
  BY SumLenFacts
<1>2. Words(s) = [k \in 1..n |-> WordAt(s, k)]
  BY DEF Words
<1>3. ASSUME NEW k \in 1..n PROVE WordAt(s, k) \in Int
  <2>1. 2 * k - 1 \in 1..StructLen /\ 2 * k \in 1..StructLen
    BY <1>1, Sizes
  <2>2. s[2 * k - 1] \in Nat /\ s[2 * k] \in Nat
    BY <2>1 DEF CkStruct
  <2>3. PICK b \in Nat, x \in Nat, y \in Nat :
          b = Base /\ x = s[2 * k - 1] /\ y = s[2 * k]
    BY <2>2, Sizes
  <2>4. x + b * y \in Int
    OBVIOUS
  <2> QED BY <2>3, <2>4 DEF WordAt
<1> QED BY <1>2, <1>3

LEMMA SumIsTotal ==
  ASSUME NEW s
  PROVE  Sum(s) = Total(Words(s))
BY DEF Sum, Total

LEMMA SumChanges ==
  ASSUME NEW s \in CkStruct, NEW t \in CkStruct, InStruct(s),
         LengthOf(t) = LengthOf(s),
         NEW k \in 1..(SumLen(s) \div 2),
         \A i \in 1..StructLen : i # 2 * k - 1 /\ i # 2 * k => s[i] = t[i]
  PROVE  /\ Sum(s) \in Int
         /\ Sum(t) = Sum(s) - WordAt(s, k) + WordAt(t, k)
<1>1. PICK n \in Nat : n = SumLen(s) \div 2 /\ 2 * n <= StructLen
  BY SumLenFacts
<1>2. InStruct(t) /\ n = SumLen(t) \div 2
  BY <1>1 DEF InStruct, SumLen
<1>3. PICK f \in [1..n -> Int] : f = Words(s) /\ \A j \in 1..n : f[j] = WordAt(s, j)
  BY <1>1, WordsFacts
<1>4. PICK g \in [1..n -> Int] : g = Words(t) /\ \A j \in 1..n : g[j] = WordAt(t, j)
  BY <1>2, WordsFacts
<1>5. ASSUME NEW j \in 1..n, j # k PROVE f[j] = g[j]
  <2>1. 2 * j - 1 \in 1..StructLen /\ 2 * j \in 1..StructLen
    BY <1>1, Sizes
  <2>2. 2 * j - 1 # 2 * k - 1 /\ 2 * j - 1 # 2 * k /\ 2 * j # 2 * k - 1 /\ 2 * j # 2 * k
    BY <1>1, <1>5
  <2>3. s[2 * j - 1] = t[2 * j - 1] /\ s[2 * j] = t[2 * j]
    BY <2>1, <2>2
  <2> QED BY <1>3, <1>4, <2>3 DEF WordAt
<1>6. IsFiniteSet(1..n) /\ k \in 1..n
  BY <1>1, FS_Interval
<1>7. Total(f) \in Int /\ Total(g) = Total(f) - f[k] + g[k]
  <2>1. \A j \in 1..n : j # k => f[j] = g[j]
    BY <1>5
  <2> DEFINE S == 1..n
  <2>2. /\ IsFiniteSet(S) /\ k \in S /\ f \in [S -> Int] /\ g \in [S -> Int]
        /\ \A j \in S : j # k => f[j] = g[j]
    BY <1>6, <2>1
  <2> HIDE DEF S
  <2>3. Total(g) = Total(f) - f[k] + g[k]
    BY ONLY <2>2, TotalChanges, SMTT(30)
  <2>4. Total(f) \in Int
    <3>1. Partial(f)[S \ {k}] \in Int /\ Total(f) = f[k] + Partial(f)[S \ {k}]
      BY ONLY <2>2, TotalSplits
    <3>2. f[k] \in Int
      BY <2>2
    <3> QED BY <3>1, <3>2
  <2> QED BY <2>3, <2>4
<1>8. Sum(s) = Total(f) /\ Sum(t) = Total(g)
  BY <1>3, <1>4, SumIsTotal
<1> QED BY <1>3, <1>4, <1>6, <1>7, <1>8

LEMMA WordFits ==
  ASSUME NEW x \in CkByte, NEW y \in CkByte
  PROVE  x + Base * y \in 0..(Word - 1)
<1>1. PICK b \in Nat : b = Base /\ Word = b * b /\ b >= 2
  BY Sizes
<1>2. x \in 0..(b - 1) /\ y \in 0..(b - 1)
  BY <1>1 DEF CkByte
<1>3. b * y <= b * (b - 1) /\ b * y \in Nat /\ b * (b - 1) = b * b - b /\ b * b \in Nat
  BY <1>1, <1>2
<1> QED BY <1>1, <1>2, <1>3

LEMMA SumBounded ==
  ASSUME NEW s \in CkBytes, InStruct(s)
  PROVE  Sum(s) \in Nat /\ Sum(s) <= Word * (Word - 1)
<1>0. s \in CkStruct
  BY BytesAreStruct
<1>1. PICK n \in Nat : n = SumLen(s) \div 2 /\ n <= Word /\ 2 * n <= StructLen
  BY <1>0, SumLenFacts
<1>2. PICK f \in [1..n -> Int] : f = Words(s) /\ \A j \in 1..n : f[j] = WordAt(s, j)
  BY <1>0, <1>1, WordsFacts
<1>3. ASSUME NEW j \in 1..n PROVE f[j] \in 0..(Word - 1)
  <2>1. 2 * j - 1 \in 1..StructLen /\ 2 * j \in 1..StructLen
    BY <1>1, Sizes
  <2>2. s[2 * j - 1] \in CkByte /\ s[2 * j] \in CkByte
    BY <2>1 DEF CkBytes
  <2> QED BY <1>2, <2>2, WordFits DEF WordAt
<1>4. PICK N \in Nat, K \in Nat : N = Word /\ K = Word - 1
  BY Sizes
<1>5. \A j \in 1..n : f[j] \in 0..K
  BY <1>3, <1>4
<1>6. Total(f) \in Nat /\ Total(f) <= N * K
  BY <1>1, <1>4, <1>5, TotalBounded
<1> QED BY <1>2, <1>4, <1>6, SumIsTotal

(* The pad is behind the data, and does not touch the length. *)
LEMMA PadFacts ==
  ASSUME NEW s \in CkStruct
  PROVE  /\ Pad(s) \in CkStruct
         /\ \A k \in 1..StructLen : k <= 8 + LengthOf(s) => Pad(s)[k] = s[k]
         /\ LengthOf(Pad(s)) = LengthOf(s)
         /\ Pad(Pad(s)) = Pad(s)
         /\ s \in CkBytes => Pad(s) \in CkBytes
         /\ \A k \in 1..StructLen :
              LengthOf(s) % 2 = 1 /\ k = 9 + LengthOf(s) => Pad(s)[k] = 0
<1>1. PICK l \in Nat : l = LengthOf(s)
  BY LengthIsNat
<1>2. PICK at \in Nat : at = HdrLen + (HdrLen + LengthOf(s)) + 1 /\ at = 9 + l
  BY <1>1, Sizes
<1>3. Pad(s) = IF l % 2 = 1 /\ at <= StructLen THEN [s EXCEPT ![at] = 0] ELSE s
  BY <1>1, <1>2 DEF Pad
<1>4. Pad(s) \in CkStruct
  <2>1. [s EXCEPT ![at] = 0] \in CkStruct
    BY DEF CkStruct
  <2> QED BY <1>3, <2>1
<1>5. \A k \in 1..StructLen : k <= 8 + l => Pad(s)[k] = s[k]
  BY <1>2, <1>3 DEF CkStruct
<1>6. LengthOf(Pad(s)) = l
  <2>1. Pad(s)[1] = s[1] /\ Pad(s)[2] = s[2]
    BY <1>5, Sizes
  <2> QED BY <1>1, <1>4, <2>1, LengthIsNat
<1>7. Pad(Pad(s)) = Pad(s)
  <2>1. Pad(Pad(s)) =
          IF l % 2 = 1 /\ at <= StructLen THEN [Pad(s) EXCEPT ![at] = 0] ELSE Pad(s)
    BY <1>1, <1>2, <1>6 DEF Pad
  <2>2. CASE l % 2 = 1 /\ at <= StructLen
    <3>1. PICK u \in CkStruct : u = Pad(s) /\ u = [s EXCEPT ![at] = 0]
      BY <1>3, <1>4, <2>2
    <3>2. u[at] = 0
      BY <1>2, <2>2, <3>1, Sizes DEF CkStruct
    <3>3. [u EXCEPT ![at] = 0] = u
      BY <3>2 DEF CkStruct
    <3> QED BY <2>1, <2>2, <3>1, <3>3
  <2>3. CASE ~(l % 2 = 1 /\ at <= StructLen)
    BY <2>1, <2>3
  <2> QED BY <2>2, <2>3
<1>8. s \in CkBytes => Pad(s) \in CkBytes
  <2>1. 0 \in CkByte
    BY Sizes DEF CkByte
  <2> QED BY <1>3, <2>1 DEF CkBytes
<1>9. \A k \in 1..StructLen : l % 2 = 1 /\ k = 9 + l => Pad(s)[k] = 0
  BY <1>2, <1>3 DEF CkStruct
<1> QED BY <1>1, <1>4, <1>5, <1>6, <1>7, <1>8, <1>9

-----------------------------------------------------------------------------
(* What the sender makes: padded, with a sum that folds to all ones.        *)
Sealed(s) == InStruct(s) => Pad(s) = s /\ Folded(Sum(s)) = Word - 1

(* What one damaged bit makes of it. *)
Damaged(s, t) ==
  \E k \in 1..StructLen, bit \in 0..(Bits - 1) :
    k <= HdrLen + LengthOf(s) /\ t = [s EXCEPT ![k] = Flip(s[k], bit)]

CkInv ==
  /\ seg \in CkStruct /\ sentAs \in CkBytes
  /\ stage = "built" => seg = sentAs
  /\ stage = "sent" => seg = sentAs /\ Sealed(sentAs)
  /\ stage = "arrived" => Sealed(sentAs) /\ (seg = sentAs \/ Damaged(sentAs, seg))
  /\ WholeIsAccepted /\ OnlyLengthSlips

LEMMA WithChecksumFacts ==
  ASSUME NEW s \in CkBytes, NEW c \in 0..(Word - 1)
  PROVE  /\ WithChecksum(s, c) \in CkBytes
         /\ WordAt(WithChecksum(s, c), 2) = c
         /\ LengthOf(WithChecksum(s, c)) = LengthOf(s)
         /\ \A i \in 1..StructLen : i # 3 /\ i # 4 => WithChecksum(s, c)[i] = s[i]
<1>1. PICK b \in Nat : b = Base /\ Word = b * b /\ b >= 2
  BY Sizes
<1>2. PICK x \in Int, y \in Int : x = c % b /\ y = c \div b
  BY <1>1
<1>3. c = b * y + x /\ x \in 0..(b - 1)
  BY <1>1, <1>2
<1>4. y \in 0..(b - 1)
  <2>1. y >= 0
    <3> SUFFICES ASSUME y <= -1 PROVE FALSE
      OBVIOUS
    <3>1. b * y <= b * (-1)
      BY <1>1
    <3> QED BY <1>1, <1>3, <3>1
  <2>2. y <= b - 1
    <3> SUFFICES ASSUME y >= b PROVE FALSE
      OBVIOUS
    <3>1. b * y >= b * b /\ b * b \in Nat
      BY <1>1
    <3> QED BY <1>1, <1>3, <3>1
  <2> QED BY <2>1, <2>2
<1>5. x \in CkByte /\ y \in CkByte
  BY <1>1, <1>3, <1>4 DEF CkByte
<1>6. PICK t : t = WithChecksum(s, c)
  OBVIOUS
<1>7. t = [[s EXCEPT ![3] = x] EXCEPT ![4] = y]
  BY <1>1, <1>2, <1>6 DEF WithChecksum
<1>8. /\ t \in CkBytes /\ t[3] = x /\ t[4] = y
      /\ \A i \in 1..StructLen : i # 3 /\ i # 4 => t[i] = s[i]
  BY <1>5, <1>7, Sizes DEF CkBytes
<1>9. WordAt(t, 2) = c
  BY <1>1, <1>3, <1>8 DEF WordAt
<1>10. LengthOf(t) = LengthOf(s)
  <2>1. t[1] = s[1] /\ t[2] = s[2]
    BY <1>8, Sizes
  <2> QED BY <2>1 DEF LengthOf, WordAt
<1> QED BY <1>6, <1>8, <1>9, <1>10

LEMMA CkInit == SegInit => CkInv
<1> SUFFICES ASSUME SegInit PROVE CkInv
  OBVIOUS
<1>1. PICK len \in 0..(Word - 1), data \in [1..MaxSegLen -> Bytes] :
        seg = [k \in 1..StructLen |->
                 CASE k = 1 -> len % Base [] k = 2 -> len \div Base
                   [] k \in 3..HdrLen -> 0 [] OTHER -> data[k - HdrLen]]
  BY DEF SegInit
<1>2. PICK z \in CkBytes : z = [k \in 1..StructLen |-> 0]
  <2>1. 0 \in CkByte
    BY Sizes DEF CkByte
  <2> QED BY <2>1 DEF CkBytes
<1>3. len % Base \in CkByte /\ len \div Base \in CkByte
  <2>1. PICK t \in CkBytes : t = WithChecksum(z, len)
    BY WithChecksumFacts
  <2>2. t[3] \in CkByte /\ t[4] \in CkByte
    BY Sizes DEF CkBytes
  <2>3. t[3] = len % Base /\ t[4] = len \div Base
    BY <1>2, <2>1, Sizes DEF WithChecksum, CkBytes
  <2> QED BY <2>2, <2>3
<1>4. ASSUME NEW k \in 1..StructLen PROVE seg[k] \in CkByte
  <2>1. CASE k = 1 \/ k = 2
    BY <1>1, <1>3, <2>1
  <2>2. CASE k \in 3..HdrLen
    BY <1>1, <2>2, Sizes DEF CkByte
  <2>3. CASE k \notin 1..4
    <3>1. k - 4 \in 1..MaxSegLen
      BY <2>3, Sizes, ChecksumConstants
    <3>2. data[k - 4] \in CkByte
      BY <3>1, ChecksumConstants DEF CkByte
    <3> QED BY <1>1, <2>3, <3>2, Sizes
  <2> QED BY <2>1, <2>2, <2>3, Sizes
<1>5. seg \in CkBytes
  BY <1>1, <1>4 DEF CkBytes
<1>6. sentAs = seg /\ stage = "built"
  BY DEF SegInit
<1> QED BY <1>5, <1>6, BytesAreStruct DEF CkInv, WholeIsAccepted, OnlyLengthSlips

LEMMA CkSend ==
  ASSUME CkInv, Send
  PROVE  CkInv'
<1>1. seg \in CkBytes /\ stage' = "sent" /\ sentAs' = seg'
  BY DEF CkInv, Send
<1>2. 0 \in 0..(Word - 1)
  BY Sizes
<1>3. PICK z \in CkBytes : z = WithChecksum(seg, 0) /\ WordAt(z, 2) = 0
  BY <1>1, <1>2, WithChecksumFacts
<1>4. z \in CkStruct
  BY BytesAreStruct
<1>5. PICK s \in CkBytes : s = Pad(z)
  BY <1>4, PadFacts
<1>6. PICK c : /\ seg' = WithChecksum(s, c)
               /\ c \in IF InStruct(s) THEN {checksum(s)} ELSE 0..(Word - 1)
  BY <1>3, <1>5 DEF Send
<1>7. s \in CkStruct
  BY BytesAreStruct
<1>8. InStruct(s) => Sum(s) \in Nat /\ Sum(s) <= Word * (Word - 1)
  BY SumBounded
<1>9. c \in 0..(Word - 1)
  <2>1. CASE InStruct(s)
    <3>1. Folded(Sum(s)) \in 0..(Word - 1)
      BY <1>8, <2>1, FoldedFits
    <3>2. c = (Word - 1) - Folded(Sum(s))
      BY <1>6, <2>1 DEF checksum
    <3> QED BY <3>1, <3>2, Sizes
  <2>2. CASE ~InStruct(s)
    BY <1>6, <2>2
  <2> QED BY <2>1, <2>2
<1>10. PICK t \in CkBytes :
         /\ t = seg' /\ WordAt(t, 2) = c /\ LengthOf(t) = LengthOf(s)
         /\ \A i \in 1..StructLen : i # 3 /\ i # 4 => t[i] = s[i]
  BY <1>6, <1>9, WithChecksumFacts
<1>11. t \in CkStruct
  BY BytesAreStruct
<1>12. Sealed(t)
  <2> SUFFICES ASSUME InStruct(t)
               PROVE  Pad(t) = t /\ Folded(Sum(t)) = Word - 1
    BY DEF Sealed
  <2>1. InStruct(s)
    BY <1>10 DEF InStruct
  <2>2. PICK l \in Nat : l = LengthOf(s) /\ l = LengthOf(t) /\ l = LengthOf(z)
    BY <1>4, <1>5, <1>10, <1>7, PadFacts, LengthIsNat
  <2>3. Pad(t) = t
    <3>1. Pad(t) \in CkStruct /\ DOMAIN Pad(t) = 1..StructLen /\ DOMAIN t = 1..StructLen
      BY <1>11, PadFacts DEF CkStruct
    <3>2. ASSUME NEW k \in 1..StructLen PROVE Pad(t)[k] = t[k]
      <4>1. CASE l % 2 = 1 /\ k = 9 + l
        <5>1. Pad(t)[k] = 0
          BY <1>11, <2>2, <4>1, PadFacts
        <5>2. s[k] = 0
          BY <1>4, <1>5, <2>2, <4>1, PadFacts
        <5>3. t[k] = s[k]
          BY <1>10, <2>2, <4>1
        <5> QED BY <5>1, <5>2, <5>3
      <4>2. CASE ~(l % 2 = 1 /\ k = 9 + l)
        <5>1. HdrLen + (HdrLen + LengthOf(t)) + 1 = 9 + l
          BY <2>2, Sizes
        <5> QED BY <2>2, <4>2, <5>1 DEF Pad, CkBytes
      <4> QED BY <4>1, <4>2
    <3>3. DOMAIN Pad(t) = DOMAIN t /\ \A k \in DOMAIN t : Pad(t)[k] = t[k]
      BY <3>1, <3>2
    <3>4. PICK u \in CkStruct : u = Pad(t)
      BY <3>1
    <3>5. u = t
      <4>1. \A k \in 1..StructLen : u[k] = t[k]
        BY <3>2, <3>4
      <4>2. /\ u = [k \in 1..StructLen |-> u[k]]
            /\ t = [k \in 1..StructLen |-> t[k]]
        BY <1>11 DEF CkStruct
      <4> QED BY <4>1, <4>2
    <3> QED BY <3>4, <3>5
  <2>4. WordAt(s, 2) = 0
    <3>1. s[3] = z[3] /\ s[4] = z[4]
      BY <1>4, <1>5, <2>2, PadFacts, Sizes
    <3> QED BY <1>3, <3>1 DEF WordAt
  <2>5. 2 \in 1..(SumLen(s) \div 2)
    BY <1>7, <2>1, SumLenFacts
  <2>6. \A i \in 1..StructLen : i # 2 * 2 - 1 /\ i # 2 * 2 => s[i] = t[i]
    BY <1>10
  <2>7. LengthOf(t) = LengthOf(s)
    BY <1>10
  <2>8. Sum(t) = Sum(s) - WordAt(s, 2) + WordAt(t, 2)
    BY <1>7, <1>11, <2>1, <2>5, <2>6, <2>7, SumChanges
  <2>9. PICK x \in Nat : x = Sum(s) /\ x <= Word * (Word - 1)
    BY <1>8, <2>1
  <2>10. PICK y \in Nat : y = Sum(t) /\ y <= Word * (Word - 1)
    BY SumBounded
  <2>11. c = (Word - 1) - Folded(x)
    BY <1>6, <2>1, <2>9 DEF checksum
  <2>12. y = x + c
    BY <1>9, <1>10, <2>4, <2>8, <2>9, <2>10
  <2>13. Folded(y) = Word - 1
    BY <2>9, <2>10, <2>11, <2>12, SealAdds
  <2> QED BY <2>3, <2>10, <2>13
<1>13. Sealed(sentAs)' /\ seg' = sentAs' /\ sentAs' \in CkBytes /\ seg' \in CkStruct
  BY <1>1, <1>10, <1>11, <1>12 DEF Sealed, InStruct
<1> QED BY <1>1, <1>13 DEF CkInv, WholeIsAccepted, OnlyLengthSlips

(* A bit is turned over: the byte changes by less than half of its range. *)
LEMMA FlipFacts ==
  ASSUME NEW bit \in 0..(Bits - 1), NEW x \in CkByte
  PROVE  /\ Flip(x, bit) \in Nat
         /\ \E p \in Nat \ {0} : /\ 2 * p <= Base
                                 /\ Flip(x, bit) = x + p \/ Flip(x, bit) = x - p
<1>1. PICK p \in Nat \ {0} : p = 2^bit /\ 2 * p <= Base
  BY ChecksumConstants
<1>2. x \in Nat
  BY Sizes DEF CkByte
<1>3. PICK q \in Int : q = x \div p
  BY <1>1, <1>2
<1>4. Flip(x, bit) = IF q % 2 = 0 THEN x + p ELSE x - p
  BY <1>1, <1>3 DEF Flip
<1>5. q % 2 # 0 => x >= p
  <2> SUFFICES ASSUME q % 2 # 0, ~(x >= p) PROVE FALSE
    OBVIOUS
  <2>a. p \in Nat /\ p >= 1 /\ x \in Nat /\ x < p
    BY <1>1, <1>2
  <2>1. PICK r \in 0..(p - 1) : x = p * q + r
    BY <1>1, <1>2, <1>3
  <2>2. q = 0
    <3>1. q <= 0
      <4> SUFFICES ASSUME q >= 1 PROVE FALSE
        OBVIOUS
      <4>1. p * q >= p
        OBVIOUS
      <4> QED BY <2>1, <4>1
    <3>2. q >= 0
      <4> SUFFICES ASSUME q <= -1 PROVE FALSE
        OBVIOUS
      <4>1. p * q <= p * (-1)
        OBVIOUS
      <4> QED BY <1>2, <2>1, <4>1
    <3> QED BY <3>1, <3>2
  <2> QED BY <2>2
<1> QED BY <1>1, <1>2, <1>4, <1>5

LEMMA DamagedFacts ==
  ASSUME NEW s \in CkBytes, NEW t, Damaged(s, t)
  PROVE  \E k \in 1..StructLen :
           /\ k <= 4 + LengthOf(s) /\ t \in CkStruct /\ t[k] # s[k]
           /\ \A i \in 1..StructLen : i # k => t[i] = s[i]
           /\ \E p \in Nat \ {0} : /\ 2 * p <= Base
                                   /\ t[k] = s[k] + p \/ t[k] = s[k] - p
<1>1. PICK k \in 1..StructLen, bit \in 0..(Bits - 1) :
        k <= HdrLen + LengthOf(s) /\ t = [s EXCEPT ![k] = Flip(s[k], bit)]
  BY DEF Damaged
<1>2. s[k] \in CkByte
  BY DEF CkBytes
<1>3. PICK x \in Nat : x = Flip(s[k], bit)
  BY <1>2, FlipFacts
<1>4. PICK p \in Nat \ {0} : 2 * p <= Base /\ (x = s[k] + p \/ x = s[k] - p)
  BY <1>2, <1>3, FlipFacts
<1>5. s \in CkStruct
  BY BytesAreStruct
<1>6. t \in CkStruct
  BY <1>1, <1>3, <1>5 DEF CkStruct
<1>7. t[k] = x /\ \A i \in 1..StructLen : i # k => t[i] = s[i]
  BY <1>1, <1>3, <1>5 DEF CkStruct
<1>8. PICK y \in Nat : y = s[k]
  BY <1>5 DEF CkStruct
<1>9. t[k] # s[k]
  BY <1>4, <1>7, <1>8
<1> QED BY <1>1, <1>4, <1>6, <1>7, <1>9, Sizes

(* A damaged length is another length. *)
LEMMA DamagedLength ==
  ASSUME NEW s \in CkBytes, NEW t \in CkStruct,
         NEW k \in {1, 2}, t[k] # s[k],
         \A i \in 1..StructLen : i # k => t[i] = s[i]
  PROVE  LengthOf(t) # LengthOf(s)
<1>1. s \in CkStruct
  BY BytesAreStruct
<1>2. PICK b \in Nat : b = Base /\ b >= 2
  BY Sizes
<1>3. PICK x \in Nat, y \in Nat : x = s[1] /\ y = s[2]
  <2>1. 1 \in 1..StructLen /\ 2 \in 1..StructLen
    BY Sizes
  <2>2. s[1] \in Nat /\ s[2] \in Nat
    BY <1>1, <2>1 DEF CkStruct
  <2> QED BY <2>2
<1>4. PICK v \in Nat, w \in Nat : v = t[1] /\ w = t[2]
  BY Sizes DEF CkStruct
<1>5. LengthOf(s) = x + b * y /\ LengthOf(t) = v + b * w
  BY <1>1, <1>2, <1>3, <1>4, LengthIsNat
<1>6. (v = x /\ w # y) \/ (v # x /\ w = y)
  BY <1>3, <1>4, Sizes
<1>7. CASE v # x /\ w = y
  <2>1. b * y \in Nat
    BY <1>2
  <2> QED BY <1>5, <1>7, <2>1
<1>8. CASE v = x /\ w # y
  <2>1. b * w # b * y
    <3>1. CASE w < y
      <4>1. PICK d \in Nat \ {0} : y = w + d
        BY <3>1
      <4>2. b * y = b * w + b * d /\ b * d >= b /\ b * w \in Nat /\ b * d \in Nat
        BY <1>2, <4>1
      <4> QED BY <1>2, <4>2
    <3>2. CASE w > y
      <4>1. PICK d \in Nat \ {0} : w = y + d
        BY <3>2
      <4>2. b * w = b * y + b * d /\ b * d >= b /\ b * y \in Nat /\ b * d \in Nat
        BY <1>2, <4>1
      <4> QED BY <1>2, <4>2
    <3> QED BY <1>8, <3>1, <3>2
  <2>2. b * w \in Nat /\ b * y \in Nat
    BY <1>2
  <2> QED BY <1>5, <1>8, <2>1, <2>2
<1> QED BY <1>6, <1>7, <1>8

(* Other damage changes a word of the sum, and by less than Word - 1. *)
LEMMA DamageShows ==
  ASSUME NEW s \in CkBytes, NEW t \in CkStruct,
         InStruct(s), LengthOf(t) = LengthOf(s),
         NEW k \in 3..StructLen, k <= 4 + LengthOf(s),
         \A i \in 1..StructLen : i # k => t[i] = s[i],
         NEW p \in Nat \ {0}, 2 * p <= Base, t[k] = s[k] + p \/ t[k] = s[k] - p,
         Folded(Sum(s)) = Word - 1
  PROVE  Folded(Sum(t)) # Word - 1
<1>1. s \in CkStruct
  BY BytesAreStruct
<1>2. PICK b \in Nat : b = Base /\ Word = b * b /\ b >= 2
  BY Sizes
<1>3. PICK n \in Nat : n = SumLen(s) \div 2 /\ 2 * n <= StructLen
                       /\ 4 + LengthOf(s) <= 2 * n
  BY <1>1, SumLenFacts, Sizes
<1>4. PICK j \in 1..n : k = 2 * j - 1 \/ k = 2 * j
  <2>1. k <= 2 * n
    BY <1>1, <1>3, LengthIsNat
  <2>2. PICK j \in Int : k = 2 * j - 1 \/ k = 2 * j
    <3>1. PICK q \in Int : k = 2 * q \/ k = 2 * q + 1
      <4>1. PICK q \in Int, m \in 0..1 : q = k \div 2 /\ m = k % 2 /\ k = 2 * q + m
        BY Sizes
      <4> QED BY <4>1
    <3>2. CASE k = 2 * q
      BY <3>2
    <3>3. CASE k = 2 * q + 1
      <4>1. q + 1 \in Int /\ k = 2 * (q + 1) - 1
        BY <3>3
      <4> QED BY <4>1
    <3> QED BY <3>1, <3>2, <3>3
  <2>3. j \in 1..n
    BY <2>1, <2>2
  <2> QED BY <2>2, <2>3
<1>5. \A i \in 1..StructLen : i # 2 * j - 1 /\ i # 2 * j => s[i] = t[i]
  BY <1>4
<1>6. PICK x \in Int : /\ x = Sum(s)
                       /\ Sum(t) = x - WordAt(s, j) + WordAt(t, j)
  BY <1>1, <1>3, <1>5, SumChanges
<1>7. 2 * j - 1 \in 1..StructLen /\ 2 * j \in 1..StructLen
  BY <1>3, Sizes
<1>8. PICK d \in Int : /\ Sum(t) = x + d /\ d # 0
                       /\ -(b * p) <= d /\ d <= b * p
  <2>1. PICK u \in Nat, v \in Nat : u = s[2 * j - 1] /\ v = s[2 * j]
    BY <1>1, <1>7 DEF CkStruct
  <2>2. PICK y \in Nat, z \in Nat : y = t[2 * j - 1] /\ z = t[2 * j]
    BY <1>7 DEF CkStruct
  <2>3. WordAt(s, j) = u + b * v /\ WordAt(t, j) = y + b * z
    BY <1>2, <2>1, <2>2 DEF WordAt
  <2>4. b * p \in Nat /\ b * p >= p /\ b * v \in Nat /\ b * z \in Nat
    <3>1. b * p >= 1 * p
      BY <1>2
    <3> QED BY <1>2, <3>1
  <2>5. CASE k = 2 * j - 1
    <3>1. z = v /\ (y = u + p \/ y = u - p)
      BY <1>7, <2>1, <2>2, <2>5
    <3>2. Sum(t) = x + (y - u)
      BY <1>6, <2>3, <2>4, <3>1
    <3>3. y - u \in Int /\ y - u # 0 /\ -(b * p) <= y - u /\ y - u <= b * p
      BY <2>4, <3>1
    <3> QED BY <3>2, <3>3
  <2>6. CASE k = 2 * j
    <3>1. y = u /\ (z = v + p \/ z = v - p)
      BY <1>7, <2>1, <2>2, <2>6
    <3>2. b * z = b * v + b * p \/ b * z = b * v - b * p
      BY <3>1
    <3>3. PICK e \in Int : e = b * z - b * v
      BY <2>4
    <3>4. Sum(t) = x + e
      BY <1>6, <2>3, <2>4, <3>1, <3>3
    <3>5. e # 0 /\ -(b * p) <= e /\ e <= b * p
      BY <2>4, <3>2, <3>3
    <3> QED BY <3>4, <3>5
  <2> QED BY <1>4, <2>5, <2>6
<1>9. PICK m \in Nat : m = Word - 1 /\ b * p < m
  <2>1. 2 * (b * p) <= b * b
    <3>1. b * (2 * p) <= b * b
      BY <1>2
    <3> QED BY <1>2, <3>1
  <2>2. b * b >= 4 /\ b * b \in Nat /\ b * p \in Nat
    BY <1>2
  <2> QED BY <1>2, <2>1, <2>2
<1> SUFFICES ASSUME Folded(Sum(t)) = m PROVE FALSE
  BY <1>9
<1>10. PICK f \in Int : x = m + f * m
  BY <1>6, <1>9, FoldedSame
<1>11. PICK g \in Int : x + d = m + g * m
  <2>1. x + d \in Int
    BY <1>6, <1>8
  <2>2. Folded(x + d) = m
    BY <1>8
  <2> QED BY <1>9, <2>1, <2>2, FoldedSame
<1>12. d = (g - f) * m
  BY <1>10, <1>11
<1>13. PICK h \in Int : h = g - f /\ d = h * m
  BY <1>12
<1>14. h # 0
  BY <1>8, <1>13
<1>15. CASE h >= 1
  <2>1. h * m >= m
    BY <1>15
  <2> QED BY <1>2, <1>8, <1>9, <1>13, <2>1
<1>16. CASE h <= -1
  <2>1. h * m <= (-1) * m
    BY <1>16
  <2> QED BY <1>2, <1>8, <1>9, <1>13, <2>1
<1> QED BY <1>14, <1>15, <1>16

LEMMA CkCheck ==
  ASSUME CkInv, Check
  PROVE  CkInv'
<1>1. /\ seg \in CkStruct /\ sentAs \in CkBytes /\ Sealed(sentAs)
      /\ seg = sentAs \/ Damaged(sentAs, seg)
      /\ sentAs' = sentAs
  BY DEF CkInv, Check
<1>2. sentAs \in CkStruct
  BY <1>1, BytesAreStruct
<1>3. PICK l \in Nat : l = LengthOf(sentAs)
  BY <1>2, LengthIsNat
<1>4. PICK r \in Nat : r = LengthOf(seg)
  BY <1>1, LengthIsNat
<1>5. PICK q \in CkStruct : q = Pad(seg)
  BY <1>1, PadFacts
<1>6. /\ stage' \in {"accepted", "rejected"} /\ seg' \in {seg, q}
      /\ stage' = "accepted" => /\ InStruct(seg) /\ seg' = q
                                /\ Folded(Sum(q)) = Word - 1
      /\ stage' = "rejected" => \/ ~InStruct(seg)
                                \/ Folded(Sum(q)) # Word - 1
  BY <1>5 DEF Check
<1>7. LengthOf(q) = r /\ \A i \in 1..StructLen : i <= 8 + r => q[i] = seg[i]
  BY <1>1, <1>4, <1>5, PadFacts
<1>8. LengthOf(seg') = r
  BY <1>4, <1>6, <1>7
<1>9. CASE seg = sentAs
  <2>1. InStruct(sentAs) => q = sentAs /\ Folded(Sum(q)) = Word - 1
    BY <1>1, <1>5, <1>9 DEF Sealed
  <2>2. WholeIsAccepted'
    BY <1>1, <1>6, <1>9, <2>1 DEF WholeIsAccepted, InStruct
  <2>3. OnlyLengthSlips'
    <3>1. stage' = "accepted" => seg' = sentAs'
      BY <1>1, <1>6, <1>9, <2>1
    <3> QED BY <3>1 DEF OnlyLengthSlips
  <2> QED BY <1>1, <1>6, <2>2, <2>3 DEF CkInv
<1>10. CASE Damaged(sentAs, seg)
  <2>1. PICK k \in 1..StructLen :
          /\ k <= 4 + l /\ seg[k] # sentAs[k]
          /\ \A i \in 1..StructLen : i # k => seg[i] = sentAs[i]
          /\ \E p \in Nat \ {0} : /\ 2 * p <= Base
                                  /\ seg[k] = sentAs[k] + p \/ seg[k] = sentAs[k] - p
    BY <1>1, <1>3, <1>10, DamagedFacts
  <2>2. k <= 2 => r # l
    <3> SUFFICES ASSUME k <= 2 PROVE r # l
      OBVIOUS
    <3>1. k \in {1, 2}
      OBVIOUS
    <3> QED BY <1>1, <1>3, <1>4, <2>1, <3>1, DamagedLength
  <2>3. k >= 3 => r = l
    <3> SUFFICES ASSUME k >= 3 PROVE r = l
      OBVIOUS
    <3>1. seg[1] = sentAs[1] /\ seg[2] = sentAs[2]
      BY <2>1, Sizes
    <3> QED BY <1>3, <1>4, <3>1 DEF LengthOf, WordAt
  <2>4. q[k] = seg[k]
    BY <1>7, <2>1, <2>2, <2>3
  <2>5. seg' # sentAs
    BY <1>6, <2>1, <2>4
  <2>6. WholeIsAccepted'
    BY <1>1, <2>5 DEF WholeIsAccepted
  <2>7. OnlyLengthSlips'
    <3> SUFFICES ASSUME stage' = "accepted"
                 PROVE  /\ LengthOf(seg') # LengthOf(sentAs')
                        /\ \A i \in 3..(HdrLen + Min({LengthOf(seg'), LengthOf(sentAs')})) :
                             seg'[i] = sentAs'[i]
      BY DEF OnlyLengthSlips
    <3>1. InStruct(seg) /\ seg' = q /\ Folded(Sum(q)) = Word - 1
      BY <1>6
    <3>2. r # l
      <4> SUFFICES ASSUME r = l PROVE FALSE
        OBVIOUS
      <4>1. k \in 3..StructLen
        BY <2>2
      <4>2. InStruct(sentAs)
        BY <1>3, <1>4, <3>1 DEF InStruct
      <4>3. q = seg
        <5>1. Pad(sentAs) = sentAs
          BY <1>1, <4>2 DEF Sealed
        <5>2. ASSUME NEW i \in 1..StructLen PROVE q[i] = seg[i]
          <6>1. CASE l % 2 = 1 /\ i = 9 + l
            <7>1. q[i] = 0
              <8>1. \A j \in 1..StructLen :
                      LengthOf(seg) % 2 = 1 /\ j = 9 + LengthOf(seg) => Pad(seg)[j] = 0
                BY <1>1, PadFacts
              <8> QED BY <1>4, <1>5, <6>1, <8>1
            <7>2. sentAs[i] = 0
              <8>1. \A j \in 1..StructLen :
                      LengthOf(sentAs) % 2 = 1 /\ j = 9 + LengthOf(sentAs)
                        => Pad(sentAs)[j] = 0
                BY <1>2, PadFacts
              <8> QED BY <1>3, <5>1, <6>1, <8>1
            <7>3. i # k
              BY <2>1, <6>1
            <7> QED BY <2>1, <7>1, <7>2, <7>3
          <6>2. CASE ~(l % 2 = 1 /\ i = 9 + l)
            <7>1. HdrLen + (HdrLen + LengthOf(seg)) + 1 = 9 + l
              BY <1>4, Sizes
            <7> QED BY <1>1, <1>4, <1>5, <6>2, <7>1 DEF Pad, CkStruct
          <6> QED BY <6>1, <6>2
        <5>3. /\ q = [i \in 1..StructLen |-> q[i]]
              /\ seg = [i \in 1..StructLen |-> seg[i]]
          BY <1>1 DEF CkStruct
        <5>4. \A i \in 1..StructLen : q[i] = seg[i]
          BY <5>2
        <5> QED BY <5>3, <5>4
      <4>4. Folded(Sum(sentAs)) = Word - 1
        BY <1>1, <4>2 DEF Sealed
      <4>5. PICK p \in Nat \ {0} :
              2 * p <= Base /\ (seg[k] = sentAs[k] + p \/ seg[k] = sentAs[k] - p)
        BY <2>1
      <4>6. Folded(Sum(seg)) # Word - 1
        BY <1>1, <1>3, <1>4, <2>1, <4>1, <4>2, <4>4, <4>5, DamageShows
      <4> QED BY <3>1, <4>3, <4>6
    <3>3. k \in {1, 2}
      BY <2>3, <3>2
    <3>4. PICK least \in {r, l} : least = Min({r, l})
      <4>1. Min({r, l}) \in {r, l} /\ Min({r, l}) <= r
        BY DEF Min
      <4> QED BY <4>1
    <3>5. least <= r
      BY <3>4 DEF Min
    <3>6. ASSUME NEW i \in 3..(4 + least) PROVE q[i] = sentAs[i]
      <4>1. i <= 8 + r
        BY <3>5
      <4>2. i \in 1..StructLen
        <5>1. r <= MaxSegLen /\ MaxSegLen \in Nat
          BY <3>1, <1>4, ChecksumConstants DEF InStruct
        <5>2. StructLen = 4 + MaxSegLen
          BY Sizes DEF StructLen
        <5>3. PICK m \in Nat : m = least /\ m <= r
          BY <3>4, <3>5
        <5> QED BY <5>1, <5>2, <5>3
      <4> QED BY <1>7, <2>1, <3>3, <4>1, <4>2
    <3>7. \A i \in 3..(HdrLen + Min({r, l})) : q[i] = sentAs[i]
      BY <3>4, <3>6, Sizes
    <3>8. LengthOf(seg') = r /\ LengthOf(sentAs') = l /\ sentAs' = sentAs
      BY <1>1, <1>3, <1>8
    <3> QED BY <3>1, <3>2, <3>7, <3>8
  <2> QED BY <1>1, <1>6, <2>6, <2>7 DEF CkInv
<1> QED BY <1>1, <1>9, <1>10

LEMMA CkArrive ==
  ASSUME CkInv, Arrive
  PROVE  CkInv'
<1>1. /\ sentAs' = sentAs /\ stage' = "arrived" /\ seg = sentAs /\ sentAs \in CkBytes
      /\ Sealed(sentAs)
  BY DEF Arrive, CkInv
<1>2. CASE UNCHANGED seg
  BY <1>1, <1>2, BytesAreStruct DEF CkInv, WholeIsAccepted, OnlyLengthSlips, Sealed, InStruct
<1>3. CASE ~UNCHANGED seg
  <2>1. PICK k \in 1..Min({HdrLen + LengthOf(seg), StructLen}), bit \in 0..(Bits - 1) :
          seg' = [seg EXCEPT ![k] = Flip(seg[k], bit)]
    BY <1>3 DEF Arrive
  <2>2. PICK x \in Nat, y \in Nat : x = HdrLen + LengthOf(seg) /\ y = StructLen
    BY <1>1, BytesAreStruct, LengthIsNat, Sizes
  <2>3. PICK z \in {x, y} : z = Min({x, y}) /\ z <= x /\ z <= y
    BY DEF Min
  <2>4. k \in 1..StructLen /\ k <= HdrLen + LengthOf(sentAs)
    BY <1>1, <2>1, <2>2, <2>3
  <2>5. Damaged(sentAs, seg')
    BY <1>1, <2>1, <2>4 DEF Damaged
  <2>6. seg' \in CkStruct
    BY <1>1, <2>5, DamagedFacts
  <2>7. Damaged(sentAs, seg)' /\ Sealed(sentAs)'
    BY <1>1, <2>5 DEF Damaged, Sealed, InStruct
  <2> QED BY <1>1, <2>6, <2>7 DEF CkInv, WholeIsAccepted, OnlyLengthSlips
<1> QED BY <1>2, <1>3

LEMMA CkNext == CkInv /\ [SegNext]_segVars => CkInv'
<1> SUFFICES ASSUME CkInv, [SegNext]_segVars PROVE CkInv'
  OBVIOUS
<1>1. CASE Send
  BY <1>1, CkSend
<1>2. CASE Arrive
  BY <1>2, CkArrive
<1>3. CASE Check
  BY <1>3, CkCheck
<1>4. CASE Lose
  BY <1>4 DEF Lose, CkInv, WholeIsAccepted, OnlyLengthSlips
<1>5. CASE UNCHANGED segVars
  BY <1>5 DEF segVars, CkInv, WholeIsAccepted, OnlyLengthSlips, Sealed, Damaged, InStruct
<1> QED BY <1>1, <1>2, <1>3, <1>4, <1>5 DEF SegNext

(* Whatever the sizes: an undamaged segment whose length is set is never     *)
(* refused; both sides sum the same bytes, the pad that misses its byte      *)
(* included, and two folds are enough (seg.c lines 179-220).                 *)
THEOREM WholeAccepted == SegSpec => []WholeIsAccepted
<1>1. SegInit => CkInv
  BY CkInit
<1>2. CkInv /\ [SegNext]_segVars => CkInv'
  BY CkNext
<1>3. CkInv => WholeIsAccepted
  BY DEF CkInv
<1> QED BY <1>1, <1>2, <1>3, PTL DEF SegSpec

(* Whatever the sizes: of one damaged bit the receiver can only miss one of  *)
(* the length; any other bit changes the folded sum (seg.c lines 153-220).   *)
THEOREM LengthSlips == SegSpec => []OnlyLengthSlips
<1>1. SegInit => CkInv
  BY CkInit
<1>2. CkInv /\ [SegNext]_segVars => CkInv'
  BY CkNext
<1>3. CkInv => OnlyLengthSlips
  BY DEF CkInv
<1> QED BY <1>1, <1>2, <1>3, PTL DEF SegSpec

-----------------------------------------------------------------------------
Credit == 0..(CreditMod - 1)

UpMsg ==
  [t : {"signup", "list", "signout"}] \cup [t : {"signin"}, right : BOOLEAN]
    \cup [t : {"request"}, to : Players] \cup [t : {"pick"}, skc : Picks]
    \cup [t : {"answer"}, room : Players \cup {Nobody}, yes : BOOLEAN]
TurnMsg == [t : {"turn"}, res : 0..3, final : 0..3]
DownMsg ==
  [t : {"reply", "out"}] \cup [t : {"in"}, valid : 0..2]
    \cup [t : {"answered"}, answer : 0..3, adversary : Players]
    \cup [t : {"ask"}, from : Players] \cup TurnMsg

User == [state : {"ONLINE", "WAR"}, credit : Credit, room : Players \cup {Nobody},
         connfd : Nat]
WarRoom == [b : Players, a_sockfd : Nat, b_sockfd : Nat, a_blood : Int,
            b_blood : Int, yes : BOOLEAN, sem : Nat, skc1 : 0..3, skc2 : 0..3]
WarThread == [room : Players, b : Players \cup {Nobody}, held : BOOLEAN,
              results : TurnMsg \X TurnMsg, socks : Nat \X Nat,
              pc : {"ask", "wait", "turn", "results", "restore", "exit"}]

TypeServer ==
  /\ file \in [Players -> Credit \cup {NoFile}]
  /\ Online \subseteq Players /\ user_table \in [Online -> User]
  /\ DOMAIN rooms \subseteq Players /\ rooms \in [DOMAIN rooms -> WarRoom]
  /\ inserting \in [Players -> Players \cup {Nobody}]
  /\ b_sockfd \in [Players -> Nat] /\ leaving \in [Players -> BOOLEAN]
  /\ wars \in Seq(WarThread)
TypeConn ==
  /\ up \in [Players -> Seq(UpMsg)] /\ down \in [Players -> Seq(DownMsg)]
TypeClient ==
  /\ gstate \in [Players -> {"WELCOM", "CLIENT_ONLINE", "CLIENT_WAR"}]
  /\ loop \in [Players -> {"welcome", "online", "war", "left", "closed"}]
  /\ wait \in [Players -> {"no", "call", "request", "pick"}]
  /\ gsem \in [Players -> Nat]
  /\ gadversary \in [Players -> Players \cup {Nobody}]
  /\ conn \in [Players -> Nat] /\ misled \in [Players -> BOOLEAN]
  /\ fault \in BOOLEAN
TypeOK == TypeServer /\ TypeConn /\ TypeClient

-----------------------------------------------------------------------------
(* A client sends a message. *)
LEMMA SendType ==
  ASSUME NEW p \in Players, NEW m \in UpMsg, NEW w \in {"no", "call", "request", "pick"},
         TypeOK, Sends(p, m, w),
         gstate' \in [Players -> {"WELCOM", "CLIENT_ONLINE", "CLIENT_WAR"}],
         loop' \in [Players -> {"welcome", "online", "war", "left", "closed"}]
  PROVE  TypeOK'
<1>1. up' \in [Players -> Seq(UpMsg)]
  <2>1. up[p] \in Seq(UpMsg)
    BY DEF TypeOK, TypeConn
  <2>2. Append(up[p], m) \in Seq(UpMsg)
    BY <2>1, AppendProperties
  <2> QED BY <2>2 DEF Sends, TypeOK, TypeConn
<1>2. wait' \in [Players -> {"no", "call", "request", "pick"}]
  BY DEF Sends, TypeOK, TypeClient
<1>3. UNCHANGED <<file, user_table, rooms, inserting, b_sockfd, leaving, wars, down,
                  conn, gsem, gadversary, misled, fault>>
  BY DEF Sends, server
<1> QED BY <1>1, <1>2, <1>3
  DEF TypeOK, TypeServer, TypeConn, TypeClient, Online

LEMMA HeadOfUp ==
  ASSUME TypeOK, NEW p \in Players, up[p] # <<>>
  PROVE  /\ Head(up[p]) \in UpMsg /\ Tail(up[p]) \in Seq(UpMsg)
         /\ [up EXCEPT ![p] = Tail(@)] \in [Players -> Seq(UpMsg)]
<1>1. up[p] \in Seq(UpMsg)
  BY DEF TypeOK, TypeConn
<1>2. Head(up[p]) \in UpMsg /\ Tail(up[p]) \in Seq(UpMsg)
  BY <1>1, HeadTailProperties
<1> QED BY <1>2 DEF TypeOK, TypeConn

LEMMA AppendDown ==
  ASSUME NEW d \in [Players -> Seq(DownMsg)], NEW p, NEW m \in DownMsg
  PROVE  [d EXCEPT ![p] = Append(@, m)] \in [Players -> Seq(DownMsg)]
<1>1. CASE p \in Players
  <2>1. d[p] \in Seq(DownMsg)
    BY <1>1
  <2>2. Append(d[p], m) \in Seq(DownMsg)
    BY <2>1, AppendProperties
  <2> QED BY <2>2
<1>2. CASE p \notin Players
  BY <1>2
<1> QED BY <1>1, <1>2

LEMMA DeliverType ==
  ASSUME NEW d \in [Players -> Seq(DownMsg)], NEW p, NEW n, NEW m \in DownMsg
  PROVE  Deliver(d, p, n, m) \in [Players -> Seq(DownMsg)]
BY AppendDown DEF Deliver

LEMMA AnswerType ==
  ASSUME TypeOK, NEW p \in Players, NEW m \in DownMsg, up[p] # <<>>, Answers(p, m)
  PROVE  TypeConn' /\ TypeClient'
<1>1. up' \in [Players -> Seq(UpMsg)]
  BY HeadOfUp DEF Answers
<1>2. down \in [Players -> Seq(DownMsg)]
  BY DEF TypeOK, TypeConn
<1>3. down' \in [Players -> Seq(DownMsg)]
  BY <1>2, AppendDown DEF Answers
<1>4. TypeConn'
  BY <1>1, <1>3 DEF TypeConn
<1>5. TypeClient'
  BY DEF TypeOK, TypeClient, Answers, client
<1> QED BY <1>4, <1>5

LEMMA NextInUp ==
  ASSUME NEW p, NEW t, NextIs(p, t)
  PROVE  up[p] # <<>> /\ Head(up[p]).t = t /\ ~fault /\ inserting[p] = Nobody
BY DEF NextIs

(* The types of a war thread. *)
LEMMA WarFacts ==
  ASSUME TypeOK, NEW i \in DOMAIN wars
  PROVE  /\ wars[i] \in WarThread /\ DOMAIN wars = 1..Len(wars) /\ Len(wars) \in Nat
         /\ Room(i) \in Players
<1>1. wars \in Seq(WarThread)
  BY DEF TypeOK, TypeServer
<1>2. DOMAIN wars = 1..Len(wars) /\ Len(wars) \in Nat
  BY <1>1, LenProperties
<1>3. wars[i] \in WarThread
  BY <1>1, <1>2, ElementOfSeq
<1> QED BY <1>2, <1>3 DEF Room, WarThread

LEMMA WarChanged ==
  ASSUME TypeOK, NEW i \in DOMAIN wars, NEW w \in WarThread
  PROVE  [wars EXCEPT ![i] = w] \in Seq(WarThread)
<1>1. wars \in Seq(WarThread) /\ i \in 1..Len(wars)
  BY WarFacts DEF TypeOK, TypeServer
<1> QED BY <1>1, ExceptSeq

LEMMA GoesType ==
  ASSUME TypeOK, NEW i \in DOMAIN wars,
         NEW pc \in {"ask", "wait", "turn", "results", "restore", "exit"}, Goes(i, pc)
  PROVE  wars' \in Seq(WarThread)
<1>1. wars[i] \in WarThread
  BY WarFacts
<1>2. [wars[i] EXCEPT !.pc = pc] \in WarThread
  BY <1>1 DEF WarThread
<1>3. wars' = [wars EXCEPT ![i] = [wars[i] EXCEPT !.pc = pc]]
  BY DEF Goes
<1> QED BY <1>2, <1>3, WarChanged

LEMMA RoomFacts ==
  ASSUME TypeOK, NEW r \in DOMAIN rooms
  PROVE  r \in Players /\ rooms[r] \in WarRoom
BY DEF TypeOK, TypeServer

LEMMA UserFacts ==
  ASSUME TypeOK, NEW p \in Online
  PROVE  p \in Players /\ user_table[p] \in User
BY DEF TypeOK, TypeServer

LEMMA InitType == Init => TypeOK
<1> SUFFICES ASSUME Init PROVE TypeOK
  OBVIOUS
<1>1. TypeServer
  <2>1. <<>> \in Seq(WarThread)
    OBVIOUS
  <2>2. Online = {} /\ DOMAIN rooms = {}
    BY DEF Init, Online
  <2>3. user_table \in [Online -> User] /\ rooms \in [DOMAIN rooms -> WarRoom]
    BY <2>2 DEF Init
  <2> QED BY <2>1, <2>2, <2>3, GameOK DEF Init, TypeServer, Credit
<1>2. TypeConn
  <2>1. <<>> \in Seq(UpMsg) /\ <<>> \in Seq(DownMsg)
    OBVIOUS
  <2> QED BY <2>1 DEF Init, TypeConn
<1>3. TypeClient
  BY DEF Init, TypeClient
<1> QED BY <1>1, <1>2, <1>3 DEF TypeOK

(* What a client types. *)
LEMMA TypesType ==
  ASSUME TypeOK, NEW p \in Players, Types(p)
  PROVE  TypeOK'
<1> USE DEF UpMsg
<1>0. /\ gstate \in [Players -> {"WELCOM", "CLIENT_ONLINE", "CLIENT_WAR"}]
      /\ loop \in [Players -> {"welcome", "online", "war", "left", "closed"}]
      /\ gadversary \in [Players -> Players \cup {Nobody}]
  BY DEF TypeOK, TypeClient
<1>1. CASE TypeSignUp(p)
  BY <1>0, <1>1, SendType DEF TypeSignUp
<1>2. ASSUME NEW right \in BOOLEAN, TypeSignIn(p, right) PROVE TypeOK'
  BY <1>0, <1>2, SendType DEF TypeSignIn
<1>3. CASE TypeList(p)
  BY <1>0, <1>3, SendType DEF TypeList
<1>4. CASE TypeSignOut(p)
  BY <1>0, <1>4, SendType DEF TypeSignOut
<1>5. ASSUME NEW b \in Asks[p], TypeRequest(p, b) PROVE TypeOK'
  <2>1. b \in Players
    BY GameOK
  <2> QED BY <1>0, <1>5, <2>1, SendType DEF TypeRequest
<1>6. ASSUME NEW yes \in BOOLEAN, TypeAnswer(p, yes) PROVE TypeOK'
  <2>1. /\ gstate' \in [Players -> {"WELCOM", "CLIENT_ONLINE", "CLIENT_WAR"}]
        /\ loop' \in [Players -> {"welcome", "online", "war", "left", "closed"}]
    BY <1>0, <1>6 DEF TypeAnswer
  <2>2. [t |-> "answer", room |-> gadversary[p], yes |-> yes] \in UpMsg
    BY <1>0
  <2> QED BY <1>6, <2>1, <2>2, SendType DEF TypeAnswer
<1>7. ASSUME NEW skc \in Picks, TypePick(p, skc) PROVE TypeOK'
  BY <1>0, <1>7, SendType DEF TypePick
<1>8. CASE Leave(p)
  <2>1. UNCHANGED <<file, user_table, rooms, inserting, b_sockfd, leaving, wars, up, fault>>
    BY <1>8 DEF Leave, server
  <2>2. down' \in [Players -> Seq(DownMsg)]
    BY <1>8 DEF Leave, TypeOK, TypeConn
  <2>3. TypeServer' /\ TypeConn'
    BY <2>1, <2>2 DEF TypeOK, TypeServer, TypeConn, Online
  <2>4. TypeClient'
    BY <1>8 DEF Leave, TypeOK, TypeClient
  <2> QED BY <2>3, <2>4 DEF TypeOK
<1>9. CASE Return(p)
  <2>1. UNCHANGED <<file, user_table, rooms, inserting, b_sockfd, leaving, wars, up, down>>
    BY <1>9 DEF Return, server
  <2>2. TypeServer' /\ TypeConn'
    BY <2>1 DEF TypeOK, TypeServer, TypeConn, Online
  <2>3. TypeClient'
    BY <1>9 DEF Return, TypeOK, TypeClient
  <2> QED BY <2>2, <2>3 DEF TypeOK
<1> QED BY <1>1, <1>2, <1>3, <1>4, <1>5, <1>6, <1>7, <1>8, <1>9 DEF Types

LEMMA WakeType ==
  ASSUME TypeOK, NEW p \in Players, Wake(p)
  PROVE  TypeOK'
<1>1. UNCHANGED <<file, user_table, rooms, inserting, b_sockfd, leaving, wars, up, down>>
  BY DEF Wake, server
<1>2. TypeServer' /\ TypeConn'
  BY <1>1 DEF TypeOK, TypeServer, TypeConn, Online
<1>3. gsem' \in [Players -> Nat]
  <2>1. gsem[p] \in Nat /\ gsem[p] > 0
    BY DEF Wake, TypeOK, TypeClient
  <2>2. gsem[p] - 1 \in Nat
    BY <2>1
  <2> QED BY <2>2 DEF Wake, TypeOK, TypeClient
<1>4. loop' \in [Players -> {"welcome", "online", "war", "left", "closed"}]
  <2>1. LoopOf[gstate[p]] \in {"welcome", "online", "war"}
    BY DEF LoopOf, TypeOK, TypeClient
  <2> QED BY <2>1 DEF Wake, TypeOK, TypeClient
<1>5. TypeClient'
  BY <1>3, <1>4 DEF Wake, TypeOK, TypeClient
<1> QED BY <1>2, <1>5 DEF TypeOK

LEMMA ListenType ==
  ASSUME TypeOK, NEW p \in Players, Listen(p)
  PROVE  TypeOK'
<1>1. UNCHANGED <<file, user_table, rooms, inserting, b_sockfd, leaving, wars, conn, up,
                  loop, wait, misled, fault>>
  BY DEF Listen, server
<1>2. down[p] \in Seq(DownMsg) /\ down[p] # <<>>
  BY DEF Listen, TypeOK, TypeConn
<1>3. Head(down[p]) \in DownMsg /\ Tail(down[p]) \in Seq(DownMsg)
  BY <1>2, HeadTailProperties
<1>4. down' \in [Players -> Seq(DownMsg)]
  BY <1>3 DEF Listen, TypeOK, TypeConn
<1>5. PICK m \in DownMsg :
        /\ gstate' = [gstate EXCEPT ![p] = StateAfter(m, @)]
        /\ gadversary' = [gadversary EXCEPT ![p] = AdversaryAfter(m, @)]
        /\ gsem' = [gsem EXCEPT ![p] = IF Posts(m) THEN @ + 1 ELSE @]
  BY <1>3 DEF Listen
<1>6. gstate' \in [Players -> {"WELCOM", "CLIENT_ONLINE", "CLIENT_WAR"}]
  <2>1. gstate \in [Players -> {"WELCOM", "CLIENT_ONLINE", "CLIENT_WAR"}]
    BY DEF TypeOK, TypeClient
  <2>2. StateAfter(m, gstate[p]) \in {"WELCOM", "CLIENT_ONLINE", "CLIENT_WAR"}
    BY <2>1 DEF StateAfter
  <2> QED BY <1>5, <2>1, <2>2
<1>7. gadversary' \in [Players -> Players \cup {Nobody}]
  <2>1. gadversary \in [Players -> Players \cup {Nobody}]
    BY DEF TypeOK, TypeClient
  <2>2. AdversaryAfter(m, gadversary[p]) \in Players \cup {Nobody}
    BY <2>1 DEF AdversaryAfter, DownMsg, TurnMsg
  <2> QED BY <1>5, <2>1, <2>2
<1>8. gsem' \in [Players -> Nat]
  BY <1>5 DEF TypeOK, TypeClient
<1>9. TypeServer' /\ TypeConn' /\ TypeClient'
  BY <1>1, <1>4, <1>6, <1>7, <1>8
  DEF TypeOK, TypeServer, TypeConn, TypeClient, Online
<1> QED BY <1>9 DEF TypeOK

(* What the server does for a connection. *)
LEMMA ServesType ==
  ASSUME TypeOK, NEW p \in Players, Serves(p)
  PROVE  TypeOK'
<1>0. /\ file \in [Players -> Credit \cup {NoFile}]
      /\ Online \subseteq Players /\ user_table \in [Online -> User]
      /\ DOMAIN rooms \subseteq Players /\ rooms \in [DOMAIN rooms -> WarRoom]
      /\ inserting \in [Players -> Players \cup {Nobody}]
      /\ b_sockfd \in [Players -> Nat] /\ leaving \in [Players -> BOOLEAN]
      /\ wars \in Seq(WarThread) /\ 0 \in Credit
  BY GameOK DEF TypeOK, TypeServer, Credit
<1>1. CASE SignUp(p)
  <2>1. TypeConn' /\ TypeClient'
    BY <1>1, AnswerType, NextInUp DEF SignUp, DownMsg
  <2>2. file' \in [Players -> Credit \cup {NoFile}]
    BY <1>0, <1>1 DEF SignUp
  <2>3. UNCHANGED <<user_table, rooms, inserting, b_sockfd, leaving, wars>>
    BY <1>1 DEF SignUp
  <2> QED BY <1>0, <2>1, <2>2, <2>3 DEF TypeOK, TypeServer, Online
<1>2. CASE SignIn(p)
  <2>1. PICK valid : /\ valid = Validity(p, Head(up[p]).right)
                     /\ user_table' = IF valid # 0 THEN user_table
                          ELSE Put(user_table, p,
                                   [state |-> "ONLINE", credit |-> file[p],
                                    room |-> Nobody, connfd |-> conn[p]])
                     /\ Answers(p, [t |-> "in", valid |-> valid])
    BY <1>2 DEF SignIn
  <2>2. valid \in 0..2 /\ (valid = 0 => file[p] # NoFile /\ p \notin Online)
    BY <2>1 DEF Validity
  <2>3. TypeConn' /\ TypeClient'
    BY <1>2, <2>1, <2>2, AnswerType, NextInUp DEF SignIn, DownMsg
  <2>4. UNCHANGED <<file, rooms, inserting, b_sockfd, leaving, wars>>
    BY <1>2 DEF SignIn
  <2>5. Online' \subseteq Players /\ user_table' \in [Online' -> User]
    <3>1. CASE valid # 0
      BY <1>0, <2>1, <3>1 DEF Online
    <3>2. CASE valid = 0
      <4>1. PICK u : u = [state |-> "ONLINE", credit |-> file[p],
                          room |-> Nobody, connfd |-> conn[p]]
        OBVIOUS
      <4>2. u \in User
        <5>1. file[p] \in Credit /\ conn[p] \in Nat
          BY <1>0, <2>2, <3>2 DEF TypeOK, TypeClient
        <5> QED BY <4>1, <5>1 DEF User
      <4>3. user_table' = Put(user_table, p, u)
        BY <2>1, <3>2, <4>1
      <4>4. Online' = Online \cup {p} /\ user_table' \in [Online \cup {p} -> User]
        BY <1>0, <4>2, <4>3 DEF Online, Put
      <4> QED BY <1>0, <4>4
    <3> QED BY <3>1, <3>2
  <2> QED BY <1>0, <2>3, <2>4, <2>5 DEF TypeOK, TypeServer
<1>3. CASE FriendsCreditList(p)
  <2>1. TypeConn' /\ TypeClient'
    BY <1>3, AnswerType, NextInUp DEF FriendsCreditList, DownMsg
  <2> QED BY <1>0, <1>3, <2>1 DEF FriendsCreditList, server, TypeOK, TypeServer, Online
<1>4. CASE WarRequest(p)
  <2>1. PICK b : b = Head(up[p]).to
    OBVIOUS
  <2>2. up[p] # <<>> /\ Head(up[p]).t = "request"
    BY <1>4, NextInUp DEF WarRequest
  <2>3. b \in Players
    BY <2>1, <2>2, HeadOfUp DEF UpMsg
  <2>4. CASE Refused(p, b)
    <3>1. PICK n \in 0..3 : n = IF b \in Online THEN 1 ELSE 0
      OBVIOUS
    <3>2. Answers(p, [t |-> "answered", adversary |-> b, answer |-> n])
      BY <2>4, <3>1 DEF Refused
    <3>3. TypeConn' /\ TypeClient'
      BY <2>2, <2>3, <3>2, AnswerType DEF DownMsg
    <3> QED BY <1>0, <2>4, <3>3 DEF Refused, server, TypeOK, TypeServer, Online
  <2>5. CASE ~Refused(p, b)
    <3>1. /\ Free(b)
          /\ wars' = Append(wars, [room |-> p, b |-> Nobody, held |-> FALSE,
                                   results |-> NoResults, socks |-> <<0, 0>>,
                                   pc |-> "ask"])
          /\ inserting' = [inserting EXCEPT ![p] = b]
          /\ b_sockfd' = [b_sockfd EXCEPT ![p] = user_table[b].connfd]
          /\ misled' = [misled EXCEPT ![p] = @ \/ OldRoom(p)]
          /\ up' = [up EXCEPT ![p] = Tail(@)]
          /\ UNCHANGED <<file, user_table, rooms, leaving, conn, down, gstate, loop,
                         wait, gsem, gadversary, fault>>
      BY <1>4, <2>1, <2>5 DEF WarRequest
    <3>2. [room |-> p, b |-> Nobody, held |-> FALSE, results |-> NoResults,
           socks |-> <<0, 0>>, pc |-> "ask"] \in WarThread
      BY DEF WarThread, NoResults, TurnMsg
    <3>3. wars' \in Seq(WarThread)
      BY <1>0, <3>1, <3>2, AppendProperties
    <3>4. /\ inserting' \in [Players -> Players \cup {Nobody}]
          /\ b_sockfd' \in [Players -> Nat]
      <4>1. user_table[b].connfd \in Nat
        BY <1>0, <3>1 DEF Free, User
      <4> QED BY <1>0, <2>3, <3>1, <4>1
    <3>5. TypeServer'
      BY <1>0, <3>1, <3>3, <3>4 DEF TypeServer, Online
    <3>6. misled' \in [Players -> BOOLEAN]
      <4>1. misled \in [Players -> BOOLEAN] /\ OldRoom(p) \in BOOLEAN
        BY DEF TypeOK, TypeClient, OldRoom
      <4> QED BY <3>1, <4>1
    <3>7. TypeConn' /\ TypeClient'
      BY <2>2, <3>1, <3>6, HeadOfUp DEF TypeOK, TypeConn, TypeClient
    <3> QED BY <3>5, <3>7 DEF TypeOK
  <2> QED BY <2>4, <2>5
<1>5. CASE InsertRoom(p)
  <2>1. rooms' = Inserted(p) /\ inserting' = [inserting EXCEPT ![p] = Nobody]
        /\ b_sockfd' = [b_sockfd EXCEPT ![p] = 0]
        /\ inserting[p] \in Players /\ conn[p] \in Nat /\ b_sockfd[p] \in Nat
    BY <1>0, <1>5 DEF InsertRoom, TypeOK, TypeClient
  <2>2. DOMAIN rooms' \subseteq Players /\ rooms' \in [DOMAIN rooms' -> WarRoom]
    <3>1. CASE p \in DOMAIN rooms
      BY <1>0, <2>1, <3>1 DEF Inserted
    <3>2. CASE p \notin DOMAIN rooms
      <4>1. NewRoom(inserting[p], conn[p], b_sockfd[p]) \in WarRoom
        BY <2>1, GameOK DEF NewRoom, WarRoom, NotRecved
      <4>2. PICK r \in WarRoom : r = NewRoom(inserting[p], conn[p], b_sockfd[p])
        BY <4>1
      <4>3. rooms' = Put(rooms, p, r)
        BY <2>1, <3>2, <4>2 DEF Inserted
      <4>4. /\ DOMAIN rooms' = DOMAIN rooms \cup {p}
            /\ rooms' \in [DOMAIN rooms \cup {p} -> WarRoom]
        BY <1>0, <4>3 DEF Put
      <4> QED BY <1>0, <4>4
    <3> QED BY <3>1, <3>2
  <2>3. /\ inserting' \in [Players -> Players \cup {Nobody}]
        /\ b_sockfd' \in [Players -> Nat]
    BY <1>0, <2>1
  <2>4. UNCHANGED <<file, user_table, leaving, wars, up, down, client, fault>>
    BY <1>5 DEF InsertRoom
  <2>5. TypeServer'
    BY <1>0, <2>2, <2>3, <2>4 DEF TypeServer, Online
  <2>6. TypeConn' /\ TypeClient'
    BY <2>4 DEF TypeOK, TypeConn, TypeClient, client
  <2> QED BY <2>5, <2>6 DEF TypeOK
<1>6. CASE WarResponse(p)
  <2>1. up[p] # <<>> /\ Head(up[p]).t = "answer"
    BY <1>6, NextInUp DEF WarResponse
  <2>2. PICK m \in UpMsg : m = Head(up[p]) /\ m.t = "answer"
    BY <2>1, HeadOfUp
  <2>3. rooms' = IF m.room \notin DOMAIN rooms THEN rooms
                 ELSE [rooms EXCEPT ![m.room].yes = m.yes, ![m.room].sem = @ + 1]
    BY <1>6, <2>2 DEF WarResponse
  <2>4. DOMAIN rooms' = DOMAIN rooms /\ rooms' \in [DOMAIN rooms -> WarRoom]
    <3>1. CASE m.room \notin DOMAIN rooms
      BY <1>0, <2>3, <3>1
    <3>2. CASE m.room \in DOMAIN rooms
      <4>1. m.yes \in BOOLEAN
        BY <2>2 DEF UpMsg
      <4>2. rooms[m.room] \in WarRoom
        BY <1>0, <3>2
      <4>3. [rooms[m.room] EXCEPT !.yes = m.yes, !.sem = @ + 1] \in WarRoom
        <5>1. PICK n \in Nat : n = rooms[m.room].sem
          BY <4>2 DEF WarRoom
        <5>2. n + 1 \in Nat
          OBVIOUS
        <5> QED BY <4>1, <4>2, <5>1, <5>2 DEF WarRoom
      <4>4. rooms' = [rooms EXCEPT ![m.room] =
                        [rooms[m.room] EXCEPT !.yes = m.yes, !.sem = @ + 1]]
        BY <1>0, <2>3, <3>2
      <4> QED BY <1>0, <4>3, <4>4
    <3> QED BY <3>1, <3>2
  <2>5. up' = [up EXCEPT ![p] = Tail(@)]
        /\ UNCHANGED <<file, user_table, inserting, b_sockfd, leaving, wars, down, client, fault>>
    BY <1>6 DEF WarResponse
  <2>6. TypeServer'
    BY <1>0, <2>4, <2>5 DEF TypeServer, Online
  <2>7. TypeConn' /\ TypeClient'
    BY <2>1, <2>5, HeadOfUp DEF TypeOK, TypeConn, TypeClient, client
  <2> QED BY <2>6, <2>7 DEF TypeOK
<1>7. CASE Pick(p)
  <2>1. CASE Faults
    BY <2>1 DEF Faults, server, client, TypeOK, TypeServer, TypeConn, TypeClient, Online
  <2>2. CASE ~Faults
    <3>1. up[p] # <<>> /\ Head(up[p]).t = "pick"
      BY <1>7, NextInUp DEF Pick
    <3>2. PICK k \in 0..3 : k = Head(up[p]).skc
      <4>1. Head(up[p]).skc \in Picks
        BY <3>1, HeadOfUp DEF UpMsg
      <4> QED BY <4>1 DEF Picks
    <3>3. PICK r \in DOMAIN rooms :
            rooms' = IF p = r THEN [rooms EXCEPT ![r].skc1 = k]
                     ELSE [rooms EXCEPT ![r].skc2 = k]
      BY <1>7, <2>2, <3>2 DEF Pick, HasRoom, Picked
    <3>4. DOMAIN rooms' = DOMAIN rooms /\ rooms' \in [DOMAIN rooms -> WarRoom]
      <4>1. rooms[r] \in WarRoom
        BY <1>0
      <4>2. /\ [rooms[r] EXCEPT !.skc1 = k] \in WarRoom
            /\ [rooms[r] EXCEPT !.skc2 = k] \in WarRoom
        BY <4>1 DEF WarRoom
      <4> QED BY <1>0, <3>3, <4>2
    <3>5. up' = [up EXCEPT ![p] = Tail(@)]
          /\ UNCHANGED <<file, user_table, inserting, b_sockfd, leaving, wars, down, client, fault>>
      BY <1>7, <2>2 DEF Pick
    <3>6. TypeServer'
      BY <1>0, <3>4, <3>5 DEF TypeServer, Online
    <3>7. TypeConn' /\ TypeClient'
      BY <3>1, <3>5, HeadOfUp DEF TypeOK, TypeConn, TypeClient, client
    <3> QED BY <3>6, <3>7 DEF TypeOK
  <2> QED BY <2>1, <2>2
<1>8. CASE SignOut(p)
  <2>1. up[p] # <<>> /\ UNCHANGED <<user_table, rooms, inserting, b_sockfd, wars,
                                   down, client, fault>>
    BY <1>8, NextInUp DEF SignOut
  <2>2. /\ file' \in [Players -> Credit \cup {NoFile}]
        /\ leaving' \in [Players -> BOOLEAN] /\ up' \in [Players -> Seq(UpMsg)]
    <3>1. CASE p \in Online
      <4>1. user_table[p].credit \in Credit
        BY <1>0, <3>1 DEF User
      <4> QED BY <1>0, <1>8, <3>1, <4>1 DEF SignOut, TypeOK, TypeConn
    <3>2. CASE p \notin Online
      BY <1>0, <1>8, <2>1, <3>2, HeadOfUp DEF SignOut
    <3> QED BY <3>1, <3>2
  <2> QED BY <1>0, <2>1, <2>2
          DEF TypeOK, TypeServer, TypeConn, TypeClient, client, Online
<1>10. CASE SignedOut(p)
  <2>1. TypeConn' /\ TypeClient'
    BY <1>10, AnswerType, NextInUp DEF SignedOut, DownMsg
  <2>2. UNCHANGED <<file, rooms, inserting, b_sockfd>>
    BY <1>10 DEF SignedOut
  <2>3. leaving' \in [Players -> BOOLEAN]
    BY <1>0, <1>10 DEF SignedOut
  <2>4. Online' \subseteq Players /\ user_table' \in [Online' -> User]
    <3>1. user_table' = Erase(user_table, p)
      BY <1>10 DEF SignedOut
    <3>2. Online' = Online \ {p} /\ user_table' \in [Online \ {p} -> User]
      BY <1>0, <3>1 DEF Online, Erase
    <3> QED BY <1>0, <3>2
  <2>5. wars' \in Seq(WarThread)
    <3> DEFINE e(i) == IF wars[i].b = p THEN [wars[i] EXCEPT !.held = FALSE] ELSE wars[i]
    <3>1. DOMAIN wars = 1..Len(wars) /\ Len(wars) \in Nat
      BY <1>0, LenProperties
    <3>2. wars' = [i \in 1..Len(wars) |-> e(i)]
      BY <1>10, <3>1 DEF SignedOut
    <3>3. \A i \in 1..Len(wars) : e(i) \in WarThread
      <4> SUFFICES ASSUME NEW i \in 1..Len(wars) PROVE e(i) \in WarThread
        OBVIOUS
      <4>1. wars[i] \in WarThread
        BY <1>0, ElementOfSeq
      <4>2. [wars[i] EXCEPT !.held = FALSE] \in WarThread
        BY <4>1 DEF WarThread
      <4> QED BY <4>1, <4>2
    <3> HIDE DEF e
    <3> QED BY <3>1, <3>2, <3>3, IsASeq
  <2> QED BY <1>0, <2>1, <2>2, <2>3, <2>4, <2>5 DEF TypeOK, TypeServer
<1>9. CASE CloseConn(p)
  <2>1. UNCHANGED <<user_table, rooms, inserting, b_sockfd, leaving, wars, conn,
                    up, down, gstate, wait, gsem, gadversary, misled, fault>>
    BY <1>9 DEF CloseConn
  <2>2. file' \in [Players -> Credit \cup {NoFile}]
    <3>1. CASE p \in Online /\ user_table[p].connfd = conn[p]
      <4>1. user_table[p].credit \in Credit
        BY <1>0, <3>1 DEF User
      <4> QED BY <1>0, <1>9, <3>1, <4>1 DEF CloseConn
    <3>2. CASE ~(p \in Online /\ user_table[p].connfd = conn[p])
      BY <1>0, <1>9, <3>2 DEF CloseConn
    <3> QED BY <3>1, <3>2
  <2>3. loop' \in [Players -> {"welcome", "online", "war", "left", "closed"}]
    BY <1>9 DEF CloseConn, TypeOK, TypeClient
  <2> QED BY <1>0, <2>1, <2>2, <2>3 DEF TypeOK, TypeServer, TypeConn, TypeClient, Online
<1> QED BY <1>1, <1>2, <1>3, <1>4, <1>5, <1>6, <1>7, <1>8, <1>9, <1>10 DEF Serves

(* A turn of a war. *)
LEMMA FinalFacts ==
  ASSUME NEW x \in Int, NEW y \in Int
  PROVE  /\ Final(x, y) \in 0..3
         /\ Final(x, y) = 1 <=> Final(y, x) = 2
         /\ Final(x, y) = 2 <=> Final(y, x) = 1
         /\ Final(x, y) = 0 <=> Final(y, x) = 0
         /\ Final(x, y) = 3 <=> Final(y, x) = 3
BY DEF Final

LEMMA PaidType ==
  ASSUME NEW c \in Credit, NEW f
  PROVE  Paid(c, f) \in Credit
<1>1. /\ c \in Int /\ DeltaCredit \in Int /\ -DeltaCredit \in Int
      /\ CreditMod \in Nat \ {0}
  BY GameOK DEF Credit
<1>2. Plus(c, DeltaCredit) \in Credit
  <2>1. c + DeltaCredit \in Int
    BY <1>1
  <2> QED BY <1>1, <2>1, RestDivisible DEF Plus, Credit
<1>3. Plus(c, -DeltaCredit) \in Credit
  <2>1. c + (-DeltaCredit) \in Int
    BY <1>1
  <2> QED BY <1>1, <2>1, RestDivisible DEF Plus, Credit
<1> QED BY <1>2, <1>3 DEF Paid

LEMMA TurnFacts ==
  ASSUME TypeOK, NEW i \in DOMAIN wars, Room(i) \in DOMAIN rooms
  PROVE  \E x \in Int, y \in Int :
           /\ Turn(i).a = Room(i) /\ Turn(i).b = rooms[Room(i)].b
           /\ Turn(i).a_blood = x /\ Turn(i).b_blood = y
           /\ Turn(i).a_result \in TurnMsg /\ Turn(i).b_result \in TurnMsg
           /\ Turn(i).a_result.final = Final(x, y)
           /\ Turn(i).b_result.final = Final(y, x)
<1>1. PICK r \in WarRoom : r = rooms[Room(i)]
  BY RoomFacts
<1> DEFINE la == LosesA(r.skc1, r.skc2)
           lb == LosesB(r.skc1, r.skc2)
<1>2. PICK ba \in Int : ba = r.a_blood - (IF la THEN BloodCut ELSE 0)
  BY GameOK DEF WarRoom
<1>3. PICK bb \in Int : bb = r.b_blood - (IF lb THEN BloodCut ELSE 0)
  BY GameOK DEF WarRoom
<1>4. Turn(i) =
        [a |-> Room(i), b |-> r.b, a_blood |-> ba, b_blood |-> bb,
         a_result |-> [t |-> "turn", res |-> Res(r.skc1, la, lb), final |-> Final(ba, bb)],
         b_result |-> [t |-> "turn", res |-> Res(r.skc2, lb, la), final |-> Final(bb, ba)]]
  BY <1>1, <1>2, <1>3 DEF Turn
<1>5. Res(r.skc1, la, lb) \in 0..3 /\ Res(r.skc2, lb, la) \in 0..3
  BY DEF Res
<1>6. Final(ba, bb) \in 0..3 /\ Final(bb, ba) \in 0..3
  BY FinalFacts
<1> HIDE DEF la, lb
<1>7. Turn(i).a_result \in TurnMsg /\ Turn(i).b_result \in TurnMsg
  BY <1>4, <1>5, <1>6 DEF TurnMsg
<1> QED BY <1>1, <1>4, <1>7

LEMMA NewRound ==
  ASSUME NEW r \in WarRoom
  PROVE  /\ [r EXCEPT !.skc1 = NotRecved, !.skc2 = NotRecved] \in WarRoom
         /\ \A n \in Nat : [r EXCEPT !.sem = n, !.skc1 = NotRecved, !.skc2 = NotRecved] \in WarRoom
<1>1. PICK k \in 0..3 : k = NotRecved
  BY DEF NotRecved
<1>2. [r EXCEPT !.skc1 = k, !.skc2 = k] \in WarRoom
  BY DEF WarRoom
<1>3. \A n \in Nat : [r EXCEPT !.sem = n, !.skc1 = k, !.skc2 = k] \in WarRoom
  BY DEF WarRoom
<1> QED BY <1>1, <1>2, <1>3

LEMMA AstrayKept ==
  ASSUME TypeOK, Faults
  PROVE  TypeOK'
BY DEF Faults, server, client, TypeOK, TypeServer, TypeConn, TypeClient, Online

LEMMA FightsType ==
  ASSUME TypeOK, NEW i \in DOMAIN wars, Fights(i)
  PROVE  TypeOK'
<1>0. /\ file \in [Players -> Credit \cup {NoFile}]
      /\ Online \subseteq Players /\ user_table \in [Online -> User]
      /\ DOMAIN rooms \subseteq Players /\ rooms \in [DOMAIN rooms -> WarRoom]
      /\ inserting \in [Players -> Players \cup {Nobody}]
      /\ b_sockfd \in [Players -> Nat] /\ leaving \in [Players -> BOOLEAN]
      /\ wars \in Seq(WarThread) /\ down \in [Players -> Seq(DownMsg)]
      /\ up \in [Players -> Seq(UpMsg)]
  BY DEF TypeOK, TypeServer, TypeConn
<1>w. wars[i] \in WarThread /\ Room(i) \in Players
  BY WarFacts
<1>1. CASE Ask(i)
  <2>1. PICK b \in Players : b = rooms[Room(i)].b
    BY <1>1, RoomFacts DEF Ask, WarRoom
  <2>2. [t |-> "ask", from |-> Room(i)] \in DownMsg
    BY <1>w DEF DownMsg
  <2>3. down' \in [Players -> Seq(DownMsg)]
    BY <1>0, <1>1, <2>1, <2>2, DeliverType DEF Ask
  <2>4. wars' \in Seq(WarThread)
    BY <1>1, GoesType DEF Ask
  <2>5. UNCHANGED <<file, user_table, rooms, inserting, b_sockfd, leaving, up, client, fault>>
    BY <1>1 DEF Ask
  <2> QED BY <1>0, <2>3, <2>4, <2>5
          DEF TypeOK, TypeServer, TypeConn, TypeClient, client, Online
<1>2. CASE Answered(i)
  <2>1. /\ Posted(i) /\ Room(i) \in DOMAIN rooms
        /\ UNCHANGED <<file, inserting, b_sockfd, leaving, up, client, fault>>
    BY <1>2 DEF Answered, Posted
  <2>2. PICK r \in WarRoom : r = rooms[Room(i)]
    BY <2>1, RoomFacts
  <2>3. r.b \in Players
    BY DEF WarRoom
  <2>4. PICK n \in Nat : n = r.sem - 1
    BY <2>1, <2>2 DEF Posted, WarRoom
  <2>5. /\ [r EXCEPT !.sem = n] \in WarRoom
        /\ [r EXCEPT !.sem = n, !.skc1 = NotRecved, !.skc2 = NotRecved] \in WarRoom
    BY NewRound DEF WarRoom
  <2>6. CASE ~r.yes
    <3>1. TellA(i, 2) /\ rooms' = [rooms EXCEPT ![Room(i)].sem = @ - 1]
          /\ Goes(i, "exit") /\ UNCHANGED user_table
      BY <1>2, <2>2, <2>6 DEF Answered
    <3>2. down' \in [Players -> Seq(DownMsg)]
      <4>1. [t |-> "answered", answer |-> 2, adversary |-> r.b] \in DownMsg
        BY <2>3 DEF DownMsg
      <4> QED BY <1>0, <2>2, <3>1, <4>1, DeliverType DEF TellA
    <3>3. rooms' = [rooms EXCEPT ![Room(i)] = [r EXCEPT !.sem = n]]
      BY <1>0, <2>1, <2>2, <2>4, <3>1
    <3>4. DOMAIN rooms' = DOMAIN rooms /\ rooms' \in [DOMAIN rooms -> WarRoom]
      BY <1>0, <2>5, <3>3
    <3>5. wars' \in Seq(WarThread)
      BY <3>1, GoesType
    <3> QED BY <1>0, <2>1, <3>1, <3>2, <3>4, <3>5
            DEF TypeOK, TypeServer, TypeConn, TypeClient, client, Online
  <2>7. CASE r.yes
    <3>1. /\ TellA(i, 3) /\ {Room(i), r.b} \subseteq Online
          /\ user_table' = [p \in Online |-> IF p \notin {Room(i), r.b} THEN user_table[p]
                              ELSE [user_table[p] EXCEPT !.state = "WAR", !.room = Room(i)]]
          /\ rooms' = [rooms EXCEPT ![Room(i)].sem = @ - 1,
                                    ![Room(i)].skc1 = NotRecved, ![Room(i)].skc2 = NotRecved]
          /\ wars' = [wars EXCEPT ![i].pc = "turn", ![i].b = r.b, ![i].held = TRUE]
      BY <1>2, <2>2, <2>7 DEF Answered
    <3>2. down' \in [Players -> Seq(DownMsg)]
      <4>1. [t |-> "answered", answer |-> 3, adversary |-> r.b] \in DownMsg
        BY <2>3 DEF DownMsg
      <4> QED BY <1>0, <2>2, <3>1, <4>1, DeliverType DEF TellA
    <3>3. rooms' = [rooms EXCEPT ![Room(i)] =
                      [r EXCEPT !.sem = n, !.skc1 = NotRecved, !.skc2 = NotRecved]]
      BY <1>0, <2>1, <2>2, <2>4, <3>1
    <3>4. DOMAIN rooms' = DOMAIN rooms /\ rooms' \in [DOMAIN rooms -> WarRoom]
      BY <1>0, <2>5, <3>3
    <3>5. wars' \in Seq(WarThread)
      <4>1. [wars[i] EXCEPT !.pc = "turn", !.b = r.b, !.held = TRUE] \in WarThread
        BY <1>w, <2>3 DEF WarThread
      <4>2. wars' = [wars EXCEPT ![i] = [wars[i] EXCEPT !.pc = "turn", !.b = r.b, !.held = TRUE]]
        BY <3>1
      <4> QED BY <4>1, <4>2, WarChanged
    <3>6. Online' = Online /\ user_table' \in [Online -> User]
      <4>1. \A p \in Online : /\ user_table[p] \in User
                              /\ [user_table[p] EXCEPT !.state = "WAR", !.room = Room(i)] \in User
        BY <1>0, <1>w DEF User
      <4> QED BY <3>1, <4>1 DEF Online
    <3> QED BY <1>0, <2>1, <3>2, <3>4, <3>5, <3>6
            DEF TypeOK, TypeServer, TypeConn, TypeClient, client
  <2> QED BY <2>6, <2>7
<1>3. CASE Judge(i)
  <2>1. Room(i) \in DOMAIN rooms
    BY <1>3 DEF Judge, TurnOver
  <2>2. PICK tu : tu = Turn(i)
    OBVIOUS
  <2>3. /\ tu.a = Room(i) /\ tu.a_blood \in Int /\ tu.b_blood \in Int
        /\ tu.a_result \in TurnMsg /\ tu.b_result \in TurnMsg
    BY <2>1, <2>2, TurnFacts
  <2>8. PICK so \in Nat \X Nat : so = <<rooms[tu.a].a_sockfd, rooms[tu.a].b_sockfd>>
    <3>1. rooms[tu.a] \in WarRoom
      BY <2>1, <2>3, RoomFacts
    <3> QED BY <3>1 DEF WarRoom
  <2>4. /\ user_table' = PaidBoth(tu)
        /\ rooms' = IF tu.a_result.final # 0 THEN Erase(rooms, tu.a)
                    ELSE [rooms EXCEPT ![tu.a].a_blood = tu.a_blood,
                                       ![tu.a].b_blood = tu.b_blood]
        /\ wars' = [wars EXCEPT ![i].pc = "results",
                                ![i].results = <<tu.a_result, tu.b_result>>,
                                ![i].socks = so]
        /\ UNCHANGED <<file, inserting, b_sockfd, leaving, up, down, client, fault>>
    BY <1>3, <2>2, <2>8 DEF Judge
  <2>5. Online' = Online /\ user_table' \in [Online -> User]
    <3> DEFINE c(p) == IF p # tu.a THEN user_table[p].credit
                       ELSE Paid(user_table[p].credit, tu.a_result.final)
               d(p) == IF p = tu.b THEN Paid(c(p), tu.b_result.final) ELSE c(p)
    <3>1. user_table' = [p \in Online |-> [user_table[p] EXCEPT !.credit = d(p)]]
      BY <2>4 DEF PaidBoth
    <3>2. \A p \in Online : user_table[p] \in User /\ user_table[p].credit \in Credit
      BY <1>0 DEF User
    <3>3. \A p \in Online : c(p) \in Credit
      BY <3>2, PaidType
    <3> HIDE DEF c
    <3>4. \A p \in Online : d(p) \in Credit
      BY <3>3, PaidType
    <3> HIDE DEF d
    <3>5. \A p \in Online : [user_table[p] EXCEPT !.credit = d(p)] \in User
      BY <3>2, <3>4 DEF User
    <3> QED BY <3>1, <3>5 DEF Online
  <2>6. DOMAIN rooms' \subseteq Players /\ rooms' \in [DOMAIN rooms' -> WarRoom]
    <3>1. CASE tu.a_result.final # 0
      BY <1>0, <2>4, <3>1 DEF Erase
    <3>2. CASE tu.a_result.final = 0
      <4>1. rooms[tu.a] \in WarRoom
        BY <2>1, <2>3, RoomFacts
      <4>2. [rooms[tu.a] EXCEPT !.a_blood = tu.a_blood, !.b_blood = tu.b_blood] \in WarRoom
        BY <2>3, <4>1 DEF WarRoom
      <4>3. rooms' = [rooms EXCEPT ![tu.a] =
               [rooms[tu.a] EXCEPT !.a_blood = tu.a_blood, !.b_blood = tu.b_blood]]
        BY <1>0, <2>1, <2>3, <2>4, <3>2
      <4> QED BY <1>0, <4>2, <4>3
    <3> QED BY <3>1, <3>2
  <2>7. wars' \in Seq(WarThread)
    <3>1. [wars[i] EXCEPT !.pc = "results", !.results = <<tu.a_result, tu.b_result>>,
                          !.socks = so] \in WarThread
      BY <1>w, <2>3 DEF WarThread
    <3>2. wars' = [wars EXCEPT ![i] =
            [wars[i] EXCEPT !.pc = "results", !.results = <<tu.a_result, tu.b_result>>,
                            !.socks = so]]
      BY <2>4
    <3> QED BY <3>1, <3>2, WarChanged
  <2> QED BY <1>0, <2>4, <2>5, <2>6, <2>7
          DEF TypeOK, TypeServer, TypeConn, TypeClient, client
<1>4. CASE SendResults(i)
  <2>1. PICK ended : ended = (wars[i].results[1].final # 0)
    OBVIOUS
  <2>2. /\ rooms' = IF ended THEN rooms
                    ELSE [rooms EXCEPT ![Room(i)].skc1 = NotRecved,
                                       ![Room(i)].skc2 = NotRecved]
        /\ down' = Deliver(Deliver(down, Room(i), wars[i].socks[1],
                                   wars[i].results[1]),
                           wars[i].b, wars[i].socks[2], wars[i].results[2])
        /\ wars' = [wars EXCEPT ![i].pc = IF ended THEN "restore" ELSE "turn",
                                ![i].results = NoResults, ![i].socks = <<0, 0>>]
        /\ UNCHANGED <<file, user_table, inserting, b_sockfd, leaving, up, client, fault>>
    BY <1>4, <2>1 DEF SendResults
  <2>3. wars[i].results[1] \in DownMsg /\ wars[i].results[2] \in DownMsg
    BY <1>w DEF WarThread, DownMsg
  <2>4. down' \in [Players -> Seq(DownMsg)]
    <3>1. PICK d \in [Players -> Seq(DownMsg)] :
            d = Deliver(down, Room(i), wars[i].socks[1], wars[i].results[1])
      BY <1>0, <2>3, DeliverType
    <3> QED BY <2>2, <2>3, <3>1, DeliverType
  <2>5. DOMAIN rooms' = DOMAIN rooms /\ rooms' \in [DOMAIN rooms -> WarRoom]
    <3>1. CASE Room(i) \in DOMAIN rooms
      <4>1. rooms[Room(i)] \in WarRoom
        BY <1>0, <3>1
      <4>2. [rooms[Room(i)] EXCEPT !.skc1 = NotRecved, !.skc2 = NotRecved] \in WarRoom
        BY <4>1, NewRound
      <4>3. [rooms EXCEPT ![Room(i)].skc1 = NotRecved, ![Room(i)].skc2 = NotRecved]
              = [rooms EXCEPT ![Room(i)] =
                   [rooms[Room(i)] EXCEPT !.skc1 = NotRecved, !.skc2 = NotRecved]]
        BY <1>0, <3>1
      <4> QED BY <1>0, <2>2, <4>2, <4>3
    <3>2. CASE Room(i) \notin DOMAIN rooms
      BY <1>0, <2>2, <3>2
    <3> QED BY <3>1, <3>2
  <2>6. wars' \in Seq(WarThread)
    <3>1. PICK pc \in {"restore", "turn"} : pc = IF ended THEN "restore" ELSE "turn"
      OBVIOUS
    <3>2. NoResults \in TurnMsg \X TurnMsg
      BY DEF NoResults, TurnMsg
    <3>3. [wars[i] EXCEPT !.pc = pc, !.results = NoResults, !.socks = <<0, 0>>] \in WarThread
      BY <1>w, <3>2 DEF WarThread
    <3>4. wars' = [wars EXCEPT ![i] = [wars[i] EXCEPT !.pc = pc, !.results = NoResults,
                                                        !.socks = <<0, 0>>]]
      BY <2>2, <3>1
    <3> QED BY <3>3, <3>4, WarChanged
  <2> QED BY <1>0, <2>2, <2>4, <2>5, <2>6
          DEF TypeOK, TypeServer, TypeConn, TypeClient, client, Online
<1>5. CASE Restore(i)
  <2>1. /\ user_table' = BackOnline(Room(i), wars[i].b)
        /\ wars' = [wars EXCEPT ![i].pc = "exit", ![i].b = Nobody, ![i].held = FALSE]
        /\ UNCHANGED <<file, rooms, inserting, b_sockfd, leaving, up, down, client, fault>>
    BY <1>5 DEF Restore
  <2>2. Online' = Online /\ user_table' \in [Online -> User]
    <3>1. \A p \in Online : /\ user_table[p] \in User
                            /\ [user_table[p] EXCEPT !.state = "ONLINE"] \in User
      BY <1>0 DEF User
    <3> QED BY <2>1, <3>1 DEF Online, BackOnline
  <2>3. wars' \in Seq(WarThread)
    <3>1. [wars[i] EXCEPT !.pc = "exit", !.b = Nobody, !.held = FALSE] \in WarThread
      BY <1>w DEF WarThread
    <3>2. wars' = [wars EXCEPT ![i] = [wars[i] EXCEPT !.pc = "exit", !.b = Nobody, !.held = FALSE]]
      BY <2>1
    <3> QED BY <3>1, <3>2, WarChanged
  <2> QED BY <1>0, <2>1, <2>2, <2>3
          DEF TypeOK, TypeServer, TypeConn, TypeClient, client
<1>6. CASE Crash(i)
  BY <1>6, AstrayKept DEF Crash
<1> QED BY <1>1, <1>2, <1>3, <1>4, <1>5, <1>6 DEF Fights

LEMMA TypeStep == TypeOK /\ [Next]_vars => TypeOK'
<1> SUFFICES ASSUME TypeOK, [Next]_vars PROVE TypeOK'
  OBVIOUS
<1>1. ASSUME NEW p \in Players, Types(p) \/ Wake(p) \/ Listen(p) \/ Serves(p) PROVE TypeOK'
  BY <1>1, TypesType, WakeType, ListenType, ServesType
<1>2. ASSUME NEW i \in DOMAIN wars, Fights(i) PROVE TypeOK'
  BY <1>2, FightsType
<1>3. CASE UNCHANGED vars
  BY <1>3 DEF vars, server, client, TypeOK, TypeServer, TypeConn, TypeClient, Online
<1> QED BY <1>1, <1>2, <1>3 DEF Next

(* The tables, the connections and the clients hold what their types say:    *)
(* credit stays an unsigned char, the players that tables and messages name  *)
(* are accounts (server.cc lines 22-63 and 192-235).                         *)
THEOREM Typed == Spec => []TypeOK
BY InitType, TypeStep, PTL DEF Spec

-----------------------------------------------------------------------------
(* The wars of two players who do not ask themselves.  A third one could be  *)
(* drawn into a war that he did not agree to, and who asks himself is told   *)
(* both results of a turn.                                                   *)
TwoPlayers ==
  /\ \A p, q, r \in Players : p = q \/ p = r \/ q = r
  /\ \A p \in Players : p \notin Asks[p]

(* A player who is signed in, on a connection whose end is not known. *)
SignedIn(p) ==
  p \in Online /\ user_table[p].connfd = conn[p] /\ loop[p] # "closed"

(* What the threads of the wars have to do with a player: his request waits *)
(* for an answer; he fights, in a thread at one of pcs; the war he asked    *)
(* for goes on; a pick of his is noted, or was judged, in the present turn. *)
Calling(p) == \E i \in DOMAIN wars : wars[i].pc \in {"ask", "wait"} /\ wars[i].room = p
In(p, pcs) == \E i \in DOMAIN wars : wars[i].pc \in pcs /\ p \in {wars[i].room, wars[i].b}
Fighting(p) == In(p, {"turn", "results", "restore"})
Hosting(p) == \E i \in DOMAIN wars : wars[i].pc = "turn" /\ wars[i].room = p
ResultOf(w, p) == IF p = w.room THEN w.results[1] ELSE w.results[2]
Played(p) ==
  \E i \in DOMAIN wars : /\ wars[i].pc = "results" /\ p \in {wars[i].room, wars[i].b}
                         /\ ResultOf(wars[i], p).res # 3
SkcOf(r, p) == IF p = r THEN rooms[r].skc1 ELSE rooms[r].skc2
Noted(p) ==
  p \in Online /\ user_table[p].room \in DOMAIN rooms /\ SkcOf(user_table[p].room, p) # NotRecved

(* He has agreed to a war that no thread has started yet. *)
Agreed(p) == \E r \in DOMAIN rooms : r # p /\ rooms[r].yes /\ rooms[r].sem > 0

Has(s, types) == \E k \in DOMAIN s : s[k].t \in types
HasYes(s) == \E k \in DOMAIN s : s[k].t = "answer" /\ s[k].yes
LastIs(s, t) == s # <<>> /\ s[Len(s)].t = t
Bound(p) == Calling(p) \/ Fighting(p) \/ Agreed(p) \/ HasYes(up[p])

-----------------------------------------------------------------------------
(* Nobody names himself. *)
UpFrom(p) ==
  {m \in UpMsg : (m.t = "request" => m.to # p) /\ (m.t = "answer" => m.room # p)}
DownTo(p) ==
  {m \in DownMsg : (m.t = "ask" => m.from # p) /\ (m.t = "answered" => m.adversary # p)}
Others ==
  /\ \A r \in DOMAIN rooms : rooms[r].b # r
  /\ \A p \in Players : /\ inserting[p] # p /\ gadversary[p] # p
                        /\ up[p] \in Seq(UpFrom(p)) /\ down[p] \in Seq(DownTo(p))

(* A war that was agreed on has the only thread, and its room takes no more *)
(* answers once it is decided.                                              *)
Over(w) == w.pc = "restore" \/ (w.pc = "results" /\ w.results[1].final # 0)
Threads ==
  /\ \A i, j \in DOMAIN wars :
       wars[i].pc # "exit" /\ wars[j].pc # "exit" /\ i # j =>
         wars[i].room # wars[j].room /\ wars[i].pc \in {"ask", "wait"}
  /\ \A i \in DOMAIN wars : wars[i].pc \in {"turn", "results", "restore"} =>
       /\ wars[i].b \in Players /\ wars[i].b # wars[i].room /\ ~Agreed(wars[i].room)
       /\ Over(wars[i]) => ~Agreed(wars[i].b)
       /\ wars[i].pc # "restore" =>
            \A p \in {wars[i].room, wars[i].b} :
              /\ p \in Online
              /\ user_table[p].state = "WAR" /\ user_table[p].room = wars[i].room
  /\ \A i \in DOMAIN wars : wars[i].pc = "results" =>
       LET f1 == wars[i].results[1].final
           f2 == wars[i].results[2].final
       IN  (f1 = 0 <=> f2 = 0) /\ (f1 \in {1, 2} <=> f2 \in {1, 2})
  /\ \A p \in Online : user_table[p].state = "WAR" => Fighting(p)

(* A command is the last that a client sends before it has the answer; after *)
(* a yes it sends one pick at most.                                          *)
Commands == {"signup", "signin", "list", "request", "signout"}
Orderly(s) ==
  \A k \in DOMAIN s :
    /\ k < Len(s) => s[k].t \in {"answer", "pick"}
    /\ s[k].t = "answer" /\ s[k].yes => Len(s) <= k + 1 /\ (k < Len(s) => s[k + 1].t = "pick")

(* Whoever is bound to a war is online, and stays. *)
UpOK(p) ==
  /\ Orderly(up[p])
  /\ Has(up[p], {"request", "signout"}) => SignedIn(p)
  /\ Calling(p) =>
       p \in Online /\ ~Agreed(p) /\ ~Has(up[p], {"answer", "pick", "list", "request", "signout"})
  /\ Fighting(p) \/ Agreed(p) =>
       p \in Online /\ Len(up[p]) <= 1 /\ ~Has(up[p], {"answer", "list", "request", "signout"})
  /\ HasYes(up[p]) => p \in Online /\ ~Calling(p) /\ ~Fighting(p) /\ ~Agreed(p)

-----------------------------------------------------------------------------
(* The posts of gsem that are there or under way to a client: none, or one, *)
(* after which its state is g.                                              *)
Silent(s) == \A k \in DOMAIN s : ~Posts(s[k])
OnePost(s, old, new) ==
  \E k \in DOMAIN s : /\ Posts(s[k]) /\ StateAfter(s[k], old) = new
                      /\ \A j \in DOMAIN s : j # k => ~Posts(s[j])
NoPost(p) == gsem[p] = 0 /\ Silent(down[p])
Will(p, g) ==
  \/ gsem[p] = 1 /\ gstate[p] = g /\ Silent(down[p])
  \/ gsem[p] = 0 /\ OnePost(down[p], gstate[p], g)

Welcome(p) ==
  \/ /\ wait[p] = "no" /\ NoPost(p) /\ gstate[p] = "WELCOM"
     /\ up[p] = <<>> /\ ~SignedIn(p)
  \/ /\ wait[p] = "call" /\ NoPost(p) /\ gstate[p] = "WELCOM"
     /\ Len(up[p]) = 1 /\ Has(up[p], {"signup", "signin"}) /\ ~SignedIn(p)
  \/ /\ wait[p] = "call" /\ Will(p, "WELCOM") /\ up[p] = <<>> /\ ~SignedIn(p)
  \/ /\ wait[p] = "call" /\ Will(p, "CLIENT_ONLINE") /\ up[p] = <<>>
     /\ SignedIn(p) /\ ~Bound(p)

(* The answer to his request will go to his present connection. *)
Direct(p) ==
  IF p \in DOMAIN rooms THEN rooms[p].a_sockfd = conn[p] ELSE inserting[p] # Nobody

(* Or it went to an earlier one: he waits for ever, at war with whoever     *)
(* agreed to one, of which he is not told either.                           *)
Deaf(p) ==
  \A i \in DOMAIN wars :
    wars[i].pc \in {"turn", "results", "restore"} /\ p \in {wars[i].room, wars[i].b} =>
      /\ wars[i].room = p
      /\ ~Over(wars[i]) => p \in DOMAIN rooms /\ rooms[p].a_sockfd # conn[p]
      /\ wars[i].pc = "results" => wars[i].socks[1] # conn[p]
Stuck(p) ==
  /\ wait[p] = "request" /\ NoPost(p) /\ gstate[p] = "CLIENT_ONLINE"
  /\ up[p] = <<>> /\ SignedIn(p) /\ misled[p] /\ ~Agreed(p) /\ Deaf(p)

OnLine(p) ==
  \/ /\ wait[p] = "no" /\ NoPost(p) /\ gstate[p] = "CLIENT_ONLINE"
     /\ ~Has(up[p], Commands) /\ SignedIn(p) /\ ~Bound(p)
  \/ /\ wait[p] \in {"call", "request"} /\ NoPost(p) /\ gstate[p] = "CLIENT_ONLINE"
     /\ Has(up[p], IF wait[p] = "call" THEN {"list", "signout"} ELSE {"request"})
     /\ SignedIn(p) /\ ~Bound(p)
  \/ /\ wait[p] \in {"call", "request"} /\ Will(p, "CLIENT_ONLINE")
     /\ ~Has(up[p], Commands) /\ SignedIn(p) /\ ~Bound(p)
  \/ /\ wait[p] = "call" /\ Will(p, "WELCOM") /\ up[p] = <<>> /\ p \notin Online
  \/ /\ wait[p] = "request" /\ NoPost(p) /\ gstate[p] = "CLIENT_ONLINE"
     /\ up[p] = <<>> /\ SignedIn(p) /\ Calling(p) /\ (Direct(p) \/ misled[p])
  \/ /\ wait[p] = "request" /\ Will(p, "CLIENT_WAR")
     /\ up[p] = <<>> /\ SignedIn(p) /\ Hosting(p)
  \/ Stuck(p)

(* At war a client waits for a post after each pick, but may be left with a  *)
(* last one when the war is over.                                            *)
AtWar(p) ==
  /\ wait[p] \in {"no", "pick"} /\ SignedIn(p) /\ ~Calling(p) /\ ~Has(up[p], Commands)
  /\ \/ NoPost(p) /\ gstate[p] = "CLIENT_WAR"
     \/ Will(p, "CLIENT_WAR") /\ wait[p] = "pick"
     \/ /\ Will(p, "CLIENT_ONLINE") /\ ~Has(down[p], {"in"})
        /\ ~HasYes(up[p]) /\ ~Agreed(p) /\ ~In(p, {"turn", "results"})
        /\ gstate[p] = "CLIENT_ONLINE" => ~Fighting(p)
  /\ HasYes(up[p]) \/ (Agreed(p) /\ ~Fighting(p)) =>
       NoPost(p) /\ (LastIs(up[p], "pick") => wait[p] = "pick")

(* A pick that is under way or noted is one the client waits for. *)
Turns(p) ==
  /\ In(p, {"turn"}) =>
       /\ up[p] # <<>> => NoPost(p) /\ wait[p] = "pick" /\ ~Noted(p)
       /\ Noted(p) => NoPost(p) /\ wait[p] = "pick"
  /\ In(p, {"results"}) =>
       /\ NoPost(p)
       /\ up[p] # <<>> => wait[p] = "pick" /\ ~Played(p)
       /\ Noted(p) \/ Played(p) => wait[p] = "pick"
  /\ In(p, {"results", "restore"}) => loop[p] = "war" \/ Stuck(p)
  /\ In(p, {"restore"}) /\ up[p] # <<>> => wait[p] = "pick" /\ ~Will(p, "CLIENT_WAR")

Client(p) ==
  /\ loop[p] = "welcome" => Welcome(p)
  /\ loop[p] = "online" => OnLine(p)
  /\ loop[p] = "war" => AtWar(p)
  /\ Ended(p) => gsem[p] = 0 /\ down[p] = <<>> /\ gstate[p] = "WELCOM" /\ wait[p] = "no"
  /\ loop[p] = "closed" => up[p] = <<>> /\ ~SignedIn(p)
  /\ ~Ended(p) /\ SignedIn(p) => Turns(p)

Players2 == \A p \in Players : UpOK(p) /\ Client(p)
WarInv == Others /\ Threads /\ Players2

(* No connection in the tables is newer than the one its player signed in on. *)
Latest(p) == IF p \in Online THEN user_table[p].connfd ELSE conn[p]
Sockets ==
  /\ \A p \in Players : Latest(p) <= conn[p]
  /\ \A r \in DOMAIN rooms : /\ rooms[r].a_sockfd <= Latest(r)
                             /\ rooms[r].b_sockfd <= Latest(rooms[r].b)
  /\ \A p \in Players : inserting[p] # Nobody =>
       SignedIn(p) /\ b_sockfd[p] <= Latest(inserting[p])
  /\ \A i \in DOMAIN wars : wars[i].pc = "results" =>
       /\ wars[i].socks[1] <= Latest(wars[i].room)
       /\ wars[i].socks[2] <= Latest(wars[i].b)

(* Between the two steps of a sign-out the file is right. *)
Leaving ==
  \A p \in Players : leaving[p] =>
    /\ p \in Online /\ file[p] = user_table[p].credit
    /\ up[p] # <<>> /\ Head(up[p]).t = "signout"

-----------------------------------------------------------------------------
(* Sequences of messages. *)
LEMMA TailIs ==
  ASSUME NEW S, NEW s \in Seq(S), s # <<>>
  PROVE  /\ Len(s) \in Nat \ {0} /\ DOMAIN s = 1..Len(s) /\ Head(s) = s[1]
         /\ Tail(s) \in Seq(S) /\ Len(Tail(s)) = Len(s) - 1
         /\ DOMAIN Tail(s) = 1..(Len(s) - 1)
         /\ \A k \in 1..(Len(s) - 1) : Tail(s)[k] = s[k + 1]
<1>1. Len(s) \in Nat /\ DOMAIN s = 1..Len(s) /\ Len(s) # 0
  BY LenProperties, EmptySeq
<1>2. /\ Head(s) = s[1] /\ Tail(s) \in Seq(S) /\ Len(Tail(s)) = Len(s) - 1
      /\ \A k \in 1..Len(Tail(s)) : Tail(s)[k] = s[k + 1]
  BY HeadTailProperties
<1>3. DOMAIN Tail(s) = 1..Len(Tail(s))
  BY <1>2, LenProperties
<1> QED BY <1>1, <1>2, <1>3

LEMMA AppendIs ==
  ASSUME NEW S, NEW s \in Seq(S), NEW m \in S
  PROVE  /\ Len(s) \in Nat /\ DOMAIN s = 1..Len(s)
         /\ Append(s, m) \in Seq(S) /\ Len(Append(s, m)) = Len(s) + 1
         /\ DOMAIN Append(s, m) = 1..(Len(s) + 1)
         /\ \A k \in 1..Len(s) : Append(s, m)[k] = s[k]
         /\ Append(s, m)[Len(s) + 1] = m
<1>1. Len(s) \in Nat /\ DOMAIN s = 1..Len(s)
  BY LenProperties
<1>2. /\ Append(s, m) \in Seq(S) /\ Len(Append(s, m)) = Len(s) + 1
      /\ \A k \in 1..Len(s) : Append(s, m)[k] = s[k]
      /\ Append(s, m)[Len(s) + 1] = m
  BY AppendProperties
<1>3. DOMAIN Append(s, m) = 1..Len(Append(s, m))
  BY <1>2, LenProperties
<1> QED BY <1>1, <1>2, <1>3

LEMMA EmptyIs == DOMAIN <<>> = {} /\ Len(<<>>) = 0
  OBVIOUS

(* What is said, by a client that sends one message more. *)
LEMMA HasAppend ==
  ASSUME NEW S, NEW s \in Seq(S), NEW m \in S, NEW T
  PROVE  Has(Append(s, m), T) <=> Has(s, T) \/ m.t \in T
<1>1. ASSUME NEW k \in DOMAIN s, s[k].t \in T PROVE Has(Append(s, m), T)
  BY <1>1, AppendIs DEF Has
<1>2. m.t \in T => Has(Append(s, m), T)
  <2>1. Len(s) + 1 \in DOMAIN Append(s, m) /\ Append(s, m)[Len(s) + 1] = m
    BY AppendIs
  <2> QED BY <2>1 DEF Has
<1>3. ASSUME NEW k \in DOMAIN Append(s, m), Append(s, m)[k].t \in T, m.t \notin T
      PROVE  Has(s, T)
  <2>1. k \in 1..(Len(s) + 1) /\ Len(s) \in Nat /\ Append(s, m)[Len(s) + 1] = m
    BY AppendIs
  <2>2. k \in 1..Len(s)
    BY <1>3, <2>1
  <2>3. k \in DOMAIN s /\ Append(s, m)[k] = s[k]
    BY <2>2, AppendIs
  <2> QED BY <1>3, <2>3 DEF Has
<1> QED BY <1>1, <1>2, <1>3 DEF Has

LEMMA HasYesAppend ==
  ASSUME NEW S, NEW s \in Seq(S), NEW m \in S
  PROVE  HasYes(Append(s, m)) <=> HasYes(s) \/ (m.t = "answer" /\ m.yes)
<1>1. ASSUME NEW k \in DOMAIN s, s[k].t = "answer", s[k].yes PROVE HasYes(Append(s, m))
  BY <1>1, AppendIs DEF HasYes
<1>2. m.t = "answer" /\ m.yes => HasYes(Append(s, m))
  <2>1. Len(s) + 1 \in DOMAIN Append(s, m) /\ Append(s, m)[Len(s) + 1] = m
    BY AppendIs
  <2> QED BY <2>1 DEF HasYes
<1>3. ASSUME NEW k \in DOMAIN Append(s, m), Append(s, m)[k].t = "answer",
             Append(s, m)[k].yes, ~(m.t = "answer" /\ m.yes)
      PROVE  HasYes(s)
  <2>1. k \in 1..(Len(s) + 1) /\ Len(s) \in Nat /\ Append(s, m)[Len(s) + 1] = m
    BY AppendIs
  <2>2. k \in 1..Len(s)
    BY <1>3, <2>1
  <2>3. k \in DOMAIN s /\ Append(s, m)[k] = s[k]
    BY <2>2, AppendIs
  <2> QED BY <1>3, <2>3 DEF HasYes
<1> QED BY <1>1, <1>2, <1>3 DEF HasYes

LEMMA OrderlyAppend ==
  ASSUME NEW S, NEW s \in Seq(S), NEW m \in S, Orderly(s),
         \A k \in DOMAIN s : s[k].t \in {"answer", "pick"},
         HasYes(s) => m.t = "pick" /\ ~LastIs(s, "pick")
  PROVE  Orderly(Append(s, m))
<1>1. PICK n \in Nat : n = Len(s)
  BY AppendIs
<1>2. PICK u \in Seq(S) : u = Append(s, m)
  BY AppendIs
<1>3. /\ DOMAIN s = 1..n /\ DOMAIN u = 1..(n + 1) /\ Len(u) = n + 1
      /\ \A k \in 1..n : u[k] = s[k]
      /\ u[n + 1] = m
  BY <1>1, <1>2, AppendIs
<1>4. ASSUME NEW k \in 1..(n + 1), k < n + 1 PROVE u[k].t \in {"answer", "pick"}
  BY <1>3, <1>4
<1>5. ASSUME NEW k \in 1..(n + 1), u[k].t = "answer", u[k].yes
      PROVE  n + 1 <= k + 1 /\ (k < n + 1 => u[k + 1].t = "pick")
  <2>1. CASE k = n + 1
    BY <2>1
  <2>2. CASE k # n + 1
    <3>1. k \in 1..n
      BY <2>2
    <3>2. s[k].t = "answer" /\ s[k].yes
      BY <1>3, <1>5, <3>1
    <3>3. m.t = "pick" /\ ~LastIs(s, "pick")
      BY <1>3, <3>1, <3>2 DEF HasYes
    <3>4. k = n
      <4> SUFFICES ASSUME k < n PROVE FALSE
        BY <3>1
      <4>1. n <= k + 1 /\ s[k + 1].t = "pick"
        BY <1>1, <1>3, <3>1, <3>2 DEF Orderly
      <4>2. s[n].t = "pick" /\ s # <<>>
        BY <1>3, <3>1, <4>1, EmptyIs
      <4> QED BY <1>1, <3>3, <4>2 DEF LastIs
    <3> QED BY <1>3, <3>3, <3>4
  <2> QED BY <2>1, <2>2
<1> QED BY <1>2, <1>3, <1>4, <1>5 DEF Orderly

(* And when the first one has been taken. *)
LEMMA TailKeeps ==
  ASSUME NEW S, NEW s \in Seq(S), s # <<>>
  PROVE  /\ \A T : Has(Tail(s), T) => Has(s, T)
         /\ HasYes(Tail(s)) => HasYes(s)
         /\ Orderly(s) => Orderly(Tail(s))
         /\ \A t : LastIs(Tail(s), t) => LastIs(s, t)
<1>1. PICK n \in Nat \ {0} : n = Len(s)
  BY TailIs
<1>2. PICK u \in Seq(S) : u = Tail(s)
  BY TailIs
<1>3. /\ DOMAIN s = 1..n /\ DOMAIN u = 1..(n - 1) /\ Len(u) = n - 1
      /\ \A k \in 1..(n - 1) : u[k] = s[k + 1]
  BY <1>1, <1>2, TailIs
<1>4. \A k \in 1..(n - 1) : k + 1 \in 1..n
  OBVIOUS
<1>5. ASSUME NEW T, Has(u, T) PROVE Has(s, T)
  BY <1>3, <1>4, <1>5 DEF Has
<1>6. ASSUME HasYes(u) PROVE HasYes(s)
  BY <1>3, <1>4, <1>6 DEF HasYes
<1>7. ASSUME Orderly(s) PROVE Orderly(u)
  <2>1. ASSUME NEW k \in 1..(n - 1), k < n - 1 PROVE u[k].t \in {"answer", "pick"}
    <3>1. s[k + 1].t \in {"answer", "pick"}
      BY <1>1, <1>3, <1>4, <1>7, <2>1 DEF Orderly
    <3> QED BY <1>3, <3>1
  <2>2. ASSUME NEW k \in 1..(n - 1), u[k].t = "answer", u[k].yes
        PROVE  n - 1 <= k + 1 /\ (k < n - 1 => u[k + 1].t = "pick")
    <3>1. s[k + 1].t = "answer" /\ s[k + 1].yes /\ k + 1 \in 1..n
      BY <1>3, <1>4, <2>2
    <3>2. n <= (k + 1) + 1 /\ (k + 1 < n => s[(k + 1) + 1].t = "pick")
      BY <1>1, <1>3, <1>7, <3>1 DEF Orderly
    <3> QED BY <1>3, <3>2
  <2> QED BY <1>3, <2>1, <2>2 DEF Orderly
<1>8. ASSUME NEW t, LastIs(u, t) PROVE LastIs(s, t)
  <2>1. u # <<>> /\ u[n - 1].t = t
    BY <1>3, <1>8 DEF LastIs
  <2>2. n - 1 # 0
    <3> SUFFICES ASSUME n = 1 PROVE FALSE
      OBVIOUS
    <3>1. Len(u) = 0
      BY <1>3
    <3> QED BY <2>1, <3>1, EmptySeq
  <2>3. u[n - 1] = s[n]
    BY <1>3, <2>2
  <2> QED BY <1>1, <2>1, <2>3 DEF LastIs
<1> QED BY <1>2, <1>5, <1>6, <1>7, <1>8

(* A message that is no answer and no pick is the last. *)
LEMMA CommandIsLast ==
  ASSUME NEW S, NEW s \in Seq(S), s # <<>>, Orderly(s), Head(s).t \notin {"answer", "pick"}
  PROVE  Tail(s) = <<>> /\ ~HasYes(s)
<1>1. PICK n \in Nat \ {0} : n = Len(s) /\ DOMAIN s = 1..n /\ Head(s) = s[1]
  BY TailIs
<1>2. n = 1
  BY <1>1 DEF Orderly
<1>3. Tail(s) \in Seq(S) /\ Len(Tail(s)) = 0
  BY <1>1, <1>2, TailIs
<1>4. Tail(s) = <<>>
  BY <1>3, EmptySeq
<1> QED BY <1>1, <1>2, <1>4 DEF HasYes

-----------------------------------------------------------------------------
(* The posts under way to a client, when one message more is sent to it. *)
LEMMA PostsAppend ==
  ASSUME NEW S, NEW s \in Seq(S), NEW m \in S
  PROVE  /\ Silent(s) /\ ~Posts(m) => Silent(Append(s, m))
         /\ \A old, new : OnePost(s, old, new) /\ ~Posts(m) => OnePost(Append(s, m), old, new)
         /\ \A old, new : Silent(s) /\ Posts(m) /\ new = StateAfter(m, old) =>
              OnePost(Append(s, m), old, new)
<1>1. PICK n \in Nat : n = Len(s)
  BY AppendIs
<1>2. PICK u \in Seq(S) : u = Append(s, m)
  BY AppendIs
<1>3. /\ DOMAIN s = 1..n /\ DOMAIN u = 1..(n + 1)
      /\ \A k \in 1..n : u[k] = s[k]
      /\ u[n + 1] = m
  BY <1>1, <1>2, AppendIs
<1>4. \A k \in 1..(n + 1) : k \in 1..n \/ k = n + 1
  OBVIOUS
<1>5. \A k \in 1..n : k \in 1..(n + 1) /\ k # n + 1
  OBVIOUS
<1>6. n + 1 \in 1..(n + 1)
  OBVIOUS
<1>7. ASSUME Silent(s), ~Posts(m) PROVE Silent(u)
  BY <1>3, <1>4, <1>7 DEF Silent
<1>8. ASSUME NEW old, NEW new, OnePost(s, old, new), ~Posts(m) PROVE OnePost(u, old, new)
  <2>1. PICK k \in 1..n : /\ Posts(s[k]) /\ StateAfter(s[k], old) = new
                          /\ \A j \in 1..n : j # k => ~Posts(s[j])
    BY <1>3, <1>8 DEF OnePost
  <2>2. k \in DOMAIN u /\ Posts(u[k]) /\ StateAfter(u[k], old) = new
    BY <1>3, <1>5, <2>1
  <2>3. ASSUME NEW j \in DOMAIN u, j # k PROVE ~Posts(u[j])
    BY <1>3, <1>4, <1>8, <2>1, <2>3
  <2> QED BY <2>2, <2>3 DEF OnePost
<1>9. ASSUME NEW old, NEW new, Silent(s), Posts(m), new = StateAfter(m, old)
      PROVE  OnePost(u, old, new)
  <2>1. n + 1 \in DOMAIN u /\ Posts(u[n + 1]) /\ StateAfter(u[n + 1], old) = new
    BY <1>3, <1>6, <1>9
  <2>2. ASSUME NEW j \in DOMAIN u, j # n + 1 PROVE ~Posts(u[j])
    BY <1>3, <1>4, <1>9, <2>2 DEF Silent
  <2> QED BY <2>1, <2>2 DEF OnePost
<1> QED BY <1>2, <1>7, <1>8, <1>9

(* And when it hears the first one. *)
LEMMA PostsTail ==
  ASSUME NEW S, NEW s \in Seq(S), s # <<>>
  PROVE  /\ Silent(s) => Silent(Tail(s)) /\ ~Posts(Head(s))
         /\ \A old, new : OnePost(s, old, new) /\ ~Posts(Head(s)) => OnePost(Tail(s), old, new)
         /\ \A old, new : OnePost(s, old, new) /\ Posts(Head(s)) =>
              Silent(Tail(s)) /\ new = StateAfter(Head(s), old)
<1>1. PICK n \in Nat \ {0} : n = Len(s)
  BY TailIs
<1>2. PICK u \in Seq(S) : u = Tail(s)
  BY TailIs
<1>3. /\ DOMAIN s = 1..n /\ DOMAIN u = 1..(n - 1) /\ Head(s) = s[1]
      /\ \A k \in 1..(n - 1) : u[k] = s[k + 1]
  BY <1>1, <1>2, TailIs
<1>4. \A k \in 1..(n - 1) : k + 1 \in 1..n /\ k + 1 # 1
  OBVIOUS
<1>5. 1 \in 1..n
  OBVIOUS
<1>6. ASSUME Silent(s) PROVE Silent(u) /\ ~Posts(s[1])
  BY <1>3, <1>4, <1>5, <1>6 DEF Silent
<1>7. ASSUME NEW old, NEW new, OnePost(s, old, new)
      PROVE  /\ ~Posts(s[1]) => OnePost(u, old, new)
             /\ Posts(s[1]) => Silent(u) /\ new = StateAfter(s[1], old)
  <2>1. PICK k \in 1..n : /\ Posts(s[k]) /\ StateAfter(s[k], old) = new
                          /\ \A j \in 1..n : j # k => ~Posts(s[j])
    BY <1>3, <1>7 DEF OnePost
  <2>2. CASE k = 1
    <3>1. \A j \in 1..(n - 1) : ~Posts(u[j])
      BY <1>3, <1>4, <2>1, <2>2
    <3> QED BY <1>3, <2>1, <2>2, <3>1 DEF Silent
  <2>3. CASE k # 1
    <3>1. ~Posts(s[1])
      BY <1>5, <2>1, <2>3
    <3>2. PICK l \in 1..(n - 1) : k = l + 1
      <4>1. k - 1 \in 1..(n - 1) /\ k = (k - 1) + 1
        BY <2>3
      <4> QED BY <4>1
    <3>3. l \in DOMAIN u /\ Posts(u[l]) /\ StateAfter(u[l], old) = new
      BY <1>3, <2>1, <3>2
    <3>4. ASSUME NEW j \in DOMAIN u, j # l PROVE ~Posts(u[j])
      <4>1. j + 1 \in 1..n /\ j + 1 # k /\ u[j] = s[j + 1]
        BY <1>3, <3>2, <3>4
      <4> QED BY <2>1, <4>1
    <3> QED BY <3>1, <3>3, <3>4 DEF OnePost
  <2> QED BY <2>2, <2>3
<1> QED BY <1>2, <1>3, <1>6, <1>7

LEMMA OnlyPostsTell ==
  ASSUME NEW m \in DownMsg, ~Posts(m), NEW s
  PROVE  StateAfter(m, s) = s
<1>1. m.t \notin {"reply", "in", "answered", "out"} /\ ~Ends(m)
  BY DEF Posts
<1> QED BY <1>1 DEF StateAfter

LEMMA OneOrNone ==
  ASSUME NEW p, NEW g
  PROVE  /\ ~(NoPost(p) /\ Will(p, g))
         /\ \A h : Will(p, g) /\ Will(p, h) => g = h
BY DEF NoPost, Will, Silent, OnePost

-----------------------------------------------------------------------------
(* What a step leaves alone of a player: his client and its connection, and *)
(* what the server knows of him.                                            *)
SamePlayer(q) ==
  /\ up'[q] = up[q] /\ down'[q] = down[q]
  /\ loop'[q] = loop[q] /\ wait'[q] = wait[q] /\ gstate'[q] = gstate[q] /\ gsem'[q] = gsem[q]
SameFlags(q) ==
  /\ (q \in Online)' <=> q \in Online
  /\ SignedIn(q)' <=> SignedIn(q)
  /\ Calling(q)' <=> Calling(q)
  /\ \A pcs \in SUBSET {"turn", "results", "restore"} : In(q, pcs)' <=> In(q, pcs)
  /\ Hosting(q)' <=> Hosting(q)
  /\ Played(q)' <=> Played(q)
  /\ Noted(q)' <=> Noted(q)
  /\ Agreed(q)' <=> Agreed(q)
  /\ Direct(q) => Direct(q)'
  /\ Deaf(q) => Deaf(q)'
  /\ misled[q] => misled'[q]

(* What he hears posts nothing. *)
Quiet(q) ==
  /\ up'[q] = up[q] /\ loop'[q] = loop[q] /\ wait'[q] = wait[q] /\ gstate'[q] = gstate[q]
  /\ NoPost(q)' <=> NoPost(q)
  /\ \A g : Will(q, g)' <=> Will(q, g)
  /\ Has(down'[q], {"in"}) <=> Has(down[q], {"in"})
  /\ Ended(q) => gsem'[q] = gsem[q] /\ down'[q] = down[q]

LEMMA QuietFrame ==
  ASSUME NEW q, Quiet(q), SameFlags(q), UpOK(q), Client(q)
  PROVE  UpOK(q)' /\ Client(q)'
<1>1. /\ up'[q] = up[q] /\ loop'[q] = loop[q] /\ wait'[q] = wait[q]
      /\ gstate'[q] = gstate[q]
      /\ Ended(q) => gsem'[q] = gsem[q] /\ down'[q] = down[q]
      /\ Has(down'[q], {"in"}) <=> Has(down[q], {"in"})
  BY DEF Quiet
<1>2. /\ (q \in Online)' <=> q \in Online
      /\ SignedIn(q)' <=> SignedIn(q)
      /\ Calling(q)' <=> Calling(q)
      /\ In(q, {"turn"})' <=> In(q, {"turn"})
      /\ In(q, {"results"})' <=> In(q, {"results"})
      /\ In(q, {"restore"})' <=> In(q, {"restore"})
      /\ In(q, {"turn", "results"})' <=> In(q, {"turn", "results"})
      /\ In(q, {"results", "restore"})' <=> In(q, {"results", "restore"})
      /\ Fighting(q)' <=> Fighting(q)
      /\ Hosting(q)' <=> Hosting(q)
      /\ Played(q)' <=> Played(q)
      /\ Noted(q)' <=> Noted(q)
      /\ Agreed(q)' <=> Agreed(q)
      /\ Direct(q) => Direct(q)'
      /\ Deaf(q) => Deaf(q)'
      /\ misled[q] => misled'[q]
  BY DEF SameFlags, Fighting
<1>3. NoPost(q)' <=> NoPost(q)
  BY DEF Quiet
<1>4. ASSUME NEW g PROVE Will(q, g)' <=> Will(q, g)
  BY DEF Quiet
<1>5. Bound(q)' <=> Bound(q)
  BY <1>1, <1>2 DEF Bound
<1>6. UpOK(q)'
  BY <1>1, <1>2 DEF UpOK
<1>7. Welcome(q)' <=> Welcome(q)
  BY <1>1, <1>2, <1>3, <1>4, <1>5 DEF Welcome
<1>12. Stuck(q) => Stuck(q)'
  BY <1>1, <1>2, <1>3 DEF Stuck
<1>8. OnLine(q) => OnLine(q)'
  BY <1>1, <1>2, <1>3, <1>4, <1>5, <1>12 DEF OnLine
<1>9. AtWar(q)' <=> AtWar(q)
  BY <1>1, <1>2, <1>3, <1>4 DEF AtWar
<1>10. Turns(q) => Turns(q)'
  BY <1>1, <1>2, <1>3, <1>4, <1>12 DEF Turns
<1>11. Ended(q)' <=> Ended(q)
  BY <1>1 DEF Ended
<1> QED BY <1>1, <1>2, <1>6, <1>7, <1>8, <1>9, <1>10, <1>11 DEF Client

LEMMA Frame ==
  ASSUME NEW q, SamePlayer(q), SameFlags(q), UpOK(q), Client(q)
  PROVE  UpOK(q)' /\ Client(q)'
<1>1. Quiet(q)
  BY DEF SamePlayer, Quiet, NoPost, Will
<1> QED BY <1>1, QuietFrame

(* His connection is the same, and its end as unknown as before. *)
SameConn(q) ==
  /\ conn'[q] = conn[q] /\ (misled[q] => misled'[q])
  /\ loop'[q] = "closed" <=> loop[q] = "closed"

LEMMA SameTables ==
  ASSUME UNCHANGED <<user_table, rooms, inserting, wars>>, NEW q, SameConn(q)
  PROVE  SameFlags(q)
<1>1. /\ (q \in Online)' <=> q \in Online
      /\ SignedIn(q)' <=> SignedIn(q)
  BY DEF SameConn, Online, SignedIn
<1>2. /\ Calling(q)' <=> Calling(q)
      /\ \A pcs \in SUBSET {"turn", "results", "restore"} : In(q, pcs)' <=> In(q, pcs)
      /\ Hosting(q)' <=> Hosting(q)
      /\ Played(q)' <=> Played(q)
      /\ Noted(q)' <=> Noted(q)
      /\ Agreed(q)' <=> Agreed(q)
  BY DEF Online, Calling, In, Hosting, Played, Noted, SkcOf, Agreed
<1>3. (Direct(q) => Direct(q)') /\ (Deaf(q) => Deaf(q)') /\ (misled[q] => misled'[q])
  BY DEF SameConn, Direct, Deaf
<1> QED BY <1>1, <1>2, <1>3 DEF SameFlags

LEMMA SameAll ==
  ASSUME UNCHANGED <<user_table, rooms, inserting, wars>>, UNCHANGED client
  PROVE  \A q : SameFlags(q)
<1>1. \A q : SameConn(q)
  BY DEF SameConn, client
<1> QED BY <1>1, SameTables

LEMMA SameThreads ==
  ASSUME UNCHANGED <<user_table, rooms, wars>>
  PROVE  Threads => Threads'
BY DEF Threads, Agreed, Online, Fighting, In

(* One player is looked at, the other sees nothing of the step. *)
LEMMA OneMoves ==
  ASSUME NEW p \in Players, WarInv,
         \A q \in Players \ {p} : SamePlayer(q) /\ SameFlags(q),
         UpOK(p)' /\ Client(p)'
  PROVE  Players2'
<1>1. ASSUME NEW q \in Players, q # p PROVE UpOK(q)' /\ Client(q)'
  BY <1>1, Frame DEF WarInv, Players2
<1> QED BY <1>1 DEF Players2

-----------------------------------------------------------------------------
LEMMA WarInit == Init => WarInv
<1> SUFFICES ASSUME Init PROVE WarInv
  OBVIOUS
<1>1. /\ DOMAIN rooms = {} /\ DOMAIN wars = {} /\ Online = {}
      /\ \A S : <<>> \in Seq(S)
  BY EmptyIs DEF Init, Online
<1>2. Others
  BY <1>1, GameOK DEF Init, Others
<1>3. Threads
  BY <1>1 DEF Threads
<1>4. ASSUME NEW p \in Players PROVE UpOK(p) /\ Client(p)
  <2>1. up[p] = <<>> /\ down[p] = <<>>
    BY DEF Init
  <2>2. ~SignedIn(p) /\ ~Calling(p) /\ ~Fighting(p) /\ ~Agreed(p)
    BY <1>1 DEF SignedIn, Calling, Fighting, In, Agreed
  <2>3. ~HasYes(up[p]) /\ Orderly(up[p]) /\ \A T : ~Has(up[p], T)
    BY <2>1, EmptyIs DEF HasYes, Orderly, Has
  <2>4. NoPost(p)
    BY <2>1, EmptyIs DEF Init, NoPost, Silent
  <2>5. loop[p] = "welcome" /\ Welcome(p) /\ ~Ended(p)
    BY <2>1, <2>2, <2>4 DEF Init, Welcome, Ended
  <2> QED BY <2>2, <2>3, <2>5 DEF UpOK, Client
<1> QED BY <1>2, <1>3, <1>4 DEF WarInv, Players2

(* A client sends m, waits as w says, and is in state g and loop l. *)
Sent(p, m, w, g, l) ==
  /\ up'[p] = Append(up[p], m) /\ wait'[p] = w /\ gstate'[p] = g /\ loop'[p] = l
  /\ down'[p] = down[p] /\ gsem'[p] = gsem[p]
  /\ \A T : Has(up'[p], T) <=> Has(up[p], T) \/ m.t \in T
  /\ HasYes(up'[p]) <=> HasYes(up[p]) \/ (m.t = "answer" /\ m.yes)
  /\ up'[p] # <<>> /\ LastIs(up'[p], m.t)
OthersSame(p) == \A q \in Players \ {p} : SamePlayer(q) /\ SameFlags(q)

LEMMA Sending ==
  ASSUME TypeOK, WarInv, NEW p \in Players, NEW m \in UpFrom(p), NEW w,
         Sends(p, m, w), NEW g, NEW l,
         gstate' = [gstate EXCEPT ![p] = g], loop' = [loop EXCEPT ![p] = l],
         loop[p] # "closed", l # "closed"
  PROVE  Others' /\ Threads' /\ OthersSame(p) /\ SameFlags(p) /\ Sent(p, m, w, g, l)
<1>1. /\ up' = [up EXCEPT ![p] = Append(@, m)] /\ wait' = [wait EXCEPT ![p] = w]
      /\ UNCHANGED <<user_table, rooms, inserting, wars, down, conn, gsem, gadversary, misled>>
  BY DEF Sends, server
<1>2. /\ DOMAIN up = Players /\ DOMAIN wait = Players /\ DOMAIN gstate = Players
      /\ DOMAIN loop = Players
  BY DEF TypeOK, TypeConn, TypeClient
<1>3. /\ up'[p] = Append(up[p], m) /\ wait'[p] = w /\ gstate'[p] = g /\ loop'[p] = l
      /\ down'[p] = down[p] /\ gsem'[p] = gsem[p]
  BY <1>1, <1>2
<1>4. \A q \in Players \ {p} : SamePlayer(q)
  BY <1>1, <1>2 DEF SamePlayer
<1>5. (\A q \in Players : SameFlags(q)) /\ Threads'
  <2>1. \A q \in Players : SameConn(q)
    BY <1>1, <1>2, <1>3 DEF SameConn
  <2> QED BY <1>1, <2>1, SameTables, SameThreads DEF WarInv
<1>6. up[p] \in Seq(UpFrom(p))
  BY DEF WarInv, Others
<1>7. Append(up[p], m) \in Seq(UpFrom(p))
  BY <1>6, AppendIs
<1>8. Others'
  BY <1>1, <1>2, <1>7 DEF WarInv, Others
<1>9. /\ \A T : Has(up'[p], T) <=> Has(up[p], T) \/ m.t \in T
      /\ HasYes(up'[p]) <=> HasYes(up[p]) \/ (m.t = "answer" /\ m.yes)
  BY <1>3, <1>6, HasAppend, HasYesAppend
<1>10. up'[p] # <<>> /\ LastIs(up'[p], m.t)
  <2>1. /\ Len(up[p]) \in Nat /\ Len(Append(up[p], m)) = Len(up[p]) + 1
        /\ Append(up[p], m)[Len(up[p]) + 1] = m
    BY <1>6, AppendIs
  <2>2. Append(up[p], m) # <<>>
    BY <1>6, AppendProperties
  <2> QED BY <1>3, <2>1, <2>2 DEF LastIs
<1> QED BY <1>3, <1>4, <1>5, <1>8, <1>9, <1>10 DEF Sent, OthersSame

(* What he may send, as long as he is bound to a war and otherwise. *)
LEMMA UpSent ==
  ASSUME WarInv, NEW p \in Players, NEW m \in UpFrom(p), SameFlags(p),
         up'[p] = Append(up[p], m), ~Has(up[p], Commands),
         m.t \in {"signup", "signin"} => up[p] = <<>>,
         m.t \in {"list", "signout", "request", "answer"} => ~Bound(p),
         m.t \in {"signout", "request", "answer"} => SignedIn(p),
         m.t = "pick" => /\ ~Calling(p) /\ (Fighting(p) \/ Agreed(p) => up[p] = <<>>)
                         /\ HasYes(up[p]) => ~LastIs(up[p], "pick")
  PROVE  UpOK(p)'
<1>1. UpOK(p) /\ up[p] \in Seq(UpFrom(p))
  BY DEF WarInv, Players2, Others
<1>2. /\ \A T : Has(up'[p], T) <=> Has(up[p], T) \/ m.t \in T
      /\ HasYes(up'[p]) <=> HasYes(up[p]) \/ (m.t = "answer" /\ m.yes)
  BY <1>1, HasAppend, HasYesAppend
<1>3. m.t \in {"signup", "signin", "list", "signout", "request", "answer", "pick"}
  BY DEF UpFrom, UpMsg
<1>4. \A k \in DOMAIN up[p] : up[p][k].t \in {"answer", "pick"}
  <2> SUFFICES ASSUME NEW k \in DOMAIN up[p] PROVE up[p][k].t \in {"answer", "pick"}
    OBVIOUS
  <2>1. up[p][k] \in UpFrom(p)
    BY <1>1, ElementOfSeq, LenProperties
  <2>2. up[p][k].t \notin Commands
    BY DEF Has
  <2> QED BY <2>1, <2>2 DEF UpFrom, UpMsg, Commands
<1>5. up[p] = <<>> => ~HasYes(up[p]) /\ Len(up[p]) = 0
  BY EmptyIs DEF HasYes
<1>6. HasYes(up[p]) => m.t = "pick" /\ ~LastIs(up[p], "pick")
  BY <1>3, <1>5 DEF Bound
<1>7. Orderly(up'[p])
  BY <1>1, <1>4, <1>6, OrderlyAppend DEF UpOK
<1>8. /\ (p \in Online)' <=> p \in Online
      /\ SignedIn(p)' <=> SignedIn(p)
      /\ Calling(p)' <=> Calling(p)
      /\ Fighting(p)' <=> Fighting(p)
      /\ Agreed(p)' <=> Agreed(p)
  BY DEF SameFlags, Fighting
<1>9. Has(up'[p], {"request", "signout"}) => SignedIn(p)'
  BY <1>1, <1>2, <1>8 DEF UpOK
<1>10. Calling(p)' =>
         /\ (p \in Online)' /\ ~Agreed(p)'
         /\ ~Has(up'[p], {"answer", "pick", "list", "request", "signout"})
  BY <1>1, <1>2, <1>3, <1>8 DEF UpOK, Bound
<1>11. ASSUME Fighting(p)' \/ Agreed(p)'
       PROVE  /\ (p \in Online)' /\ Len(up'[p]) <= 1
              /\ ~Has(up'[p], {"answer", "list", "request", "signout"})
  <2>1. m.t \in {"signup", "signin", "pick"} /\ up[p] = <<>>
    BY <1>3, <1>8, <1>11 DEF Bound
  <2>2. Len(up'[p]) = Len(up[p]) + 1
    BY <1>1, AppendIs
  <2> QED BY <1>1, <1>2, <1>5, <1>8, <1>11, <2>1, <2>2 DEF UpOK
<1>12. HasYes(up'[p]) => (p \in Online)' /\ ~Calling(p)' /\ ~Fighting(p)' /\ ~Agreed(p)'
  BY <1>1, <1>2, <1>8 DEF UpOK, Bound, SignedIn
<1> QED BY <1>7, <1>9, <1>10, <1>11, <1>12 DEF UpOK

(* The state and the semaphore of a client that does not listen. *)
SameMind(p) == gstate'[p] = gstate[p] /\ gsem'[p] = gsem[p] /\ down'[p] = down[p]

LEMMA SamePosts ==
  ASSUME NEW p, SameMind(p)
  PROVE  /\ NoPost(p)' <=> NoPost(p)
         /\ \A g : Will(p, g)' <=> Will(p, g)
BY DEF SameMind, NoPost, Will

LEMMA SameBound ==
  ASSUME NEW p, SameFlags(p)
  PROVE  /\ SignedIn(p)' <=> SignedIn(p)
         /\ Calling(p)' <=> Calling(p)
         /\ Fighting(p)' <=> Fighting(p)
         /\ Hosting(p)' <=> Hosting(p)
         /\ Agreed(p)' <=> Agreed(p)
         /\ (HasYes(up[p])' <=> HasYes(up[p])) => (Bound(p)' <=> Bound(p))
BY DEF SameFlags, Fighting, Bound

LEMMA EmptyHas ==
  ASSUME NEW s, s = <<>>
  PROVE  ~HasYes(s) /\ Orderly(s) /\ \A T : ~Has(s, T)
BY EmptyIs DEF HasYes, Orderly, Has

LEMMA TypeWelcomeWar ==
  ASSUME TypeOK, WarInv, NEW p \in Players, NEW m \in UpFrom(p),
         m.t \in {"signup", "signin"}, Typing(p, "welcome"), Sends(p, m, "call"),
         UNCHANGED <<gstate, loop>>
  PROVE  WarInv'
<1>1. /\ loop[p] = "welcome" /\ NoPost(p) /\ gstate[p] = "WELCOM"
      /\ up[p] = <<>> /\ ~SignedIn(p)
  BY DEF WarInv, Players2, Client, Welcome, Typing, At
<1>2. /\ gstate' = [gstate EXCEPT ![p] = "WELCOM"]
      /\ loop' = [loop EXCEPT ![p] = "welcome"]
  BY <1>1 DEF TypeOK, TypeClient
<1>3. Others' /\ Threads' /\ OthersSame(p) /\ SameFlags(p)
      /\ Sent(p, m, "call", "WELCOM", "welcome")
  BY <1>1, <1>2, Sending
<1>4. ~Has(up[p], Commands)
  BY <1>1, EmptyHas
<1>5. UpOK(p)'
  BY <1>1, <1>3, <1>4, UpSent DEF Sent
<1>6. Len(up'[p]) = 1
  BY <1>1, <1>3, AppendIs, EmptyIs DEF WarInv, Others, Sent
<1>7. Has(up'[p], {"signup", "signin"})
  BY <1>3 DEF Sent
<1>8. NoPost(p)' /\ ~SignedIn(p)'
  BY <1>1, <1>3, SamePosts, SameBound DEF SameMind, Sent
<1>9. Welcome(p)'
  BY <1>3, <1>6, <1>7, <1>8 DEF Welcome, Sent
<1>10. Client(p)'
  BY <1>3, <1>8, <1>9 DEF Client, Ended, Sent
<1> QED BY <1>3, <1>5, <1>10, OneMoves DEF WarInv, OthersSame

(* At the prompt of online(). *)
LEMMA OnLinePrompt ==
  ASSUME WarInv, NEW p \in Players, Typing(p, "online")
  PROVE  /\ loop[p] = "online" /\ wait[p] = "no" /\ NoPost(p) /\ gstate[p] = "CLIENT_ONLINE"
         /\ ~Has(up[p], Commands) /\ SignedIn(p) /\ ~Bound(p) /\ Turns(p)
BY DEF WarInv, Players2, Client, OnLine, Stuck, Typing, At, Ended

LEMMA BoundTurns ==
  ASSUME NEW p, ~Fighting(p)
  PROVE  Turns(p)
BY DEF Turns, Fighting, In

LEMMA TypeOnlineWar ==
  ASSUME TypeOK, WarInv, NEW p \in Players, NEW m \in UpFrom(p), NEW w,
         \/ m.t \in {"list", "signout"} /\ w = "call"
         \/ m.t = "request" /\ w = "request",
         Typing(p, "online"), Sends(p, m, w), UNCHANGED <<gstate, loop>>
  PROVE  WarInv'
<1>1. /\ loop[p] = "online" /\ NoPost(p) /\ gstate[p] = "CLIENT_ONLINE"
      /\ ~Has(up[p], Commands) /\ SignedIn(p) /\ ~Bound(p)
  BY OnLinePrompt
<1>2. /\ gstate' = [gstate EXCEPT ![p] = "CLIENT_ONLINE"]
      /\ loop' = [loop EXCEPT ![p] = "online"]
  BY <1>1 DEF TypeOK, TypeClient
<1>3. Others' /\ Threads' /\ OthersSame(p) /\ SameFlags(p)
      /\ Sent(p, m, w, "CLIENT_ONLINE", "online")
  BY <1>1, <1>2, Sending
<1>5. UpOK(p)'
  BY <1>1, <1>3, UpSent DEF Sent
<1>7. Has(up'[p], IF w = "call" THEN {"list", "signout"} ELSE {"request"})
  BY <1>3 DEF Sent
<1>8. NoPost(p)' /\ SignedIn(p)' /\ ~Bound(p)' /\ ~Fighting(p)'
  <2>1. HasYes(up'[p]) <=> HasYes(up[p])
    BY <1>3 DEF Sent
  <2> QED BY <1>1, <1>3, <2>1, SamePosts, SameBound DEF SameMind, Sent, Bound
<1>9. OnLine(p)'
  BY <1>3, <1>7, <1>8 DEF OnLine, Sent
<1>10. Turns(p)'
  BY <1>8, BoundTurns, PTL
<1>11. Client(p)'
  BY <1>3, <1>8, <1>9, <1>10 DEF Client, Ended, Sent
<1> QED BY <1>3, <1>5, <1>11, OneMoves DEF WarInv, OthersSame

LEMMA TypeAnswerWar ==
  ASSUME TypeOK, WarInv, NEW p \in Players, NEW yes \in BOOLEAN, TypeAnswer(p, yes)
  PROVE  WarInv'
<1> DEFINE m == [t |-> "answer", room |-> gadversary[p], yes |-> yes]
           g == IF yes THEN "CLIENT_WAR" ELSE "CLIENT_ONLINE"
           l == IF yes THEN "war" ELSE "online"
<1>1. /\ loop[p] = "online" /\ wait[p] = "no" /\ NoPost(p) /\ gstate[p] = "CLIENT_ONLINE"
      /\ ~Has(up[p], Commands) /\ SignedIn(p) /\ ~Bound(p) /\ Turns(p)
  BY OnLinePrompt DEF TypeAnswer
<1>2. /\ gstate' = [gstate EXCEPT ![p] = g] /\ loop' = [loop EXCEPT ![p] = l]
      /\ Sends(p, m, "no")
  BY <1>1 DEF TypeAnswer, TypeOK, TypeClient
<1>3. m \in UpFrom(p) /\ m.t = "answer" /\ m.yes = yes
  <2>1. gadversary[p] \in Players \cup {Nobody} /\ gadversary[p] # p
    BY DEF TypeOK, TypeClient, WarInv, Others
  <2> QED BY <2>1 DEF UpFrom, UpMsg
<1>a. loop[p] # "closed" /\ l # "closed"
  BY <1>1
<1> HIDE DEF m, g, l
<1>4. Others' /\ Threads' /\ OthersSame(p) /\ SameFlags(p) /\ Sent(p, m, "no", g, l)
  BY <1>2, <1>3, <1>a, Sending
<1>5. UpOK(p)'
  BY <1>1, <1>3, <1>4, UpSent DEF Sent
<1>6. HasYes(up'[p]) <=> yes
  BY <1>1, <1>3, <1>4 DEF Sent, Bound
<1>7. ~Has(up'[p], Commands)
  BY <1>1, <1>3, <1>4 DEF Sent, Commands
<1>8. /\ SignedIn(p)' /\ ~Calling(p)' /\ ~Fighting(p)' /\ ~Agreed(p)'
  BY <1>1, <1>4, SameBound DEF Bound
<1>9. NoPost(p)'
  BY <1>1, <1>4 DEF NoPost, Sent
<1>10. Turns(p)'
  BY <1>8, BoundTurns, PTL
<1>11. CASE yes
  <2>1. g = "CLIENT_WAR" /\ l = "war"
    BY <1>11 DEF g, l
  <2>2. ~LastIs(up'[p], "pick")
    BY <1>3, <1>4 DEF Sent, LastIs
  <2>3. AtWar(p)'
    BY <1>4, <1>7, <1>8, <1>9, <2>1, <2>2 DEF AtWar, Sent
  <2>4. Client(p)'
    BY <1>4, <1>10, <2>1, <2>3 DEF Client, Ended, Sent
  <2> QED BY <1>4, <1>5, <2>4, OneMoves DEF WarInv, OthersSame
<1>12. CASE ~yes
  <2>1. g = "CLIENT_ONLINE" /\ l = "online"
    BY <1>12 DEF g, l
  <2>2. OnLine(p)'
    BY <1>4, <1>6, <1>7, <1>8, <1>9, <1>12, <2>1 DEF OnLine, Sent, Bound
  <2>3. Client(p)'
    BY <1>4, <1>10, <2>1, <2>2 DEF Client, Ended, Sent
  <2> QED BY <1>4, <1>5, <2>3, OneMoves DEF WarInv, OthersSame
<1> QED BY <1>11, <1>12

LEMMA TypePickWar ==
  ASSUME TypeOK, WarInv, NEW p \in Players, NEW skc \in Picks, TypePick(p, skc)
  PROVE  WarInv'
<1> DEFINE m == [t |-> "pick", skc |-> skc]
<1>1. /\ loop[p] = "war" /\ wait[p] = "no" /\ AtWar(p) /\ UpOK(p)
      /\ SignedIn(p) /\ Turns(p) /\ ~Calling(p) /\ ~Has(up[p], Commands)
  BY DEF WarInv, Players2, Client, AtWar, TypePick, Typing, At, Ended
<1>2. /\ gstate' = [gstate EXCEPT ![p] = gstate[p]] /\ loop' = [loop EXCEPT ![p] = "war"]
      /\ Sends(p, m, "pick")
  BY <1>1 DEF TypePick, TypeOK, TypeClient
<1>3. m \in UpFrom(p) /\ m.t = "pick"
  BY DEF UpFrom, UpMsg
<1> HIDE DEF m
<1>4. Others' /\ Threads' /\ OthersSame(p) /\ SameFlags(p) /\ Sent(p, m, "pick", gstate[p], "war")
  BY <1>1, <1>2, <1>3, Sending
<1>5. /\ In(p, {"turn"}) => up[p] = <<>> /\ ~Noted(p)
      /\ In(p, {"results"}) => up[p] = <<>> /\ ~Noted(p) /\ ~Played(p) /\ NoPost(p)
      /\ In(p, {"restore"}) => up[p] = <<>>
  BY <1>1 DEF Turns
<1>6. Fighting(p) => In(p, {"turn"}) \/ In(p, {"results"}) \/ In(p, {"restore"})
  BY DEF Fighting, In
<1>7. ASSUME Agreed(p), ~Fighting(p), up[p] # <<>> PROVE FALSE
  <2>1. up[p] \in Seq(UpMsg) /\ Len(up[p]) \in Nat /\ DOMAIN up[p] = 1..Len(up[p])
        /\ Len(up[p]) # 0
    BY <1>7, LenProperties, EmptySeq DEF TypeOK, TypeConn
  <2>2. Len(up[p]) \in DOMAIN up[p] /\ up[p][Len(up[p])] \in UpMsg
    BY <2>1, ElementOfSeq
  <2>3. up[p][Len(up[p])].t \notin Commands \cup {"answer"}
    BY <1>1, <1>7, <2>2 DEF UpOK, Has
  <2>4. up[p][Len(up[p])].t = "pick"
    BY <2>2, <2>3 DEF UpMsg, Commands
  <2> QED BY <1>1, <1>7, <2>4 DEF AtWar, LastIs
<1>8. HasYes(up[p]) => ~LastIs(up[p], "pick")
  BY <1>1 DEF AtWar
<1>9. UpOK(p)'
  <2>1. Fighting(p) \/ Agreed(p) => up[p] = <<>>
    BY <1>5, <1>6, <1>7
  <2> QED BY <1>1, <1>3, <1>4, <1>8, <2>1, UpSent DEF Sent
<1>10. /\ NoPost(p)' <=> NoPost(p)
       /\ \A g : Will(p, g)' <=> Will(p, g)
  BY <1>4, SamePosts DEF SameMind, Sent
<1>11. /\ HasYes(up'[p]) <=> HasYes(up[p])
       /\ ~Has(up'[p], Commands)
  BY <1>1, <1>3, <1>4 DEF Sent, Commands
<1>12. /\ SignedIn(p)' <=> SignedIn(p)
       /\ Calling(p)' <=> Calling(p)
       /\ Fighting(p)' <=> Fighting(p)
       /\ Agreed(p)' <=> Agreed(p)
  BY <1>4, SameBound
<1>13. /\ In(p, {"turn"})' <=> In(p, {"turn"})
       /\ In(p, {"results"})' <=> In(p, {"results"})
       /\ In(p, {"restore"})' <=> In(p, {"restore"})
       /\ In(p, {"turn", "results"})' <=> In(p, {"turn", "results"})
       /\ In(p, {"results", "restore"})' <=> In(p, {"results", "restore"})
       /\ Noted(p)' <=> Noted(p)
       /\ Played(p)' <=> Played(p)
  BY <1>4 DEF SameFlags
<1>14. wait'[p] = "pick" /\ loop'[p] = "war" /\ gstate'[p] = gstate[p] /\ down'[p] = down[p]
  BY <1>4 DEF Sent
<1>15. \/ NoPost(p) /\ gstate[p] = "CLIENT_WAR"
       \/ /\ Will(p, "CLIENT_ONLINE") /\ ~Has(down[p], {"in"})
          /\ ~HasYes(up[p]) /\ ~Agreed(p) /\ ~In(p, {"turn", "results"})
          /\ gstate[p] = "CLIENT_ONLINE" => ~Fighting(p)
  BY <1>1 DEF AtWar
<1>16. AtWar(p)'
  <2>1. HasYes(up[p]) \/ (Agreed(p) /\ ~Fighting(p)) => NoPost(p)
    BY <1>1 DEF AtWar
  <2> QED BY <1>1, <1>10, <1>11, <1>12, <1>13, <1>14, <1>15, <2>1 DEF AtWar
<1>17. Turns(p)'
  <2>1. In(p, {"turn"}) => NoPost(p)
    BY <1>15 DEF In
  <2>2. ~Will(p, "CLIENT_WAR")
    BY <1>15, OneOrNone
  <2> QED BY <1>5, <1>10, <1>13, <1>14, <2>1, <2>2 DEF Turns
<1>18. Client(p)'
  BY <1>14, <1>16, <1>17 DEF Client, Ended
<1> QED BY <1>4, <1>9, <1>18, OneMoves DEF WarInv, OthersSame

-----------------------------------------------------------------------------
(* The other steps of a client. *)
LEMMA ClientStep ==
  ASSUME WarInv, NEW p \in Players, UNCHANGED <<server, up>>,
         \A q \in Players \ {p} :
           /\ down'[q] = down[q] /\ loop'[q] = loop[q] /\ wait'[q] = wait[q]
           /\ gstate'[q] = gstate[q] /\ gsem'[q] = gsem[q] /\ gadversary'[q] = gadversary[q]
           /\ SameConn(q),
         SignedIn(p)' <=> SignedIn(p),
         down'[p] \in Seq(DownTo(p)), gadversary'[p] # p, Client(p)'
  PROVE  WarInv'
<1>1. UNCHANGED <<file, user_table, rooms, inserting, wars, up>>
  BY DEF server
<1>2. (\A q \in Players \ {p} : SameFlags(q)) /\ Threads'
  BY <1>1, SameTables, SameThreads DEF WarInv
<1>3. \A q \in Players \ {p} : SamePlayer(q)
  BY <1>1 DEF SamePlayer
<1>4. Others'
  <2>1. ASSUME NEW q \in Players PROVE gadversary'[q] # q /\ down'[q] \in Seq(DownTo(q))
    <3>1. gadversary[q] # q /\ down[q] \in Seq(DownTo(q))
      BY DEF WarInv, Others
    <3> QED BY <3>1
  <2> QED BY <1>1, <2>1 DEF WarInv, Others
<1>5. UpOK(p)'
  <2>1. /\ (p \in Online)' <=> p \in Online
        /\ SignedIn(p)' <=> SignedIn(p)
        /\ Calling(p)' <=> Calling(p)
        /\ Fighting(p)' <=> Fighting(p)
        /\ Agreed(p)' <=> Agreed(p)
    BY <1>1 DEF Online, Calling, Fighting, In, Agreed
  <2>2. up'[p] = up[p] /\ UpOK(p)
    BY <1>1 DEF WarInv, Players2
  <2> QED BY <2>1, <2>2 DEF UpOK
<1> QED BY <1>2, <1>3, <1>4, <1>5, OneMoves DEF WarInv

LEMMA LeaveWar ==
  ASSUME TypeOK, WarInv, NEW p \in Players, Leave(p)
  PROVE  WarInv'
<1>1. /\ loop'[p] = "left" /\ wait'[p] = "no" /\ gstate'[p] = "WELCOM" /\ gsem'[p] = 0
      /\ gadversary'[p] = Nobody /\ down'[p] = <<>>
  BY DEF Leave, TypeOK, TypeClient, TypeConn
<1>2. \A q \in Players \ {p} :
        /\ down'[q] = down[q] /\ loop'[q] = loop[q] /\ wait'[q] = wait[q]
        /\ gstate'[q] = gstate[q] /\ gsem'[q] = gsem[q] /\ gadversary'[q] = gadversary[q]
        /\ SameConn(q)
  BY DEF Leave, TypeOK, TypeClient, TypeConn, SameConn
<1>3. Client(p)'
  BY <1>1 DEF Client, Ended
<1>4. down'[p] \in Seq(DownTo(p)) /\ gadversary'[p] # p
  BY <1>1, GameOK
<1>5. UNCHANGED <<server, up, conn>> /\ ~Ended(p)
  BY DEF Leave
<1>6. SignedIn(p)' <=> SignedIn(p)
  BY <1>1, <1>5 DEF SignedIn, Online, Ended, server
<1>7. UNCHANGED <<server, up>>
  BY <1>5
<1> QED BY <1>2, <1>3, <1>4, <1>6, <1>7, ClientStep

LEMMA ReturnWar ==
  ASSUME TypeOK, WarInv, Sockets, NEW p \in Players, Return(p)
  PROVE  WarInv'
<1>1. /\ gsem[p] = 0 /\ down[p] = <<>> /\ gstate[p] = "WELCOM" /\ wait[p] = "no"
      /\ up[p] = <<>> /\ ~SignedIn(p)
  BY DEF Return, WarInv, Players2, Client, Ended
<1>2. UNCHANGED <<server, up, down, gstate, wait, gsem, gadversary, misled>>
  BY DEF Return
<1>3. /\ loop'[p] = "welcome" /\ conn'[p] = conn[p] + 1 /\ conn[p] \in Nat
      /\ \A q \in Players \ {p} : loop'[q] = loop[q] /\ conn'[q] = conn[q]
  BY DEF Return, TypeOK, TypeClient
<1>4. ~SignedIn(p)'
  <2>1. ASSUME p \in Online PROVE user_table[p].connfd \in Nat /\ user_table[p].connfd <= conn[p]
    BY <2>1, UserFacts DEF Sockets, Latest, User
  <2>2. UNCHANGED user_table
    BY <1>2 DEF server
  <2> QED BY <1>3, <2>1, <2>2 DEF SignedIn, Online
<1>5. NoPost(p)'
  BY <1>1, <1>2, EmptyIs DEF NoPost, Silent
<1>6. Client(p)'
  BY <1>1, <1>2, <1>3, <1>4, <1>5 DEF Client, Ended, Welcome
<1>7. down'[p] \in Seq(DownTo(p)) /\ gadversary'[p] # p
  BY <1>2 DEF WarInv, Others
<1>8. \A q \in Players \ {p} : SameConn(q)
  BY <1>2, <1>3 DEF SameConn
<1>9. UNCHANGED <<server, up>>
  BY <1>2
<1> QED BY <1>1, <1>2, <1>3, <1>4, <1>6, <1>7, <1>8, <1>9, ClientStep

(* Who has asked for the war that goes on has no request that waits. *)
LEMMA HostIsNotCalling ==
  ASSUME WarInv, NEW p, Hosting(p)
  PROVE  ~Calling(p) /\ Fighting(p)
<1>1. PICK i \in DOMAIN wars : wars[i].pc = "turn" /\ wars[i].room = p
  BY DEF Hosting
<1>2. ASSUME NEW j \in DOMAIN wars, wars[j].pc \in {"ask", "wait"}, wars[j].room = p
      PROVE  FALSE
  BY <1>1, <1>2 DEF WarInv, Threads
<1> QED BY <1>1, <1>2 DEF Calling, Fighting, In

LEMMA WakeWar ==
  ASSUME TypeOK, WarInv, NEW p \in Players, Wake(p)
  PROVE  WarInv'
<1>1. /\ gsem[p] # 0 /\ wait[p] # "no" /\ gsem[p] \in Nat
      /\ UNCHANGED <<server, up, down, conn, gstate, gadversary, misled>>
  BY DEF Wake, TypeOK, TypeClient
<1>2. /\ gsem'[p] = gsem[p] - 1 /\ wait'[p] = "no" /\ loop'[p] = LoopOf[gstate[p]]
      /\ \A q \in Players \ {p} : gsem'[q] = gsem[q] /\ wait'[q] = wait[q] /\ loop'[q] = loop[q]
  BY DEF Wake, TypeOK, TypeClient
<1>3. ~NoPost(p) /\ \A g : Will(p, g) => gsem[p] = 1 /\ gstate[p] = g /\ NoPost(p)'
  BY <1>1, <1>2 DEF NoPost, Will
<1>a. loop[p] # "closed" /\ LoopOf[gstate[p]] # "closed"
  BY <1>1 DEF WarInv, Players2, Client, Ended, TypeOK, TypeClient, LoopOf
<1>4. /\ SameFlags(p)
      /\ HasYes(up[p])' <=> HasYes(up[p])
      /\ \A T : Has(up[p], T)' <=> Has(up[p], T)
  <2>1. SameConn(p)
    BY <1>1, <1>2, <1>a DEF SameConn
  <2>2. SameFlags(p)
    BY <1>1, <2>1, SameTables DEF server
  <2> QED BY <1>1, <2>2
<1>5. /\ SignedIn(p)' <=> SignedIn(p)
      /\ Calling(p)' <=> Calling(p)
      /\ Fighting(p)' <=> Fighting(p)
      /\ Agreed(p)' <=> Agreed(p)
      /\ Bound(p)' <=> Bound(p)
  BY <1>4, SameBound
<1>6. /\ In(p, {"turn"})' <=> In(p, {"turn"})
      /\ In(p, {"results"})' <=> In(p, {"results"})
      /\ In(p, {"restore"})' <=> In(p, {"restore"})
      /\ In(p, {"results", "restore"})' <=> In(p, {"results", "restore"})
      /\ Noted(p)' <=> Noted(p)
  BY <1>4 DEF SameFlags
<1>7. up'[p] = up[p] /\ gstate'[p] = gstate[p]
  BY <1>1
<1>8. Client(p) /\ ~Ended(p)
  BY <1>1 DEF WarInv, Players2, Client
<1>9. SignedIn(p) =>
        /\ ~In(p, {"results"})
        /\ In(p, {"turn"}) => up[p] = <<>> /\ ~Noted(p)
        /\ In(p, {"restore"}) => loop[p] = "war" \/ Stuck(p)
        /\ In(p, {"restore"}) /\ Will(p, "CLIENT_WAR") => up[p] = <<>>
  <2>1. In(p, {"restore"}) => In(p, {"results", "restore"})
    BY DEF In
  <2> QED BY <1>3, <1>8, <2>1 DEF Client, Turns
<1>10. ASSUME Will(p, "WELCOM"), up[p] = <<>>, ~SignedIn(p) PROVE Client(p)'
  <2>1. loop'[p] = "welcome" /\ NoPost(p)' /\ gstate[p] = "WELCOM"
    BY <1>2, <1>3, <1>10 DEF LoopOf
  <2> QED BY <1>2, <1>5, <1>7, <1>10, <2>1 DEF Client, Welcome, Ended
<1>11. ASSUME Will(p, "CLIENT_ONLINE"), ~Has(up[p], Commands), SignedIn(p), ~Bound(p)
       PROVE  Client(p)'
  <2>1. loop'[p] = "online" /\ NoPost(p)' /\ gstate[p] = "CLIENT_ONLINE"
    BY <1>2, <1>3, <1>11 DEF LoopOf
  <2>2. OnLine(p)'
    BY <1>2, <1>4, <1>5, <1>7, <1>11, <2>1 DEF OnLine
  <2>3. ~Fighting(p)'
    BY <1>5, <1>11 DEF Bound
  <2>4. Turns(p)'
    BY <2>3, BoundTurns, PTL
  <2> QED BY <2>1, <2>2, <2>4 DEF Client, Ended
<1>12. ASSUME Will(p, "CLIENT_WAR"), ~Has(up[p], Commands), SignedIn(p), ~Calling(p),
              ~HasYes(up[p]), ~(Agreed(p) /\ ~Fighting(p)), In(p, {"restore"}) => up[p] = <<>>
       PROVE  Client(p)'
  <2>1. loop'[p] = "war" /\ NoPost(p)' /\ gstate[p] = "CLIENT_WAR"
    BY <1>2, <1>3, <1>12 DEF LoopOf
  <2>2. AtWar(p)'
    BY <1>2, <1>4, <1>5, <1>7, <1>12, <2>1 DEF AtWar
  <2>3. Turns(p)'
    BY <1>6, <1>7, <1>9, <1>12, <2>1 DEF Turns, Stuck
  <2> QED BY <2>1, <2>2, <2>3 DEF Client, Ended
<1>13. ~Has(<<>>, Commands) /\ ~HasYes(<<>>)
  BY EmptyHas
<1>14. Client(p)'
  <2>1. CASE loop[p] = "welcome"
    <3>1. \/ Will(p, "WELCOM") /\ up[p] = <<>> /\ ~SignedIn(p)
          \/ Will(p, "CLIENT_ONLINE") /\ up[p] = <<>> /\ SignedIn(p) /\ ~Bound(p)
      BY <1>1, <1>3, <1>8, <2>1 DEF Client, Welcome
    <3> QED BY <1>10, <1>11, <1>13, <3>1
  <2>2. CASE loop[p] = "online"
    <3>1. \/ Will(p, "CLIENT_ONLINE") /\ ~Has(up[p], Commands) /\ SignedIn(p) /\ ~Bound(p)
          \/ Will(p, "WELCOM") /\ up[p] = <<>> /\ p \notin Online
          \/ Will(p, "CLIENT_WAR") /\ up[p] = <<>> /\ SignedIn(p) /\ Hosting(p)
      BY <1>1, <1>3, <1>8, <2>2 DEF Client, OnLine, Stuck
    <3> QED BY <1>10, <1>11, <1>12, <1>13, <3>1, HostIsNotCalling DEF SignedIn
  <2>3. CASE loop[p] = "war"
    <3>1. /\ SignedIn(p) /\ ~Calling(p) /\ ~Has(up[p], Commands)
          /\ \/ Will(p, "CLIENT_WAR")
             \/ /\ Will(p, "CLIENT_ONLINE") /\ ~HasYes(up[p]) /\ ~Agreed(p)
                /\ gstate[p] = "CLIENT_ONLINE" => ~Fighting(p)
          /\ ~HasYes(up[p]) /\ ~(Agreed(p) /\ ~Fighting(p))
      BY <1>1, <1>3, <1>8, <2>3 DEF Client, AtWar
    <3> QED BY <1>3, <1>9, <1>11, <1>12, <3>1 DEF Bound
  <2> QED BY <1>8, <2>1, <2>2, <2>3 DEF Ended, TypeOK, TypeClient
<1>15. down'[p] \in Seq(DownTo(p)) /\ gadversary'[p] # p
  BY <1>1 DEF WarInv, Others
<1>16. \A q \in Players \ {p} : SameConn(q)
  BY <1>1, <1>2 DEF SameConn
<1>17. UNCHANGED <<server, up>>
  BY <1>1
<1> QED BY <1>1, <1>2, <1>5, <1>14, <1>15, <1>16, <1>17, ClientStep

LEMMA HeadHas ==
  ASSUME NEW S, NEW s \in Seq(S), s # <<>>, NEW T, Head(s).t \in T
  PROVE  Has(s, T)
<1>1. 1 \in DOMAIN s /\ Head(s) = s[1]
  BY TailIs
<1> QED BY <1>1 DEF Has

LEMMA ListenWar ==
  ASSUME TypeOK, WarInv, NEW p \in Players, Listen(p)
  PROVE  WarInv'
<1> DEFINE m == Head(down[p])
           old == gstate[p]
           new == StateAfter(m, old)
<1>1. /\ UNCHANGED <<server, up, loop, wait, conn, misled>>
      /\ down[p] # <<>> /\ (Ends(m) => Slept(p))
  BY DEF Listen
<1>2. /\ gstate'[p] = new /\ down'[p] = Tail(down[p])
      /\ gsem'[p] = IF Posts(m) THEN gsem[p] + 1 ELSE gsem[p]
      /\ gadversary'[p] = AdversaryAfter(m, gadversary[p])
      /\ \A q \in Players \ {p} :
           /\ down'[q] = down[q] /\ loop'[q] = loop[q] /\ wait'[q] = wait[q]
           /\ gstate'[q] = gstate[q] /\ gsem'[q] = gsem[q] /\ gadversary'[q] = gadversary[q]
  BY DEF Listen, TypeOK, TypeClient, TypeConn
<1>3. /\ down[p] \in Seq(DownTo(p)) /\ gadversary[p] # p
      /\ m \in DownTo(p) /\ m \in DownMsg
  <2>1. down[p] \in Seq(DownTo(p)) /\ gadversary[p] # p
    BY DEF WarInv, Others
  <2>2. Head(down[p]) \in DownTo(p)
    BY <1>1, <2>1, HeadTailProperties
  <2> QED BY <2>1, <2>2 DEF DownTo
<1>4. down'[p] \in Seq(DownTo(p)) /\ gadversary'[p] # p
  BY <1>1, <1>2, <1>3, TailIs DEF AdversaryAfter, DownTo
<1>5. ~Posts(m) => new = old
  BY <1>3, OnlyPostsTell
<1>6. m.t \in {"in"} => Has(down[p], {"in"})
  BY <1>1, <1>3, HeadHas
<1>7. old # "CLIENT_ONLINE" /\ new = "CLIENT_ONLINE" => m.t \in {"in"} \/ Ends(m)
  BY DEF StateAfter
<1>8. /\ Silent(down[p]) => Silent(down'[p]) /\ ~Posts(m)
      /\ \A g : OnePost(down[p], old, g) /\ ~Posts(m) => OnePost(down'[p], old, g)
      /\ \A g : OnePost(down[p], old, g) /\ Posts(m) => Silent(down'[p]) /\ g = new
  BY <1>1, <1>2, <1>3, PostsTail
<1>9. Has(down'[p], {"in"}) => Has(down[p], {"in"})
  BY <1>1, <1>2, <1>3, TailKeeps
<1> HIDE DEF m, old, new
<1>10. NoPost(p) => NoPost(p)' /\ gstate'[p] = gstate[p]
  BY <1>2, <1>5, <1>8 DEF NoPost, old
<1>11. ASSUME NEW g, Will(p, g) PROVE Will(p, g)'
  <2>1. CASE gsem[p] = 1 /\ gstate[p] = g /\ Silent(down[p])
    BY <1>2, <1>5, <1>8, <2>1 DEF Will, old
  <2>2. CASE gsem[p] = 0 /\ OnePost(down[p], gstate[p], g)
    BY <1>2, <1>5, <1>8, <2>2 DEF Will, old
  <2> QED BY <1>11, <2>1, <2>2 DEF Will
<1>12. /\ SameFlags(p)
       /\ HasYes(up[p])' <=> HasYes(up[p])
       /\ \A T : Has(up[p], T)' <=> Has(up[p], T)
  <2>1. SameConn(p)
    BY <1>1 DEF SameConn
  <2>2. SameFlags(p)
    BY <1>1, <2>1, SameTables DEF server
  <2> QED BY <1>1, <2>2
<1>13. /\ SignedIn(p)' <=> SignedIn(p)
       /\ Calling(p)' <=> Calling(p)
       /\ Fighting(p)' <=> Fighting(p)
       /\ Hosting(p)' <=> Hosting(p)
       /\ Agreed(p)' <=> Agreed(p)
       /\ Bound(p)' <=> Bound(p)
  BY <1>12, SameBound
<1>14. /\ In(p, {"turn"})' <=> In(p, {"turn"})
       /\ In(p, {"results"})' <=> In(p, {"results"})
       /\ In(p, {"restore"})' <=> In(p, {"restore"})
       /\ In(p, {"turn", "results"})' <=> In(p, {"turn", "results"})
       /\ In(p, {"results", "restore"})' <=> In(p, {"results", "restore"})
       /\ (p \in Online)' <=> p \in Online
       /\ Noted(p)' <=> Noted(p)
       /\ Played(p)' <=> Played(p)
  BY <1>12 DEF SameFlags
<1>15. up'[p] = up[p] /\ wait'[p] = wait[p] /\ loop'[p] = loop[p]
  BY <1>1
<1>16. Client(p) /\ ~Ended(p)
  BY <1>1 DEF WarInv, Players2, Client
<1>23. /\ Direct(p) \/ misled[p] => Direct(p)' \/ misled'[p]
       /\ Stuck(p) => Stuck(p)'
  <2>1. /\ (Direct(p) => Direct(p)') /\ (misled[p] => misled'[p]) /\ (Deaf(p) => Deaf(p)')
    BY <1>12 DEF SameFlags
  <2> QED BY <1>10, <1>13, <1>15, <2>1 DEF Stuck
<1>17. loop[p] = "welcome" => Welcome(p)'
  BY <1>10, <1>11, <1>12, <1>13, <1>15, <1>16 DEF Client, Welcome
<1>18. loop[p] = "online" => OnLine(p)'
  <2>1. ASSUME OnLine(p) PROVE OnLine(p)'
    BY <1>10, <1>11, <1>12, <1>13, <1>14, <1>15, <1>23, <2>1 DEF OnLine
  <2> QED BY <1>16, <2>1 DEF Client
<1>19. loop[p] = "war" => AtWar(p)'
  <2>1. ASSUME AtWar(p) PROVE AtWar(p)'
    <3>1. wait'[p] \in {"no", "pick"} /\ SignedIn(p)' /\ ~Calling(p)' /\ ~Has(up[p], Commands)'
      BY <1>12, <1>13, <1>15, <2>1 DEF AtWar
    <3>2. NoPost(p) /\ gstate[p] = "CLIENT_WAR" => NoPost(p)' /\ gstate'[p] = "CLIENT_WAR"
      BY <1>10
    <3>3. Will(p, "CLIENT_WAR") /\ wait[p] = "pick" => Will(p, "CLIENT_WAR")' /\ wait'[p] = "pick"
      BY <1>11, <1>15
    <3>4. ASSUME Will(p, "CLIENT_ONLINE"), ~Has(down[p], {"in"}),
                 ~HasYes(up[p]), ~Agreed(p), ~In(p, {"turn", "results"}),
                 gstate[p] = "CLIENT_ONLINE" => ~Fighting(p)
          PROVE  /\ Will(p, "CLIENT_ONLINE")' /\ ~Has(down[p], {"in"})'
                 /\ ~HasYes(up[p])' /\ ~Agreed(p)' /\ ~In(p, {"turn", "results"})'
                 /\ gstate'[p] = "CLIENT_ONLINE" => ~Fighting(p)'
      <4>1. ASSUME gstate'[p] = "CLIENT_ONLINE", gstate[p] # "CLIENT_ONLINE"
            PROVE  ~Fighting(p)
        <5>1. Ends(m)
          BY <1>2, <1>6, <1>7, <3>4, <4>1 DEF old
        <5>2. Slept(p)
          BY <1>1, <5>1 DEF m
        <5>3. ~In(p, {"restore"})
          BY <5>2 DEF Slept, In, Fighters, Room
        <5> QED BY <3>4, <5>3 DEF Fighting, In
      <4> QED BY <1>9, <1>11, <1>12, <1>13, <1>14, <3>4, <4>1
    <3>5. HasYes(up[p])' \/ (Agreed(p)' /\ ~Fighting(p)') =>
            NoPost(p)' /\ (LastIs(up[p], "pick")' => wait'[p] = "pick")
      BY <1>10, <1>12, <1>13, <1>15, <2>1 DEF AtWar
    <3> QED BY <2>1, <3>1, <3>2, <3>3, <3>4, <3>5 DEF AtWar
  <2> QED BY <1>16, <2>1 DEF Client
<1>20. SignedIn(p) => Turns(p)'
  <2>1. SignedIn(p) => Turns(p)
    BY <1>16 DEF Client
  <2>2. ASSUME Turns(p), In(p, {"restore"}), up[p] # <<>> PROVE ~Will(p, "CLIENT_WAR")'
    <3>1. loop[p] = "war" /\ ~Will(p, "CLIENT_WAR")
      BY <2>2 DEF Turns, Stuck, In
    <3>2. NoPost(p) \/ Will(p, "CLIENT_ONLINE")
      BY <1>16, <3>1 DEF Client, AtWar
    <3>3. NoPost(p)' \/ Will(p, "CLIENT_ONLINE")'
      BY <1>10, <1>11, <3>2
    <3>4. /\ ~(NoPost(p)' /\ Will(p, "CLIENT_WAR")')
          /\ ~(Will(p, "CLIENT_ONLINE")' /\ Will(p, "CLIENT_WAR")')
      BY DEF NoPost, Will, Silent, OnePost
    <3> QED BY <3>3, <3>4
  <2>3. ASSUME Turns(p) PROVE Turns(p)'
    BY <1>10, <1>14, <1>15, <1>23, <2>2, <2>3 DEF Turns
  <2> QED BY <2>1, <2>3
<1>21. Client(p)'
  BY <1>13, <1>15, <1>16, <1>17, <1>18, <1>19, <1>20 DEF Client, Ended
<1>22. UNCHANGED <<server, up>> /\ \A q \in Players \ {p} : SameConn(q)
  BY <1>1 DEF SameConn
<1> QED BY <1>2, <1>4, <1>13, <1>21, <1>22, ClientStep

-----------------------------------------------------------------------------
(* The server handles the next packet of p, and answers m. *)
Served(p, m) ==
  /\ OthersSame(p)
  /\ up'[p] = Tail(up[p]) /\ loop'[p] = loop[p] /\ wait'[p] = wait[p]
  /\ gstate'[p] = gstate[p] /\ gsem'[p] = gsem[p]
  /\ Ended(p) => down'[p] = down[p]
  /\ ~Ended(p) /\ NoPost(p) => \A g : g = StateAfter(m, gstate[p]) => Will(p, g)'

LEMMA Serving ==
  ASSUME TypeOK, WarInv, NEW p \in Players, NEW m \in DownTo(p), up[p] # <<>>,
         Answers(p, m), Posts(m), \A q \in Players \ {p} : SameFlags(q),
         inserting' = inserting,
         DOMAIN rooms' = DOMAIN rooms /\ \A r \in DOMAIN rooms : rooms'[r].b = rooms[r].b
  PROVE  Others' /\ Served(p, m)
<1>1. /\ up' = [up EXCEPT ![p] = Tail(@)] /\ UNCHANGED client
      /\ down' = IF Ended(p) THEN down ELSE [down EXCEPT ![p] = Append(@, m)]
  BY DEF Answers
<1>2. /\ UNCHANGED <<gstate, loop, wait, gsem, gadversary>>
      /\ DOMAIN up = Players /\ DOMAIN down = Players
  BY <1>1 DEF client, TypeOK, TypeConn
<1>3. up[p] \in Seq(UpFrom(p)) /\ down[p] \in Seq(DownTo(p))
  BY DEF WarInv, Others
<1>4. /\ up'[p] = Tail(up[p])
      /\ down'[p] = IF Ended(p) THEN down[p] ELSE Append(down[p], m)
      /\ \A q \in Players \ {p} : up'[q] = up[q] /\ down'[q] = down[q]
  BY <1>1, <1>2
<1>5. up'[p] \in Seq(UpFrom(p)) /\ down'[p] \in Seq(DownTo(p))
  <2>1. Tail(up[p]) \in Seq(UpFrom(p)) /\ Append(down[p], m) \in Seq(DownTo(p))
    BY <1>3, TailIs, AppendIs
  <2> QED BY <1>3, <1>4, <2>1
<1>6. Others'
  <2>1. \A q \in Players : up'[q] \in Seq(UpFrom(q)) /\ down'[q] \in Seq(DownTo(q))
    BY <1>4, <1>5 DEF WarInv, Others
  <2> QED BY <1>2, <2>1 DEF WarInv, Others
<1>7. OthersSame(p)
  BY <1>2, <1>4 DEF OthersSame, SamePlayer
<1>8. ASSUME ~Ended(p), NoPost(p), NEW g, g = StateAfter(m, gstate[p])
      PROVE  Will(p, g)'
  <2>1. OnePost(Append(down[p], m), gstate[p], g)
    BY <1>3, <1>8, PostsAppend DEF NoPost
  <2> QED BY <1>2, <1>4, <1>8, <2>1 DEF Will, NoPost
<1> QED BY <1>2, <1>4, <1>6, <1>7, <1>8 DEF Served

(* What the next packet says of its sender. *)
LEMMA CommandAt ==
  ASSUME TypeOK, WarInv, NEW p \in Players, up[p] # <<>>,
         Head(up[p]).t \in Commands
  PROVE  /\ Tail(up[p]) = <<>> /\ ~HasYes(up[p])
         /\ Head(up[p]).t \in {"list", "request", "signout"} => ~Bound(p)
         /\ Head(up[p]).t \in {"request", "signout"} => SignedIn(p)
         /\ ~Ended(p) =>
              /\ NoPost(p)
              /\ Head(up[p]).t \in {"signup", "signin"} =>
                   /\ loop[p] = "welcome" /\ wait[p] = "call" /\ gstate[p] = "WELCOM"
                   /\ ~SignedIn(p)
              /\ Head(up[p]).t \in {"list", "request", "signout"} =>
                   /\ loop[p] = "online" /\ gstate[p] = "CLIENT_ONLINE" /\ SignedIn(p)
                   /\ wait[p] = IF Head(up[p]).t = "request" THEN "request" ELSE "call"
<1>1. UpOK(p) /\ Client(p) /\ up[p] \in Seq(UpFrom(p))
  BY DEF WarInv, Players2, Others
<1>2. Tail(up[p]) = <<>> /\ ~HasYes(up[p])
  BY <1>1, CommandIsLast DEF UpOK, Commands
<1>3. ASSUME NEW T PROVE Has(up[p], T) <=> Head(up[p]).t \in T
  <2>1. PICK n \in Nat : n = Len(up[p]) /\ n - 1 = 0
    BY <1>1, <1>2, TailIs, EmptyIs
  <2>2. DOMAIN up[p] = 1..n /\ Head(up[p]) = up[p][1]
    BY <1>1, <2>1, TailIs
  <2>3. DOMAIN up[p] = {1}
    <3>1. n = 1
      BY <2>1
    <3>2. \A k : k \in 1..1 <=> k \in {1}
      OBVIOUS
    <3> QED BY <2>2, <3>1, <3>2
  <2> QED BY <2>2, <2>3 DEF Has
<1>4. Head(up[p]).t \in {"list", "request", "signout"} => ~Bound(p)
  BY <1>1, <1>2, <1>3 DEF UpOK, Bound
<1>5. Head(up[p]).t \in {"request", "signout"} => SignedIn(p)
  BY <1>1, <1>3 DEF UpOK
<1>6. ASSUME ~Ended(p)
      PROVE  /\ NoPost(p)
             /\ Head(up[p]).t \in {"signup", "signin"} =>
                  /\ loop[p] = "welcome" /\ wait[p] = "call" /\ gstate[p] = "WELCOM"
                  /\ ~SignedIn(p)
             /\ Head(up[p]).t \in {"list", "request", "signout"} =>
                  /\ loop[p] = "online" /\ gstate[p] = "CLIENT_ONLINE" /\ SignedIn(p)
                  /\ wait[p] = IF Head(up[p]).t = "request" THEN "request" ELSE "call"
  <2>1. loop[p] # "war"
    BY <1>1, <1>3 DEF Client, AtWar
  <2>2. ASSUME loop[p] = "welcome"
        PROVE  /\ wait[p] = "call" /\ NoPost(p) /\ gstate[p] = "WELCOM"
               /\ Head(up[p]).t \in {"signup", "signin"} /\ ~SignedIn(p)
    BY <1>1, <1>3, <2>2 DEF Client, Welcome
  <2>3. ASSUME loop[p] = "online"
        PROVE  /\ wait[p] \in {"call", "request"} /\ NoPost(p) /\ gstate[p] = "CLIENT_ONLINE"
               /\ wait[p] = "call" => Head(up[p]).t \in {"list", "signout"}
               /\ wait[p] # "call" => Head(up[p]).t = "request"
               /\ SignedIn(p)
    BY <1>1, <1>3, <2>3 DEF Client, OnLine, Stuck
  <2>4. loop[p] \in {"welcome", "online"}
    BY <1>6, <2>1 DEF Ended, TypeOK, TypeClient
  <2> QED BY <2>2, <2>3, <2>4
<1> QED BY <1>2, <1>4, <1>5, <1>6

(* One who has gone hears nothing. *)
LEMMA GoneClient ==
  ASSUME NEW p, NEW m, Client(p), Ended(p), up[p] # <<>>, Served(p, m)
  PROVE  Client(p)'
BY DEF Client, Ended, Served

(* One with no packet under way may have lost a few of the ties. *)
LEMMA EmptyUp ==
  ASSUME NEW p, UpOK(p), up'[p] = <<>>,
         (p \in Online)' <=> p \in Online,
         Calling(p)' => Calling(p), Fighting(p)' => Fighting(p), Agreed(p)' <=> Agreed(p)
  PROVE  UpOK(p)'
<1>1. Orderly(up'[p]) /\ Len(up'[p]) = 0 /\ ~HasYes(up'[p]) /\ \A T : ~Has(up'[p], T)
  BY EmptyHas, EmptyIs
<1> QED BY <1>1 DEF UpOK

(* The answer is under way to one who waits at the prompt of online(). *)
LEMMA OnLineAnswer ==
  ASSUME TypeOK, WarInv, NEW p \in Players, NEW m, up[p] # <<>>, ~Ended(p),
         Head(up[p]).t \in {"list", "request"}, Served(p, m), SameFlags(p),
         StateAfter(m, gstate[p]) = gstate[p]
  PROVE  UpOK(p)' /\ Client(p)'
<1>1. /\ Tail(up[p]) = <<>> /\ ~Bound(p) /\ NoPost(p)
      /\ loop[p] = "online" /\ gstate[p] = "CLIENT_ONLINE" /\ SignedIn(p)
      /\ wait[p] \in {"call", "request"}
  BY CommandAt DEF Commands
<1>2. /\ up'[p] = <<>> /\ Will(p, "CLIENT_ONLINE")'
      /\ loop'[p] = "online" /\ wait'[p] = wait[p]
  BY <1>1 DEF Served
<1>3. UpOK(p)'
  BY <1>2, EmptyUp, SameBound DEF WarInv, Players2, SameFlags
<1>4. ~Has(up'[p], Commands) /\ ~HasYes(up'[p])
  BY <1>2, EmptyHas
<1>5. SignedIn(p)' /\ ~Calling(p)' /\ ~Fighting(p)' /\ ~Agreed(p)' /\ ~Bound(p)'
  BY <1>1, <1>4, SameBound DEF Bound
<1>6. OnLine(p)'
  BY <1>1, <1>2, <1>4, <1>5 DEF OnLine
<1>7. Turns(p)'
  BY <1>5, BoundTurns, PTL
<1> QED BY <1>2, <1>3, <1>5, <1>6, <1>7 DEF Client, Ended

(* The server answers and changes nothing else. *)
LEMMA OnlyAnswer ==
  ASSUME TypeOK, WarInv, NEW p \in Players, NEW m \in DownTo(p), up[p] # <<>>,
         Answers(p, m), Posts(m), UNCHANGED <<user_table, rooms, inserting, wars>>,
         Head(up[p]).t \in {"list", "request"}, \A s : StateAfter(m, s) = s
  PROVE  WarInv'
<1>1. (\A q : SameFlags(q)) /\ Threads'
  BY SameAll, SameThreads DEF WarInv, Answers
<1>2. Others' /\ Served(p, m)
  BY <1>1, Serving
<1>3. CASE Ended(p)
  <2>1. Client(p)'
    BY <1>2, <1>3, GoneClient DEF WarInv, Players2
  <2>2. up'[p] = <<>>
    BY <1>2, CommandAt DEF Served, Commands
  <2>3. UpOK(p)'
    BY <1>1, <2>2, EmptyUp, SameBound DEF WarInv, Players2, SameFlags
  <2> QED BY <1>1, <1>2, <2>1, <2>3, OneMoves DEF WarInv, Served, OthersSame
<1>4. CASE ~Ended(p)
  <2>1. UpOK(p)' /\ Client(p)'
    BY <1>1, <1>2, <1>4, OnLineAnswer
  <2> QED BY <1>1, <1>2, <2>1, OneMoves DEF WarInv, Served, OthersSame
<1> QED BY <1>3, <1>4

LEMMA ListWar ==
  ASSUME TypeOK, WarInv, NEW p \in Players, FriendsCreditList(p)
  PROVE  WarInv'
<1> DEFINE m == [t |-> "reply"]
<1>1. m \in DownTo(p) /\ Posts(m) /\ \A s : StateAfter(m, s) = s
  BY DEF DownTo, DownMsg, Posts, StateAfter, Ends
<1>2. /\ up[p] # <<>> /\ Head(up[p]).t \in {"list", "request"} /\ Answers(p, m)
      /\ UNCHANGED <<user_table, rooms, inserting, wars>>
  BY DEF FriendsCreditList, NextIs, server
<1> HIDE DEF m
<1> QED BY <1>1, <1>2, OnlyAnswer

LEMMA RefusedWar ==
  ASSUME TypeOK, WarInv, NEW p \in Players, NextIs(p, "request"),
         Refused(p, Head(up[p]).to)
  PROVE  WarInv'
<1> DEFINE b == Head(up[p]).to
           m == [t |-> "answered", adversary |-> b, answer |-> IF b \in Online THEN 1 ELSE 0]
<1>1. up[p] # <<>> /\ Head(up[p]).t = "request" /\ Head(up[p]) \in UpFrom(p)
  BY HeadTailProperties DEF NextIs, WarInv, Others
<1>2. b \in Players /\ b # p
  BY <1>1 DEF UpFrom, UpMsg
<1>3. /\ Answers(p, m) /\ UNCHANGED <<user_table, rooms, inserting, wars>>
      /\ Head(up[p]).t \in {"list", "request"}
  BY <1>1 DEF Refused, server
<1>4. m \in DownTo(p) /\ Posts(m) /\ \A s : StateAfter(m, s) = s
  BY <1>2 DEF DownTo, DownMsg, Posts, StateAfter, Ends
<1> HIDE DEF m
<1> QED BY <1>1, <1>3, <1>4, OnlyAnswer

LEMMA WelcomeAnswer ==
  ASSUME TypeOK, WarInv, NEW p \in Players, NEW m \in DownTo(p), up[p] # <<>>,
         Answers(p, m), Posts(m), UNCHANGED <<user_table, rooms, inserting, wars>>,
         Head(up[p]).t \in {"signup", "signin"}, StateAfter(m, "WELCOM") = "WELCOM"
  PROVE  WarInv'
<1>1. (\A q : SameFlags(q)) /\ Threads'
  BY SameAll, SameThreads DEF WarInv, Answers
<1>2. Others' /\ Served(p, m)
  BY <1>1, Serving
<1>3. up'[p] = <<>>
  BY <1>2, CommandAt DEF Served, Commands
<1>4. UpOK(p)'
  BY <1>1, <1>3, EmptyUp, SameBound DEF WarInv, Players2, SameFlags
<1>5. Client(p)'
  <2>1. CASE Ended(p)
    BY <1>2, <2>1, GoneClient DEF WarInv, Players2
  <2>2. CASE ~Ended(p)
    <3>1. /\ NoPost(p) /\ loop[p] = "welcome" /\ wait[p] = "call" /\ gstate[p] = "WELCOM"
          /\ ~SignedIn(p)
      BY <2>2, CommandAt DEF Commands
    <3>2. /\ Will(p, "WELCOM")' /\ loop'[p] = "welcome" /\ wait'[p] = "call"
          /\ ~SignedIn(p)'
      BY <1>1, <1>2, <2>2, <3>1, SameBound DEF Served
    <3> QED BY <1>3, <3>2 DEF Client, Welcome, Ended
  <2> QED BY <2>1, <2>2
<1> QED BY <1>1, <1>2, <1>4, <1>5, OneMoves DEF WarInv, Served, OthersSame

LEMMA SignUpWar ==
  ASSUME TypeOK, WarInv, NEW p \in Players, SignUp(p)
  PROVE  WarInv'
<1> DEFINE m == [t |-> "reply"]
<1>1. m \in DownTo(p) /\ Posts(m) /\ StateAfter(m, "WELCOM") = "WELCOM"
  BY DEF DownTo, DownMsg, Posts, StateAfter, Ends
<1>2. /\ up[p] # <<>> /\ Head(up[p]).t \in {"signup", "signin"} /\ Answers(p, m)
      /\ UNCHANGED <<user_table, rooms, inserting, wars>>
  BY DEF SignUp, NextIs
<1> HIDE DEF m
<1> QED BY <1>1, <1>2, WelcomeAnswer

-----------------------------------------------------------------------------
(* What a change of the tables leaves alone of a player. *)
LEMMA WarsAlike ==
  ASSUME DOMAIN wars' = DOMAIN wars,
         \A i \in DOMAIN wars : /\ wars'[i].room = wars[i].room /\ wars'[i].b = wars[i].b
                                /\ wars'[i].pc = wars[i].pc /\ wars'[i].results = wars[i].results
                                /\ wars'[i].socks = wars[i].socks,
         NEW q
  PROVE  /\ Calling(q)' <=> Calling(q)
         /\ \A pcs : In(q, pcs)' <=> In(q, pcs)
         /\ Hosting(q)' <=> Hosting(q)
         /\ Played(q)' <=> Played(q)
         /\ rooms' = rooms /\ conn' = conn => (Deaf(q) => Deaf(q)')
<1>1. Calling(q)' <=> Calling(q)
  BY DEF Calling
<1>2. \A pcs : In(q, pcs)' <=> In(q, pcs)
  BY DEF In
<1>3. Hosting(q)' <=> Hosting(q)
  BY DEF Hosting
<1>4. Played(q)' <=> Played(q)
  BY DEF Played, ResultOf
<1>5. rooms' = rooms /\ conn' = conn => (Deaf(q) => Deaf(q)')
  BY DEF Deaf, Over
<1> QED BY <1>1, <1>2, <1>3, <1>4, <1>5

LEMMA SameUser ==
  ASSUME NEW q, (q \in Online)' <=> q \in Online,
         q \in Online => /\ user_table'[q].connfd = user_table[q].connfd
                         /\ user_table'[q].room = user_table[q].room,
         rooms' = rooms, SameConn(q), Direct(q) => Direct(q)', Deaf(q) => Deaf(q)',
         Calling(q)' <=> Calling(q), \A pcs : In(q, pcs)' <=> In(q, pcs),
         Hosting(q)' <=> Hosting(q), Played(q)' <=> Played(q)
  PROVE  SameFlags(q)
<1>1. SignedIn(q)' <=> SignedIn(q)
  BY DEF SignedIn, SameConn
<1>2. Noted(q)' <=> Noted(q)
  BY DEF Noted, SkcOf
<1>3. Agreed(q)' <=> Agreed(q)
  BY DEF Agreed
<1> QED BY <1>1, <1>2, <1>3 DEF SameFlags, SameConn

LEMMA SignInWar ==
  ASSUME TypeOK, WarInv, NEW p \in Players, SignIn(p)
  PROVE  WarInv'
<1> DEFINE valid == Validity(p, Head(up[p]).right)
           m == [t |-> "in", valid |-> valid]
<1>1. /\ up[p] # <<>> /\ Head(up[p]).t \in {"signup", "signin"} /\ Answers(p, m)
      /\ UNCHANGED <<rooms, inserting, wars>>
      /\ user_table' = IF valid # 0 THEN user_table
            ELSE Put(user_table, p,
                     [state |-> "ONLINE", credit |-> file[p], room |-> Nobody,
                      connfd |-> conn[p]])
  BY DEF SignIn, NextIs
<1>6. UNCHANGED <<conn, loop, misled>>
  BY <1>1 DEF Answers, client
<1>2. valid \in 0..2 /\ (valid = 0 => p \notin Online)
  BY DEF Validity
<1>3. m \in DownTo(p) /\ Posts(m) /\ m.t = "in" /\ m.valid = valid
  BY <1>2 DEF DownTo, DownMsg, Posts
<1> HIDE DEF m, valid
<1>4. CASE valid # 0
  <2>1. StateAfter(m, "WELCOM") = "WELCOM"
    BY <1>3, <1>4 DEF StateAfter, Ends
  <2>2. user_table' = user_table
    BY <1>1, <1>4
  <2> QED BY <1>1, <1>3, <2>1, <2>2, WelcomeAnswer
<1>5. CASE valid = 0
  <2>1. /\ Online' = Online \cup {p} /\ p \notin Online
        /\ user_table'[p].state = "ONLINE" /\ user_table'[p].connfd = conn[p]
        /\ \A q \in Online : user_table'[q] = user_table[q]
    BY <1>1, <1>2, <1>5 DEF Put, Online
  <2>2. \A q : /\ Calling(q)' <=> Calling(q)
               /\ \A pcs : In(q, pcs)' <=> In(q, pcs)
               /\ Hosting(q)' <=> Hosting(q)
               /\ Played(q)' <=> Played(q)
               /\ Direct(q) => Direct(q)'
               /\ Deaf(q) => Deaf(q)'
    BY <1>1, <1>6, WarsAlike DEF Direct
  <2>3. \A q : Agreed(q)' <=> Agreed(q)
    BY <1>1 DEF Agreed
  <2>4. \A q \in Players \ {p} : SameFlags(q)
    <3>1. \A q : SameConn(q)
      BY <1>6 DEF SameConn
    <3> QED BY <1>1, <2>1, <2>2, <3>1, SameUser
  <2>5. Others' /\ Served(p, m)
    BY <1>1, <1>3, <2>4, Serving
  <2>6. up'[p] = <<>>
    BY <1>1, <2>5, CommandAt DEF Served, Commands
  <2>7. ~Calling(p) /\ ~Fighting(p) /\ ~Agreed(p)
    BY <2>1 DEF WarInv, Players2, UpOK
  <2>8. ~Calling(p)' /\ ~Fighting(p)' /\ ~Agreed(p)'
    BY <2>2, <2>3, <2>7 DEF Fighting
  <2>9. Orderly(up'[p]) /\ ~HasYes(up'[p]) /\ \A T : ~Has(up'[p], T)
    BY <2>6, EmptyHas
  <2>10. UpOK(p)'
    BY <2>8, <2>9 DEF UpOK
  <2>11. SignedIn(p)' /\ ~Bound(p)'
    <3>1. loop[p] # "closed"
      BY <1>1 DEF WarInv, Players2, Client
    <3> QED BY <1>6, <2>1, <2>8, <2>9, <3>1 DEF SignedIn, Bound
  <2>12. Client(p)'
    <3>1. CASE Ended(p)
      BY <1>1, <2>5, <3>1, GoneClient DEF WarInv, Players2
    <3>2. CASE ~Ended(p)
      <4>1. NoPost(p) /\ loop[p] = "welcome" /\ wait[p] = "call"
        BY <1>1, <3>2, CommandAt DEF Commands
      <4>2. StateAfter(m, gstate[p]) = "CLIENT_ONLINE"
        BY <1>3, <1>5 DEF StateAfter
      <4>3. Will(p, "CLIENT_ONLINE")' /\ loop'[p] = "welcome" /\ wait'[p] = "call"
        BY <2>5, <3>2, <4>1, <4>2 DEF Served
      <4>4. Turns(p)'
        BY <2>8, BoundTurns, PTL
      <4> QED BY <2>6, <2>11, <4>3, <4>4 DEF Client, Welcome, Ended
    <3> QED BY <3>1, <3>2
  <2>13. Threads'
    <3>1. ASSUME NEW i \in DOMAIN wars, wars[i].pc \in {"turn", "results"},
                 NEW q \in {wars[i].room, wars[i].b}
          PROVE  q \in Online' /\ user_table'[q] = user_table[q]
      BY <2>1, <3>1 DEF WarInv, Threads
    <3>2. \A q \in Online' : user_table'[q].state = "WAR" =>
            q \in Online /\ user_table'[q] = user_table[q]
      BY <2>1
    <3>3. \A q \in Online' : user_table'[q].state = "WAR" => Fighting(q)'
      BY <2>2, <3>2 DEF WarInv, Threads, Fighting
    <3> QED BY <1>1, <2>3, <3>1, <3>3 DEF WarInv, Threads
  <2> QED BY <2>4, <2>5, <2>10, <2>12, <2>13, OneMoves DEF WarInv, Served, OthersSame
<1> QED BY <1>4, <1>5

LEMMA SignOutWar ==
  ASSUME TypeOK, WarInv, NEW p \in Players, SignOut(p)
  PROVE  WarInv'
<1>1. up[p] # <<>> /\ Head(up[p]).t = "signout"
  BY DEF SignOut, NextIs
<1>2. p \in Online
  BY <1>1, CommandAt DEF Commands, SignedIn
<1>3. UNCHANGED <<user_table, rooms, inserting, wars>> /\ UNCHANGED client
      /\ UNCHANGED <<up, down, gstate, loop, wait, gsem, gadversary>>
  BY <1>2 DEF SignOut, client
<1>4. (\A q : SameFlags(q)) /\ Threads'
  BY <1>3, SameAll, SameThreads DEF WarInv
<1>5. \A q \in Players : SamePlayer(q)
  BY <1>3 DEF SamePlayer
<1>6. Others'
  BY <1>3 DEF WarInv, Others
<1>7. Players2'
  BY <1>4, <1>5, Frame DEF WarInv, Players2
<1> QED BY <1>4, <1>6, <1>7 DEF WarInv

LEMMA SignedOutWar ==
  ASSUME TypeOK, WarInv, NEW p \in Players, SignedOut(p)
  PROVE  WarInv'
<1> DEFINE m == [t |-> "out"]
<1>1. /\ up[p] # <<>> /\ Head(up[p]).t = "signout" /\ Answers(p, m)
      /\ UNCHANGED <<rooms, inserting>>
      /\ Online' = Online \ {p} /\ \A q \in Online \ {p} : user_table'[q] = user_table[q]
      /\ wars' = [i \in DOMAIN wars |->
                    IF wars[i].b = p THEN [wars[i] EXCEPT !.held = FALSE] ELSE wars[i]]
  BY DEF SignedOut, NextIs, Erase, Online
<1>14. p \in Online
  BY <1>1, CommandAt DEF Commands, SignedIn
<1>15. UNCHANGED <<conn, loop, misled>>
  BY <1>1 DEF Answers, client
<1>2. m \in DownTo(p) /\ Posts(m) /\ StateAfter(m, gstate[p]) = "WELCOM"
  BY DEF DownTo, DownMsg, Posts, StateAfter, Ends
<1> HIDE DEF m
<1>3. /\ DOMAIN wars' = DOMAIN wars
      /\ \A i \in DOMAIN wars :
           /\ wars'[i].room = wars[i].room /\ wars'[i].b = wars[i].b
           /\ wars'[i].pc = wars[i].pc /\ wars'[i].results = wars[i].results
           /\ wars'[i].socks = wars[i].socks
  <2>1. \A i \in DOMAIN wars : wars[i] \in WarThread
    BY WarFacts
  <2> QED BY <1>1, <2>1 DEF WarThread
<1>4. \A q : /\ Calling(q)' <=> Calling(q)
             /\ \A pcs : In(q, pcs)' <=> In(q, pcs)
             /\ Hosting(q)' <=> Hosting(q)
             /\ Played(q)' <=> Played(q)
             /\ Direct(q) => Direct(q)'
             /\ Deaf(q) => Deaf(q)'
  BY <1>1, <1>3, <1>15, WarsAlike DEF Direct
<1>5. \A q : Agreed(q)' <=> Agreed(q)
  BY <1>1 DEF Agreed
<1>6. \A q \in Players \ {p} : SameFlags(q)
  <2>1. \A q : SameConn(q)
    BY <1>15 DEF SameConn
  <2> QED BY <1>1, <1>4, <2>1, SameUser
<1>7. Others' /\ Served(p, m)
  BY <1>1, <1>2, <1>6, Serving
<1>8. up'[p] = <<>>
  BY <1>1, <1>7, CommandAt DEF Served, Commands
<1>9. ~Calling(p) /\ ~Fighting(p) /\ ~Agreed(p)
  BY <1>1, CommandAt DEF Commands, Bound
<1>10. ~Calling(p)' /\ ~Fighting(p)' /\ ~Agreed(p)' /\ ~SignedIn(p)' /\ p \notin Online'
  BY <1>1, <1>4, <1>5, <1>9 DEF Fighting, SignedIn
<1>11. UpOK(p)'
  <2>1. Orderly(up'[p]) /\ ~HasYes(up'[p]) /\ \A T : ~Has(up'[p], T)
    BY <1>8, EmptyHas
  <2> QED BY <1>10, <2>1 DEF UpOK
<1>12. Client(p)'
  <2>1. CASE Ended(p)
    BY <1>1, <1>7, <2>1, GoneClient DEF WarInv, Players2
  <2>2. CASE ~Ended(p)
    <3>1. NoPost(p) /\ loop[p] = "online" /\ wait[p] = "call"
      BY <1>1, <2>2, CommandAt DEF Commands
    <3>2. Will(p, "WELCOM")' /\ loop'[p] = "online" /\ wait'[p] = "call"
      BY <1>2, <1>7, <2>2, <3>1 DEF Served
    <3> QED BY <1>8, <1>10, <3>2 DEF Client, OnLine, Ended
  <2> QED BY <2>1, <2>2
<1>13. Threads'
  <2>1. ASSUME NEW i \in DOMAIN wars, wars[i].pc \in {"turn", "results"},
               NEW q \in {wars[i].room, wars[i].b}
        PROVE  q \in Online' /\ user_table'[q] = user_table[q]
    <3>1. q \in Online
      BY <2>1 DEF WarInv, Threads
    <3>2. q # p
      BY <1>9, <2>1 DEF Fighting, In
    <3> QED BY <1>1, <3>1, <3>2
  <2>2. \A q \in Online' : user_table'[q].state = "WAR" => Fighting(q)'
    <3>1. \A q \in Online' : q \in Online /\ user_table'[q] = user_table[q]
      BY <1>1
    <3> QED BY <1>4, <3>1 DEF WarInv, Threads, Fighting
  <2>3. \A i, j \in DOMAIN wars' :
          wars'[i].pc # "exit" /\ wars'[j].pc # "exit" /\ i # j =>
            wars'[i].room # wars'[j].room /\ wars'[i].pc \in {"ask", "wait"}
    BY <1>3 DEF WarInv, Threads
  <2>4. \A i \in DOMAIN wars' : wars'[i].pc \in {"turn", "results", "restore"} =>
          /\ wars'[i].b \in Players /\ wars'[i].b # wars'[i].room
          /\ \A r \in DOMAIN rooms' :
               /\ ~(r # wars'[i].room /\ rooms'[r].yes /\ rooms'[r].sem > 0)
               /\ Over(wars'[i]) =>
                    ~(r # wars'[i].b /\ rooms'[r].yes /\ rooms'[r].sem > 0)
    BY <1>1, <1>3 DEF WarInv, Threads, Agreed, Over
  <2>5. \A i \in DOMAIN wars' : wars'[i].pc \in {"turn", "results"} =>
          \A q \in {wars'[i].room, wars'[i].b} :
            /\ q \in Online'
            /\ user_table'[q].state = "WAR" /\ user_table'[q].room = wars'[i].room
    BY <1>3, <2>1 DEF WarInv, Threads
  <2>6. \A i \in DOMAIN wars' : wars'[i].pc = "results" =>
          LET f1 == wars'[i].results[1].final
              f2 == wars'[i].results[2].final
          IN  (f1 = 0 <=> f2 = 0) /\ (f1 \in {1, 2} <=> f2 \in {1, 2})
    BY <1>3 DEF WarInv, Threads
  <2> QED BY <2>2, <2>3, <2>4, <2>5, <2>6 DEF Threads, Agreed, Over
<1> QED BY <1>6, <1>7, <1>11, <1>12, <1>13, OneMoves DEF WarInv, Served, OthersSame

LEMMA CloseConnWar ==
  ASSUME TypeOK, WarInv, NEW p \in Players, CloseConn(p)
  PROVE  WarInv'
<1>1. /\ loop[p] = "left" /\ up[p] = <<>> /\ loop'[p] = "closed"
      /\ \A q \in Players \ {p} : loop'[q] = loop[q]
      /\ UNCHANGED <<user_table, rooms, inserting, wars, conn, up, down, gstate, wait,
                     gsem, gadversary, misled>>
  BY DEF CloseConn, TypeOK, TypeClient
<1>2. UNCHANGED <<user_table, rooms, inserting, wars>>
  BY <1>1
<1>3. Threads'
  BY <1>2, SameThreads DEF WarInv
<1>4. \A q \in Players \ {p} : SamePlayer(q) /\ SameFlags(q)
  <2>1. \A q \in Players \ {p} : SameConn(q)
    BY <1>1 DEF SameConn
  <2> QED BY <1>1, <1>2, <2>1, SameTables DEF SamePlayer
<1>5. UpOK(p)'
  <2>1. /\ (p \in Online)' <=> p \in Online
        /\ Calling(p)' <=> Calling(p)
        /\ Fighting(p)' <=> Fighting(p)
        /\ Agreed(p)' <=> Agreed(p)
    BY <1>1 DEF Online, Calling, Fighting, In, Agreed
  <2> QED BY <1>1, <2>1, EmptyUp DEF WarInv, Players2
<1>6. Client(p)'
  <2>1. ~SignedIn(p)'
    BY <1>1 DEF SignedIn
  <2> QED BY <1>1, <2>1 DEF WarInv, Players2, Client, Ended
<1>7. Others'
  BY <1>1 DEF WarInv, Others
<1> QED BY <1>3, <1>4, <1>5, <1>6, <1>7, OneMoves DEF WarInv

-----------------------------------------------------------------------------
(* The server takes the next packet of p and does not answer. *)
Taken(p) ==
  /\ \A q \in Players \ {p} : SamePlayer(q)
  /\ \A q \in Players : up'[q] \in Seq(UpFrom(q)) /\ down'[q] \in Seq(DownTo(q))
  /\ up'[p] = Tail(up[p]) /\ loop'[p] = loop[p] /\ wait'[p] = wait[p]
  /\ gadversary' = gadversary /\ SameMind(p)

LEMMA Taking ==
  ASSUME TypeOK, WarInv, NEW p \in Players, up[p] # <<>>,
         up' = [up EXCEPT ![p] = Tail(@)],
         UNCHANGED <<down, gstate, loop, wait, gsem, gadversary>>
  PROVE  Taken(p)
<1>1. UNCHANGED <<down, gstate, loop, wait, gsem, gadversary>>
  OBVIOUS
<1>2. up'[p] = Tail(up[p]) /\ \A q \in Players \ {p} : up'[q] = up[q]
  BY DEF TypeOK, TypeConn
<1>3. Tail(up[p]) \in Seq(UpFrom(p))
  BY TailIs DEF WarInv, Others
<1>4. \A q \in Players : up'[q] \in Seq(UpFrom(q)) /\ down'[q] \in Seq(DownTo(q))
  BY <1>1, <1>2, <1>3 DEF WarInv, Others
<1> QED BY <1>1, <1>2, <1>4 DEF Taken, SamePlayer, SameMind

(* With two players, nobody asks while a war goes on. *)
LEMMA AllFight ==
  ASSUME TypeOK, TwoPlayers, WarInv, NEW p \in Players, ~Fighting(p),
         NEW i \in DOMAIN wars
  PROVE  wars[i].pc \notin {"turn", "results", "restore"}
<1> SUFFICES ASSUME wars[i].pc \in {"turn", "results", "restore"} PROVE FALSE
  OBVIOUS
<1>1. wars[i].room \in Players /\ wars[i].b \in Players /\ wars[i].b # wars[i].room
  BY WarFacts DEF WarInv, Threads, WarThread
<1>2. p \in {wars[i].room, wars[i].b}
  BY <1>1 DEF TwoPlayers
<1> QED BY <1>2 DEF Fighting, In

LEMMA StartWar ==
  ASSUME TypeOK, TwoPlayers, WarInv, NEW p \in Players, NextIs(p, "request"),
         wars' = Append(wars, [room |-> p, b |-> Nobody, held |-> FALSE,
                               results |-> NoResults, socks |-> <<0, 0>>,
                               pc |-> "ask"]),
         inserting' = [inserting EXCEPT ![p] = Head(up[p]).to],
         up' = [up EXCEPT ![p] = Tail(@)],
         misled' = [misled EXCEPT ![p] = @ \/ OldRoom(p)],
         UNCHANGED <<user_table, rooms, conn, down, gstate, loop, wait, gsem, gadversary>>
  PROVE  WarInv'
<1> DEFINE w == [room |-> p, b |-> Nobody, held |-> FALSE,
                 results |-> NoResults, socks |-> <<0, 0>>, pc |-> "ask"]
<1>1. up[p] # <<>> /\ Head(up[p]).t = "request" /\ Head(up[p]) \in UpFrom(p)
  BY HeadTailProperties DEF NextIs, WarInv, Others
<1>2. Head(up[p]).to # p /\ Head(up[p]).to # Nobody
  BY <1>1, GameOK DEF UpFrom, UpMsg
<1>3. Taken(p) /\ UNCHANGED <<gstate, loop, wait, gsem, gadversary>>
  BY <1>1, Taking
<1>4. /\ ~Bound(p) /\ SignedIn(p) /\ Tail(up[p]) = <<>>
      /\ ~Ended(p) => /\ NoPost(p) /\ loop[p] = "online" /\ gstate[p] = "CLIENT_ONLINE"
                      /\ wait[p] = "request"
  BY <1>1, CommandAt DEF Commands
<1>5. ~Calling(p) /\ ~Fighting(p) /\ ~Agreed(p)
  BY <1>4 DEF Bound
<1>6. PICK n \in Nat : /\ DOMAIN wars = 1..n /\ DOMAIN wars' = 1..(n + 1)
                       /\ \A i \in 1..n : wars'[i] = wars[i]
                       /\ wars'[n + 1] = w
  <2>1. wars \in Seq(WarThread)
    BY DEF TypeOK, TypeServer
  <2>2. w \in WarThread
    BY DEF WarThread, NoResults, TurnMsg
  <2> QED BY <2>1, <2>2, AppendIs
<1>7. /\ w.room = p /\ w.pc = "ask" /\ w.b = Nobody
      /\ \A i : i \in 1..(n + 1) <=> i \in 1..n \/ i = n + 1
      /\ n + 1 \notin 1..n
  OBVIOUS
<1> HIDE DEF w
<1>8. ASSUME NEW q \in Players, q # p
      PROVE  /\ Calling(q)' <=> Calling(q)
             /\ \A pcs : In(q, pcs)' <=> In(q, pcs)
             /\ Hosting(q)' <=> Hosting(q)
             /\ Played(q)' <=> Played(q)
             /\ Deaf(q) => Deaf(q)'
  <2>1. q # Nobody
    BY GameOK
  <2>2. Calling(q)' <=> Calling(q)
    BY <1>6, <1>7, <1>8 DEF Calling
  <2>3. ASSUME NEW pcs PROVE In(q, pcs)' <=> In(q, pcs)
    BY <1>6, <1>7, <1>8, <2>1 DEF In
  <2>4. Hosting(q)' <=> Hosting(q)
    BY <1>6, <1>7, <1>8 DEF Hosting
  <2>5. Played(q)' <=> Played(q)
    BY <1>6, <1>7, <1>8 DEF Played, ResultOf
  <2>6. Deaf(q) => Deaf(q)'
    BY <1>6, <1>7 DEF Deaf
  <2> QED BY <2>2, <2>3, <2>4, <2>5, <2>6
<1>9. \A q \in Players \ {p} : SamePlayer(q) /\ SameFlags(q)
  <2>1. \A q \in Players \ {p} : SameFlags(q)
    <3>1. ASSUME NEW q \in Players, q # p
          PROVE  SameConn(q) /\ (Direct(q) => Direct(q)')
      BY <3>1 DEF SameConn, Direct, TypeOK, TypeServer, TypeClient
    <3> QED BY <1>8, <3>1, SameUser DEF Online
  <2> QED BY <1>3, <2>1 DEF Taken
<1>10. /\ Calling(p)' /\ ~Fighting(p)' /\ ~Agreed(p)' /\ SignedIn(p)'
       /\ (p \in Online)' /\ SignedIn(p)'
  <2>1. Calling(p)'
    BY <1>6, <1>7 DEF Calling
  <2>2. ~Fighting(p)'
    BY <1>5, <1>6, <1>7 DEF Fighting, In
  <2>3. ~Agreed(p)'
    BY <1>5 DEF Agreed
  <2> QED BY <1>4, <2>1, <2>2, <2>3 DEF SignedIn, Online
<1>11. up'[p] = <<>>
  BY <1>3, <1>4 DEF Taken
<1>12. UpOK(p)'
  <2>1. Orderly(up'[p]) /\ ~HasYes(up'[p]) /\ \A T : ~Has(up'[p], T)
    BY <1>11, EmptyHas
  <2> QED BY <1>10, <2>1 DEF UpOK
<1>13. Client(p)'
  <2>1. CASE Ended(p)
    BY <1>1, <1>3, <2>1 DEF WarInv, Players2, Client, Ended, Taken, SameMind
  <2>2. CASE ~Ended(p)
    <3>1. NoPost(p)'
      BY <1>3, <1>4, <2>2, SamePosts DEF Taken
    <3>2. /\ loop'[p] = "online" /\ gstate'[p] = "CLIENT_ONLINE"
          /\ wait'[p] = "request"
      BY <1>3, <1>4, <2>2 DEF Taken, SameMind
    <3>3. Turns(p)'
      BY <1>10, BoundTurns, PTL
    <3>4. Direct(p)' \/ misled'[p]
      BY <1>2 DEF Direct, OldRoom, TypeOK, TypeServer, TypeClient
    <3> QED BY <1>10, <1>11, <3>1, <3>2, <3>3, <3>4 DEF Client, OnLine, Ended
  <2> QED BY <2>1, <2>2
<1>14. Others'
  <2>1. \A q \in Players : inserting'[q] # q
    BY <1>2 DEF WarInv, Others, TypeOK, TypeServer
  <2> QED BY <1>3, <2>1 DEF WarInv, Others, Taken
<1>15. Threads'
  <2>1. \A i \in 1..n : wars[i].pc \notin {"turn", "results", "restore"}
    BY <1>5, <1>6, AllFight
  <2>2. \A i \in 1..n : wars[i].pc \notin {"ask", "wait"} \/ wars[i].room # p
    BY <1>5, <1>6 DEF Calling
  <2>3. \A i \in 1..n : wars[i].pc \in {"ask", "wait", "turn", "results", "restore", "exit"}
    BY <1>6, WarFacts DEF WarThread
  <2>4. \A i, j \in DOMAIN wars' :
          wars'[i].pc # "exit" /\ wars'[j].pc # "exit" /\ i # j =>
            wars'[i].room # wars'[j].room /\ wars'[i].pc \in {"ask", "wait"}
    <3> SUFFICES ASSUME NEW i \in 1..(n + 1), NEW j \in 1..(n + 1),
                        wars'[i].pc # "exit", wars'[j].pc # "exit", i # j
                 PROVE  wars'[i].room # wars'[j].room /\ wars'[i].pc \in {"ask", "wait"}
      BY <1>6
    <3>0. wars'[i].pc # "exit" /\ wars'[j].pc # "exit" /\ i # j
      OBVIOUS
    <3>1. CASE i \in 1..n /\ j \in 1..n
      <4>1. /\ i \in DOMAIN wars /\ j \in DOMAIN wars
            /\ wars'[i] = wars[i] /\ wars'[j] = wars[j]
        BY <1>6, <3>1
      <4>2. wars[i].pc # "exit" /\ wars[j].pc # "exit" /\ i # j
        BY <3>0, <4>1
      <4> QED BY <4>1, <4>2 DEF WarInv, Threads
    <3>2. CASE i = n + 1 /\ j \in 1..n
      BY <1>6, <1>7, <2>1, <2>2, <2>3, <3>2
    <3>3. CASE i \in 1..n /\ j = n + 1
      BY <1>6, <1>7, <2>1, <2>2, <2>3, <3>3
    <3> QED BY <1>7, <3>1, <3>2, <3>3
  <2>5. \A i \in DOMAIN wars' : wars'[i].pc \notin {"turn", "results", "restore"}
    BY <1>6, <1>7, <2>1
  <2>6. \A q \in Online : user_table[q].state # "WAR"
    <3>1. \A q \in Online : ~Fighting(q)
      BY <1>6, <2>1 DEF Fighting, In
    <3> QED BY <3>1 DEF WarInv, Threads
  <2> QED BY <2>4, <2>5, <2>6 DEF Threads, Online
<1> QED BY <1>9, <1>12, <1>13, <1>14, <1>15, OneMoves DEF WarInv

LEMMA WarRequestWar ==
  ASSUME TypeOK, TwoPlayers, WarInv, NEW p \in Players, WarRequest(p)
  PROVE  WarInv'
<1>1. NextIs(p, "request")
  BY DEF WarRequest
<1>2. CASE Refused(p, Head(up[p]).to)
  BY <1>1, <1>2, RefusedWar
<1>3. CASE ~Refused(p, Head(up[p]).to)
  BY <1>1, <1>3, StartWar DEF WarRequest
<1> QED BY <1>2, <1>3

LEMMA InsertRoomWar ==
  ASSUME TypeOK, WarInv, NEW p \in Players, InsertRoom(p)
  PROVE  WarInv'
<1>1. /\ inserting[p] # Nobody /\ rooms' = Inserted(p)
      /\ inserting' = [inserting EXCEPT ![p] = Nobody]
      /\ UNCHANGED <<user_table, wars, conn, misled, up, down, gstate, loop, wait, gsem,
                     gadversary>>
  BY DEF InsertRoom, client
<1>4. \A q : SameConn(q)
  BY <1>1 DEF SameConn
<1>5. \A q \in Players \ {p} : inserting'[q] = inserting[q]
  BY <1>1 DEF TypeOK, TypeServer
<1>2. CASE p \in DOMAIN rooms
  <2>1. rooms' = rooms
    BY <1>1, <1>2 DEF Inserted
  <2>2. (\A q \in Players : SameFlags(q)) /\ Threads'
    <3>1. ASSUME NEW q \in Players
          PROVE  /\ (q \in Online)' <=> q \in Online
                 /\ Calling(q)' <=> Calling(q)
                 /\ \A pcs : In(q, pcs)' <=> In(q, pcs)
                 /\ Hosting(q)' <=> Hosting(q)
                 /\ Played(q)' <=> Played(q)
                 /\ Direct(q) => Direct(q)'
                 /\ Deaf(q) => Deaf(q)'
      BY <1>1, <1>2, <1>5, <2>1
         DEF Online, Calling, In, Hosting, Played, ResultOf, Direct, Deaf
    <3>2. \A q \in Players : SameFlags(q)
      BY <1>1, <1>4, <2>1, <3>1, SameUser
    <3>3. UNCHANGED <<user_table, rooms, wars>>
      BY <1>1, <2>1
    <3> QED BY <3>2, <3>3, SameThreads DEF WarInv
  <2>3. Others'
    BY <1>1, <2>1, GameOK DEF WarInv, Others, TypeOK, TypeServer
  <2>4. \A q \in Players : SamePlayer(q)
    BY <1>1 DEF SamePlayer
  <2>5. Players2'
    BY <2>2, <2>4, Frame DEF WarInv, Players2
  <2> QED BY <2>2, <2>3, <2>5 DEF WarInv
<1>3. CASE p \notin DOMAIN rooms
  <2>1. /\ DOMAIN rooms' = DOMAIN rooms \cup {p}
        /\ \A r \in DOMAIN rooms : rooms'[r] = rooms[r]
        /\ rooms'[p] = NewRoom(inserting[p], conn[p], b_sockfd[p])
    BY <1>1, <1>3 DEF Inserted, Put
  <2>2. /\ rooms'[p].b = inserting[p] /\ rooms'[p].sem = 0
        /\ rooms'[p].skc1 = NotRecved /\ rooms'[p].skc2 = NotRecved
        /\ rooms'[p].a_sockfd = conn[p]
    BY <2>1 DEF NewRoom
  <2>3. \A q : Agreed(q)' <=> Agreed(q)
    BY <1>3, <2>1, <2>2 DEF Agreed
  <2>4. \A q : Noted(q)' <=> Noted(q)
    BY <1>1, <1>3, <2>1, <2>2 DEF Noted, SkcOf, Online
  <2>5. \A q \in Players : SameFlags(q)
    <3>1. \A q : /\ (q \in Online)' <=> q \in Online
                 /\ SignedIn(q)' <=> SignedIn(q)
                 /\ Calling(q)' <=> Calling(q)
                 /\ \A pcs : In(q, pcs)' <=> In(q, pcs)
                 /\ Hosting(q)' <=> Hosting(q)
                 /\ Played(q)' <=> Played(q)
      BY <1>1 DEF SignedIn, Online, Calling, In, Hosting, Played
    <3>2. ASSUME NEW q \in Players PROVE Direct(q) => Direct(q)'
      BY <1>1, <1>5, <2>1, <2>2 DEF Direct
    <3>3. ASSUME NEW q \in Players PROVE Deaf(q) => Deaf(q)'
      BY <1>1, <1>3, <2>1 DEF Deaf
    <3> QED BY <1>1, <2>3, <2>4, <3>1, <3>2, <3>3 DEF SameFlags
  <2>6. Threads'
    <3>1. \A i \in DOMAIN wars : /\ Agreed(wars[i].room)' <=> Agreed(wars[i].room)
                                 /\ Agreed(wars[i].b)' <=> Agreed(wars[i].b)
      BY <1>1, <2>3
    <3> QED BY <1>1, <3>1 DEF WarInv, Threads, Over, Online, Fighting, In
  <2>7. Others'
    <3>1. \A q \in Players : inserting'[q] # q
      BY <1>1, GameOK DEF WarInv, Others, TypeOK, TypeServer
    <3>2. \A r \in DOMAIN rooms' : rooms'[r].b # r
      BY <2>1, <2>2 DEF WarInv, Others
    <3> QED BY <1>1, <3>1, <3>2 DEF WarInv, Others
  <2>8. \A q \in Players : SamePlayer(q)
    BY <1>1 DEF SamePlayer
  <2>9. Players2'
    BY <2>5, <2>8, Frame DEF WarInv, Players2
  <2> QED BY <2>6, <2>7, <2>9 DEF WarInv
<1> QED BY <1>2, <1>3

(* What is left of the packets when the first, of another kind, is taken. *)
LEMMA HasTail ==
  ASSUME NEW S, NEW s \in Seq(S), s # <<>>, NEW T, Has(s, T), Head(s).t \notin T
  PROVE  Has(Tail(s), T)
<1>1. PICK n \in Nat \ {0} : n = Len(s)
  BY TailIs
<1>2. PICK u \in Seq(S) : u = Tail(s)
  BY TailIs
<1>3. /\ DOMAIN s = 1..n /\ DOMAIN u = 1..(n - 1) /\ Head(s) = s[1]
      /\ \A k \in 1..(n - 1) : u[k] = s[k + 1]
  BY <1>1, <1>2, TailIs
<1>4. PICK k \in 1..n : s[k].t \in T
  BY <1>3 DEF Has
<1>5. k # 1
  BY <1>3, <1>4
<1>6. k - 1 \in 1..(n - 1) /\ (k - 1) + 1 = k
  BY <1>5
<1>7. u[k - 1].t \in T
  BY <1>3, <1>4, <1>6
<1>8. Has(u, T)
  BY <1>3, <1>6, <1>7 DEF Has
<1> QED BY <1>2, <1>8

LEMMA OneAndNoMore ==
  ASSUME NEW S, NEW s \in Seq(S), s # <<>>, Len(s) <= 1
  PROVE  Tail(s) = <<>>
<1>1. PICK n \in Nat \ {0} : n = Len(s)
  BY TailIs
<1>2. n - 1 = 0
  BY <1>1
<1>3. Tail(s) \in Seq(S) /\ Len(Tail(s)) = 0
  BY <1>1, <1>2, TailIs
<1> QED BY <1>3, EmptySeq

(* After a yes there is a pick at most. *)
LEMMA YesTail ==
  ASSUME NEW S, NEW s \in Seq(S), s # <<>>, Orderly(s), Head(s).t = "answer", Head(s).yes
  PROVE  /\ Len(Tail(s)) <= 1 /\ ~HasYes(Tail(s))
         /\ \A T : Has(Tail(s), T) => "pick" \in T
<1>1. PICK n \in Nat \ {0} : n = Len(s)
  BY TailIs
<1>2. PICK u \in Seq(S) : u = Tail(s)
  BY TailIs
<1>3. /\ DOMAIN s = 1..n /\ DOMAIN u = 1..(n - 1) /\ Len(u) = n - 1 /\ Head(s) = s[1]
      /\ \A k \in 1..(n - 1) : u[k] = s[k + 1]
  BY <1>1, <1>2, TailIs
<1>4. n <= 2 /\ (1 < n => s[1 + 1].t = "pick")
  <2>1. 1 \in DOMAIN s /\ s[1].t = "answer" /\ s[1].yes
    BY <1>3
  <2>2. Len(s) <= 1 + 1 /\ (1 < Len(s) => s[1 + 1].t = "pick")
    BY <2>1 DEF Orderly
  <2> QED BY <1>1, <2>2
<1>5. \A k \in DOMAIN u : u[k].t = "pick"
  <2> SUFFICES ASSUME NEW k \in 1..(n - 1) PROVE u[k].t = "pick"
    BY <1>3
  <2>1. k = 1 /\ 1 < n
    BY <1>4
  <2>2. u[1] = s[1 + 1]
    BY <1>3, <2>1
  <2> QED BY <1>4, <2>1, <2>2
<1>6. Len(u) <= 1
  BY <1>3, <1>4
<1> QED BY <1>2, <1>5, <1>6 DEF HasYes, Has

(* An answer or a pick has been taken of one who is not at war. *)
LEMMA TakenOutside ==
  ASSUME TypeOK, WarInv, NEW p \in Players, up[p] # <<>>, Taken(p),
         Head(up[p]).t \in {"answer", "pick"}, ~Ended(p), loop[p] # "war",
         (p \in Online)' <=> p \in Online, SignedIn(p)' <=> SignedIn(p), ~Bound(p) => ~Bound(p)',
         Fighting(p)' => Fighting(p)
  PROVE  Client(p)'
<1>1. Client(p) /\ up[p] \in Seq(UpFrom(p))
  BY DEF WarInv, Players2, Others
<1>2. loop[p] # "welcome"
  <2> SUFFICES ASSUME Len(up[p]) = 1, Has(up[p], {"signup", "signin"}) PROVE FALSE
    BY <1>1 DEF Client, Welcome
  <2>1. Has(Tail(up[p]), {"signup", "signin"})
    BY <1>1, HasTail
  <2>2. Len(up[p]) <= 1
    OBVIOUS
  <2>3. Tail(up[p]) = <<>>
    BY <1>1, <2>2, OneAndNoMore
  <2> QED BY <2>1, <2>3, EmptyHas
<1>3. loop[p] = "online"
  BY <1>2 DEF Ended, TypeOK, TypeClient
<1>4. /\ up'[p] = Tail(up[p]) /\ loop'[p] = "online" /\ wait'[p] = wait[p]
      /\ gstate'[p] = gstate[p]
      /\ NoPost(p)' <=> NoPost(p)
      /\ \A g : Will(p, g)' <=> Will(p, g)
  BY <1>3, SamePosts DEF Taken, SameMind
<1>5. /\ Has(up[p], {"list", "signout"}) => Has(up'[p], {"list", "signout"})
      /\ Has(up[p], {"request"}) => Has(up'[p], {"request"})
      /\ Has(up'[p], Commands) => Has(up[p], Commands)
  BY <1>1, <1>4, HasTail, TailKeeps
<1>6. SignedIn(p) /\ ~Bound(p)
  BY <1>1, <1>3 DEF Client, OnLine, Stuck
<1>7. SignedIn(p)' /\ ~Bound(p)' /\ ~Fighting(p)'
  BY <1>6 DEF Bound
<1>8. OnLine(p)'
  BY <1>1, <1>3, <1>4, <1>5, <1>6, <1>7 DEF Client, OnLine, Stuck
<1>9. Turns(p)'
  BY <1>7, BoundTurns, PTL
<1> QED BY <1>4, <1>7, <1>8, <1>9 DEF Client, Ended

LEMMA GoneTaken ==
  ASSUME WarInv, NEW p \in Players, up[p] # <<>>, Taken(p), Ended(p)
  PROVE  Client(p)'
BY DEF WarInv, Players2, Client, Ended, Taken, SameMind

LEMMA WarResponseWar ==
  ASSUME TypeOK, TwoPlayers, WarInv, NEW p \in Players, WarResponse(p)
  PROVE  WarInv'
<1> DEFINE m == Head(up[p])
<1>1. /\ up[p] # <<>> /\ m.t = "answer" /\ m \in UpFrom(p)
      /\ UNCHANGED <<user_table, inserting, wars>>
      /\ UNCHANGED <<down, gstate, loop, wait, gsem, gadversary>>
      /\ UNCHANGED <<conn, misled>> /\ up' = [up EXCEPT ![p] = Tail(@)]
  BY HeadTailProperties DEF WarResponse, NextIs, WarInv, Others, client
<1>2. m.room # p /\ m.yes \in BOOLEAN
  BY <1>1 DEF UpFrom, UpMsg
<1>3. rooms' = IF m.room \notin DOMAIN rooms THEN rooms
               ELSE [rooms EXCEPT ![m.room].yes = m.yes, ![m.room].sem = @ + 1]
  BY DEF WarResponse
<1>4. Taken(p)
  BY <1>1, Taking
<1>5. UpOK(p) /\ Client(p) /\ up[p] \in Seq(UpFrom(p))
  BY DEF WarInv, Players2, Others
<1>6. ~Calling(p) /\ ~Fighting(p) /\ ~Agreed(p)
  <2>1. /\ Has(up[p], {"answer", "pick", "list", "request", "signout"})
        /\ Has(up[p], {"answer", "list", "request", "signout"})
    BY <1>1, <1>5, HeadHas
  <2> QED BY <1>5, <2>1 DEF UpOK
<1>7. m.yes => HasYes(up[p])
  <2>1. 1 \in DOMAIN up[p] /\ m = up[p][1]
    BY <1>1, <1>5, TailIs
  <2> QED BY <1>1, <2>1 DEF HasYes
<1> HIDE DEF m
<1>8. /\ DOMAIN rooms' = DOMAIN rooms
      /\ \A r \in DOMAIN rooms :
           /\ rooms'[r].b = rooms[r].b /\ rooms'[r].a_sockfd = rooms[r].a_sockfd
           /\ rooms'[r].skc1 = rooms[r].skc1 /\ rooms'[r].skc2 = rooms[r].skc2
           /\ r # m.room => rooms'[r] = rooms[r]
           /\ r = m.room => rooms'[r].yes = m.yes
  <2>1. \A r \in DOMAIN rooms : rooms[r] \in WarRoom
    BY RoomFacts
  <2> QED BY <1>3, <2>1 DEF WarRoom
<1>9. \A r \in DOMAIN rooms : r \in Players
  BY DEF TypeOK, TypeServer
<1>10. ASSUME NEW q \in Players, q # p PROVE Agreed(q)' <=> Agreed(q)
  <2>1. \A r \in DOMAIN rooms : r # q => rooms'[r] = rooms[r]
    BY <1>2, <1>8, <1>9, <1>10 DEF TwoPlayers
  <2> QED BY <1>8, <2>1 DEF Agreed
<1>11. Agreed(p)' => m.yes
  <2> SUFFICES ASSUME Agreed(p)', ~m.yes PROVE FALSE
    OBVIOUS
  <2>1. PICK r \in DOMAIN rooms : r # p /\ rooms'[r].yes /\ rooms'[r].sem > 0
    BY <1>8 DEF Agreed
  <2>2. rooms'[r] = rooms[r]
    BY <1>8, <2>1
  <2> QED BY <1>6, <2>1, <2>2 DEF Agreed
<1>12. \A q : /\ (q \in Online)' <=> q \in Online
              /\ SignedIn(q)' <=> SignedIn(q)
              /\ Calling(q)' <=> Calling(q)
              /\ \A pcs : In(q, pcs)' <=> In(q, pcs)
              /\ Hosting(q)' <=> Hosting(q)
              /\ Played(q)' <=> Played(q)
              /\ (Direct(q) => Direct(q)') /\ (misled[q] => misled'[q])
  BY <1>1, <1>8 DEF SignedIn, Online, Calling, In, Hosting, Played, Direct
<1>21. \A q : Deaf(q) => Deaf(q)'
  BY <1>1, <1>8 DEF Deaf
<1>13. \A q : Noted(q)' <=> Noted(q)
  BY <1>1, <1>8 DEF Noted, SkcOf, Online
<1>14. \A q \in Players \ {p} : SamePlayer(q) /\ SameFlags(q)
  BY <1>4, <1>10, <1>12, <1>13, <1>21 DEF Taken, SameFlags
<1>15. ~Calling(p)' /\ ~Fighting(p)' /\ ~In(p, {"turn", "results"})'
  BY <1>6, <1>12 DEF Fighting, In
<1>16. /\ up'[p] = Tail(up[p])
       /\ HasYes(up'[p]) => HasYes(up[p]) /\ ~m.yes
       /\ \A T : Has(up'[p], T) => Has(up[p], T)
       /\ Orderly(up'[p])
       /\ m.yes => Len(up'[p]) <= 1 /\ \A T : Has(up'[p], T) => "pick" \in T
       /\ LastIs(up'[p], "pick") => LastIs(up[p], "pick")
  <2>1. up'[p] = Tail(up[p])
    BY <1>4 DEF Taken
  <2>2. Orderly(up[p])
    BY <1>5 DEF UpOK
  <2>3. m.yes => /\ Len(Tail(up[p])) <= 1 /\ ~HasYes(Tail(up[p]))
                 /\ \A T : Has(Tail(up[p]), T) => "pick" \in T
    BY <1>1, <1>5, <2>2, YesTail DEF m
  <2>4. /\ \A T : Has(Tail(up[p]), T) => Has(up[p], T)
        /\ HasYes(Tail(up[p])) => HasYes(up[p])
        /\ Orderly(Tail(up[p]))
        /\ \A t : LastIs(Tail(up[p]), t) => LastIs(up[p], t)
    <3>1. up[p] # <<>> /\ up[p] \in Seq(UpFrom(p))
      BY <1>1, <1>5
    <3> QED BY <2>2, <3>1, TailKeeps
  <2> QED BY <2>1, <2>3, <2>4
<1>17. UpOK(p)'
  <2>1. Has(up'[p], {"request", "signout"}) => SignedIn(p)'
    BY <1>5, <1>12, <1>16 DEF UpOK
  <2>2. HasYes(up[p]) => p \in Online'
    BY <1>5, <1>12 DEF UpOK
  <2>3. Agreed(p)' => p \in Online' /\ Len(up'[p]) <= 1
                      /\ ~Has(up'[p], {"answer", "list", "request", "signout"})
    BY <1>7, <1>11, <1>16, <2>2
  <2>4. HasYes(up'[p]) => p \in Online' /\ ~Agreed(p)'
    BY <1>11, <1>16, <2>2
  <2> QED BY <1>15, <1>16, <2>1, <2>3, <2>4 DEF UpOK
<1>18. Client(p)'
  <2>1. CASE Ended(p)
    BY <1>1, <1>4, <2>1, GoneTaken
  <2>2. CASE ~Ended(p) /\ loop[p] # "war"
    <3>1. ~Bound(p) => ~Bound(p)'
      BY <1>7, <1>11, <1>15, <1>16 DEF Bound
    <3> QED BY <1>1, <1>4, <1>12, <1>15, <2>2, <3>1, TakenOutside DEF m
  <2>3. CASE loop[p] = "war"
    <3>1. AtWar(p)
      BY <1>5, <2>3 DEF Client
    <3>2. /\ loop'[p] = "war" /\ wait'[p] = wait[p] /\ gstate'[p] = gstate[p]
          /\ down'[p] = down[p]
          /\ NoPost(p)' <=> NoPost(p)
          /\ \A g : Will(p, g)' <=> Will(p, g)
      BY <1>4, <2>3, SamePosts DEF Taken, SameMind
    <3>3. ~Has(up'[p], Commands) /\ SignedIn(p)'
      BY <1>12, <1>16, <3>1 DEF AtWar
    <3>4. ~HasYes(up[p]) => ~HasYes(up'[p]) /\ ~Agreed(p)'
      BY <1>7, <1>11, <1>16
    <3>5. HasYes(up[p]) => NoPost(p) /\ (LastIs(up[p], "pick") => wait[p] = "pick")
      BY <3>1 DEF AtWar
    <3>6. AtWar(p)'
      BY <1>15, <1>16, <3>1, <3>2, <3>3, <3>4, <3>5 DEF AtWar
    <3>7. Turns(p)'
      BY <1>15, BoundTurns, PTL
    <3> QED BY <3>2, <3>6, <3>7 DEF Client, Ended
  <2> QED BY <2>1, <2>2, <2>3
<1>19. Others'
  BY <1>1, <1>4, <1>8 DEF WarInv, Others, Taken
<1>20. Threads'
  <2>1. ASSUME NEW i \in DOMAIN wars, wars[i].pc \in {"turn", "results", "restore"}
        PROVE  ~Agreed(wars[i].room)' /\ (Over(wars[i]) => ~Agreed(wars[i].b)')
    <3>1. PICK a \in Players : a = wars[i].room
      BY WarFacts DEF Room
    <3>2. PICK b \in Players : b = wars[i].b
      BY <2>1 DEF WarInv, Threads
    <3>3. a # p /\ b # p
      BY <1>6, <2>1, <3>1, <3>2 DEF Fighting, In
    <3>4. ~Agreed(a) /\ (Over(wars[i]) => ~Agreed(b))
      BY <2>1, <3>1, <3>2 DEF WarInv, Threads
    <3>5. ~Agreed(a)' /\ (Over(wars[i]) => ~Agreed(b)')
      BY <1>10, <3>3, <3>4
    <3> QED BY <1>1, <3>1, <3>2, <3>5 DEF Agreed
  <2> QED BY <1>1, <2>1 DEF WarInv, Threads, Over, Online, Fighting, In
<1> QED BY <1>14, <1>17, <1>18, <1>19, <1>20, OneMoves DEF WarInv

LEMMA FaultsWar ==
  ASSUME WarInv, Faults
  PROVE  WarInv'
<1>1. UNCHANGED <<file, user_table, rooms, inserting, wars, up, down, gstate, loop, wait,
                  gsem, gadversary>> /\ UNCHANGED client
  BY DEF Faults, server, client
<1>2. (\A q : SameFlags(q)) /\ Threads'
  BY <1>1, SameAll, SameThreads DEF WarInv
<1>3. \A q \in Players : SamePlayer(q)
  BY <1>1 DEF SamePlayer
<1>4. Others'
  BY <1>1 DEF WarInv, Others
<1>5. Players2'
  BY <1>2, <1>3, Frame DEF WarInv, Players2
<1> QED BY <1>2, <1>4, <1>5 DEF WarInv

LEMMA PickWar ==
  ASSUME TypeOK, TwoPlayers, WarInv, NEW p \in Players, Pick(p)
  PROVE  WarInv'
<1> DEFINE r == user_table[p].room
<1>1. up[p] # <<>> /\ Head(up[p]).t = "pick"
  BY DEF Pick, NextIs
<1>2. CASE ~HasRoom(p)
  BY <1>2, FaultsWar DEF Pick
<1>3. CASE HasRoom(p)
  <2>1. /\ p \in Online /\ r \in DOMAIN rooms
        /\ rooms' = Picked(p, r, Head(up[p]).skc)
        /\ up' = [up EXCEPT ![p] = Tail(@)]
        /\ UNCHANGED <<user_table, inserting, wars>>
        /\ UNCHANGED <<down, gstate, loop, wait, gsem, gadversary>>
        /\ UNCHANGED <<conn, misled>>
    BY <1>3 DEF Pick, HasRoom, client
  <2> HIDE DEF r
  <2>2. Taken(p)
    BY <1>1, <2>1, Taking
  <2>3. /\ DOMAIN rooms' = DOMAIN rooms
        /\ \A s \in DOMAIN rooms :
             /\ rooms'[s].b = rooms[s].b /\ rooms'[s].a_sockfd = rooms[s].a_sockfd
             /\ rooms'[s].yes = rooms[s].yes /\ rooms'[s].sem = rooms[s].sem
             /\ p # s => rooms'[s].skc1 = rooms[s].skc1
             /\ p = s \/ s # r => rooms'[s].skc2 = rooms[s].skc2
    <3>1. \A s \in DOMAIN rooms : rooms[s] \in WarRoom
      BY RoomFacts
    <3> QED BY <2>1, <3>1 DEF WarRoom, Picked
  <2>4. \A q : Agreed(q)' <=> Agreed(q)
    BY <2>3 DEF Agreed
  <2>5. ASSUME NEW q \in Players, q # p PROVE Noted(q)' <=> Noted(q)
    <3>1. ASSUME NEW s \in DOMAIN rooms
          PROVE  (SkcOf(s, q))' = SkcOf(s, q)
      <4>1. s \in Players
        BY RoomFacts
      <4>2. q = s => p # s
        BY <2>5
      <4>3. q # s => p = s
        BY <2>5, <4>1 DEF TwoPlayers
      <4> QED BY <2>3, <4>2, <4>3 DEF SkcOf
    <3> QED BY <2>1, <2>3, <3>1 DEF Noted, Online, SkcOf
  <2>6. \A q : /\ (q \in Online)' <=> q \in Online
               /\ SignedIn(q)' <=> SignedIn(q)
               /\ Calling(q)' <=> Calling(q)
               /\ \A pcs : In(q, pcs)' <=> In(q, pcs)
               /\ Hosting(q)' <=> Hosting(q)
               /\ Played(q)' <=> Played(q)
               /\ (Direct(q) => Direct(q)') /\ (Deaf(q) => Deaf(q)')
               /\ (misled[q] => misled'[q])
    <3>1. UNCHANGED <<user_table, wars, conn, loop, misled, inserting>>
      BY <2>1
    <3>2. \A q : (Direct(q) => Direct(q)') /\ (Deaf(q) => Deaf(q)')
      BY <2>3, <3>1 DEF Direct, Deaf
    <3> QED BY <3>1, <3>2 DEF SignedIn, Online, Calling, In, Hosting, Played
  <2>7. \A q \in Players \ {p} : SamePlayer(q) /\ SameFlags(q)
    BY <2>2, <2>4, <2>5, <2>6 DEF Taken, SameFlags
  <2>8. UpOK(p) /\ Client(p) /\ up[p] \in Seq(UpFrom(p))
    BY DEF WarInv, Players2, Others
  <2>9. /\ up'[p] = Tail(up[p])
        /\ HasYes(up'[p]) => HasYes(up[p])
        /\ \A T : Has(up'[p], T) => Has(up[p], T)
        /\ Orderly(up'[p])
        /\ LastIs(up'[p], "pick") => LastIs(up[p], "pick")
        /\ Len(up[p]) <= 1 => up'[p] = <<>>
    <3>1. up'[p] = Tail(up[p])
      BY <2>2 DEF Taken
    <3>2. Orderly(up[p])
      BY <2>8 DEF UpOK
    <3> QED BY <1>1, <2>8, <3>1, <3>2, TailKeeps, OneAndNoMore
  <2>10. Fighting(p)' <=> Fighting(p)
    BY <2>6 DEF Fighting
  <2>11. UpOK(p)'
    <3>1. Len(up[p]) <= 1 => Len(up'[p]) <= 1
      BY <2>9, EmptyIs
    <3> QED BY <2>4, <2>6, <2>8, <2>9, <2>10, <3>1 DEF UpOK
  <2>12. Client(p)'
    <3>1. CASE Ended(p)
      BY <1>1, <2>2, <3>1, GoneTaken
    <3>2. CASE ~Ended(p) /\ loop[p] # "war"
      <4>1. ~Bound(p) => ~Bound(p)'
        BY <2>4, <2>6, <2>9, <2>10 DEF Bound
      <4> QED BY <1>1, <2>2, <2>6, <2>10, <3>2, <4>1, TakenOutside
    <3>3. CASE loop[p] = "war"
      <4>1. AtWar(p) /\ Turns(p)
        BY <2>8, <3>3 DEF Client, AtWar, Ended
      <4>2. /\ loop'[p] = "war" /\ wait'[p] = wait[p] /\ gstate'[p] = gstate[p]
            /\ down'[p] = down[p]
            /\ NoPost(p)' <=> NoPost(p)
            /\ \A g : Will(p, g)' <=> Will(p, g)
        BY <2>2, <3>3, SamePosts DEF Taken, SameMind
      <4>3. ~Has(up'[p], Commands) /\ SignedIn(p)'
        BY <2>6, <2>9, <4>1 DEF AtWar
      <4>4. AtWar(p)'
        BY <2>4, <2>6, <2>9, <2>10, <4>1, <4>2, <4>3 DEF AtWar
      <4>5. Fighting(p) => up'[p] = <<>>
        BY <2>8, <2>9 DEF UpOK
      <4>6. /\ In(p, {"turn"})' => In(p, {"turn"}) /\ Fighting(p)
            /\ In(p, {"results"})' => In(p, {"results"}) /\ Fighting(p)
            /\ In(p, {"restore"})' => Fighting(p)
        BY <2>6 DEF Fighting, In
      <4>7. Turns(p)'
        BY <1>1, <2>6, <3>3, <4>1, <4>2, <4>5, <4>6 DEF Turns
      <4> QED BY <4>2, <4>4, <4>7 DEF Client, Ended
    <3> QED BY <3>1, <3>2, <3>3
  <2>13. Others'
    <3>1. inserting' = inserting
      BY <2>1
    <3> QED BY <2>2, <2>3, <3>1 DEF WarInv, Others, Taken
  <2>14. Threads'
    <3>1. UNCHANGED <<user_table, wars>>
      BY <2>1
    <3>2. \A i \in DOMAIN wars : /\ Agreed(wars[i].room)' <=> Agreed(wars[i].room)
                                 /\ Agreed(wars[i].b)' <=> Agreed(wars[i].b)
      BY <2>4, <3>1
    <3> QED BY <3>1, <3>2 DEF WarInv, Threads, Over, Online, Fighting, In
  <2> QED BY <2>7, <2>11, <2>12, <2>13, <2>14, OneMoves DEF WarInv
<1> QED BY <1>2, <1>3

LEMMA ServesWar ==
  ASSUME TypeOK, TwoPlayers, WarInv, NEW p \in Players, Serves(p)
  PROVE  WarInv'
BY SignUpWar, SignInWar, ListWar, WarRequestWar, InsertRoomWar, WarResponseWar, PickWar,
   SignOutWar, SignedOutWar, CloseConnWar DEF Serves

LEMMA TypesWar ==
  ASSUME TypeOK, TwoPlayers, WarInv, Sockets, NEW p \in Players, Types(p)
  PROVE  WarInv'
<1>1. ASSUME TypeSignUp(p) PROVE WarInv'
  <2> DEFINE m == [t |-> "signup"]
  <2>1. m \in UpFrom(p) /\ m.t \in {"signup", "signin"}
    BY DEF UpFrom, UpMsg
  <2>2. Typing(p, "welcome") /\ Sends(p, m, "call") /\ UNCHANGED <<gstate, loop>>
    BY <1>1 DEF TypeSignUp
  <2> HIDE DEF m
  <2> QED BY <2>1, <2>2, TypeWelcomeWar
<1>2. ASSUME NEW right \in BOOLEAN, TypeSignIn(p, right) PROVE WarInv'
  <2> DEFINE m == [t |-> "signin", right |-> right]
  <2>1. m \in UpFrom(p) /\ m.t \in {"signup", "signin"}
    BY DEF UpFrom, UpMsg
  <2>2. Typing(p, "welcome") /\ Sends(p, m, "call") /\ UNCHANGED <<gstate, loop>>
    BY <1>2 DEF TypeSignIn
  <2> HIDE DEF m
  <2> QED BY <2>1, <2>2, TypeWelcomeWar
<1>3. ASSUME TypeList(p) PROVE WarInv'
  <2> DEFINE m == [t |-> "list"]
  <2>1. m \in UpFrom(p) /\ m.t \in {"list", "signout"}
    BY DEF UpFrom, UpMsg
  <2>2. Typing(p, "online") /\ Sends(p, m, "call") /\ UNCHANGED <<gstate, loop>>
    BY <1>3 DEF TypeList
  <2> HIDE DEF m
  <2> QED BY <2>1, <2>2, TypeOnlineWar
<1>4. ASSUME TypeSignOut(p) PROVE WarInv'
  <2> DEFINE m == [t |-> "signout"]
  <2>1. m \in UpFrom(p) /\ m.t \in {"list", "signout"}
    BY DEF UpFrom, UpMsg
  <2>2. Typing(p, "online") /\ Sends(p, m, "call") /\ UNCHANGED <<gstate, loop>>
    BY <1>4 DEF TypeSignOut
  <2> HIDE DEF m
  <2> QED BY <2>1, <2>2, TypeOnlineWar
<1>5. ASSUME NEW b \in Asks[p], TypeRequest(p, b) PROVE WarInv'
  <2> DEFINE m == [t |-> "request", to |-> b]
  <2>1. b \in Players /\ b # p
    BY GameOK DEF TwoPlayers
  <2>2. m \in UpFrom(p) /\ m.t = "request"
    BY <2>1 DEF UpFrom, UpMsg
  <2>3. Typing(p, "online") /\ Sends(p, m, "request") /\ UNCHANGED <<gstate, loop>>
    BY <1>5 DEF TypeRequest
  <2> HIDE DEF m
  <2> QED BY <2>2, <2>3, TypeOnlineWar
<1> QED BY <1>1, <1>2, <1>3, <1>4, <1>5, TypeAnswerWar, TypePickWar, LeaveWar, ReturnWar
    DEF Types

-----------------------------------------------------------------------------
(* A war thread sends m to q on a connection of his that may be gone. *)
Told(q, s, m) ==
  /\ up'[q] = up[q] /\ loop'[q] = loop[q] /\ wait'[q] = wait[q]
  /\ gstate'[q] = gstate[q] /\ gsem'[q] = gsem[q]
  /\ down'[q] = IF Reaches(q, s) THEN Append(down[q], m) ELSE down[q]

LEMMA DeliverIs ==
  ASSUME NEW d, d \in [Players -> Seq(DownMsg)], NEW q \in Players, NEW s, NEW m
  PROVE  /\ Deliver(d, q, s, m)[q] = IF Reaches(q, s) THEN Append(d[q], m) ELSE d[q]
         /\ \A r \in Players \ {q} : Deliver(d, q, s, m)[r] = d[r]
BY DEF Deliver

LEMMA QuietHears ==
  ASSUME NEW q, down[q] \in Seq(DownTo(q)), NEW m \in DownTo(q), NEW s, Told(q, s, m),
         ~Posts(m), m.t # "in"
  PROVE  Quiet(q)
<1>1. PICK n \in Nat : n = Len(down[q])
  BY AppendIs
<1>2. PICK u : u = Append(down[q], m)
  OBVIOUS
<1>3. /\ DOMAIN down[q] = 1..n /\ DOMAIN u = 1..(n + 1)
      /\ \A k \in 1..n : u[k] = down[q][k]
      /\ u[n + 1] = m
  BY <1>1, <1>2, AppendIs
<1>4. \A k : k \in 1..(n + 1) <=> k \in 1..n \/ k = n + 1
  OBVIOUS
<1>5. Silent(u) <=> Silent(down[q])
  BY <1>3, <1>4 DEF Silent
<1>6. ASSUME NEW old, NEW new PROVE OnePost(u, old, new) <=> OnePost(down[q], old, new)
  <2>1. ASSUME OnePost(down[q], old, new) PROVE OnePost(u, old, new)
    BY <1>2, <2>1, PostsAppend
  <2>2. ASSUME OnePost(u, old, new) PROVE OnePost(down[q], old, new)
    <3>1. PICK k \in 1..(n + 1) : /\ Posts(u[k]) /\ StateAfter(u[k], old) = new
                                  /\ \A j \in 1..(n + 1) : j # k => ~Posts(u[j])
      BY <1>3, <2>2 DEF OnePost
    <3>2. k \in 1..n
      BY <1>3, <1>4, <3>1
    <3>3. \A j \in 1..n : j # k => ~Posts(down[q][j])
      BY <1>3, <1>4, <3>1
    <3>4. Posts(down[q][k]) /\ StateAfter(down[q][k], old) = new
      BY <1>3, <3>1, <3>2
    <3> QED BY <1>3, <3>2, <3>3, <3>4 DEF OnePost
  <2> QED BY <2>1, <2>2
<1>7. Has(u, {"in"}) <=> Has(down[q], {"in"})
  BY <1>2, HasAppend
<1>8. /\ Silent(down'[q]) <=> Silent(down[q])
      /\ \A old, new : OnePost(down'[q], old, new) <=> OnePost(down[q], old, new)
      /\ Has(down'[q], {"in"}) <=> Has(down[q], {"in"})
      /\ Ended(q) => down'[q] = down[q]
  BY <1>2, <1>5, <1>6, <1>7 DEF Told, Reaches
<1>9. /\ up'[q] = up[q] /\ loop'[q] = loop[q] /\ wait'[q] = wait[q]
      /\ gstate'[q] = gstate[q] /\ gsem'[q] = gsem[q]
  BY DEF Told
<1> QED BY <1>8, <1>9 DEF Quiet, NoPost, Will

LEMMA PostHears ==
  ASSUME NEW q, down[q] \in Seq(DownTo(q)), NEW m \in DownTo(q), NEW s, Told(q, s, m),
         Posts(m), Reaches(q, s), NoPost(q), m.t # "in"
  PROVE  /\ \A g : g = StateAfter(m, gstate[q]) => Will(q, g)'
         /\ ~Has(down'[q], {"in"})
<1>1. down'[q] = Append(down[q], m) /\ gsem'[q] = gsem[q] /\ gstate'[q] = gstate[q]
  BY DEF Told
<1>2. gsem[q] = 0 /\ Silent(down[q])
  BY DEF NoPost
<1>3. ASSUME NEW g, g = StateAfter(m, gstate[q]) PROVE Will(q, g)'
  <2>1. OnePost(Append(down[q], m), gstate[q], g)
    BY <1>2, <1>3, PostsAppend
  <2> QED BY <1>1, <1>2, <2>1 DEF Will
<1>4. ~Has(down[q], {"in"})
  BY <1>2 DEF Silent, Has, Posts
<1>5. ~Has(down'[q], {"in"})
  BY <1>1, <1>4, HasAppend
<1> QED BY <1>3, <1>5

(* What is sent to a player who is online, on a connection of his that a    *)
(* room or a thread has, arrives only if he signed in on it.               *)
LEMMA Arrives ==
  ASSUME TypeOK, Sockets, NEW q \in Players, q \in Online, NEW s \in Nat, s <= Latest(q),
         Reaches(q, s)
  PROVE  ~Ended(q) /\ SignedIn(q)
<1>1. user_table[q] \in User
  BY UserFacts
<1>2. user_table[q].connfd \in Nat /\ conn[q] \in Nat
  BY <1>1 DEF User, TypeOK, TypeClient
<1>3. user_table[q].connfd <= conn[q] /\ s <= user_table[q].connfd
  BY DEF Sockets, Latest
<1>4. ~Ended(q) /\ s = conn[q]
  BY DEF Reaches
<1>5. user_table[q].connfd = conn[q]
  BY <1>2, <1>3, <1>4
<1> QED BY <1>4, <1>5 DEF SignedIn, Ended

(* Else he hears nothing. *)
LEMMA Outsider ==
  ASSUME NEW q, q \in Online, Client(q), Ended(q) \/ ~SignedIn(q), SamePlayer(q),
         SignedIn(q)' <=> SignedIn(q)
  PROVE  Client(q)'
<1>1. /\ up'[q] = up[q] /\ loop'[q] = loop[q] /\ wait'[q] = wait[q]
      /\ gstate'[q] = gstate[q] /\ gsem'[q] = gsem[q] /\ down'[q] = down[q]
  BY DEF SamePlayer
<1>2. CASE Ended(q)
  BY <1>1, <1>2 DEF Client, Ended
<1>3. CASE ~Ended(q)
  <2>1. q \in Online /\ ~SignedIn(q)
    BY <1>3
  <2>2. loop[q] \notin {"online", "war"}
    BY <2>1 DEF Client, OnLine, AtWar, Stuck
  <2>3. SameMind(q)
    BY <1>1 DEF SameMind
  <2>4. /\ NoPost(q)' <=> NoPost(q)
        /\ \A g : Will(q, g)' <=> Will(q, g)
    BY <2>3, SamePosts
  <2>5. ~SignedIn(q)'
    BY <2>1
  <2>6. loop[q] = "welcome" => Welcome(q)'
    BY <1>1, <2>1, <2>4, <2>5 DEF Client, Welcome
  <2> QED BY <1>1, <1>3, <2>2, <2>5, <2>6 DEF Client, Ended
<1> QED BY <1>2, <1>3

-----------------------------------------------------------------------------
(* The steps of a war thread. *)
LEMMA GoesIs ==
  ASSUME TypeOK, NEW i \in DOMAIN wars, NEW pc, Goes(i, pc)
  PROVE  /\ DOMAIN wars' = DOMAIN wars
         /\ \A j \in DOMAIN wars : j # i => wars'[j] = wars[j]
         /\ wars'[i].pc = pc /\ wars'[i].room = wars[i].room /\ wars'[i].b = wars[i].b
         /\ wars'[i].results = wars[i].results /\ wars'[i].socks = wars[i].socks
<1>1. wars[i] \in WarThread
  BY WarFacts
<1> QED BY <1>1 DEF Goes, WarThread

LEMMA AskWar ==
  ASSUME TypeOK, WarInv, NEW i \in DOMAIN wars, Ask(i)
  PROVE  WarInv'
<1> DEFINE a == Room(i)
           b == rooms[a].b
           s == rooms[a].b_sockfd
           m == [t |-> "ask", from |-> a]
<1>1. /\ wars[i].pc = "ask" /\ a \in DOMAIN rooms /\ down' = Deliver(down, b, s, m)
      /\ Goes(i, "wait")
      /\ UNCHANGED <<user_table, rooms, inserting, up, gstate, loop, wait, gsem, gadversary>>
      /\ UNCHANGED <<conn, misled>>
  BY DEF Ask, WarAt, client
<1>2. a \in Players /\ b \in Players /\ b # a
  BY <1>1, WarFacts, RoomFacts DEF WarRoom, WarInv, Others
<1>3. m \in DownTo(b) /\ ~Posts(m) /\ m.t # "in"
  BY <1>2 DEF DownTo, DownMsg, Posts, Ends
<1> HIDE DEF a, b, s, m
<1>4. /\ DOMAIN wars' = DOMAIN wars
      /\ \A j \in DOMAIN wars : j # i => wars'[j] = wars[j]
      /\ wars'[i].pc = "wait" /\ wars'[i].room = wars[i].room /\ wars'[i].b = wars[i].b
  BY <1>1, GoesIs
<1>5. \A q : SameFlags(q)
  <2>1. ASSUME NEW q PROVE Calling(q)' <=> Calling(q)
    BY <1>1, <1>4 DEF Calling
  <2>2. ASSUME NEW q, NEW pcs \in SUBSET {"turn", "results", "restore"}
        PROVE  In(q, pcs)' <=> In(q, pcs)
    BY <1>1, <1>4 DEF In
  <2>3. ASSUME NEW q PROVE (Hosting(q)' <=> Hosting(q)) /\ (Played(q)' <=> Played(q))
    BY <1>1, <1>4 DEF Hosting, Played, ResultOf
  <2>4. ASSUME NEW q
        PROVE  /\ (q \in Online)' <=> q \in Online
               /\ SignedIn(q)' <=> SignedIn(q)
               /\ Noted(q)' <=> Noted(q)
               /\ Agreed(q)' <=> Agreed(q)
               /\ (Direct(q) => Direct(q)') /\ (misled[q] => misled'[q])
    BY <1>1 DEF Online, SignedIn, Noted, SkcOf, Agreed, Direct
  <2>5. ASSUME NEW q PROVE Deaf(q) => Deaf(q)'
    BY <1>1, <1>4 DEF Deaf
  <2> QED BY <2>1, <2>2, <2>3, <2>4, <2>5 DEF SameFlags
<1>6. /\ Told(b, s, m)
      /\ \A q \in Players \ {b} : SamePlayer(q)
      /\ down[b] \in Seq(DownTo(b))
  <2>1. /\ Deliver(down, b, s, m)[b] =
             IF Reaches(b, s) THEN Append(down[b], m) ELSE down[b]
        /\ \A q \in Players \ {b} : Deliver(down, b, s, m)[q] = down[q]
    <3>1. down \in [Players -> Seq(DownMsg)]
      BY DEF TypeOK, TypeConn
    <3> QED BY <1>2, <3>1, DeliverIs
  <2> QED BY <1>1, <1>2, <2>1 DEF Told, SamePlayer, WarInv, Others
<1>7. Quiet(b)
  BY <1>3, <1>6, QuietHears
<1>8. ASSUME NEW q \in Players PROVE UpOK(q)' /\ Client(q)'
  BY <1>5, <1>6, <1>7, QuietFrame, Frame DEF WarInv, Players2
<1>9. Others'
  <2>1. Append(down[b], m) \in Seq(DownTo(b))
    BY <1>3, <1>6, AppendIs
  <2>2. \A q \in Players : down'[q] \in Seq(DownTo(q))
    BY <1>6, <2>1 DEF Told, SamePlayer, WarInv, Others
  <2> QED BY <1>1, <2>2 DEF WarInv, Others
<1>10. Threads'
  <2>1. \A j \in DOMAIN wars :
          /\ wars'[j].room = wars[j].room /\ wars'[j].b = wars[j].b
          /\ wars'[j].pc = wars[j].pc \/ (j = i /\ wars'[j].pc = "wait")
          /\ j # i => wars'[j].results = wars[j].results
    BY <1>4
  <2>2. \A k, j \in DOMAIN wars' :
          wars'[k].pc # "exit" /\ wars'[j].pc # "exit" /\ k # j =>
            wars'[k].room # wars'[j].room /\ wars'[k].pc \in {"ask", "wait"}
    BY <1>1, <1>4, <2>1 DEF WarInv, Threads
  <2>3. ASSUME NEW j \in DOMAIN wars', wars'[j].pc \in {"turn", "results", "restore"}
        PROVE  j \in DOMAIN wars /\ wars'[j] = wars[j]
    BY <1>4, <2>3
  <2>4. \A q : (Agreed(q)' <=> Agreed(q)) /\ (Fighting(q)' <=> Fighting(q))
    BY <1>5, SameBound
  <2>5. \A q \in Online' : user_table'[q].state = "WAR" => Fighting(q)'
    <3>1. \A q \in Online' : q \in Online /\ user_table'[q] = user_table[q]
      BY <1>1 DEF Online
    <3> QED BY <2>4, <3>1 DEF WarInv, Threads
  <2> QED BY <1>1, <2>2, <2>3, <2>5 DEF WarInv, Threads, Over, Agreed, Online
<1> QED BY <1>8, <1>9, <1>10 DEF WarInv, Players2

(* The thread of one whose request waits is the only one of his, and none of *)
(* a fight.                                                                  *)
LEMMA CallersThread ==
  ASSUME TypeOK, WarInv, NEW i \in DOMAIN wars, wars[i].pc \in {"ask", "wait"}
  PROVE  /\ Calling(Room(i)) /\ Room(i) \in Players
         /\ \A j \in DOMAIN wars : j # i => wars[j].pc = "exit" \/ Room(j) # Room(i)
         /\ \A j \in DOMAIN wars : wars[j].pc \notin {"turn", "results", "restore"}
         /\ \A q : ~Fighting(q) /\ ~Hosting(q) /\ ~Played(q) /\ \A pcs \in SUBSET
                {"turn", "results", "restore"} : ~In(q, pcs)
         /\ \A q \in Online : user_table[q].state # "WAR"
<1>1. Calling(Room(i)) /\ Room(i) \in Players
  BY WarFacts DEF Calling, Room
<1>2. \A j \in DOMAIN wars : j # i => wars[j].pc = "exit" \/ Room(j) # Room(i)
  BY DEF WarInv, Threads, Room
<1>3. \A j \in DOMAIN wars : wars[j].pc \notin {"turn", "results", "restore"}
  BY DEF WarInv, Threads
<1>4. \A q : ~Fighting(q) /\ ~Hosting(q) /\ ~Played(q) /\ \A pcs \in SUBSET
        {"turn", "results", "restore"} : ~In(q, pcs)
  <2>1. ASSUME NEW q, NEW pcs \in SUBSET {"turn", "results", "restore"}
        PROVE  ~In(q, pcs)
    BY <1>3 DEF In
  <2>2. ASSUME NEW q PROVE ~Hosting(q) /\ ~Played(q) /\ ~Fighting(q)
    BY <1>3 DEF Hosting, Played, Fighting, In
  <2> QED BY <2>1, <2>2
<1>5. \A q \in Online : user_table[q].state # "WAR"
  BY <1>4 DEF WarInv, Threads
<1> QED BY <1>1, <1>2, <1>3, <1>4, <1>5

(* And he waits for the answer at the prompt of online(). *)
LEMMA CallerWaits ==
  ASSUME TypeOK, WarInv, NEW a \in Players, Calling(a), ~Fighting(a), ~Hosting(a),
         ~Ended(a), SignedIn(a)
  PROVE  /\ loop[a] = "online" /\ wait[a] = "request" /\ NoPost(a)
         /\ gstate[a] = "CLIENT_ONLINE" /\ up[a] = <<>> /\ ~Agreed(a)
         /\ Direct(a) \/ misled[a]
<1>1. Client(a) /\ UpOK(a)
  BY DEF WarInv, Players2
<1>2. a \in Online /\ ~Agreed(a)
  BY <1>1 DEF UpOK
<1>3. loop[a] # "war" /\ loop[a] # "welcome"
  BY <1>1, <1>2 DEF Client, AtWar, Welcome, Bound
<1>4. loop[a] = "online" => /\ wait[a] = "request" /\ NoPost(a)
                            /\ gstate[a] = "CLIENT_ONLINE" /\ up[a] = <<>>
                            /\ Direct(a) \/ misled[a]
  BY <1>1, <1>2 DEF Client, OnLine, Bound, Stuck
<1> QED BY <1>2, <1>3, <1>4 DEF Ended, TypeOK, TypeClient

LEMMA AnsweredNoWar ==
  ASSUME TypeOK, WarInv, Sockets, NEW i \in DOMAIN wars, wars[i].pc = "wait", Posted(i),
         ~rooms[Room(i)].yes, TellA(i, 2),
         rooms' = [rooms EXCEPT ![Room(i)].sem = @ - 1], Goes(i, "exit"),
         UNCHANGED <<file, user_table, inserting, up, client, fault>>
  PROVE  WarInv'
<1>0. PICK a \in Players : a = Room(i)
  BY CallersThread
<1> DEFINE m == [t |-> "answered", answer |-> 2, adversary |-> rooms[a].b]
           s == rooms[a].a_sockfd
<1>1. /\ Calling(a) /\ a \in Players /\ a \in DOMAIN rooms
      /\ \A j \in DOMAIN wars : j # i => wars[j].pc = "exit" \/ Room(j) # a
      /\ \A j \in DOMAIN wars : wars[j].pc \notin {"turn", "results", "restore"}
      /\ \A q : ~Fighting(q) /\ ~Hosting(q)
      /\ \A q \in Online : user_table[q].state # "WAR"
  BY <1>0, CallersThread DEF Posted
<1>2. m \in DownTo(a) /\ Posts(m) /\ m.t # "in" /\ \A z : StateAfter(m, z) = z
  <2>1. rooms[a].b \in Players /\ rooms[a].b # a
    BY <1>1, RoomFacts DEF WarRoom, WarInv, Others
  <2> QED BY <2>1 DEF DownTo, DownMsg, Posts, StateAfter, Ends
<1>3. down' = Deliver(down, a, s, m) /\ ~rooms[a].yes
  BY <1>0 DEF TellA
<1>s. a \in Online /\ s \in Nat /\ s <= Latest(a)
  BY <1>1, RoomFacts DEF WarRoom, Sockets, WarInv, Players2, UpOK
<1> HIDE DEF m
<1>4. /\ DOMAIN wars' = DOMAIN wars
      /\ \A j \in DOMAIN wars : j # i => wars'[j] = wars[j]
      /\ wars'[i].pc = "exit" /\ wars'[i].room = wars[i].room
  BY GoesIs
<1>5. /\ DOMAIN rooms' = DOMAIN rooms
      /\ \A r \in DOMAIN rooms :
           /\ rooms'[r].a_sockfd = rooms[r].a_sockfd
           /\ rooms'[r].b = rooms[r].b /\ rooms'[r].yes = rooms[r].yes
           /\ rooms'[r].skc1 = rooms[r].skc1 /\ rooms'[r].skc2 = rooms[r].skc2
           /\ r # a => rooms'[r] = rooms[r]
  <2>1. \A r \in DOMAIN rooms : rooms[r] \in WarRoom
    BY RoomFacts
  <2> QED BY <1>0, <1>1, <2>1 DEF WarRoom
<1>6. UNCHANGED <<conn, misled, gstate, loop, wait, gsem, gadversary>>
  BY DEF client
<1>7. \A q : Agreed(q)' <=> Agreed(q)
  BY <1>3, <1>5 DEF Agreed
<1>8. \A j \in DOMAIN wars' : wars'[j].pc \notin {"turn", "results", "restore"}
  BY <1>1, <1>4
<1>9. \A q : /\ (q \in Online)' <=> q \in Online
             /\ SignedIn(q)' <=> SignedIn(q)
             /\ Noted(q)' <=> Noted(q)
             /\ ~Fighting(q)' /\ ~Hosting(q)' /\ ~Played(q)' /\ ~Played(q)
             /\ \A pcs \in SUBSET {"turn", "results", "restore"} : ~In(q, pcs)' /\ ~In(q, pcs)
  <2>1. \A q : /\ (q \in Online)' <=> q \in Online
               /\ SignedIn(q)' <=> SignedIn(q)
               /\ Noted(q)' <=> Noted(q)
    BY <1>5, <1>6 DEF Online, SignedIn, Noted, SkcOf
  <2>2. ASSUME NEW q, NEW pcs \in SUBSET {"turn", "results", "restore"}
        PROVE  ~In(q, pcs)' /\ ~In(q, pcs)
    BY <1>1, <1>8 DEF In
  <2>3. ASSUME NEW q PROVE ~Fighting(q)' /\ ~Hosting(q)' /\ ~Played(q)' /\ ~Played(q)
    BY <1>1, <1>8 DEF Fighting, In, Hosting, Played
  <2> QED BY <2>1, <2>2, <2>3
<1>18. \A q : (Direct(q) => Direct(q)') /\ Deaf(q)' /\ (misled[q] => misled'[q])
  BY <1>5, <1>6, <1>8 DEF Direct, Deaf
<1>10. ~Calling(a)' /\ \A q \in Players \ {a} : Calling(q)' <=> Calling(q)
  BY <1>0, <1>1, <1>4 DEF Calling, Room
<1>11. /\ Told(a, s, m) /\ down[a] \in Seq(DownTo(a))
       /\ \A q \in Players \ {a} : SamePlayer(q)
  <2>1. /\ Deliver(down, a, s, m)[a] =
             IF Reaches(a, s) THEN Append(down[a], m) ELSE down[a]
        /\ \A q \in Players \ {a} : Deliver(down, a, s, m)[q] = down[q]
    <3>1. down \in [Players -> Seq(DownMsg)]
      BY DEF TypeOK, TypeConn
    <3> QED BY <3>1, DeliverIs
  <2> QED BY <1>1, <1>3, <1>6, <2>1 DEF Told, SamePlayer, WarInv, Others
<1>12. \A q \in Players \ {a} : SamePlayer(q) /\ SameFlags(q)
  BY <1>1, <1>7, <1>9, <1>10, <1>11, <1>18 DEF SameFlags
<1>13. UpOK(a) /\ Client(a)
  BY <1>1 DEF WarInv, Players2
<1>14. UpOK(a)'
  <2>1. up'[a] = up[a] /\ ~Agreed(a)
    BY <1>1, <1>13 DEF UpOK
  <2>2. ~Has(up[a], {"answer", "pick", "list", "request", "signout"}) /\ a \in Online
    BY <1>1, <1>13 DEF UpOK
  <2> QED BY <1>7, <1>9, <1>10, <1>13, <2>1, <2>2 DEF UpOK
<1>15. Client(a)'
  <2>1. CASE Ended(a) \/ ~SignedIn(a)
    <3>1. ~Reaches(a, s)
      BY <1>s, <2>1, Arrives
    <3>2. SamePlayer(a)
      BY <1>11, <3>1 DEF Told, SamePlayer
    <3> QED BY <1>s, <1>9, <1>13, <2>1, <3>2, Outsider
  <2>2. CASE ~Ended(a) /\ SignedIn(a)
    <3>1. /\ loop[a] = "online" /\ wait[a] = "request" /\ NoPost(a)
          /\ gstate[a] = "CLIENT_ONLINE" /\ up[a] = <<>> /\ ~Agreed(a)
          /\ Direct(a) \/ misled[a]
      BY <1>1, <2>2, CallerWaits
    <3>3. /\ loop'[a] = "online" /\ wait'[a] = "request" /\ up'[a] = <<>> /\ SignedIn(a)'
      BY <1>9, <1>11, <2>2, <3>1 DEF Told
    <3>4. ~HasYes(up'[a]) /\ ~Has(up'[a], Commands)
      BY <3>3, EmptyHas
    <3>5. ~Bound(a)'
      BY <1>1, <1>7, <1>9, <1>10, <1>13, <3>4 DEF Bound, UpOK
    <3>2. Reaches(a, s) => Will(a, "CLIENT_ONLINE")'
      BY <1>2, <1>11, <3>1, PostHears
    <3>9. ~Reaches(a, s) => Stuck(a)'
      <4> SUFFICES ASSUME ~Reaches(a, s) PROVE Stuck(a)'
        OBVIOUS
      <4>1. misled[a]
        BY <1>1, <2>2, <3>1 DEF Reaches, Direct, s
      <4>2. NoPost(a)' /\ gstate'[a] = "CLIENT_ONLINE"
        BY <1>11, <3>1 DEF Told, NoPost
      <4> QED BY <1>7, <1>18, <3>1, <3>3, <4>1, <4>2 DEF Stuck
    <3>6. OnLine(a)'
      BY <3>2, <3>3, <3>4, <3>5, <3>9 DEF OnLine
    <3>8. ~Fighting(a)'
      BY <1>9
    <3>7. Turns(a)'
      BY <3>8 DEF Turns, Fighting, In
    <3> QED BY <3>3, <3>6, <3>7 DEF Client, Ended
  <2> QED BY <2>1, <2>2
<1>16. Others'
  <2>1. Append(down[a], m) \in Seq(DownTo(a))
    BY <1>2, <1>11, AppendIs
  <2>2. \A q \in Players : down'[q] \in Seq(DownTo(q))
    BY <1>11, <2>1 DEF Told, SamePlayer, WarInv, Others
  <2> QED BY <1>5, <1>6, <2>2 DEF WarInv, Others
<1>17. Threads'
  <2>1. \A k, j \in DOMAIN wars' :
          wars'[k].pc # "exit" /\ wars'[j].pc # "exit" /\ k # j =>
            wars'[k].room # wars'[j].room /\ wars'[k].pc \in {"ask", "wait"}
    BY <1>4 DEF WarInv, Threads
  <2>2. \A q \in Online' : user_table'[q].state # "WAR"
    BY <1>1 DEF Online
  <2> QED BY <1>8, <2>1, <2>2 DEF Threads
<1> QED BY <1>1, <1>12, <1>14, <1>15, <1>16, <1>17, OneMoves DEF WarInv

(* The packets of one whose request waits are a command at most. *)
LEMMA CallerSendsOne ==
  ASSUME TypeOK, WarInv, NEW a \in Players, Calling(a)
  PROVE  Len(up[a]) <= 1 /\ ~HasYes(up[a])
<1>1. Orderly(up[a]) /\ ~Has(up[a], {"answer", "pick", "list", "request", "signout"})
  BY DEF WarInv, Players2, UpOK
<1>2. PICK n \in Nat : n = Len(up[a])
  BY LenProperties DEF TypeOK, TypeConn
<1>3. DOMAIN up[a] = 1..n
  BY <1>2, LenProperties DEF TypeOK, TypeConn
<1>4. \A k \in DOMAIN up[a] : up[a][k].t \notin {"answer", "pick"}
  BY <1>1 DEF Has
<1>5. ~(1 < n)
  <2> SUFFICES ASSUME 1 < n PROVE FALSE
    OBVIOUS
  <2>1. 1 \in DOMAIN up[a]
    BY <1>3
  <2> QED BY <1>1, <1>2, <1>4, <2>1 DEF Orderly
<1> QED BY <1>2, <1>4, <1>5 DEF HasYes

LEMMA AnsweredYesWar ==
  ASSUME TypeOK, TwoPlayers, WarInv, Sockets, NEW i \in DOMAIN wars, Answered(i), rooms[Room(i)].yes
  PROVE  WarInv'
<1>a. PICK a, b : a = Room(i) /\ b = rooms[a].b
  OBVIOUS
<1> DEFINE m == [t |-> "answered", answer |-> 3, adversary |-> b]
           s == rooms[a].a_sockfd
<1>b. /\ wars[i].pc = "wait" /\ Posted(i) /\ rooms[a].yes /\ {a, b} \subseteq Online
      /\ TellA(i, 3)
      /\ UNCHANGED <<file, inserting, up, client, fault>>
  BY <1>a DEF Answered, WarAt
<1>c. user_table' = [p \in Online |-> IF p \notin {a, b} THEN user_table[p]
                       ELSE [user_table[p] EXCEPT !.state = "WAR", !.room = a]]
  BY <1>a DEF Answered
<1>d. rooms' = [rooms EXCEPT ![a].sem = @ - 1,
                             ![a].skc1 = NotRecved, ![a].skc2 = NotRecved]
  BY <1>a DEF Answered
<1>e. wars' = [wars EXCEPT ![i].pc = "turn", ![i].b = b, ![i].held = TRUE]
  BY <1>a DEF Answered
<1>1. /\ Calling(a) /\ a \in Players /\ a \in DOMAIN rooms
      /\ \A j \in DOMAIN wars : j # i => wars[j].pc = "exit" \/ wars[j].room # a
      /\ \A j \in DOMAIN wars : wars[j].pc \notin {"turn", "results", "restore"}
      /\ \A q : ~Fighting(q) /\ ~Hosting(q)
      /\ rooms[a].sem > 0
  BY <1>a, <1>b, CallersThread DEF Posted, Room
<1>2. b \in Players /\ b # a /\ \A q \in Players : q = a \/ q = b
  <2>1. b \in Players /\ b # a
    BY <1>a, <1>1, RoomFacts DEF WarRoom, WarInv, Others
  <2> QED BY <1>1, <2>1 DEF TwoPlayers
<1>3. /\ m \in DownTo(a) /\ Posts(m) /\ m.t # "in"
      /\ StateAfter(m, gstate[a]) = "CLIENT_WAR"
  BY <1>2 DEF DownTo, DownMsg, Posts, StateAfter, Ends
<1>4. down' = Deliver(down, a, s, m)
  BY <1>a, <1>b DEF TellA
<1>s. a \in Online /\ s \in Nat /\ s <= Latest(a)
  BY <1>b, <1>1, RoomFacts DEF WarRoom, Sockets
<1> HIDE DEF m, s
<1>5. Agreed(b) /\ UpOK(a) /\ UpOK(b) /\ Client(a) /\ Client(b)
  BY <1>b, <1>1, <1>2 DEF Agreed, WarInv, Players2
<1>6. ~Calling(b) /\ ~Agreed(a) /\ ~HasYes(up[b])
  BY <1>1, <1>5 DEF UpOK
<1>7. \A j \in DOMAIN wars : j # i => wars[j].pc = "exit"
  <2> SUFFICES ASSUME NEW j \in DOMAIN wars, j # i, wars[j].pc # "exit" PROVE FALSE
    OBVIOUS
  <2>1. wars[j].pc \in {"ask", "wait"} /\ wars[j].room = b
    BY <1>1, <1>2, WarFacts DEF WarThread
  <2> QED BY <1>6, <2>1 DEF Calling
<1>8. /\ DOMAIN wars' = DOMAIN wars
      /\ \A j \in DOMAIN wars : j # i => wars'[j] = wars[j]
      /\ wars'[i].pc = "turn" /\ wars'[i].room = a /\ wars'[i].b = b
  <2>1. wars[i] \in WarThread
    BY WarFacts
  <2> QED BY <1>a, <1>e, <2>1 DEF WarThread, Room
<1>9. \A j \in DOMAIN wars' : j # i => wars'[j].pc = "exit"
  BY <1>7, <1>8
<1>10. /\ DOMAIN rooms' = DOMAIN rooms
       /\ \A r \in DOMAIN rooms : /\ rooms'[r].b = rooms[r].b
                                  /\ rooms'[r].a_sockfd = rooms[r].a_sockfd
                                  /\ r # a => rooms'[r] = rooms[r]
       /\ rooms'[a].skc1 = NotRecved /\ rooms'[a].skc2 = NotRecved
  <2>1. \A r \in DOMAIN rooms : rooms[r] \in WarRoom
    BY RoomFacts
  <2> QED BY <1>1, <1>d, <2>1 DEF WarRoom
<1>11. /\ Online' = Online /\ a \in Online /\ b \in Online
       /\ \A q \in Online : user_table'[q].connfd = user_table[q].connfd
       /\ \A q \in {a, b} : user_table'[q].state = "WAR" /\ user_table'[q].room = a
  <2>1. \A q \in Online : user_table[q] \in User
    BY UserFacts
  <2> QED BY <1>b, <1>c, <2>1 DEF Online, User
<1>12. UNCHANGED <<conn, misled, gstate, loop, wait, gsem, gadversary>>
  BY <1>b DEF client
<1>13. \A q \in {a, b} : ~Calling(q)' /\ Fighting(q)' /\ (SignedIn(q)' <=> SignedIn(q))
  <2>1. \A q \in {a, b} : ~Calling(q)'
    BY <1>8, <1>9 DEF Calling
  <2>2. \A q \in {a, b} : Fighting(q)'
    BY <1>8 DEF Fighting, In
  <2> QED BY <1>11, <1>12, <2>1, <2>2 DEF SignedIn
<1>14. ~Agreed(a)' /\ ~Noted(a)' /\ ~Noted(b)' /\ Hosting(a)'
  <2>1. ~Agreed(a)'
    BY <1>6, <1>10 DEF Agreed
  <2>2. ~Noted(a)' /\ ~Noted(b)'
    BY <1>2, <1>10, <1>11 DEF Noted, SkcOf
  <2>3. Hosting(a)'
    BY <1>8 DEF Hosting
  <2> QED BY <2>1, <2>2, <2>3
<1>15. \A q : ~In(q, {"results"})' /\ ~In(q, {"restore"})' /\ ~In(q, {"results", "restore"})'
  BY <1>8, <1>9 DEF In
<1>16. /\ Told(a, s, m) /\ down[a] \in Seq(DownTo(a)) /\ SamePlayer(b)
  <2>1. down \in [Players -> Seq(DownMsg)]
    BY DEF TypeOK, TypeConn
  <2>2. /\ Deliver(down, a, s, m)[a] =
             IF Reaches(a, s) THEN Append(down[a], m) ELSE down[a]
        /\ \A q \in Players \ {a} : Deliver(down, a, s, m)[q] = down[q]
    BY <1>1, <2>1, DeliverIs
  <2> QED BY <1>b, <1>1, <1>2, <1>4, <1>12, <2>2 DEF Told, SamePlayer, WarInv, Others
<1>17. UpOK(a)'
  <2>1. up'[a] = up[a] /\ Len(up[a]) <= 1 /\ ~HasYes(up[a])
    BY <1>b, <1>1, CallerSendsOne
  <2>2. ~Has(up[a], {"answer", "list", "request", "signout"}) /\ ~Has(up[a], {"request", "signout"})
    BY <1>1, <1>5 DEF UpOK, Has
  <2> QED BY <1>5, <1>11, <1>13, <2>1, <2>2 DEF UpOK
<1>18. UpOK(b)'
  <2>1. up'[b] = up[b]
    BY <1>b
  <2> QED BY <1>5, <1>6, <1>11, <1>13, <2>1 DEF UpOK
<1>19. Client(a)'
  <2>1. CASE Ended(a) \/ ~SignedIn(a)
    <3>1. ~Reaches(a, s)
      BY <1>s, <1>1, <2>1, Arrives
    <3>2. SamePlayer(a)
      BY <1>16, <3>1 DEF Told, SamePlayer
    <3> QED BY <1>s, <1>5, <1>13, <2>1, <3>2, Outsider
  <2>2. CASE ~Ended(a) /\ SignedIn(a)
    <3>1. /\ loop[a] = "online" /\ wait[a] = "request" /\ NoPost(a)
          /\ gstate[a] = "CLIENT_ONLINE" /\ up[a] = <<>> /\ ~Agreed(a)
          /\ Direct(a) \/ misled[a]
      BY <1>1, <2>2, CallerWaits
    <3>2. Reaches(a, s) => Will(a, "CLIENT_WAR")'
      BY <1>3, <1>16, <3>1, PostHears
    <3>3. /\ loop'[a] = "online" /\ wait'[a] = "request" /\ up'[a] = <<>> /\ SignedIn(a)'
      BY <1>13, <1>16, <2>2, <3>1 DEF Told
    <3>6. ~Reaches(a, s) => Stuck(a)'
      <4> SUFFICES ASSUME ~Reaches(a, s) PROVE Stuck(a)'
        OBVIOUS
      <4>1. misled'[a] /\ rooms'[a].a_sockfd # conn'[a]
        BY <1>1, <1>10, <1>12, <2>2, <3>1 DEF Reaches, Direct, s
      <4>2. NoPost(a)' /\ gstate'[a] = "CLIENT_ONLINE"
        BY <1>16, <3>1 DEF Told, NoPost
      <4>3. Deaf(a)'
        BY <1>1, <1>8, <1>9, <1>10, <4>1 DEF Deaf
      <4> QED BY <1>14, <3>3, <4>1, <4>2, <4>3 DEF Stuck
    <3>4. OnLine(a)'
      BY <1>14, <3>2, <3>3, <3>6 DEF OnLine
    <3>5. Turns(a)'
      BY <1>14, <1>15, <3>3 DEF Turns
    <3> QED BY <3>3, <3>4, <3>5 DEF Client, Ended
  <2> QED BY <2>1, <2>2
<1>20. Client(b)'
  <2>1. /\ up'[b] = up[b] /\ loop'[b] = loop[b] /\ wait'[b] = wait[b]
        /\ gstate'[b] = gstate[b] /\ gsem'[b] = gsem[b] /\ down'[b] = down[b]
        /\ NoPost(b)' <=> NoPost(b)
        /\ \A g : Will(b, g)' <=> Will(b, g)
    BY <1>16, SamePosts DEF SamePlayer, SameMind
  <2>2. ~SignedIn(b)' <=> ~SignedIn(b)
    BY <1>13
  <2>3. CASE Ended(b)
    BY <1>5, <2>1, <2>2, <2>3 DEF Client, Ended
  <2>4. CASE loop[b] = "welcome"
    <3>1. ~SignedIn(b)
      BY <1>5, <2>4 DEF Client, Welcome, Bound
    <3>2. Welcome(b)'
      BY <1>5, <2>1, <2>2, <2>4, <3>1 DEF Client, Welcome
    <3> QED BY <2>1, <2>2, <2>4, <3>1, <3>2 DEF Client, Ended
  <2>5. CASE loop[b] = "online"
    BY <1>1, <1>5, <1>6, <1>11, <2>5 DEF Client, OnLine, Stuck, Bound
  <2>6. CASE loop[b] = "war"
    <3>1. AtWar(b)
      BY <1>5, <2>6 DEF Client
    <3>2. NoPost(b) /\ (LastIs(up[b], "pick") => wait[b] = "pick")
      BY <1>1, <1>5, <3>1 DEF AtWar
    <3>3. gstate[b] = "CLIENT_WAR"
      BY <3>1, <3>2, OneOrNone DEF AtWar
    <3>4. AtWar(b)'
      BY <1>6, <1>13, <2>1, <3>1, <3>2, <3>3 DEF AtWar
    <3>5. up[b] # <<>> => LastIs(up[b], "pick")
      <4> SUFFICES ASSUME up[b] # <<>> PROVE up[b][Len(up[b])].t = "pick"
        BY DEF LastIs
      <4>1. PICK n \in Nat : n = Len(up[b]) /\ n # 0 /\ DOMAIN up[b] = 1..n
        BY <1>2, LenProperties, EmptySeq DEF TypeOK, TypeConn
      <4>2. n \in DOMAIN up[b] /\ up[b][n] \in UpMsg
        BY <1>2, <4>1, ElementOfSeq DEF TypeOK, TypeConn
      <4>3. up[b][n].t \notin Commands \cup {"answer"}
        BY <1>5, <3>1, <4>2 DEF UpOK, AtWar, Has
      <4> QED BY <4>1, <4>2, <4>3 DEF UpMsg, Commands
    <3>6. Turns(b)'
      BY <1>14, <1>15, <2>1, <3>2, <3>5 DEF Turns
    <3> QED BY <2>1, <2>6, <3>4, <3>6 DEF Client, Ended
  <2> QED BY <2>3, <2>4, <2>5, <2>6, <1>2 DEF Ended, TypeOK, TypeClient
<1>21. Others'
  <2>1. Append(down[a], m) \in Seq(DownTo(a))
    BY <1>3, <1>16, AppendIs
  <2>2. \A q \in Players : down'[q] \in Seq(DownTo(q))
    BY <1>2, <1>16, <2>1 DEF Told, SamePlayer, WarInv, Others
  <2> QED BY <1>b, <1>10, <1>12, <2>2 DEF WarInv, Others
<1>22. Threads'
  <2>1. \A k, j \in DOMAIN wars' : wars'[k].pc # "exit" /\ wars'[j].pc # "exit" => k = j
    BY <1>9
  <2>2. \A j \in DOMAIN wars' : wars'[j].pc \in {"turn", "results", "restore"} => j = i
    BY <1>9
  <2>3. wars'[i].pc = "turn" /\ wars'[i].room = a /\ wars'[i].b = b
    BY <1>8
  <2>4. \A q \in Online' : Fighting(q)'
    BY <1>2, <1>11, <1>13 DEF TypeOK, TypeServer
  <2>5. \A r \in DOMAIN rooms' : ~(r # a /\ rooms'[r].yes /\ rooms'[r].sem > 0)
    BY <1>14 DEF Agreed
  <2> QED BY <1>2, <1>11, <2>1, <2>2, <2>3, <2>4, <2>5 DEF Threads, Over, Agreed
<1> QED BY <1>2, <1>17, <1>18, <1>19, <1>20, <1>21, <1>22 DEF WarInv, Players2

LEMMA AnsweredWar ==
  ASSUME TypeOK, TwoPlayers, WarInv, Sockets, NEW i \in DOMAIN wars, Answered(i)
  PROVE  WarInv'
<1>1. CASE rooms[Room(i)].yes
  BY <1>1, AnsweredYesWar
<1>2. CASE ~rooms[Room(i)].yes
  <2>1. /\ wars[i].pc = "wait" /\ Posted(i) /\ TellA(i, 2)
        /\ rooms' = [rooms EXCEPT ![Room(i)].sem = @ - 1] /\ Goes(i, "exit")
        /\ UNCHANGED <<file, user_table, inserting, up, client, fault>>
    BY <1>2 DEF Answered, WarAt
  <2> QED BY <1>2, <2>1, AnsweredNoWar
<1> QED BY <1>1, <1>2

(* In a fight both players are bound to its thread, the only one. *)
LEMMA Fight ==
  ASSUME TypeOK, TwoPlayers, WarInv, NEW i \in DOMAIN wars,
         wars[i].pc \in {"turn", "results", "restore"}
  PROVE  /\ Room(i) \in Players /\ wars[i].b \in Players /\ wars[i].b # Room(i)
         /\ \A q \in Players : q = Room(i) \/ q = wars[i].b
         /\ \A j \in DOMAIN wars : j # i => wars[j].pc = "exit"
         /\ ~Agreed(Room(i)) /\ (Over(wars[i]) => ~Agreed(wars[i].b))
         /\ \A q \in Players :
              /\ Fighting(q) /\ q \in Online /\ ~Calling(q)
              /\ UpOK(q) /\ Client(q) /\ ~HasYes(up[q])
              /\ \A pcs : wars[i].pc \in pcs => In(q, pcs)
              /\ \A pcs \in SUBSET {"turn", "results", "restore"} :
                   wars[i].pc \notin pcs => ~In(q, pcs)
<1>1. Room(i) \in Players /\ wars[i].b \in Players /\ wars[i].b # Room(i)
  BY WarFacts DEF WarInv, Threads, Room
<1>2. \A q \in Players : q = Room(i) \/ q = wars[i].b
  BY <1>1 DEF TwoPlayers
<1>3. \A j \in DOMAIN wars : j # i => wars[j].pc = "exit"
  BY DEF WarInv, Threads
<1>4. ~Agreed(Room(i)) /\ (Over(wars[i]) => ~Agreed(wars[i].b))
  BY DEF WarInv, Threads, Room
<1>5. ASSUME NEW q \in Players
      PROVE  /\ Fighting(q) /\ q \in Online /\ ~Calling(q)
             /\ UpOK(q) /\ Client(q) /\ ~HasYes(up[q])
             /\ \A pcs : wars[i].pc \in pcs => In(q, pcs)
             /\ \A pcs \in SUBSET {"turn", "results", "restore"} :
                  wars[i].pc \notin pcs => ~In(q, pcs)
  <2>1. \A pcs : wars[i].pc \in pcs => In(q, pcs)
    BY <1>2 DEF In, Room
  <2>2. Fighting(q) /\ UpOK(q) /\ Client(q)
    BY <2>1 DEF Fighting, WarInv, Players2
  <2>3. q \in Online /\ ~HasYes(up[q])
    BY <2>2 DEF UpOK
  <2>4. ~Calling(q)
    BY <1>3 DEF Calling
  <2>5. \A pcs \in SUBSET {"turn", "results", "restore"} :
          wars[i].pc \notin pcs => ~In(q, pcs)
    BY <1>3 DEF In
  <2> QED BY <2>1, <2>2, <2>3, <2>4, <2>5
<1> QED BY <1>1, <1>2, <1>3, <1>4, <1>5

(* After a step of its thread as well. *)
LEMMA FightNext ==
  ASSUME NEW i \in DOMAIN wars, DOMAIN wars' = DOMAIN wars, NEW a, NEW b,
         wars'[i].room = a, wars'[i].b = b,
         \A j \in DOMAIN wars : j # i => wars'[j].pc = "exit",
         NEW q \in {a, b}
  PROVE  /\ ~Calling(q)' \/ wars'[i].pc \in {"ask", "wait"}
         /\ \A pcs : wars'[i].pc \in pcs => In(q, pcs)'
         /\ \A pcs \in SUBSET {"turn", "results", "restore"} :
              wars'[i].pc \notin pcs => ~In(q, pcs)'
         /\ wars'[i].pc \in {"turn", "results", "restore"} => Fighting(q)'
<1>1. ~Calling(q)' \/ wars'[i].pc \in {"ask", "wait"}
  BY DEF Calling
<1>2. \A pcs : wars'[i].pc \in pcs => In(q, pcs)'
  BY DEF In
<1>3. \A pcs \in SUBSET {"turn", "results", "restore"} :
        wars'[i].pc \notin pcs => ~In(q, pcs)'
  BY DEF In
<1> QED BY <1>1, <1>2, <1>3 DEF Fighting

LEMMA FightThreads ==
  ASSUME TypeOK, NEW i \in DOMAIN wars, DOMAIN wars' = DOMAIN wars, NEW a, NEW b,
         wars'[i].room = a, wars'[i].b = b, wars'[i].pc \in {"turn", "results", "restore"},
         \A j \in DOMAIN wars : j # i => wars'[j].pc = "exit",
         b \in Players, b # a, \A q \in Players : q = a \/ q = b,
         ~Agreed(a)', Over(wars'[i]) => ~Agreed(b)', a \in Online, b \in Online,
         Online' = Online,
         wars'[i].pc # "restore" =>
           \A q \in {a, b} : user_table'[q].state = "WAR" /\ user_table'[q].room = a,
         wars'[i].pc = "results" =>
           LET f1 == wars'[i].results[1].final
               f2 == wars'[i].results[2].final
           IN  (f1 = 0 <=> f2 = 0) /\ (f1 \in {1, 2} <=> f2 \in {1, 2})
  PROVE  Threads'
<1>1. \A j \in DOMAIN wars' : wars'[j].pc # "exit" => j = i
  OBVIOUS
<1>2. \A q \in Online' : Fighting(q)'
  <2>1. \A q \in Online' : q = a \/ q = b
    BY DEF TypeOK, TypeServer
  <2> QED BY <2>1 DEF Fighting, In
<1>3. /\ \A r \in DOMAIN rooms' : ~(r # a /\ rooms'[r].yes /\ rooms'[r].sem > 0)
      /\ Over(wars'[i]) =>
           \A r \in DOMAIN rooms' : ~(r # b /\ rooms'[r].yes /\ rooms'[r].sem > 0)
  BY DEF Agreed
<1> QED BY <1>1, <1>2, <1>3 DEF Threads, Over, Agreed

LEMMA FinalsAgree ==
  ASSUME NEW x \in Int, NEW y \in Int
  PROVE  /\ Final(x, y) = 0 <=> Final(y, x) = 0
         /\ Final(x, y) \in {1, 2} <=> Final(y, x) \in {1, 2}
BY DEF Final

(* One who has heard all there was, in a turn, waits for its result, or for  *)
(* ever.                                                                     *)
LEMMA HeardInTurn ==
  ASSUME TypeOK, WarInv, NEW q \in Players, In(q, {"turn"}), Fighting(q), ~Calling(q),
         q \in Online, Heard(q), ~Ended(q), SignedIn(q)
  PROVE  \/ /\ loop[q] = "war" /\ AtWar(q) /\ Turns(q) /\ NoPost(q)
            /\ gstate[q] = "CLIENT_WAR"
         \/ loop[q] = "online" /\ Stuck(q) /\ Turns(q)
<1>1. Client(q) /\ Turns(q)
  BY DEF WarInv, Players2, Client
<1>2. ASSUME NEW g, Will(q, g) PROVE wait[q] = "no"
  <2>1. ~OnePost(down[q], gstate[q], g)
    BY EmptyIs DEF Heard, OnePost
  <2> QED BY <1>2, <2>1 DEF Will, Heard
<1>3. loop[q] # "welcome"
  BY <1>1 DEF Client, Welcome, Bound
<1>4. loop[q] = "online" => Stuck(q)
  BY <1>1, <1>2 DEF Client, OnLine, Bound
<1>5. loop[q] = "online" \/ (loop[q] = "war" /\ AtWar(q))
  BY <1>1, <1>3 DEF Client, Ended, TypeOK, TypeClient
<1>6. In(q, {"turn", "results"})
  BY DEF In
<1>7. AtWar(q) => NoPost(q) /\ gstate[q] = "CLIENT_WAR"
  BY <1>2, <1>6 DEF AtWar
<1> QED BY <1>1, <1>4, <1>5, <1>7

LEMMA StuckOnline ==
  ASSUME TypeOK, NEW q \in Players, Client(q), Stuck(q), ~Ended(q)
  PROVE  loop[q] = "online"
<1>1. loop[q] \notin {"welcome", "war"}
  BY DEF Client, Welcome, AtWar, Stuck
<1> QED BY <1>1 DEF Ended, TypeOK, TypeClient

LEMMA JudgeWar ==
  ASSUME TypeOK, TwoPlayers, WarInv, NEW i \in DOMAIN wars, Judge(i)
  PROVE  WarInv'
<1>1. PICK a, b, turn : a = Room(i) /\ b = wars[i].b /\ turn = Turn(i)
  OBVIOUS
<1>2. /\ wars[i].pc = "turn" /\ a \in DOMAIN rooms /\ Heard(a) /\ Heard(b)
      /\ user_table' = PaidBoth(turn)
      /\ UNCHANGED <<inserting, up, down, gstate, loop, wait, gsem, gadversary>>
      /\ UNCHANGED <<conn, misled>>
  BY <1>1 DEF Judge, WarAt, TurnOver, client
<1>3. /\ a \in Players /\ b \in Players /\ b # a
      /\ \A q \in Players : q = a \/ q = b
      /\ \A j \in DOMAIN wars : j # i => wars[j].pc = "exit"
      /\ ~Agreed(a)
  BY <1>1, <1>2, Fight
<1>4. \A q \in Players :
        /\ Fighting(q) /\ q \in Online /\ ~Calling(q)
        /\ UpOK(q) /\ Client(q) /\ ~HasYes(up[q]) /\ In(q, {"turn"})
  BY <1>1, <1>2, Fight
<1>5. \E s1, s2 \in 0..3, la, lb \in BOOLEAN, x, y \in Int :
        /\ s1 = rooms[a].skc1 /\ s2 = rooms[a].skc2
        /\ turn = [a |-> a, b |-> b, a_blood |-> x, b_blood |-> y,
                   a_result |-> [t |-> "turn", res |-> Res(s1, la, lb), final |-> Final(x, y)],
                   b_result |-> [t |-> "turn", res |-> Res(s2, lb, la), final |-> Final(y, x)]]
  <2>1. rooms[a] \in WarRoom
    BY <1>2, RoomFacts
  <2>2. rooms[a].b = b
    <3>1. rooms[a].b \in Players /\ rooms[a].b # a
      BY <1>2, <2>1 DEF WarRoom, WarInv, Others
    <3> QED BY <1>3, <3>1
  <2> DEFINE la == LosesA(rooms[a].skc1, rooms[a].skc2)
             lb == LosesB(rooms[a].skc1, rooms[a].skc2)
             x == rooms[a].a_blood - (IF la THEN BloodCut ELSE 0)
             y == rooms[a].b_blood - (IF lb THEN BloodCut ELSE 0)
  <2>3. x \in Int /\ y \in Int
    <3>1. BloodCut \in Int
      BY GameOK
    <3> QED BY <2>1, <3>1 DEF WarRoom
  <2>4. la \in BOOLEAN /\ lb \in BOOLEAN
    BY DEF LosesA, LosesB
  <2>5. turn = [a |-> a, b |-> b, a_blood |-> x, b_blood |-> y,
                a_result |-> [t |-> "turn", res |-> Res(rooms[a].skc1, la, lb),
                              final |-> Final(x, y)],
                b_result |-> [t |-> "turn", res |-> Res(rooms[a].skc2, lb, la),
                              final |-> Final(y, x)]]
    BY <1>1, <2>2 DEF Turn
  <2>6. rooms[a].skc1 \in 0..3 /\ rooms[a].skc2 \in 0..3
    BY <2>1 DEF WarRoom
  <2> HIDE DEF la, lb, x, y
  <2> QED BY <2>3, <2>4, <2>5, <2>6
<1>6. /\ turn.a = a /\ turn.b = b
      /\ turn.a_result.res # 3 => rooms[a].skc1 # NotRecved
      /\ turn.b_result.res # 3 => rooms[a].skc2 # NotRecved
      /\ turn.a_result.final = 0 <=> turn.b_result.final = 0
      /\ turn.a_result.final \in {1, 2} <=> turn.b_result.final \in {1, 2}
  <2>1. PICK s1, s2 \in 0..3, la, lb \in BOOLEAN, x, y \in Int :
          /\ s1 = rooms[a].skc1 /\ s2 = rooms[a].skc2
          /\ turn = [a |-> a, b |-> b, a_blood |-> x, b_blood |-> y,
                     a_result |-> [t |-> "turn", res |-> Res(s1, la, lb), final |-> Final(x, y)],
                     b_result |-> [t |-> "turn", res |-> Res(s2, lb, la), final |-> Final(y, x)]]
    BY <1>5
  <2>2. /\ turn.a = a /\ turn.b = b
        /\ turn.a_result.res = Res(s1, la, lb) /\ turn.b_result.res = Res(s2, lb, la)
        /\ turn.a_result.final = Final(x, y) /\ turn.b_result.final = Final(y, x)
    BY <2>1
  <2>3. (Res(s1, la, lb) # 3 => s1 # NotRecved) /\ (Res(s2, lb, la) # 3 => s2 # NotRecved)
    BY DEF Res
  <2> QED BY <2>1, <2>2, <2>3, FinalsAgree
<1>7. rooms' = IF turn.a_result.final # 0 THEN Erase(rooms, a)
               ELSE [rooms EXCEPT ![a].a_blood = turn.a_blood, ![a].b_blood = turn.b_blood]
  BY <1>1, <1>6 DEF Judge
<1>8. wars' = [wars EXCEPT ![i].pc = "results",
                           ![i].results = <<turn.a_result, turn.b_result>>,
                           ![i].socks = <<rooms[a].a_sockfd, rooms[a].b_sockfd>>]
  BY <1>1, <1>6 DEF Judge
<1>9. /\ DOMAIN wars' = DOMAIN wars
      /\ \A j \in DOMAIN wars : j # i => wars'[j].pc = "exit"
      /\ wars'[i].pc = "results" /\ wars'[i].room = a /\ wars'[i].b = b
      /\ wars'[i].results[1] = turn.a_result /\ wars'[i].results[2] = turn.b_result
      /\ wars'[i].socks[1] = rooms[a].a_sockfd
  <2>1. wars[i] \in WarThread
    BY WarFacts
  <2> QED BY <1>1, <1>3, <1>8, <2>1 DEF WarThread, Room
<1>10. /\ DOMAIN rooms' \subseteq DOMAIN rooms
       /\ turn.a_result.final # 0 => a \notin DOMAIN rooms'
       /\ \A r \in DOMAIN rooms' :
            /\ rooms'[r].b = rooms[r].b /\ rooms'[r].yes = rooms[r].yes
            /\ rooms'[r].sem = rooms[r].sem
            /\ rooms'[r].skc1 = rooms[r].skc1 /\ rooms'[r].skc2 = rooms[r].skc2
            /\ rooms'[r].a_sockfd = rooms[r].a_sockfd
       /\ turn.a_result.final = 0 => a \in DOMAIN rooms'
  <2>1. \A r \in DOMAIN rooms : rooms[r] \in WarRoom
    BY RoomFacts
  <2> QED BY <1>2, <1>7, <2>1 DEF WarRoom, Erase
<1>11. /\ Online' = Online
       /\ \A q \in Online : /\ user_table'[q].state = user_table[q].state
                            /\ user_table'[q].room = user_table[q].room
                            /\ user_table'[q].connfd = user_table[q].connfd
  <2>1. \A q \in Online : user_table[q] \in User
    BY UserFacts
  <2> QED BY <1>2, <2>1 DEF PaidBoth, Online, User
<1>12. /\ \A q : Agreed(q)' => Agreed(q)
       /\ turn.a_result.final # 0 => ~Agreed(b)'
  <2>1. \A q : Agreed(q)' => Agreed(q)
    BY <1>10 DEF Agreed
  <2>2. \A r \in DOMAIN rooms' : r \in Players
    BY <1>10, RoomFacts
  <2>3. turn.a_result.final # 0 => ~Agreed(b)'
    BY <1>3, <1>10, <2>2 DEF Agreed
  <2> QED BY <2>1, <2>3
<1>13. \A q \in {a, b} : user_table[q].state = "WAR" /\ user_table[q].room = a
  BY <1>1, <1>2 DEF WarInv, Threads, Room
<1>14. ASSUME NEW q \in {a, b}
       PROVE  /\ ~Calling(q)' /\ Fighting(q)' /\ In(q, {"results"})'
              /\ In(q, {"results", "restore"})'
              /\ ~In(q, {"turn"})' /\ ~In(q, {"restore"})'
              /\ Noted(q)' => Noted(q)
              /\ Played(q)' => Noted(q)
              /\ SignedIn(q)' <=> SignedIn(q)
  <2>1. /\ ~Calling(q)' /\ Fighting(q)' /\ In(q, {"results"})'
        /\ In(q, {"results", "restore"})'
        /\ ~In(q, {"turn"})' /\ ~In(q, {"restore"})'
    <3>1. /\ ~Calling(q)' \/ wars'[i].pc \in {"ask", "wait"}
          /\ \A pcs : wars'[i].pc \in pcs => In(q, pcs)'
          /\ \A pcs \in SUBSET {"turn", "results", "restore"} :
               wars'[i].pc \notin pcs => ~In(q, pcs)'
          /\ wars'[i].pc \in {"turn", "results", "restore"} => Fighting(q)'
      BY <1>9, FightNext
    <3> QED BY <1>9, <3>1
  <2>2. SignedIn(q)' <=> SignedIn(q)
    BY <1>2, <1>4, <1>11 DEF SignedIn
  <2>3. Noted(q)' => Noted(q)
    BY <1>10, <1>11 DEF Noted, SkcOf
  <2>4. Played(q)' => SkcOf(a, q) # NotRecved
    BY <1>3, <1>6, <1>9 DEF Played, ResultOf, SkcOf
  <2>5. SkcOf(a, q) # NotRecved => Noted(q)
    BY <1>2, <1>3, <1>4, <1>13 DEF Noted
  <2> QED BY <2>1, <2>2, <2>3, <2>4, <2>5
<1>15. ASSUME NEW q \in Players PROVE UpOK(q)' /\ Client(q)'
  <2>1. /\ q \in {a, b} /\ q \in Online /\ UpOK(q) /\ Client(q) /\ ~HasYes(up[q])
        /\ Fighting(q) /\ ~Calling(q) /\ In(q, {"turn"}) /\ Heard(q)
    BY <1>2, <1>3, <1>4
  <2>2. /\ up'[q] = up[q] /\ loop'[q] = loop[q] /\ wait'[q] = wait[q]
        /\ gstate'[q] = gstate[q] /\ gsem'[q] = gsem[q] /\ down'[q] = down[q]
        /\ (q \in Online)' <=> q \in Online
        /\ conn'[q] = conn[q] /\ misled'[q] = misled[q]
    BY <1>2, <1>11
  <2>3. /\ ~Calling(q)' /\ Fighting(q)' /\ In(q, {"results"})'
        /\ In(q, {"results", "restore"})'
        /\ ~In(q, {"turn"})' /\ ~In(q, {"restore"})'
        /\ Noted(q)' => Noted(q)
        /\ Played(q)' => Noted(q)
        /\ SignedIn(q)' <=> SignedIn(q)
    BY <1>14, <2>1
  <2>4. UpOK(q)'
    BY <2>1, <2>2, <2>3 DEF UpOK
  <2>5. CASE Ended(q) \/ ~SignedIn(q)
    <3>1. SamePlayer(q)
      BY <2>2 DEF SamePlayer
    <3> QED BY <2>1, <2>3, <2>4, <2>5, <3>1, Outsider
  <2>6. CASE ~Ended(q) /\ SignedIn(q)
    <3>1. \/ /\ loop[q] = "war" /\ AtWar(q) /\ Turns(q) /\ NoPost(q)
             /\ gstate[q] = "CLIENT_WAR"
          \/ loop[q] = "online" /\ Stuck(q) /\ Turns(q)
      BY <2>1, <2>6, HeardInTurn
    <3>2. CASE /\ loop[q] = "war" /\ AtWar(q) /\ Turns(q) /\ NoPost(q)
               /\ gstate[q] = "CLIENT_WAR"
      <4>3. NoPost(q)' /\ SignedIn(q)'
        BY <2>2, <2>3, <2>6, <3>2 DEF NoPost
      <4>4. AtWar(q)'
        BY <2>1, <2>2, <2>3, <3>2, <4>3 DEF AtWar
      <4>5. Turns(q)'
        BY <2>1, <2>2, <2>3, <3>2, <4>3 DEF Turns
      <4> QED BY <2>2, <2>4, <3>2, <4>4, <4>5 DEF Client, Ended
    <3>3. CASE loop[q] = "online" /\ Stuck(q) /\ Turns(q)
      <4>1. /\ wait[q] = "request" /\ NoPost(q) /\ gstate[q] = "CLIENT_ONLINE"
            /\ up[q] = <<>> /\ misled[q] /\ ~Agreed(q) /\ Deaf(q)
        BY <3>3 DEF Stuck
      <4>2. ~Noted(q)
        BY <2>1, <3>3, <4>1 DEF Turns
      <4>3. Deaf(q)'
        <5>1. q = a /\ rooms[a].a_sockfd # conn[q]
          BY <1>1, <1>2, <2>1, <4>1 DEF Deaf, Room, Over
        <5> QED BY <1>9, <1>10, <2>2, <5>1 DEF Deaf, Over
      <4>4. NoPost(q)'
        BY <2>2, <4>1 DEF NoPost
      <4>5. ~Agreed(q)'
        BY <1>12, <4>1
      <4>6. Stuck(q)'
        BY <2>2, <2>3, <2>6, <4>1, <4>3, <4>4, <4>5 DEF Stuck
      <4>7. OnLine(q)'
        BY <4>6 DEF OnLine
      <4>8. Turns(q)'
        BY <2>2, <2>3, <4>1, <4>2, <4>4, <4>6 DEF Turns
      <4> QED BY <2>2, <2>4, <3>3, <4>7, <4>8 DEF Client, Ended
    <3> QED BY <3>1, <3>2, <3>3
  <2> QED BY <2>5, <2>6
<1>16. Others'
  BY <1>2, <1>10 DEF WarInv, Others
<1>17. Threads'
  <2>1. ~Agreed(a)' /\ (Over(wars'[i]) => ~Agreed(b)')
    BY <1>3, <1>9, <1>12 DEF Over
  <2>2. a \in Online /\ b \in Online
    BY <1>3, <1>4
  <2>3. \A q \in {a, b} : user_table'[q].state = "WAR" /\ user_table'[q].room = a
    BY <1>11, <1>13, <2>2
  <2>4. LET f1 == wars'[i].results[1].final
            f2 == wars'[i].results[2].final
        IN  (f1 = 0 <=> f2 = 0) /\ (f1 \in {1, 2} <=> f2 \in {1, 2})
    BY <1>6, <1>9
  <2> QED BY <1>3, <1>9, <1>11, <2>1, <2>2, <2>3, <2>4, FightThreads
<1> QED BY <1>15, <1>16, <1>17 DEF WarInv, Players2

LEMMA SendResultsWar ==
  ASSUME TypeOK, TwoPlayers, WarInv, Sockets, NEW i \in DOMAIN wars, SendResults(i)
  PROVE  WarInv'
<1>1. PICK a, b, m1, m2, s1, s2 :
         /\ a = Room(i) /\ b = wars[i].b
         /\ m1 = wars[i].results[1] /\ m2 = wars[i].results[2]
         /\ s1 = wars[i].socks[1] /\ s2 = wars[i].socks[2]
  OBVIOUS
<1> DEFINE ended == m1.final # 0
           to == IF ended THEN "restore" ELSE "turn"
           M(q) == IF q = a THEN m1 ELSE m2
           S(q) == IF q = a THEN s1 ELSE s2
<1>2. /\ wars[i].pc = "results"
      /\ down' = Deliver(Deliver(down, a, s1, m1), b, s2, m2)
      /\ UNCHANGED <<user_table, inserting, up, gstate, loop, wait, gsem, gadversary>>
      /\ UNCHANGED <<conn, misled>>
  BY <1>1 DEF SendResults, WarAt, client
<1>3. rooms' = IF ended THEN rooms
               ELSE [rooms EXCEPT ![a].skc1 = NotRecved, ![a].skc2 = NotRecved]
  BY <1>1 DEF SendResults
<1>4. wars' = [wars EXCEPT ![i].pc = to, ![i].results = NoResults, ![i].socks = <<0, 0>>]
  BY <1>1 DEF SendResults
<1>5. /\ a \in Players /\ b \in Players /\ b # a
      /\ \A q \in Players : q = a \/ q = b
      /\ \A j \in DOMAIN wars : j # i => wars[j].pc = "exit"
      /\ ~Agreed(a) /\ (ended => ~Agreed(b))
  BY <1>1, <1>2, Fight DEF Over
<1>6. \A q \in Players :
        /\ Fighting(q) /\ q \in Online /\ ~Calling(q)
        /\ UpOK(q) /\ Client(q) /\ ~HasYes(up[q]) /\ In(q, {"results"})
        /\ In(q, {"results", "restore"})
  BY <1>1, <1>2, Fight
<1>s. \A q \in {a, b} : S(q) \in Nat /\ S(q) <= Latest(q)
  <2>1. wars[i] \in WarThread
    BY WarFacts
  <2>2. wars[i].socks \in Nat \X Nat
    BY <2>1 DEF WarThread
  <2>3. s1 \in Nat /\ s2 \in Nat
    BY <1>1, <2>2
  <2>4. s1 <= Latest(a) /\ s2 <= Latest(b)
    BY <1>1, <1>2 DEF Sockets, Room
  <2> QED BY <1>5, <2>3, <2>4
<1>7. /\ m1 \in TurnMsg /\ m2 \in TurnMsg
      /\ m1.final = 0 <=> m2.final = 0
      /\ m1.final \in {1, 2} <=> m2.final \in {1, 2}
  <2>1. wars[i] \in WarThread
    BY WarFacts
  <2>2. wars[i].results \in TurnMsg \X TurnMsg
    BY <2>1 DEF WarThread
  <2>3. m1 \in TurnMsg /\ m2 \in TurnMsg
    BY <1>1, <2>2
  <2> QED BY <1>1, <1>2, <2>3 DEF WarInv, Threads
<1>8. to \in {"turn", "restore"} /\ (to = "restore" <=> ended)
  OBVIOUS
<1> HIDE DEF to
<1>9. /\ DOMAIN wars' = DOMAIN wars
      /\ \A j \in DOMAIN wars : j # i => wars'[j].pc = "exit"
      /\ wars'[i].pc = to /\ wars'[i].room = a /\ wars'[i].b = b
  <2>1. wars[i] \in WarThread
    BY WarFacts
  <2> QED BY <1>1, <1>4, <1>5, <2>1 DEF WarThread, Room
<1>10. /\ DOMAIN rooms' = DOMAIN rooms
       /\ \A r \in DOMAIN rooms :
            /\ rooms'[r].b = rooms[r].b /\ rooms'[r].yes = rooms[r].yes
            /\ rooms'[r].sem = rooms[r].sem /\ rooms'[r].a_sockfd = rooms[r].a_sockfd
            /\ ~ended /\ r = a => rooms'[r].skc1 = NotRecved /\ rooms'[r].skc2 = NotRecved
  <2>1. \A r \in DOMAIN rooms : rooms[r] \in WarRoom
    BY RoomFacts
  <2> QED BY <1>3, <2>1 DEF WarRoom
<1>11. \A q : Agreed(q)' <=> Agreed(q)
  BY <1>10 DEF Agreed
<1>12. \A q \in {a, b} : user_table[q].state = "WAR" /\ user_table[q].room = a
  BY <1>1, <1>2 DEF WarInv, Threads, Room
<1>13. ASSUME NEW q \in {a, b}
       PROVE  /\ Told(q, S(q), M(q)) /\ M(q) \in DownTo(q) /\ down[q] \in Seq(DownTo(q))
              /\ M(q).t = "turn" /\ (M(q).final = 0 <=> ~ended)
              /\ M(q).res # 3 => Played(q)
  <2>1. down \in [Players -> Seq(DownMsg)]
    BY DEF TypeOK, TypeConn
  <2>2. m1 \in DownMsg /\ m1.t = "turn" /\ m2 \in DownMsg /\ m2.t = "turn"
    BY <1>7 DEF DownMsg, TurnMsg
  <2>3. PICK d : d = Deliver(down, a, s1, m1)
    OBVIOUS
  <2>4. /\ d[a] = IF Reaches(a, s1) THEN Append(down[a], m1) ELSE down[a]
        /\ d[b] = down[b]
        /\ d \in [Players -> Seq(DownMsg)]
    <3>1. d \in [Players -> Seq(DownMsg)]
      BY <2>1, <2>2, <2>3, DeliverType
    <3>2. /\ Deliver(down, a, s1, m1)[a] =
               IF Reaches(a, s1) THEN Append(down[a], m1) ELSE down[a]
          /\ \A r \in Players \ {a} : Deliver(down, a, s1, m1)[r] = down[r]
      BY <1>5, <2>1, DeliverIs
    <3> QED BY <1>5, <2>3, <3>1, <3>2
  <2>5. /\ down'[a] = IF Reaches(a, s1) THEN Append(down[a], m1) ELSE down[a]
        /\ down'[b] = IF Reaches(b, s2) THEN Append(down[b], m2) ELSE down[b]
    <3>1. /\ Deliver(d, b, s2, m2)[b] = IF Reaches(b, s2) THEN Append(d[b], m2) ELSE d[b]
          /\ \A r \in Players \ {b} : Deliver(d, b, s2, m2)[r] = d[r]
      BY <1>5, <2>4, DeliverIs
    <3> QED BY <1>2, <1>5, <2>3, <2>4, <3>1
  <2>6. Told(q, S(q), M(q))
    BY <1>2, <1>5, <2>5 DEF Told
  <2>7. M(q) \in DownTo(q) /\ down[q] \in Seq(DownTo(q))
    BY <1>5, <2>2 DEF DownTo, WarInv, Others
  <2>8. M(q).t = "turn" /\ (M(q).final = 0 <=> ~ended)
    BY <1>7, <2>2
  <2>9. M(q).res # 3 => Played(q)
    BY <1>1, <1>2, <1>5 DEF Played, ResultOf, Room
  <2> QED BY <2>6, <2>7, <2>8, <2>9
<1>14. ASSUME NEW q \in {a, b}
       PROVE  /\ ~Calling(q)' /\ Fighting(q)' /\ ~In(q, {"results"})'
              /\ In(q, {"turn"})' => ~ended
              /\ In(q, {"restore"})' => ended
              /\ In(q, {"turn", "results"})' => ~ended
              /\ ~ended => ~Noted(q)'
              /\ SignedIn(q)' <=> SignedIn(q)
              /\ (q \in Online)' <=> q \in Online
              /\ Deaf(q) => ~Reaches(q, S(q)) /\ Deaf(q)'
  <2>1. /\ ~Calling(q)' \/ wars'[i].pc \in {"ask", "wait"}
        /\ \A pcs : wars'[i].pc \in pcs => In(q, pcs)'
        /\ \A pcs \in SUBSET {"turn", "results", "restore"} :
             wars'[i].pc \notin pcs => ~In(q, pcs)'
        /\ wars'[i].pc \in {"turn", "results", "restore"} => Fighting(q)'
    BY <1>9, FightNext
  <2>2. /\ ~Calling(q)' /\ Fighting(q)' /\ ~In(q, {"results"})'
        /\ In(q, {"turn"})' => ~ended
        /\ In(q, {"restore"})' => ended
        /\ In(q, {"turn", "results"})' => ~ended
    BY <1>8, <1>9, <2>1
  <2>3. /\ SignedIn(q)' <=> SignedIn(q)
        /\ (q \in Online)' <=> q \in Online
    BY <1>2 DEF SignedIn, Online
  <2>4. ~ended => ~Noted(q)'
    BY <1>2, <1>10, <1>12 DEF Noted, SkcOf
  <2>5. ASSUME Deaf(q) PROVE ~Reaches(q, S(q)) /\ Deaf(q)'
    <3>1. /\ q = a /\ s1 # conn[q]
          /\ ~ended => q \in DOMAIN rooms /\ rooms[q].a_sockfd # conn[q]
      BY <1>1, <1>2, <2>5 DEF Deaf, Room, Over
    <3>2. wars'[i].pc # "results"
      BY <1>8, <1>9
    <3>3. ~Over(wars'[i]) => ~ended
      BY <1>8, <1>9 DEF Over
    <3>4. Deaf(q)'
      BY <1>2, <1>9, <1>10, <3>1, <3>2, <3>3 DEF Deaf
    <3> QED BY <3>1, <3>4 DEF Reaches
  <2> QED BY <2>2, <2>3, <2>4, <2>5
<1>15. ASSUME NEW q \in Players PROVE UpOK(q)' /\ Client(q)'
  <2>1. /\ q \in {a, b} /\ q \in Online /\ UpOK(q) /\ Client(q) /\ ~HasYes(up[q])
        /\ Fighting(q) /\ ~Calling(q) /\ In(q, {"results"}) /\ In(q, {"results", "restore"})
    BY <1>5, <1>6
  <2>2. PICK m, s : m = M(q) /\ s = S(q)
    OBVIOUS
  <2>3. /\ Told(q, s, m) /\ m \in DownTo(q) /\ down[q] \in Seq(DownTo(q))
        /\ m.t = "turn" /\ (m.final = 0 <=> ~ended)
        /\ m.res # 3 => Played(q)
    BY <1>13, <2>1, <2>2
  <2>4. /\ ~Calling(q)' /\ Fighting(q)' /\ ~In(q, {"results"})'
        /\ In(q, {"turn"})' => ~ended
        /\ In(q, {"restore"})' => ended
        /\ In(q, {"turn", "results"})' => ~ended
        /\ ~ended => ~Noted(q)'
        /\ SignedIn(q)' <=> SignedIn(q)
        /\ (q \in Online)' <=> q \in Online
        /\ Deaf(q) => ~Reaches(q, s) /\ Deaf(q)'
    BY <1>14, <2>1, <2>2
  <2>5. /\ up'[q] = up[q] /\ loop'[q] = loop[q] /\ wait'[q] = wait[q]
        /\ gstate'[q] = gstate[q] /\ misled'[q] = misled[q]
    BY <1>2, <2>3 DEF Told
  <2>s. s \in Nat /\ s <= Latest(q)
    BY <1>s, <2>1, <2>2
  <2>6. (Agreed(q)' <=> Agreed(q)) /\ (ended => ~Agreed(q)')
    BY <1>5, <1>11, <2>1
  <2> HIDE DEF ended, M, S
  <2>7. UpOK(q)'
    BY <2>1, <2>4, <2>5, <2>6 DEF UpOK
  <2>x. ~Reaches(q, s) => SamePlayer(q)
    BY <2>3 DEF Told, SamePlayer
  <2>8. CASE Ended(q) \/ ~SignedIn(q)
    <3>1. SamePlayer(q)
      BY <2>1, <2>s, <2>x, <2>8, Arrives
    <3> QED BY <2>1, <2>4, <2>7, <2>8, <3>1, Outsider
  <2>y. CASE ~Ended(q) /\ SignedIn(q) /\ Stuck(q)
    <3>1. /\ wait[q] = "request" /\ NoPost(q) /\ gstate[q] = "CLIENT_ONLINE"
          /\ up[q] = <<>> /\ misled[q] /\ ~Agreed(q) /\ Deaf(q)
      BY <2>y DEF Stuck
    <3>2. loop[q] = "online"
      BY <2>1, <2>y, StuckOnline
    <3>3. NoPost(q)'
      <4>1. SameMind(q)
        BY <2>4, <2>x, <3>1 DEF SamePlayer, SameMind
      <4> QED BY <3>1, <4>1, SamePosts
    <3>4. Stuck(q)'
      BY <2>4, <2>5, <2>6, <2>y, <3>1, <3>3 DEF Stuck
    <3>5. OnLine(q)'
      BY <3>4 DEF OnLine
    <3>6. Turns(q)'
      BY <2>4, <2>5, <3>1, <3>3, <3>4 DEF Turns
    <3> QED BY <2>5, <2>7, <3>2, <3>5, <3>6 DEF Client, Ended
  <2>9. CASE ~Ended(q) /\ SignedIn(q) /\ ~Stuck(q)
    <3>1. ~Ended(q) /\ SignedIn(q)
      BY <2>9
    <3>2. /\ loop[q] = "war" /\ NoPost(q)
          /\ up[q] # <<>> => wait[q] = "pick" /\ ~Played(q)
          /\ Played(q) => wait[q] = "pick"
      BY <2>1, <2>9 DEF Client, Turns
    <3>3. AtWar(q)
      BY <2>1, <3>2 DEF Client
    <3>4. gstate[q] = "CLIENT_WAR"
      BY <3>2, <3>3, OneOrNone DEF AtWar
    <3>5. /\ wait'[q] \in {"no", "pick"} /\ SignedIn(q)' /\ ~Has(up'[q], Commands)
          /\ ~HasYes(up'[q])
      BY <2>1, <2>4, <2>5, <3>1, <3>3 DEF AtWar
    <3>6. /\ ~(NoPost(q)' /\ Will(q, "CLIENT_WAR")')
          /\ ~(Will(q, "CLIENT_ONLINE")' /\ Will(q, "CLIENT_WAR")')
      BY DEF NoPost, Will, Silent, OnePost
    <3>7. CASE ~Posts(m) \/ ~Reaches(q, s)
      <4>1. Quiet(q)
        <5>1. ~Posts(m) => Quiet(q)
          BY <2>3, QuietHears
        <5>2. SamePlayer(q) => Quiet(q)
          BY DEF SamePlayer, Quiet, NoPost, Will
        <5> QED BY <2>x, <3>7, <5>1, <5>2
      <4>2. NoPost(q)'
        BY <3>2, <4>1 DEF Quiet
      <4>3. AtWar(q)'
        BY <2>4, <2>5, <3>4, <3>5, <4>2 DEF AtWar
      <4>4. Turns(q)'
        BY <2>4, <2>5, <3>2, <3>6, <4>2 DEF Turns
      <4> QED BY <2>5, <2>7, <3>2, <4>3, <4>4 DEF Client, Ended
    <3>8. CASE Posts(m) /\ Reaches(q, s)
      <4>1. /\ \A g : g = StateAfter(m, gstate[q]) => Will(q, g)'
            /\ ~Has(down'[q], {"in"})
        BY <2>3, <3>2, <3>8, PostHears
      <4>2. CASE Ends(m)
        <5>1. ended /\ Will(q, "CLIENT_ONLINE")'
          BY <2>3, <4>1, <4>2 DEF Ends, StateAfter
        <5>2. AtWar(q)'
          BY <2>4, <2>5, <2>6, <3>4, <3>5, <4>1, <5>1 DEF AtWar
        <5>3. Turns(q)'
          BY <2>4, <2>5, <3>2, <3>6, <5>1 DEF Turns
        <5> QED BY <2>5, <2>7, <3>2, <5>2, <5>3 DEF Client, Ended
      <4>3. CASE ~Ends(m)
        <5>1. m.res # 3
          BY <2>3, <3>8, <4>3 DEF Posts
        <5>2. up[q] = <<>> /\ wait[q] = "pick"
          BY <2>3, <3>2, <5>1
        <5>3. Will(q, "CLIENT_WAR")'
          BY <2>3, <3>4, <4>1, <4>3 DEF StateAfter
        <5>4. AtWar(q)'
          BY <2>4, <2>5, <3>5, <5>2, <5>3 DEF AtWar
        <5>5. Turns(q)'
          BY <2>4, <2>5, <3>2, <5>2 DEF Turns
        <5> QED BY <2>5, <2>7, <3>2, <5>4, <5>5 DEF Client, Ended
      <4> QED BY <4>2, <4>3
    <3> QED BY <3>7, <3>8
  <2> QED BY <2>8, <2>9, <2>y
<1>16. Others'
  <2>1. ASSUME NEW q \in Players PROVE down'[q] \in Seq(DownTo(q))
    <3>1. /\ Told(q, S(q), M(q)) /\ M(q) \in DownTo(q) /\ down[q] \in Seq(DownTo(q))
      BY <1>5, <1>13
    <3>2. Append(down[q], M(q)) \in Seq(DownTo(q))
      BY <3>1, AppendIs
    <3> QED BY <3>1, <3>2 DEF Told
  <2> QED BY <1>2, <1>10, <2>1 DEF WarInv, Others
<1>17. Threads'
  <2>1. ~Agreed(a)' /\ (Over(wars'[i]) => ~Agreed(b)')
    BY <1>5, <1>8, <1>9, <1>11 DEF Over
  <2>2. a \in Online /\ b \in Online
    BY <1>5, <1>6
  <2>3. Online' = Online /\ \A q \in {a, b} : user_table'[q].state = "WAR" /\ user_table'[q].room = a
    BY <1>2, <1>12 DEF Online
  <2>4. wars'[i].pc \in {"turn", "results", "restore"} /\ wars'[i].pc # "results"
    BY <1>8, <1>9
  <2> QED BY <1>5, <1>9, <2>1, <2>2, <2>3, <2>4, FightThreads
<1> QED BY <1>15, <1>16, <1>17 DEF WarInv, Players2

LEMMA RestoreWar ==
  ASSUME TypeOK, TwoPlayers, WarInv, NEW i \in DOMAIN wars, Restore(i)
  PROVE  WarInv'
<1>1. PICK a, b : a = Room(i) /\ b = wars[i].b
  OBVIOUS
<1>2. /\ wars[i].pc = "restore" /\ user_table' = BackOnline(a, b)
      /\ UNCHANGED <<rooms, inserting, up, down, gstate, loop, wait, gsem, gadversary>>
      /\ UNCHANGED <<conn, misled>>
  BY <1>1 DEF Restore, WarAt, client
<1>3. wars' = [wars EXCEPT ![i].pc = "exit", ![i].b = Nobody, ![i].held = FALSE]
  BY DEF Restore
<1>4. /\ \A q \in Players : q = a \/ q = b
      /\ \A j \in DOMAIN wars : j # i => wars[j].pc = "exit"
      /\ \A q \in Players :
           /\ Fighting(q) /\ q \in Online /\ ~Calling(q)
           /\ UpOK(q) /\ Client(q) /\ ~HasYes(up[q]) /\ In(q, {"results", "restore"})
  BY <1>1, <1>2, Fight
<1>5. \A q \in Players : ~Agreed(q)
  BY <1>1, <1>2, <1>4, Fight DEF Over
<1>6. DOMAIN wars' = DOMAIN wars /\ \A j \in DOMAIN wars : wars'[j].pc = "exit"
  <2>1. wars[i] \in WarThread
    BY WarFacts
  <2> QED BY <1>3, <1>4, <2>1 DEF WarThread
<1>7. /\ Online' = Online /\ Online \subseteq Players
      /\ \A q \in Online : /\ user_table'[q].state = "ONLINE"
                           /\ user_table'[q].connfd = user_table[q].connfd
  <2>1. \A q \in Online : user_table[q] \in User /\ q \in {a, b}
    BY <1>4, UserFacts
  <2> QED BY <1>2, <2>1, UserFacts DEF BackOnline, Online, User
<1>8. ASSUME NEW q \in Players
      PROVE  /\ ~Calling(q)' /\ ~Fighting(q)' /\ ~Agreed(q)' /\ ~In(q, {"turn", "results"})'
             /\ SignedIn(q)' <=> SignedIn(q)
             /\ (q \in Online)' <=> q \in Online
             /\ Deaf(q)'
  <2>1. /\ ~Calling(q)' /\ ~Fighting(q)' /\ ~In(q, {"turn", "results"})'
        /\ Deaf(q)'
    BY <1>6 DEF Calling, Fighting, In, Deaf
  <2>2. ~Agreed(q)'
    BY <1>2, <1>5 DEF Agreed
  <2> QED BY <1>2, <1>7, <2>1, <2>2 DEF SignedIn
<1>9. ASSUME NEW q \in Players PROVE UpOK(q)' /\ Client(q)'
  <2>1. /\ Fighting(q) /\ q \in Online /\ UpOK(q) /\ Client(q) /\ ~HasYes(up[q])
        /\ In(q, {"results", "restore"})
    BY <1>4
  <2>2. /\ up'[q] = up[q] /\ loop'[q] = loop[q] /\ wait'[q] = wait[q]
        /\ gstate'[q] = gstate[q] /\ gsem'[q] = gsem[q] /\ down'[q] = down[q]
        /\ misled'[q] = misled[q]
    BY <1>2
  <2>3. UpOK(q)'
    BY <1>8, <2>1, <2>2 DEF UpOK
  <2>s. /\ NoPost(q)' <=> NoPost(q)
        /\ \A g : Will(q, g)' <=> Will(q, g)
    BY <2>2, SamePosts DEF SameMind
  <2>t. Turns(q)'
    <3>1. ~Fighting(q)'
      BY <1>8
    <3> QED BY <3>1 DEF Turns, Fighting, In
  <2>4. CASE Ended(q) \/ ~SignedIn(q)
    <3>1. SamePlayer(q)
      BY <2>2 DEF SamePlayer
    <3> QED BY <1>8, <2>1, <2>3, <2>4, <3>1, Outsider
  <2>6. CASE ~Ended(q) /\ SignedIn(q) /\ Stuck(q)
    <3>1. loop[q] = "online"
      BY <2>1, <2>6, StuckOnline
    <3>2. OnLine(q)'
      BY <1>8, <2>2, <2>s, <2>6 DEF Stuck, OnLine
    <3> QED BY <2>2, <2>3, <2>t, <3>1, <3>2 DEF Client, Ended
  <2>5. CASE ~Ended(q) /\ SignedIn(q) /\ ~Stuck(q)
    <3>1. ~Ended(q) /\ SignedIn(q)
      BY <2>5
    <3>2. loop[q] = "war" /\ AtWar(q)
      BY <2>1, <2>5 DEF Client, Turns
    <3>4. AtWar(q)'
      BY <1>8, <2>1, <2>2, <2>s, <3>1, <3>2 DEF AtWar
    <3> QED BY <2>2, <2>3, <2>t, <3>2, <3>4 DEF Client, Ended
  <2> QED BY <2>4, <2>5, <2>6
<1>10. Others'
  BY <1>2 DEF WarInv, Others
<1>11. Threads'
  BY <1>6, <1>7 DEF Threads
<1> QED BY <1>9, <1>10, <1>11 DEF WarInv, Players2

LEMMA FightsWar ==
  ASSUME TypeOK, TwoPlayers, WarInv, Sockets, NEW i \in DOMAIN wars, Fights(i)
  PROVE  WarInv'
BY AskWar, AnsweredWar, JudgeWar, SendResultsWar, RestoreWar, FaultsWar DEF Fights, Crash

-----------------------------------------------------------------------------
LEMMA WarStep ==
  ASSUME TypeOK, TwoPlayers, WarInv, Sockets, [Next]_vars
  PROVE  WarInv'
<1>1. CASE UNCHANGED vars
  <2>1. /\ UNCHANGED <<user_table, rooms, inserting, wars>> /\ UNCHANGED client
        /\ UNCHANGED <<up, down, gstate, loop, wait, gsem, gadversary>>
    BY <1>1 DEF vars, server, client
  <2>2. (\A q : SameFlags(q)) /\ Threads'
    BY <2>1, SameAll, SameThreads DEF WarInv
  <2>3. \A q \in Players : SamePlayer(q)
    BY <2>1 DEF SamePlayer
  <2>4. Others'
    BY <2>1 DEF WarInv, Others
  <2>5. Players2'
    BY <2>2, <2>3, Frame DEF WarInv, Players2
  <2> QED BY <2>2, <2>4, <2>5 DEF WarInv
<1>2. CASE Next
  BY <1>2, TypesWar, WakeWar, ListenWar, ServesWar, FightsWar DEF Next
<1> QED BY <1>1, <1>2

-----------------------------------------------------------------------------
(* The connections in the tables: no player's latest one goes back, and     *)
(* those stored are kept or are fresh.                                      *)
LatestNext(q) == IF q \in DOMAIN user_table' THEN user_table'[q].connfd ELSE conn'[q]
NoOlder ==
  \A q \in Players : Latest(q) <= LatestNext(q) /\ LatestNext(q) <= conn'[q]
RoomsKept ==
  \A r \in DOMAIN rooms' :
    \/ /\ r \in DOMAIN rooms /\ rooms'[r].b = rooms[r].b
       /\ rooms'[r].a_sockfd = rooms[r].a_sockfd /\ rooms'[r].b_sockfd = rooms[r].b_sockfd
    \/ rooms'[r].a_sockfd <= LatestNext(r) /\ rooms'[r].b_sockfd <= LatestNext(rooms'[r].b)
InsertingKept ==
  \A q \in Players : inserting'[q] # Nobody =>
    /\ SignedIn(q)'
    /\ \/ inserting'[q] = inserting[q] /\ b_sockfd'[q] = b_sockfd[q]
       \/ b_sockfd'[q] <= LatestNext(inserting'[q])
ResultsKept ==
  \A i \in DOMAIN wars' : wars'[i].pc = "results" =>
    \/ /\ i \in DOMAIN wars /\ wars[i].pc = "results" /\ wars'[i].room = wars[i].room
       /\ wars'[i].b = wars[i].b /\ wars'[i].socks = wars[i].socks
    \/ /\ wars'[i].socks[1] <= LatestNext(wars'[i].room)
       /\ wars'[i].socks[2] <= LatestNext(wars'[i].b)

LEMMA LatestType == TypeOK => \A q \in Players : Latest(q) \in Nat /\ conn[q] \in Nat
<1> SUFFICES ASSUME TypeOK, NEW q \in Players PROVE Latest(q) \in Nat /\ conn[q] \in Nat
  OBVIOUS
<1>1. q \in Online => user_table[q].connfd \in Nat
  BY UserFacts DEF User
<1> QED BY <1>1 DEF Latest, TypeOK, TypeClient

LEMMA SocketsKept ==
  ASSUME TypeOK, TypeOK', TwoPlayers, WarInv, WarInv', Sockets,
         NoOlder, RoomsKept, InsertingKept, ResultsKept
  PROVE  Sockets'
<1>1. \A q \in Players : Latest(q) \in Nat /\ LatestNext(q) \in Nat
  <2>1. (\A q \in Players : Latest(q) \in Nat /\ conn[q] \in Nat)'
    BY LatestType, PTL
  <2> QED BY <2>1, LatestType DEF Latest, LatestNext, Online
<1>2. ASSUME NEW n \in Nat, NEW q \in Players, n <= Latest(q) PROVE n <= LatestNext(q)
  <2>1. PICK x \in Nat, y \in Nat : x = Latest(q) /\ y = LatestNext(q) /\ x <= y
    BY <1>1 DEF NoOlder
  <2> QED BY <1>2, <2>1
<1>3. \A p \in Players : LatestNext(p) <= conn'[p]
  BY DEF NoOlder
<1>4. ASSUME NEW r \in DOMAIN rooms'
      PROVE  /\ rooms'[r].a_sockfd <= LatestNext(r)
             /\ rooms'[r].b_sockfd <= LatestNext(rooms'[r].b)
  <2>1. CASE /\ r \in DOMAIN rooms /\ rooms'[r].b = rooms[r].b
             /\ rooms'[r].a_sockfd = rooms[r].a_sockfd
             /\ rooms'[r].b_sockfd = rooms[r].b_sockfd
    <3>1. /\ r \in Players /\ rooms[r].b \in Players
          /\ rooms[r].a_sockfd \in Nat /\ rooms[r].b_sockfd \in Nat
      BY <2>1, RoomFacts DEF WarRoom
    <3>2. rooms[r].a_sockfd <= Latest(r) /\ rooms[r].b_sockfd <= Latest(rooms[r].b)
      BY <2>1 DEF Sockets
    <3>3. PICK b \in Players : b = rooms[r].b
      BY <3>1
    <3>4. rooms[r].a_sockfd <= LatestNext(r) /\ rooms[r].b_sockfd <= LatestNext(b)
      BY <1>2, <3>1, <3>2, <3>3
    <3> QED BY <2>1, <3>3, <3>4
  <2> QED BY <2>1 DEF RoomsKept
<1>5. ASSUME NEW p \in Players, inserting'[p] # Nobody
      PROVE  SignedIn(p)' /\ b_sockfd'[p] <= LatestNext(inserting'[p])
  <2>1. CASE inserting'[p] = inserting[p] /\ b_sockfd'[p] = b_sockfd[p]
    <3>1. inserting[p] \in Players /\ b_sockfd[p] \in Nat
      BY <1>5, <2>1 DEF TypeOK, TypeServer
    <3>2. b_sockfd[p] <= Latest(inserting[p])
      BY <1>5, <2>1 DEF Sockets
    <3>3. PICK b \in Players : b = inserting[p]
      BY <3>1
    <3>4. b_sockfd[p] <= LatestNext(b)
      BY <1>2, <3>1, <3>2, <3>3
    <3> QED BY <1>5, <2>1, <3>3, <3>4 DEF InsertingKept
  <2> QED BY <1>5, <2>1 DEF InsertingKept
<1>6. ASSUME NEW i \in DOMAIN wars', wars'[i].pc = "results"
      PROVE  /\ wars'[i].socks[1] <= LatestNext(wars'[i].room)
             /\ wars'[i].socks[2] <= LatestNext(wars'[i].b)
  <2>1. CASE /\ i \in DOMAIN wars /\ wars[i].pc = "results"
             /\ wars'[i].room = wars[i].room
             /\ wars'[i].b = wars[i].b /\ wars'[i].socks = wars[i].socks
    <3>1. wars[i] \in WarThread
      BY <2>1, WarFacts
    <3>2. PICK s \in Nat \X Nat : s = wars[i].socks
      BY <3>1 DEF WarThread
    <3>3. PICK a, b \in Players : a = wars[i].room /\ b = wars[i].b
      BY <2>1, <3>1 DEF WarThread, WarInv, Threads
    <3>4. s[1] <= Latest(a) /\ s[2] <= Latest(b)
      BY <2>1, <3>2, <3>3 DEF Sockets
    <3>5. s[1] <= LatestNext(a) /\ s[2] <= LatestNext(b)
      BY <1>2, <3>4
    <3> QED BY <2>1, <3>2, <3>3, <3>5
  <2> QED BY <1>6, <2>1 DEF ResultsKept
<1> QED BY <1>3, <1>4, <1>5, <1>6 DEF Sockets, Latest, LatestNext, Online

LEMMA SameLatest ==
  ASSUME TypeOK, Sockets, conn' = conn, Online' = Online,
         \A q \in Online : user_table'[q].connfd = user_table[q].connfd
  PROVE  /\ NoOlder
         /\ loop' = loop => \A q : SignedIn(q)' <=> SignedIn(q)
<1>1. \A q \in Players : LatestNext(q) = Latest(q)
  BY DEF Latest, LatestNext, Online
<1>2. \A q \in Players : Latest(q) \in Nat /\ Latest(q) <= conn[q]
  BY LatestType DEF Sockets
<1>3. \A n \in Nat : n <= n
  OBVIOUS
<1> QED BY <1>1, <1>2, <1>3 DEF NoOlder, SignedIn

LEMMA SameSockets ==
  /\ rooms' = rooms => RoomsKept
  /\ /\ DOMAIN rooms' \subseteq DOMAIN rooms
     /\ \A r \in DOMAIN rooms' :
          /\ rooms'[r].b = rooms[r].b /\ rooms'[r].a_sockfd = rooms[r].a_sockfd
          /\ rooms'[r].b_sockfd = rooms[r].b_sockfd
     => RoomsKept
  /\ wars' = wars => ResultsKept
  /\ Sockets /\ UNCHANGED <<inserting, b_sockfd>>
     /\ (\A q \in Players : SignedIn(q) => SignedIn(q)') => InsertingKept
BY DEF RoomsKept, ResultsKept, InsertingKept, Sockets

LEMMA ClientSockets ==
  ASSUME TypeOK, TypeOK', TwoPlayers, WarInv, WarInv', Sockets,
         NEW p \in Players, Types(p) \/ Wake(p) \/ Listen(p)
  PROVE  Sockets'
<1>1. UNCHANGED server
  BY DEF Types, Wake, Listen, TypeSignUp, TypeSignIn, TypeList, TypeSignOut,
         TypeRequest, TypeAnswer, TypePick, Leave, Return, Sends
<1>2. \A q \in Players : loop'[q] = "closed" => loop[q] = "closed"
  <2>1. CASE Wake(p)
    <3>1. loop' = [loop EXCEPT ![p] = LoopOf[gstate[p]]]
      BY <2>1 DEF Wake
    <3>2. LoopOf[gstate[p]] # "closed"
      BY DEF LoopOf, TypeOK, TypeClient
    <3> QED BY <3>1, <3>2 DEF TypeOK, TypeClient
  <2>2. CASE Leave(p) \/ Return(p)
    BY <2>2 DEF Leave, Return, TypeOK, TypeClient
  <2>3. CASE \E yes \in BOOLEAN : TypeAnswer(p, yes)
    BY <2>3 DEF TypeAnswer, TypeOK, TypeClient
  <2>4. CASE \/ TypeSignUp(p) \/ \E right \in BOOLEAN : TypeSignIn(p, right)
             \/ TypeList(p) \/ TypeSignOut(p) \/ \E b \in Asks[p] : TypeRequest(p, b)
             \/ Listen(p) \/ \E skc \in Picks : TypePick(p, skc)
    BY <2>4 DEF TypeSignUp, TypeSignIn, TypeList, TypeSignOut, TypeRequest, TypePick, Listen
  <2> QED BY <2>1, <2>2, <2>3, <2>4 DEF Types
<1>3. \A q \in Players : \/ conn'[q] = conn[q]
                         \/ loop[q] = "closed" /\ conn'[q] = conn[q] + 1
  <2>1. CASE Return(p)
    BY <2>1 DEF Return, TypeOK, TypeClient
  <2>2. CASE ~Return(p)
    BY <2>2 DEF Types, Wake, Listen, TypeSignUp, TypeSignIn, TypeList, TypeSignOut,
                TypeRequest, TypeAnswer, TypePick, Leave, Sends
  <2> QED BY <2>1, <2>2
<1>4. UNCHANGED <<user_table, rooms, inserting, b_sockfd, wars>>
  BY <1>1 DEF server
<1>5. NoOlder
  <2>1. ASSUME NEW q \in Players PROVE Latest(q) <= LatestNext(q) /\ LatestNext(q) <= conn'[q]
    <3>1. PICK x \in Nat, y \in Nat : x = Latest(q) /\ y = conn[q] /\ x <= y
      BY LatestType DEF Sockets
    <3>2. conn'[q] = y \/ conn'[q] = y + 1
      BY <1>3, <3>1
    <3>3. CASE q \in Online
      <4>1. LatestNext(q) = x
        BY <1>4, <3>1, <3>3 DEF Latest, LatestNext, Online
      <4> QED BY <3>1, <3>2, <4>1
    <3>4. CASE q \notin Online
      <4>1. LatestNext(q) = conn'[q] /\ x = y
        BY <1>4, <3>1, <3>4 DEF Latest, LatestNext, Online
      <4> QED BY <3>1, <3>2, <4>1
    <3> QED BY <3>3, <3>4
  <2> QED BY <2>1 DEF NoOlder
<1>6. \A q \in Players : SignedIn(q) => SignedIn(q)'
  BY <1>2, <1>3, <1>4 DEF SignedIn, Online
<1> QED BY <1>4, <1>5, <1>6, SameSockets, SocketsKept

LEMMA ServesSockets ==
  ASSUME TypeOK, TypeOK', TwoPlayers, WarInv, WarInv', Sockets,
         NEW p \in Players, Serves(p)
  PROVE  Sockets'
<1>1. ASSUME UNCHANGED <<user_table, conn, loop>>
      PROVE  /\ NoOlder
             /\ \A q : SignedIn(q)' <=> SignedIn(q)
  <2>1. Online' = Online /\ \A q \in Online : user_table'[q].connfd = user_table[q].connfd
    BY <1>1 DEF Online
  <2> QED BY <1>1, <2>1, SameLatest
<1>2. CASE SignUp(p) \/ FriendsCreditList(p) \/ SignOut(p)
  <2>1. UNCHANGED <<user_table, conn, loop, rooms, inserting, b_sockfd, wars>>
    BY <1>2 DEF SignUp, FriendsCreditList, SignOut, Answers, server, client
  <2> QED BY <1>1, <2>1, SameSockets, SocketsKept
<1>3. CASE SignIn(p)
  <2>1. PICK valid : /\ valid = Validity(p, Head(up[p]).right)
                     /\ user_table' = IF valid # 0 THEN user_table
                          ELSE Put(user_table, p,
                                   [state |-> "ONLINE", credit |-> file[p],
                                    room |-> Nobody, connfd |-> conn[p]])
    BY <1>3 DEF SignIn
  <2>2. UNCHANGED <<conn, loop, rooms, inserting, b_sockfd, wars>>
    BY <1>3 DEF SignIn, Answers, client
  <2>3. CASE valid # 0
    BY <1>1, <2>1, <2>2, <2>3, SameSockets, SocketsKept
  <2>4. CASE valid = 0
    <3>1. p \notin Online
      BY <2>1, <2>4 DEF Validity
    <3>2. /\ Online' = Online \cup {p} /\ user_table'[p].connfd = conn[p]
          /\ \A q \in Online : user_table'[q] = user_table[q]
      BY <2>1, <2>4, <3>1 DEF Put, Online
    <3>3. \A q \in Players : LatestNext(q) = Latest(q)
      BY <2>2, <3>1, <3>2 DEF Latest, LatestNext, Online
    <3>4. \A q \in Players : Latest(q) \in Nat /\ Latest(q) <= conn[q]
      BY LatestType DEF Sockets
    <3>5. NoOlder
      <4>1. \A n \in Nat : n <= n
        OBVIOUS
      <4> QED BY <2>2, <3>3, <3>4, <4>1 DEF NoOlder
    <3>6. \A q \in Players : SignedIn(q) => SignedIn(q)'
      BY <2>2, <3>2 DEF SignedIn
    <3> QED BY <2>2, <3>5, <3>6, SameSockets, SocketsKept
  <2> QED BY <2>3, <2>4
<1>4. CASE WarRequest(p)
  <2>1. UNCHANGED <<user_table, conn, loop, rooms>>
    BY <1>4 DEF WarRequest, Refused, Answers, server, client
  <2>2. CASE UNCHANGED <<inserting, b_sockfd, wars>>
    BY <1>1, <2>1, <2>2, SameSockets, SocketsKept
  <2>3. CASE ~UNCHANGED <<inserting, b_sockfd, wars>>
    <3>1. PICK b : /\ Free(b)
                   /\ wars' = Append(wars, [room |-> p, b |-> Nobody, held |-> FALSE,
                                 results |-> NoResults, socks |-> <<0, 0>>, pc |-> "ask"])
                   /\ inserting' = [inserting EXCEPT ![p] = b]
                   /\ b_sockfd' = [b_sockfd EXCEPT ![p] = user_table[b].connfd]
      BY <1>4, <2>3 DEF WarRequest, Refused, server
    <3>2. SignedIn(p)
      <4>1. up[p] # <<>> /\ Head(up[p]).t = "request"
        BY <1>4 DEF WarRequest, NextIs
      <4> QED BY <4>1, CommandAt DEF Commands
    <3>3. NoOlder /\ \A q : SignedIn(q)' <=> SignedIn(q)
      BY <1>1, <2>1
    <3>4. b \in Online /\ b \in Players
      BY <3>1, UserFacts DEF Free
    <3>5. PICK n \in Nat : n = user_table[b].connfd
      BY <3>4, UserFacts DEF User
    <3>6. LatestNext(b) = n /\ n <= n
      BY <2>1, <3>4, <3>5 DEF Latest, LatestNext, Online
    <3>7. InsertingKept
      <4>1. ASSUME NEW q \in Players, inserting'[q] # Nobody, q # p
            PROVE  inserting'[q] = inserting[q] /\ b_sockfd'[q] = b_sockfd[q] /\ SignedIn(q)'
        BY <3>1, <3>3, <4>1 DEF Sockets, TypeOK, TypeServer
      <4>2. inserting'[p] = b /\ b_sockfd'[p] = n
        BY <3>1, <3>5 DEF TypeOK, TypeServer
      <4> QED BY <3>2, <3>3, <3>6, <4>1, <4>2 DEF InsertingKept
    <3>8. ResultsKept
      <4>1. PICK w : w = [room |-> p, b |-> Nobody, held |-> FALSE,
                          results |-> NoResults, socks |-> <<0, 0>>, pc |-> "ask"]
        OBVIOUS
      <4>2. wars' = Append(wars, w) /\ w.pc = "ask"
        BY <3>1, <4>1
      <4>3. PICK k \in Nat : k = Len(wars)
        BY AppendIs DEF TypeOK, TypeServer
      <4>4. /\ DOMAIN wars = 1..k /\ DOMAIN wars' = 1..(k + 1)
            /\ \A i \in 1..k : wars'[i] = wars[i]
            /\ wars'[k + 1] = w
        BY <4>2, <4>3 DEF TypeOK, TypeServer
      <4>5. \A i \in 1..(k + 1) : i \in 1..k \/ i = k + 1
        OBVIOUS
      <4> QED BY <4>2, <4>4, <4>5 DEF ResultsKept
    <3> QED BY <2>1, <3>3, <3>7, <3>8, SameSockets, SocketsKept
  <2> QED BY <2>2, <2>3
<1>5. CASE InsertRoom(p)
  <2>1. /\ inserting[p] # Nobody /\ rooms' = Inserted(p)
        /\ inserting' = [inserting EXCEPT ![p] = Nobody]
        /\ b_sockfd' = [b_sockfd EXCEPT ![p] = 0]
        /\ UNCHANGED <<user_table, conn, loop, wars>>
    BY <1>5 DEF InsertRoom, client
  <2>2. NoOlder /\ \A q : SignedIn(q)' <=> SignedIn(q)
    BY <1>1, <2>1
  <2>3. InsertingKept
    BY <2>1, <2>2 DEF InsertingKept, Sockets, TypeOK, TypeServer
  <2>4. RoomsKept
    <3>1. CASE p \in DOMAIN rooms
      BY <2>1, <3>1, SameSockets DEF Inserted
    <3>2. CASE p \notin DOMAIN rooms
      <4>1. /\ DOMAIN rooms' = DOMAIN rooms \cup {p}
            /\ \A r \in DOMAIN rooms : rooms'[r] = rooms[r]
            /\ rooms'[p] = NewRoom(inserting[p], conn[p], b_sockfd[p])
        BY <2>1, <3>2 DEF Inserted, Put
      <4>2. /\ rooms'[p].b = inserting[p] /\ rooms'[p].a_sockfd = conn[p]
            /\ rooms'[p].b_sockfd = b_sockfd[p]
        BY <4>1 DEF NewRoom
      <4>3. SignedIn(p) /\ b_sockfd[p] <= Latest(inserting[p])
        BY <2>1 DEF Sockets
      <4>4. \A q : LatestNext(q) = Latest(q)
        BY <2>1 DEF Latest, LatestNext, Online
      <4>5. PICK n \in Nat : n = conn[p]
        BY DEF TypeOK, TypeClient
      <4>6. Latest(p) = n /\ n <= n
        BY <4>3, <4>5 DEF SignedIn, Latest
      <4>7. /\ rooms'[p].a_sockfd <= LatestNext(p)
            /\ rooms'[p].b_sockfd <= LatestNext(rooms'[p].b)
        BY <4>2, <4>3, <4>4, <4>5, <4>6
      <4> QED BY <4>1, <4>7 DEF RoomsKept
    <3> QED BY <3>1, <3>2
  <2> QED BY <2>1, <2>2, <2>3, <2>4, SameSockets, SocketsKept
<1>6. CASE WarResponse(p)
  <2>1. PICK m : /\ m = Head(up[p])
                 /\ rooms' = IF m.room \notin DOMAIN rooms THEN rooms
                      ELSE [rooms EXCEPT ![m.room].yes = m.yes, ![m.room].sem = @ + 1]
    BY <1>6 DEF WarResponse
  <2>2. UNCHANGED <<user_table, conn, loop, inserting, b_sockfd, wars>>
    BY <1>6 DEF WarResponse, client
  <2>3. RoomsKept
    <3>1. \A r \in DOMAIN rooms : rooms[r] \in WarRoom
      BY RoomFacts
    <3>2. /\ DOMAIN rooms' = DOMAIN rooms
          /\ \A r \in DOMAIN rooms' :
               /\ rooms'[r].b = rooms[r].b /\ rooms'[r].a_sockfd = rooms[r].a_sockfd
               /\ rooms'[r].b_sockfd = rooms[r].b_sockfd
      BY <2>1, <3>1 DEF WarRoom
    <3> QED BY <3>2, SameSockets
  <2> QED BY <1>1, <2>2, <2>3, SameSockets, SocketsKept
<1>7. CASE Pick(p)
  <2>1. UNCHANGED <<user_table, conn, loop, inserting, b_sockfd, wars>>
    BY <1>7 DEF Pick, Faults, server, client
  <2>2. RoomsKept
    <3>1. \A r \in DOMAIN rooms : rooms[r] \in WarRoom
      BY RoomFacts
    <3>2. rooms' = rooms \/ rooms' = Picked(p, user_table[p].room, Head(up[p]).skc)
      BY <1>7 DEF Pick, Faults, server
    <3>3. /\ DOMAIN rooms' = DOMAIN rooms
          /\ \A r \in DOMAIN rooms' :
               /\ rooms'[r].b = rooms[r].b /\ rooms'[r].a_sockfd = rooms[r].a_sockfd
               /\ rooms'[r].b_sockfd = rooms[r].b_sockfd
      BY <3>1, <3>2 DEF WarRoom, Picked
    <3> QED BY <3>3, SameSockets
  <2> QED BY <1>1, <2>1, <2>2, SameSockets, SocketsKept
<1>8. CASE SignedOut(p)
  <2>1. /\ inserting[p] = Nobody /\ UNCHANGED <<conn, loop, rooms, inserting, b_sockfd>>
        /\ user_table' = Erase(user_table, p)
        /\ wars' = [i \in DOMAIN wars |->
                      IF wars[i].b = p THEN [wars[i] EXCEPT !.held = FALSE] ELSE wars[i]]
    BY <1>8 DEF SignedOut, NextIs, Answers, client
  <2>2. Online' = Online \ {p} /\ \A q \in Online \ {p} : user_table'[q] = user_table[q]
    BY <2>1 DEF Erase, Online
  <2>3. NoOlder
    <3>1. ASSUME NEW q \in Players PROVE Latest(q) <= LatestNext(q) /\ LatestNext(q) <= conn'[q]
      <4>1. PICK x \in Nat, y \in Nat : x = Latest(q) /\ y = conn[q] /\ x <= y
        BY LatestType DEF Sockets
      <4>2. LatestNext(q) = x \/ LatestNext(q) = y
        BY <2>1, <2>2, <4>1 DEF Latest, LatestNext, Online
      <4>3. conn'[q] = y
        BY <2>1, <4>1
      <4> QED BY <4>1, <4>2, <4>3
    <3> QED BY <3>1 DEF NoOlder
  <2>4. InsertingKept
    <3>1. ASSUME NEW q \in Players, inserting'[q] # Nobody PROVE SignedIn(q)'
      <4>1. q # p /\ SignedIn(q)
        BY <2>1, <3>1 DEF Sockets
      <4> QED BY <2>1, <2>2, <4>1 DEF SignedIn
    <3> QED BY <2>1, <3>1 DEF InsertingKept
  <2>5. ResultsKept
    <3>1. \A i \in DOMAIN wars : wars[i] \in WarThread
      BY WarFacts
    <3> QED BY <2>1, <3>1 DEF ResultsKept, WarThread
  <2> QED BY <2>1, <2>3, <2>4, <2>5, SameSockets, SocketsKept
<1>9. CASE CloseConn(p)
  <2>1. /\ inserting[p] = Nobody /\ loop' = [loop EXCEPT ![p] = "closed"]
        /\ UNCHANGED <<user_table, conn, rooms, inserting, b_sockfd, wars>>
    BY <1>9 DEF CloseConn
  <2>2. NoOlder
    <3>1. Online' = Online /\ \A q \in Online : user_table'[q].connfd = user_table[q].connfd
      BY <2>1 DEF Online
    <3> QED BY <2>1, <3>1, SameLatest
  <2>3. InsertingKept
    <3>1. ASSUME NEW q \in Players, inserting'[q] # Nobody PROVE SignedIn(q)'
      <4>1. q # p /\ SignedIn(q)
        BY <2>1, <3>1 DEF Sockets
      <4> QED BY <2>1, <4>1 DEF SignedIn, Online, TypeOK, TypeClient
    <3> QED BY <2>1, <3>1 DEF InsertingKept
  <2> QED BY <2>1, <2>2, <2>3, SameSockets, SocketsKept
<1> QED BY <1>2, <1>3, <1>4, <1>5, <1>6, <1>7, <1>8, <1>9 DEF Serves


LEMMA FightsSockets ==
  ASSUME TypeOK, TypeOK', TwoPlayers, WarInv, WarInv', Sockets,
         NEW i \in DOMAIN wars, Fights(i)
  PROVE  Sockets'
<1>1. UNCHANGED <<inserting, b_sockfd, conn, loop>>
  BY DEF Fights, Ask, Answered, Judge, SendResults, Restore, Crash, Faults, server, client
<1>2. ASSUME Online' = Online,
             \A q \in Online : user_table'[q].connfd = user_table[q].connfd
      PROVE  NoOlder /\ InsertingKept
  <2>1. NoOlder /\ \A q : SignedIn(q)' <=> SignedIn(q)
    BY <1>1, <1>2, SameLatest
  <2> QED BY <1>1, <2>1, SameSockets
<1>3. \A r \in DOMAIN rooms : rooms[r] \in WarRoom
  BY RoomFacts
<1>4. \A q \in Online : user_table[q] \in User
  BY UserFacts
<1>5. \A j \in DOMAIN wars : wars[j] \in WarThread
  BY WarFacts
<1>6. CASE Ask(i) \/ Crash(i)
  <2>1. UNCHANGED <<user_table, rooms>>
    BY <1>6 DEF Ask, Crash, Faults, server
  <2>2. ResultsKept
    <3>1. wars' = wars \/ wars' = [wars EXCEPT ![i].pc = "wait"]
      BY <1>6 DEF Ask, Goes, Crash, Faults, server
    <3> QED BY <1>5, <3>1 DEF ResultsKept, WarThread
  <2>3. NoOlder /\ InsertingKept
    BY <1>2, <2>1 DEF Online
  <2> QED BY <2>1, <2>2, <2>3, SameSockets, SocketsKept
<1>7. CASE Answered(i)
  <2>0. PICK a, b : a = Room(i) /\ b = rooms[a].b
    OBVIOUS
  <2>1. /\ DOMAIN rooms' = DOMAIN rooms
        /\ \A r \in DOMAIN rooms' :
             /\ rooms'[r].b = rooms[r].b /\ rooms'[r].a_sockfd = rooms[r].a_sockfd
             /\ rooms'[r].b_sockfd = rooms[r].b_sockfd
    <3>1. \/ rooms' = [rooms EXCEPT ![a].sem = @ - 1]
          \/ rooms' = [rooms EXCEPT ![a].sem = @ - 1,
                                    ![a].skc1 = NotRecved, ![a].skc2 = NotRecved]
      BY <1>7, <2>0 DEF Answered
    <3> QED BY <1>3, <3>1 DEF WarRoom
  <2>2. /\ Online' = Online
        /\ \A q \in Online : user_table'[q].connfd = user_table[q].connfd
    <3>1. \/ user_table' = user_table
          \/ user_table' = [p \in Online |-> IF p \notin {a, b} THEN user_table[p]
                              ELSE [user_table[p] EXCEPT !.state = "WAR", !.room = a]]
      BY <1>7, <2>0 DEF Answered
    <3>2. Online' = Online
      BY <3>1 DEF Online
    <3>3. \A q \in Online :
            \/ user_table'[q] = user_table[q]
            \/ user_table'[q] = [user_table[q] EXCEPT !.state = "WAR", !.room = a]
      BY <3>1
    <3> QED BY <1>4, <3>2, <3>3 DEF User
  <2>3. ResultsKept
    <3>1. \/ wars' = [wars EXCEPT ![i].pc = "exit"]
          \/ wars' = [wars EXCEPT ![i].pc = "turn", ![i].b = b, ![i].held = TRUE]
      BY <1>7, <2>0 DEF Answered, Goes
    <3>2. /\ DOMAIN wars' = DOMAIN wars
          /\ \A j \in DOMAIN wars : j # i => wars'[j] = wars[j]
          /\ wars'[i].pc # "results"
      BY <1>5, <3>1 DEF WarThread
    <3> QED BY <3>2 DEF ResultsKept
  <2>4. NoOlder /\ InsertingKept
    BY <1>2, <2>2
  <2>5. RoomsKept
    BY <2>1, SameSockets
  <2> QED BY <2>3, <2>4, <2>5, SocketsKept
<1>8. CASE Judge(i)
  <2>1. PICK turn : turn = Turn(i)
    OBVIOUS
  <2>2. PICK a, b \in Players : a = Room(i) /\ b = rooms[a].b
    BY <1>3, <1>8, RoomFacts DEF Judge, TurnOver, WarRoom
  <2>3. turn.a = a /\ turn.b = b /\ a \in DOMAIN rooms
    BY <1>8, <2>1, <2>2 DEF Judge, TurnOver, Turn
  <2>4. wars[i].b = b
    <3>1. wars[i].pc = "turn" /\ wars[i].b \in Players /\ wars[i].b # a /\ b # a
      BY <1>8, <2>2, <2>3 DEF Judge, WarAt, WarInv, Threads, Others, Room
    <3> QED BY <3>1 DEF TwoPlayers
  <2>5. /\ user_table' = PaidBoth(turn)
        /\ rooms' = IF turn.a_result.final # 0 THEN Erase(rooms, a)
                    ELSE [rooms EXCEPT ![a].a_blood = turn.a_blood,
                                       ![a].b_blood = turn.b_blood]
        /\ wars' = [wars EXCEPT ![i].pc = "results",
                                ![i].results = <<turn.a_result, turn.b_result>>,
                                ![i].socks = <<rooms[a].a_sockfd, rooms[a].b_sockfd>>]
    BY <1>8, <2>1, <2>3 DEF Judge
  <2>6. /\ Online' = Online
        /\ \A q \in Online : user_table'[q].connfd = user_table[q].connfd
    BY <1>4, <2>5 DEF PaidBoth, Online, User
  <2>7. NoOlder /\ InsertingKept
    BY <1>2, <2>6
  <2>8. RoomsKept
    <3>1. /\ DOMAIN rooms' \subseteq DOMAIN rooms
          /\ \A r \in DOMAIN rooms' :
               /\ rooms'[r].b = rooms[r].b /\ rooms'[r].a_sockfd = rooms[r].a_sockfd
               /\ rooms'[r].b_sockfd = rooms[r].b_sockfd
      BY <1>3, <2>5 DEF Erase, WarRoom
    <3> QED BY <3>1, SameSockets
  <2>9. ResultsKept
    <3>1. rooms[a].a_sockfd <= Latest(a) /\ rooms[a].b_sockfd <= Latest(b)
      BY <2>2, <2>3 DEF Sockets
    <3>2. LatestNext(a) = Latest(a) /\ LatestNext(b) = Latest(b)
      BY <1>1, <2>6 DEF Latest, LatestNext, Online
    <3>3. /\ wars'[i].room = a /\ wars'[i].b = b
          /\ wars'[i].socks[1] = rooms[a].a_sockfd /\ wars'[i].socks[2] = rooms[a].b_sockfd
      BY <1>5, <2>2, <2>4, <2>5 DEF WarThread, Room
    <3>4. DOMAIN wars' = DOMAIN wars /\ \A j \in DOMAIN wars : j # i => wars'[j] = wars[j]
      BY <2>5
    <3> QED BY <3>1, <3>2, <3>3, <3>4 DEF ResultsKept
  <2> QED BY <2>7, <2>8, <2>9, SocketsKept
<1>9. CASE SendResults(i)
  <2>1. user_table' = user_table
    BY <1>9 DEF SendResults
  <2>2. RoomsKept
    <3>1. \/ rooms' = rooms
          \/ rooms' = [rooms EXCEPT ![Room(i)].skc1 = NotRecved, ![Room(i)].skc2 = NotRecved]
      BY <1>9 DEF SendResults
    <3>2. /\ DOMAIN rooms' = DOMAIN rooms
          /\ \A r \in DOMAIN rooms' :
               /\ rooms'[r].b = rooms[r].b /\ rooms'[r].a_sockfd = rooms[r].a_sockfd
               /\ rooms'[r].b_sockfd = rooms[r].b_sockfd
      BY <1>3, <3>1 DEF WarRoom
    <3> QED BY <3>2, SameSockets
  <2>3. ResultsKept
    <3>1. PICK to \in {"restore", "turn"} :
            wars' = [wars EXCEPT ![i].pc = to, ![i].results = NoResults, ![i].socks = <<0, 0>>]
      BY <1>9 DEF SendResults
    <3> QED BY <1>5, <3>1 DEF ResultsKept, WarThread
  <2>4. NoOlder /\ InsertingKept
    BY <1>2, <2>1 DEF Online
  <2> QED BY <2>2, <2>3, <2>4, SocketsKept
<1>10. CASE Restore(i)
  <2>1. user_table' = BackOnline(Room(i), wars[i].b) /\ rooms' = rooms
    BY <1>10 DEF Restore
  <2>2. /\ Online' = Online
        /\ \A q \in Online : user_table'[q].connfd = user_table[q].connfd
    BY <1>4, <2>1 DEF BackOnline, Online, User
  <2>3. ResultsKept
    <3>1. wars' = [wars EXCEPT ![i].pc = "exit", ![i].b = Nobody, ![i].held = FALSE]
      BY <1>10 DEF Restore
    <3> QED BY <1>5, <3>1 DEF ResultsKept, WarThread
  <2>4. NoOlder /\ InsertingKept
    BY <1>2, <2>2
  <2> QED BY <2>1, <2>3, <2>4, SameSockets, SocketsKept
<1> QED BY <1>6, <1>7, <1>8, <1>9, <1>10 DEF Fights

LEMMA SocketsStep ==
  ASSUME TypeOK, TypeOK', TwoPlayers, WarInv, WarInv', Sockets, [Next]_vars
  PROVE  Sockets'
<1>1. CASE UNCHANGED vars
  <2>1. UNCHANGED <<user_table, rooms, inserting, b_sockfd, wars, conn, loop>>
    BY <1>1 DEF vars, server, client
  <2>2. NoOlder /\ \A q : SignedIn(q)' <=> SignedIn(q)
    <3>1. Online' = Online /\ \A q \in Online : user_table'[q].connfd = user_table[q].connfd
      BY <2>1 DEF Online
    <3> QED BY <2>1, <3>1, SameLatest
  <2> QED BY <2>1, <2>2, SameSockets, SocketsKept
<1>2. CASE Next
  BY <1>2, ClientSockets, ServesSockets, FightsSockets DEF Next
<1> QED BY <1>1, <1>2

-----------------------------------------------------------------------------
(* Between the two steps of a sign-out. *)
HeadKept(q) ==
  up[q] # <<>> /\ Head(up[q]).t = "signout" =>
    up'[q] # <<>> /\ Head(up'[q]).t = "signout"

LEMMA ClientLeaving ==
  ASSUME TypeOK, Leaving, NEW p \in Players, Types(p) \/ Wake(p) \/ Listen(p)
  PROVE  Leaving'
<1>1. UNCHANGED server
  BY DEF Types, Wake, Listen, TypeSignUp, TypeSignIn, TypeList, TypeSignOut,
         TypeRequest, TypeAnswer, TypePick, Leave, Return, Sends
<1>2. ASSUME NEW m, up' = [up EXCEPT ![p] = Append(@, m)], NEW q \in Players
      PROVE  HeadKept(q)
  <2>1. CASE q # p
    BY <1>2, <2>1 DEF HeadKept, TypeOK, TypeConn
  <2>2. CASE q = p
    <3>1. up'[q] = Append(up[q], m) /\ up[q] \in Seq(UpMsg)
      BY <1>2, <2>2 DEF TypeOK, TypeConn
    <3>2. up[q] # <<>> => up'[q] # <<>> /\ Head(up'[q]) = Head(up[q])
      BY <3>1
    <3> QED BY <3>2 DEF HeadKept
  <2> QED BY <2>1, <2>2
<1>3. ASSUME NEW q \in Players PROVE HeadKept(q)
  <2>1. CASE up' = up
    BY <2>1 DEF HeadKept
  <2>2. CASE \E m, w : Sends(p, m, w)
    BY <1>2, <2>2 DEF Sends
  <2> QED BY <2>1, <2>2 DEF Types, Wake, Listen, TypeSignUp, TypeSignIn, TypeList,
        TypeSignOut, TypeRequest, TypeAnswer, TypePick, Leave, Return
<1>4. UNCHANGED <<leaving, user_table, file>>
  BY <1>1 DEF server
<1> QED BY <1>3, <1>4 DEF Leaving, HeadKept, Online

LEMMA ServesLeaving ==
  ASSUME TypeOK, WarInv, Leaving, NEW p \in Players, Serves(p)
  PROVE  Leaving'
<1>1. \A q \in Players \ {p} :
        /\ leaving'[q] = leaving[q] /\ up'[q] = up[q] /\ file'[q] = file[q]
        /\ q \in Online => q \in DOMAIN user_table' /\ user_table'[q] = user_table[q]
  <2>1. \A q \in Players \ {p} : leaving'[q] = leaving[q]
    <3>1. leaving' = leaving \/ \E x : leaving' = [leaving EXCEPT ![p] = x]
      BY DEF Serves, SignUp, SignIn, FriendsCreditList, WarRequest, Refused, InsertRoom,
             WarResponse, Pick, Faults, SignOut, SignedOut, CloseConn, Answers, server
    <3> QED BY <3>1 DEF TypeOK, TypeServer
  <2>2. \A q \in Players \ {p} : up'[q] = up[q]
    <3>1. up' = up \/ \E x : up' = [up EXCEPT ![p] = x]
      BY DEF Serves, SignUp, SignIn, FriendsCreditList, WarRequest, Refused, InsertRoom,
             WarResponse, Pick, Faults, SignOut, SignedOut, CloseConn, Answers, server
    <3> QED BY <3>1 DEF TypeOK, TypeConn
  <2>3. \A q \in Players \ {p} : file'[q] = file[q]
    <3>1. file' = file \/ \E x : file' = [file EXCEPT ![p] = x]
      BY DEF Serves, SignUp, SignIn, FriendsCreditList, WarRequest, Refused, InsertRoom,
             WarResponse, Pick, Faults, SignOut, SignedOut, CloseConn, Answers, server
    <3> QED BY <3>1 DEF TypeOK, TypeServer
  <2>4. \/ user_table' = user_table \/ user_table' = Erase(user_table, p)
        \/ \E u : user_table' = Put(user_table, p, u)
    BY DEF Serves, SignUp, SignIn, FriendsCreditList, WarRequest, Refused, InsertRoom,
           WarResponse, Pick, Faults, SignOut, SignedOut, CloseConn, server
  <2>5. \A q \in Players \ {p} :
          q \in Online => q \in DOMAIN user_table' /\ user_table'[q] = user_table[q]
    BY <2>4 DEF Erase, Put, Online
  <2> QED BY <2>1, <2>2, <2>3, <2>5
<1>2. leaving'[p] =>
        /\ p \in Online' /\ file'[p] = user_table'[p].credit
        /\ up'[p] # <<>> /\ Head(up'[p]).t = "signout"
  <2>1. CASE SignOut(p)
    <3>1. p \in Online
      <4>1. up[p] # <<>> /\ Head(up[p]).t = "signout"
        BY <2>1 DEF SignOut, NextIs
      <4> QED BY <4>1, CommandAt DEF Commands, SignedIn
    <3> QED BY <2>1, <3>1 DEF SignOut, NextIs, Online, TypeOK, TypeServer
  <2>2. CASE SignedOut(p)
    BY <2>2 DEF SignedOut, TypeOK, TypeServer
  <2>3. CASE InsertRoom(p)
    BY <2>3 DEF InsertRoom, Leaving, Online
  <2>4. CASE CloseConn(p)
    BY <2>4 DEF CloseConn, Leaving
  <2>5. CASE \/ SignUp(p) \/ SignIn(p) \/ FriendsCreditList(p) \/ WarRequest(p)
             \/ WarResponse(p) \/ Pick(p)
    <3>1. up[p] # <<>> /\ Head(up[p]).t # "signout"
      BY <2>5 DEF SignUp, SignIn, FriendsCreditList, WarRequest, WarResponse, Pick, NextIs
    <3>2. leaving' = leaving
      BY <2>5 DEF SignUp, SignIn, FriendsCreditList, WarRequest, Refused, WarResponse,
                  Pick, Faults, server
    <3> QED BY <3>1, <3>2 DEF Leaving
  <2> QED BY <2>1, <2>2, <2>3, <2>4, <2>5 DEF Serves
<1>3. ASSUME NEW q \in Players, q # p, leaving'[q]
      PROVE  /\ q \in Online' /\ file'[q] = user_table'[q].credit
             /\ up'[q] # <<>> /\ Head(up'[q]).t = "signout"
  BY <1>1, <1>3 DEF Leaving, Online
<1> QED BY <1>2, <1>3 DEF Leaving

LEMMA FightsLeaving ==
  ASSUME TypeOK, TwoPlayers, WarInv, Leaving, NEW i \in DOMAIN wars, Fights(i)
  PROVE  Leaving'
<1>1. UNCHANGED <<file, leaving, up>>
  BY DEF Fights, Ask, Answered, Judge, SendResults, Restore, Crash, Faults, server
<1>2. \A q \in Online : user_table[q] \in User
  BY UserFacts
<1>3. CASE Judge(i)
  <2>1. \A q \in Players : UpOK(q) /\ Fighting(q)
    <3>1. wars[i].pc = "turn"
      BY <1>3 DEF Judge, WarAt
    <3> QED BY <3>1, Fight
  <2>2. ASSUME NEW q \in Players, leaving[q] PROVE FALSE
    <3>1. up[q] # <<>> /\ Head(up[q]).t = "signout"
      BY <2>2 DEF Leaving
    <3>2. Has(up[q], {"signout"})
      BY <3>1, HeadHas DEF TypeOK, TypeConn
    <3>3. ~Has(up[q], {"signout"})
      BY <2>1 DEF UpOK, Has
    <3> QED BY <3>2, <3>3
  <2> QED BY <1>1, <2>2 DEF Leaving
<1>4. CASE ~Judge(i)
  <2>1. /\ Online' = Online
        /\ \A q \in Online : user_table'[q].credit = user_table[q].credit
    <3>0. PICK a, b : a = Room(i) /\ b = rooms[a].b
      OBVIOUS
    <3>1. \/ user_table' = user_table
          \/ user_table' = [p \in Online |-> IF p \notin {a, b} THEN user_table[p]
                              ELSE [user_table[p] EXCEPT !.state = "WAR", !.room = a]]
          \/ user_table' = BackOnline(a, wars[i].b)
      BY <1>4, <3>0 DEF Fights, Ask, Answered, SendResults, Restore, Crash, Faults, server
    <3>2. Online' = Online
      BY <3>1 DEF BackOnline, Online
    <3>3. \A q \in Online :
            \/ user_table'[q] = user_table[q]
            \/ user_table'[q] = [user_table[q] EXCEPT !.state = "WAR", !.room = a]
            \/ user_table'[q] = [user_table[q] EXCEPT !.state = "ONLINE"]
      BY <3>1 DEF BackOnline
    <3> QED BY <1>2, <3>2, <3>3 DEF User
  <2> QED BY <1>1, <2>1 DEF Leaving
<1> QED BY <1>3, <1>4

LEMMA LeavingStep ==
  ASSUME TypeOK, TwoPlayers, WarInv, Leaving, [Next]_vars
  PROVE  Leaving'
<1>1. CASE UNCHANGED vars
  <2>1. UNCHANGED <<user_table, file, leaving, up>>
    BY <1>1 DEF vars, server
  <2> QED BY <2>1 DEF Leaving, Online
<1>2. CASE Next
  BY <1>2, ClientLeaving, ServesLeaving, FightsLeaving DEF Next
<1> QED BY <1>1, <1>2

LEMMA SocketsInit == Init => Sockets /\ Leaving
<1> SUFFICES ASSUME Init PROVE Sockets /\ Leaving
  OBVIOUS
<1>1. DOMAIN rooms = {} /\ DOMAIN wars = {} /\ Online = {}
  BY EmptyIs DEF Init, Online
<1>2. \A p \in Players : conn[p] = 1 /\ inserting[p] = Nobody /\ ~leaving[p]
  BY DEF Init
<1> QED BY <1>1, <1>2 DEF Sockets, Latest, Leaving

LEMMA WarAlways ==
  ASSUME TwoPlayers
  PROVE  Spec => [](TypeOK /\ WarInv /\ Sockets /\ Leaving)
<1>1. Init => TypeOK /\ WarInv /\ Sockets /\ Leaving
  BY InitType, WarInit, SocketsInit
<1>2. TypeOK /\ WarInv /\ Sockets /\ Leaving /\ [Next]_vars
        => (TypeOK /\ WarInv /\ Sockets /\ Leaving)'
  BY TypeStep, WarStep, SocketsStep, LeavingStep
<1> QED BY <1>1, <1>2, PTL DEF Spec

(* What the threads of the wars and the tables say of each other. *)
LEMMA ThreadsAre == WarInv => WarThreads
<1> SUFFICES ASSUME WarInv PROVE WarThreads
  OBVIOUS
<1>1. ASSUME NEW i \in DOMAIN wars, NEW j \in DOMAIN wars,
             Room(i) = Room(j), InRoom(i), InRoom(j)
      PROVE  i = j
  <2>1. wars[i].pc # "exit" /\ wars[j].pc # "exit" /\ wars[i].room = wars[j].room
    BY <1>1 DEF InRoom, Room
  <2> QED BY <2>1 DEF WarInv, Threads
<1>2. ASSUME NEW p \in Online, user_table[p].state = "WAR"
      PROVE  \E i \in DOMAIN wars :
               wars[i].pc \in {"turn", "results", "restore"} /\ p \in Fighters(i)
  BY <1>2 DEF WarInv, Threads, Fighting, In, Fighters, Room
<1>3. ASSUME NEW i \in DOMAIN wars, wars[i].pc \in {"turn", "results"},
             NEW p \in Fighters(i)
      PROVE  p \in Online /\ user_table[p].state = "WAR" /\ user_table[p].room = Room(i)
  <2>1. wars[i].pc \in {"turn", "results", "restore"} /\ wars[i].pc # "restore"
    BY <1>3
  <2> QED BY <2>1 DEF WarInv, Threads, Fighters, Room
<1> QED BY <1>1, <1>2, <1>3 DEF WarThreads

-----------------------------------------------------------------------------
(* The members of the sum that Owed is. *)
PostsIn(s) == {k \in DOMAIN s : Posts(s[k])}
CommandsIn(s) == {k \in DOMAIN s : s[k].t \notin {"answer", "pick"}}
CallsOf(p) ==
  {i \in DOMAIN wars : Hears(p) /\ Room(i) = p /\ wars[i].pc \in {"ask", "wait"}}

LEMMA OwedIs ==
  ASSUME NEW p
  PROVE  Owed(p) = gsem[p] + Cardinality(PostsIn(down[p]))
                     + Cardinality(CommandsIn(up[p])) + Cardinality(CallsOf(p))
BY DEF Owed, Count, PostsIn, CommandsIn, CallsOf

LEMMA NoneOrOne ==
  ASSUME NEW S
  PROVE  /\ S = {} => Cardinality(S) = 0
         /\ \A k : S = {k} => Cardinality(S) = 1
BY FS_EmptySet, FS_Singleton

LEMMA PostsCount ==
  ASSUME NEW p
  PROVE  /\ NoPost(p) => gsem[p] = 0 /\ Cardinality(PostsIn(down[p])) = 0
         /\ \A g : Will(p, g) =>
              \/ gsem[p] = 1 /\ Cardinality(PostsIn(down[p])) = 0
              \/ gsem[p] = 0 /\ Cardinality(PostsIn(down[p])) = 1
<1>1. ASSUME Silent(down[p]) PROVE Cardinality(PostsIn(down[p])) = 0
  <2>1. PostsIn(down[p]) = {}
    BY <1>1 DEF Silent, PostsIn
  <2> QED BY <2>1, NoneOrOne
<1>2. ASSUME NEW old, NEW new, OnePost(down[p], old, new)
      PROVE  Cardinality(PostsIn(down[p])) = 1
  <2>1. PICK k \in DOMAIN down[p] :
          Posts(down[p][k]) /\ \A j \in DOMAIN down[p] : j # k => ~Posts(down[p][j])
    BY <1>2 DEF OnePost
  <2>2. PostsIn(down[p]) = {k}
    BY <2>1 DEF PostsIn
  <2> QED BY <2>2, NoneOrOne
<1> QED BY <1>1, <1>2 DEF NoPost, Will

LEMMA CommandsCount ==
  ASSUME NEW s \in Seq(UpMsg), Orderly(s)
  PROVE  /\ ~Has(s, Commands) => Cardinality(CommandsIn(s)) = 0
         /\ Has(s, Commands) => Cardinality(CommandsIn(s)) = 1
<1>1. \A k \in DOMAIN s : s[k].t \notin {"answer", "pick"} <=> s[k].t \in Commands
  <2>1. \A k \in DOMAIN s : s[k] \in UpMsg
    OBVIOUS
  <2> QED BY <2>1 DEF UpMsg, Commands
<1>2. CommandsIn(s) = {k \in DOMAIN s : s[k].t \in Commands}
  BY <1>1 DEF CommandsIn
<1>3. ASSUME ~Has(s, Commands) PROVE Cardinality(CommandsIn(s)) = 0
  <2>1. CommandsIn(s) = {}
    BY <1>2, <1>3 DEF Has
  <2> QED BY <2>1, NoneOrOne
<1>4. ASSUME Has(s, Commands) PROVE Cardinality(CommandsIn(s)) = 1
  <2>1. PICK n \in Nat : n = Len(s) /\ DOMAIN s = 1..n
    OBVIOUS
  <2>2. ASSUME NEW k \in DOMAIN s, s[k].t \in Commands PROVE k = n
    <3>1. k \in 1..n /\ ~(k < n)
      BY <2>1, <2>2 DEF Orderly, Commands
    <3> QED BY <3>1
  <2>3. PICK k \in DOMAIN s : s[k].t \in Commands
    BY <1>4 DEF Has
  <2>4. CommandsIn(s) = {k}
    BY <1>2, <2>2, <2>3
  <2> QED BY <2>4, NoneOrOne
<1> QED BY <1>3, <1>4

LEMMA CallsCount ==
  ASSUME Threads, NEW p
  PROVE  /\ ~Calling(p) \/ ~Hears(p) => Cardinality(CallsOf(p)) = 0
         /\ Calling(p) /\ Hears(p) => Cardinality(CallsOf(p)) = 1
<1>1. ASSUME ~Calling(p) \/ ~Hears(p) PROVE Cardinality(CallsOf(p)) = 0
  <2>1. CallsOf(p) = {}
    BY <1>1 DEF CallsOf, Calling, Room
  <2> QED BY <2>1, NoneOrOne
<1>2. ASSUME Calling(p), Hears(p) PROVE Cardinality(CallsOf(p)) = 1
  <2>1. PICK i \in DOMAIN wars : wars[i].pc \in {"ask", "wait"} /\ wars[i].room = p
    BY <1>2 DEF Calling
  <2>2. ASSUME NEW j \in DOMAIN wars, wars[j].pc \in {"ask", "wait"}, wars[j].room = p
        PROVE  j = i
    BY <2>1, <2>2 DEF Threads
  <2>3. CallsOf(p) = {i}
    BY <1>2, <2>1, <2>2 DEF CallsOf, Room
  <2> QED BY <2>3, NoneOrOne
<1> QED BY <1>1, <1>2

(* A thread whose player signed in with an earlier client answers nobody. *)
LEMMA CallsOfOld ==
  ASSUME TypeOK, Sockets, NEW p \in Players, UpOK(p), ~SignedIn(p)
  PROVE  ~Calling(p) \/ ~Hears(p)
<1>1. CASE p \notin Online
  BY <1>1 DEF UpOK
<1>2. CASE p \in Online /\ p \notin DOMAIN rooms
  BY <1>2 DEF Hears, Sockets
<1>3. CASE p \in Online /\ p \in DOMAIN rooms
  <2>1. PICK s \in Nat : s = rooms[p].a_sockfd
    BY <1>3, RoomFacts DEF WarRoom
  <2>2. s <= Latest(p)
    BY <1>3, <2>1 DEF Sockets
  <2>3. ~Reaches(p, s)
    BY <1>3, <2>2, Arrives
  <2> QED BY <1>3, <2>1, <2>3 DEF Hears
<1> QED BY <1>1, <1>2, <1>3

-----------------------------------------------------------------------------
(* One that waits for an answer: it is a post there or under way, a command *)
(* that the server has yet to take, or a thread that waits in turn.         *)
LEMMA OwedOne ==
  ASSUME TypeOK, WarInv, Sockets, NEW p \in Players, wait[p] \in {"call", "request"}
  PROVE  Owed(p) = 1 \/ (wait[p] = "request" /\ misled[p])
<1>1. Threads /\ UpOK(p) /\ Client(p) /\ Orderly(up[p]) /\ up[p] \in Seq(UpMsg)
  BY DEF WarInv, Players2, UpOK, TypeOK, TypeConn
<1>2. loop[p] \in {"welcome", "online"}
  BY <1>1 DEF TypeOK, TypeClient, Client, AtWar, Ended
<1>3. \/ /\ NoPost(p) /\ Has(up[p], Commands)
         /\ ~Calling(p) \/ ~Hears(p)
      \/ /\ \E g : Will(p, g)
         /\ ~Has(up[p], Commands)
         /\ ~Calling(p) \/ ~Hears(p)
      \/ NoPost(p) /\ ~Has(up[p], Commands) /\ Calling(p) /\ Hears(p)
      \/ wait[p] = "request" /\ misled[p]
  <2>1. ~Has(<<>>, Commands)
    BY EmptyIs DEF Has
  <2>2. ~SignedIn(p) => ~Calling(p) \/ ~Hears(p)
    BY <1>1, CallsOfOld
  <2>3. Has(up[p], {"signup", "signin"}) \/ Has(up[p], {"list", "signout"})
          \/ Has(up[p], {"request"}) => Has(up[p], Commands)
    BY DEF Has, Commands
  <2>4. ~Bound(p) => ~Calling(p)
    BY DEF Bound
  <2>5. CASE loop[p] = "welcome"
    <3>1. Welcome(p)
      BY <1>1, <2>5 DEF Client
    <3> QED BY <3>1, <2>1, <2>2, <2>3, <2>4 DEF Welcome
  <2>6. CASE loop[p] = "online"
    <3>1. OnLine(p)
      BY <1>1, <2>6 DEF Client
    <3>2. p \notin Online => ~Calling(p)
      BY <1>1 DEF UpOK
    <3>3. Hosting(p) => ~Calling(p)
      BY <1>1, HostIsNotCalling
    <3>4. Direct(p) => Hears(p)
      BY <2>6 DEF Direct, Hears, Reaches, Ended
    <3>5. wait[p] = "call" => ~(wait[p] = "request")
      OBVIOUS
    <3>6. Stuck(p) => wait[p] = "request" /\ misled[p]
      BY DEF Stuck
    <3> QED BY <3>1, <3>2, <3>3, <3>4, <3>5, <3>6, <2>1, <2>3, <2>4 DEF OnLine
  <2> QED BY <1>2, <2>5, <2>6
<1>4. CASE /\ NoPost(p) /\ Has(up[p], Commands)
           /\ ~Calling(p) \/ ~Hears(p)
  <2>1. /\ gsem[p] = 0 /\ Cardinality(PostsIn(down[p])) = 0
        /\ Cardinality(CommandsIn(up[p])) = 1 /\ Cardinality(CallsOf(p)) = 0
    BY <1>1, <1>4, PostsCount, CommandsCount, CallsCount
  <2> QED BY <2>1, OwedIs
<1>5. CASE /\ \E g : Will(p, g)
           /\ ~Has(up[p], Commands)
           /\ ~Calling(p) \/ ~Hears(p)
  <2>1. Cardinality(CommandsIn(up[p])) = 0 /\ Cardinality(CallsOf(p)) = 0
    BY <1>1, <1>5, CommandsCount, CallsCount
  <2>2. \/ gsem[p] = 1 /\ Cardinality(PostsIn(down[p])) = 0
        \/ gsem[p] = 0 /\ Cardinality(PostsIn(down[p])) = 1
    BY <1>5, PostsCount
  <2> QED BY <2>1, <2>2, OwedIs
<1>6. CASE NoPost(p) /\ ~Has(up[p], Commands) /\ Calling(p) /\ Hears(p)
  <2>1. /\ gsem[p] = 0 /\ Cardinality(PostsIn(down[p])) = 0
        /\ Cardinality(CommandsIn(up[p])) = 0 /\ Cardinality(CallsOf(p)) = 1
    BY <1>1, <1>6, PostsCount, CommandsCount, CallsCount
  <2> QED BY <2>1, OwedIs
<1> QED BY <1>3, <1>4, <1>5, <1>6

LEMMA OwedNone ==
  ASSUME TypeOK, WarInv, Sockets, NEW p \in Players, At(p, "welcome") \/ At(p, "online")
  PROVE  Owed(p) = 0
<1>1. Threads /\ UpOK(p) /\ Client(p) /\ Orderly(up[p]) /\ up[p] \in Seq(UpMsg)
  BY DEF WarInv, Players2, UpOK, TypeOK, TypeConn
<1>2. /\ NoPost(p) /\ ~Has(up[p], Commands)
      /\ ~Calling(p) \/ ~Hears(p)
  <2>1. ~Has(<<>>, Commands)
    BY EmptyIs DEF Has
  <2>2. CASE At(p, "welcome")
    <3>1. wait[p] = "no" /\ Welcome(p)
      BY <1>1, <2>2 DEF Client, At
    <3>2. NoPost(p) /\ up[p] = <<>> /\ ~SignedIn(p)
      BY <3>1 DEF Welcome
    <3> QED BY <1>1, <2>1, <3>2, CallsOfOld
  <2>3. CASE At(p, "online")
    <3>1. wait[p] = "no" /\ OnLine(p)
      BY <1>1, <2>3 DEF Client, At
    <3>2. NoPost(p) /\ ~Has(up[p], Commands) /\ ~Bound(p)
      BY <3>1 DEF OnLine, Stuck
    <3> QED BY <3>2 DEF Bound
  <2> QED BY <2>2, <2>3
<1>3. /\ gsem[p] = 0 /\ Cardinality(PostsIn(down[p])) = 0
      /\ Cardinality(CommandsIn(up[p])) = 0 /\ Cardinality(CallsOf(p)) = 0
  BY <1>1, <1>2, PostsCount, CommandsCount, CallsCount
<1> QED BY <1>3, OwedIs

-----------------------------------------------------------------------------
(* No two threads of two players who do not ask themselves use one room; a   *)
(* player is in state WAR only while a thread is there that will end it, and *)
(* the fighters of a turn are online, at war and in the room their picks are *)
(* looked up by, whatever they type and whenever they leave and come back    *)
(* (server.cc lines 252-265 and 331-508).                                    *)
THEOREM ThreadsAgree == ASSUME TwoPlayers PROVE Spec => []WarThreads
BY WarAlways, ThreadsAre, PTL

(* A client of two such players that waits for the answer to a command is    *)
(* owed exactly one post of its semaphore, and one at a prompt outside of    *)
(* war none: what a war posts neither wakes a later command too early nor    *)
(* lets one wait for ever.  The exception are requests of one who asked with *)
(* an earlier client and was rejected, for his room still holds the          *)
(* connection of then (client.cc lines 68-207 and 243-407, server.cc lines   *)
(* 222, 231 and 464-505).                                                    *)
THEOREM AnsweredOnce == ASSUME TwoPlayers PROVE Spec => []OneAnswer
<1>1. TypeOK /\ WarInv /\ Sockets => OneAnswer
  BY OwedOne, OwedNone DEF OneAnswer
<1> QED BY <1>1, WarAlways, PTL

-----------------------------------------------------------------------------
(* Credit is conserved. *)

LEMMA CreditsType ==
  TypeOK => Credits \in [Players -> Int] /\ \A p \in Players : Credits[p] \in Credit
<1> SUFFICES ASSUME TypeOK
             PROVE  Credits \in [Players -> Int] /\ \A p \in Players : Credits[p] \in Credit
  OBVIOUS
<1>1. ASSUME NEW p \in Players PROVE CreditOf(p) \in Credit
  <2>1. p \in Online => user_table[p].credit \in Credit
    BY UserFacts DEF User
  <2>2. file[p] \in Credit \cup {NoFile} /\ 0 \in Credit
    BY GameOK DEF TypeOK, TypeServer, Credit
  <2> QED BY <2>1, <2>2 DEF CreditOf
<1>2. Credit \subseteq Int
  BY DEF Credit
<1> QED BY <1>1, <1>2 DEF Credits

LEMMA StoredTotal == Total(StoredCredits) \in Int
<1>1. ASSUME NEW p \in Players PROVE Stored(p) \in Int
  <2>1. StoredCredit[p] \in (0..(CreditMod - 1)) \cup {NoFile}
    BY GameOK
  <2> QED BY <2>1 DEF Stored
<1>2. StoredCredits \in [Players -> Int]
  BY <1>1 DEF StoredCredits
<1> QED BY <1>2, TotalIsInt, GameOK

LEMMA CreditsKept ==
  ASSUME CreditConserved, \A p \in Players : CreditOf(p)' = CreditOf(p)
  PROVE  CreditConserved'
<1>1. Credits' = Credits
  BY DEF Credits
<1>2. StoredCredits' = StoredCredits
  BY DEF StoredCredits, Stored
<1> QED BY <1>1, <1>2 DEF CreditConserved

(* What a payment adds, up to a multiple of 256. *)
LEMMA PaidAdds ==
  ASSUME NEW c \in Credit
  PROVE  /\ \E e \in Int : e % CreditMod = 0 /\ Paid(c, 1) = c + DeltaCredit + e
         /\ \E e \in Int : e % CreditMod = 0 /\ Paid(c, 2) = c - DeltaCredit + e
<1>1. /\ c \in Int /\ DeltaCredit \in Int /\ CreditMod \in Nat \ {0}
  BY GameOK DEF Credit
<1>2. \E e \in Int : e % CreditMod = 0 /\ Paid(c, 1) = c + DeltaCredit + e
  <2>1. PICK n \in Int : n = c + DeltaCredit
    BY <1>1
  <2>2. PICK r \in Int : r = n % CreditMod
    BY <1>1
  <2>3. (r - n) % CreditMod = 0 /\ r - n \in Int
    <3>1. ((n % CreditMod) - n) % CreditMod = 0
      BY <1>1, RestDivisible
    <3> QED BY <2>2, <3>1
  <2>4. Paid(c, 1) = r
    BY <2>1, <2>2 DEF Paid, Plus
  <2>5. r = c + DeltaCredit + (r - n)
    BY <1>1, <2>1
  <2> QED BY <2>3, <2>4, <2>5
<1>3. \E e \in Int : e % CreditMod = 0 /\ Paid(c, 2) = c - DeltaCredit + e
  <2>1. PICK n \in Int : n = c + (-DeltaCredit)
    BY <1>1
  <2>2. PICK r \in Int : r = n % CreditMod
    BY <1>1
  <2>3. (r - n) % CreditMod = 0 /\ r - n \in Int
    <3>1. ((n % CreditMod) - n) % CreditMod = 0
      BY <1>1, RestDivisible
    <3> QED BY <2>2, <3>1
  <2>4. Paid(c, 2) = r
    BY <2>1, <2>2 DEF Paid, Plus
  <2>5. r = c - DeltaCredit + (r - n)
    BY <1>1, <2>1
  <2> QED BY <2>3, <2>4, <2>5
<1> QED BY <1>2, <1>3

LEMMA CreditChanges ==
  \A f, g \in [Players -> Int] : \A a \in Players :
    (\A p \in Players : p # a => f[p] = g[p])
      => Total(f) \in Int /\ Total(g) = Total(f) - f[a] + g[a]
<1> SUFFICES ASSUME NEW f \in [Players -> Int], NEW g \in [Players -> Int],
                    NEW a \in Players, \A p \in Players : p # a => f[p] = g[p]
             PROVE  Total(f) \in Int /\ Total(g) = Total(f) - f[a] + g[a]
  OBVIOUS
<1> QED BY TotalChanges, GameOK

(* One is paid, then the other, who may be the same. *)
LEMMA PaymentBalances ==
  ASSUME NEW f \in [Players -> Int], \A p \in Players : f[p] \in Credit,
         NEW g \in [Players -> Int], NEW h \in [Players -> Int],
         NEW a \in Players, NEW b \in Players,
         NEW x \in {1, 2}, NEW y \in {1, 2}, x # y,
         h[a] = Paid(f[a], x), \A p \in Players : p # a => f[p] = h[p],
         g[b] = Paid(h[b], y), \A p \in Players : p # b => h[p] = g[p]
  PROVE  \E e \in Int : e % CreditMod = 0 /\ Total(g) = Total(f) + e /\ Total(f) \in Int
<1>0. IsFiniteSet(Players) /\ DeltaCredit \in Int /\ CreditMod \in Nat \ {0}
  BY GameOK
<1>1. Paid(f[a], x) \in Credit /\ Credit \subseteq Int
  BY PaidType DEF Credit
<1>2. \A p \in Players : h[p] \in Credit
  BY <1>1
<1>3. Total(f) \in Int /\ Total(h) = Total(f) - f[a] + h[a]
  BY CreditChanges
<1>4. Total(h) \in Int /\ Total(g) = Total(h) - h[b] + g[b]
  BY CreditChanges
<1>5. g[b] = Paid(h[b], y)
  OBVIOUS
<1>6. PICK c \in Credit : c = f[a]
  OBVIOUS
<1>7. PICK d \in Credit : d = h[b]
  BY <1>2
<1>8. PICK e1 \in Int : /\ e1 % CreditMod = 0
                        /\ Paid(c, x) = IF x = 1 THEN c + DeltaCredit + e1
                                                 ELSE c - DeltaCredit + e1
  BY PaidAdds
<1>9. PICK e2 \in Int : /\ e2 % CreditMod = 0
                        /\ Paid(d, y) = IF y = 1 THEN d + DeltaCredit + e2
                                                 ELSE d - DeltaCredit + e2
  BY PaidAdds
<1>10. e1 + e2 \in Int /\ (e1 + e2) % CreditMod = 0
  <2>1. e1 % CreditMod = 0 /\ e2 % CreditMod = 0
    BY <1>8, <1>9
  <2>2. \A n, k \in Int : n % CreditMod = 0 /\ k % CreditMod = 0 => (n + k) % CreditMod = 0
    BY <1>0, SumDivisible
  <2> QED BY <2>1, <2>2
<1>11. PICK s \in Int : s = Total(f)
  BY <1>3
<1>12. PICK u \in Int : u = h[a] /\ Total(h) = s - c + u
  BY <1>2, <1>3, <1>6, <1>11
<1>13. PICK v \in Int : v = g[b] /\ Total(g) = s - c + u - d + v
  BY <1>4, <1>7, <1>12
<1>14. u = (IF x = 1 THEN c + DeltaCredit + e1 ELSE c - DeltaCredit + e1)
  BY <1>2, <1>6, <1>8, <1>12
<1>15. v = (IF y = 1 THEN d + DeltaCredit + e2 ELSE d - DeltaCredit + e2)
  BY <1>5, <1>7, <1>9, <1>13
<1>16. c \in Int /\ d \in Int
  BY <1>1
<1>17. s - c + u - d + v = s + (e1 + e2)
  BY <1>0, <1>14, <1>15, <1>16
<1> QED BY <1>3, <1>10, <1>11, <1>13, <1>17

LEMMA JudgeConserves ==
  ASSUME TypeOK, TypeOK', CreditConserved, NEW i \in DOMAIN wars, Judge(i)
  PROVE  CreditConserved'
<1>1. Room(i) \in DOMAIN rooms
  BY DEF Judge, TurnOver
<1>2. PICK tu : tu = Turn(i)
  OBVIOUS
<1>3. PICK x \in Int, y \in Int :
        tu.a_result.final = Final(x, y) /\ tu.b_result.final = Final(y, x)
  BY <1>1, <1>2, TurnFacts
<1>4. /\ user_table' = PaidBoth(tu) /\ file' = file
      /\ tu.a_result.final \in {1, 2} => {tu.a, tu.b} \subseteq Online
  BY <1>2 DEF Judge, Wins
<1> DEFINE c(p) == IF p # tu.a THEN user_table[p].credit
                   ELSE Paid(user_table[p].credit, tu.a_result.final)
           d(p) == IF p = tu.b THEN Paid(c(p), tu.b_result.final) ELSE c(p)
<1>5. /\ Online' = Online
      /\ \A p \in Online : user_table'[p].credit = d(p)
  <2>1. user_table' = [p \in Online |-> [user_table[p] EXCEPT !.credit = d(p)]]
    BY <1>4 DEF PaidBoth
  <2>2. \A p \in Online : user_table[p] \in User
    BY UserFacts
  <2> HIDE DEF d
  <2>3. \A p \in Online : [user_table[p] EXCEPT !.credit = d(p)].credit = d(p)
    BY <2>2 DEF User
  <2> QED BY <2>1, <2>3 DEF Online
<1>6. CASE tu.a_result.final \notin {1, 2}
  <2>1. tu.b_result.final \notin {1, 2}
    BY <1>3, <1>6, FinalFacts
  <2>2. \A p \in Online : d(p) = user_table[p].credit
    BY <1>6, <2>1 DEF Paid
  <2>3. \A p \in Players : CreditOf(p)' = CreditOf(p)
    BY <1>4, <1>5, <2>2 DEF CreditOf
  <2> QED BY <2>3, CreditsKept
<1>7. CASE tu.a_result.final \in {1, 2}
  <2>1. PICK k \in {1, 2}, l \in {1, 2} :
          k # l /\ k = tu.a_result.final /\ l = tu.b_result.final
    <3>1. tu.b_result.final = 3 - tu.a_result.final
      BY <1>3, <1>7, FinalFacts
    <3> QED BY <1>7, <3>1
  <2>2. PICK a \in Players, b \in Players :
          a = tu.a /\ b = tu.b /\ a \in Online /\ b \in Online
    BY <1>4, <1>7, UserFacts
  <2>3. PICK f \in [Players -> Int] : f = Credits /\ \A p \in Players : f[p] \in Credit
    BY CreditsType
  <2>4. PICK g \in [Players -> Int] : g = Credits'
    <3>1. (Credits \in [Players -> Int])'
      BY CreditsType, PTL
    <3> QED BY <3>1
  <2>5. PICK h \in [Players -> Int] : h = [f EXCEPT ![a] = Paid(f[a], k)]
    <3>1. Paid(f[a], k) \in Int
      BY <2>3, PaidType DEF Credit
    <3> QED BY <3>1
  <2>6. g = [h EXCEPT ![b] = Paid(h[b], l)]
    <3>1. \A p \in Players : g[p] = CreditOf(p)' /\ f[p] = CreditOf(p)
      BY <2>3, <2>4 DEF Credits
    <3>2. \A p \in Online : f[p] = user_table[p].credit /\ g[p] = d(p)
      BY <1>5, <3>1, UserFacts DEF CreditOf
    <3>3. \A p \in Players \ Online : f[p] = g[p]
      BY <1>4, <1>5, <3>1 DEF CreditOf
    <3>4. ASSUME NEW p \in Players PROVE g[p] = [h EXCEPT ![b] = Paid(h[b], l)][p]
      <4>1. CASE p \in Online
        <5>1. h[p] = c(p)
          BY <2>1, <2>2, <2>5, <3>2, <4>1
        <5> QED BY <2>1, <2>2, <2>5, <3>2, <4>1, <5>1
      <4>2. CASE p \notin Online
        BY <2>2, <2>5, <3>3, <4>2
      <4> QED BY <4>1, <4>2
    <3>5. DOMAIN [h EXCEPT ![b] = Paid(h[b], l)] = Players
      BY <2>5
    <3> HIDE DEF c, d
    <3> QED BY <3>4, <3>5
  <2>7. PICK e \in Int : e % CreditMod = 0 /\ Total(g) = Total(f) + e /\ Total(f) \in Int
    <3>1. \A p \in Players : f[p] \in Credit
      BY <2>3
    <3>2. k # l
      BY <2>1
    <3>3. /\ h[a] = Paid(f[a], k) /\ \A p \in Players : p # a => f[p] = h[p]
          /\ g[b] = Paid(h[b], l) /\ \A p \in Players : p # b => h[p] = g[p]
      BY <2>5, <2>6
    <3>4. \E e \in Int : e % CreditMod = 0 /\ Total(g) = Total(f) + e /\ Total(f) \in Int
      BY <3>1, <3>2, <3>3, PaymentBalances
    <3> QED BY <3>4
  <2>8. StoredCredits' = StoredCredits /\ Total(StoredCredits) \in Int
    BY StoredTotal DEF StoredCredits, Stored
  <2>9. PICK s \in Int, t \in Int : s = Total(StoredCredits) /\ t = Total(f)
    BY <2>7, <2>8
  <2>10. (t - s) % CreditMod = 0 /\ t - s \in Int
    BY <2>3, <2>9 DEF CreditConserved
  <2>11. ((t - s) + e) % CreditMod = 0
    BY <2>7, <2>10, SumDivisible, GameOK
  <2>12. Total(g) - Total(StoredCredits) = (t - s) + e
    BY <2>7, <2>9
  <2>13. (Total(Credits) - Total(StoredCredits))' = Total(g) - Total(StoredCredits)
    BY <2>4, <2>8
  <2> QED BY <2>11, <2>12, <2>13 DEF CreditConserved
<1> QED BY <1>6, <1>7

(* A sign-out stores the credit in one step and erases the entry in another: *)
(* no war of two players pays into it in between.                            *)
LEMMA CreditStep ==
  ASSUME TypeOK, Leaving, CreditConserved, [Next]_vars
  PROVE  CreditConserved'
<1>0. TypeOK'
  BY TypeStep
<1>1. CASE UNCHANGED <<file, user_table>>
  BY <1>1, CreditsKept DEF CreditOf, Online
<1>2. CASE UNCHANGED vars
  BY <1>1, <1>2 DEF vars, server
<1>3. ASSUME NEW p \in Players, Types(p) \/ Wake(p) \/ Listen(p) PROVE CreditConserved'
  <2>1. UNCHANGED server
    BY <1>3 DEF Types, Wake, Listen, TypeSignUp, TypeSignIn, TypeList, TypeSignOut,
                TypeRequest, TypeAnswer, TypePick, Leave, Return, Sends
  <2> QED BY <1>1, <2>1 DEF server
<1>4. ASSUME NEW p \in Players, Serves(p) PROVE CreditConserved'
  <2>0. /\ file \in [Players -> Credit \cup {NoFile}]
        /\ Online \subseteq Players /\ user_table \in [Online -> User]
    BY DEF TypeOK, TypeServer
  <2>1. CASE SignUp(p)
    <3>1. /\ file' = [file EXCEPT ![p] = IF @ = NoFile THEN 0 ELSE @]
          /\ user_table' = user_table
      BY <2>1 DEF SignUp
    <3>2. \A q \in Players : CreditOf(q)' = CreditOf(q)
      BY <2>0, <3>1, GameOK DEF CreditOf, Online
    <3> QED BY <3>2, CreditsKept
  <2>2. CASE SignIn(p)
    <3>1. PICK valid : /\ valid = Validity(p, Head(up[p]).right)
                       /\ user_table' = IF valid # 0 THEN user_table
                            ELSE Put(user_table, p,
                                     [state |-> "ONLINE", credit |-> file[p],
                                      room |-> Nobody, connfd |-> conn[p]])
                       /\ file' = file
      BY <2>2 DEF SignIn
    <3>2. CASE valid # 0
      BY <1>1, <3>1, <3>2
    <3>3. CASE valid = 0
      <4>1. file[p] # NoFile /\ p \notin Online
        BY <3>1, <3>3 DEF Validity
      <4>2. user_table' = [x \in Online \cup {p} |->
               IF x = p THEN [state |-> "ONLINE", credit |-> file[p],
                              room |-> Nobody, connfd |-> conn[p]]
               ELSE user_table[x]]
        BY <3>1, <3>3 DEF Put, Online
      <4>3. Online' = Online \cup {p} /\ user_table'[p].credit = file[p]
            /\ \A x \in Online : user_table'[x] = user_table[x]
        BY <4>1, <4>2 DEF Online
      <4>4. \A q \in Players : CreditOf(q)' = CreditOf(q)
        BY <3>1, <4>1, <4>3 DEF CreditOf
      <4> QED BY <4>4, CreditsKept
    <3> QED BY <3>2, <3>3
  <2>3. CASE SignOut(p)
    <3>1. user_table' = user_table /\ \A q \in Players : q # p => file'[q] = file[q]
      BY <2>0, <2>3 DEF SignOut
    <3>2. p \notin Online => file' = file
      BY <2>3 DEF SignOut
    <3>3. \A q \in Players : CreditOf(q)' = CreditOf(q)
      BY <3>1, <3>2 DEF CreditOf, Online
    <3> QED BY <3>3, CreditsKept
  <2>6. CASE SignedOut(p)
    <3>1. /\ leaving[p] /\ file' = file /\ user_table' = Erase(user_table, p)
      BY <2>6 DEF SignedOut
    <3>2. /\ Online' = Online \ {p}
          /\ \A q \in Online \ {p} : user_table'[q] = user_table[q]
      BY <3>1 DEF Erase, Online
    <3>3. p \in Online /\ file[p] = user_table[p].credit
      BY <3>1 DEF Leaving
    <3>4. user_table[p].credit # NoFile
      <4>1. user_table[p].credit \in Credit
        BY <2>0, <3>3 DEF User
      <4> QED BY <4>1, GameOK DEF Credit
    <3>5. \A q \in Players : CreditOf(q)' = CreditOf(q)
      BY <3>1, <3>2, <3>3, <3>4 DEF CreditOf
    <3> QED BY <3>5, CreditsKept
  <2>4. CASE CloseConn(p)
    <3>1. user_table' = user_table /\ \A q \in Players : q # p => file'[q] = file[q]
      BY <2>0, <2>4 DEF CloseConn
    <3>2. p \notin Online => file' = file
      BY <2>4 DEF CloseConn
    <3>3. \A q \in Players : CreditOf(q)' = CreditOf(q)
      BY <3>1, <3>2 DEF CreditOf, Online
    <3> QED BY <3>3, CreditsKept
  <2>5. CASE FriendsCreditList(p) \/ WarRequest(p) \/ InsertRoom(p) \/ WarResponse(p) \/ Pick(p)
    <3>1. UNCHANGED <<file, user_table>>
      BY <2>5 DEF FriendsCreditList, WarRequest, InsertRoom, WarResponse, Pick, Refused,
                  Faults, server
    <3> QED BY <1>1, <3>1
  <2> QED BY <1>4, <2>1, <2>2, <2>3, <2>4, <2>5, <2>6 DEF Serves
<1>5. ASSUME NEW i \in DOMAIN wars, Fights(i) PROVE CreditConserved'
  <2>1. CASE Judge(i)
    BY <1>0, <2>1, JudgeConserves
  <2>2. CASE Ask(i) \/ SendResults(i) \/ Crash(i)
    <3>1. UNCHANGED <<file, user_table>>
      BY <2>2 DEF Ask, SendResults, Crash, Faults, server
    <3> QED BY <1>1, <3>1
  <2>3. CASE Answered(i)
    <3>1. CASE UNCHANGED user_table
      BY <1>1, <2>3, <3>1 DEF Answered
    <3>2. CASE ~UNCHANGED user_table
      <4>0. PICK a, b : a = Room(i) /\ b = rooms[Room(i)].b
        OBVIOUS
      <4>1. user_table' = [p \in Online |-> IF p \notin {a, b} THEN user_table[p]
                           ELSE [user_table[p] EXCEPT !.state = "WAR", !.room = a]]
        BY <2>3, <3>2, <4>0 DEF Answered
      <4>2. /\ Online' = Online /\ file' = file
            /\ \A p \in Online : user_table'[p].credit = user_table[p].credit
        <5>1. \A p \in Online : user_table[p] \in User
          BY UserFacts
        <5>2. \A p \in Online : user_table'[p] =
                IF p \notin {a, b} THEN user_table[p]
                ELSE [user_table[p] EXCEPT !.state = "WAR", !.room = a]
          BY <4>1
        <5>3. \A p \in Online : user_table'[p].credit = user_table[p].credit
          BY <5>1, <5>2 DEF User
        <5>4. Online' = Online
          BY <4>1 DEF Online
        <5> QED BY <2>3, <5>3, <5>4 DEF Answered
      <4>3. \A q \in Players : CreditOf(q)' = CreditOf(q)
        BY <4>2 DEF CreditOf
      <4> QED BY <4>3, CreditsKept
    <3> QED BY <3>1, <3>2
  <2>4. CASE Restore(i)
    <3>1. user_table' = BackOnline(Room(i), wars[i].b) /\ file' = file
      BY <2>4 DEF Restore
    <3>2. /\ Online' = Online
          /\ \A p \in Online : user_table'[p].credit = user_table[p].credit
      <4>1. \A p \in Online : user_table[p] \in User
        BY UserFacts
      <4> QED BY <3>1, <4>1 DEF BackOnline, Online, User
    <3>3. \A q \in Players : CreditOf(q)' = CreditOf(q)
      BY <3>1, <3>2 DEF CreditOf
    <3> QED BY <3>3, CreditsKept
  <2> QED BY <1>5, <2>1, <2>2, <2>3, <2>4 DEF Fights
<1> QED BY <1>2, <1>3, <1>4, <1>5 DEF Next

LEMMA InitCredits == Init => CreditConserved
<1> SUFFICES ASSUME Init PROVE CreditConserved
  OBVIOUS
<1>1. Credits = StoredCredits
  <2>1. Online = {} /\ file = StoredCredit
    BY DEF Init, Online
  <2> QED BY <2>1 DEF Credits, StoredCredits, CreditOf, Stored
<1>2. PICK n \in Int : n = Total(StoredCredits)
  BY StoredTotal
<1>3. n - n = 0 /\ CreditMod \in Nat \ {0}
  BY GameOK
<1>4. 0 % CreditMod = 0
  BY <1>3
<1> QED BY <1>1, <1>2, <1>3, <1>4 DEF CreditConserved

(* Wars, sign-outs and sign-ins of two players who do not ask themselves     *)
(* move credit between them and between the table and the files, and lose or *)
(* create none, modulo 256, whatever they type and whenever their clients    *)
(* end; of three, one could be put at war between the two steps of his       *)
(* sign-out, and lose what it pays (server.cc lines 111-134, 296-313 and     *)
(* 415-440).                                                                 *)
THEOREM Conserved == ASSUME TwoPlayers PROVE Spec => []CreditConserved
<1>1. Init => CreditConserved
  BY InitCredits
<1>2. TypeOK /\ Leaving /\ CreditConserved /\ [Next]_vars => CreditConserved'
  BY CreditStep
<1> QED BY <1>1, <1>2, WarAlways, PTL DEF Spec
=============================================================================
