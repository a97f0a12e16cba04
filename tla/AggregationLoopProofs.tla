------------------------ MODULE AggregationLoopProofs ------------------------
(***************************************************************************)
(* The aggregator's loops compute what Aggregator states, for every list of*)
(* responses, of any length, and every envelope.                           *)
(***************************************************************************)
EXTENDS AggregationLoop, FiniteSetTheorems, WellFoundedInduction, TLAPS

----------------------------------------------------------------------------
(* Sums *)

(* A set of numbers that is closed under successor and holds 0 holds all of them. *)
LEMMA SetInduction ==
  ASSUME NEW S, 0 \in S, \A n \in Nat : n \in S => n + 1 \in S
  PROVE  \A n \in Nat : n \in S
<1> DEFINE Missing == Nat \ S
<1>1. CASE Missing = {}
  BY <1>1
<1>2. CASE Missing # {}
  <2>1. PICK m \in Missing : \A n \in Missing : ~(n < m)
    <3> DEFINE R == {ss \in Nat \X Nat : ss[1] < ss[2]}
    <3>1. IsWellFoundedOn(R, Nat)
      BY NatLessThanWellFounded DEF OpToRel
    <3>2. PICK m \in Missing : \A n \in Missing : ~(<<n, m>> \in R)
      <4> HIDE DEF R
      <4> QED
        BY <1>2, <3>1, WFMin
    <3> QED
      BY <3>2
  <2>2. m # 0 /\ m - 1 \in Nat
    BY <2>1
  <2>3. m - 1 \in S
    BY <2>1, <2>2
  <2> QED
    BY <2>1, <2>2, <2>3
<1> QED
  BY <1>1, <1>2


\* F maps every set of indices of f, of which there are n, to the sum of f over it.
Sums(F, f, n) ==
  /\ \A j \in 1..n : f[j] \in Int
  /\ F \in [SUBSET (1..n) -> Int]
  /\ F[{}] = 0
  /\ \A s \in SUBSET (1..n) : \A x \in s : F[s] = f[x] + F[s \ {x}]

(* There is such a map, whatever the order in which indices are taken away. *)
LEMMA SumsExist ==
  ASSUME NEW n \in Nat, NEW f, \A j \in 1..n : f[j] \in Int
  PROVE  \E F : Sums(F, f, n)
<1> DEFINE S == {m \in Nat : m <= n => \E F : Sums(F, f, m)}
<1>1. 0 \in S
  <2>1. SUBSET (1..0) = {{}}
    OBVIOUS
  <2>2. Sums([s \in SUBSET (1..0) |-> 0], f, 0)
    BY <2>1 DEF Sums
  <2> QED
    BY <2>2
<1>2. ASSUME NEW m \in Nat, m \in S PROVE m + 1 \in S
  <2> SUFFICES ASSUME m + 1 <= n PROVE \E F : Sums(F, f, m + 1)
    OBVIOUS
  <2>1. PICK F : Sums(F, f, m)
    BY <1>2
  <2> DEFINE G == [s \in SUBSET (1..(m + 1)) |->
                     IF m + 1 \in s THEN f[m + 1] + F[s \ {m + 1}] ELSE F[s]]
  <2>2. f[m + 1] \in Int /\ 1..(m + 1) = (1..m) \cup {m + 1} /\ m + 1 \notin 1..m
    OBVIOUS
  <2>3. \A s \in SUBSET (1..(m + 1)) : s \ {m + 1} \in SUBSET (1..m)
    BY <2>2
  <2>4. \A s \in SUBSET (1..(m + 1)) : m + 1 \notin s => s \in SUBSET (1..m)
    BY <2>2
  <2>5. \A s \in SUBSET (1..m) : F[s] \in Int
    BY <2>1 DEF Sums
  <2>6. G \in [SUBSET (1..(m + 1)) -> Int]
    <3>1. \A s \in SUBSET (1..(m + 1)) :
            (IF m + 1 \in s THEN f[m + 1] + F[s \ {m + 1}] ELSE F[s]) \in Int
      BY <2>2, <2>3, <2>4, <2>5
    <3> QED
      BY <3>1
  <2>7. G[{}] = 0
    BY <2>1 DEF Sums
  <2>8. ASSUME NEW s \in SUBSET (1..(m + 1)), NEW x \in s
        PROVE  G[s] = f[x] + G[s \ {x}]
    <3>0. s \ {x} \in SUBSET (1..(m + 1))
      OBVIOUS
    <3>1. CASE x = m + 1
      <4>1. G[s] = f[m + 1] + F[s \ {m + 1}] /\ G[s \ {x}] = F[s \ {x}]
        BY <3>0, <3>1
      <4> QED
        BY <3>1, <4>1
    <3>2. CASE x # m + 1 /\ m + 1 \in s
      <4>1. G[s] = f[m + 1] + F[s \ {m + 1}]
        BY <3>2
      <4>2. G[s \ {x}] = f[m + 1] + F[(s \ {x}) \ {m + 1}]
        BY <3>0, <3>2
      <4>3. s \ {m + 1} \in SUBSET (1..m) /\ x \in s \ {m + 1} /\ f[x] \in Int
        BY <2>2, <3>2
      <4>4. F[s \ {m + 1}] = f[x] + F[(s \ {m + 1}) \ {x}]
        BY <2>1, <4>3 DEF Sums
      <4>5. (s \ {m + 1}) \ {x} = (s \ {x}) \ {m + 1}
        OBVIOUS
      <4>6. F[(s \ {x}) \ {m + 1}] \in Int
        BY <2>3, <2>5, <3>0
      <4>7. F[s \ {m + 1}] = f[x] + F[(s \ {x}) \ {m + 1}]
        BY <4>4, <4>5
      <4>8. f[m + 1] + (f[x] + F[(s \ {x}) \ {m + 1}])
              = f[x] + (f[m + 1] + F[(s \ {x}) \ {m + 1}])
        <5> HIDE DEF G
        <5> QED
          BY <2>2, <4>3, <4>6
      <4> HIDE DEF G
      <4> QED
        BY <4>1, <4>2, <4>7, <4>8
    <3>3. CASE m + 1 \notin s
      <4>1. s \in SUBSET (1..m) /\ G[s] = F[s] /\ G[s \ {x}] = F[s \ {x}]
        BY <2>4, <3>0, <3>3
      <4> QED
        BY <2>1, <4>1 DEF Sums
    <3> QED
      BY <3>1, <3>2, <3>3
  <2>9. Sums(G, f, m + 1)
    <3> HIDE DEF G
    <3> QED
      BY <2>6, <2>7, <2>8 DEF Sums
  <2> QED
    BY <2>9
<1>3. n \in S
  <2> HIDE DEF S
  <2> QED
    BY <1>1, <1>2, SetInduction
<1> QED
  BY <1>3

(* The greatest of the first numbers is the last of them. *)
LEMMA MaxOfFirst ==
  ASSUME NEW n \in Nat \ {0}
  PROVE  Max(1..n) = n /\ (1..n) \ {n} = 1..(n - 1)
<1>1. n \in 1..n /\ \A y \in 1..n : n >= y
  OBVIOUS
<1>2. \A x \in 1..n : (\A y \in 1..n : x >= y) => x = n
  BY <1>1
<1>3. Max(1..n) = n
  BY <1>1, <1>2 DEF Max
<1>4. (1..n) \ {n} = 1..(n - 1)
  OBVIOUS
<1> QED
  BY <1>3, <1>4

(* A set of some of the first numbers has a greatest element, which Max picks. *)
LEMMA MaxOfSome ==
  ASSUME NEW n \in Nat, NEW s \in SUBSET (1..n), s # {}
  PROVE  Max(s) \in s /\ \A y \in s : y <= Max(s)
<1> DEFINE S == {m \in Nat : \A t \in SUBSET (1..m) :
                               t # {} => \E x \in t : \A y \in t : x >= y}
<1>1. 0 \in S
  <2>1. \A t \in SUBSET (1..0) : t = {}
    OBVIOUS
  <2> QED
    BY <2>1
<1>2. ASSUME NEW m \in Nat, m \in S PROVE m + 1 \in S
  <2> SUFFICES ASSUME NEW t \in SUBSET (1..(m + 1)), t # {}
               PROVE  \E x \in t : \A y \in t : x >= y
    OBVIOUS
  <2>1. CASE m + 1 \in t
    <3>1. \A y \in t : m + 1 >= y
      OBVIOUS
    <3> QED
      BY <2>1, <3>1
  <2>2. CASE m + 1 \notin t
    <3>1. t \in SUBSET (1..m)
      BY <2>2
    <3> QED
      BY <1>2, <3>1
  <2> QED
    BY <2>1, <2>2
<1>3. n \in S
  <2> HIDE DEF S
  <2> QED
    BY <1>1, <1>2, SetInduction
<1>4. PICK x \in s : \A y \in s : x >= y
  BY <1>3
<1>5. Max(s) \in s /\ \A y \in s : Max(s) >= y
  BY <1>4 DEF Max
<1> QED
  BY <1>5

(* The sum of a list, last element first. *)
LEMMA FoldIsSum ==
  ASSUME NEW cs, NEW n \in Nat, DOMAIN cs = 1..n, NEW F, Sums(F, cs, n)
  PROVE  FoldLeft(+, 0, cs) = F[1..n]
<1> DEFINE Turn(G) == [s \in SUBSET (1..n) |->
                         IF s = {} THEN 0 ELSE G[s \ {Max(s)}] + cs[Max(s)]]
<1> DEFINE iter == CHOOSE G : G = Turn(G)
<1>1. FoldLeft(+, 0, cs) = iter[1..n]
  BY DEF FoldLeft, MapThenFoldSet
<1>2. F = Turn(F)
  <2>1. \A s \in SUBSET (1..n) : s # {} => F[s] = F[s \ {Max(s)}] + cs[Max(s)]
    <3> SUFFICES ASSUME NEW s \in SUBSET (1..n), s # {}
                 PROVE  F[s] = F[s \ {Max(s)}] + cs[Max(s)]
      OBVIOUS
    <3>1. Max(s) \in s
      BY MaxOfSome
    <3>2. s \ {Max(s)} \in SUBSET (1..n) /\ Max(s) \in 1..n
      BY <3>1
    <3>3. F[s] = cs[Max(s)] + F[s \ {Max(s)}]
      BY <3>1 DEF Sums
    <3>4. F[s \ {Max(s)}] \in Int /\ cs[Max(s)] \in Int
      BY <3>2 DEF Sums
    <3> QED
      BY <3>3, <3>4
  <2>2. F[{}] = 0 /\ F = [s \in SUBSET (1..n) |-> F[s]]
    BY DEF Sums
  <2> QED
    BY <2>1, <2>2
<1>3. iter = Turn(iter)
  <2> HIDE DEF Turn
  <2> QED
    BY <1>2
<1> HIDE DEF iter
<1>4. iter[{}] = 0
  BY <1>3
<1>5. \A m \in 1..n : iter[1..m] = iter[1..(m - 1)] + cs[m]
  <2> SUFFICES ASSUME NEW m \in 1..n PROVE iter[1..m] = iter[1..(m - 1)] + cs[m]
    OBVIOUS
  <2>1. Max(1..m) = m /\ (1..m) \ {m} = 1..(m - 1) /\ 1..m \in SUBSET (1..n) /\ 1..m # {}
    BY MaxOfFirst
  <2> QED
    BY <1>3, <2>1
<1> DEFINE S == {m \in Nat : m <= n => iter[1..m] = F[1..m]}
<1>6. 0 \in S
  <2>1. 1..0 = {}
    OBVIOUS
  <2> QED
    BY <1>4, <2>1 DEF Sums
<1>7. ASSUME NEW m \in Nat, m \in S PROVE m + 1 \in S
  <2> SUFFICES ASSUME m + 1 <= n PROVE iter[1..(m + 1)] = F[1..(m + 1)]
    OBVIOUS
  <2>1. /\ m + 1 \in 1..n /\ (m + 1) - 1 = m /\ m + 1 \in 1..(m + 1)
        /\ (1..(m + 1)) \ {m + 1} = 1..m
        /\ 1..m \in SUBSET (1..n) /\ 1..(m + 1) \in SUBSET (1..n)
    OBVIOUS
  <2>2. iter[1..(m + 1)] = F[1..m] + cs[m + 1]
    BY <1>5, <1>7, <2>1
  <2>3. cs[m + 1] \in Int /\ F[1..m] \in Int
    BY <2>1 DEF Sums
  <2>4. F[1..(m + 1)] = cs[m + 1] + F[(1..(m + 1)) \ {m + 1}]
    BY <2>1 DEF Sums
  <2>5. F[1..(m + 1)] = cs[m + 1] + F[1..m]
    BY <2>1, <2>4
  <2> HIDE DEF S, Turn
  <2> QED
    BY <2>2, <2>3, <2>5
<1>8. n \in S
  <2> HIDE DEF S
  <2> QED
    BY <1>6, <1>7, SetInduction
<1>9. iter[1..n] = F[1..n]
  BY <1>8
<1> QED
  BY <1>1, <1>9

(* Sets of some of the first numbers are finite, and smaller without an element. *)
LEMMA SomeOfFirst ==
  ASSUME NEW n \in Nat, NEW s \in SUBSET (1..n)
  PROVE  /\ Cardinality(s) \in Nat
         /\ Cardinality(s) = 0 <=> s = {}
         /\ \A x \in s : Cardinality(s \ {x}) = Cardinality(s) - 1
<1>1. IsFiniteSet(1..n)
  BY FS_Interval
<1>2. IsFiniteSet(s)
  BY <1>1, FS_Subset
<1>3. Cardinality(s) \in Nat
  BY <1>2, FS_CardinalityType
<1>4. Cardinality(s) = 0 <=> s = {}
  BY <1>2, FS_EmptySet
<1>5. \A x \in s : Cardinality(s \ {x}) = Cardinality(s) - 1
  BY <1>2, FS_RemoveElement
<1> QED
  BY <1>3, <1>4, <1>5

\* p lists the numbers to n in some order.
Reorders(p, n) ==
  /\ p \in [1..n -> 1..n]
  /\ \A j, k \in 1..n : p[j] = p[k] => j = k
  /\ \A k \in 1..n : \E j \in 1..n : p[j] = k

\* g has the first n values of f, in the order that p lists them.
Follows(g, f, p, n) == \A j \in 1..n : g[j] = f[p[j]]

(* Two such maps agree, if the second counts what the first counts under another index. *)
LEMMA SumsAgree ==
  ASSUME NEW n \in Nat, NEW f, NEW F, Sums(F, f, n), NEW g, NEW G, Sums(G, g, n),
         NEW p, Reorders(p, n), Follows(g, f, p, n)
  PROVE  \A s \in SUBSET (1..n) : G[s] = F[{p[j] : j \in s}]
<1> DEFINE image(t) == {p[j] : j \in t}
<1> DEFINE S == {m \in Nat : \A s \in SUBSET (1..n) : Cardinality(s) = m => G[s] = F[image(s)]}
<1> HIDE DEF image
<1>0. /\ \A j \in 1..n : p[j] \in 1..n
      /\ \A j, k \in 1..n : p[j] = p[k] => j = k
      /\ \A j \in 1..n : g[j] = f[p[j]]
  BY DEF Reorders, Follows
<1>1. 0 \in S
  <2> SUFFICES ASSUME NEW s \in SUBSET (1..n), Cardinality(s) = 0
               PROVE  G[s] = F[image(s)]
    OBVIOUS
  <2>1. s = {}
    BY SomeOfFirst
  <2>2. image(s) = {}
    BY <2>1 DEF image
  <2> QED
    BY <2>1, <2>2 DEF Sums
<1>2. ASSUME NEW m \in Nat, m \in S PROVE m + 1 \in S
  <2>0. m + 1 \in Nat /\ m + 1 # 0 /\ (m + 1) - 1 = m
    OBVIOUS
  <2> SUFFICES ASSUME NEW s \in SUBSET (1..n), Cardinality(s) = m + 1
               PROVE  G[s] = F[image(s)]
    BY <2>0
  <2>1. PICK x \in s : TRUE
    BY <2>0, SomeOfFirst
  <2>2. s \ {x} \in SUBSET (1..n) /\ Cardinality(s \ {x}) = m
    BY <2>0, SomeOfFirst
  <2>3. G[s \ {x}] = F[image(s \ {x})]
    BY <1>2, <2>2
  <2>4. image(s \ {x}) = image(s) \ {p[x]}
    <3>1. \A j \in s : p[j] = p[x] <=> j = x
      BY <1>0
    <3>2. ASSUME NEW y PROVE y \in image(s \ {x}) <=> y \in image(s) \ {p[x]}
      <4>1. y \in image(s \ {x}) <=> \E j \in s \ {x} : y = p[j]
        BY DEF image
      <4>2. y \in image(s) <=> \E j \in s : y = p[j]
        BY DEF image
      <4> QED
        BY <3>1, <4>1, <4>2
    <3> QED
      BY <3>2
  <2>5. image(s) \in SUBSET (1..n) /\ p[x] \in image(s)
    BY <1>0 DEF image
  <2>6. G[s] = g[x] + G[s \ {x}] /\ g[x] = f[p[x]]
    BY <1>0 DEF Sums
  <2>7. F[image(s)] = f[p[x]] + F[image(s) \ {p[x]}]
    BY <2>5 DEF Sums
  <2> QED
    BY <2>3, <2>4, <2>6, <2>7
<1>3. \A m \in Nat : m \in S
  <2> HIDE DEF S
  <2> QED
    BY <1>1, <1>2, SetInduction
<1>4. \A s \in SUBSET (1..n) : G[s] = F[image(s)]
  BY <1>3, SomeOfFirst
<1> QED
  BY <1>4 DEF image

(* The sum of a list, elements taken from anywhere. *)
LEMMA SumFunctionIsSum ==
  ASSUME NEW cs, NEW n \in Nat, DOMAIN cs = 1..n, NEW F, Sums(F, cs, n)
  PROVE  SumFunction(cs) = F[1..n]
<1> DEFINE Pick(s) == CHOOSE x \in s : TRUE
<1> DEFINE Turn(G) == [s \in SUBSET (1..n) |->
                         IF s = {} THEN 0 ELSE cs[Pick(s)] + G[s \ {Pick(s)}]]
<1> DEFINE iter == CHOOSE G : G = Turn(G)
<1>1. SumFunction(cs) = iter[1..n]
  BY DEF SumFunction, SumFunctionOnSet, FoldFunctionOnSet, MapThenFoldSet
<1>2. F = Turn(F)
  <2>1. \A s \in SUBSET (1..n) : s # {} => F[s] = cs[Pick(s)] + F[s \ {Pick(s)}]
    BY DEF Sums
  <2>2. F[{}] = 0 /\ F = [s \in SUBSET (1..n) |-> F[s]]
    BY DEF Sums
  <2> QED
    BY <2>1, <2>2
<1>3. iter = Turn(iter)
  <2> HIDE DEF Turn
  <2> QED
    BY <1>2
<1> HIDE DEF iter
<1> DEFINE S == {m \in Nat : \A s \in SUBSET (1..n) : Cardinality(s) = m => iter[s] = F[s]}
<1>5. 0 \in S
  <2>1. \A s \in SUBSET (1..n) : Cardinality(s) = 0 => s = {}
    BY SomeOfFirst
  <2>2. iter[{}] = 0 /\ F[{}] = 0
    BY <1>3 DEF Sums
  <2> QED
    BY <2>1, <2>2
<1>6. ASSUME NEW m \in Nat, m \in S PROVE m + 1 \in S
  <2> SUFFICES ASSUME NEW s \in SUBSET (1..n), Cardinality(s) = m + 1
               PROVE  iter[s] = F[s]
    OBVIOUS
  <2>0. m + 1 # 0 /\ (m + 1) - 1 = m
    OBVIOUS
  <2>1. s # {} /\ Pick(s) \in s
    BY <2>0, SomeOfFirst
  <2> HIDE DEF Pick
  <2>2. s \ {Pick(s)} \in SUBSET (1..n) /\ Cardinality(s \ {Pick(s)}) = m
    BY <2>0, <2>1, SomeOfFirst
  <2>3. iter[s] = cs[Pick(s)] + iter[s \ {Pick(s)}]
    BY <1>3, <2>1
  <2>4. F[s] = cs[Pick(s)] + F[s \ {Pick(s)}]
    BY <2>1 DEF Sums
  <2> QED
    BY <1>6, <2>2, <2>3, <2>4
<1>7. \A m \in Nat : m \in S
  <2> HIDE DEF S
  <2> QED
    BY <1>5, <1>6, SetInduction
<1>8. 1..n \in SUBSET (1..n)
  OBVIOUS
<1>9. iter[1..n] = F[1..n]
  BY <1>7, <1>8, SomeOfFirst
<1> QED
  BY <1>1, <1>9

\* The first n values of f lie between lo and hi.
Between(f, n, lo, hi) == \A j \in 1..n : lo <= f[j] /\ f[j] <= hi

(* A sum lies between as many times the least and as many times the greatest summand, *)
(* and below the latter if one summand does.                                           *)
LEMMA SumBounds ==
  ASSUME NEW n \in Nat, NEW f, NEW F, Sums(F, f, n), NEW lo \in Int, NEW hi \in Int,
         Between(f, n, lo, hi)
  PROVE  /\ F[1..n] \in Int /\ lo * n <= F[1..n] /\ F[1..n] <= hi * n
         /\ (\E j \in 1..n : f[j] < hi) => F[1..n] < hi * n
<1> DEFINE Bounded(m) ==
      /\ F[1..m] \in Int /\ lo * m <= F[1..m] /\ F[1..m] <= hi * m
      /\ (\E j \in 1..m : f[j] < hi) => F[1..m] < hi * m
<1> DEFINE S == {m \in Nat : m <= n => Bounded(m)}
<1>1. 0 \in S
  <2>1. 1..0 = {} /\ F[{}] = 0
    BY DEF Sums
  <2>2. F[1..0] = 0
    BY <2>1
  <2>3. lo * 0 = 0 /\ hi * 0 = 0
    OBVIOUS
  <2> QED
    BY <2>1, <2>2, <2>3
<1>2. ASSUME NEW m \in Nat, m \in S PROVE m + 1 \in S
  <2> SUFFICES ASSUME m + 1 <= n PROVE Bounded(m + 1)
    OBVIOUS
  <2>1. /\ m + 1 \in 1..n /\ m + 1 \in 1..(m + 1) /\ 1..(m + 1) \in SUBSET (1..n)
        /\ (1..(m + 1)) \ {m + 1} = 1..m /\ m <= n
    OBVIOUS
  <2>2. F[1..(m + 1)] = f[m + 1] + F[(1..(m + 1)) \ {m + 1}]
    BY <2>1 DEF Sums
  <2>3. F[1..(m + 1)] = f[m + 1] + F[1..m]
    BY <2>1, <2>2
  <2>4. f[m + 1] \in Int /\ lo <= f[m + 1] /\ f[m + 1] <= hi
    BY <2>1 DEF Sums, Between
  <2>5. Bounded(m)
    BY <1>2, <2>1
  <2>6. lo * (m + 1) = lo + lo * m /\ hi * (m + 1) = hi + hi * m
        /\ lo * m \in Int /\ hi * m \in Int
    OBVIOUS
  <2>7. PICK a, b, c, d \in Int : a = f[m + 1] /\ b = F[1..m] /\ c = lo * m /\ d = hi * m
    BY <2>4, <2>5, <2>6
  <2>8. F[1..(m + 1)] = a + b /\ lo * (m + 1) = lo + c /\ hi * (m + 1) = hi + d
    BY <2>3, <2>6, <2>7
  <2>9. lo <= a /\ a <= hi /\ c <= b /\ b <= d
    BY <2>4, <2>5, <2>7
  <2>10. a + b \in Int /\ lo + c <= a + b /\ a + b <= hi + d
    BY <2>9
  <2>11. ASSUME NEW j \in 1..(m + 1), f[j] < hi PROVE a + b < hi + d
    <3>1. CASE j = m + 1
      <4>1. a < hi
        BY <2>7, <2>11, <3>1
      <4> QED
        BY <2>9, <4>1
    <3>2. CASE j \in 1..m
      <4>1. b < d
        BY <2>5, <2>7, <2>11, <3>2
      <4> QED
        BY <2>9, <4>1
    <3> QED
      BY <3>1, <3>2
  <2> QED
    BY <2>8, <2>10, <2>11
<1>3. n \in S
  <2> HIDE DEF S
  <2> QED
    BY <1>1, <1>2, SetInduction
<1>4. Bounded(n)
  BY <1>3
<1> QED
  BY <1>4

----------------------------------------------------------------------------
(* Envelopes, as lists and as sets *)

\* The first n responses of a list.
FirstOf(rs, n) == [j \in 1..n |-> rs[j]]

(* An envelope's fields, once its provenance is a set. *)
LEMMA EnvelopeIs ==
  ASSUME NEW rs, NEW j \in DOMAIN rs, rs[j] \in Responses
  PROVE  /\ Envelopes(rs)[j].status = rs[j].status
         /\ Envelopes(rs)[j].data = rs[j].data
         /\ Envelopes(rs)[j].confidence = rs[j].confidence
         /\ Envelopes(rs)[j].errors = rs[j].errors
         /\ Envelopes(rs)[j].provenance =
              {rs[j].provenance[k] : k \in DOMAIN rs[j].provenance}
         /\ IsOk(Envelopes(rs)[j]) <=> IsOk(rs[j])
         /\ IsError(Envelopes(rs)[j]) <=> IsError(rs[j])
<1>1. DOMAIN rs[j] = {"status", "data", "provenance", "confidence", "errors"}
  BY ResponsesAssumption
<1>2. Envelopes(rs)[j] = [rs[j] EXCEPT !.provenance = ToSet(@)]
  BY DEF Envelopes
<1> QED
  BY <1>1, <1>2 DEF ToSet, IsOk, IsError

(* The entry of a source is the one that names it. *)
LEMMA EntryOfIs ==
  ASSUME NEW rs, NEW j \in DOMAIN rs, rs[j] \in Responses, NEW k \in DOMAIN rs[j].provenance
  PROVE  EntryOf(Envelopes(rs)[j], rs[j].provenance[k].source) = rs[j].provenance[k]
<1> DEFINE P == Envelopes(rs)[j].provenance
<1> DEFINE e == rs[j].provenance[k]
<1>1. P = {rs[j].provenance[l] : l \in DOMAIN rs[j].provenance}
  BY EnvelopeIs
<1>2. \A l \in DOMAIN rs[j].provenance :
        rs[j].provenance[l].source = rs[j].provenance[k].source => l = k
  BY ResponsesAssumption
<1>3. e \in P /\ \A x \in P : x.source = e.source => x = e
  BY <1>1, <1>2
<1> HIDE DEF P, e
<1>4. (CHOOSE x \in P : x.source = e.source) = e
  BY <1>3
<1> QED
  BY <1>4 DEF EntryOf, P, e

----------------------------------------------------------------------------
(* The provenance dictionary *)

\* What the entries of list with an index in s make of dictionary d.
Joined(d, list, s) ==
  [t \in DOMAIN d \cup {list[k].source : k \in s} |->
     IF \E k \in s : list[k].source = t
     THEN MergeEntry(d, list[CHOOSE k \in s : list[k].source = t])[t]
     ELSE d[t]]

(* A dictionary with an entry added has the sources it had and the entry's. *)
LEMMA MergeEntryDomain ==
  ASSUME NEW d, NEW e
  PROVE  DOMAIN MergeEntry(d, e) = DOMAIN d \cup {e.source}
  BY DEF MergeEntry

LEMMA MergeEntryFunction ==
  ASSUME NEW d, NEW e
  PROVE  MergeEntry(d, e) = [t \in DOMAIN MergeEntry(d, e) |-> MergeEntry(d, e)[t]]
  BY DEF MergeEntry

(* Of the other sources it says what it did. *)
LEMMA MergeEntryOthers ==
  ASSUME NEW d, NEW e, NEW t \in DOMAIN d, t # e.source
  PROVE  MergeEntry(d, e)[t] = d[t]
  BY DEF MergeEntry

\* What an entry makes of what a dictionary says of its source.
Added(old, e) ==
  [ids |-> old.ids \cup e.ids,
   timestamp |-> IF e.timestamp # NoTime THEN e.timestamp ELSE old.timestamp]

(* Of the entry's source it says what it said and what the entry says. *)
LEMMA MergeEntryAdds ==
  ASSUME NEW d, NEW e
  PROVE  /\ e.source \in DOMAIN d => MergeEntry(d, e)[e.source] = Added(d[e.source], e)
         /\ e.source \notin DOMAIN d =>
              MergeEntry(d, e)[e.source] = [ids |-> e.ids, timestamp |-> e.timestamp]
<1> DEFINE old == IF e.source \in DOMAIN d THEN d[e.source]
                  ELSE [ids |-> {}, timestamp |-> e.timestamp]
<1>1. MergeEntry(d, e)[e.source] = Added(old, e)
  BY DEF MergeEntry, Added
<1>2. ASSUME e.source \notin DOMAIN d
      PROVE  Added(old, e) = [ids |-> e.ids, timestamp |-> e.timestamp]
  <2>1. old = [ids |-> {}, timestamp |-> e.timestamp]
    BY <1>2
  <2> QED
    BY <2>1 DEF Added
<1> QED
  BY <1>1, <1>2

(* Entries of different sources are joined one by one, in whatever order. *)
LEMMA JoinedStep ==
  ASSUME NEW d, NEW list, NEW s, NEW x \in s,
         \A j, k \in s : list[j].source = list[k].source => j = k
  PROVE  Joined(d, list, s) = MergeEntry(Joined(d, list, s \ {x}), list[x])
<1>0. PICK e, d0 : e = list[x] /\ d0 = Joined(d, list, s \ {x})
  OBVIOUS
<1>1. \A k \in s : (CHOOSE l \in s : list[l].source = list[k].source) = k
  OBVIOUS
<1>2. \A k \in s \ {x} : (CHOOSE l \in s \ {x} : list[l].source = list[k].source) = k
  OBVIOUS
<1>3. ~ \E k \in s \ {x} : list[k].source = e.source
  BY <1>0
<1>4. DOMAIN d0 = DOMAIN d \cup {list[k].source : k \in s \ {x}}
  BY <1>0 DEF Joined
<1>5. e.source \in DOMAIN d0 <=> e.source \in DOMAIN d
  BY <1>3, <1>4
<1>6. e.source \in DOMAIN d0 => d0[e.source] = d[e.source]
  BY <1>0, <1>3 DEF Joined
<1>7. MergeEntry(d0, e)[e.source] = MergeEntry(d, e)[e.source]
  <2>1. CASE e.source \in DOMAIN d
    <3>1. MergeEntry(d0, e)[e.source] = Added(d0[e.source], e)
      BY <1>5, <2>1, MergeEntryAdds
    <3>2. MergeEntry(d, e)[e.source] = Added(d[e.source], e)
      BY <2>1, MergeEntryAdds
    <3> QED
      BY <1>5, <1>6, <2>1, <3>1, <3>2
  <2>2. CASE e.source \notin DOMAIN d
    <3>1. MergeEntry(d0, e)[e.source] = [ids |-> e.ids, timestamp |-> e.timestamp]
      BY <1>5, <2>2, MergeEntryAdds
    <3>2. MergeEntry(d, e)[e.source] = [ids |-> e.ids, timestamp |-> e.timestamp]
      BY <2>2, MergeEntryAdds
    <3> QED
      BY <3>1, <3>2
  <2> QED
    BY <2>1, <2>2
<1>8. DOMAIN Joined(d, list, s) = DOMAIN MergeEntry(d0, e)
  <2>1. DOMAIN MergeEntry(d0, e) = DOMAIN d0 \cup {e.source}
    BY MergeEntryDomain
  <2>2. DOMAIN Joined(d, list, s) = DOMAIN d \cup {list[k].source : k \in s}
    BY DEF Joined
  <2>3. {list[k].source : k \in s} = {list[k].source : k \in s \ {x}} \cup {list[x].source}
    OBVIOUS
  <2> QED
    BY <1>0, <1>4, <2>1, <2>2, <2>3
<1>9. ASSUME NEW t \in DOMAIN Joined(d, list, s)
      PROVE  Joined(d, list, s)[t] = MergeEntry(d0, e)[t]
  <2>1. CASE t = e.source
    <3>1. Joined(d, list, s)[t] = MergeEntry(d, list[CHOOSE l \in s : list[l].source = t])[t]
      BY <1>0, <1>9, <2>1 DEF Joined
    <3>2. (CHOOSE l \in s : list[l].source = t) = x
      BY <1>0, <1>1, <2>1
    <3> QED
      BY <1>0, <1>7, <2>1, <3>1, <3>2
  <2>2. CASE t # e.source
    <3>1. t \in DOMAIN d0
      BY <1>0, <1>4, <1>9, <2>2 DEF Joined
    <3>2. MergeEntry(d0, e)[t] = d0[t]
      BY <2>2, <3>1, MergeEntryOthers
    <3>3. CASE \E k \in s : list[k].source = t
      <4>1. PICK k \in s : list[k].source = t
        BY <3>3
      <4>2. k \in s \ {x}
        BY <1>0, <2>2, <4>1
      <4>3. Joined(d, list, s)[t] = MergeEntry(d, list[CHOOSE l \in s : list[l].source = t])[t]
        BY <1>9, <4>1 DEF Joined
      <4>4. d0[t] = MergeEntry(d, list[CHOOSE l \in s \ {x} : list[l].source = t])[t]
        BY <1>0, <3>1, <4>1, <4>2 DEF Joined
      <4>5. (CHOOSE l \in s : list[l].source = t) = k
        BY <1>1, <4>1
      <4>6. (CHOOSE l \in s \ {x} : list[l].source = t) = k
        BY <1>2, <4>1, <4>2
      <4> QED
        BY <3>2, <4>3, <4>4, <4>5, <4>6
    <3>4. CASE ~ \E k \in s : list[k].source = t
      <4>1. Joined(d, list, s)[t] = d[t]
        BY <1>9, <3>4 DEF Joined
      <4>2. d0[t] = d[t]
        BY <1>0, <3>1, <3>4 DEF Joined
      <4> QED
        BY <3>2, <4>1, <4>2
    <3> QED
      BY <3>3, <3>4
  <2> QED
    BY <2>1, <2>2
<1>10. MergeEntry(d0, e) = [t \in DOMAIN MergeEntry(d0, e) |-> MergeEntry(d0, e)[t]]
  BY MergeEntryFunction
<1>11. Joined(d, list, s) = [t \in DOMAIN Joined(d, list, s) |-> Joined(d, list, s)[t]]
  BY DEF Joined
<1> QED
  BY <1>0, <1>8, <1>9, <1>10, <1>11

(* The loop over the entries of a response joins all of them. *)
LEMMA FoldJoins ==
  ASSUME NEW d, d = [t \in DOMAIN d |-> d[t]], NEW n \in Nat, NEW list, DOMAIN list = 1..n,
         \A j, k \in 1..n : list[j].source = list[k].source => j = k
  PROVE  FoldLeft(MergeEntry, d, list) = Joined(d, list, 1..n)
<1> DEFINE Turn(G) == [s \in SUBSET (1..n) |->
                         IF s = {} THEN d ELSE MergeEntry(G[s \ {Max(s)}], list[Max(s)])]
<1> DEFINE iter == CHOOSE G : G = Turn(G)
<1> DEFINE J == [s \in SUBSET (1..n) |-> Joined(d, list, s)]
<1>1. FoldLeft(MergeEntry, d, list) = iter[1..n]
  BY DEF FoldLeft, MapThenFoldSet
<1>2. J = Turn(J)
  <2>1. ASSUME NEW s \in SUBSET (1..n), s # {}
        PROVE  J[s] = MergeEntry(J[s \ {Max(s)}], list[Max(s)])
    <3>1. Max(s) \in s
      BY <2>1, MaxOfSome
    <3>2. Joined(d, list, s) = MergeEntry(Joined(d, list, s \ {Max(s)}), list[Max(s)])
      BY <3>1, JoinedStep
    <3>3. s \ {Max(s)} \in SUBSET (1..n)
      OBVIOUS
    <3> QED
      BY <3>2, <3>3
  <2>2. Joined(d, list, {}) = d
    BY DEF Joined
  <2>3. J[{}] = d
    BY <2>2
  <2> QED
    BY <2>1, <2>3
<1>3. iter = Turn(iter)
  <2> HIDE DEF Turn, J
  <2> QED
    BY <1>2
<1> HIDE DEF iter
<1> DEFINE S == {m \in Nat : m <= n => iter[1..m] = J[1..m]}
<1>4. 0 \in S
  <2>1. 1..0 = {} /\ {} \in SUBSET (1..n)
    OBVIOUS
  <2>2. iter[{}] = d /\ J[{}] = d
    BY <1>2, <1>3, <2>1
  <2> QED
    BY <2>1, <2>2
<1>5. ASSUME NEW m \in Nat, m \in S PROVE m + 1 \in S
  <2> SUFFICES ASSUME m + 1 <= n PROVE iter[1..(m + 1)] = J[1..(m + 1)]
    OBVIOUS
  <2>1. /\ 1..(m + 1) \in SUBSET (1..n) /\ 1..(m + 1) # {}
        /\ Max(1..(m + 1)) = m + 1 /\ (1..(m + 1)) \ {m + 1} = 1..m
    BY MaxOfFirst
  <2>2. iter[1..(m + 1)] = MergeEntry(iter[1..m], list[m + 1])
    BY <1>3, <2>1
  <2>3. J[1..(m + 1)] = MergeEntry(J[1..m], list[m + 1])
    <3> HIDE DEF J
    <3> QED
      BY <1>2, <2>1
  <2> HIDE DEF J, Turn
  <2> QED
    BY <1>5, <2>2, <2>3
<1>6. n \in S
  <2> HIDE DEF S
  <2> QED
    BY <1>4, <1>5, SetInduction
<1>7. iter[1..n] = J[1..n] /\ J[1..n] = Joined(d, list, 1..n)
  BY <1>6
<1> QED
  BY <1>1, <1>7

\* The time stamp of the last of the envelopes es that has one for source s.
LastStamp(es, s) ==
  LET stamped == {j \in Contributors(es, s) : EntryOf(es[j], s).timestamp # NoTime}
  IN  IF stamped = {} THEN NoTime ELSE EntryOf(es[Max(stamped)], s).timestamp

\* All that the envelopes es say of source s.
AllIds(es, s) == UNION {EntryOf(es[j], s).ids : j \in Contributors(es, s)}

\* The dictionary that the envelopes es amount to.
Dictionary(es) ==
  [s \in {t \in Sources(es) : Contributors(es, t) # {}} |->
     [ids |-> AllIds(es, s), timestamp |-> LastStamp(es, s)]]

(* As a list, a source without a time stamp stamped now, it is the merged provenance. *)
LEMMA DictionaryIsMerged ==
  ASSUME NEW n \in Nat, NEW es, DOMAIN es = 1..n
  PROVE  {Entry(s, Dictionary(es)[s].ids,
                IF Dictionary(es)[s].timestamp = NoTime THEN Now
                ELSE Dictionary(es)[s].timestamp) : s \in DOMAIN Dictionary(es)}
           = MergeProvenance(es)
<1> DEFINE named == {t \in Sources(es) : Contributors(es, t) # {}}
<1>1. DOMAIN Dictionary(es) = named
  BY DEF Dictionary
<1>2. ASSUME NEW s \in named
      PROVE  /\ Dictionary(es)[s].ids = UNION {EntryOf(es[j], s).ids : j \in Contributors(es, s)}
             /\ (IF Dictionary(es)[s].timestamp = NoTime THEN Now
                 ELSE Dictionary(es)[s].timestamp) = MergedTime(es, s)
  <2>1. Dictionary(es)[s] = [ids |-> AllIds(es, s), timestamp |-> LastStamp(es, s)]
    BY DEF Dictionary
  <2> DEFINE stamped == {j \in Contributors(es, s) : EntryOf(es[j], s).timestamp # NoTime}
  <2>2. CASE stamped = {}
    BY <2>1, <2>2 DEF AllIds, LastStamp, MergedTime
  <2>3. CASE stamped # {}
    <3>1. Max(stamped) \in stamped
      <4>1. stamped \in SUBSET (1..n)
        BY DEF Contributors
      <4> HIDE DEF stamped
      <4> QED
        BY <2>3, <4>1, MaxOfSome
    <3>2. EntryOf(es[Max(stamped)], s).timestamp # NoTime
      BY <3>1
    <3>3. LastStamp(es, s) = EntryOf(es[Max(stamped)], s).timestamp
      BY <2>3 DEF LastStamp
    <3>4. MergedTime(es, s) = EntryOf(es[Max(stamped)], s).timestamp
      BY <2>3 DEF MergedTime
    <3> HIDE DEF stamped
    <3> QED
      BY <2>1, <3>2, <3>3, <3>4 DEF AllIds
  <2> QED
    BY <2>2, <2>3
<1>3. MergeProvenance(es) =
        {Entry(s, UNION {EntryOf(es[j], s).ids : j \in Contributors(es, s)},
               MergedTime(es, s)) : s \in named}
  BY DEF MergeProvenance
<1> HIDE DEF named
<1> QED
  BY <1>1, <1>2, <1>3

(* The first n of n + 1 responses, as envelopes. *)
LEMMA EnvelopesOfMore ==
  ASSUME NEW n \in Nat, NEW rs, DOMAIN rs = 1..(n + 1)
  PROVE  /\ DOMAIN Envelopes(rs) = 1..(n + 1)
         /\ DOMAIN Envelopes(FirstOf(rs, n)) = 1..n
         /\ \A j \in 1..n : Envelopes(rs)[j] = Envelopes(FirstOf(rs, n))[j]
  BY DEF Envelopes, FirstOf

(* A response that is not ok names no source and provides no section. *)
LEMMA ContributorsOfMore ==
  ASSUME NEW n \in Nat, NEW rs \in [1..(n + 1) -> Responses], NEW s
  PROVE  LET old == Contributors(Envelopes(FirstOf(rs, n)), s)
             new == Contributors(Envelopes(rs), s)
         IN  /\ old \subseteq 1..n
             /\ IsOk(rs[n + 1])
                  /\ (\E k \in DOMAIN rs[n + 1].provenance : rs[n + 1].provenance[k].source = s)
                  => new = old \cup {n + 1}
             /\ ~(IsOk(rs[n + 1])
                  /\ \E k \in DOMAIN rs[n + 1].provenance : rs[n + 1].provenance[k].source = s)
                  => new = old
<1> DEFINE r == rs[n + 1]
<1> DEFINE old == Contributors(Envelopes(FirstOf(rs, n)), s)
<1> DEFINE new == Contributors(Envelopes(rs), s)
<1>1. /\ DOMAIN Envelopes(rs) = 1..(n + 1)
      /\ DOMAIN Envelopes(FirstOf(rs, n)) = 1..n
      /\ \A j \in 1..n : Envelopes(rs)[j] = Envelopes(FirstOf(rs, n))[j]
  BY EnvelopesOfMore
<1>2. n + 1 \in DOMAIN rs /\ rs[n + 1] \in Responses
  OBVIOUS
<1>3. n + 1 \in new <=> IsOk(r) /\ \E k \in DOMAIN r.provenance : r.provenance[k].source = s
  <2>1. /\ IsOk(Envelopes(rs)[n + 1]) <=> IsOk(r)
        /\ Envelopes(rs)[n + 1].provenance = {r.provenance[k] : k \in DOMAIN r.provenance}
    BY <1>2, EnvelopeIs
  <2>2. n + 1 \in new <=> IsOk(Envelopes(rs)[n + 1])
                          /\ \E e \in Envelopes(rs)[n + 1].provenance : e.source = s
    BY <1>1 DEF Contributors
  <2> QED
    BY <2>1, <2>2
<1>4. \A j \in 1..n : j \in new <=> j \in old
  BY <1>1 DEF Contributors
<1>5. new \subseteq 1..(n + 1) /\ old \subseteq 1..n
  BY <1>1 DEF Contributors
<1>6. 1..(n + 1) = (1..n) \cup {n + 1} /\ n + 1 \notin 1..n
  OBVIOUS
<1> HIDE DEF old, new
<1>7. \A j : j \in new <=> j \in old \/ (j = n + 1 /\ n + 1 \in new)
  BY <1>4, <1>5, <1>6
<1>8. (n + 1 \in new => new = old \cup {n + 1}) /\ (n + 1 \notin new => new = old)
  BY <1>7
<1> QED
  BY <1>3, <1>5, <1>8 DEF old, new

(* A dictionary has the sources that somebody contributes to. *)
LEMMA DictionaryDomain ==
  ASSUME NEW es, NEW s
  PROVE  s \in DOMAIN Dictionary(es) <=> Contributors(es, s) # {}
<1>1. ASSUME Contributors(es, s) # {} PROVE s \in Sources(es)
  <2>1. PICK j \in DOMAIN es : \E e \in es[j].provenance : e.source = s
    BY <1>1 DEF Contributors
  <2> QED
    BY <2>1 DEF Sources
<1> QED
  BY <1>1 DEF Dictionary

(* What is said of a source that the last response does not name. *)
LEMMA SaidBefore ==
  ASSUME NEW n \in Nat, NEW rs \in [1..(n + 1) -> Responses], NEW s,
         ~(IsOk(rs[n + 1])
           /\ \E k \in DOMAIN rs[n + 1].provenance : rs[n + 1].provenance[k].source = s)
  PROVE  LET old == Envelopes(FirstOf(rs, n))
             new == Envelopes(rs)
         IN  /\ Contributors(new, s) = Contributors(old, s)
             /\ AllIds(new, s) = AllIds(old, s)
             /\ LastStamp(new, s) = LastStamp(old, s)
<1>0. PICK old, new : old = Envelopes(FirstOf(rs, n)) /\ new = Envelopes(rs)
  OBVIOUS
<1>1. \A j \in 1..n : new[j] = old[j]
  BY <1>0, EnvelopesOfMore
<1>2. Contributors(new, s) = Contributors(old, s) /\ Contributors(old, s) \subseteq 1..n
  BY <1>0, ContributorsOfMore
<1>3. AllIds(new, s) = AllIds(old, s)
  BY <1>1, <1>2 DEF AllIds
<1>4. LastStamp(new, s) = LastStamp(old, s)
  <2>1. {j \in Contributors(new, s) : EntryOf(new[j], s).timestamp # NoTime}
          = {j \in Contributors(old, s) : EntryOf(old[j], s).timestamp # NoTime}
    BY <1>1, <1>2
  <2> DEFINE stamped == {j \in Contributors(old, s) : EntryOf(old[j], s).timestamp # NoTime}
  <2>2. ASSUME stamped # {} PROVE new[Max(stamped)] = old[Max(stamped)]
    <3>1. stamped \in SUBSET (1..n)
      BY <1>2
    <3> HIDE DEF stamped
    <3> QED
      BY <1>1, <2>2, <3>1, MaxOfSome
  <2> QED
    BY <2>1, <2>2 DEF LastStamp
<1> QED
  BY <1>0, <1>2, <1>3, <1>4

\* Response r is ok, and e is one of its entries.
Cites(r, e) == IsOk(r) /\ \E k \in DOMAIN r.provenance : e = r.provenance[k]

(* What is said of a source that the last response names. *)
LEMMA SaidLast ==
  ASSUME NEW n \in Nat, NEW rs \in [1..(n + 1) -> Responses], NEW e, Cites(rs[n + 1], e)
  PROVE  /\ Contributors(Envelopes(rs), e.source) # {}
         /\ AllIds(Envelopes(rs), e.source)
              = AllIds(Envelopes(FirstOf(rs, n)), e.source) \cup e.ids
         /\ LastStamp(Envelopes(rs), e.source) =
              IF e.timestamp # NoTime THEN e.timestamp
              ELSE LastStamp(Envelopes(FirstOf(rs, n)), e.source)
<1> PICK k \in DOMAIN rs[n + 1].provenance : e = rs[n + 1].provenance[k] /\ IsOk(rs[n + 1])
  BY DEF Cites
<1>0. PICK old, new, s :
        old = Envelopes(FirstOf(rs, n)) /\ new = Envelopes(rs) /\ s = e.source
  OBVIOUS
<1>1. \A j \in 1..n : new[j] = old[j]
  BY <1>0, EnvelopesOfMore
<1>2. /\ Contributors(new, s) = Contributors(old, s) \cup {n + 1}
      /\ Contributors(old, s) \subseteq 1..n
  BY <1>0, ContributorsOfMore
<1>3. EntryOf(new[n + 1], s) = e
  <2>1. n + 1 \in DOMAIN rs /\ rs[n + 1] \in Responses
    OBVIOUS
  <2> QED
    BY <1>0, <2>1, EntryOfIs
<1>4. AllIds(new, s) = AllIds(old, s) \cup e.ids
  <2>1. \A j \in Contributors(old, s) : new[j] = old[j]
    BY <1>1, <1>2
  <2>2. {EntryOf(new[j], s).ids : j \in Contributors(new, s)}
          = {EntryOf(old[j], s).ids : j \in Contributors(old, s)} \cup {e.ids}
    BY <1>2, <1>3, <2>1
  <2> QED
    BY <2>2 DEF AllIds
<1>5. LastStamp(new, s) = IF e.timestamp # NoTime THEN e.timestamp ELSE LastStamp(old, s)
  <2> DEFINE before == {j \in Contributors(old, s) : EntryOf(old[j], s).timestamp # NoTime}
  <2> DEFINE stamped == {j \in Contributors(new, s) : EntryOf(new[j], s).timestamp # NoTime}
  <2>0. before \in SUBSET (1..n) /\ stamped \in SUBSET (1..(n + 1))
    BY <1>2
  <2>1. CASE e.timestamp # NoTime
    <3>1. n + 1 \in stamped
      BY <1>2, <1>3, <2>1
    <3>2. Max(stamped) = n + 1
      <4> HIDE DEF stamped
      <4>0. PICK m \in Nat : m = n + 1
        OBVIOUS
      <4>1. stamped \in SUBSET (1..m) /\ m \in stamped
        BY <2>0, <3>1, <4>0
      <4>2. Max(stamped) \in stamped /\ \A y \in stamped : y <= Max(stamped)
        BY <4>1, MaxOfSome
      <4>3. m <= Max(stamped) /\ Max(stamped) \in 1..m
        BY <4>1, <4>2
      <4> QED
        BY <4>0, <4>3
    <3> QED
      BY <1>3, <2>1, <3>1, <3>2 DEF LastStamp
  <2>2. CASE e.timestamp = NoTime
    <3>1. stamped = before
      <4>1. n + 1 \notin stamped
        BY <1>3, <2>2
      <4>2. \A j \in 1..n : j \in stamped <=> j \in before
        BY <1>1, <1>2
      <4> HIDE DEF stamped, before
      <4>3. stamped \in SUBSET (1..n)
        BY <2>0, <4>1
      <4> QED
        BY <2>0, <4>2, <4>3
    <3>2. ASSUME before # {} PROVE new[Max(before)] = old[Max(before)]
      <4> HIDE DEF before
      <4> QED
        BY <1>1, <2>0, <3>2, MaxOfSome
    <3> QED
      BY <2>2, <3>1, <3>2 DEF LastStamp
  <2> QED
    BY <2>1, <2>2
<1> QED
  BY <1>0, <1>2, <1>4, <1>5

(* A source nobody contributes to has no ids and no time stamp. *)
LEMMA NothingSaid ==
  ASSUME NEW es, NEW s, Contributors(es, s) = {}
  PROVE  AllIds(es, s) = {} /\ LastStamp(es, s) = NoTime
  BY DEF AllIds, LastStamp

(* The dictionary of one more response is the old one, joined with the response if ok. *)
LEMMA DictionaryGrows ==
  ASSUME NEW n \in Nat, NEW rs \in [1..(n + 1) -> Responses]
  PROVE  Dictionary(Envelopes(rs)) =
           IF IsOk(rs[n + 1])
           THEN FoldLeft(MergeEntry, Dictionary(Envelopes(FirstOf(rs, n))),
                         rs[n + 1].provenance)
           ELSE Dictionary(Envelopes(FirstOf(rs, n)))
<1>0. PICK old, new, r : /\ old = Envelopes(FirstOf(rs, n))
                         /\ new = Envelopes(rs)
                         /\ r = rs[n + 1]
  OBVIOUS
<1>1. r \in Responses
  BY <1>0
<1>2. /\ Dictionary(new) = [s \in DOMAIN Dictionary(new) |-> Dictionary(new)[s]]
      /\ Dictionary(old) = [s \in DOMAIN Dictionary(old) |-> Dictionary(old)[s]]
  BY DEF Dictionary
<1>3. /\ \A s \in DOMAIN Dictionary(new) :
           Dictionary(new)[s] = [ids |-> AllIds(new, s), timestamp |-> LastStamp(new, s)]
      /\ \A s \in DOMAIN Dictionary(old) :
           Dictionary(old)[s] = [ids |-> AllIds(old, s), timestamp |-> LastStamp(old, s)]
  BY DEF Dictionary
<1>4. CASE ~IsOk(r)
  <2>1. ASSUME NEW s
        PROVE  /\ Contributors(new, s) = Contributors(old, s)
               /\ AllIds(new, s) = AllIds(old, s)
               /\ LastStamp(new, s) = LastStamp(old, s)
    BY <1>0, <1>4, SaidBefore
  <2>2. DOMAIN Dictionary(new) = DOMAIN Dictionary(old)
    BY <2>1, DictionaryDomain
  <2>3. \A s \in DOMAIN Dictionary(new) : Dictionary(new)[s] = Dictionary(old)[s]
    BY <1>3, <2>1, <2>2
  <2> QED
    BY <1>0, <1>2, <1>4, <2>2, <2>3
<1>5. CASE IsOk(r)
  <2>1. PICK m \in Nat : DOMAIN r.provenance = 1..m
    BY <1>1, ResponsesAssumption
  <2>2. PICK list, d : list = r.provenance /\ d = Dictionary(old)
    OBVIOUS
  <2>3. \A j, k \in 1..m : list[j].source = list[k].source => j = k
    BY <1>1, <2>1, <2>2, ResponsesAssumption
  <2>4. FoldLeft(MergeEntry, d, list) = Joined(d, list, 1..m)
    BY <1>2, <2>1, <2>2, <2>3, FoldJoins
  <2>5. \A k \in 1..m :
          /\ Contributors(new, list[k].source) # {}
          /\ AllIds(new, list[k].source) = AllIds(old, list[k].source) \cup list[k].ids
          /\ LastStamp(new, list[k].source) =
               IF list[k].timestamp # NoTime THEN list[k].timestamp
               ELSE LastStamp(old, list[k].source)
    <3> SUFFICES ASSUME NEW k \in 1..m, NEW e, e = list[k]
                 PROVE  /\ Contributors(new, e.source) # {}
                        /\ AllIds(new, e.source) = AllIds(old, e.source) \cup e.ids
                        /\ LastStamp(new, e.source) =
                             IF e.timestamp # NoTime THEN e.timestamp
                             ELSE LastStamp(old, e.source)
      OBVIOUS
    <3>1. Cites(rs[n + 1], e)
      BY <1>0, <1>5, <2>1, <2>2 DEF Cites
    <3>2. /\ Contributors(Envelopes(rs), e.source) # {}
          /\ AllIds(Envelopes(rs), e.source)
               = AllIds(Envelopes(FirstOf(rs, n)), e.source) \cup e.ids
          /\ LastStamp(Envelopes(rs), e.source) =
               IF e.timestamp # NoTime THEN e.timestamp
               ELSE LastStamp(Envelopes(FirstOf(rs, n)), e.source)
      BY <3>1, SaidLast
    <3> QED
      BY <1>0, <3>2
  <2>6. ASSUME NEW s, ~ \E k \in 1..m : list[k].source = s
        PROVE  /\ Contributors(new, s) = Contributors(old, s)
               /\ AllIds(new, s) = AllIds(old, s)
               /\ LastStamp(new, s) = LastStamp(old, s)
    BY <1>0, <2>1, <2>2, <2>6, SaidBefore
  <2>7. DOMAIN Joined(d, list, 1..m) = DOMAIN Dictionary(new)
    <3>1. DOMAIN Joined(d, list, 1..m) = DOMAIN d \cup {list[k].source : k \in 1..m}
      BY DEF Joined
    <3>2. ASSUME NEW s
          PROVE  s \in DOMAIN Dictionary(new)
                   <=> s \in DOMAIN d \/ \E k \in 1..m : list[k].source = s
      <4>1. CASE \E k \in 1..m : list[k].source = s
        BY <2>5, <4>1, DictionaryDomain
      <4>2. CASE ~ \E k \in 1..m : list[k].source = s
        BY <2>2, <2>6, <4>2, DictionaryDomain
      <4> QED
        BY <4>1, <4>2
    <3> QED
      BY <3>1, <3>2
  <2>8. ASSUME NEW s \in DOMAIN Dictionary(new)
        PROVE  Joined(d, list, 1..m)[s] = Dictionary(new)[s]
    <3>0. s \in DOMAIN d \cup {list[k].source : k \in 1..m}
      BY <2>7, <2>8 DEF Joined
    <3>1. CASE \E k \in 1..m : list[k].source = s
      <4>1. PICK k \in 1..m : k = CHOOSE l \in 1..m : list[l].source = s
        BY <3>1
      <4>2. list[k].source = s
        BY <3>1, <4>1
      <4>3. Joined(d, list, 1..m)[s] = MergeEntry(d, list[k])[s]
        BY <3>0, <3>1, <4>1 DEF Joined
      <4>4. PICK e : e = list[k]
        OBVIOUS
      <4>5. Dictionary(new)[s] =
              [ids |-> AllIds(old, s) \cup e.ids,
               timestamp |-> IF e.timestamp # NoTime THEN e.timestamp
                             ELSE LastStamp(old, s)]
        BY <1>3, <2>5, <2>8, <4>2, <4>4
      <4>6. CASE s \in DOMAIN d
        <5>1. MergeEntry(d, e)[s] = Added(d[s], e)
          BY <4>2, <4>4, <4>6, MergeEntryAdds
        <5>2. d[s] = [ids |-> AllIds(old, s), timestamp |-> LastStamp(old, s)]
          BY <1>3, <2>2, <4>6
        <5> QED
          BY <4>3, <4>4, <4>5, <5>1, <5>2 DEF Added
      <4>7. CASE s \notin DOMAIN d
        <5>1. MergeEntry(d, e)[s] = [ids |-> e.ids, timestamp |-> e.timestamp]
          BY <4>2, <4>4, <4>7, MergeEntryAdds
        <5>2. AllIds(old, s) = {} /\ LastStamp(old, s) = NoTime
          BY <2>2, <4>7, DictionaryDomain, NothingSaid
        <5> QED
          BY <4>3, <4>4, <4>5, <5>1, <5>2
      <4> QED
        BY <4>6, <4>7
    <3>2. CASE ~ \E k \in 1..m : list[k].source = s
      <4>1. s \in DOMAIN d
        BY <3>0, <3>2
      <4>2. Joined(d, list, 1..m)[s] = d[s]
        BY <3>0, <3>2 DEF Joined
      <4>3. Dictionary(new)[s] = Dictionary(old)[s]
        BY <1>3, <2>2, <2>6, <2>8, <3>2, <4>1
      <4> QED
        BY <2>2, <4>2, <4>3
    <3> QED
      BY <3>1, <3>2
  <2>9. Joined(d, list, 1..m) =
          [s \in DOMAIN Joined(d, list, 1..m) |-> Joined(d, list, 1..m)[s]]
    BY DEF Joined
  <2>10. Joined(d, list, 1..m) = Dictionary(new)
    BY <1>2, <2>7, <2>8, <2>9
  <2> QED
    BY <1>0, <1>5, <2>2, <2>4, <2>10
<1> QED
  BY <1>4, <1>5

----------------------------------------------------------------------------
(* Data *)

(* The data of one more response is put over the old, if the response is ok. *)
LEMMA DataGrows ==
  ASSUME NEW n \in Nat, NEW rs \in [1..(n + 1) -> Responses]
  PROVE  MergeData(Envelopes(rs)) =
           IF IsOk(rs[n + 1]) THEN Update(MergeData(Envelopes(FirstOf(rs, n))), rs[n + 1].data)
           ELSE MergeData(Envelopes(FirstOf(rs, n)))
<1>0. PICK old, new, r : /\ old = Envelopes(FirstOf(rs, n))
                         /\ new = Envelopes(rs)
                         /\ r = rs[n + 1]
  OBVIOUS
<1>1. /\ DOMAIN new = 1..(n + 1) /\ DOMAIN old = 1..n
      /\ \A j \in 1..n : new[j] = old[j]
  BY <1>0, EnvelopesOfMore
<1>2. /\ IsOk(new[n + 1]) <=> IsOk(r)
      /\ new[n + 1].data = r.data
  <2>1. n + 1 \in DOMAIN rs /\ rs[n + 1] \in Responses
    OBVIOUS
  <2> QED
    BY <1>0, <2>1, EnvelopeIs
<1>3. 1..(n + 1) = (1..n) \cup {n + 1} /\ n + 1 \notin 1..n
  OBVIOUS
<1>4. ASSUME NEW k
      PROVE  /\ Providers(old, k) \in SUBSET (1..n)
             /\ IsOk(r) /\ k \in DOMAIN r.data =>
                  Providers(new, k) = Providers(old, k) \cup {n + 1}
             /\ ~(IsOk(r) /\ k \in DOMAIN r.data) => Providers(new, k) = Providers(old, k)
  <2>1. Providers(old, k) \in SUBSET (1..n) /\ Providers(new, k) \in SUBSET (1..(n + 1))
    BY <1>1 DEF Providers
  <2>2. \A j \in 1..n : j \in Providers(new, k) <=> j \in Providers(old, k)
    BY <1>1 DEF Providers
  <2>3. n + 1 \in Providers(new, k) <=> IsOk(r) /\ k \in DOMAIN r.data
    BY <1>1, <1>2, <1>3 DEF Providers
  <2>4. \A j : j \in Providers(new, k)
                 <=> j \in Providers(old, k) \/ (j = n + 1 /\ n + 1 \in Providers(new, k))
    BY <1>3, <2>1, <2>2
  <2> QED
    BY <2>1, <2>3, <2>4
<1>5. ASSUME NEW es, NEW k
      PROVE  /\ k \in DOMAIN MergeData(es) <=> Providers(es, k) # {}
             /\ k \in DOMAIN MergeData(es) =>
                  MergeData(es)[k] = es[Max(Providers(es, k))].data[k]
             /\ MergeData(es) = [l \in DOMAIN MergeData(es) |-> MergeData(es)[l]]
  <2>1. MergeData(es) =
          [l \in {s \in UNION {DOMAIN es[j].data : j \in DOMAIN es} : Providers(es, s) # {}} |->
             es[Max(Providers(es, l))].data[l]]
    BY DEF MergeData
  <2>2. Providers(es, k) # {} => k \in UNION {DOMAIN es[j].data : j \in DOMAIN es}
    BY DEF Providers
  <2> QED
    BY <2>1, <2>2
<1>6. ASSUME NEW k, Providers(old, k) # {}
      PROVE  Max(Providers(old, k)) \in 1..n
    BY <1>4, <1>6, MaxOfSome
<1>7. CASE ~IsOk(r)
  <2>1. \A k : Providers(new, k) = Providers(old, k)
    BY <1>4, <1>7
  <2>2. DOMAIN MergeData(new) = DOMAIN MergeData(old)
    BY <1>5, <2>1
  <2>3. \A k \in DOMAIN MergeData(new) : MergeData(new)[k] = MergeData(old)[k]
    BY <1>1, <1>5, <1>6, <2>1
  <2> QED
    BY <1>0, <1>5, <1>7, <2>2, <2>3
<1>8. CASE IsOk(r)
  <2>1. PICK d : d = Update(MergeData(old), r.data)
    OBVIOUS
  <2>2. d = [k \in DOMAIN MergeData(old) \cup DOMAIN r.data |->
               IF k \in DOMAIN r.data THEN r.data[k] ELSE MergeData(old)[k]]
    BY <2>1 DEF Update
  <2>3. DOMAIN d = DOMAIN MergeData(new)
    <3>1. \A k : k \in DOMAIN MergeData(new)
                   <=> k \in DOMAIN r.data \/ k \in DOMAIN MergeData(old)
      BY <1>4, <1>5, <1>8
    <3> QED
      BY <2>2, <3>1
  <2>4. ASSUME NEW k \in DOMAIN d PROVE d[k] = MergeData(new)[k]
    <3>1. CASE k \in DOMAIN r.data
      <4>1. Providers(new, k) = Providers(old, k) \cup {n + 1} /\ Providers(old, k) \in SUBSET (1..n)
        BY <1>4, <1>8, <3>1
      <4>2. Max(Providers(new, k)) = n + 1
        <5>1. PICK m \in Nat : m = n + 1
          OBVIOUS
        <5>2. PICK P : P = Providers(new, k)
          OBVIOUS
        <5>3. P \in SUBSET (1..m) /\ m \in P
          BY <4>1, <5>1, <5>2
        <5>4. Max(P) \in P /\ \A y \in P : y <= Max(P)
          BY <5>3, MaxOfSome
        <5>5. m <= Max(P) /\ Max(P) \in 1..m
          BY <5>3, <5>4
        <5> QED
          BY <5>1, <5>2, <5>5
      <4>3. MergeData(new)[k] = new[n + 1].data[k]
        BY <1>5, <2>3, <2>4, <4>2
      <4> QED
        BY <1>2, <2>2, <2>4, <3>1, <4>3
    <3>2. CASE k \notin DOMAIN r.data
      <4>1. Providers(new, k) = Providers(old, k)
        BY <1>4, <3>2
      <4>2. k \in DOMAIN MergeData(old) /\ d[k] = MergeData(old)[k]
        BY <2>2, <2>4, <3>2
      <4>3. Providers(old, k) # {}
        BY <1>5, <4>2
      <4>4. new[Max(Providers(old, k))] = old[Max(Providers(old, k))]
        BY <1>1, <1>6, <4>3
      <4> QED
        BY <1>5, <2>3, <2>4, <4>1, <4>2, <4>4
    <3> QED
      BY <3>1, <3>2
  <2>5. d = MergeData(new)
    <3>1. d = [k \in DOMAIN d |-> d[k]]
      BY <2>2
    <3>2. MergeData(new) = [l \in DOMAIN MergeData(new) |-> MergeData(new)[l]]
      BY <1>5
    <3> QED
      BY <2>3, <2>4, <3>1, <3>2
  <2> QED
    BY <1>0, <1>8, <2>1, <2>5
<1> QED
  BY <1>7, <1>8

----------------------------------------------------------------------------
(* Errors *)

\* The concatenation of the lists in s up to j, if f has the one before.
Upto(f, s, j) == IF j = 1 THEN s[j] ELSE f[j - 1] \o s[j]

\* f maps each place in the list s of lists to the concatenation so far.
Flattens(f, s, n) == f = [j \in 1..n |-> Upto(f, s, j)]

LEMMA FlattensExists ==
  ASSUME NEW s, NEW n \in Nat
  PROVE  \E f : Flattens(f, s, n)
<1> DEFINE S == {m \in Nat : \E f : Flattens(f, s, m)}
<1>1. 0 \in S
  <2>1. Flattens([j \in 1..0 |-> <<>>], s, 0)
    BY DEF Flattens
  <2> QED
    BY <2>1
<1>2. ASSUME NEW m \in Nat, m \in S PROVE m + 1 \in S
  <2>1. PICK f : Flattens(f, s, m)
    BY <1>2
  <2> DEFINE g == [j \in 1..(m + 1) |-> Upto(f, s, j)]
  <2>2. \A j \in 1..m : g[j] = f[j]
    BY <2>1 DEF Flattens
  <2>3. ASSUME NEW j \in 1..(m + 1) PROVE Upto(f, s, j) = Upto(g, s, j)
    <3>1. CASE j = 1
      BY <3>1 DEF Upto
    <3>2. CASE j # 1
      <4>1. j - 1 \in 1..m
        BY <3>2
      <4>2. g[j - 1] = f[j - 1]
        BY <2>2, <4>1
      <4> HIDE DEF g
      <4> QED
        BY <3>2, <4>2 DEF Upto
    <3> QED
      BY <3>1, <3>2
  <2>4. g = [j \in 1..(m + 1) |-> Upto(g, s, j)]
    <3>1. PICK h : h = g
      OBVIOUS
    <3>2. \A j \in 1..(m + 1) : Upto(f, s, j) = Upto(h, s, j)
      BY <2>3, <3>1
    <3>3. h = [j \in 1..(m + 1) |-> Upto(f, s, j)]
      BY <3>1
    <3>4. h = [j \in 1..(m + 1) |-> Upto(h, s, j)]
      BY <3>2, <3>3
    <3> QED
      BY <3>1, <3>4
  <2>5. Flattens(g, s, m + 1)
    BY <2>4 DEF Flattens
  <2> QED
    BY <2>5
<1>3. n \in S
  <2> HIDE DEF S
  <2> QED
    BY <1>1, <1>2, SetInduction
<1> QED
  BY <1>3

(* Flattening a list of lists gives the last of these concatenations. *)
LEMMA FlattenIs ==
  ASSUME NEW n \in Nat \ {0}, NEW s, s = [j \in 1..n |-> s[j]], NEW f, Flattens(f, s, n)
  PROVE  FlattenSeq(s) = f[n]
<1>1. Len(s) = n
  OBVIOUS
<1> DEFINE Turn(G) == [j \in 1..n |-> Upto(G, s, j)]
<1> DEFINE flatten == CHOOSE G : G = Turn(G)
<1>2. FlattenSeq(s) = flatten[n]
  BY <1>1 DEF FlattenSeq, Upto
<1>3. f = Turn(f)
  BY DEF Flattens
<1>4. flatten = Turn(flatten)
  <2> HIDE DEF Turn
  <2> QED
    BY <1>3
<1> HIDE DEF flatten
<1>5. \A j \in 1..n : flatten[j] = Upto(flatten, s, j) /\ f[j] = Upto(f, s, j)
  BY <1>3, <1>4
<1> DEFINE S == {m \in Nat : m \in 1..n => flatten[m] = f[m]}
<1>6. 0 \in S
  OBVIOUS
<1>7. ASSUME NEW m \in Nat, m \in S PROVE m + 1 \in S
  <2> SUFFICES ASSUME m + 1 \in 1..n PROVE flatten[m + 1] = f[m + 1]
    OBVIOUS
  <2>1. CASE m = 0
    <3>1. Upto(flatten, s, 1) = s[1] /\ Upto(f, s, 1) = s[1]
      BY DEF Upto
    <3> QED
      BY <1>5, <2>1, <3>1
  <2>2. CASE m # 0
    <3>1. m \in 1..n /\ m + 1 # 1 /\ (m + 1) - 1 = m
      BY <2>2
    <3>2. flatten[m] = f[m]
      BY <1>7, <3>1
    <3>3. Upto(flatten, s, m + 1) = Upto(f, s, m + 1)
      BY <3>1, <3>2 DEF Upto
    <3> HIDE DEF Turn
    <3> QED
      BY <1>5, <3>3
  <2> QED
    BY <2>1, <2>2
<1>8. n \in S
  <2> HIDE DEF S
  <2> QED
    BY <1>6, <1>7, SetInduction
<1>9. flatten[n] = f[n]
  BY <1>8
<1> QED
  BY <1>2, <1>9

(* One more list is appended to what the lists before it make. *)
LEMMA FlattenGrows ==
  ASSUME NEW n \in Nat, NEW M, NEW s \in [1..(n + 1) -> Seq(M)], NEW s0 \in [1..n -> Seq(M)],
         \A j \in 1..n : s0[j] = s[j]
  PROVE  /\ FlattenSeq(s0) \in Seq(M) => FlattenSeq(s) \in Seq(M)
         /\ FlattenSeq(s) = FlattenSeq(s0) \o s[n + 1]
<1>0. s[n + 1] \in Seq(M)
  OBVIOUS
<1>1. n + 1 \in Nat \ {0} /\ s = [j \in 1..(n + 1) |-> s[j]]
  OBVIOUS
<1>2. PICK f : Flattens(f, s, n + 1)
  BY <1>1, FlattensExists
<1>3. FlattenSeq(s) = f[n + 1]
  BY <1>1, <1>2, FlattenIs
<1>4. \A j \in 1..(n + 1) : f[j] = Upto(f, s, j)
  BY <1>2 DEF Flattens
<1>5. CASE n = 0
  <2>1. Len(s0) = 0 /\ s0 = <<>>
    BY <1>5
  <2>2. FlattenSeq(s0) = <<>>
    BY <2>1 DEF FlattenSeq
  <2>3. f[n + 1] = s[n + 1]
    BY <1>1, <1>4, <1>5 DEF Upto
  <2>4. <<>> \o s[n + 1] = s[n + 1]
    BY <1>0
  <2> QED
    BY <1>0, <1>3, <2>2, <2>3, <2>4
<1>6. CASE n # 0
  <2> DEFINE g == [j \in 1..n |-> f[j]]
  <2>1. Flattens(g, s0, n)
    <3>1. \A j \in 1..n : f[j] = Upto(f, s, j)
      BY <1>4
    <3>2. ASSUME NEW j \in 1..n PROVE Upto(f, s, j) = Upto(g, s0, j)
      <4>1. CASE j = 1
        BY <4>1 DEF Upto
      <4>2. CASE j # 1
        <5>1. j - 1 \in 1..n /\ s0[j] = s[j]
          BY <4>2
        <5>2. g[j - 1] = f[j - 1]
          BY <5>1
        <5> HIDE DEF g
        <5> QED
          BY <4>2, <5>1, <5>2 DEF Upto
      <4> QED
        BY <4>1, <4>2
    <3>3. PICK h : h = g
      OBVIOUS
    <3>4. h = [j \in 1..n |-> f[j]] /\ \A j \in 1..n : f[j] = Upto(h, s0, j)
      BY <3>1, <3>2, <3>3
    <3>5. h = [j \in 1..n |-> Upto(h, s0, j)]
      BY <3>4
    <3> QED
      BY <3>3, <3>5 DEF Flattens
  <2>2. FlattenSeq(s0) = f[n]
    <3>1. s0 = [j \in 1..n |-> s0[j]] /\ g[n] = f[n] /\ n \in Nat \ {0}
      BY <1>6
    <3> HIDE DEF g
    <3> QED
      BY <2>1, <3>1, FlattenIs
  <2>3. f[n + 1] = f[n] \o s[n + 1]
    <3>1. n + 1 # 1 /\ (n + 1) - 1 = n /\ n + 1 \in 1..(n + 1)
      BY <1>6
    <3>2. Upto(f, s, n + 1) = f[(n + 1) - 1] \o s[n + 1]
      BY <3>1 DEF Upto
    <3> QED
      BY <1>4, <3>1, <3>2
  <2>4. FlattenSeq(s0) \in Seq(M) => FlattenSeq(s0) \o s[n + 1] \in Seq(M)
    BY <1>0
  <2> QED
    BY <1>3, <2>2, <2>3, <2>4
<1> QED
  BY <1>5, <1>6

\* The messages that responses carry.
Messages == UNION {ToSet(r.errors) : r \in Responses}

(* The errors of one more response are appended to the old, if it is an error. *)
LEMMA ErrorsGrow ==
  ASSUME NEW n \in Nat, NEW rs \in [1..(n + 1) -> Responses],
         MergeErrors(Envelopes(FirstOf(rs, n))) \in Seq(Messages)
  PROVE  /\ MergeErrors(Envelopes(rs)) \in Seq(Messages)
         /\ MergeErrors(Envelopes(rs)) =
              IF IsError(rs[n + 1])
              THEN MergeErrors(Envelopes(FirstOf(rs, n))) \o rs[n + 1].errors
              ELSE MergeErrors(Envelopes(FirstOf(rs, n)))
         /\ rs[n + 1].errors \in Seq(Messages)
<1>0. ASSUME NEW r \in Responses PROVE r.errors \in Seq(Messages)
  <2>1. r.errors \in Seq(ToSet(r.errors)) /\ ToSet(r.errors) \subseteq Messages
    BY ResponsesAssumption DEF Messages
  <2> QED
    BY <2>1
<1>1. PICK old, new : old = Envelopes(FirstOf(rs, n)) /\ new = Envelopes(rs)
  OBVIOUS
<1>2. PICK s, s0 : /\ s = [j \in DOMAIN new |-> IF IsError(new[j]) THEN new[j].errors ELSE <<>>]
                   /\ s0 = [j \in DOMAIN old |-> IF IsError(old[j]) THEN old[j].errors ELSE <<>>]
  OBVIOUS
<1>3. MergeErrors(new) = FlattenSeq(s) /\ MergeErrors(old) = FlattenSeq(s0)
  BY <1>2 DEF MergeErrors
<1>4. /\ DOMAIN new = 1..(n + 1) /\ DOMAIN old = 1..n
      /\ \A j \in 1..n : new[j] = old[j]
  BY <1>1, EnvelopesOfMore
<1>5. ASSUME NEW j \in 1..(n + 1)
      PROVE  /\ s[j] \in Seq(Messages)
             /\ s[j] = IF IsError(rs[j]) THEN rs[j].errors ELSE <<>>
  <2>1. j \in DOMAIN rs /\ rs[j] \in Responses
    OBVIOUS
  <2>2. new[j].errors = rs[j].errors /\ (IsError(new[j]) <=> IsError(rs[j]))
    BY <1>1, <2>1, EnvelopeIs
  <2>3. s[j] = IF IsError(rs[j]) THEN rs[j].errors ELSE <<>>
    BY <1>2, <1>4, <2>2
  <2> QED
    BY <1>0, <2>1, <2>3
<1>6. \A j \in 1..n : s0[j] = s[j] /\ j \in 1..(n + 1)
  BY <1>2, <1>4
<1>7. s \in [1..(n + 1) -> Seq(Messages)] /\ s0 \in [1..n -> Seq(Messages)]
  <2>1. s = [j \in 1..(n + 1) |-> s[j]] /\ s0 = [j \in 1..n |-> s0[j]]
    BY <1>2, <1>4
  <2> QED
    BY <1>5, <1>6, <2>1
<1>8. /\ FlattenSeq(s0) \in Seq(Messages) => FlattenSeq(s) \in Seq(Messages)
      /\ FlattenSeq(s) = FlattenSeq(s0) \o s[n + 1]
  BY <1>6, <1>7, FlattenGrows
<1>9. MergeErrors(old) \in Seq(Messages)
  BY <1>1
<1>10. MergeErrors(old) \o <<>> = MergeErrors(old)
  BY <1>9
<1>11. s[n + 1] = IF IsError(rs[n + 1]) THEN rs[n + 1].errors ELSE <<>>
  BY <1>5
<1> QED
  BY <1>0, <1>1, <1>3, <1>8, <1>9, <1>10, <1>11

----------------------------------------------------------------------------
(* The loops *)

\* How many responses the k-th loop has been over.
Over(k) == IF pass = k THEN i - 1 ELSE IF k < pass THEN Len(input) ELSE 0

LoopTypes ==
  /\ input \in UNION {[1..n -> Responses] : n \in 1..MaxResponses}
  /\ pass \in 1..5
  /\ i \in 1..(Len(input) + 1)

\* Each accumulator is what its loop makes of the responses it has been over.
LoopInv ==
  /\ LoopTypes
  /\ merged = Dictionary(Envelopes(FirstOf(input, Over(1))))
  /\ confidences = [j \in 1..Over(2) |-> input[j].confidence[1]]
  /\ data = MergeData(Envelopes(FirstOf(input, Over(3))))
  /\ errors = MergeErrors(Envelopes(FirstOf(input, Over(4)))) /\ errors \in Seq(Messages)

(* The list of responses. *)
LEMMA InputIs ==
  ASSUME LoopTypes
  PROVE  /\ Len(input) \in Nat \ {0} /\ DOMAIN input = 1..Len(input)
         /\ input \in [1..Len(input) -> Responses]
         /\ \A k \in 1..4 : Over(k) \in 0..Len(input)
<1>1. PICK n \in 1..MaxResponses : input \in [1..n -> Responses]
  BY DEF LoopTypes
<1>2. n \in Nat \ {0}
  BY ResponsesAssumption
<1>3. Len(input) = n /\ DOMAIN input = 1..n
  BY <1>1, <1>2
<1>4. \A k \in 1..4 : Over(k) \in 0..n
  BY <1>2, <1>3 DEF Over, LoopTypes
<1> QED
  BY <1>1, <1>2, <1>3, <1>4

(* One response more. *)
LEMMA OneMore ==
  ASSUME NEW m \in Nat, NEW rs \in [1..m -> Responses], NEW n \in Nat, n < m
  PROVE  /\ FirstOf(rs, n + 1) \in [1..(n + 1) -> Responses]
         /\ FirstOf(FirstOf(rs, n + 1), n) = FirstOf(rs, n)
         /\ FirstOf(rs, n + 1)[n + 1] = rs[n + 1]
<1>1. \A j \in 1..(n + 1) : j \in 1..m
  OBVIOUS
<1>2. \A j \in 1..n : j \in 1..(n + 1)
  OBVIOUS
<1> QED
  BY <1>1, <1>2 DEF FirstOf

(* Of no responses. *)
LEMMA OfNone ==
  ASSUME NEW rs
  PROVE  /\ Dictionary(Envelopes(FirstOf(rs, 0))) = [s \in {} |-> [ids |-> {}, timestamp |-> NoTime]]
         /\ MergeData(Envelopes(FirstOf(rs, 0))) = NoData
         /\ MergeErrors(Envelopes(FirstOf(rs, 0))) = <<>>
<1>1. PICK es : es = Envelopes(FirstOf(rs, 0))
  OBVIOUS
<1>2. DOMAIN es = {}
  BY <1>1 DEF Envelopes, FirstOf
<1>3. Sources(es) = {} /\ UNION {DOMAIN es[j].data : j \in DOMAIN es} = {}
  BY <1>2 DEF Sources
<1>4. Dictionary(es) = [s \in {} |-> [ids |-> {}, timestamp |-> NoTime]]
  BY <1>3 DEF Dictionary
<1>5. MergeData(es) = NoData
  BY <1>3 DEF MergeData, NoData
<1>6. MergeErrors(es) = <<>>
  <2>1. PICK s : s = [j \in DOMAIN es |-> IF IsError(es[j]) THEN es[j].errors ELSE <<>>]
    OBVIOUS
  <2>2. s = <<>> /\ Len(s) = 0
    BY <1>2, <2>1
  <2> QED
    BY <2>1, <2>2 DEF MergeErrors, FlattenSeq
<1> QED
  BY <1>1, <1>4, <1>5, <1>6

LEMMA LoopInit == Init => LoopInv
<1> SUFFICES ASSUME Init PROVE LoopInv
  OBVIOUS
<1>1. LoopTypes
  <2>1. PICK n \in 1..MaxResponses : input \in [1..n -> Responses]
    BY DEF Init
  <2>2. n \in Nat \ {0} /\ Len(input) = n
    BY <2>1, ResponsesAssumption
  <2>3. 1 \in 1..(Len(input) + 1)
    BY <2>2
  <2> QED
    BY <2>3 DEF Init, LoopTypes
<1>2. Over(1) = 0 /\ Over(2) = 0 /\ Over(3) = 0 /\ Over(4) = 0
  BY DEF Init, Over
<1>3. confidences = [j \in 1..Over(2) |-> input[j].confidence[1]]
  BY <1>2 DEF Init
<1>4. errors \in Seq(Messages)
  BY DEF Init
<1>5. /\ merged = Dictionary(Envelopes(FirstOf(input, Over(1))))
      /\ data = MergeData(Envelopes(FirstOf(input, Over(3))))
      /\ errors = MergeErrors(Envelopes(FirstOf(input, Over(4))))
  BY <1>2, OfNone DEF Init
<1> QED
  BY <1>1, <1>3, <1>4, <1>5 DEF LoopInv

(* A loop goes on to the next response, and the other loops stay where they are. *)
LEMMA IterateMoves ==
  ASSUME LoopTypes, NEW k \in 1..4, Iterate(Passes[k])
  PROVE  /\ LoopTypes' /\ pass = k /\ UNCHANGED input
         /\ Over(k) < Len(input) /\ i = Over(k) + 1 /\ Over(k)' = Over(k) + 1
         /\ \A l \in 1..4 : l # k => Over(l)' = Over(l)
<1>1. Len(input) \in Nat \ {0}
  BY InputIs
<1>2. pass = k
  <2>1. pass \in 1..5 /\ Passes[pass] = Passes[k]
    BY DEF LoopTypes, Iterate
  <2> QED
    BY <2>1 DEF Passes
<1>3. i' = i + 1 /\ UNCHANGED <<input, pass>> /\ i <= Len(input) /\ i \in Nat \ {0}
  BY <1>1 DEF Iterate, LoopTypes
<1>4. LoopTypes'
  BY <1>1, <1>3 DEF LoopTypes
<1>5. Over(k) = i - 1 /\ Over(k)' = i
  BY <1>2, <1>3 DEF Over
<1>6. \A l \in 1..4 : l # k => Over(l)' = Over(l)
  BY <1>2, <1>3 DEF Over
<1> QED
  BY <1>1, <1>2, <1>3, <1>4, <1>5, <1>6

(* The next loop begins, and all loops stay where they are. *)
LEMMA NextPassMoves ==
  ASSUME LoopTypes, NextPass
  PROVE  /\ LoopTypes' /\ UNCHANGED input
         /\ \A l \in 1..4 : Over(l)' = Over(l)
<1>1. Len(input) \in Nat \ {0}
  BY InputIs
<1>2. pass \in 1..4 /\ pass' = pass + 1 /\ i' = 1 /\ UNCHANGED input /\ i = Len(input) + 1
  BY <1>1 DEF NextPass, Passes, LoopTypes
<1>3. LoopTypes'
  BY <1>1, <1>2 DEF LoopTypes
<1>4. \A l \in 1..4 : Over(l)' = Over(l)
  BY <1>1, <1>2 DEF Over
<1> QED
  BY <1>2, <1>3, <1>4

LEMMA LoopStep == LoopInv /\ [Next]_vars => LoopInv'
<1> SUFFICES ASSUME LoopInv, [Next]_vars PROVE LoopInv'
  OBVIOUS
<1>0. LoopTypes
  BY DEF LoopInv
<1>1. /\ Len(input) \in Nat \ {0} /\ input \in [1..Len(input) -> Responses]
      /\ \A k \in 1..4 : Over(k) \in 0..Len(input)
  BY <1>0, InputIs
<1>2. /\ 1 \in 1..4 /\ Passes[1] = "provenance" /\ 2 \in 1..4 /\ Passes[2] = "confidence"
      /\ 3 \in 1..4 /\ Passes[3] = "data" /\ 4 \in 1..4 /\ Passes[4] = "errors"
  BY DEF Passes
<1>3. CASE ProvenanceIteration
  <2>1. Iterate(Passes[1]) /\ UNCHANGED <<confidences, data, errors>>
    BY <1>2, <1>3 DEF ProvenanceIteration
  <2>2. /\ LoopTypes' /\ UNCHANGED input /\ Over(1) < Len(input)
        /\ i = Over(1) + 1 /\ Over(1)' = Over(1) + 1
        /\ Over(2)' = Over(2) /\ Over(3)' = Over(3) /\ Over(4)' = Over(4)
    BY <1>0, <1>2, <2>1, IterateMoves
  <2>3. PICK n \in Nat : n = Over(1)
    BY <1>1
  <2>4. PICK rs : rs = FirstOf(input, n + 1)
    OBVIOUS
  <2>5. /\ rs \in [1..(n + 1) -> Responses] /\ FirstOf(rs, n) = FirstOf(input, n)
        /\ rs[n + 1] = input[i]
    BY <1>1, <2>2, <2>3, <2>4, OneMore
  <2>6. merged = Dictionary(Envelopes(FirstOf(rs, n)))
    BY <2>3, <2>5 DEF LoopInv
  <2>7. merged' = IF IsOk(rs[n + 1]) THEN FoldLeft(MergeEntry, merged, rs[n + 1].provenance)
                  ELSE merged
    BY <1>3, <2>5 DEF ProvenanceIteration
  <2>8. merged' = Dictionary(Envelopes(rs))
    BY <2>5, <2>6, <2>7, DictionaryGrows
  <2>9. input' = input /\ Over(1)' = n + 1
    BY <2>2, <2>3
  <2>10. merged' = Dictionary(Envelopes(FirstOf(input, Over(1))))'
    BY <2>4, <2>8, <2>9
  <2> QED
    BY <2>1, <2>2, <2>10 DEF LoopInv
<1>4. CASE ConfidenceIteration
  <2>1. Iterate(Passes[2]) /\ UNCHANGED <<merged, data, errors>>
    BY <1>2, <1>4 DEF ConfidenceIteration
  <2>2. /\ LoopTypes' /\ UNCHANGED input /\ Over(2) < Len(input)
        /\ i = Over(2) + 1 /\ Over(2)' = Over(2) + 1
        /\ Over(1)' = Over(1) /\ Over(3)' = Over(3) /\ Over(4)' = Over(4)
    BY <1>0, <1>2, <2>1, IterateMoves
  <2>3. PICK n \in Nat : n = Over(2)
    BY <1>1
  <2>4. confidences = [j \in 1..n |-> input[j].confidence[1]]
    BY <2>3 DEF LoopInv
  <2>5. confidences' = Append(confidences, input[n + 1].confidence[1])
    BY <1>4, <2>2, <2>3 DEF ConfidenceIteration
  <2>6. confidences' = [j \in 1..(n + 1) |-> input[j].confidence[1]]
    <3> DEFINE f(m) == [j \in 1..m |-> input[j].confidence[1]]
    <3>1. Len(f(n)) = n /\ n + 1 \in Nat
      OBVIOUS
    <3>2. Append(f(n), input[n + 1].confidence[1]) = f(n + 1)
      BY <3>1
    <3> QED
      BY <2>4, <2>5, <3>2
  <2>7. input' = input /\ Over(2)' = n + 1
    BY <2>2, <2>3
  <2>8. (confidences = [j \in 1..Over(2) |-> input[j].confidence[1]])'
    BY <2>6, <2>7
  <2> QED
    BY <2>1, <2>2, <2>8 DEF LoopInv
<1>5. CASE DataIteration
  <2>1. Iterate(Passes[3]) /\ UNCHANGED <<merged, confidences, errors>>
    BY <1>2, <1>5 DEF DataIteration
  <2>2. /\ LoopTypes' /\ UNCHANGED input /\ Over(3) < Len(input)
        /\ i = Over(3) + 1 /\ Over(3)' = Over(3) + 1
        /\ Over(1)' = Over(1) /\ Over(2)' = Over(2) /\ Over(4)' = Over(4)
    BY <1>0, <1>2, <2>1, IterateMoves
  <2>3. PICK n \in Nat : n = Over(3)
    BY <1>1
  <2>4. PICK rs : rs = FirstOf(input, n + 1)
    OBVIOUS
  <2>5. /\ rs \in [1..(n + 1) -> Responses] /\ FirstOf(rs, n) = FirstOf(input, n)
        /\ rs[n + 1] = input[i]
    BY <1>1, <2>2, <2>3, <2>4, OneMore
  <2>6. data = MergeData(Envelopes(FirstOf(rs, n)))
    BY <2>3, <2>5 DEF LoopInv
  <2>7. data' = IF IsOk(rs[n + 1]) THEN Update(data, rs[n + 1].data) ELSE data
    BY <1>5, <2>5 DEF DataIteration, Contributes
  <2>8. data' = MergeData(Envelopes(rs))
    BY <2>5, <2>6, <2>7, DataGrows
  <2>9. input' = input /\ Over(3)' = n + 1
    BY <2>2, <2>3
  <2>10. data' = MergeData(Envelopes(FirstOf(input, Over(3))))'
    BY <2>4, <2>8, <2>9
  <2> QED
    BY <2>1, <2>2, <2>10 DEF LoopInv
<1>6. CASE ErrorsIteration
  <2>1. Iterate(Passes[4]) /\ UNCHANGED <<merged, confidences, data>>
    BY <1>2, <1>6 DEF ErrorsIteration
  <2>2. /\ LoopTypes' /\ UNCHANGED input /\ Over(4) < Len(input)
        /\ i = Over(4) + 1 /\ Over(4)' = Over(4) + 1
        /\ Over(1)' = Over(1) /\ Over(2)' = Over(2) /\ Over(3)' = Over(3)
    BY <1>0, <1>2, <2>1, IterateMoves
  <2>3. PICK n \in Nat : n = Over(4)
    BY <1>1
  <2>4. PICK rs : rs = FirstOf(input, n + 1)
    OBVIOUS
  <2>5. /\ rs \in [1..(n + 1) -> Responses] /\ FirstOf(rs, n) = FirstOf(input, n)
        /\ rs[n + 1] = input[i]
    BY <1>1, <2>2, <2>3, <2>4, OneMore
  <2>6. errors = MergeErrors(Envelopes(FirstOf(rs, n))) /\ errors \in Seq(Messages)
    BY <2>3, <2>5 DEF LoopInv
  <2>7. errors' = IF IsError(rs[n + 1]) THEN errors \o rs[n + 1].errors ELSE errors
    BY <1>6, <2>5 DEF ErrorsIteration
  <2>8. errors' = MergeErrors(Envelopes(rs)) /\ errors' \in Seq(Messages)
    BY <2>5, <2>6, <2>7, ErrorsGrow
  <2>9. input' = input /\ Over(4)' = n + 1
    BY <2>2, <2>3
  <2>10. (errors = MergeErrors(Envelopes(FirstOf(input, Over(4)))) /\ errors \in Seq(Messages))'
    BY <2>4, <2>8, <2>9
  <2> QED
    BY <2>1, <2>2, <2>10 DEF LoopInv
<1>7. CASE NextPass
  <2>1. LoopTypes' /\ UNCHANGED <<input, merged, confidences, data, errors>>
    BY <1>0, <1>7, NextPassMoves DEF NextPass
  <2>2. Over(1)' = Over(1) /\ Over(2)' = Over(2) /\ Over(3)' = Over(3) /\ Over(4)' = Over(4)
    BY <1>0, <1>2, <1>7, NextPassMoves
  <2> QED
    BY <2>1, <2>2 DEF LoopInv
<1>8. CASE UNCHANGED vars
  <2>1. LoopTypes' /\ UNCHANGED <<input, merged, confidences, data, errors>>
    BY <1>0, <1>8 DEF LoopTypes, vars
  <2>2. Over(1)' = Over(1) /\ Over(2)' = Over(2) /\ Over(3)' = Over(3) /\ Over(4)' = Over(4)
    BY <1>8 DEF Over, vars
  <2> QED
    BY <2>1, <2>2 DEF LoopInv
<1> QED
  BY <1>3, <1>4, <1>5, <1>6, <1>7, <1>8 DEF Next

(* At every step of every run, each accumulator is the merge of a prefix of the list. *)
THEOREM LoopInvariant == Spec => []LoopInv
<1> QED
  BY LoopInit, LoopStep, PTL DEF Spec

----------------------------------------------------------------------------
(* What the loops compute *)

(* The responses a loop has been over are the first ones. *)
LEMMA SeenIs ==
  ASSUME LoopTypes, NEW k \in 1..4
  PROVE  Seen(Passes[k]) = FirstOf(input, Over(k))
<1>1. Len(input) \in Nat \ {0} /\ DOMAIN input = 1..Len(input) /\ input \in Seq(Responses)
  BY InputIs
<1>2. pass \in 1..5 /\ i \in 1..(Len(input) + 1)
  BY DEF LoopTypes
<1>3. \A l \in 1..5 : Passes[l] = Passes[k] <=> l = k
  BY DEF Passes
<1>4. (\E l \in 1..(pass - 1) : Passes[l] = Passes[k]) <=> k < pass
  BY <1>2, <1>3
<1>5. CASE pass = k
  <2>1. Seen(Passes[k]) = SubSeq(input, 1, i - 1) /\ Over(k) = i - 1
    BY <1>5 DEF Seen, Over
  <2>2. SubSeq(input, 1, i - 1) = FirstOf(input, i - 1)
    BY <1>1, <1>2 DEF FirstOf
  <2> QED
    BY <2>1, <2>2
<1>6. CASE k < pass
  <2>1. Seen(Passes[k]) = input /\ Over(k) = Len(input)
    BY <1>2, <1>3, <1>4, <1>6 DEF Seen, Over
  <2>2. input = FirstOf(input, Len(input))
    BY <1>1 DEF FirstOf
  <2> QED
    BY <2>1, <2>2
<1>7. CASE pass < k
  <2>1. Seen(Passes[k]) = <<>> /\ Over(k) = 0
    BY <1>2, <1>3, <1>4, <1>7 DEF Seen, Over
  <2>2. FirstOf(input, 0) = <<>>
    BY DEF FirstOf
  <2> QED
    BY <2>1, <2>2
<1> QED
  BY <1>2, <1>5, <1>6, <1>7

(* After the last loop, all have been over the whole list. *)
LEMMA DoneIs ==
  ASSUME LoopTypes, Done
  PROVE  \A k \in 1..4 : Over(k) = Len(input) /\ FirstOf(input, Over(k)) = input
<1>1. Len(input) \in Nat /\ DOMAIN input = 1..Len(input) /\ input \in Seq(Responses)
  BY InputIs
<1>2. pass = 5
  BY DEF Done, Passes, LoopTypes
<1>3. \A k \in 1..4 : Over(k) = Len(input)
  BY <1>2 DEF Over
<1>4. FirstOf(input, Len(input)) = input
  BY <1>1 DEF FirstOf
<1> QED
  BY <1>3, <1>4

\* The confidences of the n responses rs, in tenths.
ConfidencesOf(rs, n) == [j \in 1..n |-> rs[j].confidence[1]]

(* They are tenths, and can be summed up. *)
LEMMA ConfidencesAreTenths ==
  ASSUME NEW n \in Nat, NEW rs \in [1..n -> Responses]
  PROVE  /\ DOMAIN ConfidencesOf(rs, n) = 1..n /\ Len(ConfidencesOf(rs, n)) = n
         /\ \A j \in 1..n : /\ ConfidencesOf(rs, n)[j] \in 0..10
                            /\ rs[j].confidence = <<ConfidencesOf(rs, n)[j], 1>>
         /\ \E F : Sums(F, ConfidencesOf(rs, n), n)
<1>1. \A j \in 1..n : rs[j].confidence \in (0..10) \X {1} /\ rs[j] \in Responses
  BY ResponsesAssumption
<1>2. \A c \in (0..10) \X {1} : c[1] \in 0..10 /\ c = <<c[1], 1>>
  OBVIOUS
<1>3. /\ DOMAIN ConfidencesOf(rs, n) = 1..n /\ Len(ConfidencesOf(rs, n)) = n
      /\ \A j \in 1..n : ConfidencesOf(rs, n)[j] = rs[j].confidence[1]
  BY DEF ConfidencesOf
<1>4. \A j \in 1..n : /\ ConfidencesOf(rs, n)[j] \in 0..10
                      /\ rs[j].confidence = <<ConfidencesOf(rs, n)[j], 1>>
  BY <1>1, <1>2, <1>3
<1>5. \A j \in 1..n : ConfidencesOf(rs, n)[j] \in Int
  BY <1>4
<1>6. \E F : Sums(F, ConfidencesOf(rs, n), n)
  BY <1>5, SumsExist
<1> QED
  BY <1>3, <1>4, <1>6

(* Their mean, as the loop computes it and as Aggregator does. *)
LEMMA ConfidenceIs ==
  ASSUME NEW n \in Nat \ {0}, NEW rs \in [1..n -> Responses],
         NEW F, Sums(F, ConfidencesOf(rs, n), n)
  PROVE  /\ MergeConfidence(Envelopes(rs)) = Clamp(<<F[1..n], n>>)
         /\ MeanOf(ConfidencesOf(rs, n)) = <<F[1..n], n>>
<1>1. PICK cs : cs = ConfidencesOf(rs, n)
  OBVIOUS
<1>2. /\ n \in Nat /\ DOMAIN cs = 1..n /\ Len(cs) = n /\ Sums(F, cs, n)
      /\ \A j \in 1..n : cs[j] \in 0..10 /\ rs[j].confidence = <<cs[j], 1>>
  BY <1>1, ConfidencesAreTenths
<1>3. cs = [j \in 1..n |-> cs[j]]
  BY <1>1 DEF ConfidencesOf
<1>4. PICK es : es = Envelopes(rs)
  OBVIOUS
<1>5. DOMAIN es = 1..n /\ es = [j \in 1..n |-> es[j]]
  BY <1>4 DEF Envelopes
<1>6. Len(es) = n
  BY <1>5
<1>7. \A j \in 1..n : es[j].confidence = <<cs[j], 1>>
  BY <1>2, <1>4, EnvelopeIs
<1>8. [j \in DOMAIN es |-> es[j].confidence[1]] = cs
  BY <1>3, <1>5, <1>7
<1>9. MergeConfidence(es) = Clamp(<<F[1..n], n>>)
  <2>1. CASE n = 1
    <3>1. F[1..1] = cs[1]
      <4>1. Sums(F, cs, 1) /\ cs[1] \in Int
        BY <1>2, <2>1
      <4>2. /\ 1..1 \in SUBSET (1..1) /\ 1 \in 1..1 /\ (1..1) \ {1} = {}
        OBVIOUS
      <4>3. \A x \in 1..1 : F[1..1] = cs[x] + F[(1..1) \ {x}]
        BY <4>1, <4>2 DEF Sums
      <4>4. F[1..1] = cs[1] + F[{}] /\ F[{}] = 0
        BY <4>1, <4>2, <4>3 DEF Sums
      <4> QED
        BY <4>1, <4>4
    <3>2. es[1].confidence = <<cs[1], 1>>
      BY <1>7, <2>1
    <3>3. MergeConfidence(es) = Clamp(es[1].confidence)
      BY <1>6, <2>1 DEF MergeConfidence
    <3> QED
      BY <2>1, <3>1, <3>2, <3>3
  <2>2. CASE n # 1
    <3>1. MergeConfidence(es) = Clamp(<<SumFunction(cs), n>>)
      BY <1>6, <1>8, <2>2 DEF MergeConfidence
    <3>2. SumFunction(cs) = F[1..n]
      BY <1>2, SumFunctionIsSum
    <3> QED
      BY <3>1, <3>2
  <2> QED
    BY <2>1, <2>2
<1>10. MeanOf(cs) = <<F[1..n], n>>
  <2>1. FoldLeft(+, 0, cs) = F[1..n]
    BY <1>2, FoldIsSum
  <2> QED
    BY <1>2, <2>1 DEF MeanOf
<1> QED
  BY <1>1, <1>4, <1>9, <1>10

(* The answer, once the loops are through, is the aggregate. *)
LEMMA AnswerIs ==
  ASSUME LoopInv, Done
  PROVE  Answer = AggregateMultiAgentResponses(Envelopes(input))
<1>1. LoopTypes
  BY DEF LoopInv
<1>2. \A k \in 1..4 : Over(k) = Len(input) /\ FirstOf(input, Over(k)) = input
  BY <1>1, DoneIs
<1>3. PICK n \in Nat \ {0} : /\ n = Len(input) /\ DOMAIN input = 1..n
                             /\ input \in [1..n -> Responses]
  BY <1>1, InputIs
<1>4. PICK es : es = Envelopes(input)
  OBVIOUS
<1>5. /\ merged = Dictionary(es) /\ data = MergeData(es) /\ errors = MergeErrors(es)
      /\ confidences = [j \in 1..n |-> input[j].confidence[1]]
  BY <1>2, <1>3, <1>4 DEF LoopInv
<1>6. DOMAIN es = 1..n /\ \A j \in 1..n : IsOk(es[j]) <=> IsOk(input[j])
  BY <1>3, <1>4, EnvelopeIs DEF Envelopes
<1>7. ProvenanceList = MergeProvenance(es)
  BY <1>5, <1>6, DictionaryIsMerged DEF ProvenanceList
<1>8. Clamp(MeanOf(confidences)) = MergeConfidence(es)
  <2>1. confidences = ConfidencesOf(input, n)
    BY <1>5 DEF ConfidencesOf
  <2>2. PICK F : Sums(F, ConfidencesOf(input, n), n)
    BY <1>3, ConfidencesAreTenths
  <2>3. /\ MergeConfidence(Envelopes(input)) = Clamp(<<F[1..n], n>>)
        /\ MeanOf(ConfidencesOf(input, n)) = <<F[1..n], n>>
    BY <1>3, <2>2, ConfidenceIs
  <2> QED
    BY <1>4, <2>1, <2>3
<1>9. (IF \A j \in DOMAIN input : IsOk(input[j]) THEN "ok" ELSE "error") = AggregateStatus(es)
  BY <1>3, <1>6 DEF AggregateStatus
<1> QED
  BY <1>4, <1>5, <1>7, <1>8, <1>9 DEF Answer, AggregateMultiAgentResponses

(* The loops compute what Aggregator states, of any envelopes and as many as come. *)
THEOREM LoopsCompute == Spec => []LoopsComputeAggregate
<1>1. LoopInv => LoopsComputeAggregate
  <2> SUFFICES ASSUME LoopInv PROVE LoopsComputeAggregate
    OBVIOUS
  <2>1. LoopTypes
    BY DEF LoopInv
  <2>2. /\ Seen("provenance") = FirstOf(input, Over(1))
        /\ Seen("data") = FirstOf(input, Over(3))
        /\ Seen("errors") = FirstOf(input, Over(4))
    <3>1. /\ 1 \in 1..4 /\ 3 \in 1..4 /\ 4 \in 1..4
          /\ Passes[1] = "provenance" /\ Passes[3] = "data" /\ Passes[4] = "errors"
      BY DEF Passes
    <3> QED
      BY <2>1, <3>1, SeenIs
  <2>3. PICK n \in Nat : n = Over(1)
    BY <2>1, InputIs
  <2>4. PICK es : es = Envelopes(FirstOf(input, n))
    OBVIOUS
  <2>5. DOMAIN es = 1..n /\ merged = Dictionary(es)
    BY <2>3, <2>4 DEF Envelopes, FirstOf, LoopInv
  <2>6. ProvenanceList = MergeProvenance(es)
    BY <2>5, DictionaryIsMerged DEF ProvenanceList
  <2>7. ProvenanceList = MergeProvenance(Envelopes(Seen("provenance")))
    BY <2>2, <2>3, <2>4, <2>6
  <2>8. /\ data = MergeData(Envelopes(Seen("data")))
        /\ errors = MergeErrors(Envelopes(Seen("errors")))
    BY <2>2 DEF LoopInv
  <2> QED
    BY <2>7, <2>8, AnswerIs DEF LoopsComputeAggregate
<1> QED
  BY <1>1, LoopInvariant, PTL

----------------------------------------------------------------------------
(* Merging only adds *)

(* With one response more, what was said of a source is still said. *)
LEMMA SaidStays ==
  ASSUME NEW n \in Nat, NEW rs \in [1..(n + 1) -> Responses], NEW s,
         Contributors(Envelopes(FirstOf(rs, n)), s) # {}
  PROVE  /\ Contributors(Envelopes(rs), s) # {}
         /\ AllIds(Envelopes(FirstOf(rs, n)), s) \subseteq AllIds(Envelopes(rs), s)
<1>1. CASE /\ IsOk(rs[n + 1])
           /\ \E k \in DOMAIN rs[n + 1].provenance : rs[n + 1].provenance[k].source = s
  <2>1. PICK k, e : /\ k \in DOMAIN rs[n + 1].provenance
                    /\ e = rs[n + 1].provenance[k]
                    /\ e.source = s
    BY <1>1
  <2>2. Cites(rs[n + 1], e)
    BY <1>1, <2>1 DEF Cites
  <2>3. /\ Contributors(Envelopes(rs), e.source) # {}
        /\ AllIds(Envelopes(rs), e.source)
             = AllIds(Envelopes(FirstOf(rs, n)), e.source) \cup e.ids
    BY <2>2, SaidLast
  <2> QED
    BY <2>1, <2>3
<1>2. CASE ~ /\ IsOk(rs[n + 1])
             /\ \E k \in DOMAIN rs[n + 1].provenance : rs[n + 1].provenance[k].source = s
  <2>1. /\ Contributors(Envelopes(rs), s) = Contributors(Envelopes(FirstOf(rs, n)), s)
        /\ AllIds(Envelopes(rs), s) = AllIds(Envelopes(FirstOf(rs, n)), s)
    BY <1>2, SaidBefore
  <2> QED
    BY <2>1
<1> QED
  BY <1>1, <1>2

(* So no source and none of its ids is gone from the dictionary. *)
LEMMA DictionaryKeeps ==
  ASSUME NEW n \in Nat, NEW rs \in [1..(n + 1) -> Responses], NEW s,
         s \in DOMAIN Dictionary(Envelopes(FirstOf(rs, n)))
  PROVE  /\ s \in DOMAIN Dictionary(Envelopes(rs))
         /\ Dictionary(Envelopes(FirstOf(rs, n)))[s].ids
              \subseteq Dictionary(Envelopes(rs))[s].ids
<1>0. PICK old, new : old = Envelopes(FirstOf(rs, n)) /\ new = Envelopes(rs)
  OBVIOUS
<1>1. Contributors(Envelopes(FirstOf(rs, n)), s) # {}
  BY DictionaryDomain
<1>2. Contributors(new, s) # {} /\ AllIds(old, s) \subseteq AllIds(new, s)
  BY <1>0, <1>1, SaidStays
<1>3. s \in DOMAIN Dictionary(new) /\ s \in DOMAIN Dictionary(old)
  BY <1>0, <1>2, DictionaryDomain
<1>4. \A es : s \in DOMAIN Dictionary(es) => Dictionary(es)[s].ids = AllIds(es, s)
  BY DEF Dictionary
<1>5. Dictionary(old)[s].ids = AllIds(old, s) /\ Dictionary(new)[s].ids = AllIds(new, s)
  BY <1>3, <1>4
<1> QED
  BY <1>0, <1>2, <1>3, <1>5

(* Whatever a later agent brings, what the earlier ones brought stays. *)
THEOREM MergingAdds == Spec => MergingOnlyAdds
<1> DEFINE Adds ==
      /\ \A s \in DOMAIN merged : s \in DOMAIN merged' /\ merged[s].ids \subseteq merged'[s].ids
      /\ DOMAIN data \subseteq DOMAIN data'
      /\ IsPrefix(errors, errors')
<1>1. LoopInv /\ [Next]_vars => [Adds]_vars
  <2> SUFFICES ASSUME LoopInv, Next PROVE Adds
    OBVIOUS
  <2>0. LoopTypes
    BY DEF LoopInv
  <2>1. /\ Len(input) \in Nat \ {0} /\ input \in [1..Len(input) -> Responses]
        /\ \A k \in 1..4 : Over(k) \in 0..Len(input)
    BY <2>0, InputIs
  <2>2. errors \in Seq(Messages)
    BY DEF LoopInv
  <2>3. IsPrefix(errors, errors)
    BY <2>2 DEF IsPrefix
  <2>4. ASSUME UNCHANGED merged
        PROVE  \A s \in DOMAIN merged : s \in DOMAIN merged' /\ merged[s].ids \subseteq merged'[s].ids
    BY <2>4
  <2>5. CASE ProvenanceIteration
    <3>1. Iterate(Passes[1]) /\ UNCHANGED <<data, errors>> /\ 1 \in 1..4
      BY <2>5 DEF ProvenanceIteration, Passes
    <3>2. Over(1) < Len(input) /\ i = Over(1) + 1
      BY <2>0, <3>1, IterateMoves
    <3>3. PICK n \in Nat : n = Over(1)
      BY <2>1, <3>1
    <3>4. PICK rs : rs = FirstOf(input, n + 1)
      OBVIOUS
    <3>5. /\ rs \in [1..(n + 1) -> Responses] /\ FirstOf(rs, n) = FirstOf(input, n)
          /\ rs[n + 1] = input[i]
      BY <2>1, <3>2, <3>3, <3>4, OneMore
    <3>6. merged = Dictionary(Envelopes(FirstOf(rs, n)))
      BY <3>3, <3>5 DEF LoopInv
    <3>7. merged' = IF IsOk(rs[n + 1]) THEN FoldLeft(MergeEntry, merged, rs[n + 1].provenance)
                    ELSE merged
      BY <2>5, <3>5 DEF ProvenanceIteration
    <3>8. merged' = Dictionary(Envelopes(rs))
      BY <3>5, <3>6, <3>7, DictionaryGrows
    <3>9. \A s \in DOMAIN merged : s \in DOMAIN merged' /\ merged[s].ids \subseteq merged'[s].ids
      BY <3>5, <3>6, <3>8, DictionaryKeeps
    <3> QED
      BY <2>3, <3>1, <3>9
  <2>6. CASE ConfidenceIteration \/ NextPass
    BY <2>3, <2>4, <2>6 DEF ConfidenceIteration, NextPass
  <2>7. CASE DataIteration
    <3>1. UNCHANGED <<merged, errors>> /\ DOMAIN data \subseteq DOMAIN data'
      BY <2>7 DEF DataIteration, Update
    <3> QED
      BY <2>3, <2>4, <3>1
  <2>8. CASE ErrorsIteration
    <3>1. UNCHANGED <<merged, data>> /\ i \in 1..Len(input)
      BY <2>0, <2>1, <2>8 DEF ErrorsIteration, Iterate, LoopTypes
    <3>2. input[i].errors \in Seq(ToSet(input[i].errors))
      BY <2>1, <3>1, ResponsesAssumption
    <3>3. PICK more : more \in Seq(ToSet(more)) /\ more = input[i].errors
      BY <3>2
    <3>4. IsPrefix(errors, errors \o more)
      BY <2>2, <3>3 DEF IsPrefix
    <3>5. errors' = errors \o more \/ errors' = errors
      BY <2>8, <3>3 DEF ErrorsIteration
    <3> QED
      BY <2>3, <2>4, <3>1, <3>4, <3>5
  <2> QED
    BY <2>5, <2>6, <2>7, <2>8 DEF Next
<1>2. Spec => [][Adds]_vars
  BY <1>1, LoopInvariant, PTL DEF Spec
<1> QED
  BY <1>2 DEF MergingOnlyAdds

----------------------------------------------------------------------------
(* The order of the agents *)

(* What the provenance list cites, and which sections the data has. *)
LEMMA CitedIs ==
  ASSUME NEW es
  PROVE  {<<e.source, e.ids>> : e \in MergeProvenance(es)}
           = {<<s, AllIds(es, s)>> : s \in DOMAIN Dictionary(es)}
<1> DEFINE named == {t \in Sources(es) : Contributors(es, t) # {}}
<1>1. DOMAIN Dictionary(es) = named
  BY DEF Dictionary
<1>2. MergeProvenance(es) = {Entry(s, AllIds(es, s), MergedTime(es, s)) : s \in named}
  BY DEF MergeProvenance, AllIds
<1>3. \A s : LET e == Entry(s, AllIds(es, s), MergedTime(es, s))
             IN  e.source = s /\ e.ids = AllIds(es, s)
  BY DEF Entry
<1> HIDE DEF named
<1>4. \A x : x \in {<<e.source, e.ids>> : e \in MergeProvenance(es)}
               <=> \E s \in named : x = <<s, AllIds(es, s)>>
  BY <1>2, <1>3
<1> QED
  BY <1>1, <1>4

LEMMA SectionsAre ==
  ASSUME NEW es, NEW n, DOMAIN es = 1..n, NEW k
  PROVE  k \in DOMAIN MergeData(es) <=> \E j \in 1..n : IsOk(es[j]) /\ k \in DOMAIN es[j].data
  BY DEF MergeData, Providers

(* The same envelopes in another order: what of the aggregate does not change. *)
LEMMA OrderKeeps ==
  ASSUME NEW n \in Nat, NEW p, Reorders(p, n),
         NEW es, NEW os, DOMAIN es = 1..n, DOMAIN os = 1..n, \A j \in 1..n : os[j] = es[p[j]]
  PROVE  /\ AggregateStatus(os) = AggregateStatus(es)
         /\ {<<e.source, e.ids>> : e \in MergeProvenance(os)}
              = {<<e.source, e.ids>> : e \in MergeProvenance(es)}
         /\ DOMAIN MergeData(os) = DOMAIN MergeData(es)
<1>0. \A k \in 1..n : \E j \in 1..n : p[j] = k
  BY DEF Reorders
<1>1. \A j \in 1..n : p[j] \in 1..n
  BY DEF Reorders
<1>2. AggregateStatus(os) = AggregateStatus(es)
  <2>1. (\A j \in 1..n : IsOk(os[j])) <=> \A k \in 1..n : IsOk(es[k])
    <3>1. \A j \in 1..n : IsOk(os[j]) <=> IsOk(es[p[j]])
      OBVIOUS
    <3> QED
      BY <1>0, <1>1, <3>1
  <2> QED
    BY <2>1 DEF AggregateStatus
<1>3. ASSUME NEW s
      PROVE  /\ Contributors(os, s) = {} <=> Contributors(es, s) = {}
             /\ AllIds(os, s) = AllIds(es, s)
  <2>1. \A j \in 1..n : j \in Contributors(os, s) <=> p[j] \in Contributors(es, s)
    BY <1>1 DEF Contributors
  <2>2. Contributors(os, s) \subseteq 1..n /\ Contributors(es, s) \subseteq 1..n
    BY DEF Contributors
  <2>3. ASSUME NEW x
        PROVE  (\E j \in Contributors(os, s) : x \in EntryOf(os[j], s).ids)
                 <=> (\E k \in Contributors(es, s) : x \in EntryOf(es[k], s).ids)
    <3>1. \A j \in 1..n : EntryOf(os[j], s) = EntryOf(es[p[j]], s)
      OBVIOUS
    <3>2. ASSUME NEW j \in Contributors(os, s), x \in EntryOf(os[j], s).ids
          PROVE  \E k \in Contributors(es, s) : x \in EntryOf(es[k], s).ids
      BY <1>1, <2>1, <2>2, <3>1, <3>2
    <3>3. ASSUME NEW k \in Contributors(es, s), x \in EntryOf(es[k], s).ids
          PROVE  \E j \in Contributors(os, s) : x \in EntryOf(os[j], s).ids
      <4>1. PICK j \in 1..n : p[j] = k
        BY <1>0, <2>2
      <4>2. j \in Contributors(os, s) /\ EntryOf(os[j], s) = EntryOf(es[k], s)
        BY <2>1, <3>1, <4>1
      <4> QED
        BY <3>3, <4>2
    <3> QED
      BY <3>2, <3>3
  <2>4. AllIds(os, s) = AllIds(es, s)
    <3>1. \A x : x \in AllIds(os, s) <=> x \in AllIds(es, s)
      BY <2>3 DEF AllIds
    <3> QED
      BY <3>1
  <2>5. Contributors(os, s) # {} => Contributors(es, s) # {}
    BY <2>1, <2>2
  <2>6. Contributors(es, s) # {} => Contributors(os, s) # {}
    <3> SUFFICES ASSUME NEW k \in Contributors(es, s) PROVE Contributors(os, s) # {}
      OBVIOUS
    <3>1. PICK j \in 1..n : p[j] = k
      BY <1>0, <2>2
    <3> QED
      BY <2>1, <3>1
  <2> QED
    BY <2>4, <2>5, <2>6
<1>4. {<<e.source, e.ids>> : e \in MergeProvenance(os)}
        = {<<e.source, e.ids>> : e \in MergeProvenance(es)}
  <2> DEFINE cited(fs) == {<<t, AllIds(fs, t)>> : t \in DOMAIN Dictionary(fs)}
  <2>1. {<<e.source, e.ids>> : e \in MergeProvenance(os)} = cited(os)
    BY CitedIs
  <2>2. {<<e.source, e.ids>> : e \in MergeProvenance(es)} = cited(es)
    BY CitedIs
  <2>3. DOMAIN Dictionary(os) = DOMAIN Dictionary(es)
    <3>1. \A t : t \in DOMAIN Dictionary(os) <=> t \in DOMAIN Dictionary(es)
      BY <1>3, DictionaryDomain
    <3> QED
      BY <3>1
  <2>4. cited(os) = cited(es)
    BY <1>3, <2>3
  <2> QED
    BY <2>1, <2>2, <2>4
<1>5. DOMAIN MergeData(os) = DOMAIN MergeData(es)
  <2>1. \A k : k \in DOMAIN MergeData(os) <=> \E j \in 1..n : IsOk(os[j]) /\ k \in DOMAIN os[j].data
    BY SectionsAre
  <2>2. \A k : k \in DOMAIN MergeData(es) <=> \E j \in 1..n : IsOk(es[j]) /\ k \in DOMAIN es[j].data
    BY SectionsAre
  <2>3. ASSUME NEW k PROVE k \in DOMAIN MergeData(os) <=> k \in DOMAIN MergeData(es)
    <3>1. (\E j \in 1..n : IsOk(os[j]) /\ k \in DOMAIN os[j].data)
            => \E j \in 1..n : IsOk(es[j]) /\ k \in DOMAIN es[j].data
      BY <1>1
    <3>2. (\E j \in 1..n : IsOk(es[j]) /\ k \in DOMAIN es[j].data)
            => \E j \in 1..n : IsOk(os[j]) /\ k \in DOMAIN os[j].data
      <4> SUFFICES ASSUME NEW m \in 1..n, IsOk(es[m]) /\ k \in DOMAIN es[m].data
                   PROVE  \E j \in 1..n : IsOk(os[j]) /\ k \in DOMAIN os[j].data
        OBVIOUS
      <4>1. PICK j \in 1..n : p[j] = m
        BY <1>0
      <4> QED
        BY <4>1
    <3> QED
      BY <2>1, <2>2, <3>1, <3>2
  <2> QED
    BY <2>3 DEF MergeData
<1> QED
  BY <1>2, <1>4, <1>5

(* Nor does the confidence. *)
LEMMA OrderKeepsConfidence ==
  ASSUME NEW n \in Nat \ {0}, NEW rs \in [1..n -> Responses], NEW p, Reorders(p, n),
         NEW qs \in [1..n -> Responses], \A j \in 1..n : qs[j] = rs[p[j]]
  PROVE  MergeConfidence(Envelopes(qs)) = MergeConfidence(Envelopes(rs))
<1>1. /\ p \in [1..n -> 1..n] /\ \A j, k \in 1..n : p[j] = p[k] => j = k
      /\ \A j \in 1..n : p[j] \in 1..n
      /\ \A k \in 1..n : \E j \in 1..n : p[j] = k
  BY DEF Reorders
<1>2. PICK cs, ds : cs = ConfidencesOf(rs, n) /\ ds = ConfidencesOf(qs, n)
  OBVIOUS
<1>3. /\ \A j \in 1..n : cs[j] = rs[j].confidence[1]
      /\ \A j \in 1..n : ds[j] = qs[j].confidence[1]
  BY <1>2 DEF ConfidencesOf
<1>4. Follows(ds, cs, p, n)
  <2> SUFFICES ASSUME NEW j \in 1..n PROVE ds[j] = cs[p[j]]
    BY DEF Follows
  <2>1. PICK k \in 1..n : k = p[j]
    BY <1>1
  <2>2. cs[k] = rs[k].confidence[1] /\ ds[j] = qs[j].confidence[1] /\ qs[j] = rs[k]
    BY <1>3, <2>1
  <2> QED
    BY <2>1, <2>2
<1>5. PICK F : Sums(F, cs, n)
  BY <1>2, ConfidencesAreTenths
<1>6. PICK G : Sums(G, ds, n)
  BY <1>2, ConfidencesAreTenths
<1>7. \A s \in SUBSET (1..n) : G[s] = F[{p[j] : j \in s}]
  BY <1>4, <1>5, <1>6, SumsAgree
<1>8. {p[j] : j \in 1..n} = 1..n
  <2>1. \A k \in {p[j] : j \in 1..n} : k \in 1..n
    BY <1>1
  <2>2. \A k \in 1..n : k \in {p[j] : j \in 1..n}
    BY <1>1
  <2> QED
    BY <2>1, <2>2
<1>9. 1..n \in SUBSET (1..n)
  OBVIOUS
<1>10. G[1..n] = F[{p[j] : j \in 1..n}]
  BY <1>7, <1>9
<1>11. G[1..n] = F[1..n]
  BY <1>8, <1>10
<1>12. MergeConfidence(Envelopes(rs)) = Clamp(<<F[1..n], n>>)
  BY <1>2, <1>5, ConfidenceIs
<1>13. MergeConfidence(Envelopes(qs)) = Clamp(<<G[1..n], n>>)
  BY <1>2, <1>6, ConfidenceIs
<1> QED
  BY <1>11, <1>12, <1>13

(* The order of the agents decides who wins, and nothing else, for any number of agents. *)
THEOREM OrderOnlyPicks == Spec => []OrderOnlyPicksWinners
<1>1. LoopInv => OrderOnlyPicksWinners
  <2> SUFFICES ASSUME LoopInv, Done, NEW order \in Bijection(DOMAIN input, DOMAIN input)
               PROVE  LET other == AggregateMultiAgentResponses(
                                     Envelopes([j \in DOMAIN input |-> input[order[j]]]))
                      IN  /\ other.status = Answer.status
                          /\ other.confidence = Answer.confidence
                          /\ {<<e.source, e.ids>> : e \in other.provenance}
                               = {<<e.source, e.ids>> : e \in Answer.provenance}
                          /\ DOMAIN other.data = DOMAIN Answer.data
    BY DEF OrderOnlyPicksWinners
  <2>1. PICK n \in Nat \ {0} : DOMAIN input = 1..n /\ input \in [1..n -> Responses]
    BY InputIs DEF LoopInv
  <2>2. Reorders(order, n) /\ \A j \in 1..n : order[j] \in 1..n
    BY <2>1 DEF Reorders, Bijection, Injection, Surjection, IsInjective
  <2>3. PICK rs : rs = input
    OBVIOUS
  <2>4. PICK qs : qs = [j \in 1..n |-> rs[order[j]]]
    OBVIOUS
  <2>5. rs \in [1..n -> Responses] /\ qs \in [1..n -> Responses] /\ DOMAIN rs = 1..n
        /\ DOMAIN qs = 1..n /\ \A j \in 1..n : qs[j] = rs[order[j]]
    BY <2>1, <2>2, <2>3, <2>4
  <2>6. MergeConfidence(Envelopes(qs)) = MergeConfidence(Envelopes(rs))
    BY <2>2, <2>5, OrderKeepsConfidence
  <2>7. PICK es, os : es = Envelopes(rs) /\ os = Envelopes(qs)
    OBVIOUS
  <2>8. DOMAIN es = 1..n /\ DOMAIN os = 1..n /\ \A j \in 1..n : os[j] = es[order[j]]
    BY <2>2, <2>5, <2>7 DEF Envelopes
  <2>9. /\ AggregateStatus(os) = AggregateStatus(es)
        /\ {<<e.source, e.ids>> : e \in MergeProvenance(os)}
             = {<<e.source, e.ids>> : e \in MergeProvenance(es)}
        /\ DOMAIN MergeData(os) = DOMAIN MergeData(es)
    BY <2>2, <2>8, OrderKeeps
  <2>10. Answer = AggregateMultiAgentResponses(es)
    BY <2>3, <2>7, AnswerIs
  <2>11. Envelopes([j \in DOMAIN input |-> input[order[j]]]) = os
    BY <2>1, <2>3, <2>4, <2>7
  <2> QED
    BY <2>6, <2>7, <2>9, <2>10, <2>11 DEF AggregateMultiAgentResponses
<1> QED
  BY <1>1, LoopInvariant, PTL

----------------------------------------------------------------------------
(* What a failure costs *)

(* Confidences have a greatest and a least, which Max and Min pick. *)
LEMMA ExtremesOfConfidences ==
  ASSUME NEW s \in SUBSET (0..10), s # {}
  PROVE  /\ Max(s) \in s /\ \A x \in s : x <= Max(s)
         /\ Min(s) \in s /\ \A x \in s : Min(s) <= x
<1>1. \E x \in s : \A y \in s : x >= y
  <2> DEFINE t == {x + 1 : x \in s}
  <2>1. t \in SUBSET (1..11) /\ t # {}
    <3>1. \A x \in s : x + 1 \in 1..11
      OBVIOUS
    <3>2. PICK x \in s : TRUE
      OBVIOUS
    <3> QED
      BY <3>1, <3>2
  <2>2. Max(t) \in t /\ \A y \in t : y <= Max(t)
    <3> HIDE DEF t
    <3> QED
      BY <2>1, MaxOfSome
  <2>3. PICK x \in s : x + 1 = Max(t)
    BY <2>2
  <2>4. \A y \in s : y + 1 <= x + 1
    BY <2>2, <2>3
  <2> QED
    BY <2>4
<1>2. \E x \in s : \A y \in s : x =< y
  <2> DEFINE t == {11 - x : x \in s}
  <2>1. t \in SUBSET (1..11) /\ t # {}
    <3>1. \A x \in s : 11 - x \in 1..11
      OBVIOUS
    <3>2. PICK x \in s : TRUE
      OBVIOUS
    <3> QED
      BY <3>1, <3>2
  <2>2. Max(t) \in t /\ \A y \in t : y <= Max(t)
    <3> HIDE DEF t
    <3> QED
      BY <2>1, MaxOfSome
  <2>3. PICK x \in s : 11 - x = Max(t)
    BY <2>2
  <2>4. \A y \in s : 11 - y <= 11 - x
    BY <2>2, <2>3
  <2> QED
    BY <2>4
<1>3. Max(s) \in s /\ \A y \in s : Max(s) >= y
  BY <1>1 DEF Max
<1>4. Min(s) \in s /\ \A y \in s : Min(s) =< y
  BY <1>2 DEF Min
<1> QED
  BY <1>3, <1>4

(* An answer is never surer than its surest part, and less sure if the parts differ. *)
THEOREM FailureCosts == Spec => []FailureCostsConfidence
<1>1. LoopInv => FailureCostsConfidence
  <2> SUFFICES ASSUME LoopInv, Done
               PROVE  LET parts == ToSet(confidences)
                          m     == Answer.confidence[1]
                          d     == Answer.confidence[2]
                      IN  /\ Min(parts) * d <= m /\ m <= Max(parts) * d
                          /\ Min(parts) < Max(parts) => m < Max(parts) * d
    BY DEF FailureCostsConfidence
  <2>1. LoopTypes
    BY DEF LoopInv
  <2>2. PICK n \in Nat \ {0} : n = Len(input) /\ input \in [1..n -> Responses]
    BY <2>1, InputIs
  <2>0. confidences = [j \in 1..n |-> input[j].confidence[1]]
    BY <2>1, <2>2, DoneIs DEF LoopInv
  <2>18. PICK cs : cs = ConfidencesOf(input, n) /\ cs = confidences
    BY <2>0 DEF ConfidencesOf
  <2>3. DOMAIN cs = 1..n
    BY <2>2, <2>18, ConfidencesAreTenths
  <2>4. \A j \in 1..n : cs[j] \in 0..10
    BY <2>2, <2>18, ConfidencesAreTenths
  <2>5. PICK F : Sums(F, cs, n)
    <3>1. n \in Nat /\ \E F : Sums(F, ConfidencesOf(input, n), n)
      BY <2>2, ConfidencesAreTenths
    <3> QED
      BY <2>18, <3>1
  <2>6. MeanOf(cs) = <<F[1..n], n>>
    BY <2>2, <2>18, <2>5, ConfidenceIs
  <2>7. PICK parts : parts = ToSet(cs)
    OBVIOUS
  <2>8. /\ parts \in SUBSET (0..10) /\ parts # {}
        /\ \A j \in 1..n : cs[j] \in parts
        /\ \A x \in parts : \E j \in 1..n : cs[j] = x
    <3>1. parts = {cs[j] : j \in 1..n}
      BY <2>3, <2>7 DEF ToSet
    <3>2. 1 \in 1..n
      OBVIOUS
    <3> QED
      BY <2>4, <3>1, <3>2
  <2>9. PICK lo, hi : lo = Min(parts) /\ hi = Max(parts)
    OBVIOUS
  <2>10. lo \in parts /\ hi \in parts /\ \A x \in parts : lo <= x /\ x <= hi
    BY <2>8, <2>9, ExtremesOfConfidences
  <2>11. lo \in 0..10 /\ hi \in 0..10 /\ Between(cs, n, lo, hi)
    BY <2>8, <2>10 DEF Between
  <2>12. /\ F[1..n] \in Int /\ lo * n <= F[1..n] /\ F[1..n] <= hi * n
         /\ (\E j \in 1..n : cs[j] < hi) => F[1..n] < hi * n
    BY <2>5, <2>11, SumBounds
  <2>13. lo < hi => F[1..n] < hi * n
    BY <2>8, <2>10, <2>12
  <2>14. 0 * n <= F[1..n] /\ F[1..n] <= 10 * n
    <3>1. Between(cs, n, 0, 10)
      BY <2>4 DEF Between
    <3> QED
      BY <2>5, <3>1, SumBounds
  <2>15. PICK f : f = F[1..n]
    OBVIOUS
  <2>16. Clamp(<<f, n>>) = <<f, n>>
    BY <2>12, <2>14, <2>15 DEF Clamp
  <2>17. Answer.confidence = <<f, n>>
    BY <2>6, <2>18, <2>15, <2>16 DEF Answer
  <2> QED
    BY <2>7, <2>9, <2>12, <2>13, <2>15, <2>17, <2>18
<1> QED
  BY <1>1, LoopInvariant, PTL
=============================================================================
