---------------------------- MODULE AnswersProofs ----------------------------
(***************************************************************************)
(* The transformers' loops compute what the rows say, the provenance names *)
(* what the data holds, and what an answer shows is what it cites, for     *)
(* every list of rows, of any length, and every set of ids.                *)
(***************************************************************************)
EXTENDS Answers, FiniteSetTheorems, WellFoundedInduction, TLAPS

----------------------------------------------------------------------------
(* Lists without duplicates *)

(* A set of numbers that is closed under successor and holds 0 holds all of them. *)
LEMMA SetInduction ==
  ASSUME NEW S, 0 \in S, \A n \in Nat : n \in S => n + 1 \in S
  PROVE  \A n \in Nat : n \in S
<1> DEFINE Missing == Nat \ S
<1>1. CASE Missing = {}
  BY <1>1
<1>2. CASE Missing # {}
  <2>1. PICK m \in Missing : \A n \in Missing : ~(n < m)
    <3> DEFINE R == {ss \in Nat \X Nat : ss[1] < ss[2]}
    <3>1. IsWellFoundedOn(R, Nat)
      BY NatLessThanWellFounded DEF OpToRel
    <3>2. PICK m \in Missing : \A n \in Missing : ~(<<n, m>> \in R)
      <4> HIDE DEF R
      <4> QED
        BY <1>2, <3>1, WFMin
    <3> QED
      BY <3>2
  <2>2. m # 0 /\ m - 1 \in Nat
    BY <2>1
  <2>3. m - 1 \in S
    BY <2>1, <2>2
  <2> QED
    BY <2>1, <2>2, <2>3
<1> QED
  BY <1>1, <1>2

(* The greatest of the first numbers is the last of them. *)
LEMMA MaxOfFirst ==
  ASSUME NEW n \in Nat \ {0}
  PROVE  Max(1..n) = n /\ (1..n) \ {n} = 1..(n - 1)
<1>1. n \in 1..n /\ \A y \in 1..n : n >= y
  OBVIOUS
<1>2. \A x \in 1..n : (\A y \in 1..n : x >= y) => x = n
  BY <1>1
<1>3. Max(1..n) = n
  BY <1>1, <1>2 DEF Max
<1>4. (1..n) \ {n} = 1..(n - 1)
  OBVIOUS
<1> QED
  BY <1>3, <1>4

(* So a fold over the first m of n places begins with the first m - 1. *)
LEMMA LastOfFirst ==
  ASSUME NEW n \in Nat, NEW m \in 1..n
  PROVE  /\ Max(1..m) = m /\ (1..m) \ {m} = 1..(m - 1)
         /\ 1..m \in SUBSET (1..n) /\ 1..m # {}
<1>1. m \in Nat \ {0} /\ 1..m \in SUBSET (1..n) /\ m \in 1..m
  OBVIOUS
<1> QED
  BY <1>1, MaxOfFirst

(* A set of some of the first numbers has a greatest element, which Max picks. *)
LEMMA MaxOfSome ==
  ASSUME NEW n \in Nat, NEW s \in SUBSET (1..n), s # {}
  PROVE  Max(s) \in s /\ \A y \in s : y <= Max(s)
<1> DEFINE S == {m \in Nat : \A t \in SUBSET (1..m) :
                               t # {} => \E x \in t : \A y \in t : x >= y}
<1>1. 0 \in S
  <2>1. \A t \in SUBSET (1..0) : t = {}
    OBVIOUS
  <2> QED
    BY <2>1
<1>2. ASSUME NEW m \in Nat, m \in S PROVE m + 1 \in S
  <2> SUFFICES ASSUME NEW t \in SUBSET (1..(m + 1)), t # {}
               PROVE  \E x \in t : \A y \in t : x >= y
    OBVIOUS
  <2>1. CASE m + 1 \in t
    <3>1. \A y \in t : m + 1 >= y
      OBVIOUS
    <3> QED
      BY <2>1, <3>1
  <2>2. CASE m + 1 \notin t
    <3>1. t \in SUBSET (1..m)
      BY <2>2
    <3> QED
      BY <1>2, <3>1
  <2> QED
    BY <2>1, <2>2
<1>3. n \in S
  <2> HIDE DEF S
  <2> QED
    BY <1>1, <1>2, SetInduction
<1>4. PICK x \in s : \A y \in s : x >= y
  BY <1>3
<1>5. Max(s) \in s /\ \A y \in s : Max(s) >= y
  BY <1>4 DEF Max
<1> QED
  BY <1>5

\* No two elements of a list are the same.
Unique(list) == \A i, j \in DOMAIN list : list[i] = list[j] => i = j

UniqueLists == {list \in Seq(Ids) : Unique(list)}

(* Such a list has as many elements as it is long. *)
LEMMA UniqueIsNoDuplicates ==
  ASSUME NEW n \in Nat, NEW list, list = [k \in 1..n |-> list[k]], Unique(list)
  PROVE  NoDuplicates(list)
<1>1. DOMAIN list = 1..n /\ Len(list) = n
  OBVIOUS
<1>2. list \in Bijection(1..n, ToSet(list))
  BY <1>1 DEF Unique, ToSet, Bijection, Injection, IsInjective, Surjection
<1>3. IsFiniteSet(1..n) /\ Cardinality(1..n) = n
  BY FS_Interval
<1>4. ExistsBijection(1..n, ToSet(list))
  BY <1>2 DEF ExistsBijection
<1>5. Cardinality(ToSet(list)) = Cardinality(1..n)
  BY <1>3, <1>4, FS_Bijection
<1> QED
  BY <1>1, <1>3, <1>5 DEF NoDuplicates

(* What is appended to a list is its last element. *)
LEMMA AppendedIs ==
  ASSUME NEW S, NEW list \in Seq(S), NEW x \in S
  PROVE  /\ Append(list, x) \in Seq(S)
         /\ DOMAIN list = 1..Len(list) /\ Len(list) \in Nat
         /\ DOMAIN Append(list, x) = 1..(Len(list) + 1)
         /\ \A i \in 1..Len(list) : Append(list, x)[i] = list[i]
         /\ Append(list, x)[Len(list) + 1] = x
         /\ ToSet(Append(list, x)) = ToSet(list) \cup {x}
<1>1. /\ Append(list, x) \in Seq(S)
      /\ DOMAIN list = 1..Len(list) /\ Len(list) \in Nat
      /\ DOMAIN Append(list, x) = 1..(Len(list) + 1)
      /\ \A i \in 1..Len(list) : Append(list, x)[i] = list[i]
      /\ Append(list, x)[Len(list) + 1] = x
  OBVIOUS
<1>2. PICK new : new = Append(list, x)
  OBVIOUS
<1>3. 1..(Len(list) + 1) = 1..Len(list) \cup {Len(list) + 1}
  BY <1>1
<1>4. {new[i] : i \in DOMAIN new} = {list[i] : i \in DOMAIN list} \cup {x}
  BY <1>1, <1>2, <1>3
<1> QED
  BY <1>1, <1>2, <1>4 DEF ToSet

(* An element that is not in a list without duplicates may be appended to it. *)
LEMMA AddUniqueIs ==
  ASSUME NEW S, NEW list \in Seq(S), Unique(list), NEW x \in S
  PROVE  /\ AddUnique(list, x) \in Seq(S)
         /\ Unique(AddUnique(list, x))
         /\ ToSet(AddUnique(list, x)) = ToSet(list) \cup {x}
<1>1. Contains(list, x) <=> x \in ToSet(list)
  BY DEF Contains, ToSet
<1>2. CASE Contains(list, x)
  BY <1>1, <1>2 DEF AddUnique
<1>3. CASE ~Contains(list, x)
  <2>1. AddUnique(list, x) = Append(list, x)
    BY <1>3 DEF AddUnique
  <2>2. \A i \in 1..Len(list) : list[i] # x
    BY <1>3 DEF Contains
  <2>3. PICK new : new = Append(list, x)
    OBVIOUS
  <2>4. Unique(new)
    <3>1. ASSUME NEW i \in DOMAIN new, NEW j \in DOMAIN new, new[i] = new[j] PROVE i = j
      <4>1. i \in 1..Len(list) \/ i = Len(list) + 1
        BY <2>3, AppendedIs
      <4>2. j \in 1..Len(list) \/ j = Len(list) + 1
        BY <2>3, AppendedIs
      <4>3. \A k \in 1..Len(list) : new[k] = list[k] /\ k \in DOMAIN list
        BY <2>3, AppendedIs
      <4>4. new[Len(list) + 1] = x
        BY <2>3, AppendedIs
      <4> QED
        BY <2>2, <3>1, <4>1, <4>2, <4>3, <4>4 DEF Unique
    <3> QED
      BY <3>1 DEF Unique
  <2> QED
    BY <2>1, <2>3, <2>4, AppendedIs
<1> QED
  BY <1>2, <1>3

(* A node with an id is added to a list of ids, any other is left out. *)
LEMMA AddNewIs ==
  ASSUME NEW list \in Seq(Ids), Unique(list), NEW x \in OptionalIds
  PROVE  /\ AddNew(list, x) \in Seq(Ids)
         /\ Unique(AddNew(list, x))
         /\ ToSet(AddNew(list, x)) = ToSet(list) \cup ({x} \ {None, Anon})
<1>1. CASE Named(x)
  <2>1. x \in Ids /\ {x} \ {None, Anon} = {x}
    BY <1>1 DEF Named, OptionalIds
  <2>2. AddNew(list, x) = AddUnique(list, x)
    BY <1>1 DEF AddNew
  <2>3. /\ AddUnique(list, x) \in Seq(Ids)
        /\ Unique(AddUnique(list, x))
        /\ ToSet(AddUnique(list, x)) = ToSet(list) \cup {x}
    BY <2>1, AddUniqueIs
  <2> QED
    BY <2>1, <2>2, <2>3
<1>2. CASE ~Named(x)
  BY <1>2 DEF AddNew, Named
<1> QED
  BY <1>1, <1>2

----------------------------------------------------------------------------
(* Folds *)

\* G maps every set of places of xs to the fold of op over them, begun with b.
Folded(G, op, b, xs, n) ==
  G = [s \in SUBSET (1..n) |-> IF s = {} THEN b ELSE op[<<G[s \ {Max(s)}], xs[Max(s)]>>]]

(* There is such a map, and its values are of op's type. *)
LEMMA FoldExists ==
  ASSUME NEW D, NEW E, NEW op \in [D \X E -> D], NEW b \in D,
         NEW n \in Nat, NEW xs, \A k \in 1..n : xs[k] \in E
  PROVE  \E G \in [SUBSET (1..n) -> D] : Folded(G, op, b, xs, n)
<1> DEFINE Has(m) == \E G \in [SUBSET (1..m) -> D] : Folded(G, op, b, xs, m)
<1> DEFINE S == {m \in Nat : m <= n => Has(m)}
<1>1. Has(0)
  <2>1. SUBSET (1..0) = {{}}
    OBVIOUS
  <2> DEFINE G == [s \in SUBSET (1..0) |-> b]
  <2>2. G \in [SUBSET (1..0) -> D]
    OBVIOUS
  <2>3. Folded(G, op, b, xs, 0)
    BY <2>1 DEF Folded
  <2> HIDE DEF G
  <2> QED
    BY <2>2, <2>3
<1>2. ASSUME NEW m \in Nat, m + 1 <= n, Has(m) PROVE Has(m + 1)
  <2>1. PICK F \in [SUBSET (1..m) -> D] : Folded(F, op, b, xs, m)
    BY <1>2
  <2>2. \A s \in SUBSET (1..m) :
          F[s] = IF s = {} THEN b ELSE op[<<F[s \ {Max(s)}], xs[Max(s)]>>]
    BY <2>1 DEF Folded
  <2> DEFINE G == [s \in SUBSET (1..(m + 1)) |->
                     IF m + 1 \in s THEN op[<<F[s \ {m + 1}], xs[m + 1]>>] ELSE F[s]]
  <2>3. PICK H : H = G
    OBVIOUS
  <2>4. 1..(m + 1) = (1..m) \cup {m + 1} /\ m + 1 \notin 1..m /\ m + 1 \in Nat
    OBVIOUS
  <2>5. \A s \in SUBSET (1..m) : s \in SUBSET (1..(m + 1)) /\ H[s] = F[s]
    <3> SUFFICES ASSUME NEW s \in SUBSET (1..m)
                 PROVE  s \in SUBSET (1..(m + 1)) /\ H[s] = F[s]
      OBVIOUS
    <3>1. s \in SUBSET (1..(m + 1)) /\ m + 1 \notin s
      BY <2>4
    <3> QED
      BY <2>3, <3>1
  <2>6. ASSUME NEW s \in SUBSET (1..(m + 1))
        PROVE  H[s] = IF s = {} THEN b ELSE op[<<H[s \ {Max(s)}], xs[Max(s)]>>]
    <3>1. CASE m + 1 \in s
      <4>1. Max(s) = m + 1
        <5>1. Max(s) \in s /\ \A y \in s : y <= Max(s)
          BY <2>4, <3>1, MaxOfSome
        <5>2. Max(s) \in 1..(m + 1) /\ m + 1 <= Max(s)
          BY <3>1, <5>1
        <5> QED
          BY <5>2
      <4>2. s \ {m + 1} \in SUBSET (1..m)
        BY <2>4
      <4>3. H[s \ {m + 1}] = F[s \ {m + 1}]
        BY <2>5, <4>2
      <4>4. H[s] = op[<<F[s \ {m + 1}], xs[m + 1]>>]
        BY <2>3, <3>1
      <4> QED
        BY <3>1, <4>1, <4>3, <4>4
    <3>2. CASE m + 1 \notin s
      <4>1. s \in SUBSET (1..m)
        BY <2>4, <3>2
      <4>2. H[s] = F[s] /\ H[s \ {Max(s)}] = F[s \ {Max(s)}]
        BY <2>5, <4>1
      <4> QED
        BY <2>2, <4>1, <4>2
    <3> QED
      BY <3>1, <3>2
  <2>7. H = [s \in SUBSET (1..(m + 1)) |-> H[s]]
    BY <2>3
  <2>8. Folded(H, op, b, xs, m + 1)
    BY <2>6, <2>7 DEF Folded
  <2>9. H \in [SUBSET (1..(m + 1)) -> D]
    <3>1. ASSUME NEW s \in SUBSET (1..(m + 1)) PROVE H[s] \in D
      <4>1. CASE m + 1 \in s
        <5>1. s \ {m + 1} \in SUBSET (1..m) /\ m + 1 \in 1..n
          BY <1>2, <2>4
        <5>2. <<F[s \ {m + 1}], xs[m + 1]>> \in D \X E
          BY <5>1
        <5> QED
          BY <2>3, <4>1, <5>2
      <4>2. CASE m + 1 \notin s
        <5>1. s \in SUBSET (1..m)
          BY <2>4, <4>2
        <5> QED
          BY <2>5, <5>1
      <4> QED
        BY <4>1, <4>2
    <3> QED
      BY <2>7, <3>1
  <2> QED
    BY <2>8, <2>9
<1> HIDE DEF Has
<1>3. 0 \in S /\ \A m \in Nat : m \in S => m + 1 \in S
  BY <1>1, <1>2
<1>4. n \in S
  <2> HIDE DEF S
  <2> QED
    BY <1>3, SetInduction
<1>5. Has(n)
  BY <1>4
<1> QED
  BY <1>5 DEF Has

(* A list of ids and a list of nodes: the ids of the nodes are added, none twice. *)
LEMMA AddAllIs ==
  ASSUME NEW list \in Seq(Ids), Unique(list), NEW xs \in Seq(OptionalIds)
  PROVE  /\ AddAll(list, xs) \in Seq(Ids)
         /\ Unique(AddAll(list, xs))
         /\ ToSet(AddAll(list, xs)) = ToSet(list) \cup IdsIn(xs)
<1>1. PICK n \in Nat : n = Len(xs) /\ DOMAIN xs = 1..n
  OBVIOUS
<1> DEFINE D == {l \in Seq(Ids) : Unique(l)}
<1> DEFINE op == [p \in D \X OptionalIds |-> AddNew(p[1], p[2])]
<1> DEFINE Turn(G) == [s \in SUBSET (1..n) |->
                         IF s = {} THEN list ELSE AddNew(G[s \ {Max(s)}], xs[Max(s)])]
<1> DEFINE iter == CHOOSE G : G = Turn(G)
<1>2. AddAll(list, xs) = iter[1..n]
  BY <1>1 DEF AddAll, FoldLeft, MapThenFoldSet
<1>3. op \in [D \X OptionalIds -> D]
  <2>1. ASSUME NEW p \in D \X OptionalIds PROVE AddNew(p[1], p[2]) \in D
    BY AddNewIs
  <2> QED
    BY <2>1
<1>4. PICK G \in [SUBSET (1..n) -> D] : Folded(G, op, list, xs, n)
  <2>1. list \in D /\ \A k \in 1..n : xs[k] \in OptionalIds
    BY <1>1
  <2> HIDE DEF D, op
  <2> QED
    BY <1>3, <2>1, FoldExists
<1>5. G = Turn(G)
  <2>1. ASSUME NEW s \in SUBSET (1..n), s # {}
        PROVE  op[<<G[s \ {Max(s)}], xs[Max(s)]>>] = AddNew(G[s \ {Max(s)}], xs[Max(s)])
    <3>1. Max(s) \in 1..n
      BY <2>1, MaxOfSome
    <3>2. s \ {Max(s)} \in SUBSET (1..n)
      OBVIOUS
    <3>3. <<G[s \ {Max(s)}], xs[Max(s)]>> \in D \X OptionalIds
      BY <1>1, <3>1, <3>2
    <3> QED
      BY <3>3
  <2> HIDE DEF op
  <2> QED
    BY <1>4, <2>1 DEF Folded
<1>6. iter = Turn(iter)
  <2> HIDE DEF Turn
  <2> QED
    BY <1>5
<1> HIDE DEF iter
<1>7. iter[1..0] = list
  BY <1>6
<1>8. ASSUME NEW m \in 1..n PROVE iter[1..m] = AddNew(iter[1..(m - 1)], xs[m])
  <2>1. Max(1..m) = m /\ (1..m) \ {m} = 1..(m - 1) /\ 1..m \in SUBSET (1..n) /\ 1..m # {}
    BY LastOfFirst
  <2> QED
    BY <1>6, <2>1
<1> HIDE DEF Turn, op, D
<1> DEFINE Good(m) == /\ iter[1..m] \in Seq(Ids)
                      /\ Unique(iter[1..m])
                      /\ ToSet(iter[1..m]) = ToSet(list) \cup ({xs[k] : k \in 1..m} \ {None, Anon})
<1> DEFINE S == {m \in Nat : m <= n => Good(m)}
<1>9. 0 \in S
  BY <1>7
<1>10. ASSUME NEW m \in Nat, m \in S PROVE m + 1 \in S
  <2> SUFFICES ASSUME m + 1 <= n PROVE Good(m + 1)
    OBVIOUS
  <2>1. m + 1 \in 1..n /\ (m + 1) - 1 = m /\ 1..(m + 1) = 1..m \cup {m + 1}
    OBVIOUS
  <2>2. iter[1..(m + 1)] = AddNew(iter[1..m], xs[m + 1])
    BY <1>8, <2>1
  <2>3. xs[m + 1] \in OptionalIds
    BY <1>1, <2>1
  <2>4. Good(m)
    BY <1>10
  <2>5. /\ iter[1..(m + 1)] \in Seq(Ids)
        /\ Unique(iter[1..(m + 1)])
        /\ ToSet(iter[1..(m + 1)]) = ToSet(iter[1..m]) \cup ({xs[m + 1]} \ {None, Anon})
    <3>1. PICK old, x : old = iter[1..m] /\ x = xs[m + 1]
      OBVIOUS
    <3>2. old \in Seq(Ids) /\ Unique(old) /\ x \in OptionalIds
      BY <2>3, <2>4, <3>1
    <3>3. /\ AddNew(old, x) \in Seq(Ids)
          /\ Unique(AddNew(old, x))
          /\ ToSet(AddNew(old, x)) = ToSet(old) \cup ({x} \ {None, Anon})
      BY <3>2, AddNewIs
    <3> QED
      BY <2>2, <3>1, <3>3
  <2>6. {xs[k] : k \in 1..(m + 1)} = {xs[k] : k \in 1..m} \cup {xs[m + 1]}
    BY <2>1
  <2> QED
    BY <2>4, <2>5, <2>6
<1>11. n \in S
  <2> HIDE DEF S
  <2> QED
    BY <1>9, <1>10, SetInduction
<1>12. IdsIn(xs) = {xs[k] : k \in 1..n} \ {None, Anon}
  BY <1>1 DEF IdsIn, ToSet
<1> QED
  BY <1>2, <1>11, <1>12

----------------------------------------------------------------------------
(* Engagements, which are known by their keys *)

\* Engagements with ids, none twice.
EngagementLists ==
  {list \in Seq(EngagementRows) :
     /\ \A i \in DOMAIN list : EngagementKey(list[i]) \in Ids
     /\ \A i, j \in DOMAIN list : EngagementKey(list[i]) = EngagementKey(list[j]) => i = j}

KeysOf(list) == {EngagementKey(e) : e \in ToSet(list)}

LEMMA AddEngagementIs ==
  ASSUME NEW list \in EngagementLists, NEW e \in EngagementRows
  PROVE  /\ AddEngagement(list, e) \in EngagementLists
         /\ KeysOf(AddEngagement(list, e)) = KeysOf(list) \cup ({EngagementKey(e)} \ {None, Anon})
<1>1. list \in Seq(EngagementRows) /\ DOMAIN list = 1..Len(list) /\ Len(list) \in Nat
  BY DEF EngagementLists
<1>2. EngagementKey(e) \in OptionalIds
  BY DEF EngagementRows, EngagementKey
<1>3. KeysOf(list) = {EngagementKey(list[i]) : i \in DOMAIN list}
  BY DEF KeysOf, ToSet
<1>4. CASE Named(EngagementKey(e)) /\ \A n \in DOMAIN list : EngagementKey(list[n]) # EngagementKey(e)
  <2>1. PICK new : new = Append(list, e)
    OBVIOUS
  <2>2. AddEngagement(list, e) = new
    BY <1>4, <2>1 DEF AddEngagement
  <2>3. /\ new \in Seq(EngagementRows)
        /\ DOMAIN new = 1..(Len(list) + 1)
        /\ \A i \in 1..Len(list) : new[i] = list[i]
        /\ new[Len(list) + 1] = e
        /\ ToSet(new) = ToSet(list) \cup {e}
    BY <1>1, <2>1, AppendedIs
  <2>4. EngagementKey(e) \in Ids
    BY <1>2, <1>4 DEF Named, OptionalIds
  <2>5. \A i \in DOMAIN new : i \in DOMAIN list \/ i = Len(list) + 1
    BY <1>1, <2>3
  <2>6. ASSUME NEW i \in DOMAIN new PROVE EngagementKey(new[i]) \in Ids
    BY <1>1, <2>3, <2>4, <2>5 DEF EngagementLists
  <2>7. ASSUME NEW i \in DOMAIN new, NEW j \in DOMAIN new,
               EngagementKey(new[i]) = EngagementKey(new[j])
        PROVE  i = j
    <3>1. CASE i \in DOMAIN list /\ j \in DOMAIN list
      BY <1>1, <2>3, <2>7, <3>1 DEF EngagementLists
    <3>2. CASE i \in DOMAIN list /\ j = Len(list) + 1
      BY <1>1, <1>4, <2>3, <2>7, <3>2
    <3>3. CASE i = Len(list) + 1 /\ j \in DOMAIN list
      BY <1>1, <1>4, <2>3, <2>7, <3>3
    <3> QED
      BY <2>5, <3>1, <3>2, <3>3
  <2>8. new \in EngagementLists
    BY <2>3, <2>6, <2>7 DEF EngagementLists
  <2>9. KeysOf(new) = KeysOf(list) \cup {EngagementKey(e)}
    BY <2>3 DEF KeysOf
  <2> QED
    BY <1>4, <2>2, <2>8, <2>9 DEF Named
<1>5. CASE ~(Named(EngagementKey(e)) /\ \A n \in DOMAIN list : EngagementKey(list[n]) # EngagementKey(e))
  <2>1. AddEngagement(list, e) = list
    BY <1>5 DEF AddEngagement
  <2>2. EngagementKey(e) \in {None, Anon} \/ EngagementKey(e) \in KeysOf(list)
    BY <1>3, <1>5 DEF Named
  <2> QED
    BY <2>1, <2>2
<1> QED
  BY <1>4, <1>5

(* The loop over the engagements of a row adds those with an id, none twice. *)
LEMMA AddEngagementsIs ==
  ASSUME NEW list \in EngagementLists, NEW xs \in Seq(EngagementRows)
  PROVE  LET new == FoldLeft(AddEngagement, list, xs)
         IN  /\ new \in EngagementLists
             /\ KeysOf(new) = KeysOf(list) \cup (KeysOf(xs) \ {None, Anon})
<1>1. PICK n \in Nat : n = Len(xs) /\ DOMAIN xs = 1..n
  OBVIOUS
<1> DEFINE op == [p \in EngagementLists \X EngagementRows |-> AddEngagement(p[1], p[2])]
<1> DEFINE Turn(G) == [s \in SUBSET (1..n) |->
                         IF s = {} THEN list ELSE AddEngagement(G[s \ {Max(s)}], xs[Max(s)])]
<1> DEFINE iter == CHOOSE G : G = Turn(G)
<1>2. FoldLeft(AddEngagement, list, xs) = iter[1..n]
  BY <1>1 DEF FoldLeft, MapThenFoldSet
<1>3. op \in [EngagementLists \X EngagementRows -> EngagementLists]
  <2>1. ASSUME NEW p \in EngagementLists \X EngagementRows
        PROVE  AddEngagement(p[1], p[2]) \in EngagementLists
    BY AddEngagementIs
  <2> QED
    BY <2>1
<1>4. PICK G \in [SUBSET (1..n) -> EngagementLists] : Folded(G, op, list, xs, n)
  <2>1. \A k \in 1..n : xs[k] \in EngagementRows
    BY <1>1
  <2> HIDE DEF op
  <2> QED
    BY <1>3, <2>1, FoldExists
<1>5. G = Turn(G)
  <2>1. ASSUME NEW s \in SUBSET (1..n), s # {}
        PROVE  op[<<G[s \ {Max(s)}], xs[Max(s)]>>] = AddEngagement(G[s \ {Max(s)}], xs[Max(s)])
    <3>1. Max(s) \in 1..n
      BY <2>1, MaxOfSome
    <3>2. s \ {Max(s)} \in SUBSET (1..n)
      OBVIOUS
    <3>3. <<G[s \ {Max(s)}], xs[Max(s)]>> \in EngagementLists \X EngagementRows
      BY <1>1, <3>1, <3>2
    <3> QED
      BY <3>3
  <2> HIDE DEF op
  <2> QED
    BY <1>4, <2>1 DEF Folded
<1>6. iter = Turn(iter)
  <2> HIDE DEF Turn
  <2> QED
    BY <1>5
<1> HIDE DEF iter
<1>7. iter[1..0] = list
  BY <1>6
<1>8. ASSUME NEW m \in 1..n PROVE iter[1..m] = AddEngagement(iter[1..(m - 1)], xs[m])
  <2>1. Max(1..m) = m /\ (1..m) \ {m} = 1..(m - 1) /\ 1..m \in SUBSET (1..n) /\ 1..m # {}
    BY LastOfFirst
  <2> QED
    BY <1>6, <2>1
<1> HIDE DEF Turn, op
<1> DEFINE Good(m) ==
      /\ iter[1..m] \in EngagementLists
      /\ KeysOf(iter[1..m]) = KeysOf(list) \cup ({EngagementKey(xs[k]) : k \in 1..m} \ {None, Anon})
<1> DEFINE S == {m \in Nat : m <= n => Good(m)}
<1>9. 0 \in S
  BY <1>7
<1>10. ASSUME NEW m \in Nat, m \in S PROVE m + 1 \in S
  <2> SUFFICES ASSUME m + 1 <= n PROVE Good(m + 1)
    OBVIOUS
  <2>1. m + 1 \in 1..n /\ (m + 1) - 1 = m /\ 1..(m + 1) = 1..m \cup {m + 1}
    OBVIOUS
  <2>2. PICK old, x : old = iter[1..m] /\ x = xs[m + 1]
    OBVIOUS
  <2>3. iter[1..(m + 1)] = AddEngagement(old, x)
    BY <1>8, <2>1, <2>2
  <2>4. Good(m) /\ x \in EngagementRows
    BY <1>1, <1>10, <2>1, <2>2
  <2>5. /\ AddEngagement(old, x) \in EngagementLists
        /\ KeysOf(AddEngagement(old, x)) = KeysOf(old) \cup ({EngagementKey(x)} \ {None, Anon})
    BY <2>2, <2>4, AddEngagementIs
  <2>6. {EngagementKey(xs[k]) : k \in 1..(m + 1)}
          = {EngagementKey(xs[k]) : k \in 1..m} \cup {EngagementKey(x)}
    BY <2>1, <2>2
  <2> QED
    BY <2>2, <2>3, <2>4, <2>5, <2>6
<1>11. n \in S
  <2> HIDE DEF S
  <2> QED
    BY <1>9, <1>10, SetInduction
<1>12. KeysOf(xs) = {EngagementKey(xs[k]) : k \in 1..n}
  BY <1>1 DEF KeysOf, ToSet
<1> QED
  BY <1>2, <1>11, <1>12

----------------------------------------------------------------------------
(* Vulnerabilities *)

Vulnerabilities ==
  [cve : Ids, weakness : Weaknesses, scores : UniqueLists, platforms : UniqueLists,
   resolved : UniqueLists, applicability : SUBSET UNION {PathsOf(a) : a \in ApplicabilityRows}]

(* A platform is resolved only if it has an id. *)
LEMMA ResolvedByIs ==
  ASSUME NEW a \in ApplicabilityRows
  PROVE  ResolvedBy(a) \in Ids \cup {None}
<1>1. a.platform \in OptionalIds
  BY DEF ApplicabilityRows
<1>2. CASE Named(a.platform)
  BY <1>1, <1>2 DEF ResolvedBy, Named, OptionalIds
<1>3. CASE ~Named(a.platform)
  <2>1. PathOf(a) \in {<< >>, <<a.vc>>, <<a.vc, a.vcn>>, <<a.vc, a.vcn, a.criterion>>}
    BY <1>3 DEF PathOf
  <2>2. Len(PathOf(a)) \in 0..3
    BY <2>1
  <2>3. ASSUME NEW p \in PathsOf(a) PROVE Len(p) # 4
    <3>1. PICK n \in 1..Len(PathOf(a)) : p = SubSeq(PathOf(a), 1, n)
      BY DEF PathsOf
    <3>2. n \in 1..3
      BY <2>2, <3>1
    <3>3. Len(SubSeq(PathOf(a), 1, n)) = n
      BY <3>2
    <3> QED
      BY <3>1, <3>2, <3>3
  <2> QED
    BY <2>3 DEF ResolvedBy
<1> QED
  BY <1>2, <1>3

\* w is v with the paths and the platforms of a set of applicability records.
AppliedTo(w, v, records) ==
  /\ w \in Vulnerabilities
  /\ w.cve = v.cve /\ w.weakness = v.weakness /\ w.scores = v.scores
  /\ w.platforms = v.platforms
  /\ w.applicability = v.applicability \cup UNION {PathsOf(a) : a \in records}
  /\ ToSet(w.resolved) = ToSet(v.resolved) \cup ({ResolvedBy(a) : a \in records} \ {None})

LEMMA AddApplicabilityIs ==
  ASSUME NEW v \in Vulnerabilities, NEW a \in ApplicabilityRows
  PROVE  AppliedTo(AddApplicability(v, a), v, {a})
<1>1. ResolvedBy(a) \in Ids \cup {None}
  BY ResolvedByIs
<1>2. v.resolved \in UniqueLists
  BY DEF Vulnerabilities
<1>3. PICK list : list = AddNew(v.resolved, ResolvedBy(a))
  OBVIOUS
<1>4. list \in UniqueLists /\ ToSet(list) = ToSet(v.resolved) \cup ({ResolvedBy(a)} \ {None})
  <2>1. PICK old, x : old = v.resolved /\ x = ResolvedBy(a)
    OBVIOUS
  <2>2. old \in Seq(Ids) /\ Unique(old) /\ x \in OptionalIds
    BY <1>1, <1>2, <2>1 DEF UniqueLists, OptionalIds
  <2>3. /\ AddNew(old, x) \in Seq(Ids) /\ Unique(AddNew(old, x))
        /\ ToSet(AddNew(old, x)) = ToSet(old) \cup ({x} \ {None, Anon})
    BY <2>2, AddNewIs
  <2>4. {x} \ {None, Anon} = {x} \ {None}
    BY <1>1, <2>1, IdsAssumption
  <2> QED
    BY <1>3, <2>1, <2>3, <2>4 DEF UniqueLists
<1>5. PICK w : w = AddApplicability(v, a)
  OBVIOUS
<1>6. w = [v EXCEPT !.applicability = @ \cup PathsOf(a), !.resolved = list]
  BY <1>3, <1>5 DEF AddApplicability
<1>7. PathsOf(a) \subseteq UNION {PathsOf(b) : b \in ApplicabilityRows}
  OBVIOUS
<1>8. /\ w \in Vulnerabilities
      /\ w.cve = v.cve /\ w.weakness = v.weakness /\ w.scores = v.scores
      /\ w.platforms = v.platforms
      /\ w.applicability = v.applicability \cup PathsOf(a)
      /\ w.resolved = list
  <2>1. PICK paths, reachable : /\ paths = PathsOf(a)
                               /\ reachable = UNION {PathsOf(b) : b \in ApplicabilityRows}
    OBVIOUS
  <2>2. Vulnerabilities = [cve : Ids, weakness : Weaknesses, scores : UniqueLists,
                           platforms : UniqueLists, resolved : UniqueLists,
                           applicability : SUBSET reachable]
    BY <2>1 DEF Vulnerabilities
  <2> QED
    BY <1>4, <1>6, <1>7, <2>1, <2>2
<1>9. /\ UNION {PathsOf(b) : b \in {a}} = PathsOf(a)
      /\ {ResolvedBy(b) : b \in {a}} = {ResolvedBy(a)}
  OBVIOUS
<1> QED
  BY <1>4, <1>5, <1>8, <1>9 DEF AppliedTo

(* What two sets of records bring, one after the other, both bring together. *)
LEMMA AppliedTwice ==
  ASSUME NEW u, NEW v, NEW w, NEW A, NEW B, AppliedTo(v, u, A), AppliedTo(w, v, B)
  PROVE  AppliedTo(w, u, A \cup B)
<1>1. /\ UNION {PathsOf(a) : a \in A \cup B}
           = (UNION {PathsOf(a) : a \in A}) \cup UNION {PathsOf(a) : a \in B}
      /\ {ResolvedBy(a) : a \in A \cup B} \ {None}
           = ({ResolvedBy(a) : a \in A} \ {None}) \cup ({ResolvedBy(a) : a \in B} \ {None})
  OBVIOUS
<1>2. /\ w.applicability = (u.applicability \cup UNION {PathsOf(a) : a \in A})
                              \cup UNION {PathsOf(a) : a \in B}
      /\ ToSet(w.resolved) = (ToSet(u.resolved) \cup ({ResolvedBy(a) : a \in A} \ {None}))
                                \cup ({ResolvedBy(a) : a \in B} \ {None})
  BY DEF AppliedTo
<1>3. /\ w.applicability = u.applicability \cup UNION {PathsOf(a) : a \in A \cup B}
      /\ ToSet(w.resolved) = ToSet(u.resolved) \cup ({ResolvedBy(a) : a \in A \cup B} \ {None})
  BY <1>1, <1>2
<1> QED
  BY <1>3 DEF AppliedTo

(* The loop over the applicability records of a row. *)
LEMMA AddApplicabilitiesIs ==
  ASSUME NEW v \in Vulnerabilities, NEW xs \in Seq(ApplicabilityRows)
  PROVE  AppliedTo(FoldLeft(AddApplicability, v, xs), v, ToSet(xs))
<1>1. PICK n \in Nat : n = Len(xs) /\ DOMAIN xs = 1..n
  OBVIOUS
<1> DEFINE op == [p \in Vulnerabilities \X ApplicabilityRows |-> AddApplicability(p[1], p[2])]
<1> DEFINE Turn(G) == [s \in SUBSET (1..n) |->
                         IF s = {} THEN v ELSE AddApplicability(G[s \ {Max(s)}], xs[Max(s)])]
<1> DEFINE iter == CHOOSE G : G = Turn(G)
<1>2. FoldLeft(AddApplicability, v, xs) = iter[1..n]
  BY <1>1 DEF FoldLeft, MapThenFoldSet
<1>3. op \in [Vulnerabilities \X ApplicabilityRows -> Vulnerabilities]
  <2>1. ASSUME NEW p \in Vulnerabilities \X ApplicabilityRows
        PROVE  AddApplicability(p[1], p[2]) \in Vulnerabilities
    BY AddApplicabilityIs DEF AppliedTo
  <2> QED
    BY <2>1
<1>4. PICK G \in [SUBSET (1..n) -> Vulnerabilities] : Folded(G, op, v, xs, n)
  <2>1. \A k \in 1..n : xs[k] \in ApplicabilityRows
    BY <1>1
  <2> HIDE DEF op
  <2> QED
    BY <1>3, <2>1, FoldExists
<1>5. G = Turn(G)
  <2>1. ASSUME NEW s \in SUBSET (1..n), s # {}
        PROVE  op[<<G[s \ {Max(s)}], xs[Max(s)]>>] = AddApplicability(G[s \ {Max(s)}], xs[Max(s)])
    <3>1. Max(s) \in 1..n
      BY <2>1, MaxOfSome
    <3>2. s \ {Max(s)} \in SUBSET (1..n)
      OBVIOUS
    <3>3. <<G[s \ {Max(s)}], xs[Max(s)]>> \in Vulnerabilities \X ApplicabilityRows
      BY <1>1, <3>1, <3>2
    <3> QED
      BY <3>3
  <2> HIDE DEF op
  <2> QED
    BY <1>4, <2>1 DEF Folded
<1>6. iter = Turn(iter)
  <2> HIDE DEF Turn
  <2> QED
    BY <1>5
<1> HIDE DEF iter
<1>7. iter[1..0] = v
  BY <1>6
<1>8. ASSUME NEW m \in 1..n PROVE iter[1..m] = AddApplicability(iter[1..(m - 1)], xs[m])
  <2>1. Max(1..m) = m /\ (1..m) \ {m} = 1..(m - 1) /\ 1..m \in SUBSET (1..n) /\ 1..m # {}
    BY LastOfFirst
  <2> QED
    BY <1>6, <2>1
<1> HIDE DEF Turn, op
<1> DEFINE Good(m) == AppliedTo(iter[1..m], v, {xs[k] : k \in 1..m})
<1>9. Good(0)
  <2>1. {xs[k] : k \in 1..0} = {}
    OBVIOUS
  <2>2. AppliedTo(v, v, {})
    BY DEF AppliedTo
  <2> QED
    BY <1>7, <2>1, <2>2
<1>10. ASSUME NEW m \in Nat, m + 1 <= n, Good(m) PROVE Good(m + 1)
  <2>1. m + 1 \in 1..n /\ (m + 1) - 1 = m /\ 1..(m + 1) = 1..m \cup {m + 1}
    BY <1>10
  <2>2. PICK old, x : old = iter[1..m] /\ x = xs[m + 1]
    OBVIOUS
  <2>3. iter[1..(m + 1)] = AddApplicability(old, x)
    BY <1>8, <2>1, <2>2
  <2>4. AppliedTo(old, v, {xs[k] : k \in 1..m}) /\ x \in ApplicabilityRows
    BY <1>1, <1>10, <2>1, <2>2
  <2>5. AppliedTo(AddApplicability(old, x), old, {x})
    BY <2>4, AddApplicabilityIs DEF AppliedTo
  <2>6. {xs[k] : k \in 1..(m + 1)} = {xs[k] : k \in 1..m} \cup {x}
    BY <2>1, <2>2
  <2>7. AppliedTo(AddApplicability(old, x), v, {xs[k] : k \in 1..m} \cup {x})
    BY <2>4, <2>5, AppliedTwice
  <2> QED
    BY <2>3, <2>6, <2>7
<1> DEFINE S == {m \in Nat : m <= n => Good(m)}
<1>11. Good(n)
  <2> HIDE DEF Good
  <2>1. 0 \in S /\ \A m \in Nat : m \in S => m + 1 \in S
    BY <1>9, <1>10
  <2>2. n \in S
    <3> HIDE DEF S
    <3> QED
      BY <2>1, SetInduction
  <2> QED
    BY <2>2
<1>12. ToSet(xs) = {xs[k] : k \in 1..n}
  BY <1>1 DEF ToSet
<1> QED
  BY <1>2, <1>11, <1>12

(* A list of nodes is a list of nodes that might be missing. *)
LEMMA NodesAreOptional ==
  ASSUME NEW xs \in Seq(NodeIds)
  PROVE  xs \in Seq(OptionalIds)
<1>1. NodeIds \subseteq OptionalIds
  BY DEF NodeIds, OptionalIds
<1> QED
  BY <1>1

\* e is v with what row r brings.
Enriches(e, v, r, enriched) ==
  /\ e \in Vulnerabilities
  /\ e.cve = v.cve
  /\ e.weakness = FirstWeakness(v.weakness, r.weakness)
  /\ ToSet(e.scores) = ToSet(v.scores) \cup IdsIn(r.scores)
  /\ ToSet(e.platforms) =
       ToSet(v.platforms) \cup (IF enriched THEN {r.configuration} \ {None, Anon} ELSE {})
  /\ e.applicability =
       v.applicability \cup UNION {PathsOf(a) : a \in ToSet(r.applicability)}
  /\ ToSet(e.resolved) =
       (ToSet(v.resolved) \cup (IF enriched THEN IdsIn(r.matches) ELSE {}))
         \cup ({ResolvedBy(a) : a \in ToSet(r.applicability)} \ {None})

LEMMA EnrichedIs ==
  ASSUME NEW v \in Vulnerabilities, NEW r \in VulnerabilityRows, NEW enriched \in BOOLEAN
  PROVE  Enriches(Enriched(v, r, enriched), v, r, enriched)
<1>1. /\ r.weakness \in Weaknesses /\ r.scores \in Seq(NodeIds)
      /\ r.configuration \in OptionalIds /\ r.matches \in Seq(NodeIds)
      /\ r.applicability \in Seq(ApplicabilityRows)
  BY DEF VulnerabilityRows
<1>2. /\ v.cve \in Ids /\ v.weakness \in Weaknesses
      /\ v.scores \in UniqueLists /\ v.platforms \in UniqueLists /\ v.resolved \in UniqueLists
  BY DEF Vulnerabilities
<1>3. PICK scored : scored = AddAll(v.scores, r.scores)
  OBVIOUS
<1>4. scored \in UniqueLists /\ ToSet(scored) = ToSet(v.scores) \cup IdsIn(r.scores)
  BY <1>1, <1>2, <1>3, NodesAreOptional, AddAllIs DEF UniqueLists
<1>5. PICK on : on = IF enriched THEN AddNew(v.platforms, r.configuration) ELSE v.platforms
  OBVIOUS
<1>6. /\ on \in UniqueLists
      /\ ToSet(on) = ToSet(v.platforms)
                        \cup (IF enriched THEN {r.configuration} \ {None, Anon} ELSE {})
  BY <1>1, <1>2, <1>5, AddNewIs DEF UniqueLists
<1>7. PICK matched : matched = IF enriched THEN AddAll(v.resolved, r.matches) ELSE v.resolved
  OBVIOUS
<1>8. /\ matched \in UniqueLists
      /\ ToSet(matched) = ToSet(v.resolved) \cup (IF enriched THEN IdsIn(r.matches) ELSE {})
  BY <1>1, <1>2, <1>7, NodesAreOptional, AddAllIs DEF UniqueLists
<1>9. PICK w : w = [v EXCEPT !.weakness  = FirstWeakness(@, r.weakness),
                            !.scores    = scored,
                            !.platforms = on,
                            !.resolved  = matched]
  OBVIOUS
<1>10. FirstWeakness(v.weakness, r.weakness) \in Weaknesses
  BY <1>1, <1>2 DEF FirstWeakness
<1>11. /\ w \in Vulnerabilities /\ w.cve = v.cve
       /\ w.weakness = FirstWeakness(v.weakness, r.weakness)
       /\ w.scores = scored /\ w.platforms = on /\ w.resolved = matched
       /\ w.applicability = v.applicability
  <2>1. PICK reachable : reachable = UNION {PathsOf(b) : b \in ApplicabilityRows}
    OBVIOUS
  <2>2. Vulnerabilities = [cve : Ids, weakness : Weaknesses, scores : UniqueLists,
                           platforms : UniqueLists, resolved : UniqueLists,
                           applicability : SUBSET reachable]
    BY <2>1 DEF Vulnerabilities
  <2> QED
    BY <1>4, <1>6, <1>8, <1>9, <1>10, <2>2
<1>12. PICK e : e = Enriched(v, r, enriched)
  OBVIOUS
<1>13. e = FoldLeft(AddApplicability, w, r.applicability)
  BY <1>3, <1>5, <1>7, <1>9, <1>12 DEF Enriched
<1>14. AppliedTo(e, w, ToSet(r.applicability))
  BY <1>1, <1>11, <1>13, AddApplicabilitiesIs
<1> QED
  BY <1>4, <1>6, <1>8, <1>11, <1>12, <1>14 DEF AppliedTo, Enriches

\* No two of the vulnerabilities have the same id.
VulnerabilityLists ==
  {list \in Seq(Vulnerabilities) :
     \A i, j \in DOMAIN list : list[i].cve = list[j].cve => i = j}

CvesOf(list) == {v.cve : v \in ToSet(list)}

NewVulnerabilityIs(v, cve) ==
  /\ v \in Vulnerabilities /\ v.cve = cve /\ v.weakness = None
  /\ ToSet(v.scores) = {} /\ ToSet(v.platforms) = {} /\ ToSet(v.resolved) = {}
  /\ v.applicability = {}

LEMMA NewVulnerabilityIsNew ==
  ASSUME NEW cve \in Ids
  PROVE  NewVulnerabilityIs(NewVulnerability(cve), cve)
<1>1. PICK none, reachable : /\ none = << >>
                             /\ reachable = UNION {PathsOf(b) : b \in ApplicabilityRows}
  OBVIOUS
<1>2. none \in UniqueLists /\ ToSet(none) = {}
  BY <1>1 DEF UniqueLists, Unique, ToSet
<1>3. PICK v : v = NewVulnerability(cve)
  OBVIOUS
<1>4. v = [cve |-> cve, weakness |-> None, scores |-> none, platforms |-> none,
           resolved |-> none, applicability |-> {}]
  BY <1>1, <1>3 DEF NewVulnerability
<1>5. v \in [cve : Ids, weakness : Weaknesses, scores : UniqueLists, platforms : UniqueLists,
             resolved : UniqueLists, applicability : SUBSET reachable]
  BY <1>2, <1>4 DEF Weaknesses, OptionalIds
<1> QED
  BY <1>1, <1>2, <1>3, <1>4, <1>5 DEF NewVulnerabilityIs, Vulnerabilities

(* A row is added to its vulnerability, which is a new one if it is the first of its *)
(* rows, and no other vulnerability changes.                                         *)
LEMMA AddVulnerabilityIs ==
  ASSUME NEW list \in VulnerabilityLists, NEW r \in VulnerabilityRows, NEW enriched \in BOOLEAN
  PROVE  LET new == AddVulnerability(list, r, enriched)
         IN  /\ new \in VulnerabilityLists
             /\ CvesOf(new) = CvesOf(list) \cup ({r.cve} \ {Anon})
             /\ \A w \in ToSet(new) :
                  IF w.cve # r.cve THEN w \in ToSet(list)
                  ELSE \E v : /\ \/ v \in ToSet(list) /\ v.cve = r.cve
                                 \/ r.cve \notin CvesOf(list) /\ NewVulnerabilityIs(v, r.cve)
                              /\ Enriches(w, v, r, enriched)
<1>1. r.cve \in NodeIds
  BY DEF VulnerabilityRows
<1>2. list \in Seq(Vulnerabilities) /\ DOMAIN list = 1..Len(list) /\ Len(list) \in Nat
  BY DEF VulnerabilityLists
<1>3. \A i \in DOMAIN list : list[i] \in Vulnerabilities /\ list[i] \in ToSet(list)
  BY <1>2 DEF ToSet
<1>4. CvesOf(list) = {list[i].cve : i \in DOMAIN list}
  BY DEF CvesOf, ToSet
<1>5. CvesOf(list) \subseteq Ids
  BY <1>3, <1>4 DEF Vulnerabilities
<1> DEFINE seen == {n \in DOMAIN list : list[n].cve = r.cve}
<1>6. CASE ~Named(r.cve)
  <2>1. r.cve = Anon
    BY <1>1, <1>6, IdsAssumption DEF Named, NodeIds
  <2>2. AddVulnerability(list, r, enriched) = list
    BY <1>6 DEF AddVulnerability
  <2>3. \A w \in ToSet(list) : w.cve # r.cve
    BY <1>5, <2>1, IdsAssumption DEF CvesOf
  <2> QED
    BY <2>1, <2>2, <2>3
<1>7. CASE Named(r.cve) /\ seen = {}
  <2>1. r.cve \in Ids /\ r.cve # Anon
    BY <1>1, <1>7, IdsAssumption DEF Named, NodeIds
  <2>2. PICK v, w : v = NewVulnerability(r.cve) /\ w = Enriched(v, r, enriched)
    OBVIOUS
  <2>3. NewVulnerabilityIs(v, r.cve)
    BY <2>1, <2>2, NewVulnerabilityIsNew
  <2>4. Enriches(w, v, r, enriched)
    BY <2>2, <2>3, EnrichedIs DEF NewVulnerabilityIs
  <2>5. w \in Vulnerabilities /\ w.cve = r.cve
    BY <2>3, <2>4 DEF Enriches, NewVulnerabilityIs
  <2>6. PICK new : new = Append(list, w)
    OBVIOUS
  <2>7. AddVulnerability(list, r, enriched) = new
    BY <1>7, <2>2, <2>6 DEF AddVulnerability
  <2>8. /\ new \in Seq(Vulnerabilities)
        /\ DOMAIN new = 1..(Len(list) + 1)
        /\ \A i \in 1..Len(list) : new[i] = list[i]
        /\ new[Len(list) + 1] = w
        /\ ToSet(new) = ToSet(list) \cup {w}
    BY <1>2, <2>5, <2>6, AppendedIs
  <2>9. \A i \in DOMAIN new : i \in DOMAIN list \/ i = Len(list) + 1
    BY <1>2, <2>8
  <2>10. \A i \in DOMAIN list : list[i].cve # r.cve
    BY <1>7
  <2>11. ASSUME NEW i \in DOMAIN new, NEW j \in DOMAIN new, new[i].cve = new[j].cve
         PROVE  i = j
    <3>1. CASE i \in DOMAIN list /\ j \in DOMAIN list
      BY <1>2, <2>8, <2>11, <3>1 DEF VulnerabilityLists
    <3>2. CASE i \in DOMAIN list /\ j = Len(list) + 1
      BY <1>2, <2>5, <2>8, <2>10, <2>11, <3>2
    <3>3. CASE i = Len(list) + 1 /\ j \in DOMAIN list
      BY <1>2, <2>5, <2>8, <2>10, <2>11, <3>3
    <3> QED
      BY <2>9, <3>1, <3>2, <3>3
  <2>12. new \in VulnerabilityLists
    BY <2>8, <2>11 DEF VulnerabilityLists
  <2>13. CvesOf(new) = CvesOf(list) \cup {r.cve}
    BY <2>5, <2>8 DEF CvesOf
  <2>14. r.cve \notin CvesOf(list)
    BY <1>4, <2>10
  <2> QED
    BY <2>1, <2>3, <2>4, <2>5, <2>7, <2>8, <2>12, <2>13, <2>14 DEF CvesOf
<1>8. CASE Named(r.cve) /\ seen # {}
  <2>1. r.cve \in Ids /\ r.cve # Anon
    BY <1>1, <1>8, IdsAssumption DEF Named, NodeIds
  <2>2. PICK new : new = AddVulnerability(list, r, enriched)
    OBVIOUS
  <2>3. new = [n \in DOMAIN list |->
                 IF list[n].cve = r.cve THEN Enriched(list[n], r, enriched) ELSE list[n]]
    BY <1>8, <2>2 DEF AddVulnerability
  <2>4. ASSUME NEW n \in DOMAIN list
        PROVE  /\ new[n] \in Vulnerabilities /\ new[n].cve = list[n].cve
               /\ list[n].cve # r.cve => new[n] = list[n]
               /\ list[n].cve = r.cve => Enriches(new[n], list[n], r, enriched)
    <3>1. CASE list[n].cve # r.cve
      BY <1>3, <2>3, <3>1
    <3>2. CASE list[n].cve = r.cve
      <4>1. PICK v, w : v = list[n] /\ w = Enriched(v, r, enriched)
        OBVIOUS
      <4>2. Enriches(w, v, r, enriched)
        BY <1>3, <4>1, EnrichedIs
      <4>3. new[n] = w
        BY <2>3, <3>2, <4>1
      <4> QED
        BY <3>2, <4>1, <4>2, <4>3 DEF Enriches
    <3> QED
      BY <3>1, <3>2
  <2>5. DOMAIN new = DOMAIN list
    BY <2>3
  <2>6. new \in VulnerabilityLists
    <3>1. new = [n \in 1..Len(list) |-> new[n]]
      BY <1>2, <2>3
    <3>2. new \in Seq(Vulnerabilities)
      BY <1>2, <2>4, <3>1
    <3>3. \A i, j \in DOMAIN new : new[i].cve = new[j].cve => i = j
      BY <2>4, <2>5 DEF VulnerabilityLists
    <3> QED
      BY <3>2, <3>3 DEF VulnerabilityLists
  <2>7. CvesOf(new) = CvesOf(list) /\ r.cve \in CvesOf(list)
    <3>1. CvesOf(new) = {new[i].cve : i \in DOMAIN new}
      BY DEF CvesOf, ToSet
    <3> QED
      BY <1>4, <1>8, <2>4, <2>5, <3>1
  <2>8. ASSUME NEW w \in ToSet(new)
        PROVE  IF w.cve # r.cve THEN w \in ToSet(list)
               ELSE \E v : /\ v \in ToSet(list) /\ v.cve = r.cve
                           /\ Enriches(w, v, r, enriched)
    <3>1. PICK n \in DOMAIN list : w = new[n]
      BY <2>5 DEF ToSet
    <3> QED
      BY <1>3, <2>4, <3>1
  <2> QED
    BY <2>1, <2>2, <2>6, <2>7, <2>8
<1> QED
  BY <1>6, <1>7, <1>8

\* The rows with the numbers own have made v, which is new if there are none.
MadeOf(v, rs, own, enriched) ==
  \/ own = {} /\ NewVulnerabilityIs(v, v.cve)
  \/ VulnerabilityComputed(v, rs, own, enriched)

(* A vulnerability its rows have made is made of one row more when that is added. *)
LEMMA EnrichedIsComputed ==
  ASSUME NEW rs, NEW m \in Nat, NEW own \in SUBSET (1..m), NEW v, NEW e,
         NEW enriched \in BOOLEAN, Enriches(e, v, rs[m + 1], enriched),
         MadeOf(v, rs, own, enriched)
  PROVE  VulnerabilityComputed(e, rs, own \cup {m + 1}, enriched)
<1> DEFINE weak(o)       == {n \in o : rs[n].weakness \notin {None, Bare}}
           bare(o)       == \E n \in o : rs[n].weakness = Bare
           applicable(o) == UNION {ToSet(rs[n].applicability) : n \in o}
<1>1. PICK r, all : r = rs[m + 1] /\ all = own \cup {m + 1}
  OBVIOUS
<1>2. /\ IF weak(own) = {} THEN v.weakness = IF bare(own) THEN Bare ELSE None
         ELSE \E n \in weak(own) : v.weakness = rs[n].weakness /\ \A k \in weak(own) : n <= k
      /\ ToSet(v.scores) = UNION {IdsIn(rs[n].scores) : n \in own}
      /\ ToSet(v.platforms) =
           IF enriched THEN {rs[n].configuration : n \in own} \ {None, Anon} ELSE {}
      /\ v.applicability = UNION {PathsOf(a) : a \in applicable(own)}
      /\ ToSet(v.resolved) =
           (IF enriched THEN UNION {IdsIn(rs[n].matches) : n \in own} ELSE {})
             \cup ({ResolvedBy(a) : a \in applicable(own)} \ {None})
  <2>1. CASE own = {} /\ NewVulnerabilityIs(v, v.cve)
    BY <2>1 DEF NewVulnerabilityIs
  <2>2. CASE VulnerabilityComputed(v, rs, own, enriched)
    BY <2>2 DEF VulnerabilityComputed
  <2> QED
    BY <2>1, <2>2 DEF MadeOf
<1>3. /\ e.weakness = FirstWeakness(v.weakness, r.weakness)
      /\ ToSet(e.scores) = ToSet(v.scores) \cup IdsIn(r.scores)
      /\ ToSet(e.platforms) =
           ToSet(v.platforms) \cup (IF enriched THEN {r.configuration} \ {None, Anon} ELSE {})
      /\ e.applicability =
           v.applicability \cup UNION {PathsOf(a) : a \in ToSet(r.applicability)}
      /\ ToSet(e.resolved) =
           (ToSet(v.resolved) \cup (IF enriched THEN IdsIn(r.matches) ELSE {}))
             \cup ({ResolvedBy(a) : a \in ToSet(r.applicability)} \ {None})
  BY <1>1 DEF Enriches
<1>4. IF weak(all) = {} THEN e.weakness = IF bare(all) THEN Bare ELSE None
      ELSE \E n \in weak(all) : e.weakness = rs[n].weakness /\ \A k \in weak(all) : n <= k
  <2>1. CASE r.weakness = None
    <3>1. weak(all) = weak(own) /\ (bare(all) <=> bare(own))
      BY <1>1, <2>1, IdsAssumption
    <3>2. e.weakness = v.weakness
      BY <1>3, <2>1 DEF FirstWeakness
    <3> HIDE DEF weak, bare
    <3> QED
      BY <1>2, <3>1, <3>2
  <2>2. CASE r.weakness = Bare /\ weak(own) = {}
    <3>1. weak(all) = {} /\ bare(all)
      BY <1>1, <2>2
    <3>2. v.weakness \in {None, Bare}
      <4> HIDE DEF weak, bare
      <4> QED
        BY <1>2, <2>2
    <3>3. e.weakness = Bare
      BY <1>3, <2>2, <3>2, IdsAssumption DEF FirstWeakness
    <3> HIDE DEF weak, bare
    <3> QED
      BY <3>1, <3>3
  <2>3. CASE r.weakness \notin {None, Bare} /\ weak(own) = {}
    <3>1. weak(all) = {m + 1}
      BY <1>1, <2>3
    <3>2. e.weakness = r.weakness
      <4>1. v.weakness \in {None, Bare}
        <5> HIDE DEF weak, bare
        <5> QED
          BY <1>2, <2>3
      <4> QED
        BY <1>3, <2>3, <4>1 DEF FirstWeakness
    <3>3. m + 1 \in weak(all) /\ \A k \in weak(all) : m + 1 <= k
      <4> HIDE DEF weak, bare
      <4> QED
        BY <3>1
    <3> HIDE DEF weak, bare
    <3> QED
      BY <1>1, <3>2, <3>3
  <2>4. CASE r.weakness # None /\ weak(own) # {}
    <3>1. PICK n \in weak(own) : v.weakness = rs[n].weakness /\ \A k \in weak(own) : n <= k
      BY <1>2, <2>4
    <3>2. rs[n].weakness \notin {None, Bare} /\ n \in 1..m
      OBVIOUS
    <3>3. e.weakness = rs[n].weakness
      BY <1>3, <3>1, <3>2 DEF FirstWeakness
    <3>4. weak(own) \subseteq weak(all) /\ weak(all) \subseteq weak(own) \cup {m + 1}
      BY <1>1
    <3>5. \A k \in weak(all) : n <= k
      <4>1. n <= m + 1
        BY <3>2
      <4>2. ASSUME NEW k \in weak(all) PROVE n <= k
        <5>1. k \in weak(own) \/ k = m + 1
          BY <3>4
        <5> HIDE DEF weak
        <5> QED
          BY <3>1, <4>1, <5>1
      <4> QED
        BY <4>2
    <3>6. n \in weak(all) /\ weak(all) # {}
      <4> HIDE DEF weak
      <4> QED
        BY <3>4
    <3> HIDE DEF weak, bare
    <3> QED
      BY <3>3, <3>5, <3>6
  <2> QED
    <3> HIDE DEF weak, bare
    <3> QED
      BY <2>1, <2>2, <2>3, <2>4
<1>5. UNION {IdsIn(rs[n].scores) : n \in all} = (UNION {IdsIn(rs[n].scores) : n \in own}) \cup IdsIn(r.scores)
  BY <1>1
<1>6. UNION {IdsIn(rs[n].matches) : n \in all} = (UNION {IdsIn(rs[n].matches) : n \in own}) \cup IdsIn(r.matches)
  BY <1>1
<1>7. {rs[n].configuration : n \in all} \ {None, Anon}
        = ({rs[n].configuration : n \in own} \ {None, Anon}) \cup ({r.configuration} \ {None, Anon})
  BY <1>1
<1>8. applicable(all) = applicable(own) \cup ToSet(r.applicability)
  BY <1>1
<1>9. PICK old, new : old = applicable(own) /\ new = ToSet(r.applicability)
  OBVIOUS
<1>10. UNION {PathsOf(a) : a \in old \cup new}
         = (UNION {PathsOf(a) : a \in old}) \cup UNION {PathsOf(a) : a \in new}
  OBVIOUS
<1>11. {ResolvedBy(a) : a \in old \cup new} \ {None}
         = ({ResolvedBy(a) : a \in old} \ {None}) \cup ({ResolvedBy(a) : a \in new} \ {None})
  OBVIOUS
<1>12. ToSet(e.scores) = UNION {IdsIn(rs[n].scores) : n \in all}
  BY <1>2, <1>3, <1>5
<1>13. ToSet(e.platforms) =
         IF enriched THEN {rs[n].configuration : n \in all} \ {None, Anon} ELSE {}
  BY <1>2, <1>3, <1>7
<1>14. e.applicability = UNION {PathsOf(a) : a \in applicable(all)}
  <2> HIDE DEF applicable
  <2> QED
    BY <1>2, <1>3, <1>8, <1>9, <1>10
<1>15. ToSet(e.resolved) =
         (IF enriched THEN UNION {IdsIn(rs[n].matches) : n \in all} ELSE {})
           \cup ({ResolvedBy(a) : a \in applicable(all)} \ {None})
  <2> HIDE DEF applicable
  <2>1. PICK M, N : /\ M = UNION {IdsIn(rs[n].matches) : n \in own}
                    /\ N = UNION {IdsIn(rs[n].matches) : n \in all}
    OBVIOUS
  <2>2. N = M \cup IdsIn(r.matches)
    BY <1>6, <2>1
  <2>3. PICK P, Q, R : /\ P = {ResolvedBy(a) : a \in old} \ {None}
                       /\ Q = {ResolvedBy(a) : a \in new} \ {None}
                       /\ R = {ResolvedBy(a) : a \in applicable(all)} \ {None}
    OBVIOUS
  <2>4. R = P \cup Q
    BY <1>8, <1>9, <1>11, <2>3
  <2>5. ToSet(v.resolved) = (IF enriched THEN M ELSE {}) \cup P
    BY <1>2, <1>9, <2>1, <2>3
  <2>6. ToSet(e.resolved) = (ToSet(v.resolved) \cup (IF enriched THEN IdsIn(r.matches) ELSE {})) \cup Q
    BY <1>3, <1>9, <2>3
  <2>7. ToSet(e.resolved) = (IF enriched THEN N ELSE {}) \cup R
    BY <2>2, <2>4, <2>5, <2>6
  <2> QED
    BY <2>1, <2>3, <2>7
<1>16. all # {}
  BY <1>1
<1>17. VulnerabilityComputed(e, rs, all, enriched)
  BY <1>4, <1>12, <1>13, <1>14, <1>15, <1>16 DEF VulnerabilityComputed
<1> QED
  BY <1>1, <1>17

(* The transformer's loop goes one row further. *)
LEMMA VulnerabilitiesStep ==
  ASSUME NEW rs \in Seq(VulnerabilityRows), NEW m \in Nat, m + 1 <= Len(rs),
         NEW list \in VulnerabilityLists, NEW enriched \in BOOLEAN,
         VulnerabilitiesComputed(list, rs, 1..m, enriched)
  PROVE  LET new == AddVulnerability(list, rs[m + 1], enriched)
         IN  /\ new \in VulnerabilityLists
             /\ VulnerabilitiesComputed(new, rs, 1..(m + 1), enriched)
<1>1. PICK r, new : r = rs[m + 1] /\ new = AddVulnerability(list, rs[m + 1], enriched)
  OBVIOUS
<1>2. r \in VulnerabilityRows /\ 1..(m + 1) = 1..m \cup {m + 1} /\ m + 1 \notin 1..m
  BY <1>1
<1>3. /\ new \in VulnerabilityLists
      /\ CvesOf(new) = CvesOf(list) \cup ({r.cve} \ {Anon})
      /\ \A w \in ToSet(new) :
           IF w.cve # r.cve THEN w \in ToSet(list)
           ELSE \E v : /\ \/ v \in ToSet(list) /\ v.cve = r.cve
                          \/ r.cve \notin CvesOf(list) /\ NewVulnerabilityIs(v, r.cve)
                       /\ Enriches(w, v, r, enriched)
  BY <1>1, <1>2, AddVulnerabilityIs
<1>4. /\ CvesOf(list) = {rs[n].cve : n \in 1..m} \ {Anon}
      /\ \A v \in ToSet(list) :
           VulnerabilityComputed(v, rs, {n \in 1..m : rs[n].cve = v.cve}, enriched)
  BY DEF VulnerabilitiesComputed, CvesOf
<1>5. CvesOf(new) = {rs[n].cve : n \in 1..(m + 1)} \ {Anon}
  BY <1>1, <1>2, <1>3, <1>4
<1>6. ASSUME NEW w \in ToSet(new)
      PROVE  VulnerabilityComputed(w, rs, {n \in 1..(m + 1) : rs[n].cve = w.cve}, enriched)
  <2>1. CASE w.cve # r.cve
    <3>1. {n \in 1..(m + 1) : rs[n].cve = w.cve} = {n \in 1..m : rs[n].cve = w.cve}
      BY <1>1, <1>2, <2>1
    <3> QED
      BY <1>3, <1>4, <2>1, <3>1
  <2>2. CASE w.cve = r.cve
    <3>1. PICK own : own = {n \in 1..m : rs[n].cve = r.cve}
      OBVIOUS
    <3>2. {n \in 1..(m + 1) : rs[n].cve = w.cve} = own \cup {m + 1} /\ own \in SUBSET (1..m)
      BY <1>1, <1>2, <2>2, <3>1
    <3>3. PICK v : /\ \/ v \in ToSet(list) /\ v.cve = r.cve
                      \/ r.cve \notin CvesOf(list) /\ NewVulnerabilityIs(v, r.cve)
                   /\ Enriches(w, v, r, enriched)
      BY <1>3, <2>2
    <3>4. CASE v \in ToSet(list) /\ v.cve = r.cve
      <4>1. MadeOf(v, rs, own, enriched)
        BY <1>4, <3>1, <3>4 DEF MadeOf
      <4>2. Enriches(w, v, rs[m + 1], enriched)
        BY <1>1, <3>3
      <4>3. VulnerabilityComputed(w, rs, own \cup {m + 1}, enriched)
        BY <3>2, <4>1, <4>2, EnrichedIsComputed
      <4> QED
        BY <3>2, <4>3
    <3>5. CASE r.cve \notin CvesOf(list) /\ NewVulnerabilityIs(v, r.cve)
      <4>1. w.cve # Anon
        BY <2>2, <3>3, <3>5, IdsAssumption DEF Enriches, NewVulnerabilityIs, Vulnerabilities
      <4>2. own = {}
        BY <1>4, <2>2, <3>1, <3>5, <4>1
      <4>3. MadeOf(v, rs, own, enriched)
        BY <3>5, <4>2 DEF MadeOf, NewVulnerabilityIs
      <4>4. Enriches(w, v, rs[m + 1], enriched)
        BY <1>1, <3>3
      <4>5. VulnerabilityComputed(w, rs, own \cup {m + 1}, enriched)
        BY <3>2, <4>3, <4>4, EnrichedIsComputed
      <4> QED
        BY <3>2, <4>5
    <3> QED
      BY <3>3, <3>4, <3>5
  <2> QED
    BY <2>1, <2>2
<1>7. VulnerabilitiesComputed(new, rs, 1..(m + 1), enriched)
  BY <1>5, <1>6 DEF VulnerabilitiesComputed, CvesOf
<1> QED
  BY <1>1, <1>3, <1>7

----------------------------------------------------------------------------
(* Techniques and the paths that lead to them *)

Techniques == [id : Ids, capec : UniqueLists, tactics : UniqueLists, subs : UniqueLists]

\* No two of the techniques have the same id.
TechniqueLists ==
  {list \in Seq(Techniques) : \A i, j \in DOMAIN list : list[i].id = list[j].id => i = j}

Paths == {AttackPath(r) : r \in {x \in TechniqueRows : x.t # Anon}}

PathLists == {list \in Seq(Paths) : Unique(list)}

Attacks == [techniques : TechniqueLists, paths : PathLists]

TechniqueIds(list) == {t.id : t \in ToSet(list)}

\* u is t with what row r brings.
Aggregates(u, t, r) ==
  /\ u \in Techniques
  /\ u.id = t.id
  /\ ToSet(u.capec) = ToSet(t.capec) \cup ({r.ap} \ {None, Anon})
  /\ ToSet(u.tactics) = ToSet(t.tactics) \cup ({r.tactic} \ {None, Anon})
  /\ ToSet(u.subs) = ToSet(t.subs) \cup ({r.sub} \ {None, Anon})

LEMMA AggregatedIs ==
  ASSUME NEW t \in Techniques, NEW r \in TechniqueRows
  PROVE  Aggregates(Aggregated(t, r), t, r)
<1>1. r.ap \in OptionalIds /\ r.tactic \in OptionalIds /\ r.sub \in OptionalIds
  BY DEF TechniqueRows, NodeIds, OptionalIds
<1>2. t.capec \in UniqueLists /\ t.tactics \in UniqueLists /\ t.subs \in UniqueLists
  BY DEF Techniques
<1>3. PICK c, x, y : /\ c = AddNew(t.capec, r.ap) /\ x = AddNew(t.tactics, r.tactic)
                     /\ y = AddNew(t.subs, r.sub)
  OBVIOUS
<1>4. c \in UniqueLists /\ ToSet(c) = ToSet(t.capec) \cup ({r.ap} \ {None, Anon})
  BY <1>1, <1>2, <1>3, AddNewIs DEF UniqueLists
<1>5. x \in UniqueLists /\ ToSet(x) = ToSet(t.tactics) \cup ({r.tactic} \ {None, Anon})
  BY <1>1, <1>2, <1>3, AddNewIs DEF UniqueLists
<1>6. y \in UniqueLists /\ ToSet(y) = ToSet(t.subs) \cup ({r.sub} \ {None, Anon})
  BY <1>1, <1>2, <1>3, AddNewIs DEF UniqueLists
<1>7. PICK u : u = Aggregated(t, r)
  OBVIOUS
<1>8. u = [t EXCEPT !.capec = c, !.tactics = x, !.subs = y]
  BY <1>3, <1>7 DEF Aggregated
<1>9. u \in Techniques /\ u.id = t.id /\ u.capec = c /\ u.tactics = x /\ u.subs = y
  BY <1>4, <1>5, <1>6, <1>8 DEF Techniques
<1> QED
  BY <1>4, <1>5, <1>6, <1>7, <1>9 DEF Aggregates

NewTechniqueIs(t, id) ==
  /\ t \in Techniques /\ t.id = id
  /\ ToSet(t.capec) = {} /\ ToSet(t.tactics) = {} /\ ToSet(t.subs) = {}

LEMMA NewTechniqueIsNew ==
  ASSUME NEW id \in Ids
  PROVE  NewTechniqueIs(NewTechnique(id), id)
<1>1. PICK none : none = << >>
  OBVIOUS
<1>2. none \in UniqueLists /\ ToSet(none) = {}
  BY <1>1 DEF UniqueLists, Unique, ToSet
<1>3. PICK t : t = NewTechnique(id)
  OBVIOUS
<1>4. t = [id |-> id, capec |-> none, tactics |-> none, subs |-> none]
  BY <1>1, <1>3 DEF NewTechnique
<1> QED
  BY <1>2, <1>3, <1>4 DEF NewTechniqueIs, Techniques

(* A row is added to its technique, which is a new one if it is the first of its rows. *)
LEMMA AddToTechniqueIs ==
  ASSUME NEW attack \in Attacks, NEW r \in TechniqueRows
  PROVE  LET list == attack.techniques
             new  == AddTechnique(attack, r).techniques
         IN  /\ new \in TechniqueLists
             /\ TechniqueIds(new) = TechniqueIds(list) \cup ({r.t} \ {Anon})
             /\ \A u \in ToSet(new) :
                  IF u.id # r.t THEN u \in ToSet(list)
                  ELSE \E t : /\ \/ t \in ToSet(list) /\ t.id = r.t
                                 \/ r.t \notin TechniqueIds(list) /\ NewTechniqueIs(t, r.t)
                              /\ Aggregates(u, t, r)
<1>1. r.t \in NodeIds
  BY DEF TechniqueRows
<1>2. PICK list : list = attack.techniques
  OBVIOUS
<1>3. list \in TechniqueLists
  BY <1>2 DEF Attacks
<1>4. list \in Seq(Techniques) /\ DOMAIN list = 1..Len(list) /\ Len(list) \in Nat
  BY <1>3 DEF TechniqueLists
<1>5. \A i \in DOMAIN list : list[i] \in Techniques /\ list[i] \in ToSet(list)
  BY <1>4 DEF ToSet
<1>6. TechniqueIds(list) = {list[i].id : i \in DOMAIN list}
  BY DEF TechniqueIds, ToSet
<1>7. TechniqueIds(list) \subseteq Ids
  BY <1>5, <1>6 DEF Techniques
<1> DEFINE seen == {n \in DOMAIN list : list[n].id = r.t}
<1>8. CASE ~Named(r.t)
  <2>1. r.t = Anon
    BY <1>1, <1>8, IdsAssumption DEF Named, NodeIds
  <2>2. AddTechnique(attack, r) = attack
    BY <1>8 DEF AddTechnique
  <2>3. \A u \in ToSet(list) : u.id # r.t
    BY <1>7, <2>1, IdsAssumption DEF TechniqueIds
  <2> QED
    BY <1>2, <1>3, <2>1, <2>2, <2>3
<1>9. CASE Named(r.t) /\ seen = {}
  <2>1. r.t \in Ids /\ r.t # Anon
    BY <1>1, <1>9, IdsAssumption DEF Named, NodeIds
  <2>2. PICK t, u : t = NewTechnique(r.t) /\ u = Aggregated(t, r)
    OBVIOUS
  <2>3. NewTechniqueIs(t, r.t)
    BY <2>1, <2>2, NewTechniqueIsNew
  <2>4. Aggregates(u, t, r)
    BY <2>2, <2>3, AggregatedIs DEF NewTechniqueIs
  <2>5. u \in Techniques /\ u.id = r.t
    BY <2>3, <2>4 DEF Aggregates, NewTechniqueIs
  <2>6. PICK new : new = Append(list, u)
    OBVIOUS
  <2>7. AddTechnique(attack, r).techniques = new
    BY <1>2, <1>9, <2>2, <2>6 DEF AddTechnique
  <2>8. /\ new \in Seq(Techniques)
        /\ DOMAIN new = 1..(Len(list) + 1)
        /\ \A i \in 1..Len(list) : new[i] = list[i]
        /\ new[Len(list) + 1] = u
        /\ ToSet(new) = ToSet(list) \cup {u}
    BY <1>4, <2>5, <2>6, AppendedIs
  <2>9. \A i \in DOMAIN new : i \in DOMAIN list \/ i = Len(list) + 1
    BY <1>4, <2>8
  <2>10. \A i \in DOMAIN list : list[i].id # r.t
    BY <1>9
  <2>11. ASSUME NEW i \in DOMAIN new, NEW j \in DOMAIN new, new[i].id = new[j].id
         PROVE  i = j
    <3>1. CASE i \in DOMAIN list /\ j \in DOMAIN list
      BY <1>3, <1>4, <2>8, <2>11, <3>1 DEF TechniqueLists
    <3>2. CASE i \in DOMAIN list /\ j = Len(list) + 1
      BY <1>4, <2>5, <2>8, <2>10, <2>11, <3>2
    <3>3. CASE i = Len(list) + 1 /\ j \in DOMAIN list
      BY <1>4, <2>5, <2>8, <2>10, <2>11, <3>3
    <3> QED
      BY <2>9, <3>1, <3>2, <3>3
  <2>12. new \in TechniqueLists
    BY <2>8, <2>11 DEF TechniqueLists
  <2>13. TechniqueIds(new) = TechniqueIds(list) \cup {r.t}
    BY <2>5, <2>8 DEF TechniqueIds
  <2>14. r.t \notin TechniqueIds(list)
    BY <1>6, <2>10
  <2> QED
    BY <1>2, <2>1, <2>3, <2>4, <2>5, <2>7, <2>8, <2>12, <2>13, <2>14 DEF TechniqueIds
<1>10. CASE Named(r.t) /\ seen # {}
  <2>1. r.t \in Ids /\ r.t # Anon
    BY <1>1, <1>10, IdsAssumption DEF Named, NodeIds
  <2>2. PICK new : new = AddTechnique(attack, r).techniques
    OBVIOUS
  <2>3. new = [n \in DOMAIN list |-> IF list[n].id = r.t THEN Aggregated(list[n], r) ELSE list[n]]
    BY <1>2, <1>10, <2>2 DEF AddTechnique
  <2>4. ASSUME NEW n \in DOMAIN list
        PROVE  /\ new[n] \in Techniques /\ new[n].id = list[n].id
               /\ list[n].id # r.t => new[n] = list[n]
               /\ list[n].id = r.t => Aggregates(new[n], list[n], r)
    <3>1. CASE list[n].id # r.t
      BY <1>5, <2>3, <3>1
    <3>2. CASE list[n].id = r.t
      <4>1. PICK t, u : t = list[n] /\ u = Aggregated(t, r)
        OBVIOUS
      <4>2. Aggregates(u, t, r)
        BY <1>5, <4>1, AggregatedIs
      <4>3. new[n] = u
        BY <2>3, <3>2, <4>1
      <4> QED
        BY <3>2, <4>1, <4>2, <4>3 DEF Aggregates
    <3> QED
      BY <3>1, <3>2
  <2>5. DOMAIN new = DOMAIN list
    BY <2>3
  <2>6. new \in TechniqueLists
    <3>1. new = [n \in 1..Len(list) |-> new[n]]
      BY <1>4, <2>3
    <3>2. new \in Seq(Techniques)
      BY <1>4, <2>4, <3>1
    <3>3. \A i, j \in DOMAIN new : new[i].id = new[j].id => i = j
      BY <1>3, <2>4, <2>5 DEF TechniqueLists
    <3> QED
      BY <3>2, <3>3 DEF TechniqueLists
  <2>7. TechniqueIds(new) = TechniqueIds(list) /\ r.t \in TechniqueIds(list)
    <3>1. TechniqueIds(new) = {new[i].id : i \in DOMAIN new}
      BY DEF TechniqueIds, ToSet
    <3> QED
      BY <1>6, <1>10, <2>4, <2>5, <3>1
  <2>8. ASSUME NEW u \in ToSet(new)
        PROVE  IF u.id # r.t THEN u \in ToSet(list)
               ELSE \E t : t \in ToSet(list) /\ t.id = r.t /\ Aggregates(u, t, r)
    <3>1. PICK n \in DOMAIN list : u = new[n]
      BY <2>5 DEF ToSet
    <3> QED
      BY <1>5, <2>4, <3>1
  <2> QED
    BY <1>2, <2>1, <2>2, <2>6, <2>7, <2>8
<1> QED
  BY <1>8, <1>9, <1>10

(* A path is added for a row whose technique has an id, unless it is there already. *)
LEMMA AddPathIs ==
  ASSUME NEW attack \in Attacks, NEW r \in TechniqueRows
  PROVE  LET new == AddTechnique(attack, r)
         IN  /\ new = [techniques |-> new.techniques, paths |-> new.paths]
             /\ new.paths \in PathLists
             /\ ToSet(new.paths) = ToSet(attack.paths)
                                     \cup (IF r.t = Anon THEN {} ELSE {AttackPath(r)})
<1>1. r.t \in NodeIds /\ r.w \in NodeIds /\ r.ap \in NodeIds
  BY DEF TechniqueRows
<1>2. None \notin {r.w, r.ap}
  BY <1>1, IdsAssumption DEF NodeIds
<1>3. Named(r.t) <=> r.t # Anon
  BY <1>1, IdsAssumption DEF Named, NodeIds
<1>4. attack = [techniques |-> attack.techniques, paths |-> attack.paths] /\ attack.paths \in PathLists
  BY DEF Attacks
<1>5. CASE r.t = Anon
  <2>1. AddTechnique(attack, r) = attack
    BY <1>3, <1>5 DEF AddTechnique
  <2> QED
    BY <1>4, <1>5, <2>1
<1>6. CASE r.t # Anon
  <2>1. PICK p, list, new : /\ p = AttackPath(r) /\ list = attack.paths
                            /\ new = AddTechnique(attack, r)
    OBVIOUS
  <2>2. new = [techniques |-> new.techniques, paths |-> new.paths] /\ new.paths = AddUnique(list, p)
    BY <1>2, <1>3, <1>6, <2>1 DEF AddTechnique
  <2>3. p \in Paths /\ list \in Seq(Paths) /\ Unique(list)
    BY <1>4, <1>6, <2>1 DEF Paths, PathLists
  <2>4. /\ AddUnique(list, p) \in Seq(Paths) /\ Unique(AddUnique(list, p))
        /\ ToSet(AddUnique(list, p)) = ToSet(list) \cup {p}
    BY <2>3, AddUniqueIs
  <2> QED
    BY <1>6, <2>1, <2>2, <2>4 DEF PathLists
<1> QED
  BY <1>5, <1>6

\* The rows with the numbers own have made t, which is new if there are none.
TechniqueMadeOf(t, rs, own) ==
  (own = {} /\ NewTechniqueIs(t, t.id)) \/ TechniqueComputed(t, rs, own)

LEMMA AggregatedIsComputed ==
  ASSUME NEW rs, NEW m \in Nat, NEW own \in SUBSET (1..m), NEW t, NEW u,
         Aggregates(u, t, rs[m + 1]), TechniqueMadeOf(t, rs, own)
  PROVE  TechniqueComputed(u, rs, own \cup {m + 1})
<1>1. PICK r, all : r = rs[m + 1] /\ all = own \cup {m + 1}
  OBVIOUS
<1>2. /\ ToSet(t.capec) = {rs[n].ap : n \in own} \ {None, Anon}
      /\ ToSet(t.tactics) = {rs[n].tactic : n \in own} \ {None, Anon}
      /\ ToSet(t.subs) = {rs[n].sub : n \in own} \ {None, Anon}
  <2>1. CASE own = {} /\ NewTechniqueIs(t, t.id)
    BY <2>1 DEF NewTechniqueIs
  <2>2. CASE TechniqueComputed(t, rs, own)
    BY <2>2 DEF TechniqueComputed
  <2> QED
    BY <2>1, <2>2 DEF TechniqueMadeOf
<1>3. /\ {rs[n].ap : n \in all} = {rs[n].ap : n \in own} \cup {r.ap}
      /\ {rs[n].tactic : n \in all} = {rs[n].tactic : n \in own} \cup {r.tactic}
      /\ {rs[n].sub : n \in all} = {rs[n].sub : n \in own} \cup {r.sub}
  BY <1>1
<1>4. /\ ToSet(u.capec) = ToSet(t.capec) \cup ({r.ap} \ {None, Anon})
      /\ ToSet(u.tactics) = ToSet(t.tactics) \cup ({r.tactic} \ {None, Anon})
      /\ ToSet(u.subs) = ToSet(t.subs) \cup ({r.sub} \ {None, Anon})
  BY <1>1 DEF Aggregates
<1>5. /\ ToSet(u.capec) = {rs[n].ap : n \in all} \ {None, Anon}
      /\ ToSet(u.tactics) = {rs[n].tactic : n \in all} \ {None, Anon}
      /\ ToSet(u.subs) = {rs[n].sub : n \in all} \ {None, Anon}
  BY <1>2, <1>3, <1>4
<1>6. all # {}
  BY <1>1
<1>7. TechniqueComputed(u, rs, all)
  BY <1>5, <1>6 DEF TechniqueComputed
<1> QED
  BY <1>1, <1>7

(* The transformer's loop goes one row further. *)
LEMMA TechniquesStep ==
  ASSUME NEW rs \in Seq(TechniqueRows), NEW m \in Nat, m + 1 <= Len(rs),
         NEW attack \in Attacks, TechniquesComputed(attack, rs, 1..m)
  PROVE  LET new == AddTechnique(attack, rs[m + 1])
         IN  new \in Attacks /\ TechniquesComputed(new, rs, 1..(m + 1))
<1>1. PICK r, list, new, after : /\ r = rs[m + 1] /\ list = attack.techniques
                                 /\ after = AddTechnique(attack, rs[m + 1])
                                 /\ new = after.techniques
  OBVIOUS
<1>2. r \in TechniqueRows /\ 1..(m + 1) = 1..m \cup {m + 1} /\ m + 1 \notin 1..m
  BY <1>1
<1>3. /\ new \in TechniqueLists
      /\ TechniqueIds(new) = TechniqueIds(list) \cup ({r.t} \ {Anon})
      /\ \A u \in ToSet(new) :
           IF u.id # r.t THEN u \in ToSet(list)
           ELSE \E t : /\ \/ t \in ToSet(list) /\ t.id = r.t
                          \/ r.t \notin TechniqueIds(list) /\ NewTechniqueIs(t, r.t)
                       /\ Aggregates(u, t, r)
  BY <1>1, <1>2, AddToTechniqueIs
<1>4. /\ after = [techniques |-> new, paths |-> after.paths]
      /\ after.paths \in PathLists
      /\ ToSet(after.paths) = ToSet(attack.paths)
                                \cup (IF r.t = Anon THEN {} ELSE {AttackPath(r)})
  BY <1>1, <1>2, AddPathIs
<1>5. /\ TechniqueIds(list) = {rs[n].t : n \in 1..m} \ {Anon}
      /\ \A t \in ToSet(list) : TechniqueComputed(t, rs, {n \in 1..m : rs[n].t = t.id})
      /\ ToSet(attack.paths) = {AttackPath(rs[n]) : n \in {k \in 1..m : rs[k].t # Anon}}
  BY <1>1 DEF TechniquesComputed, TechniqueIds
<1>6. TechniqueIds(new) = {rs[n].t : n \in 1..(m + 1)} \ {Anon}
  BY <1>1, <1>2, <1>3, <1>5
<1>7. ASSUME NEW u \in ToSet(new)
      PROVE  TechniqueComputed(u, rs, {n \in 1..(m + 1) : rs[n].t = u.id})
  <2>1. CASE u.id # r.t
    <3>1. {n \in 1..(m + 1) : rs[n].t = u.id} = {n \in 1..m : rs[n].t = u.id}
      BY <1>1, <1>2, <2>1
    <3> QED
      BY <1>3, <1>5, <2>1, <3>1
  <2>2. CASE u.id = r.t
    <3>1. PICK own : own = {n \in 1..m : rs[n].t = r.t}
      OBVIOUS
    <3>2. {n \in 1..(m + 1) : rs[n].t = u.id} = own \cup {m + 1} /\ own \in SUBSET (1..m)
      BY <1>1, <1>2, <2>2, <3>1
    <3>3. PICK t : /\ \/ t \in ToSet(list) /\ t.id = r.t
                      \/ r.t \notin TechniqueIds(list) /\ NewTechniqueIs(t, r.t)
                   /\ Aggregates(u, t, r)
      BY <1>3, <2>2
    <3>4. Aggregates(u, t, rs[m + 1])
      BY <1>1, <3>3
    <3>5. TechniqueMadeOf(t, rs, own)
      <4>1. CASE t \in ToSet(list) /\ t.id = r.t
        BY <1>5, <3>1, <4>1 DEF TechniqueMadeOf
      <4>2. CASE r.t \notin TechniqueIds(list) /\ NewTechniqueIs(t, r.t)
        <5>1. u.id # Anon
          BY <2>2, <3>3, <4>2, IdsAssumption DEF Aggregates, NewTechniqueIs, Techniques
        <5>2. own = {}
          BY <1>5, <2>2, <3>1, <4>2, <5>1
        <5> QED
          BY <4>2, <5>2 DEF TechniqueMadeOf, NewTechniqueIs
      <4> QED
        BY <3>3, <4>1, <4>2
    <3>6. TechniqueComputed(u, rs, own \cup {m + 1})
      BY <3>2, <3>4, <3>5, AggregatedIsComputed
    <3> QED
      BY <3>2, <3>6
  <2> QED
    BY <2>1, <2>2
<1>8. ToSet(after.paths) = {AttackPath(rs[n]) : n \in {k \in 1..(m + 1) : rs[k].t # Anon}}
  <2>1. CASE r.t = Anon
    <3>1. {k \in 1..(m + 1) : rs[k].t # Anon} = {k \in 1..m : rs[k].t # Anon}
      BY <1>1, <1>2, <2>1
    <3> QED
      BY <1>4, <1>5, <2>1, <3>1
  <2>2. CASE r.t # Anon
    <3>1. PICK old : old = {k \in 1..m : rs[k].t # Anon}
      OBVIOUS
    <3>2. {k \in 1..(m + 1) : rs[k].t # Anon} = old \cup {m + 1}
      BY <1>1, <1>2, <2>2, <3>1
    <3>3. {AttackPath(rs[n]) : n \in old \cup {m + 1}}
            = {AttackPath(rs[n]) : n \in old} \cup {AttackPath(rs[m + 1])}
      OBVIOUS
    <3> QED
      BY <1>1, <1>4, <1>5, <2>2, <3>1, <3>2, <3>3
  <2> QED
    BY <2>1, <2>2
<1>9. TechniquesComputed(after, rs, 1..(m + 1))
  BY <1>1, <1>6, <1>7, <1>8 DEF TechniquesComputed, TechniqueIds
<1>10. after \in Attacks
  BY <1>3, <1>4 DEF Attacks
<1> QED
  BY <1>1, <1>9, <1>10

(* A path leads to one of the techniques. *)
LEMMA PathsLead ==
  ASSUME NEW attack, NEW rs, NEW done, TechniquesComputed(attack, rs, done)
  PROVE  \A p \in ToSet(attack.paths) : p.technique \in TechniqueIds(attack.techniques)
<1>1. /\ TechniqueIds(attack.techniques) = {rs[n].t : n \in done} \ {Anon}
      /\ ToSet(attack.paths) = {AttackPath(rs[n]) : n \in {k \in done : rs[k].t # Anon}}
  BY DEF TechniquesComputed, TechniqueIds
<1>2. \A r : AttackPath(r).technique = r.t
  BY DEF AttackPath
<1> QED
  BY <1>1, <1>2

----------------------------------------------------------------------------
(* Controls *)

Coverages ==
  [mitigations : UniqueLists, detections : UniqueLists, deceptions : UniqueLists,
   engagements : EngagementLists]

(* The transformer's loop goes one row further. *)
LEMMA CoverageStep ==
  ASSUME NEW rs \in Seq(CoverageRows), NEW m \in Nat, m + 1 <= Len(rs),
         NEW coverage \in Coverages, CoverageComputed(coverage, rs, 1..m)
  PROVE  LET new == AddCoverage(coverage, rs[m + 1])
         IN  new \in Coverages /\ CoverageComputed(new, rs, 1..(m + 1))
<1>1. PICK r, new : r = rs[m + 1] /\ new = AddCoverage(coverage, rs[m + 1])
  OBVIOUS
<1>2. /\ r \in CoverageRows /\ 1..(m + 1) = 1..m \cup {m + 1}
      /\ r.mitigations \in Seq(NodeIds) /\ r.detections \in Seq(NodeIds)
      /\ r.deceptions \in Seq(NodeIds) /\ r.engagements \in Seq(EngagementRows)
  <2>1. r \in CoverageRows /\ 1..(m + 1) = 1..m \cup {m + 1}
    BY <1>1
  <2> QED
    BY <2>1 DEF CoverageRows
<1>3. /\ coverage.mitigations \in UniqueLists /\ coverage.detections \in UniqueLists
      /\ coverage.deceptions \in UniqueLists /\ coverage.engagements \in EngagementLists
  BY DEF Coverages
<1>4. PICK a, b, c, e : /\ a = AddAll(coverage.mitigations, r.mitigations)
                        /\ b = AddAll(coverage.detections, r.detections)
                        /\ c = AddAll(coverage.deceptions, r.deceptions)
                        /\ e = FoldLeft(AddEngagement, coverage.engagements, r.engagements)
  OBVIOUS
<1>5. new = [mitigations |-> a, detections |-> b, deceptions |-> c, engagements |-> e]
  BY <1>1, <1>4 DEF AddCoverage
<1>6. a \in UniqueLists /\ ToSet(a) = ToSet(coverage.mitigations) \cup IdsIn(r.mitigations)
  BY <1>2, <1>3, <1>4, NodesAreOptional, AddAllIs DEF UniqueLists
<1>7. b \in UniqueLists /\ ToSet(b) = ToSet(coverage.detections) \cup IdsIn(r.detections)
  BY <1>2, <1>3, <1>4, NodesAreOptional, AddAllIs DEF UniqueLists
<1>8. c \in UniqueLists /\ ToSet(c) = ToSet(coverage.deceptions) \cup IdsIn(r.deceptions)
  BY <1>2, <1>3, <1>4, NodesAreOptional, AddAllIs DEF UniqueLists
<1>9. e \in EngagementLists /\ KeysOf(e) = KeysOf(coverage.engagements) \cup (KeysOf(r.engagements) \ {None, Anon})
  BY <1>2, <1>3, <1>4, AddEngagementsIs
<1>10. CoverageSources(r)["ENGAGE"] = KeysOf(r.engagements) \ {None, Anon}
  BY DEF CoverageSources, KeysOf
<1>11. /\ ToSet(coverage.mitigations) = UNION {IdsIn(rs[n].mitigations) : n \in 1..m}
       /\ ToSet(coverage.detections) = UNION {IdsIn(rs[n].detections) : n \in 1..m}
       /\ ToSet(coverage.deceptions) = UNION {IdsIn(rs[n].deceptions) : n \in 1..m}
       /\ KeysOf(coverage.engagements) = UNION {CoverageSources(rs[n])["ENGAGE"] : n \in 1..m}
  BY DEF CoverageComputed, KeysOf
<1>12. ToSet(a) = UNION {IdsIn(rs[n].mitigations) : n \in 1..(m + 1)}
  BY <1>1, <1>2, <1>6, <1>11
<1>13. ToSet(b) = UNION {IdsIn(rs[n].detections) : n \in 1..(m + 1)}
  BY <1>1, <1>2, <1>7, <1>11
<1>14. ToSet(c) = UNION {IdsIn(rs[n].deceptions) : n \in 1..(m + 1)}
  BY <1>1, <1>2, <1>8, <1>11
<1>15. KeysOf(e) = UNION {CoverageSources(rs[n])["ENGAGE"] : n \in 1..(m + 1)}
  BY <1>1, <1>2, <1>9, <1>10, <1>11
<1>16. new \in Coverages
  BY <1>5, <1>6, <1>7, <1>8, <1>9 DEF Coverages
<1>17. CoverageComputed(new, rs, 1..(m + 1))
  BY <1>5, <1>12, <1>13, <1>14, <1>15 DEF CoverageComputed, KeysOf
<1> QED
  BY <1>1, <1>16, <1>17

----------------------------------------------------------------------------
(* The state of an agent's answer: data d and sources src *)

AgentNames == {"systems", "offensive", "defensive"}

RowsOf(a) ==
  CASE a = "systems" -> VulnerabilityRows [] a = "offensive" -> TechniqueRows
    [] a = "defensive" -> CoverageRows

DataTypes == [systems : VulnerabilityLists, offensive : Attacks, defensive : Coverages]

PatternsOf(list) == UNION {ToSet(t.capec) : t \in ToSet(list)}

\* Agent a has answered nothing yet.
Untouched(a, d, src) ==
  /\ a = "systems" => d.systems = << >>
  /\ a = "offensive" => d.offensive = NoTechniques
  /\ a = "defensive" => d.defensive = NoCoverage
  /\ \A s \in SourcesOf(a) : src[s] = {}

\* What agent a cites is what its data holds.
Matched(a, d, src) ==
  /\ a = "systems" => src["NVD"] = CvesOf(d.systems)
  /\ a = "offensive" =>
       /\ src["ATTACK"] = TechniqueIds(d.offensive.techniques)
       /\ PatternsOf(d.offensive.techniques) \subseteq src["CAPEC"]
       /\ \A p \in ToSet(d.offensive.paths) :
            p.technique \in TechniqueIds(d.offensive.techniques)
  /\ a = "defensive" =>
       /\ src["D3FEND"] = ToSet(d.defensive.mitigations)
       /\ src["CAR"] = ToSet(d.defensive.detections)
       /\ src["SHIELD"] = ToSet(d.defensive.deceptions)
       /\ src["ENGAGE"] = KeysOf(d.defensive.engagements)

\* The data of agent a is what the rows rs with the numbers done make.
Computed(a, d, rs, done, enriched) ==
  /\ a = "systems" => VulnerabilitiesComputed(d.systems, rs, done, enriched)
  /\ a = "offensive" => TechniquesComputed(d.offensive, rs, done)
  /\ a = "defensive" => CoverageComputed(d.defensive, rs, done)

\* The sources of agent a are what those rows name.
Traced(a, src, rs, done) ==
  \A s \in SourcesOf(a) : src[s] = UNION {SourcesIn(a, rs[n])[s] : n \in done}

(* Nothing matches nothing. *)
LEMMA UntouchedMatches ==
  ASSUME NEW a \in AgentNames, NEW d, NEW src, Untouched(a, d, src)
  PROVE  Matched(a, d, src)
<1>1. PICK none : none = << >> /\ ToSet(none) = {}
  BY DEF ToSet
<1>2. CvesOf(none) = {} /\ TechniqueIds(none) = {} /\ PatternsOf(none) = {} /\ KeysOf(none) = {}
  BY <1>1 DEF CvesOf, TechniqueIds, PatternsOf, KeysOf
<1>3. CASE a = "systems"
  <2>1. d.systems = none /\ src["NVD"] = {}
    BY <1>1, <1>3 DEF Untouched, SourcesOf
  <2> QED
    BY <1>2, <1>3, <2>1 DEF Matched
<1>4. CASE a = "offensive"
  <2>1. /\ d.offensive.techniques = none /\ d.offensive.paths = none
        /\ src["CAPEC"] = {} /\ src["ATTACK"] = {}
    BY <1>1, <1>4 DEF Untouched, SourcesOf, NoTechniques
  <2> QED
    BY <1>1, <1>2, <1>4, <2>1 DEF Matched
<1>5. CASE a = "defensive"
  <2>1. /\ d.defensive.mitigations = none /\ d.defensive.detections = none
        /\ d.defensive.deceptions = none /\ d.defensive.engagements = none
        /\ src["D3FEND"] = {} /\ src["CAR"] = {} /\ src["SHIELD"] = {} /\ src["ENGAGE"] = {}
    BY <1>1, <1>5 DEF Untouched, SourcesOf, NoCoverage
  <2> QED
    BY <1>1, <1>2, <1>5, <2>1 DEF Matched
<1> QED
  BY <1>3, <1>4, <1>5 DEF AgentNames

(* What another agent does changes neither. *)
LEMMA OthersKeep ==
  ASSUME NEW a \in AgentNames, NEW d, NEW src, NEW d2, NEW src2,
         d2[a] = d[a], \A s \in SourcesOf(a) : src2[s] = src[s]
  PROVE  /\ Untouched(a, d, src) => Untouched(a, d2, src2)
         /\ Matched(a, d, src) => Matched(a, d2, src2)
<1>1. CASE a = "systems"
  BY <1>1 DEF Untouched, Matched, SourcesOf
<1>2. CASE a = "offensive"
  BY <1>2 DEF Untouched, Matched, SourcesOf
<1>3. CASE a = "defensive"
  BY <1>3 DEF Untouched, Matched, SourcesOf
<1> QED
  BY <1>1, <1>2, <1>3 DEF AgentNames

(* No rows make no data. *)
LEMMA UntouchedIsComputed ==
  ASSUME NEW a \in AgentNames, NEW d, NEW src, Untouched(a, d, src), NEW rs, NEW enriched
  PROVE  Computed(a, d, rs, {}, enriched)
<1>1. PICK none : none = << >> /\ ToSet(none) = {}
  BY DEF ToSet
<1>2. CASE a = "systems"
  <2>1. d.systems = none
    BY <1>1, <1>2 DEF Untouched
  <2>2. VulnerabilitiesComputed(none, rs, {}, enriched)
    BY <1>1 DEF VulnerabilitiesComputed
  <2> QED
    BY <1>2, <2>1, <2>2 DEF Computed
<1>3. CASE a = "offensive"
  <2>1. d.offensive.techniques = none /\ d.offensive.paths = none
    BY <1>1, <1>3 DEF Untouched, NoTechniques
  <2>2. TechniquesComputed(d.offensive, rs, {})
    BY <1>1, <2>1 DEF TechniquesComputed
  <2> QED
    BY <1>3, <2>2 DEF Computed
<1>4. CASE a = "defensive"
  <2>1. /\ d.defensive.mitigations = none /\ d.defensive.detections = none
        /\ d.defensive.deceptions = none /\ d.defensive.engagements = none
    BY <1>1, <1>4 DEF Untouched, NoCoverage
  <2>2. CoverageComputed(d.defensive, rs, {})
    BY <1>1, <2>1 DEF CoverageComputed
  <2> QED
    BY <1>4, <2>2 DEF Computed
<1> QED
  BY <1>2, <1>3, <1>4 DEF AgentNames

(* When both loops have been over all rows, provenance and data match. *)
LEMMA LoopsAgree ==
  ASSUME NEW a \in AgentNames, NEW rs, NEW done, \A n \in done : rs[n] \in RowsOf(a),
         NEW d, NEW src, NEW enriched, Computed(a, d, rs, done, enriched), Traced(a, src, rs, done)
  PROVE  /\ Matched(a, d, src)
         /\ a = "offensive" => src["CAPEC"] \ PatternsOf(d.offensive.techniques)
                                 \subseteq {rs[n].ap : n \in {k \in done : rs[k].t = Anon}}
<1>1. CASE a = "systems"
  <2>1. src["NVD"] = UNION {VulnerabilitySources(rs[n])["NVD"] : n \in done}
    BY <1>1 DEF Traced, SourcesOf, SourcesIn
  <2>2. \A n \in done : VulnerabilitySources(rs[n])["NVD"] = {rs[n].cve} \ {Anon, None}
    BY DEF VulnerabilitySources
  <2>3. \A n \in done : rs[n].cve # None
    BY <1>1, IdsAssumption DEF RowsOf, VulnerabilityRows, NodeIds
  <2>4. src["NVD"] = {rs[n].cve : n \in done} \ {Anon}
    BY <2>1, <2>2, <2>3
  <2>5. CvesOf(d.systems) = {rs[n].cve : n \in done} \ {Anon}
    BY <1>1 DEF Computed, VulnerabilitiesComputed, CvesOf
  <2> QED
    BY <1>1, <2>4, <2>5 DEF Matched
<1>2. CASE a = "offensive"
  <2>1. /\ src["ATTACK"] = UNION {TechniqueSources(rs[n])["ATTACK"] : n \in done}
        /\ src["CAPEC"] = UNION {TechniqueSources(rs[n])["CAPEC"] : n \in done}
    BY <1>2 DEF Traced, SourcesOf, SourcesIn
  <2>2. \A n \in done : /\ TechniqueSources(rs[n])["ATTACK"] = {rs[n].t} \ {None, Anon}
                        /\ TechniqueSources(rs[n])["CAPEC"] = {rs[n].ap} \ {None, Anon}
    BY DEF TechniqueSources
  <2>3. \A n \in done : rs[n].t # None
    BY <1>2, IdsAssumption DEF RowsOf, TechniqueRows, NodeIds
  <2>4. PICK list : list = d.offensive.techniques
    OBVIOUS
  <2>5. TechniquesComputed(d.offensive, rs, done)
    BY <1>2 DEF Computed
  <2>6. /\ TechniqueIds(list) = {rs[n].t : n \in done} \ {Anon}
        /\ \A t \in ToSet(list) : TechniqueComputed(t, rs, {n \in done : rs[n].t = t.id})
    BY <2>4, <2>5 DEF TechniquesComputed, TechniqueIds
  <2>7. src["ATTACK"] = TechniqueIds(list)
    BY <2>1, <2>2, <2>3, <2>6
  <2>8. src["CAPEC"] = {rs[n].ap : n \in done} \ {None, Anon}
    <3>1. PICK S : S = src["CAPEC"]
      OBVIOUS
    <3>2. \A x : x \in S <=> \E n \in done : x \in TechniqueSources(rs[n])["CAPEC"]
      BY <2>1, <3>1
    <3>3. \A r, x : x \in TechniqueSources(r)["CAPEC"] <=> x = r.ap /\ x \notin {None, Anon}
      BY DEF TechniqueSources
    <3>4. S = {rs[n].ap : n \in done} \ {None, Anon}
      BY <3>2, <3>3
    <3> QED
      BY <3>1, <3>4
  <2>9. \A t \in ToSet(list) :
          ToSet(t.capec) = {rs[n].ap : n \in {k \in done : rs[k].t = t.id}} \ {None, Anon}
    BY <2>6 DEF TechniqueComputed
  <2>10. PatternsOf(list) \subseteq src["CAPEC"]
    BY <2>8, <2>9 DEF PatternsOf
  <2>11. ASSUME NEW x \in src["CAPEC"] \ PatternsOf(list)
         PROVE  x \in {rs[n].ap : n \in {k \in done : rs[k].t = Anon}}
    <3>1. PICK n \in done : x = rs[n].ap /\ x \notin {None, Anon}
      BY <2>8
    <3>2. CASE rs[n].t # Anon
      <4>1. rs[n].t \in TechniqueIds(list)
        BY <2>6, <3>2
      <4>2. PICK t \in ToSet(list) : t.id = rs[n].t
        BY <4>1 DEF TechniqueIds
      <4>3. x \in ToSet(t.capec)
        BY <2>9, <3>1, <4>2
      <4> QED
        BY <4>2, <4>3 DEF PatternsOf
    <3> QED
      BY <3>1, <3>2
  <2>12. \A p \in ToSet(d.offensive.paths) : p.technique \in TechniqueIds(list)
    BY <2>4, <2>5, PathsLead
  <2> QED
    BY <1>2, <2>4, <2>7, <2>10, <2>11, <2>12 DEF Matched
<1>3. CASE a = "defensive"
  <2>1. /\ src["D3FEND"] = UNION {CoverageSources(rs[n])["D3FEND"] : n \in done}
        /\ src["CAR"] = UNION {CoverageSources(rs[n])["CAR"] : n \in done}
        /\ src["SHIELD"] = UNION {CoverageSources(rs[n])["SHIELD"] : n \in done}
        /\ src["ENGAGE"] = UNION {CoverageSources(rs[n])["ENGAGE"] : n \in done}
    BY <1>3 DEF Traced, SourcesOf, SourcesIn
  <2>2. \A n \in done : /\ CoverageSources(rs[n])["D3FEND"] = IdsIn(rs[n].mitigations)
                        /\ CoverageSources(rs[n])["CAR"] = IdsIn(rs[n].detections)
                        /\ CoverageSources(rs[n])["SHIELD"] = IdsIn(rs[n].deceptions)
    BY DEF CoverageSources
  <2>3. CoverageComputed(d.defensive, rs, done)
    BY <1>3 DEF Computed
  <2>4. src["D3FEND"] = ToSet(d.defensive.mitigations)
    BY <2>1, <2>2, <2>3 DEF CoverageComputed
  <2>5. src["CAR"] = ToSet(d.defensive.detections)
    BY <2>1, <2>2, <2>3 DEF CoverageComputed
  <2>6. src["SHIELD"] = ToSet(d.defensive.deceptions)
    BY <2>1, <2>2, <2>3 DEF CoverageComputed
  <2>7. src["ENGAGE"] = KeysOf(d.defensive.engagements)
    BY <2>1, <2>3 DEF CoverageComputed, KeysOf
  <2> QED
    BY <1>3, <2>4, <2>5, <2>6, <2>7 DEF Matched
<1> QED
  BY <1>1, <1>2, <1>3 DEF AgentNames

----------------------------------------------------------------------------
(* The inductive invariant *)

Passes == {"query", "transform", "provenance", "respond", "render", "done"}

\* The sources of S that src has ids for.
CitedIn(src, S) == {s \in S : src[s] # {}}

\* The confidence that agent a reports when it cites src.
ScoreOf(a, src) ==
  IF a = "defensive" THEN CoverageScore(Cardinality(CitedIn(src, SourcesOf("defensive")))) ELSE 10

Shape ==
  /\ intent \in Intents \cup {"none"} /\ byPlatform \in BOOLEAN /\ pass \in Passes
  /\ Len(rows) \in Nat /\ row \in 1..Len(rows) + 1
  /\ data \in DataTypes /\ DOMAIN sources = Sources
  /\ scores \in Seq(Int) /\ Len(scores) \in 0..3
  /\ answer.kind \in {"none", "failed", "nothing", "answer"}

\* Between requests nothing is left of the last one.
Idle ==
  /\ pass = "done" /\ agent = 1 /\ rows = << >> /\ row = 1
  /\ data = NoData /\ sources = NoSources /\ scores = << >> /\ answer = NoAnswer

\* The agents before the one at work have answered, those after it have not begun.
Others ==
  /\ agent \in 1..Len(AgentsOf(intent))
  /\ \A k \in 1..(agent - 1) : Matched(AgentsOf(intent)[k], data, sources)
  /\ \A a \in AgentNames :
       (\A k \in 1..agent : AgentsOf(intent)[k] # a) => Untouched(a, data, sources)

\* The agent at work is as far as its loops are.
AtWork ==
  /\ pass = "query" => Untouched(Agent, data, sources)
  /\ pass \in {"transform", "provenance", "respond"} =>
       rows \in Seq(RowsOf(Agent)) /\ rows # << >>
  /\ pass = "transform" =>
       /\ Computed(Agent, data, rows, 1..(row - 1), byPlatform)
       /\ \A s \in SourcesOf(Agent) : sources[s] = {}
  /\ pass = "provenance" =>
       /\ Computed(Agent, data, rows, 1..Len(rows), byPlatform)
       /\ Traced(Agent, sources, rows, 1..(row - 1))
  /\ pass = "respond" =>
       /\ Computed(Agent, data, rows, 1..Len(rows), byPlatform)
       /\ Traced(Agent, sources, rows, 1..Len(rows))
  /\ pass \in {"render", "done"} => Matched(Agent, data, sources)

\* Each agent that has answered has cited something and has its confidence.
Scored ==
  /\ pass \in {"query", "transform", "provenance", "respond"} => Len(scores) = agent - 1
  /\ pass = "render" => agent = Len(AgentsOf(intent)) /\ Len(scores) = agent
  /\ pass # "done" =>
       \A k \in 1..Len(scores) :
         /\ scores[k] = ScoreOf(AgentsOf(intent)[k], sources)
         /\ CitedIn(sources, SourcesOf(AgentsOf(intent)[k])) # {}

AnswersInv ==
  /\ Shape
  /\ intent = "none" => Idle
  /\ intent # "none" => Others /\ AtWork /\ Scored
  /\ pass # "done" => answer = NoAnswer
  /\ ShownIsSourced

(* The agents of a request are different ones. *)
LEMMA AgentsOfIs ==
  ASSUME NEW i \in Intents
  PROVE  /\ Len(AgentsOf(i)) \in {1, 3}
         /\ \A k \in 1..Len(AgentsOf(i)) : AgentsOf(i)[k] \in AgentNames
         /\ \A j, k \in 1..Len(AgentsOf(i)) : AgentsOf(i)[j] = AgentsOf(i)[k] => j = k
<1>1. CASE i = "vuln_lookup"
  BY <1>1 DEF AgentsOf, AgentNames
<1>2. CASE i = "attack_path"
  BY <1>2 DEF AgentsOf, AgentNames
<1>3. CASE i = "coverage_map"
  BY <1>3 DEF AgentsOf, AgentNames
<1>4. CASE i = "mixed"
  BY <1>4 DEF AgentsOf, AgentNames
<1> QED
  BY <1>1, <1>2, <1>3, <1>4 DEF Intents

(* No source belongs to two agents. *)
LEMMA SourcesAreApart ==
  ASSUME NEW a \in AgentNames, NEW b \in AgentNames
  PROVE  /\ SourcesOf(a) \subseteq Sources
         /\ a # b => SourcesOf(a) \cap SourcesOf(b) = {}
<1>1. /\ SourcesOf("systems") = {"NVD"} /\ SourcesOf("offensive") = {"CAPEC", "ATTACK"}
      /\ SourcesOf("defensive") = {"D3FEND", "CAR", "SHIELD", "ENGAGE"}
  BY DEF SourcesOf
<1>2. SourcesOf(a) \subseteq Sources
  BY DEF Sources, AgentNames
<1>3. CASE a = "systems"
  BY <1>1, <1>2, <1>3 DEF AgentNames
<1>4. CASE a = "offensive"
  BY <1>1, <1>2, <1>4 DEF AgentNames
<1>5. CASE a = "defensive"
  BY <1>1, <1>2, <1>5 DEF AgentNames
<1> QED
  BY <1>3, <1>4, <1>5 DEF AgentNames

LEMMA NothingIsUntouched ==
  ASSUME NEW a \in AgentNames
  PROVE  Untouched(a, NoData, NoSources)
<1>1. \A s \in SourcesOf(a) : NoSources[s] = {}
  BY SourcesAreApart DEF NoSources
<1> QED
  BY <1>1 DEF Untouched, NoData

LEMMA NoDataIsData == NoData \in DataTypes
<1>1. PICK none : none = << >>
  OBVIOUS
<1>2. DOMAIN none = {}
  BY <1>1
<1>3. /\ none \in Seq(Vulnerabilities) /\ none \in Seq(Techniques) /\ none \in Seq(Paths)
      /\ none \in Seq(Ids) /\ none \in Seq(EngagementRows)
  BY <1>1
<1>4. none \in VulnerabilityLists /\ none \in TechniqueLists /\ none \in PathLists
      /\ none \in UniqueLists /\ none \in EngagementLists
  BY <1>2, <1>3 DEF VulnerabilityLists, TechniqueLists, PathLists, UniqueLists, EngagementLists,
                    Unique
<1>5. NoTechniques \in Attacks /\ NoCoverage \in Coverages
  BY <1>1, <1>4 DEF NoTechniques, NoCoverage, Attacks, Coverages
<1> QED
  BY <1>1, <1>4, <1>5 DEF NoData, DataTypes

LEMMA AnswersInit == Init => AnswersInv
<1> SUFFICES ASSUME Init PROVE AnswersInv
  OBVIOUS
<1>1. intent \in Intents \cup {"none"} /\ byPlatform \in BOOLEAN /\ pass \in Passes
  BY DEF Init, Passes
<1>2. Len(rows) \in Nat /\ row \in 1..Len(rows) + 1 /\ scores \in Seq(Int) /\ Len(scores) \in 0..3
  BY DEF Init
<1>3. data \in DataTypes /\ DOMAIN sources = Sources /\ answer.kind = "none"
  BY NoDataIsData DEF Init, NoSources, NoAnswer
<1>4. Shape
  BY <1>1, <1>2, <1>3 DEF Shape
<1>5. Idle
  BY DEF Init, Idle
<1>6. ShownIsSourced
  BY DEF Init, ShownIsSourced, NoAnswer
<1> QED
  BY <1>4, <1>5, <1>6 DEF Init, AnswersInv

----------------------------------------------------------------------------
(* A request starts, and its agents query the graph *)

LEMMA StartKeepsInv == AnswersInv /\ Start => AnswersInv'
<1> SUFFICES ASSUME AnswersInv, Start PROVE AnswersInv'
  OBVIOUS
<1>1. Shape /\ Idle /\ answer = NoAnswer
  BY DEF AnswersInv, Start, Idle
<1>2. /\ intent' \in Intents /\ byPlatform' \in BOOLEAN /\ pass' = "query" /\ agent' = 1
      /\ rows' = rows /\ row' = row /\ data' = NoData /\ sources' = NoSources /\ scores' = << >>
      /\ answer' = NoAnswer
  BY <1>1 DEF Start, Idle
<1>3. /\ intent' # "none" /\ Len(AgentsOf(intent')) \in {1, 3}
      /\ AgentsOf(intent')[1] \in AgentNames
  BY <1>2, AgentsOfIs DEF Intents
<1>4. Shape'
  BY <1>1, <1>2, NoDataIsData DEF Shape, Passes, NoSources, NoAnswer
<1>5. Others'
  BY <1>2, <1>3, NothingIsUntouched DEF Others
<1>6. Agent' = AgentsOf(intent')[1]
  BY <1>2 DEF Agent
<1>7. AtWork'
  BY <1>2, <1>3, <1>6, NothingIsUntouched DEF AtWork
<1>8. Scored'
  BY <1>2 DEF Scored
<1>9. ShownIsSourced'
  BY <1>2 DEF ShownIsSourced, NoAnswer
<1> QED
  BY <1>2, <1>3, <1>4, <1>5, <1>7, <1>8, <1>9 DEF AnswersInv

(* The agent at work is one of the three. *)
LEMMA AgentIsOne ==
  ASSUME AnswersInv, intent # "none"
  PROVE  /\ intent \in Intents /\ Others /\ AtWork /\ Scored /\ Shape
         /\ agent \in 1..Len(AgentsOf(intent)) /\ Len(AgentsOf(intent)) \in {1, 3}
         /\ Agent = AgentsOf(intent)[agent] /\ Agent \in AgentNames
         /\ \A k \in 1..Len(AgentsOf(intent)) :
              AgentsOf(intent)[k] \in AgentNames /\ (AgentsOf(intent)[k] = Agent => k = agent)
<1>1. intent \in Intents /\ Others /\ AtWork /\ Scored /\ Shape
  BY DEF AnswersInv, Shape
<1>2. agent \in 1..Len(AgentsOf(intent)) /\ Agent = AgentsOf(intent)[agent]
  BY <1>1 DEF Others, Agent
<1> QED
  BY <1>1, <1>2, AgentsOfIs

(* While an agent is at work, there is a request. *)
LEMMA WorkIsForARequest ==
  ASSUME AnswersInv, pass # "done"
  PROVE  intent # "none" /\ answer = NoAnswer
BY DEF AnswersInv, Idle

(* A query returns rows of its agent's kind. *)
LEMMA QueryReturns ==
  ASSUME Agent \in AgentNames
  PROVE  Results[TemplateOf(Agent)] \subseteq Seq(RowsOf(Agent))
<1>1. CASE Agent = "systems"
  BY <1>1, ResultsAssumption DEF TemplateOf, RowsOf
<1>2. CASE Agent = "offensive"
  BY <1>2, ResultsAssumption DEF TemplateOf, RowsOf
<1>3. CASE Agent = "defensive"
  BY <1>3, ResultsAssumption DEF TemplateOf, RowsOf
<1> QED
  BY <1>1, <1>2, <1>3 DEF AgentNames

LEMMA QueryKeepsInv == AnswersInv /\ Query => AnswersInv'
<1> SUFFICES ASSUME AnswersInv, Query PROVE AnswersInv'
  OBVIOUS
<1>1. pass = "query" /\ intent # "none" /\ answer = NoAnswer
  BY WorkIsForARequest DEF Query
<1>2. Others /\ AtWork /\ Scored /\ Shape /\ Agent \in AgentNames /\ intent \in Intents
  BY <1>1, AgentIsOne
<1>3. /\ rows' \in Seq(RowsOf(Agent)) /\ row' = 1
      /\ intent' = intent /\ byPlatform' = byPlatform /\ agent' = agent /\ data' = data
      /\ sources' = sources /\ scores' = scores
      /\ \/ rows' # << >> /\ pass' = "transform" /\ answer' = answer
         \/ pass' = "done" /\ answer'.kind \in {"failed", "nothing"}
  <2>1. rows' \in Results[TemplateOf(Agent)]
    BY DEF Query
  <2>2. Failed.kind = "failed" /\ Nothing.kind = "nothing"
    BY DEF Failed, Nothing, NoAnswer
  <2> QED
    BY <1>2, <2>1, <2>2, QueryReturns DEF Query
<1>4. Agent' = Agent
  BY <1>3 DEF Agent
<1>5. Untouched(Agent, data, sources) /\ Matched(Agent, data, sources)
  BY <1>1, <1>2, UntouchedMatches DEF AtWork
<1>6. Shape'
  <2>1. Len(rows') \in Nat /\ row' \in 1..Len(rows') + 1
    BY <1>3
  <2>2. pass' \in Passes /\ answer'.kind \in {"none", "failed", "nothing", "answer"}
    BY <1>1, <1>3 DEF Passes, NoAnswer
  <2> QED
    BY <1>2, <1>3, <2>1, <2>2 DEF Shape
<1>7. Others'
  BY <1>2, <1>3 DEF Others
<1>8. AtWork'
  <2>1. Computed(Agent, data, rows', {}, byPlatform)
    BY <1>2, <1>5, UntouchedIsComputed
  <2>2. 1..(row' - 1) = {} /\ \A s \in SourcesOf(Agent) : sources[s] = {}
    BY <1>3, <1>5 DEF Untouched
  <2> QED
    BY <1>3, <1>4, <1>5, <2>1, <2>2 DEF AtWork
<1>9. Scored'
  BY <1>1, <1>2, <1>3 DEF Scored
<1>10. ShownIsSourced'
  BY <1>1, <1>3 DEF ShownIsSourced, NoAnswer
<1>11. pass' # "done" => answer' = NoAnswer
  BY <1>1, <1>3
<1> QED
  BY <1>1, <1>3, <1>6, <1>7, <1>8, <1>9, <1>10, <1>11 DEF AnswersInv

----------------------------------------------------------------------------
(* The transformer's loop *)

\* What a row makes of the data of agent a.
Extended(a, d, r, enriched) ==
  CASE a = "systems"   -> AddVulnerability(d.systems, r, enriched)
    [] a = "offensive" -> AddTechnique(d.offensive, r)
    [] a = "defensive" -> AddCoverage(d.defensive, r)

Extends(d2, d, a, r, enriched) == d2 = [d EXCEPT ![a] = Extended(a, d, r, enriched)]

LEMMA LoopStep ==
  ASSUME NEW a \in AgentNames, NEW d \in DataTypes, NEW rs \in Seq(RowsOf(a)),
         NEW m \in Nat, m + 1 <= Len(rs), NEW enriched \in BOOLEAN,
         Computed(a, d, rs, 1..m, enriched),
         NEW d2, Extends(d2, d, a, rs[m + 1], enriched)
  PROVE  /\ d2 \in DataTypes /\ Computed(a, d2, rs, 1..(m + 1), enriched)
         /\ \A b \in AgentNames \ {a} : d2[b] = d[b]
<1>1. PICK new : new = Extended(a, d, rs[m + 1], enriched)
  OBVIOUS
<1>2. /\ d.systems \in VulnerabilityLists /\ d.offensive \in Attacks
      /\ d.defensive \in Coverages /\ DOMAIN d = AgentNames
  BY DEF DataTypes, AgentNames
<1>3. d2 = [d EXCEPT ![a] = new]
  BY <1>1 DEF Extends
<1>4. d2[a] = new /\ \A b \in AgentNames \ {a} : d2[b] = d[b]
  BY <1>2, <1>3
<1>5. CASE a = "systems"
  <2>1. new = AddVulnerability(d.systems, rs[m + 1], enriched)
    BY <1>1, <1>5 DEF Extended
  <2>2. rs \in Seq(VulnerabilityRows) /\ VulnerabilitiesComputed(d.systems, rs, 1..m, enriched)
    BY <1>5 DEF RowsOf, Computed
  <2>3. new \in VulnerabilityLists /\ VulnerabilitiesComputed(new, rs, 1..(m + 1), enriched)
    BY <1>2, <2>1, <2>2, VulnerabilitiesStep
  <2>4. d2 \in DataTypes
    BY <1>3, <1>5, <2>3 DEF DataTypes
  <2>5. Computed(a, d2, rs, 1..(m + 1), enriched)
    BY <1>4, <1>5, <2>3 DEF Computed
  <2> QED
    BY <1>4, <2>4, <2>5
<1>6. CASE a = "offensive"
  <2>1. new = AddTechnique(d.offensive, rs[m + 1])
    BY <1>1, <1>6 DEF Extended
  <2>2. rs \in Seq(TechniqueRows) /\ TechniquesComputed(d.offensive, rs, 1..m)
    BY <1>6 DEF RowsOf, Computed
  <2>3. new \in Attacks /\ TechniquesComputed(new, rs, 1..(m + 1))
    BY <1>2, <2>1, <2>2, TechniquesStep
  <2>4. d2 \in DataTypes
    BY <1>3, <1>6, <2>3 DEF DataTypes
  <2>5. Computed(a, d2, rs, 1..(m + 1), enriched)
    BY <1>4, <1>6, <2>3 DEF Computed
  <2> QED
    BY <1>4, <2>4, <2>5
<1>7. CASE a = "defensive"
  <2>1. new = AddCoverage(d.defensive, rs[m + 1])
    BY <1>1, <1>7 DEF Extended
  <2>2. rs \in Seq(CoverageRows) /\ CoverageComputed(d.defensive, rs, 1..m)
    BY <1>7 DEF RowsOf, Computed
  <2>3. new \in Coverages /\ CoverageComputed(new, rs, 1..(m + 1))
    BY <1>2, <2>1, <2>2, CoverageStep
  <2>4. d2 \in DataTypes
    BY <1>3, <1>7, <2>3 DEF DataTypes
  <2>5. Computed(a, d2, rs, 1..(m + 1), enriched)
    BY <1>4, <1>7, <2>3 DEF Computed
  <2> QED
    BY <1>4, <2>4, <2>5
<1> QED
  BY <1>5, <1>6, <1>7 DEF AgentNames

(* The agents that are not at work keep what they have. *)
LEMMA OthersKeepTheirs ==
  ASSUME AnswersInv, intent # "none", intent' = intent, agent' = agent,
         \A a \in AgentNames \ {Agent} :
            data'[a] = data[a] /\ \A s \in SourcesOf(a) : sources'[s] = sources[s]
  PROVE  Others'
<1>1. /\ Others /\ agent \in 1..Len(AgentsOf(intent)) /\ Agent = AgentsOf(intent)[agent]
      /\ \A k \in 1..Len(AgentsOf(intent)) :
           AgentsOf(intent)[k] \in AgentNames /\ (AgentsOf(intent)[k] = Agent => k = agent)
      /\ Len(AgentsOf(intent)) \in {1, 3}
  BY AgentIsOne
<1>2. ASSUME NEW a \in AgentNames, a # Agent
      PROVE  /\ Untouched(a, data, sources) => Untouched(a, data', sources')
             /\ Matched(a, data, sources) => Matched(a, data', sources')
  <2>1. data'[a] = data[a] /\ \A s \in SourcesOf(a) : sources'[s] = sources[s]
    BY <1>2
  <2> QED
    BY <1>2, <2>1, OthersKeep
<1>3. ASSUME NEW k \in 1..(agent - 1)
      PROVE  Matched(AgentsOf(intent)[k], data', sources')
  <2>1. k \in 1..Len(AgentsOf(intent)) /\ k # agent
    BY <1>1
  <2>2. AgentsOf(intent)[k] \in AgentNames /\ AgentsOf(intent)[k] # Agent
    BY <1>1, <2>1
  <2> QED
    BY <1>1, <1>2, <2>2 DEF Others
<1>4. ASSUME NEW a \in AgentNames, \A k \in 1..agent : AgentsOf(intent)[k] # a
      PROVE  Untouched(a, data', sources')
  BY <1>1, <1>2, <1>4 DEF Others
<1> QED
  BY <1>1, <1>3, <1>4 DEF Others

LEMMA TransformKeepsInv == AnswersInv /\ Transform => AnswersInv'
<1> SUFFICES ASSUME AnswersInv, Transform PROVE AnswersInv'
  OBVIOUS
<1>1. pass = "transform" /\ intent # "none" /\ answer = NoAnswer
  BY WorkIsForARequest DEF Transform
<1>2. Others /\ AtWork /\ Scored /\ Shape /\ Agent \in AgentNames /\ intent \in Intents
  BY <1>1, AgentIsOne
<1>3. /\ intent' = intent /\ byPlatform' = byPlatform /\ agent' = agent /\ rows' = rows
      /\ sources' = sources /\ scores' = scores /\ answer' = answer
  BY DEF Transform
<1>4. /\ Agent' = Agent /\ rows \in Seq(RowsOf(Agent)) /\ rows # << >>
      /\ byPlatform \in BOOLEAN /\ data \in DataTypes
      /\ Len(rows) \in Nat /\ row \in 1..Len(rows) + 1
      /\ Computed(Agent, data, rows, 1..(row - 1), byPlatform)
      /\ \A s \in SourcesOf(Agent) : sources[s] = {}
  BY <1>1, <1>2, <1>3 DEF Agent, AtWork, Shape
<1>5. CASE row <= Len(rows)
  <2>1. /\ pass' = pass /\ row' = row + 1
        /\ data' = [data EXCEPT ![Agent] = Extended(Agent, data, rows[row], byPlatform)]
    BY <1>2, <1>5 DEF Transform, Extended, AgentNames
  <2>2. PICK m \in Nat : m = row - 1 /\ row = m + 1 /\ m + 1 <= Len(rows)
    BY <1>4, <1>5
  <2>3. /\ data' \in DataTypes /\ Computed(Agent, data', rows, 1..(m + 1), byPlatform)
        /\ \A b \in AgentNames \ {Agent} : data'[b] = data[b]
    <3>1. /\ Computed(Agent, data, rows, 1..m, byPlatform)
          /\ data' = [data EXCEPT ![Agent] = Extended(Agent, data, rows[m + 1], byPlatform)]
      BY <1>4, <2>1, <2>2
    <3>2. PICK a, d, rs, e, d2 : /\ a = Agent /\ d = data /\ rs = rows
                                 /\ e = byPlatform /\ d2 = data'
      OBVIOUS
    <3>3. /\ a \in AgentNames /\ d \in DataTypes /\ rs \in Seq(RowsOf(a)) /\ e \in BOOLEAN
          /\ m \in Nat /\ m + 1 <= Len(rs) /\ Computed(a, d, rs, 1..m, e)
          /\ Extends(d2, d, a, rs[m + 1], e)
      BY <1>2, <1>4, <2>2, <3>1, <3>2 DEF Extends
    <3>4. /\ d2 \in DataTypes /\ Computed(a, d2, rs, 1..(m + 1), e)
          /\ \A b \in AgentNames \ {a} : d2[b] = d[b]
      BY <3>3, LoopStep
    <3> QED
      BY <3>2, <3>4
  <2>4. Shape'
    BY <1>2, <1>3, <1>4, <1>5, <2>1, <2>3 DEF Shape
  <2>5. Others'
    BY <1>1, <1>3, <2>3, OthersKeepTheirs
  <2>6. AtWork'
    BY <1>1, <1>3, <1>4, <2>1, <2>2, <2>3 DEF AtWork
  <2>7. Scored'
    BY <1>1, <1>2, <1>3, <2>1 DEF Scored
  <2>8. ShownIsSourced'
    BY <1>1, <1>3 DEF ShownIsSourced, NoAnswer
  <2> QED
    BY <1>1, <1>3, <2>1, <2>4, <2>5, <2>6, <2>7, <2>8 DEF AnswersInv
<1>6. CASE ~(row <= Len(rows))
  <2>1. pass' = "provenance" /\ row' = 1 /\ data' = data
    BY <1>6 DEF Transform
  <2>2. row = Len(rows) + 1 /\ row - 1 = Len(rows) /\ 1..(row' - 1) = {}
    BY <1>4, <1>6, <2>1
  <2>3. Shape'
    BY <1>2, <1>3, <1>4, <2>1 DEF Shape, Passes
  <2>4. Others'
    BY <1>2, <1>3, <2>1 DEF Others
  <2>5. Traced(Agent, sources, rows, {})
    BY <1>4 DEF Traced
  <2>6. AtWork'
    BY <1>3, <1>4, <2>1, <2>2, <2>5 DEF AtWork
  <2>7. Scored'
    BY <1>1, <1>2, <1>3, <2>1 DEF Scored
  <2>8. ShownIsSourced'
    BY <1>1, <1>3 DEF ShownIsSourced, NoAnswer
  <2> QED
    BY <1>1, <1>3, <2>1, <2>3, <2>4, <2>6, <2>7, <2>8 DEF AnswersInv
<1> QED
  BY <1>5, <1>6

----------------------------------------------------------------------------
(* The loop of the provenance *)

LEMMA ScoresKeep ==
  ASSUME NEW a \in AgentNames, NEW src, NEW src2, \A s \in SourcesOf(a) : src2[s] = src[s]
  PROVE  /\ CitedIn(src2, SourcesOf(a)) = CitedIn(src, SourcesOf(a))
         /\ ScoreOf(a, src2) = ScoreOf(a, src)
<1>1. CitedIn(src2, SourcesOf(a)) = CitedIn(src, SourcesOf(a))
  BY DEF CitedIn
<1> QED
  BY <1>1 DEF ScoreOf

LEMMA TraceKeepsInv == AnswersInv /\ Trace => AnswersInv'
<1> SUFFICES ASSUME AnswersInv, Trace PROVE AnswersInv'
  OBVIOUS
<1>1. pass = "provenance" /\ intent # "none" /\ answer = NoAnswer
  BY WorkIsForARequest DEF Trace
<1>2. /\ Others /\ AtWork /\ Scored /\ Shape /\ Agent \in AgentNames /\ intent \in Intents
      /\ agent \in 1..Len(AgentsOf(intent)) /\ Len(AgentsOf(intent)) \in {1, 3}
      /\ \A k \in 1..Len(AgentsOf(intent)) :
           AgentsOf(intent)[k] \in AgentNames /\ (AgentsOf(intent)[k] = Agent => k = agent)
  BY <1>1, AgentIsOne
<1>3. /\ intent' = intent /\ byPlatform' = byPlatform /\ agent' = agent /\ rows' = rows
      /\ data' = data /\ scores' = scores /\ answer' = answer
  BY DEF Trace
<1>4. /\ Agent' = Agent /\ rows \in Seq(RowsOf(Agent)) /\ rows # << >>
      /\ Len(rows) \in Nat /\ row \in 1..Len(rows) + 1
      /\ Computed(Agent, data, rows, 1..Len(rows), byPlatform)
      /\ Traced(Agent, sources, rows, 1..(row - 1))
  BY <1>1, <1>2, <1>3 DEF Agent, AtWork, Shape
<1>5. CASE row <= Len(rows)
  <2>1. /\ pass' = pass /\ row' = row + 1
        /\ sources' = [s \in Sources |->
                         IF s \in SourcesOf(Agent)
                         THEN sources[s] \cup SourcesIn(Agent, rows[row])[s] ELSE sources[s]]
    BY <1>5 DEF Trace
  <2>2. \A s \in SourcesOf(Agent) : sources'[s] = sources[s] \cup SourcesIn(Agent, rows[row])[s]
    BY <1>2, <2>1, SourcesAreApart
  <2>3. ASSUME NEW a \in AgentNames \ {Agent}, NEW s \in SourcesOf(a)
        PROVE  sources'[s] = sources[s]
    <3>1. s \in Sources /\ s \notin SourcesOf(Agent)
      BY <1>2, SourcesAreApart
    <3> QED
      BY <2>1, <3>1
  <2>4. Traced(Agent, sources', rows, 1..(row' - 1))
    <3>1. 1..(row' - 1) = 1..(row - 1) \cup {row}
      BY <1>4, <2>1
    <3>2. ASSUME NEW s \in SourcesOf(Agent)
          PROVE  sources'[s] = UNION {SourcesIn(Agent, rows[n])[s] : n \in 1..(row' - 1)}
      <4>1. sources[s] = UNION {SourcesIn(Agent, rows[n])[s] : n \in 1..(row - 1)}
        BY <1>4 DEF Traced
      <4>2. sources'[s] = sources[s] \cup SourcesIn(Agent, rows[row])[s]
        BY <2>2
      <4> QED
        BY <3>1, <4>1, <4>2
    <3> QED
      BY <3>2 DEF Traced
  <2>5. Shape'
    BY <1>2, <1>3, <1>4, <1>5, <2>1 DEF Shape
  <2>6. Others'
    BY <1>1, <1>3, <2>3, OthersKeepTheirs
  <2>7. AtWork'
    BY <1>1, <1>3, <1>4, <2>1, <2>4 DEF AtWork
  <2>8. Scored'
    <3>1. /\ Len(scores) = agent - 1
          /\ \A k \in 1..Len(scores) :
               /\ scores[k] = ScoreOf(AgentsOf(intent)[k], sources)
               /\ CitedIn(sources, SourcesOf(AgentsOf(intent)[k])) # {}
      BY <1>1, <1>2 DEF Scored
    <3>2. ASSUME NEW k \in 1..Len(scores)
          PROVE  /\ scores[k] = ScoreOf(AgentsOf(intent)[k], sources')
                 /\ CitedIn(sources', SourcesOf(AgentsOf(intent)[k])) # {}
      <4>1. AgentsOf(intent)[k] \in AgentNames \ {Agent}
        BY <1>2, <3>1
      <4>2. \A s \in SourcesOf(AgentsOf(intent)[k]) : sources'[s] = sources[s]
        BY <2>3, <4>1
      <4> QED
        BY <3>1, <4>1, <4>2, ScoresKeep
    <3> QED
      BY <1>1, <1>3, <2>1, <3>1, <3>2 DEF Scored
  <2>9. ShownIsSourced'
    BY <1>1, <1>3 DEF ShownIsSourced, NoAnswer
  <2> QED
    BY <1>1, <1>3, <2>1, <2>5, <2>6, <2>7, <2>8, <2>9 DEF AnswersInv
<1>6. CASE ~(row <= Len(rows))
  <2>1. pass' = "respond" /\ row' = row /\ sources' = sources
    BY <1>6 DEF Trace
  <2>2. row - 1 = Len(rows)
    BY <1>4, <1>6
  <2>3. Shape'
    BY <1>2, <1>3, <1>4, <2>1 DEF Shape, Passes
  <2>4. Others'
    BY <1>2, <1>3, <2>1 DEF Others
  <2>5. AtWork'
    BY <1>3, <1>4, <2>1, <2>2 DEF AtWork
  <2>6. Scored'
    BY <1>1, <1>2, <1>3, <2>1 DEF Scored
  <2>7. ShownIsSourced'
    BY <1>1, <1>3 DEF ShownIsSourced, NoAnswer
  <2> QED
    BY <1>1, <1>3, <2>1, <2>3, <2>4, <2>5, <2>6, <2>7 DEF AnswersInv
<1> QED
  BY <1>5, <1>6

----------------------------------------------------------------------------
(* The confidence *)

\* The frameworks that src has nothing of.
Missing(src) == SourcesOf("defensive") \ CitedIn(src, SourcesOf("defensive"))

(* The defensive agent loses a tenth for each of them. *)
LEMMA ScoreIsWithoutMissing ==
  ASSUME NEW src
  PROVE  /\ Cardinality(Missing(src)) \in 0..4
         /\ ScoreOf("defensive", src) = 10 - Cardinality(Missing(src))
         /\ CitedIn(src, SourcesOf("defensive")) # {} => Cardinality(Missing(src)) <= 3
<1>1. PICK F, C : F = SourcesOf("defensive") /\ C = CitedIn(src, F)
  OBVIOUS
<1>2. IsFiniteSet(F) /\ Cardinality(F) = 4
  <2>1. F = {"D3FEND", "CAR", "SHIELD", "ENGAGE"}
    BY <1>1 DEF SourcesOf
  <2>2. IsFiniteSet({}) /\ Cardinality({}) = 0
    BY FS_EmptySet
  <2>3. IsFiniteSet({"D3FEND"}) /\ Cardinality({"D3FEND"}) = 1
    BY <2>2, FS_AddElement
  <2>4. /\ {"D3FEND"} \cup {"CAR"} = {"D3FEND", "CAR"} /\ "CAR" \notin {"D3FEND"}
        /\ {"D3FEND", "CAR"} \cup {"SHIELD"} = {"D3FEND", "CAR", "SHIELD"}
        /\ "SHIELD" \notin {"D3FEND", "CAR"}
        /\ {"D3FEND", "CAR", "SHIELD"} \cup {"ENGAGE"} = F
        /\ "ENGAGE" \notin {"D3FEND", "CAR", "SHIELD"}
    BY <2>1
  <2>5. IsFiniteSet({"D3FEND", "CAR"}) /\ Cardinality({"D3FEND", "CAR"}) = 2
    BY <2>3, <2>4, FS_AddElement
  <2>6. IsFiniteSet({"D3FEND", "CAR", "SHIELD"}) /\ Cardinality({"D3FEND", "CAR", "SHIELD"}) = 3
    BY <2>4, <2>5, FS_AddElement
  <2> QED
    BY <2>4, <2>6, FS_AddElement
<1>3. C \subseteq F /\ F \cap C = C
  BY <1>1 DEF CitedIn
<1>4. IsFiniteSet(C) /\ Cardinality(C) \in Nat /\ Cardinality(C) <= 4
  BY <1>2, <1>3, FS_Subset, FS_CardinalityType
<1>5. Cardinality(F \ C) = 4 - Cardinality(C)
  <2>1. Cardinality(F \ C) = Cardinality(F) - Cardinality(F \cap C)
    BY <1>2, FS_Difference
  <2> QED
    BY <1>2, <1>3, <2>1
<1>6. C # {} => Cardinality(C) # 0
  BY <1>4, FS_EmptySet
<1>7. Missing(src) = F \ C /\ ScoreOf("defensive", src) = 10 - (4 - Cardinality(C))
  BY <1>1 DEF Missing, ScoreOf, CoverageScore
<1> QED
  BY <1>1, <1>4, <1>5, <1>6, <1>7

LEMMA ScoreIsInt ==
  ASSUME NEW a \in AgentNames, NEW src
  PROVE  ScoreOf(a, src) \in Int
<1>1. CASE a = "defensive"
  BY <1>1, ScoreIsWithoutMissing
<1>2. CASE a # "defensive"
  BY <1>2 DEF ScoreOf
<1> QED
  BY <1>1, <1>2

(* When its loops are done, what an agent cites is what its data holds. *)
LEMMA RespondingMatches ==
  ASSUME AnswersInv, pass = "respond"
  PROVE  /\ Matched(Agent, data, sources)
         /\ Agent = "offensive" =>
              sources["CAPEC"] \ PatternsOf(data.offensive.techniques) \subseteq
                {rows[n].ap : n \in {k \in DOMAIN rows : rows[k].t = Anon}}
<1>1. /\ Agent \in AgentNames /\ rows \in Seq(RowsOf(Agent))
      /\ Computed(Agent, data, rows, 1..Len(rows), byPlatform)
      /\ Traced(Agent, sources, rows, 1..Len(rows))
  BY WorkIsForARequest, AgentIsOne DEF AtWork
<1>2. PICK a, rs, d, src, e, done :
        /\ a = Agent /\ rs = rows /\ d = data /\ src = sources /\ e = byPlatform
        /\ done = 1..Len(rows)
  OBVIOUS
<1>3. /\ a \in AgentNames /\ \A n \in done : rs[n] \in RowsOf(a)
      /\ Computed(a, d, rs, done, e) /\ Traced(a, src, rs, done)
  BY <1>1, <1>2
<1>4. /\ Matched(a, d, src)
      /\ a = "offensive" => src["CAPEC"] \ PatternsOf(d.offensive.techniques)
                              \subseteq {rs[n].ap : n \in {k \in done : rs[k].t = Anon}}
  BY <1>3, LoopsAgree
<1>5. DOMAIN rows = done
  BY <1>1, <1>2
<1> QED
  BY <1>2, <1>4, <1>5

LEMMA RespondKeepsInv == AnswersInv /\ Respond => AnswersInv'
<1> SUFFICES ASSUME AnswersInv, Respond PROVE AnswersInv'
  OBVIOUS
<1>1. pass = "respond" /\ intent # "none" /\ answer = NoAnswer
  BY WorkIsForARequest DEF Respond
<1>2. /\ Others /\ AtWork /\ Scored /\ Shape /\ Agent \in AgentNames /\ intent \in Intents
      /\ agent \in 1..Len(AgentsOf(intent)) /\ Len(AgentsOf(intent)) \in {1, 3}
      /\ Agent = AgentsOf(intent)[agent]
      /\ \A k \in 1..Len(AgentsOf(intent)) :
           AgentsOf(intent)[k] \in AgentNames /\ (AgentsOf(intent)[k] = Agent => k = agent)
      /\ \A j, k \in 1..Len(AgentsOf(intent)) : AgentsOf(intent)[j] = AgentsOf(intent)[k] => j = k
  BY <1>1, AgentIsOne, AgentsOfIs
<1>3. /\ intent' = intent /\ byPlatform' = byPlatform /\ rows' = rows /\ row' = row
      /\ data' = data /\ sources' = sources
  BY DEF Respond
<1>4. Matched(Agent, data, sources)
  BY <1>1, RespondingMatches
<1>5. /\ rows \in Seq(RowsOf(Agent)) /\ rows # << >> /\ Len(scores) = agent - 1
      /\ scores \in Seq(Int)
      /\ \A k \in 1..Len(scores) :
           /\ scores[k] = ScoreOf(AgentsOf(intent)[k], sources)
           /\ CitedIn(sources, SourcesOf(AgentsOf(intent)[k])) # {}
  BY <1>1, <1>2 DEF AtWork, Scored, Shape
<1>6. Cited(SourcesOf(Agent)) = CitedIn(sources, SourcesOf(Agent))
  BY DEF Cited, CitedIn
<1>7. CASE Cited(SourcesOf(Agent)) = {}
  <2>1. answer' = Failed /\ pass' = "done" /\ agent' = agent /\ scores' = scores
    BY <1>7 DEF Respond
  <2>2. answer'.kind = "failed"
    BY <2>1 DEF Failed, NoAnswer
  <2>3. Shape'
    BY <1>2, <1>3, <2>1, <2>2 DEF Shape, Passes
  <2>4. Others'
    BY <1>2, <1>3, <2>1 DEF Others
  <2>5. Agent' = Agent
    BY <1>3, <2>1 DEF Agent
  <2>6. AtWork'
    BY <1>3, <1>4, <2>1, <2>5 DEF AtWork
  <2>7. Scored'
    BY <2>1 DEF Scored
  <2>8. ShownIsSourced'
    BY <2>2 DEF ShownIsSourced
  <2> QED
    BY <1>1, <1>3, <2>1, <2>3, <2>4, <2>6, <2>7, <2>8 DEF AnswersInv
<1>8. CASE Cited(SourcesOf(Agent)) # {}
  <2>1. /\ scores' = Append(scores, Confidence) /\ answer' = answer
        /\ \/ agent < Len(AgentsOf(intent)) /\ agent' = agent + 1 /\ pass' = "query"
           \/ agent = Len(AgentsOf(intent)) /\ agent' = agent /\ pass' = "render"
    BY <1>2, <1>8 DEF Respond
  <2>2. Confidence = ScoreOf(Agent, sources)
    <3>1. CASE Agent = "defensive"
      BY <1>6, <3>1 DEF Confidence, ScoreOf
    <3>2. CASE Agent # "defensive"
      <4>1. Len(rows) # 0
        BY <1>5
      <4>2. Score(Len(rows), 3, 3, FALSE) = 10
        BY <4>1 DEF Score
      <4> QED
        BY <3>2, <4>2 DEF Confidence, ScoreOf
    <3> QED
      BY <3>1, <3>2
  <2>3. /\ scores' \in Seq(Int) /\ Len(scores') = agent
        /\ \A k \in 1..agent :
             scores'[k] = IF k = agent THEN Confidence ELSE scores[k]
    <3>1. Confidence \in Int
      BY <1>2, <2>2, ScoreIsInt
    <3> QED
      BY <1>2, <1>5, <2>1, <3>1
  <2>4. ASSUME NEW k \in 1..agent
        PROVE  /\ scores'[k] = ScoreOf(AgentsOf(intent)[k], sources)
               /\ CitedIn(sources, SourcesOf(AgentsOf(intent)[k])) # {}
    <3>1. CASE k = agent
      BY <1>2, <1>6, <1>8, <2>2, <2>3, <3>1
    <3>2. CASE k # agent
      <4>1. k \in 1..Len(scores)
        BY <1>2, <1>5, <3>2
      <4> QED
        BY <1>5, <2>3, <3>2, <4>1
    <3> QED
      BY <3>1, <3>2
  <2>5. Shape'
    BY <1>1, <1>2, <1>3, <2>1, <2>3 DEF Shape, Passes
  <2>6. \A k \in 1..agent : Matched(AgentsOf(intent)[k], data, sources)
    BY <1>2, <1>4 DEF Others
  <2>7. Scored'
    BY <1>2, <1>3, <2>1, <2>3, <2>4 DEF Scored
  <2>8. ShownIsSourced'
    BY <1>1, <2>1 DEF ShownIsSourced, NoAnswer
  <2>9. CASE agent < Len(AgentsOf(intent)) /\ agent' = agent + 1 /\ pass' = "query"
    <3>1. Others'
      <4>1. agent' \in 1..Len(AgentsOf(intent)) /\ agent' - 1 = agent
        BY <1>2, <2>9
      <4>2. ASSUME NEW a \in AgentNames, \A k \in 1..agent' : AgentsOf(intent)[k] # a
            PROVE  Untouched(a, data, sources)
        <5>1. \A k \in 1..agent : AgentsOf(intent)[k] # a
          BY <1>2, <2>9, <4>2
        <5> QED
          BY <1>2, <4>2, <5>1 DEF Others
      <4> QED
        BY <1>3, <2>6, <4>1, <4>2 DEF Others
    <3>2. Agent' = AgentsOf(intent)[agent + 1]
      BY <1>3, <2>9 DEF Agent
    <3>3. AgentsOf(intent)[agent + 1] \in AgentNames
          /\ \A k \in 1..agent : AgentsOf(intent)[k] # AgentsOf(intent)[agent + 1]
      BY <1>2, <2>9
    <3>4. Untouched(AgentsOf(intent)[agent + 1], data, sources)
      BY <1>2, <3>3 DEF Others
    <3>5. AtWork'
      BY <1>3, <2>9, <3>2, <3>4 DEF AtWork
    <3> QED
      BY <1>1, <1>3, <2>1, <2>5, <2>7, <2>8, <2>9, <3>1, <3>5 DEF AnswersInv
  <2>10. CASE agent = Len(AgentsOf(intent)) /\ agent' = agent /\ pass' = "render"
    <3>1. Others'
      BY <1>2, <1>3, <2>10 DEF Others
    <3>2. Agent' = Agent
      BY <1>3, <2>10 DEF Agent
    <3>3. AtWork'
      BY <1>3, <1>4, <2>10, <3>2 DEF AtWork
    <3> QED
      BY <1>1, <1>3, <2>1, <2>5, <2>7, <2>8, <2>10, <3>1, <3>3 DEF AnswersInv
  <2> QED
    BY <2>1, <2>9, <2>10
<1> QED
  BY <1>7, <1>8

(* The next request starts from nothing. *)
LEMMA FinishKeepsInv == AnswersInv /\ Finish => AnswersInv'
<1> SUFFICES ASSUME AnswersInv, Finish PROVE AnswersInv'
  OBVIOUS
<1>1. /\ intent' = "none" /\ byPlatform' = FALSE /\ agent' = 1 /\ rows' = << >> /\ row' = 1
      /\ data' = NoData /\ sources' = NoSources /\ scores' = << >> /\ answer' = NoAnswer
      /\ pass' = "done"
  BY DEF Finish
<1>2. DOMAIN NoSources = Sources /\ NoAnswer.kind = "none"
  BY DEF NoSources, NoAnswer
<1>3. /\ Len(rows') \in Nat /\ row' \in 1..Len(rows') + 1
      /\ scores' \in Seq(Int) /\ Len(scores') \in 0..3
  BY <1>1
<1>4. Shape'
  BY <1>1, <1>2, <1>3, NoDataIsData DEF Shape, Passes
<1>5. Idle'
  BY <1>1 DEF Idle
<1>6. ShownIsSourced'
  BY <1>1, <1>2 DEF ShownIsSourced
<1> QED
  BY <1>1, <1>4, <1>5, <1>6 DEF AnswersInv

LEMMA StutterKeepsInv == AnswersInv /\ UNCHANGED vars => AnswersInv'
BY DEF AnswersInv, vars, Shape, Idle, Others, AtWork, Scored, Agent, ShownIsSourced, Shown, CitedIds

----------------------------------------------------------------------------
(* What is rendered *)

\* The recursive function Total takes its last value of.
RunningTotal(sum, list) ==
  sum = [n \in 0..Len(list) |-> IF n = 0 THEN 0 ELSE sum[n - 1] + list[n]]

(* The sum of one score, or of three. *)
LEMMA TotalIs ==
  ASSUME scores \in Seq(Int)
  PROVE  /\ Len(scores) = 1 => Total = scores[1]
         /\ Len(scores) = 3 => Total = scores[1] + scores[2] + scores[3]
<1>1. Total = (CHOOSE sum : RunningTotal(sum, scores))[Len(scores)]
  BY DEF Total, RunningTotal
<1>2. PICK sum : sum = CHOOSE f : RunningTotal(f, scores)
  OBVIOUS
<1>3. CASE Len(scores) = 1
  <2>1. PICK one : one = [n \in 0..1 |-> IF n = 0 THEN 0 ELSE scores[1]]
    OBVIOUS
  <2>2. RunningTotal(one, scores)
    <3>1. scores[1] \in Int /\ one[0] = 0 /\ one[1] = scores[1]
      <4>1. scores[1] \in Int
        BY <1>3
      <4> QED
        BY <2>1, <4>1
    <3>2. \A n \in 0..1 : one[n] = IF n = 0 THEN 0 ELSE one[n - 1] + scores[n]
      BY <3>1
    <3> QED
      BY <1>3, <2>1, <3>2 DEF RunningTotal
  <2>3. RunningTotal(sum, scores)
    BY <1>2, <2>2
  <2>4. sum = [n \in 0..1 |-> IF n = 0 THEN 0 ELSE sum[n - 1] + scores[n]]
    BY <1>3, <2>3 DEF RunningTotal
  <2>5. sum[0] = 0 /\ sum[1] = sum[0] + scores[1]
    BY <2>4
  <2>6. sum[1] = scores[1]
    <3>1. scores[1] \in Int
      BY <1>3
    <3> QED
      BY <2>5, <3>1
  <2> QED
    BY <1>1, <1>2, <1>3, <2>6
<1>4. CASE Len(scores) = 3
  <2>1. PICK three : three = [n \in 0..3 |->
                            IF n = 0 THEN 0 ELSE IF n = 1 THEN scores[1]
                            ELSE IF n = 2 THEN scores[1] + scores[2]
                            ELSE scores[1] + scores[2] + scores[3]]
    OBVIOUS
  <2>2. scores[1] \in Int /\ scores[2] \in Int /\ scores[3] \in Int
    BY <1>4
  <2>3. RunningTotal(three, scores)
    <3>1. /\ three[0] = 0 /\ three[1] = scores[1] /\ three[2] = scores[1] + scores[2]
          /\ three[3] = scores[1] + scores[2] + scores[3]
      BY <2>1
    <3>2. \A n \in 0..3 : three[n] = IF n = 0 THEN 0 ELSE three[n - 1] + scores[n]
      BY <2>2, <3>1
    <3> QED
      BY <1>4, <2>1, <3>2 DEF RunningTotal
  <2>4. RunningTotal(sum, scores)
    BY <1>2, <2>3
  <2>5. sum = [n \in 0..3 |-> IF n = 0 THEN 0 ELSE sum[n - 1] + scores[n]]
    BY <1>4, <2>4 DEF RunningTotal
  <2>6. /\ sum[0] = 0 /\ sum[1] = sum[0] + scores[1] /\ sum[2] = sum[1] + scores[2]
        /\ sum[3] = sum[2] + scores[3]
    BY <2>5
  <2>7. sum[3] = scores[1] + scores[2] + scores[3]
    BY <2>2, <2>6
  <2> QED
    BY <1>1, <1>2, <1>4, <2>7
<1> QED
  BY <1>3, <1>4

\* The values that items show in a section.
In(items, section) == {item[2] : item \in {i \in items : i[1] = section}}

\* How an engagement is shown.
EngagementName(e) == IF Named(e.activity) THEN e.activity ELSE Unknown

\* Everything there is to show.
AllItems(d) ==
  (VulnerabilityItems(d.systems) \cup AttackItems(d.offensive)) \cup CoverageItems(d.defensive)

\* S are the items of a section, one for each of the values of f.
PairsOf(S, section, D, f) == S = {<<section, f[n]>> : n \in D}

LEMMA PairsAre ==
  ASSUME NEW section, NEW D, NEW f, NEW S, PairsOf(S, section, D, f)
  PROVE  /\ \A i \in S : i[1] = section /\ \E n \in D : i[2] = f[n]
         /\ \A n \in D : \E i \in S : i[2] = f[n]
<1>1. \A y : <<section, y>>[1] = section /\ <<section, y>>[2] = y
  OBVIOUS
<1>2. ASSUME NEW i \in S
      PROVE  i[1] = section /\ \E n \in D : i[2] = f[n]
  <2>1. PICK n \in D : i = <<section, f[n]>>
    BY <1>2 DEF PairsOf
  <2> QED
    BY <1>1, <2>1
<1>3. ASSUME NEW n \in D
      PROVE  \E i \in S : i[2] = f[n]
  <2>1. PICK i : i = <<section, f[n]>>
    OBVIOUS
  <2>2. i \in S /\ i[2] = f[n]
    BY <1>1, <2>1 DEF PairsOf
  <2> QED
    BY <2>2
<1> QED
  BY <1>2, <1>3

(* Each section shows what its list of the data holds. *)
LEMMA SectionsShow ==
  ASSUME NEW d \in DataTypes
  PROVE  /\ In(AllItems(d), "vulnerability") = CvesOf(d.systems)
         /\ In(AllItems(d), "technique") = TechniqueIds(d.offensive.techniques)
         /\ In(AllItems(d), "mitigation") = ToSet(d.defensive.mitigations)
         /\ In(AllItems(d), "detection") = ToSet(d.defensive.detections)
         /\ In(AllItems(d), "deception") = ToSet(d.defensive.deceptions)
         /\ In(AllItems(d), "engagement")
              = {EngagementName(e) : e \in ToSet(d.defensive.engagements)}
         /\ \A i \in AllItems(d) : i[1] = "link" =>
              \E p \in ToSet(d.offensive.paths) : i[4] = p.technique
<1>1. PICK v, t, p, m, c, x, e :
        /\ v = d.systems /\ t = d.offensive.techniques /\ p = d.offensive.paths
        /\ m = d.defensive.mitigations /\ c = d.defensive.detections
        /\ x = d.defensive.deceptions /\ e = d.defensive.engagements
  OBVIOUS
<1>2. PICK V, T, L, M, C, X, E :
        /\ V = VulnerabilityItems(d.systems) /\ T = TechniqueItems(d.offensive)
        /\ L = LinkItems(d.offensive)
        /\ M = ToItems("mitigation", m) /\ C = ToItems("detection", c)
        /\ X = ToItems("deception", x) /\ E = EngagementItems(e)
  OBVIOUS
<1>3. \A i : i \in AllItems(d) <=>
                i \in V \/ i \in T \/ i \in L \/ i \in M \/ i \in C \/ i \in X \/ i \in E
  BY <1>1, <1>2 DEF AllItems, AttackItems, CoverageItems
<1>4. /\ \A i \in V : i[1] = "vulnerability" /\ \E n \in DOMAIN v : i[2] = v[n].cve
      /\ \A n \in DOMAIN v : \E i \in V : i[2] = v[n].cve
  <2>1. V = {<<"vulnerability", v[n].cve, IF v[n].scores = << >> THEN None ELSE v[n].scores[1],
               IdOf(v[n].weakness)>> : n \in DOMAIN v}
    BY <1>1, <1>2 DEF VulnerabilityItems
  <2>2. \A w, y, z : LET i == <<"vulnerability", w, y, z>> IN i[1] = "vulnerability" /\ i[2] = w
    OBVIOUS
  <2>3. ASSUME NEW i \in V
        PROVE  i[1] = "vulnerability" /\ \E n \in DOMAIN v : i[2] = v[n].cve
    BY <2>1, <2>2
  <2>4. ASSUME NEW n \in DOMAIN v
        PROVE  \E i \in V : i[2] = v[n].cve
    <3>1. PICK y, z : /\ y = IF v[n].scores = << >> THEN None ELSE v[n].scores[1]
                      /\ z = IdOf(v[n].weakness)
      OBVIOUS
    <3>2. PICK i : i = <<"vulnerability", v[n].cve, y, z>>
      OBVIOUS
    <3>3. i \in V /\ i[2] = v[n].cve
      BY <2>1, <2>2, <3>1, <3>2
    <3> QED
      BY <3>3
  <2> QED
    BY <2>3, <2>4
<1>5. /\ \A i \in T : i[1] = "technique" /\ \E n \in DOMAIN t : i[2] = t[n].id
      /\ \A n \in DOMAIN t : \E i \in T : i[2] = t[n].id
  <2>1. PICK f : f = [n \in DOMAIN t |-> t[n].id]
    OBVIOUS
  <2>2. PairsOf(T, "technique", DOMAIN t, f) /\ \A n \in DOMAIN t : f[n] = t[n].id
    BY <1>1, <1>2, <2>1 DEF TechniqueItems, PairsOf
  <2> QED
    BY <2>2, PairsAre
<1>6. \A i \in L : i[1] = "link" /\ \E n \in DOMAIN p : i[4] = p[n].technique
  BY <1>1, <1>2 DEF LinkItems
<1>7. /\ \A i \in M : i[1] = "mitigation" /\ \E n \in DOMAIN m : i[2] = m[n]
      /\ \A n \in DOMAIN m : \E i \in M : i[2] = m[n]
  <2>1. PairsOf(M, "mitigation", DOMAIN m, m)
    BY <1>2 DEF ToItems, PairsOf
  <2> QED
    BY <2>1, PairsAre
<1>8. /\ \A i \in C : i[1] = "detection" /\ \E n \in DOMAIN c : i[2] = c[n]
      /\ \A n \in DOMAIN c : \E i \in C : i[2] = c[n]
  <2>1. PairsOf(C, "detection", DOMAIN c, c)
    BY <1>2 DEF ToItems, PairsOf
  <2> QED
    BY <2>1, PairsAre
<1>9. /\ \A i \in X : i[1] = "deception" /\ \E n \in DOMAIN x : i[2] = x[n]
      /\ \A n \in DOMAIN x : \E i \in X : i[2] = x[n]
  <2>1. PairsOf(X, "deception", DOMAIN x, x)
    BY <1>2 DEF ToItems, PairsOf
  <2> QED
    BY <2>1, PairsAre
<1>10. /\ \A i \in E : i[1] = "engagement" /\ \E n \in DOMAIN e : i[2] = EngagementName(e[n])
       /\ \A n \in DOMAIN e : \E i \in E : i[2] = EngagementName(e[n])
  <2>1. PICK f : f = [n \in DOMAIN e |-> EngagementName(e[n])]
    OBVIOUS
  <2>2. PairsOf(E, "engagement", DOMAIN e, f) /\ \A n \in DOMAIN e : f[n] = EngagementName(e[n])
    BY <1>2, <2>1 DEF EngagementItems, EngagementName, PairsOf
  <2> QED
    BY <2>2, PairsAre
<1>11. In(AllItems(d), "vulnerability") = CvesOf(v)
  <2>1. \A y : y \in In(AllItems(d), "vulnerability") <=> \E i \in V : y = i[2]
    BY <1>3, <1>4, <1>5, <1>6, <1>7, <1>8, <1>9, <1>10 DEF In
  <2>2. \A y : y \in CvesOf(v) <=> \E n \in DOMAIN v : y = v[n].cve
    BY DEF CvesOf, ToSet
  <2> QED
    BY <1>4, <2>1, <2>2
<1>12. In(AllItems(d), "technique") = TechniqueIds(t)
  <2>1. \A y : y \in In(AllItems(d), "technique") <=> \E i \in T : y = i[2]
    BY <1>3, <1>4, <1>5, <1>6, <1>7, <1>8, <1>9, <1>10 DEF In
  <2>2. \A y : y \in TechniqueIds(t) <=> \E n \in DOMAIN t : y = t[n].id
    BY DEF TechniqueIds, ToSet
  <2> QED
    BY <1>5, <2>1, <2>2
<1>13. In(AllItems(d), "mitigation") = ToSet(m)
  <2>1. \A y : y \in In(AllItems(d), "mitigation") <=> \E i \in M : y = i[2]
    BY <1>3, <1>4, <1>5, <1>6, <1>7, <1>8, <1>9, <1>10 DEF In
  <2> QED
    BY <1>7, <2>1 DEF ToSet
<1>14. In(AllItems(d), "detection") = ToSet(c)
  <2>1. \A y : y \in In(AllItems(d), "detection") <=> \E i \in C : y = i[2]
    BY <1>3, <1>4, <1>5, <1>6, <1>7, <1>8, <1>9, <1>10 DEF In
  <2> QED
    BY <1>8, <2>1 DEF ToSet
<1>15. In(AllItems(d), "deception") = ToSet(x)
  <2>1. \A y : y \in In(AllItems(d), "deception") <=> \E i \in X : y = i[2]
    BY <1>3, <1>4, <1>5, <1>6, <1>7, <1>8, <1>9, <1>10 DEF In
  <2> QED
    BY <1>9, <2>1 DEF ToSet
<1>16. In(AllItems(d), "engagement") = {EngagementName(g) : g \in ToSet(e)}
  <2>1. \A y : y \in In(AllItems(d), "engagement") <=> \E i \in E : y = i[2]
    BY <1>3, <1>4, <1>5, <1>6, <1>7, <1>8, <1>9, <1>10 DEF In
  <2>2. \A y : y \in {EngagementName(g) : g \in ToSet(e)}
                 <=> \E n \in DOMAIN e : y = EngagementName(e[n])
    BY DEF ToSet
  <2>3. \A y : (\E i \in E : y = i[2]) <=> \E n \in DOMAIN e : y = EngagementName(e[n])
    BY <1>10
  <2> QED
    BY <2>1, <2>2, <2>3
<1>17. \A i \in AllItems(d) : i[1] = "link" => \E q \in ToSet(p) : i[4] = q.technique
  BY <1>3, <1>4, <1>5, <1>6, <1>7, <1>8, <1>9, <1>10 DEF ToSet
<1> QED
  BY <1>1, <1>11, <1>12, <1>13, <1>14, <1>15, <1>16, <1>17

\* What render() makes of the data, by intent.
Rendered ==
  CASE intent = "vuln_lookup"  -> VulnerabilityItems(data.systems)
    [] intent = "attack_path"  -> AttackItems(data.offensive)
    [] intent = "coverage_map" -> CoverageItems(data.defensive)
    [] intent = "mixed"        -> MixedItems(data.systems, data.offensive, data.defensive)

(* At the end each agent's data and sources match, and who was not asked has none. *)
LEMMA AllHaveAnswered ==
  ASSUME AnswersInv, pass = "render"
  PROVE  /\ intent \in Intents /\ answer = NoAnswer
         /\ \A a \in AgentNames :
              /\ Matched(a, data, sources)
              /\ (\A k \in 1..Len(AgentsOf(intent)) : AgentsOf(intent)[k] # a)
                   => Untouched(a, data, sources)
<1>1. /\ intent # "none" /\ answer = NoAnswer
      /\ intent \in Intents /\ Others /\ AtWork /\ Scored
      /\ agent \in 1..Len(AgentsOf(intent)) /\ Len(AgentsOf(intent)) \in {1, 3}
      /\ Agent = AgentsOf(intent)[agent]
  BY WorkIsForARequest, AgentIsOne
<1>2. agent = Len(AgentsOf(intent)) /\ Matched(Agent, data, sources)
  BY <1>1 DEF Scored, AtWork
<1>3. ASSUME NEW a \in AgentNames
      PROVE  /\ Matched(a, data, sources)
             /\ (\A k \in 1..Len(AgentsOf(intent)) : AgentsOf(intent)[k] # a)
                  => Untouched(a, data, sources)
  <2>1. CASE \A k \in 1..agent : AgentsOf(intent)[k] # a
    BY <1>1, <1>3, <2>1, UntouchedMatches DEF Others
  <2>2. CASE \E k \in 1..agent : AgentsOf(intent)[k] = a
    <3>1. PICK k \in 1..agent : AgentsOf(intent)[k] = a
      BY <2>2
    <3>2. CASE k = agent
      BY <1>1, <1>2, <3>1, <3>2
    <3>3. CASE k # agent
      <4>1. k \in 1..(agent - 1)
        BY <1>1, <3>3
      <4>2. Matched(AgentsOf(intent)[k], data, sources)
        BY <1>1, <4>1 DEF Others
      <4> QED
        BY <1>2, <3>1, <4>2
    <3> QED
      BY <3>2, <3>3
  <2> QED
    BY <1>2, <2>1, <2>2
<1> QED
  BY <1>1, <1>3

(* Nothing is left out, whatever the intent. *)
LEMMA RenderedIsAll ==
  ASSUME AnswersInv, pass = "render"
  PROVE  Rendered = AllItems(data)
<1>1. /\ intent \in Intents
      /\ \A a \in AgentNames :
           /\ Matched(a, data, sources)
           /\ (\A k \in 1..Len(AgentsOf(intent)) : AgentsOf(intent)[k] # a)
                => Untouched(a, data, sources)
  BY AllHaveAnswered
<1>2. PICK V, T, C : /\ V = VulnerabilityItems(data.systems) /\ T = AttackItems(data.offensive)
                     /\ C = CoverageItems(data.defensive)
  OBVIOUS
<1>3. AllItems(data) = (V \cup T) \cup C
  BY <1>2 DEF AllItems
<1>4. Untouched("systems", data, sources) => V = {}
  BY <1>2 DEF Untouched, VulnerabilityItems
<1>5. Untouched("offensive", data, sources) => T = {}
  BY <1>2 DEF Untouched, NoTechniques, AttackItems, TechniqueItems, LinkItems
<1>6. Untouched("defensive", data, sources) => C = {}
  BY <1>2 DEF Untouched, NoCoverage, CoverageItems, ToItems, EngagementItems
<1>7. CASE intent = "vuln_lookup"
  <2>1. Untouched("offensive", data, sources) /\ Untouched("defensive", data, sources)
    <3>1. Len(AgentsOf(intent)) = 1 /\ AgentsOf(intent)[1] = "systems"
      BY <1>7 DEF AgentsOf
    <3> QED
      BY <1>1, <3>1 DEF AgentNames
  <2> QED
    BY <1>2, <1>3, <1>5, <1>6, <1>7, <2>1 DEF Rendered
<1>8. CASE intent = "attack_path"
  <2>1. Untouched("systems", data, sources) /\ Untouched("defensive", data, sources)
    <3>1. Len(AgentsOf(intent)) = 1 /\ AgentsOf(intent)[1] = "offensive"
      BY <1>8 DEF AgentsOf
    <3> QED
      BY <1>1, <3>1 DEF AgentNames
  <2> QED
    BY <1>2, <1>3, <1>4, <1>6, <1>8, <2>1 DEF Rendered
<1>9. CASE intent = "coverage_map"
  <2>1. Untouched("systems", data, sources) /\ Untouched("offensive", data, sources)
    <3>1. Len(AgentsOf(intent)) = 1 /\ AgentsOf(intent)[1] = "defensive"
      BY <1>9 DEF AgentsOf
    <3> QED
      BY <1>1, <3>1 DEF AgentNames
  <2> QED
    BY <1>2, <1>3, <1>4, <1>5, <1>9, <2>1 DEF Rendered
<1>10. CASE intent = "mixed"
  <2>1. data.offensive.techniques = << >> => T = {}
    <3>1. PICK p, t : p = data.offensive.paths /\ t = data.offensive.techniques
      OBVIOUS
    <3>2. \A q \in ToSet(p) : q.technique \in TechniqueIds(t)
      BY <1>1, <3>1 DEF Matched, AgentNames
    <3>3. t = << >> => TechniqueIds(t) = {} /\ DOMAIN t = {}
      BY DEF TechniqueIds, ToSet
    <3>4. t = << >> => DOMAIN p = {}
      BY <3>2, <3>3 DEF ToSet
    <3> QED
      BY <1>2, <3>1, <3>3, <3>4 DEF AttackItems, TechniqueItems, LinkItems
  <2>2. Rendered = (V \cup (IF data.offensive.techniques = << >> THEN {} ELSE T)) \cup C
    BY <1>2, <1>10 DEF Rendered, MixedItems
  <2> QED
    BY <1>3, <2>1, <2>2
<1> QED
  BY <1>1, <1>7, <1>8, <1>9, <1>10 DEF Intents

\* The frameworks whose absence costs confidence.
Lacking == IF intent \in {"coverage_map", "mixed"} THEN Missing(sources) ELSE {}

(* A tenth is lost for each of them, out of one for each agent. *)
LEMMA ConfidenceLacks ==
  ASSUME AnswersInv, pass = "render"
  PROVE  /\ Total \in Int /\ Len(scores) \in {1, 3}
         /\ 10 * Len(scores) - Total = Cardinality(Lacking)
         /\ Cardinality(Lacking) \in 0..3
         /\ \E s \in Sources : sources[s] # {}
<1>1. /\ intent # "none" /\ intent \in Intents /\ Scored /\ Shape
      /\ agent \in 1..Len(AgentsOf(intent)) /\ Len(AgentsOf(intent)) \in {1, 3}
      /\ \A k \in 1..Len(AgentsOf(intent)) : AgentsOf(intent)[k] \in AgentNames
  BY WorkIsForARequest, AgentIsOne
<1>2. /\ Len(scores) = Len(AgentsOf(intent)) /\ scores \in Seq(Int)
      /\ \A k \in 1..Len(scores) :
           /\ scores[k] = ScoreOf(AgentsOf(intent)[k], sources)
           /\ CitedIn(sources, SourcesOf(AgentsOf(intent)[k])) # {}
  BY <1>1 DEF Scored, Shape
<1>3. \E s \in Sources : sources[s] # {}
  <2>1. CitedIn(sources, SourcesOf(AgentsOf(intent)[1])) # {} /\ AgentsOf(intent)[1] \in AgentNames
    BY <1>1, <1>2
  <2> QED
    BY <2>1, SourcesAreApart DEF CitedIn
<1>4. Cardinality({}) = 0
  BY FS_EmptySet
<1>5. ScoreOf("systems", sources) = 10 /\ ScoreOf("offensive", sources) = 10
  BY DEF ScoreOf
<1>6. /\ Cardinality(Missing(sources)) \in 0..4
      /\ ScoreOf("defensive", sources) = 10 - Cardinality(Missing(sources))
      /\ CitedIn(sources, SourcesOf("defensive")) # {} => Cardinality(Missing(sources)) <= 3
  BY ScoreIsWithoutMissing
<1>7. CASE intent = "vuln_lookup"
  <2>1. Len(AgentsOf(intent)) = 1 /\ AgentsOf(intent)[1] = "systems"
    BY <1>7 DEF AgentsOf
  <2>2. Total = 10 /\ Len(scores) = 1
    BY <1>2, <1>5, <2>1, TotalIs
  <2> QED
    BY <1>3, <1>4, <1>7, <2>2 DEF Lacking
<1>8. CASE intent = "attack_path"
  <2>1. Len(AgentsOf(intent)) = 1 /\ AgentsOf(intent)[1] = "offensive"
    BY <1>8 DEF AgentsOf
  <2>2. Total = 10 /\ Len(scores) = 1
    BY <1>2, <1>5, <2>1, TotalIs
  <2> QED
    BY <1>3, <1>4, <1>8, <2>2 DEF Lacking
<1>9. CASE intent = "coverage_map"
  <2>1. Len(AgentsOf(intent)) = 1 /\ AgentsOf(intent)[1] = "defensive"
    BY <1>9 DEF AgentsOf
  <2>2. /\ Total = 10 - Cardinality(Missing(sources)) /\ Len(scores) = 1
        /\ Cardinality(Missing(sources)) <= 3
    BY <1>2, <1>6, <2>1, TotalIs
  <2> QED
    BY <1>3, <1>6, <1>9, <2>2 DEF Lacking
<1>10. CASE intent = "mixed"
  <2>1. /\ Len(AgentsOf(intent)) = 3 /\ AgentsOf(intent)[1] = "systems"
        /\ AgentsOf(intent)[2] = "offensive" /\ AgentsOf(intent)[3] = "defensive"
    BY <1>10 DEF AgentsOf
  <2>2. /\ Total = scores[1] + scores[2] + scores[3] /\ Len(scores) = 3
        /\ Cardinality(Missing(sources)) <= 3
        /\ scores[1] = 10 /\ scores[2] = 10 /\ scores[3] = 10 - Cardinality(Missing(sources))
    BY <1>2, <1>5, <1>6, <2>1, TotalIs
  <2>3. Total = 30 - Cardinality(Missing(sources))
    BY <1>6, <2>2
  <2> QED
    BY <1>3, <1>6, <1>10, <2>2, <2>3 DEF Lacking
<1> QED
  BY <1>1, <1>7, <1>8, <1>9, <1>10 DEF Intents

LEMMA RenderKeepsInv == AnswersInv /\ Render => AnswersInv'
<1> SUFFICES ASSUME AnswersInv, Render PROVE AnswersInv'
  OBVIOUS
<1>1. pass = "render" /\ intent # "none" /\ answer = NoAnswer
  BY WorkIsForARequest DEF Render
<1>2. Others /\ AtWork /\ Scored /\ Shape /\ Agent \in AgentNames /\ intent \in Intents
  BY <1>1, AgentIsOne
<1>3. /\ intent' = intent /\ byPlatform' = byPlatform /\ agent' = agent /\ rows' = rows
      /\ row' = row /\ data' = data /\ sources' = sources /\ scores' = scores /\ pass' = "done"
  BY DEF Render
<1>4. Rendered = AllItems(data)
  BY <1>1, RenderedIsAll
<1>5. PICK cited, n, d : cited = Cited(Sources) /\ n = Total /\ d = 10 * Len(scores)
  OBVIOUS
<1>6. answer' = [kind |-> "answer", items |-> AllItems(data),
                 sources |-> [s \in cited |-> sources[s]],
                 confidence |-> <<n, d>>, warned |-> LowConfidence(n, d)]
  <2>1. answer' = [kind |-> "answer", items |-> Rendered,
                   sources |-> [s \in cited |-> sources[s]],
                   confidence |-> <<n, d>>, warned |-> LowConfidence(n, d)]
    BY <1>5 DEF Render, Rendered
  <2> QED
    BY <1>4, <2>1
<1>7. /\ answer'.kind = "answer" /\ answer'.items = AllItems(data)
      /\ answer'.sources = [s \in cited |-> sources[s]]
      /\ answer'.confidence[1] = n /\ answer'.confidence[2] = d
      /\ answer'.warned = LowConfidence(n, d)
  BY <1>6
<1>8. /\ n \in Int /\ Len(scores) \in {1, 3} /\ d - n = Cardinality(Lacking)
      /\ Cardinality(Lacking) \in 0..3 /\ \E s \in Sources : sources[s] # {}
  BY <1>1, <1>5, ConfidenceLacks
<1>9. Shape'
  BY <1>2, <1>3, <1>7 DEF Shape, Passes
<1>10. Others'
  BY <1>2, <1>3 DEF Others
<1>11. Agent' = Agent
  BY <1>3 DEF Agent
<1>12. AtWork'
  BY <1>1, <1>2, <1>3, <1>11 DEF AtWork
<1>13. Scored'
  BY <1>3 DEF Scored
<1>14. ASSUME NEW s \in Sources
       PROVE  CitedIds(s)' = sources[s]
  <2>1. s \in cited <=> sources[s] # {}
    BY <1>5 DEF Cited
  <2> QED
    BY <1>7, <2>1 DEF CitedIds
<1>15. ASSUME NEW section
       PROVE  Shown(section)' = In(AllItems(data), section)
  BY <1>7 DEF Shown, In
<1>16. data \in DataTypes
  BY <1>2 DEF Shape
<1>17. /\ Matched("systems", data, sources) /\ Matched("offensive", data, sources)
       /\ Matched("defensive", data, sources)
  BY <1>1, AllHaveAnswered DEF AgentNames
<1>18. /\ sources["NVD"] = CvesOf(data.systems)
       /\ sources["ATTACK"] = TechniqueIds(data.offensive.techniques)
       /\ \A p \in ToSet(data.offensive.paths) :
            p.technique \in TechniqueIds(data.offensive.techniques)
       /\ sources["D3FEND"] = ToSet(data.defensive.mitigations)
       /\ sources["CAR"] = ToSet(data.defensive.detections)
       /\ sources["SHIELD"] = ToSet(data.defensive.deceptions)
       /\ sources["ENGAGE"] = KeysOf(data.defensive.engagements)
  BY <1>17 DEF Matched
<1>19. {"NVD", "ATTACK", "D3FEND", "CAR", "SHIELD", "ENGAGE"} \subseteq Sources
  <2>1. /\ SourcesOf("systems") \subseteq Sources /\ SourcesOf("offensive") \subseteq Sources
        /\ SourcesOf("defensive") \subseteq Sources
    BY SourcesAreApart DEF AgentNames
  <2> QED
    BY <2>1 DEF SourcesOf
<1>20. /\ Shown("vulnerability")' = CitedIds("NVD")'
       /\ Shown("technique")' = CitedIds("ATTACK")'
       /\ Shown("mitigation")' = CitedIds("D3FEND")'
       /\ Shown("detection")' = CitedIds("CAR")'
       /\ Shown("deception")' = CitedIds("SHIELD")'
  BY <1>14, <1>15, <1>16, <1>18, <1>19, SectionsShow
<1>21. /\ Shown("engagement")' = {EngagementName(e) : e \in ToSet(data.defensive.engagements)}
       /\ CitedIds("ENGAGE")' = {EngagementKey(e) : e \in ToSet(data.defensive.engagements)}
  BY <1>14, <1>15, <1>16, <1>18, <1>19, SectionsShow DEF KeysOf
<1>22. /\ (Shown("engagement") \ {Unknown} \subseteq CitedIds("ENGAGE"))'
       /\ (Shown("engagement") = {} <=> CitedIds("ENGAGE") = {})'
  <2>1. PICK S : S = ToSet(data.defensive.engagements)
    OBVIOUS
  <2>2. \A e \in S : EngagementName(e) = Unknown \/ EngagementName(e) = EngagementKey(e)
    BY DEF EngagementName, EngagementKey
  <2> QED
    BY <1>21, <2>1, <2>2
<1>23. \A i \in AllItems(data) : i[1] = "link" => i[4] \in CitedIds("ATTACK")'
  <2>1. \A i \in AllItems(data) : i[1] = "link" =>
          \E p \in ToSet(data.offensive.paths) : i[4] = p.technique
    BY <1>16, SectionsShow
  <2> QED
    BY <1>14, <1>18, <1>19, <2>1
<1>24. DOMAIN answer'.sources = cited /\ cited # {}
  BY <1>5, <1>7, <1>8 DEF Cited
<1>25. (IF intent \in {"coverage_map", "mixed"}
        THEN SourcesOf("defensive") \ DOMAIN answer'.sources ELSE {}) = Lacking
  <2>1. SourcesOf("defensive") \subseteq Sources
    BY SourcesAreApart DEF AgentNames
  <2>2. SourcesOf("defensive") \ cited = Missing(sources)
    BY <1>5, <2>1 DEF Missing, Cited, CitedIn
  <2> QED
    BY <1>24, <2>2 DEF Lacking
<1>26. answer'.confidence[2] - answer'.confidence[1] = Cardinality(Lacking)
  BY <1>7, <1>8
<1>27. ~answer'.warned
  <2>1. LowConfidence(n, d) <=> 4 * n < d
    BY DEF LowConfidence
  <2>2. ~(4 * n < d)
    <3>1. PICK c \in 0..3 : d - n = c
      BY <1>8
    <3>2. d \in {10, 30} /\ n \in Int
      <4>1. PICK m : m = Len(scores)
        OBVIOUS
      <4>2. d = 10 * m /\ m \in {1, 3}
        BY <1>5, <1>8, <4>1
      <4>3. d \in {10, 30}
        BY <4>2
      <4> QED
        BY <1>8, <4>3
    <3>3. n = d - c
      BY <3>1, <3>2
    <3> QED
      BY <3>1, <3>2, <3>3
  <2>3. answer'.warned = LowConfidence(n, d)
    BY <1>7
  <2>4. ~LowConfidence(n, d)
    BY <2>1, <2>2
  <2> QED
    BY <2>3, <2>4, Zenon
<1>28. ShownIsSourced'
  BY <1>3, <1>7, <1>20, <1>22, <1>23, <1>24, <1>25, <1>26, <1>27 DEF ShownIsSourced
<1> QED
  BY <1>1, <1>3, <1>9, <1>10, <1>12, <1>13, <1>28 DEF AnswersInv

(* The invariant holds in every reachable state. *)
THEOREM AnswersInvariant == Spec => []AnswersInv
<1>1. Init => AnswersInv
  BY AnswersInit
<1>2. AnswersInv /\ [Next]_vars => AnswersInv'
  BY StartKeepsInv, QueryKeepsInv, TransformKeepsInv, TraceKeepsInv, RespondKeepsInv,
     RenderKeepsInv, FinishKeepsInv, StutterKeepsInv DEF Next
<1> QED
  BY <1>1, <1>2, PTL DEF Spec

----------------------------------------------------------------------------
(* What follows *)

(* What is shown of the graph is what is cited, section by section; a link leads to a
   cited technique; the confidence lacks a tenth for each framework of controls that is
   not cited, and nothing else (response_renderer.py rules 1, 2 and 4). *)
THEOREM AnswersShowTheirSources == Spec => []ShownIsSourced
<1>1. AnswersInv => ShownIsSourced
  BY DEF AnswersInv
<1> QED
  BY <1>1, AnswersInvariant, PTL

LEMMA InvLoopsCompute == AnswersInv => LoopsComputeData
<1> SUFFICES ASSUME AnswersInv, intent # "none", pass \in {"transform", "provenance", "respond"}
             PROVE  CASE Agent = "systems" ->
                           VulnerabilitiesComputed(data.systems, rows, Transformed, byPlatform)
                      [] Agent = "offensive" ->
                           TechniquesComputed(data.offensive, rows, Transformed)
                      [] Agent = "defensive" ->
                           CoverageComputed(data.defensive, rows, Transformed)
  BY DEF LoopsComputeData
<1>1. /\ Agent \in AgentNames /\ rows \in Seq(RowsOf(Agent)) /\ AtWork
      /\ Len(rows) \in Nat /\ row \in 1..Len(rows) + 1
  BY AgentIsOne DEF AtWork, Shape
<1>2. Computed(Agent, data, rows, Transformed, byPlatform)
  <2>1. CASE pass = "transform"
    <3>1. Transformed = 1..(row - 1)
      BY <1>1, <2>1 DEF Transformed
    <3> QED
      BY <1>1, <2>1, <3>1 DEF AtWork
  <2>2. CASE pass # "transform"
    <3>1. Transformed = 1..Len(rows)
      BY <1>1, <2>2 DEF Transformed
    <3> QED
      BY <1>1, <2>2, <3>1 DEF AtWork
  <2> QED
    BY <2>1, <2>2
<1>3. CASE Agent = "systems"
  BY <1>2, <1>3 DEF Computed
<1>4. CASE Agent = "offensive"
  BY <1>2, <1>4 DEF Computed
<1>5. CASE Agent = "defensive"
  BY <1>2, <1>5 DEF Computed
<1> QED
  BY <1>1, <1>3, <1>4, <1>5 DEF AgentNames

(* For every prefix of the rows, the transformers' loops have made of them what they say
   as a set: each vulnerability and technique has what its own rows bring and nothing of
   another's, and only the weakness depends on their order (transform_* of the three
   agents). *)
THEOREM AnswersLoopsComputeData == Spec => []LoopsComputeData
BY InvLoopsCompute, AnswersInvariant, PTL

LEMMA InvMatches ==
  ASSUME AnswersInv, NEW a \in AgentNames, Complete(a)
  PROVE  /\ Matched(a, data, sources)
         /\ (intent # "none" /\ pass = "respond" /\ Agent = "offensive") =>
              sources["CAPEC"] \ PatternsOf(data.offensive.techniques) \subseteq
                {rows[n].ap : n \in {k \in DOMAIN rows : rows[k].t = Anon}}
<1>1. (intent # "none" /\ pass = "respond" /\ Agent = "offensive") =>
         sources["CAPEC"] \ PatternsOf(data.offensive.techniques) \subseteq
           {rows[n].ap : n \in {k \in DOMAIN rows : rows[k].t = Anon}}
  BY RespondingMatches
<1>2. CASE intent = "none"
  <2>1. data = NoData /\ sources = NoSources
    BY <1>2 DEF AnswersInv, Idle
  <2>2. Matched(a, NoData, NoSources)
    BY NothingIsUntouched, UntouchedMatches
  <2> QED
    BY <1>1, <2>1, <2>2
<1>3. CASE intent # "none"
  <2>1. /\ Others /\ AtWork /\ Shape /\ agent \in 1..Len(AgentsOf(intent))
        /\ Len(AgentsOf(intent)) \in {1, 3} /\ Agent = AgentsOf(intent)[agent]
    BY <1>3, AgentIsOne
  <2>2. CASE \A k \in 1..agent : AgentsOf(intent)[k] # a
    BY <1>1, <2>1, <2>2, UntouchedMatches DEF Others
  <2>3. CASE \E k \in 1..agent : AgentsOf(intent)[k] = a
    <3>1. PICK k \in 1..agent : AgentsOf(intent)[k] = a
      BY <2>3
    <3>2. CASE k = agent
      <4>1. a = Agent /\ pass \in {"query", "respond", "render", "done"}
        BY <1>3, <2>1, <3>1, <3>2 DEF Complete, Shape, Passes
      <4>2. CASE pass = "query"
        BY <1>1, <2>1, <4>1, <4>2, UntouchedMatches DEF AtWork
      <4>3. CASE pass = "respond"
        BY <1>1, <4>1, <4>3, RespondingMatches
      <4>4. CASE pass \in {"render", "done"}
        BY <1>1, <2>1, <4>1, <4>4 DEF AtWork
      <4> QED
        BY <4>1, <4>2, <4>3, <4>4
    <3>3. CASE k # agent
      <4>1. k \in 1..(agent - 1)
        BY <2>1, <3>3
      <4>2. Matched(AgentsOf(intent)[k], data, sources)
        BY <2>1, <4>1 DEF Others
      <4> QED
        BY <1>1, <3>1, <4>2
    <3> QED
      BY <3>2, <3>3
  <2> QED
    BY <2>2, <2>3
<1> QED
  BY <1>2, <1>3

LEMMA InvProvenanceMatches == AnswersInv => ProvenanceMatchesData
<1> SUFFICES ASSUME AnswersInv PROVE ProvenanceMatchesData
  OBVIOUS
<1>1. "systems" \in AgentNames /\ "offensive" \in AgentNames /\ "defensive" \in AgentNames
  BY DEF AgentNames
<1>2. Complete("systems") => sources["NVD"] = {v.cve : v \in ToSet(data.systems)}
  <2>1. Complete("systems") => Matched("systems", data, sources)
    BY <1>1, InvMatches
  <2> QED
    BY <2>1 DEF Matched, CvesOf
<1>3. ASSUME Complete("offensive")
      PROVE  LET patterns == UNION {ToSet(t.capec) : t \in ToSet(data.offensive.techniques)}
             IN  /\ sources["ATTACK"] = {t.id : t \in ToSet(data.offensive.techniques)}
                 /\ patterns \subseteq sources["CAPEC"]
                 /\ (intent # "none" /\ pass = "respond" /\ Agent = "offensive") =>
                      sources["CAPEC"] \ patterns \subseteq
                        {rows[n].ap : n \in {k \in DOMAIN rows : rows[k].t = Anon}}
  <2>1. /\ Matched("offensive", data, sources)
        /\ (intent # "none" /\ pass = "respond" /\ Agent = "offensive") =>
             sources["CAPEC"] \ PatternsOf(data.offensive.techniques) \subseteq
               {rows[n].ap : n \in {k \in DOMAIN rows : rows[k].t = Anon}}
    BY <1>1, <1>3, InvMatches
  <2>2. /\ sources["ATTACK"] = TechniqueIds(data.offensive.techniques)
        /\ PatternsOf(data.offensive.techniques) \subseteq sources["CAPEC"]
    BY <2>1 DEF Matched
  <2> QED
    BY <2>1, <2>2 DEF TechniqueIds, PatternsOf
<1>4. ASSUME Complete("defensive")
      PROVE  /\ sources["D3FEND"] = ToSet(data.defensive.mitigations)
             /\ sources["CAR"] = ToSet(data.defensive.detections)
             /\ sources["SHIELD"] = ToSet(data.defensive.deceptions)
             /\ sources["ENGAGE"] = {EngagementKey(e) : e \in ToSet(data.defensive.engagements)}
  <2>1. Matched("defensive", data, sources)
    BY <1>1, <1>4, InvMatches
  <2> QED
    BY <2>1 DEF Matched, KeysOf
<1> QED
  BY <1>2, <1>3, <1>4 DEF ProvenanceMatchesData

(* The two loops over the same rows agree, though they skip rows on different conditions:
   the provenance names exactly the vulnerabilities, techniques and controls in the data,
   and of the attack patterns more only from rows whose technique has no id
   (extract_provenance of the three agents). *)
THEOREM AnswersProvenanceMatches == Spec => []ProvenanceMatchesData
BY InvProvenanceMatches, AnswersInvariant, PTL

(* Lists without duplicates have as many elements as they are long. *)
LEMMA SequencesWithout ==
  ASSUME NEW S, NEW list \in Seq(S), Unique(list)
  PROVE  NoDuplicates(list)
<1>1. PICK n \in Nat : n = Len(list) /\ list = [k \in 1..n |-> list[k]]
  OBVIOUS
<1> QED
  BY <1>1, UniqueIsNoDuplicates

(* So do lists whose elements differ in what identifies them. *)
LEMMA KeysWithout ==
  ASSUME NEW n \in Nat, NEW keys, keys = [k \in 1..n |-> keys[k]],
         \A i, j \in 1..n : keys[i] = keys[j] => i = j
  PROVE  NoDuplicates(keys)
<1>1. DOMAIN keys = 1..n
  OBVIOUS
<1>2. Unique(keys)
  BY <1>1 DEF Unique
<1> QED
  BY <1>2, UniqueIsNoDuplicates

LEMMA InvTypeOK == AnswersInv => AnswersTypeOK
<1> SUFFICES ASSUME AnswersInv PROVE AnswersTypeOK
  OBVIOUS
<1>1. Shape
  BY DEF AnswersInv
<1>2. /\ intent \in Intents \cup {"none"} /\ byPlatform \in BOOLEAN
      /\ agent \in 1..3 /\ row \in 1..Len(rows) + 1 /\ Len(scores) <= 3
      /\ pass \in {"query", "transform", "provenance", "respond", "render", "done"}
      /\ answer.kind \in {"none", "failed", "nothing", "answer"}
  <2>1. agent \in 1..3
    <3>1. CASE intent = "none"
      BY <3>1 DEF AnswersInv, Idle
    <3>2. CASE intent # "none"
      BY <3>2, AgentIsOne
    <3> QED
      BY <3>1, <3>2
  <2>2. Len(scores) <= 3
    <3>1. PICK m \in 0..3 : m = Len(scores)
      BY <1>1 DEF Shape
    <3>2. m <= 3
      OBVIOUS
    <3> QED
      BY <3>1, <3>2
  <2>3. pass \in {"query", "transform", "provenance", "respond", "render", "done"}
    BY <1>1 DEF Shape, Passes
  <2>4. /\ intent \in Intents \cup {"none"} /\ byPlatform \in BOOLEAN
        /\ row \in 1..Len(rows) + 1
        /\ answer.kind \in {"none", "failed", "nothing", "answer"}
    BY <1>1 DEF Shape
  <2> QED
    BY <2>1, <2>2, <2>3, <2>4
<1>3. PICK vs, ts, ps, cs : /\ vs = data.systems /\ ts = data.offensive.techniques
                            /\ ps = data.offensive.paths /\ cs = data.defensive
  OBVIOUS
<1>4. vs \in VulnerabilityLists /\ ts \in TechniqueLists /\ ps \in PathLists /\ cs \in Coverages
  BY <1>1, <1>3 DEF Shape, DataTypes, Attacks
<1>5. NoDuplicates([n \in DOMAIN vs |-> vs[n].cve])
  <2>1. PICK keys : keys = [n \in DOMAIN vs |-> vs[n].cve]
    OBVIOUS
  <2>2. Len(vs) \in Nat /\ DOMAIN vs = 1..Len(vs)
        /\ \A i, j \in DOMAIN vs : vs[i].cve = vs[j].cve => i = j
    BY <1>4 DEF VulnerabilityLists
  <2>3. /\ keys = [k \in 1..Len(vs) |-> keys[k]]
        /\ \A i, j \in 1..Len(vs) : keys[i] = keys[j] => i = j
    BY <2>1, <2>2
  <2> QED
    BY <2>1, <2>2, <2>3, KeysWithout
<1>6. ASSUME NEW v \in ToSet(vs)
      PROVE  NoDuplicates(v.scores) /\ NoDuplicates(v.platforms) /\ NoDuplicates(v.resolved)
  <2>1. v \in Vulnerabilities
    BY <1>4, <1>6 DEF VulnerabilityLists, ToSet
  <2>2. v.scores \in UniqueLists /\ v.platforms \in UniqueLists /\ v.resolved \in UniqueLists
    BY <2>1 DEF Vulnerabilities
  <2> QED
    BY <2>2, SequencesWithout DEF UniqueLists
<1>7. NoDuplicates([n \in DOMAIN ts |-> ts[n].id])
  <2>1. PICK keys : keys = [n \in DOMAIN ts |-> ts[n].id]
    OBVIOUS
  <2>2. Len(ts) \in Nat /\ DOMAIN ts = 1..Len(ts)
        /\ \A i, j \in DOMAIN ts : ts[i].id = ts[j].id => i = j
    BY <1>4 DEF TechniqueLists
  <2>3. /\ keys = [k \in 1..Len(ts) |-> keys[k]]
        /\ \A i, j \in 1..Len(ts) : keys[i] = keys[j] => i = j
    BY <2>1, <2>2
  <2> QED
    BY <2>1, <2>2, <2>3, KeysWithout
<1>8. ASSUME NEW t \in ToSet(ts)
      PROVE  NoDuplicates(t.capec) /\ NoDuplicates(t.tactics) /\ NoDuplicates(t.subs)
  <2>1. t \in Techniques
    BY <1>4, <1>8 DEF TechniqueLists, ToSet
  <2>2. t.capec \in UniqueLists /\ t.tactics \in UniqueLists /\ t.subs \in UniqueLists
    BY <2>1 DEF Techniques
  <2> QED
    BY <2>2, SequencesWithout DEF UniqueLists
<1>9. NoDuplicates(ps)
  BY <1>4, SequencesWithout DEF PathLists
<1>10. \A list \in {cs.mitigations, cs.detections, cs.deceptions} : NoDuplicates(list)
  <2>1. \A list \in {cs.mitigations, cs.detections, cs.deceptions} : list \in UniqueLists
    BY <1>4 DEF Coverages
  <2> QED
    BY <2>1, SequencesWithout DEF UniqueLists
<1>11. NoDuplicates([n \in DOMAIN cs.engagements |-> EngagementKey(cs.engagements[n])])
  <2>1. PICK es, keys : es = cs.engagements /\ keys = [n \in DOMAIN es |-> EngagementKey(es[n])]
    OBVIOUS
  <2>2. es \in EngagementLists
    BY <1>4, <2>1 DEF Coverages
  <2>3. Len(es) \in Nat /\ DOMAIN es = 1..Len(es)
        /\ \A i, j \in DOMAIN es : EngagementKey(es[i]) = EngagementKey(es[j]) => i = j
    BY <2>2 DEF EngagementLists
  <2>4. /\ keys = [k \in 1..Len(es) |-> keys[k]]
        /\ \A i, j \in 1..Len(es) : keys[i] = keys[j] => i = j
    BY <2>1, <2>3
  <2> QED
    BY <2>1, <2>3, <2>4, KeysWithout
<1> QED
  BY <1>2, <1>3, <1>5, <1>6, <1>7, <1>8, <1>9, <1>10, <1>11 DEF AnswersTypeOK

(* Types, and that nothing is listed twice, however often the joins of the queries repeat
   it: vulnerabilities, their scores and platforms, techniques, their tactics, paths,
   controls. *)
THEOREM AnswersAreTyped == Spec => []AnswersTypeOK
BY InvTypeOK, AnswersInvariant, PTL
=============================================================================
