-------------------------- MODULE Discovery_proofs --------------------------
(***************************************************************************)
(* Proofs about Discovery, for every number of nodes, identifier, bucket   *)
(* size and course of the joins, the lookups, the failures and the late    *)
(* answers: tables stay well-formed, and while no bucket is full the       *)
(* bootstrap node knows everybody that anybody knows.                      *)
(*                                                                         *)
(* The first part is about the operators: identifiers have an order,       *)
(* ByDistance permutes, AddToBucket and AddAll keep a table what it is.    *)
(* The second part is about the nodes.                                     *)
(***************************************************************************)
EXTENDS Discovery, FiniteSetTheorems, FunctionTheorems, WellFoundedInduction, TLAPS

\* The targets of lookups, and what a contact may be asked for.
Sought == Targets \cup {ID[n] : n \in Nodes}

-----------------------------------------------------------------------------
\* Numbers.

LEMMA MinIs ==
  ASSUME NEW T \in SUBSET Nat, T # {}
  PROVE  Min(T) \in T /\ \A y \in T : Min(T) <= y
<1>1. \E x \in T : \A y \in T : ~(<<y, x>> \in OpToRel(<, Nat))
  BY NatLessThanWellFounded, WFMin
<1>2. PICK x \in T : \A y \in T : ~(<<y, x>> \in OpToRel(<, Nat))
  BY <1>1
<1>3. \A y \in T : ~(y < x)
  BY <1>2 DEF OpToRel
<1>4. \A y \in T : x <= y
  BY <1>3
<1> QED BY <1>4 DEF Min

\* What 0 has, and with k also k + 1, all numbers to L have.
LEMMA UpTo ==
  ASSUME NEW L \in Nat, NEW T, 0 \in T, \A k \in 0..L - 1 : k \in T => k + 1 \in T
  PROVE  \A k \in 0..L : k \in T
<1> DEFINE R == (0..L) \ T
<1>1. SUFFICES ASSUME R # {} PROVE FALSE
  OBVIOUS
<1>2. R \in SUBSET Nat
  OBVIOUS
<1> DEFINE m == Min(R)
<1>3. m \in R /\ \A y \in R : m <= y
  <2> HIDE DEF R
  <2> QED BY <1>1, <1>2, MinIs
<1> HIDE DEF m
<1>4. m # 0 /\ m \in 0..L
  BY <1>3
<1>5. m - 1 \in 0..L - 1 /\ m - 1 \notin R
  BY <1>3, <1>4
<1>6. m - 1 \in T
  BY <1>5
<1> QED BY <1>3, <1>4, <1>5, <1>6

-----------------------------------------------------------------------------
\* Identifiers.

\* The first bit in which two distances differ.
LEMMA FirstBit ==
  ASSUME NEW d \in SUBSET Positions, NEW e \in SUBSET Positions
  PROVE  Smaller(d, e) <=>
           \E p \in e \ d : \A x \in Positions : x < p => (x \in d <=> x \in e)
<1>1. XOR(d, e) \in SUBSET Nat
  BY BoundsAssumption DEF XOR, Positions
<1>2. ASSUME Smaller(d, e)
      PROVE  \E p \in e \ d : \A x \in Positions : x < p => (x \in d <=> x \in e)
  <2> DEFINE p == Min(XOR(d, e))
  <2>1. XOR(d, e) # {} /\ p \in e
    BY <1>2 DEF Smaller, XOR
  <2>2. p \in XOR(d, e) /\ \A y \in XOR(d, e) : p <= y
    BY <1>1, <2>1, MinIs
  <2> HIDE DEF p
  <2>3. p \in e \ d
    BY <2>1, <2>2 DEF XOR
  <2>4. ASSUME NEW x \in Positions, x < p PROVE x \in d <=> x \in e
    <3>1. x \notin XOR(d, e)
      BY <1>1, <2>2, <2>4 DEF Positions
    <3> QED BY <3>1 DEF XOR
  <2> QED BY <2>3, <2>4
<1>3. ASSUME NEW p \in e \ d, \A x \in Positions : x < p => (x \in d <=> x \in e)
      PROVE  Smaller(d, e)
  <2>1. p \in XOR(d, e)
    BY DEF XOR
  <2> DEFINE q == Min(XOR(d, e))
  <2>2. q \in XOR(d, e) /\ q <= p
    BY <1>1, <2>1, MinIs
  <2> HIDE DEF q
  <2>3. q \in Positions /\ p \in Positions /\ ~(q \in d <=> q \in e)
    BY <2>2 DEF XOR
  <2>4. q = p
    BY <1>3, <2>2, <2>3 DEF Positions
  <2> QED BY <1>3, <2>4 DEF Smaller, q
<1> QED BY <1>2, <1>3

LEMMA SmallerOrders ==
  ASSUME NEW d \in SUBSET Positions, NEW e \in SUBSET Positions, NEW f \in SUBSET Positions
  PROVE  /\ d # e => Smaller(d, e) \/ Smaller(e, d)
         /\ ~(Smaller(d, e) /\ Smaller(e, d))
         /\ Smaller(d, e) /\ Smaller(e, f) => Smaller(d, f)
<1>0. Positions \subseteq Nat
  BY BoundsAssumption DEF Positions
<1>1. ASSUME d # e PROVE Smaller(d, e) \/ Smaller(e, d)
  <2> DEFINE T == XOR(d, e)
  <2>1. T \in SUBSET Nat /\ T # {}
    BY <1>0, <1>1 DEF XOR
  <2>2. Min(T) \in T
    BY <2>1, MinIs
  <2>3. XOR(e, d) = T
    BY DEF XOR
  <2>4. Min(T) \in d \/ Min(T) \in e
    BY <2>2 DEF XOR
  <2> HIDE DEF T
  <2> QED BY <1>1, <2>3, <2>4 DEF Smaller, T
<1>2. ASSUME Smaller(d, e), Smaller(e, d) PROVE FALSE
  <2>1. PICK p \in e \ d : \A x \in Positions : x < p => (x \in d <=> x \in e)
    BY <1>2, FirstBit
  <2>2. PICK q \in d \ e : \A x \in Positions : x < q => (x \in e <=> x \in d)
    BY <1>2, FirstBit
  <2> QED BY <1>0, <2>1, <2>2
<1>3. ASSUME Smaller(d, e), Smaller(e, f) PROVE Smaller(d, f)
  <2>1. PICK p \in e \ d : \A x \in Positions : x < p => (x \in d <=> x \in e)
    BY <1>3, FirstBit
  <2>2. PICK q \in f \ e : \A x \in Positions : x < q => (x \in e <=> x \in f)
    BY <1>3, FirstBit
  <2>3. p \in Nat /\ q \in Nat /\ p # q /\ p \in Positions /\ q \in Positions
    BY <1>0, <2>1, <2>2
  <2>4. CASE p < q
    <3>1. p \in f \ d /\ \A x \in Positions : x < p => (x \in d <=> x \in f)
      BY <1>0, <2>1, <2>2, <2>3, <2>4
    <3> QED BY <3>1, FirstBit
  <2>5. CASE q < p
    <3>1. q \in f \ d /\ \A x \in Positions : x < q => (x \in d <=> x \in f)
      BY <1>0, <2>1, <2>2, <2>3, <2>5
    <3> QED BY <3>1, FirstBit
  <2> QED BY <2>3, <2>4, <2>5
<1> QED BY <1>1, <1>2, <1>3

\* Of two nodes one is the nearer to a target.
LEMMA NearerOrders ==
  ASSUME NEW target \in Sought
  PROVE  \A n, m, l \in Nodes :
           /\ n # m => nearer[target][n][m] \/ nearer[target][m][n]
           /\ ~(nearer[target][n][m] /\ nearer[target][m][n])
           /\ nearer[target][n][m] /\ nearer[target][m][l] => nearer[target][n][l]
<1> DEFINE D(n) == XOR(ID[n], target)
<1>1. \A n, m \in Nodes : nearer[target][n][m] = Smaller(D(n), D(m))
  BY DEF nearer, Sought
<1>2. target \in SUBSET Positions /\ \A n \in Nodes : ID[n] \in SUBSET Positions
  BY NodesAssumption, BoundsAssumption DEF Sought
<1>3. \A n \in Nodes : D(n) \in SUBSET Positions
  BY <1>2 DEF XOR
<1>4. \A n, m \in Nodes : n # m => D(n) # D(m)
  <2>1. ASSUME NEW n \in Nodes, NEW m \in Nodes, D(n) = D(m) PROVE ID[n] = ID[m]
    <3>1. \A x : x \in D(n) <=> ~(x \in ID[n] <=> x \in target)
      BY DEF XOR
    <3>2. \A x : x \in D(m) <=> ~(x \in ID[m] <=> x \in target)
      BY DEF XOR
    <3>3. \A x : x \in ID[n] <=> x \in ID[m]
      BY <2>1, <3>1, <3>2
    <3> QED BY <1>2, <3>3
  <2> QED BY <2>1, NodesAssumption
<1> HIDE DEF D
<1> QED BY <1>1, <1>3, <1>4, SmallerOrders

-----------------------------------------------------------------------------
\* ByDistance puts every place of a sequence in a place of its own.

LEMMA DistancePermutes ==
  ASSUME NEW s \in Seq(Nodes), NEW target \in Sought
  PROVE  /\ ByDistance(s, target) \in Seq(Nodes)
         /\ Len(ByDistance(s, target)) = Len(s)
         /\ \A r \in 1..Len(s) : \E i \in 1..Len(s) : ByDistance(s, target)[r] = s[i]
         /\ \A i \in 1..Len(s) : \E r \in 1..Len(s) : ByDistance(s, target)[r] = s[i]
<1> DEFINE D == 1..Len(s)
           order == nearer[target]
           Before(i) == {h \in D : order[s[h]][s[i]] \/ (s[h] = s[i] /\ h < i)}
           places == {<<i, 1 + Cardinality(Before(i))>> : i \in D}
           rank == [i \in D |-> 1 + Cardinality(Before(i))]
<1>1. Len(s) \in Nat /\ DOMAIN s = D /\ \A i \in D : s[i] \in Nodes
  OBVIOUS
<1>2. IsFiniteSet(D) /\ Cardinality(D) = Len(s)
  <2>1. \A k \in Nat : IsFiniteSet(1..k) /\ Cardinality(1..k) = k
    BY FS_Interval
  <2> QED BY <1>1, <2>1
<1>3. ASSUME NEW i \in D
      PROVE  /\ i \notin Before(i) /\ Before(i) \subseteq D
             /\ IsFiniteSet(Before(i)) /\ Cardinality(Before(i)) \in Nat
             /\ Cardinality(Before(i)) <= Len(s) - 1
  <2>1. i \notin Before(i)
    BY <1>1, NearerOrders
  <2>2. Before(i) \subseteq D \ {i}
    BY <2>1
  <2> HIDE DEF Before
  <2>3. IsFiniteSet(D \ {i}) /\ Cardinality(D \ {i}) = Len(s) - 1
    BY <1>2, FS_RemoveElement
  <2>4. IsFiniteSet(Before(i)) /\ Cardinality(Before(i)) <= Cardinality(D \ {i})
    BY <2>2, <2>3, FS_Subset
  <2> QED BY <2>1, <2>2, <2>3, <2>4, FS_CardinalityType
<1>4. ASSUME NEW i \in D, NEW j \in D, i \in Before(j)
      PROVE  Cardinality(Before(i)) < Cardinality(Before(j))
  <2>1. Before(i) \cup {i} \subseteq Before(j)
    <3>1. ASSUME NEW h \in Before(i) PROVE h \in Before(j)
      <4>1. h \in D /\ s[h] \in Nodes /\ s[i] \in Nodes /\ s[j] \in Nodes
        BY <1>1
      <4>2. order[s[h]][s[i]] \/ (s[h] = s[i] /\ h < i)
        OBVIOUS
      <4>3. order[s[i]][s[j]] \/ (s[i] = s[j] /\ i < j)
        BY <1>4
      <4>4. order[s[h]][s[i]] /\ order[s[i]][s[j]] => order[s[h]][s[j]]
        BY <4>1, NearerOrders
      <4>5. order[s[h]][s[j]] \/ (s[h] = s[j] /\ h < j)
        BY <4>1, <4>2, <4>3, <4>4
      <4> QED BY <4>1, <4>5
    <3> QED BY <1>4, <3>1
  <2> HIDE DEF Before
  <2>2. Cardinality(Before(i) \cup {i}) = Cardinality(Before(i)) + 1
    BY <1>3, FS_AddElement
  <2>3. Cardinality(Before(i) \cup {i}) <= Cardinality(Before(j))
    BY <1>3, <2>1, FS_Subset
  <2> QED BY <1>3, <2>2, <2>3
<1>5. \A i, j \in D : i # j => i \in Before(j) \/ j \in Before(i)
  <2>1. ASSUME NEW i \in D, NEW j \in D, i # j PROVE i \in Before(j) \/ j \in Before(i)
    <3>1. CASE s[i] = s[j]
      BY <1>1, <2>1, <3>1
    <3>2. CASE s[i] # s[j]
      BY <1>1, <3>2, NearerOrders
    <3> QED BY <3>1, <3>2
  <2> QED BY <2>1
<1> HIDE DEF Before
<1>6. rank \in Injection(D, D)
  <2>1. rank \in [D -> D]
    BY <1>1, <1>3
  <2>2. ASSUME NEW i \in D, NEW j \in D, rank[i] = rank[j] PROVE i = j
    BY <1>3, <1>4, <1>5, <2>2
  <2> HIDE DEF rank
  <2> QED BY <2>1, <2>2 DEF Injection, IsInjective
<1>7. \A r \in D : \E i \in D : rank[i] = r
  <2> HIDE DEF rank
  <2>1. rank \in Surjection(D, D)
    BY <1>2, <1>6, FS_Injection
  <2> QED BY <2>1 DEF Surjection
<1>8. \A r \in D : \E p \in places : p[2] = r
  <2>1. ASSUME NEW r \in D PROVE \E p \in places : p[2] = r
    <3>1. PICK i \in D : 1 + Cardinality(Before(i)) = r
      BY <1>7
    <3>2. <<i, r>> \in places
      BY <3>1
    <3> QED BY <3>2
  <2> QED BY <2>1
<1>9. \A p \in places : p[1] \in D
  OBVIOUS
<1> DEFINE at(r) == (CHOOSE p \in places : p[2] = r)[1]
<1>10. \A r \in D : at(r) \in D
  <2> HIDE DEF places
  <2> QED BY <1>8, <1>9
<1>11. ByDistance(s, target) = [r \in D |-> s[at(r)]]
  BY <1>1 DEF ByDistance, Before
<1>15. ASSUME NEW i \in D PROVE rank[i] \in D /\ at(rank[i]) = i
  <2>1. rank[i] \in D /\ <<i, rank[i]>> \in places
    <3>1. rank[i] \in D
      <4> HIDE DEF rank
      <4> QED BY <1>6 DEF Injection
    <3> QED BY <3>1
  <2>2. \A p \in places : p[2] = rank[i] => p[1] = i
    <3>1. ASSUME NEW j \in D, rank[j] = rank[i] PROVE j = i
      <4> HIDE DEF rank
      <4> QED BY <1>6, <3>1 DEF Injection, IsInjective
    <3>2. ASSUME NEW p \in places, p[2] = rank[i] PROVE p[1] = i
      <4>1. PICK j \in D : p = <<j, rank[j]>>
        OBVIOUS
      <4> QED BY <3>1, <3>2, <4>1
    <3> QED BY <3>2
  <2>3. \E p \in places : p[2] = rank[i]
    BY <2>1
  <2> HIDE DEF places, rank
  <2> QED BY <2>1, <2>2, <2>3
<1> HIDE DEF at, places, rank
<1>12. \A r \in D : ByDistance(s, target)[r] = s[at(r)] /\ s[at(r)] \in Nodes
  BY <1>1, <1>10, <1>11
<1>13. ByDistance(s, target) \in [1..Len(s) -> Nodes]
  BY <1>11, <1>12
<1>14. \A t : t \in [1..Len(s) -> Nodes] => t \in Seq(Nodes) /\ Len(t) = Len(s)
  BY <1>1
<1>16. \A i \in D : \E r \in D : ByDistance(s, target)[r] = s[i]
  BY <1>12, <1>15
<1> QED BY <1>10, <1>12, <1>13, <1>14, <1>16

LEMMA FirstOfIs ==
  ASSUME NEW s \in Seq(Nodes), NEW k \in Nat \ {0}
  PROVE  /\ FirstOf(s, k) \in Seq(Nodes)
         /\ ToSet(FirstOf(s, k)) \subseteq ToSet(s)
         /\ s # <<>> => FirstOf(s, k) # <<>>
<1> DEFINE T == {k, Len(s)}
           m == Min(T)
<1>1. m \in T /\ m <= k /\ m <= Len(s)
  <2>1. T \in SUBSET Nat /\ T # {}
    OBVIOUS
  <2> HIDE DEF T
  <2>2. m \in T /\ \A y \in T : m <= y
    BY <2>1, MinIs
  <2> QED BY <2>2 DEF T
<1> HIDE DEF m
<1>2. m \in Nat /\ m <= Len(s) /\ (s # <<>> => m > 0)
  BY <1>1
<1>3. FirstOf(s, k) = SubSeq(s, 1, m)
  BY DEF FirstOf, m
<1> QED BY <1>2, <1>3 DEF ToSet

-----------------------------------------------------------------------------
\* Buckets.

LEMMA NodesFinite == IsFiniteSet(Nodes)
<1>1. IsFiniteSet(Positions)
  <2>1. \A k \in Nat : IsFiniteSet(1..k)
    BY FS_Interval
  <2> QED BY <2>1, BoundsAssumption DEF Positions
<1>2. IsFiniteSet(SUBSET Positions)
  BY <1>1, FS_SUBSET
<1>3. ID \in Injection(Nodes, SUBSET Positions)
  BY NodesAssumption DEF Injection, IsInjective
<1> QED BY <1>2, <1>3, FS_Injection

Places == 0..IDLength - 1

LEMMA IndexIsPlace ==
  ASSUME NEW n \in Nodes, NEW m \in Nodes
  PROVE  getBucketIndex(n, m) \in Places
<1>1. getBucketIndex(n, m) = IF n = m THEN 0 ELSE Min(XOR(ID[n], ID[m])) - 1
  BY DEF getBucketIndex, bucketIndexes
<1>2. CASE n = m
  BY <1>1, <1>2, BoundsAssumption DEF Places
<1>3. CASE n # m
  <2> DEFINE T == XOR(ID[n], ID[m])
  <2>1. T \in SUBSET Positions /\ T # {}
    BY <1>3, NodesAssumption DEF XOR
  <2>2. Positions \in SUBSET Nat
    BY BoundsAssumption DEF Positions
  <2> HIDE DEF T
  <2>3. Min(T) \in Positions
    BY <2>1, <2>2, MinIs
  <2>4. getBucketIndex(n, m) = Min(T) - 1
    BY <1>1, <1>3 DEF T
  <2> QED BY <2>3, <2>4, BoundsAssumption DEF Places, Positions
<1> QED BY <1>2, <1>3

\* A bucket of local holds no more than K, nobody twice, and only nodes of its
\* place.
GoodBucket(b, local, i) ==
  /\ b \in Seq(Nodes)
  /\ Len(b) <= K
  /\ \A h, l \in 1..Len(b) : b[h] = b[l] => h = l
  /\ \A h \in 1..Len(b) : b[h] # local /\ getBucketIndex(local, b[h]) = i

\* What becomes of a bucket when n is added: all but at most the first stay, and
\* all when there is room or n is there.
LEMMA AddToBucketIs ==
  ASSUME NEW local \in Nodes, NEW i \in Places, NEW b, GoodBucket(b, local, i),
         NEW n \in Nodes, n # local, getBucketIndex(local, n) = i
  PROVE  /\ GoodBucket(AddToBucket(b, n), local, i)
         /\ \A m : m \in ToSet(AddToBucket(b, n)) => m = n \/ m \in ToSet(b)
         /\ n \in ToSet(AddToBucket(b, n))
         /\ n \in ToSet(b) \/ Len(b) < K =>
              \A m \in ToSet(b) : m \in ToSet(AddToBucket(b, n))
<1> DEFINE L == Len(b)
           T == {h \in 1..L : b[h] = n}
           j == IF T # {} THEN Min(T) ELSE 0
           c == AddToBucket(b, n)
<1>0. b \in Seq(Nodes) /\ L \in Nat /\ L <= K /\ K \in Nat \ {0}
  BY BoundsAssumption DEF GoodBucket
<1>1. c = CASE j > 0 -> Append(RemoveAt(b, j), n)
            [] j = 0 /\ L < K -> Append(b, n)
            [] OTHER -> [b EXCEPT ![1] = n]
  BY DEF AddToBucket, SelectInSeq
<1>2. (j = 0 /\ T = {}) \/ j \in T
  <2>1. CASE T = {}
    BY <2>1
  <2>2. CASE T # {}
    <3>1. T \in SUBSET Nat
      BY <1>0
    <3> HIDE DEF T
    <3>2. Min(T) \in T
      BY <2>2, <3>1, MinIs
    <3> QED BY <2>2, <3>2
  <2> QED BY <2>1, <2>2
<1>3. /\ \A h, l \in 1..L : b[h] = b[l] => h = l
      /\ \A h \in 1..L : b[h] # local /\ getBucketIndex(local, b[h]) = i
      /\ \A m : m \in ToSet(b) <=> \E h \in 1..L : b[h] = m
  BY <1>0 DEF GoodBucket, ToSet
<1> HIDE DEF j, c
<1>4. CASE j \in T
  <2>1. j \in 1..L /\ b[j] = n /\ j > 0
    BY <1>0, <1>4
  <2>2. c = Append(SubSeq(b, 1, j - 1) \o SubSeq(b, j + 1, L), n)
    <3>1. c = Append(RemoveAt(b, j), n)
      BY <1>1, <2>1
    <3>2. RemoveAt(b, j) = SubSeq(b, 1, j - 1) \o SubSeq(b, j + 1, L)
      BY DEF RemoveAt
    <3> QED BY <3>1, <3>2
  <2>3. /\ c \in Seq(Nodes) /\ Len(c) = L
        /\ \A h \in 1..L : c[h] = IF h < j THEN b[h] ELSE IF h < L THEN b[h + 1] ELSE n
    <3> DEFINE x == SubSeq(b, 1, j - 1)
               y == SubSeq(b, j + 1, L)
               z == x \o y
    <3>1. x \in Seq(Nodes) /\ Len(x) = j - 1 /\ \A h \in 1..j - 1 : x[h] = b[h]
      BY <1>0, <2>1
    <3>2. y \in Seq(Nodes) /\ Len(y) = L - j /\ \A h \in 1..L - j : y[h] = b[j + h]
      BY <1>0, <2>1
    <3> HIDE DEF x, y
    <3>3. /\ z \in Seq(Nodes) /\ Len(z) = L - 1
          /\ \A h \in 1..L - 1 : z[h] = IF h < j THEN b[h] ELSE b[h + 1]
      <4>1. z \in Seq(Nodes) /\ Len(z) = L - 1
        <5>1. z \in Seq(Nodes) /\ Len(z) = Len(x) + Len(y)
          BY <3>1, <3>2
        <5>2. (j - 1) + (L - j) = L - 1
          BY <1>0, <2>1
        <5> QED BY <3>1, <3>2, <5>1, <5>2
      <4>2. ASSUME NEW h \in 1..L - 1, h < j PROVE z[h] = b[h]
        BY <1>0, <2>1, <3>1, <3>2, <4>2
      <4>3. ASSUME NEW h \in 1..L - 1, ~(h < j) PROVE z[h] = b[h + 1]
        <5>1. z[h] = y[h - (j - 1)] /\ h - (j - 1) \in 1..L - j
          BY <1>0, <2>1, <3>1, <3>2, <4>3
        <5>2. j + (h - (j - 1)) = h + 1
          BY <1>0, <2>1, <4>3
        <5> QED BY <3>2, <5>1, <5>2
      <4> QED BY <4>1, <4>2, <4>3
    <3> HIDE DEF z
    <3>4. c = Append(z, n)
      BY <2>2 DEF x, y, z
    <3>5. /\ c \in Seq(Nodes) /\ Len(c) = L /\ c[L] = n
          /\ \A h \in 1..L - 1 : c[h] = z[h]
      BY <1>0, <2>1, <3>3, <3>4
    <3> QED BY <1>0, <2>1, <3>3, <3>5
  <2>4. \A h \in 1..L : c[h] = IF h < j THEN b[h] ELSE IF h < L THEN b[h + 1] ELSE b[j]
    BY <2>1, <2>3
  <2>5. \A h, l \in 1..L : c[h] = c[l] => h = l
    BY <1>0, <1>3, <2>1, <2>4
  <2>6. \A h \in 1..L : \E l \in 1..L : c[h] = b[l]
    BY <1>0, <2>1, <2>4, SMTT(20)
  <2>7. \A l \in 1..L : \E h \in 1..L : c[h] = b[l]
    <3>1. ASSUME NEW l \in 1..L PROVE \E h \in 1..L : c[h] = b[l]
      <4>1. CASE l < j
        BY <1>0, <2>1, <2>4, <4>1
      <4>2. CASE l = j
        <5>1. L \in 1..L /\ c[L] = b[j]
          BY <1>0, <2>1, <2>4
        <5> QED BY <4>2, <5>1
      <4>3. CASE l > j
        <5>1. l - 1 \in 1..L /\ ~(l - 1 < j) /\ l - 1 < L /\ (l - 1) + 1 = l
          BY <1>0, <2>1, <4>3
        <5>2. c[l - 1] = b[(l - 1) + 1]
          BY <2>4, <5>1
        <5> QED BY <5>1, <5>2
      <4> QED BY <1>0, <2>1, <4>1, <4>2, <4>3
    <3> QED BY <3>1
  <2>8. \A m : m \in ToSet(c) <=> \E h \in 1..L : c[h] = m
    BY <1>0, <2>3 DEF ToSet
  <2>9. \A h \in 1..L : c[h] # local /\ getBucketIndex(local, c[h]) = i
    BY <1>3, <2>6
  <2>10. GoodBucket(c, local, i)
    BY <1>0, <2>3, <2>5, <2>9 DEF GoodBucket
  <2>11. \A m : m \in ToSet(c) <=> m \in ToSet(b)
    BY <1>3, <2>6, <2>7, <2>8, ZenonT(30)
  <2> QED BY <1>3, <2>1, <2>10, <2>11 DEF c
<1>5. CASE j = 0 /\ T = {} /\ L < K
  <2>1. c = Append(b, n)
    BY <1>1, <1>5
  <2>2. /\ c \in Seq(Nodes) /\ Len(c) = L + 1 /\ c[L + 1] = n
        /\ \A h \in 1..L : c[h] = b[h] /\ b[h] # n
    BY <1>0, <1>5, <2>1
  <2>3. \A h \in 1..L + 1 : h \in 1..L \/ h = L + 1
    BY <1>0
  <2>4. L + 1 \in 1..L + 1 /\ L + 1 <= K /\ \A h \in 1..L : h \in 1..L + 1
    BY <1>0, <1>5
  <2>5. GoodBucket(c, local, i)
    BY <1>3, <2>2, <2>3, <2>4 DEF GoodBucket
  <2>6. \A m : m \in ToSet(c) <=> \E h \in 1..L + 1 : c[h] = m
    BY <1>0, <2>2 DEF ToSet
  <2>7. \A m : m \in ToSet(c) <=> m = n \/ m \in ToSet(b)
    BY <1>3, <2>2, <2>3, <2>4, <2>6
  <2> QED BY <2>5, <2>7 DEF c
<1>6. CASE j = 0 /\ T = {} /\ ~(L < K)
  <2>1. c = [b EXCEPT ![1] = n] /\ L = K /\ 1 \in 1..L
    BY <1>0, <1>1, <1>6
  <2>2. /\ c \in Seq(Nodes) /\ Len(c) = L /\ c[1] = n
        /\ \A h \in 1..L : b[h] # n /\ (h # 1 => c[h] = b[h])
    BY <1>0, <1>6, <2>1
  <2>3. GoodBucket(c, local, i)
    BY <1>0, <1>3, <2>1, <2>2 DEF GoodBucket
  <2>4. \A m : m \in ToSet(c) <=> \E h \in 1..L : c[h] = m
    BY <1>0, <2>2 DEF ToSet
  <2>5. n \notin ToSet(b)
    BY <1>3, <2>2
  <2>6. n \in ToSet(c)
    BY <2>1, <2>2, <2>4
  <2>7. ASSUME NEW m, m \in ToSet(c) PROVE m = n \/ m \in ToSet(b)
    BY <1>3, <2>2, <2>4, <2>7
  <2>8. ~ (n \in ToSet(b) \/ L < K)
    BY <1>6, <2>5
  <2> QED BY <2>3, <2>6, <2>7, <2>8 DEF c
<1> QED BY <1>0, <1>2, <1>4, <1>5, <1>6

\* Where there is room for all nodes that may stand in a bucket of local.
Roomy(local) ==
  \A i \in Places : Cardinality({m \in Nodes \ {local} : getBucketIndex(local, m) = i}) <= K

\* A bucket that lacks somebody is not full.
LEMMA RoomInBucket ==
  ASSUME NEW local \in Nodes, Roomy(local), NEW i \in Places, NEW b, GoodBucket(b, local, i),
         NEW n \in Nodes, n # local, getBucketIndex(local, n) = i, n \notin ToSet(b)
  PROVE  Len(b) < K
<1> DEFINE S == {m \in Nodes \ {local} : getBucketIndex(local, m) = i}
           R == S \ {n}
<1>1. b \in Seq(Nodes) /\ Len(b) \in Nat /\ K \in Nat
  BY BoundsAssumption DEF GoodBucket
<1>2. IsFiniteSet(S) /\ n \in S
  <2>1. S \subseteq Nodes /\ n \in S
    OBVIOUS
  <2> HIDE DEF S
  <2> QED BY <2>1, NodesFinite, FS_Subset
<1>3. Cardinality(S) <= K
  BY DEF Roomy
<1>4. b \in Injection(1..Len(b), R)
  <2>1. \A h \in 1..Len(b) : b[h] \in Nodes /\ b[h] # n
    BY <1>1 DEF ToSet
  <2>2. \A h \in 1..Len(b) : b[h] \in R
    BY <2>1 DEF GoodBucket
  <2> HIDE DEF R
  <2>3. DOMAIN b = 1..Len(b) /\ b = [h \in 1..Len(b) |-> b[h]]
    BY <1>1
  <2>4. b \in [1..Len(b) -> R]
    BY <2>2, <2>3
  <2> QED BY <2>3, <2>4 DEF Injection, IsInjective, GoodBucket
<1> HIDE DEF S
<1>5. IsFiniteSet(R) /\ Cardinality(R) = Cardinality(S) - 1 /\ Cardinality(S) \in Nat
  BY <1>2, FS_RemoveElement, FS_CardinalityType
<1> HIDE DEF R
<1>6. Cardinality(1..Len(b)) <= Cardinality(R)
  BY <1>4, <1>5, FS_Injection
<1>7. Cardinality(1..Len(b)) = Len(b)
  <2>1. \A k \in Nat : Cardinality(1..k) = k
    BY FS_Interval
  <2> QED BY <1>1, <2>1
<1> QED BY <1>1, <1>3, <1>5, <1>6, <1>7

-----------------------------------------------------------------------------
\* Tables.

GoodTable(t, local) ==
  /\ t \in [Places -> Seq(Nodes)]
  /\ \A i \in Places : GoodBucket(t[i], local, i)

LEMMA ContactsAre ==
  ASSUME NEW t \in [Places -> Seq(Nodes)]
  PROVE  /\ \A m : m \in Contacts(t) <=> \E i \in Places : m \in ToSet(t[i])
         /\ Contacts(t) \subseteq Nodes
<1>1. \A m : m \in Contacts(t) <=> \E i \in Places : m \in ToSet(t[i])
  BY DEF Contacts
<1>2. \A i \in Places : ToSet(t[i]) \subseteq Nodes
  BY DEF ToSet
<1> QED BY <1>1, <1>2

LEMMA NewTableIs ==
  ASSUME NEW local \in Nodes
  PROVE  GoodTable(NewRoutingTable, local) /\ Contacts(NewRoutingTable) = {}
<1>1. /\ NewRoutingTable \in [Places -> Seq(Nodes)]
      /\ \A i \in Places : NewRoutingTable[i] = <<>>
  BY DEF NewRoutingTable, NewBucket, Places
<1>2. GoodTable(NewRoutingTable, local)
  BY <1>1, BoundsAssumption DEF GoodTable, GoodBucket
<1>3. \A i \in Places : ToSet(NewRoutingTable[i]) = {}
  BY <1>1 DEF ToSet
<1> QED BY <1>1, <1>2, <1>3, ContactsAre

\* A node added is there, nobody comes with it, and nobody goes where there is room.
LEMMA AddContactIs ==
  ASSUME NEW local \in Nodes, NEW t, GoodTable(t, local), NEW n \in Nodes
  PROVE  /\ GoodTable(AddContact(t, local, n), local)
         /\ \A m : m \in Contacts(AddContact(t, local, n)) =>
              m \in Contacts(t) \/ (m = n /\ n # local)
         /\ n # local => n \in Contacts(AddContact(t, local, n))
         /\ Roomy(local) =>
              \A m : m \in Contacts(t) => m \in Contacts(AddContact(t, local, n))
<1>1. CASE n = local
  BY <1>1 DEF AddContact
<1>2. CASE n # local
  <2> DEFINE i == getBucketIndex(local, n)
             u == AddContact(t, local, n)
             c == AddToBucket(t[i], n)
  <2>1. i \in Places
    BY IndexIsPlace
  <2>2. t \in [Places -> Seq(Nodes)] /\ \A l \in Places : GoodBucket(t[l], local, l)
    BY DEF GoodTable
  <2>3. u = [t EXCEPT ![i] = c]
    BY <1>2 DEF AddContact
  <2> HIDE DEF u
  <2>4. /\ GoodBucket(c, local, i)
        /\ \A m : m \in ToSet(c) => m = n \/ m \in ToSet(t[i])
        /\ n \in ToSet(c)
        /\ n \in ToSet(t[i]) \/ Len(t[i]) < K => \A m \in ToSet(t[i]) : m \in ToSet(c)
    BY <1>2, <2>1, <2>2, AddToBucketIs
  <2>5. Roomy(local) => n \in ToSet(t[i]) \/ Len(t[i]) < K
    BY <1>2, <2>1, <2>2, RoomInBucket
  <2> HIDE DEF i, c
  <2>6. c \in Seq(Nodes)
    BY <2>4 DEF GoodBucket
  <2>7. /\ u \in [Places -> Seq(Nodes)] /\ u[i] = c
        /\ \A l \in Places : l # i => u[l] = t[l]
    BY <2>1, <2>2, <2>3, <2>6
  <2>8. GoodTable(u, local)
    BY <2>2, <2>4, <2>7 DEF GoodTable
  <2>9. \A m : m \in Contacts(u) <=> \E l \in Places : m \in ToSet(u[l])
    BY <2>7, ContactsAre
  <2>10. \A m : m \in Contacts(t) <=> \E l \in Places : m \in ToSet(t[l])
    BY <2>2, ContactsAre
  <2>11. \A m : m \in Contacts(u) => m \in Contacts(t) \/ m = n
    BY <2>1, <2>4, <2>7, <2>9, <2>10
  <2>12. n \in Contacts(u)
    BY <2>1, <2>4, <2>7, <2>9
  <2>13. Roomy(local) => \A m : m \in Contacts(t) => m \in Contacts(u)
    <3>1. SUFFICES ASSUME Roomy(local), NEW l \in Places, NEW m \in ToSet(t[l])
                   PROVE  \E h \in Places : m \in ToSet(u[h])
      BY <2>9, <2>10
    <3> QED BY <2>1, <2>4, <2>5, <2>7, <3>1
  <2> QED BY <1>2, <2>8, <2>11, <2>12, <2>13 DEF u
<1> QED BY <1>1, <1>2

\* The tables that AddAll goes through, one for every prefix of nodes.
AddsTo(g, k, table, local, nodes) ==
  g = [i \in 0..k |-> IF i = 0 THEN table ELSE AddContact(g[i - 1], local, nodes[i])]

LEMMA AddAllSteps ==
  ASSUME NEW table, NEW local, NEW nodes \in Seq(Nodes)
  PROVE  \E g : /\ g[0] = table
                /\ \A i \in 1..Len(nodes) : g[i] = AddContact(g[i - 1], local, nodes[i])
                /\ AddAll(table, local, nodes) = g[Len(nodes)]
<1> DEFINE L == Len(nodes)
           T == {k \in 0..L : \E g : AddsTo(g, k, table, local, nodes)}
<1>0. L \in Nat
  OBVIOUS
<1>1. 0 \in T
  <2>1. AddsTo([i \in 0..0 |-> table], 0, table, local, nodes)
    BY DEF AddsTo
  <2> QED BY <1>0, <2>1
<1>2. ASSUME NEW k \in 0..L - 1, k \in T PROVE k + 1 \in T
  <2>1. PICK g : AddsTo(g, k, table, local, nodes)
    BY <1>2
  <2>2. \A i \in 0..k :
          g[i] = IF i = 0 THEN table ELSE AddContact(g[i - 1], local, nodes[i])
    BY <2>1 DEF AddsTo
  <2> DEFINE f == [i \in 0..k + 1 |->
                     IF i = k + 1 THEN AddContact(g[k], local, nodes[k + 1]) ELSE g[i]]
  <2>3. ASSUME NEW i \in 0..k + 1
        PROVE  f[i] = IF i = 0 THEN table ELSE AddContact(f[i - 1], local, nodes[i])
    <3>1. CASE i = k + 1
      <4>1. f[i] = AddContact(g[k], local, nodes[i]) /\ f[i - 1] = g[k] /\ i # 0
        BY <1>0, <1>2, <3>1
      <4> QED BY <4>1
    <3>2. CASE i \in 0..k
      <4>1. f[i] = g[i] /\ (i # 0 => f[i - 1] = g[i - 1])
        BY <1>0, <1>2, <3>2
      <4> QED BY <2>2, <3>2, <4>1
    <3> QED BY <1>0, <1>2, <3>1, <3>2
  <2>4. f = [i \in 0..k + 1 |-> f[i]]
    OBVIOUS
  <2> HIDE DEF f
  <2>5. AddsTo(f, k + 1, table, local, nodes)
    BY <2>3, <2>4 DEF AddsTo
  <2> QED BY <1>0, <2>5
<1>3. \E g : AddsTo(g, L, table, local, nodes)
  <2> HIDE DEF T
  <2>1. \A k \in 0..L : k \in T
    BY <1>0, <1>1, <1>2, UpTo
  <2>2. L \in T
    BY <1>0, <2>1
  <2> QED BY <2>2 DEF T
<1> DEFINE after == CHOOSE g : AddsTo(g, L, table, local, nodes)
<1>4. AddsTo(after, L, table, local, nodes)
  BY <1>3
<1>5. AddAll(table, local, nodes) = after[L]
  BY DEF AddAll, AddsTo
<1> HIDE DEF after
<1>6. \A i \in 0..L :
        after[i] = IF i = 0 THEN table ELSE AddContact(after[i - 1], local, nodes[i])
  BY <1>4 DEF AddsTo
<1>7. after[0] = table
  BY <1>0, <1>6
<1>8. \A i \in 1..L : after[i] = AddContact(after[i - 1], local, nodes[i])
  BY <1>0, <1>6
<1> QED BY <1>5, <1>7, <1>8

LEMMA AddAllIs ==
  ASSUME NEW local \in Nodes, NEW t, GoodTable(t, local), NEW nodes \in Seq(Nodes)
  PROVE  /\ GoodTable(AddAll(t, local, nodes), local)
         /\ \A m : m \in Contacts(AddAll(t, local, nodes)) => m \in Contacts(t) \cup ToSet(nodes)
         /\ Roomy(local) =>
              \A m : m \in (Contacts(t) \cup ToSet(nodes)) \ {local} =>
                m \in Contacts(AddAll(t, local, nodes))
<1> DEFINE L == Len(nodes)
<1>0. L \in Nat /\ \A i \in 1..L : nodes[i] \in Nodes
  OBVIOUS
<1>1. PICK g : /\ g[0] = t
               /\ \A i \in 1..L : g[i] = AddContact(g[i - 1], local, nodes[i])
               /\ AddAll(t, local, nodes) = g[L]
  BY AddAllSteps
<1>2. \A m : m \in ToSet(nodes) <=> \E i \in 1..L : m = nodes[i]
  BY DEF ToSet
<1> DEFINE Had(k) == Contacts(t) \cup {nodes[h] : h \in 1..k}
           T == {k \in 0..L :
                   /\ GoodTable(g[k], local)
                   /\ \A m : m \in Contacts(g[k]) => m \in Had(k)
                   /\ Roomy(local) => \A m : m \in Had(k) \ {local} => m \in Contacts(g[k])}
<1>3. 0 \in T
  BY <1>0, <1>1
<1>4. ASSUME NEW k \in 0..L - 1, k \in T PROVE k + 1 \in T
  <2>1. k + 1 \in 1..L /\ k + 1 \in 0..L /\ (k + 1) - 1 = k
    BY <1>0, <1>4
  <2>2. g[k + 1] = AddContact(g[k], local, nodes[k + 1]) /\ nodes[k + 1] \in Nodes
    BY <1>0, <1>1, <2>1
  <2>3. GoodTable(g[k], local)
    BY <1>4
  <2>4. \A m : m \in Had(k + 1) <=> m \in Had(k) \/ m = nodes[k + 1]
    <3>1. \A h : h \in 1..k + 1 <=> h \in 1..k \/ h = k + 1
      BY <1>0, <1>4
    <3> QED BY <3>1
  <2>5. /\ \A m : m \in Contacts(g[k]) => m \in Had(k)
        /\ Roomy(local) => \A m : m \in Had(k) \ {local} => m \in Contacts(g[k])
    BY <1>4
  <2> HIDE DEF Had
  <2> DEFINE n == nodes[k + 1]
             u == g[k]
  <2>6. /\ GoodTable(AddContact(u, local, n), local)
        /\ \A m : m \in Contacts(AddContact(u, local, n)) =>
             m \in Contacts(u) \/ (m = n /\ n # local)
        /\ n # local => n \in Contacts(AddContact(u, local, n))
        /\ Roomy(local) =>
             \A m : m \in Contacts(u) => m \in Contacts(AddContact(u, local, n))
    <3>1. n \in Nodes /\ GoodTable(u, local)
      BY <2>2, <2>3
    <3> HIDE DEF n, u
    <3> QED BY <3>1, AddContactIs
  <2>7. GoodTable(g[k + 1], local)
    BY <2>2, <2>6
  <2>8. \A m : m \in Contacts(g[k + 1]) => m \in Had(k + 1)
    BY <2>2, <2>4, <2>5, <2>6
  <2>9. Roomy(local) => \A m : m \in Had(k + 1) \ {local} => m \in Contacts(g[k + 1])
    BY <2>2, <2>4, <2>5, <2>6
  <2> QED BY <2>1, <2>7, <2>8, <2>9
<1>5. L \in T
  <2> HIDE DEF T
  <2>1. \A k \in 0..L : k \in T
    BY <1>0, <1>3, <1>4, UpTo
  <2> QED BY <1>0, <2>1
<1>6. \A m : m \in Had(L) <=> m \in Contacts(t) \cup ToSet(nodes)
  BY <1>2
<1> HIDE DEF Had
<1> QED BY <1>1, <1>5, <1>6

-----------------------------------------------------------------------------
\* Sequences of nodes.

LEMMA Elements ==
  ASSUME NEW s \in Seq(Nodes)
  PROVE  /\ \A m : m \in ToSet(s) <=> \E i \in 1..Len(s) : s[i] = m
         /\ ToSet(s) \subseteq Nodes
BY DEF ToSet

LEMMA EmptyIs == <<>> \in Seq(Nodes) /\ ToSet(<<>>) = {}
BY DEF ToSet

LEMMA Concatenated ==
  ASSUME NEW s \in Seq(Nodes), NEW t \in Seq(Nodes)
  PROVE  s \o t \in Seq(Nodes) /\ ToSet(s \o t) = ToSet(s) \cup ToSet(t)
<1> DEFINE u == s \o t
<1>1. /\ u \in Seq(Nodes) /\ Len(u) = Len(s) + Len(t)
      /\ \A i \in 1..Len(s) : u[i] = s[i]
      /\ \A i \in Len(s) + 1..Len(s) + Len(t) : u[i] = t[i - Len(s)]
  OBVIOUS
<1> HIDE DEF u
<1>2. \A i \in 1..Len(t) : u[Len(s) + i] = t[i] /\ Len(s) + i \in 1..Len(u)
  <2>1. ASSUME NEW i \in 1..Len(t) PROVE u[Len(s) + i] = t[i] /\ Len(s) + i \in 1..Len(u)
    <3>1. Len(s) + i \in Len(s) + 1..Len(s) + Len(t) /\ (Len(s) + i) - Len(s) = i
      OBVIOUS
    <3>2. Len(s) + i \in 1..Len(u)
      BY <1>1, <3>1
    <3>3. u[Len(s) + i] = t[(Len(s) + i) - Len(s)]
      BY <1>1, <3>1
    <3> QED BY <3>1, <3>2, <3>3
  <2> QED BY <2>1
<1>3. \A i \in 1..Len(u) : i \in 1..Len(s) \/ (i - Len(s) \in 1..Len(t) /\ u[i] = t[i - Len(s)])
  BY <1>1
<1>4. \A i \in 1..Len(s) : i \in 1..Len(u)
  BY <1>1
<1>5. \A m : m \in ToSet(u) <=> m \in ToSet(s) \cup ToSet(t)
  <2>1. \A m : m \in ToSet(u) <=> \E i \in 1..Len(u) : u[i] = m
    BY <1>1, Elements
  <2>2. /\ \A m : m \in ToSet(s) <=> \E i \in 1..Len(s) : s[i] = m
        /\ \A m : m \in ToSet(t) <=> \E i \in 1..Len(t) : t[i] = m
    BY Elements
  <2>3. ASSUME NEW m \in ToSet(u) PROVE m \in ToSet(s) \cup ToSet(t)
    BY <1>1, <1>3, <2>1, <2>2, ZenonT(30)
  <2>4. ASSUME NEW m \in ToSet(s) PROVE m \in ToSet(u)
    BY <1>1, <1>4, <2>1, <2>2
  <2>5. ASSUME NEW m \in ToSet(t) PROVE m \in ToSet(u)
    BY <1>1, <1>2, <2>1, <2>2
  <2> QED BY <2>3, <2>4, <2>5
<1> QED BY <1>1, <1>5 DEF u

-----------------------------------------------------------------------------
\* The nearest contacts.

LEMMA SetToSeqIs ==
  ASSUME NEW S \in SUBSET Nodes
  PROVE  SetToSeq(S) \in Seq(Nodes) /\ ToSet(SetToSeq(S)) = S
<1> DEFINE c == Cardinality(S)
           s == SetToSeq(S)
<1>1. IsFiniteSet(S) /\ c \in Nat /\ ExistsBijection(1..c, S)
  BY NodesFinite, FS_Subset, FS_CardinalityType
<1>2. \E f \in [1..c -> S] : IsInjective(f)
  BY <1>1 DEF ExistsBijection, Bijection, Injection
<1>3. s \in [1..c -> S] /\ IsInjective(s)
  BY <1>2 DEF SetToSeq
<1> HIDE DEF s
<1>4. s \in Injection(1..c, S)
  BY <1>3 DEF Injection
<1>5. s \in Surjection(1..c, S)
  <2>1. Cardinality(1..c) = c
    <3>1. \A k \in Nat : Cardinality(1..k) = k
      BY FS_Interval
    <3> QED BY <1>1, <3>1
  <2> QED BY <1>1, <1>4, <2>1, FS_Injection
<1>6. s \in Seq(Nodes) /\ DOMAIN s = 1..c
  BY <1>1, <1>3
<1>7. \A m : m \in ToSet(s) <=> m \in S
  BY <1>3, <1>5, <1>6 DEF ToSet, Surjection
<1> QED BY <1>6, <1>7 DEF s

LEMMA DistanceOf ==
  ASSUME NEW s \in Seq(Nodes), NEW target \in Sought, NEW k \in Nat \ {0}
  PROVE  /\ FirstOf(ByDistance(s, target), k) \in Seq(Nodes)
         /\ ToSet(FirstOf(ByDistance(s, target), k)) \subseteq ToSet(s)
         /\ ToSet(s) # {} => FirstOf(ByDistance(s, target), k) # <<>>
<1> DEFINE b == ByDistance(s, target)
<1>1. /\ b \in Seq(Nodes) /\ Len(b) = Len(s)
      /\ \A r \in 1..Len(s) : \E i \in 1..Len(s) : b[r] = s[i]
  BY DistancePermutes
<1> HIDE DEF b
<1>2. /\ FirstOf(b, k) \in Seq(Nodes) /\ ToSet(FirstOf(b, k)) \subseteq ToSet(b)
      /\ b # <<>> => FirstOf(b, k) # <<>>
  BY <1>1, FirstOfIs
<1>3. ToSet(b) \subseteq ToSet(s)
  BY <1>1, Elements
<1>4. ToSet(s) # {} => b # <<>>
  <2>1. ToSet(s) # {} => Len(s) # 0
    BY DEF ToSet
  <2> QED BY <1>1, <2>1
<1> QED BY <1>2, <1>3, <1>4 DEF b

LEMMA FindClosestNodesIs ==
  ASSUME NEW t \in [Places -> Seq(Nodes)], NEW target \in Sought, NEW k \in Nat \ {0}
  PROVE  /\ FindClosestNodes(t, target, k) \in Seq(Nodes)
         /\ ToSet(FindClosestNodes(t, target, k)) \subseteq Contacts(t)
         /\ Contacts(t) # {} => FindClosestNodes(t, target, k) # <<>>
<1> DEFINE s == SetToSeq(Contacts(t))
<1>1. Contacts(t) \in SUBSET Nodes
  BY ContactsAre
<1>2. s \in Seq(Nodes) /\ ToSet(s) = Contacts(t)
  BY <1>1, SetToSeqIs
<1> HIDE DEF s
<1>3. FindClosestNodes(t, target, k) = FirstOf(ByDistance(s, target), k)
  BY DEF FindClosestNodes, s
<1> QED BY <1>2, <1>3, DistanceOf

-----------------------------------------------------------------------------
\* The nodes.

\* The steps of a join, and where a join can be.
Steps == {"off", "ping", "find", "connect", "lookup", "query", "joined", "failed"}

States ==
  [at : Steps, todo : Seq(Nodes), nodes : Seq(Nodes), candidates : Seq(Nodes),
   queried : SUBSET Nodes, iteration : Nat, target : SUBSET Positions, lookups : Int]

GoodState(j) == j \in States /\ (j.at = "query" => j.target \in Sought)

Calls ==
  [from : Members, to : Nodes, type : {PING, FIND_NODE}, target : SUBSET Positions,
   for : {"ping", "find", "connect", "query", "nothing"}, copy : Nat, served : BOOLEAN,
   answer : Seq(Nodes) \cup {None}]

GoodCall(c) ==
  /\ c \in Calls
  /\ c.type = FIND_NODE => c.target \in Sought
  /\ c.served => c.answer \in Seq(Nodes)
  /\ c.for = "ping" => c.to = Bootstrap

Types ==
  /\ routingTable \in [Nodes -> [Places -> Seq(Nodes)]]
  /\ \A n \in Nodes : GoodTable(routingTable[n], n)
  /\ join \in [Nodes -> States]
  /\ \A n \in Nodes : GoodState(join[n])
  /\ joins \in [Nodes -> Nat]
  /\ \A c \in calls : GoodCall(c) /\ joins[c.from] > 0
  /\ \A n \in Members : join[n].at # "off" => joins[n] > 0
  /\ earlier \in [Nodes -> SUBSET Nodes]
  /\ troubled \subseteq Nodes

\* What a step of a node leaves: its table, its join and its calls.
GoodThen(s, n) ==
  /\ GoodTable(s.table, n)
  /\ GoodState(s.state)
  /\ \A c \in s.new : GoodCall(c) /\ c.from = n /\ ~c.served

\* Everybody that the bootstrap node knows, and itself.
Known == Contacts(routingTable[Bootstrap]) \cup {Bootstrap}

\* The joins that have heard of the bootstrap node.
Registered == {"find", "connect", "lookup", "query", "joined"}

\* All that a step leaves is of nodes in X.
Within(s, X) ==
  /\ Contacts(s.table) \subseteq X
  /\ ToSet(s.state.todo) \cup ToSet(s.state.nodes) \cup ToSet(s.state.candidates) \subseteq X
  /\ \A c \in s.new : c.to \in X


-----------------------------------------------------------------------------
\* The steps of a join.

LEMMA AtIs ==
  ASSUME NEW step \in {"off", "ping", "find", "connect", "lookup", "joined", "failed"}
  PROVE  /\ At(step) \in States /\ GoodState(At(step)) /\ At(step).at = step
         /\ At(step).todo = <<>> /\ At(step).nodes = <<>> /\ At(step).candidates = <<>>
<1>1. At(step) \in States
  BY EmptyIs DEF At, States, Steps
<1>2. /\ At(step).at = step /\ At(step).todo = <<>> /\ At(step).nodes = <<>>
      /\ At(step).candidates = <<>>
  BY DEF At
<1> QED BY <1>1, <1>2 DEF GoodState

LEMMA AtWithIs ==
  ASSUME NEW j \in States, j.at # "query", NEW N \in Int
  PROVE  /\ GoodState([j EXCEPT !.lookups = N])
         /\ [j EXCEPT !.lookups = N].todo = j.todo /\ [j EXCEPT !.lookups = N].nodes = j.nodes
         /\ [j EXCEPT !.lookups = N].candidates = j.candidates
         /\ [j EXCEPT !.lookups = N].at = j.at
<1> DEFINE k == [j EXCEPT !.lookups = N]
<1>1. k \in States /\ k.at = j.at
  BY DEF States
<1>2. k.todo = j.todo /\ k.nodes = j.nodes /\ k.candidates = j.candidates
  BY DEF States
<1> HIDE DEF k
<1>3. GoodState(k)
  BY <1>1 DEF GoodState
<1> QED BY <1>1, <1>2, <1>3 DEF k

LEMMA PingIs ==
  ASSUME NEW n \in Members, NEW m \in Nodes, NEW for \in {"ping", "connect", "nothing"},
         for = "ping" => m = Bootstrap
  PROVE  GoodCall(Ping(n, m, for))
BY DEF Ping, Call, GoodCall, Calls, PING, FIND_NODE, Members

LEMMA QuestionIs ==
  ASSUME NEW n \in Members, NEW m \in Nodes, NEW target \in Sought,
         NEW for \in {"find", "query"}, NEW copy \in Nat
  PROVE  GoodCall(Call(n, m, FIND_NODE, target, for, copy))
<1>1. target \in SUBSET Positions
  BY NodesAssumption, BoundsAssumption DEF Sought
<1> QED BY <1>1 DEF Call, GoodCall, Calls, FIND_NODE, Members

LEMMA FindNextIs ==
  ASSUME NEW n \in Members, NEW t, GoodTable(t, n), NEW todo \in Seq(Nodes), todo # <<>>,
         NEW nodes \in Seq(Nodes), NEW X,
         Contacts(t) \cup ToSet(todo) \cup ToSet(nodes) \subseteq X
  PROVE  GoodThen(FindNext(n, t, todo, nodes), n) /\ Within(FindNext(n, t, todo, nodes), X)
<1> DEFINE state == [At("find") EXCEPT !.todo = Tail(todo), !.nodes = nodes]
           c == Call(n, Head(todo), FIND_NODE, ID[n], "find", 1)
<1>1. /\ Tail(todo) \in Seq(Nodes) /\ Head(todo) \in Nodes
      /\ ToSet(Tail(todo)) \subseteq ToSet(todo) /\ Head(todo) \in ToSet(todo)
  <2>1. /\ Tail(todo) \in Seq(Nodes) /\ Len(Tail(todo)) = Len(todo) - 1
        /\ \A i \in 1..Len(todo) - 1 : Tail(todo)[i] = todo[i + 1]
        /\ Head(todo) = todo[1] /\ Len(todo) >= 1 /\ Len(todo) \in Nat
    OBVIOUS
  <2>2. \A i \in 1..Len(todo) - 1 : i + 1 \in 1..Len(todo)
    BY <2>1
  <2>3. \A m : m \in ToSet(Tail(todo)) <=> \E i \in 1..Len(todo) - 1 : Tail(todo)[i] = m
    <3> DEFINE u == Tail(todo)
    <3>1. u \in Seq(Nodes) /\ Len(u) = Len(todo) - 1
      BY <2>1
    <3> HIDE DEF u
    <3>2. \A m : m \in ToSet(u) <=> \E i \in 1..Len(u) : u[i] = m
      BY <3>1, Elements
    <3> QED BY <3>1, <3>2 DEF u
  <2>4. \A m : m \in ToSet(todo) <=> \E i \in 1..Len(todo) : todo[i] = m
    BY Elements
  <2>5. Head(todo) \in ToSet(todo) /\ Head(todo) \in Nodes
    BY <2>1, <2>4
  <2>6. ToSet(Tail(todo)) \subseteq ToSet(todo)
    BY <2>1, <2>2, <2>3, <2>4
  <2> QED BY <2>1, <2>5, <2>6
<1>2. /\ At("find") \in States /\ At("find").at = "find" /\ At("find").candidates = <<>>
  BY AtIs
<1>3. /\ state \in States /\ state.at = "find" /\ state.candidates = <<>>
      /\ state.todo = Tail(todo) /\ state.nodes = nodes
  BY <1>1, <1>2 DEF States, Steps
<1>4. ID[n] \in Sought
  BY DEF Sought, Members
<1>5. GoodCall(c) /\ c.from = n /\ c.to = Head(todo) /\ ~c.served
  <2>1. n \in Members /\ Head(todo) \in Nodes /\ ID[n] \in Sought /\ "find" \in {"find", "query"}
        /\ 1 \in Nat
    BY <1>1, <1>4
  <2>2. GoodCall(c)
    BY <2>1, QuestionIs
  <2> QED BY <2>2 DEF Call
<1>6. /\ FindNext(n, t, todo, nodes).table = t
      /\ FindNext(n, t, todo, nodes).state = state
      /\ FindNext(n, t, todo, nodes).new = {c}
  BY DEF FindNext, Then
<1> HIDE DEF state, c
<1>7. GoodThen(FindNext(n, t, todo, nodes), n)
  BY <1>3, <1>5, <1>6 DEF GoodThen, GoodState
<1> QED BY <1>1, <1>3, <1>5, <1>6, <1>7, EmptyIs, ZenonT(30) DEF Within

LEMMA FindNodeIs ==
  ASSUME NEW n \in Members, NEW t, GoodTable(t, n), Contacts(t) # {},
         NEW X, Contacts(t) \subseteq X
  PROVE  /\ GoodThen(FindNode(n, t), n) /\ Within(FindNode(n, t), X)
<1> DEFINE todo == FindClosestNodes(t, ID[n], ALPHA)
<1>1. t \in [Places -> Seq(Nodes)] /\ ID[n] \in Sought /\ ALPHA \in Nat \ {0}
  BY BoundsAssumption DEF GoodTable, Sought, Members
<1>2. todo \in Seq(Nodes) /\ todo # <<>> /\ ToSet(todo) \subseteq Contacts(t)
  BY <1>1, FindClosestNodesIs
<1> HIDE DEF todo
<1>3. FindNode(n, t) = FindNext(n, t, todo, <<>>)
  BY DEF FindNode, todo
<1>4. <<>> \in Seq(Nodes) /\ Contacts(t) \cup ToSet(todo) \cup ToSet(<<>>) \subseteq X
  BY <1>2, EmptyIs
<1>5. GoodThen(FindNext(n, t, todo, <<>>), n) /\ Within(FindNext(n, t, todo, <<>>), X)
  BY <1>2, <1>4, FindNextIs
<1> QED BY <1>3, <1>5

LEMMA ConnectIs ==
  ASSUME NEW n \in Members, NEW t, GoodTable(t, n), NEW todo \in Seq(Nodes), NEW X,
         Contacts(t) \cup ToSet(todo) \subseteq X
  PROVE  GoodThen(Connect(n, t, todo), n) /\ Within(Connect(n, t, todo), X)
<1> DEFINE T == {h \in 1..Len(todo) : todo[h] # n}
           i == IF T # {} THEN Min(T) ELSE 0
           s == Connect(n, t, todo)
           over == [At("lookup") EXCEPT !.lookups = 1 + RandomTargets]
           rest == SubSeq(todo, i + 1, Len(todo))
           on == [At("connect") EXCEPT !.todo = rest]
           m == todo[i]
<1>1. s = IF i = 0 THEN Then(t, over, {})
          ELSE Then(AddContact(t, n, m), on, {Ping(n, m, "connect")})
  BY DEF Connect, SelectInSeq
<1>2. i = 0 \/ i \in T
  <2>1. T \in SUBSET Nat
    OBVIOUS
  <2> HIDE DEF T
  <2> QED BY <2>1, MinIs
<1> HIDE DEF s, i
<1>3. CASE i = 0
  <2>1. 1 + RandomTargets \in Int
    BY BoundsAssumption
  <2>3. /\ At("lookup") \in States /\ At("lookup").todo = <<>> /\ At("lookup").nodes = <<>>
        /\ At("lookup").candidates = <<>> /\ At("lookup").at = "lookup"
    BY AtIs
  <2>2. GoodState(over)
    BY <2>1, <2>3, AtWithIs
  <2>4. over.todo = <<>> /\ over.nodes = <<>> /\ over.candidates = <<>>
    BY <2>1, <2>3, AtWithIs
  <2> HIDE DEF over
  <2>5. s.table = t /\ s.state = over /\ s.new = {}
    BY <1>1, <1>3 DEF Then
  <2> QED BY <2>2, <2>4, <2>5, EmptyIs DEF GoodThen, Within, s
<1>4. CASE i \in T
  <2>1. i \in 1..Len(todo) /\ i # 0 /\ m # n /\ m \in Nodes /\ m \in ToSet(todo)
    BY <1>4, Elements
  <2>2. rest \in Seq(Nodes) /\ ToSet(rest) \subseteq ToSet(todo)
    <3>1. /\ rest \in Seq(Nodes) /\ Len(rest) = Len(todo) - i
          /\ \A h \in 1..Len(todo) - i : rest[h] = todo[i + h] /\ i + h \in 1..Len(todo)
      BY <2>1
    <3> HIDE DEF rest
    <3> QED BY <3>1, Elements
  <2> HIDE DEF rest
  <2>3. /\ At("connect") \in States /\ At("connect").at = "connect"
        /\ At("connect").nodes = <<>> /\ At("connect").candidates = <<>>
    BY AtIs
  <2>4. /\ on \in States /\ on.at = "connect"
        /\ on.todo = rest /\ on.nodes = <<>> /\ on.candidates = <<>>
    BY <2>2, <2>3 DEF States, Steps
  <2> HIDE DEF on, m
  <2>5. /\ s.table = AddContact(t, n, m) /\ s.state = on
        /\ s.new = {Ping(n, m, "connect")}
    BY <1>1, <2>1 DEF Then
  <2>6. /\ GoodTable(s.table, n)
        /\ \A l : l \in Contacts(s.table) => l \in Contacts(t) \/ l = m
    BY <2>1, <2>5, AddContactIs DEF Members
  <2>7. \A c \in s.new : GoodCall(c) /\ c.from = n /\ c.to = m /\ ~c.served
    <3>1. GoodCall(Ping(n, m, "connect"))
      BY <2>1, PingIs
    <3>2. /\ Ping(n, m, "connect").from = n /\ Ping(n, m, "connect").to = m
          /\ ~ Ping(n, m, "connect").served
      BY DEF Ping, Call
    <3> QED BY <2>5, <3>1, <3>2
  <2>8. GoodThen(s, n)
    BY <2>4, <2>5, <2>6, <2>7 DEF GoodThen, GoodState
  <2>9. Within(s, X)
    BY <2>1, <2>2, <2>4, <2>5, <2>6, <2>7, EmptyIs DEF Within
  <2> QED BY <2>8, <2>9 DEF s
<1> QED BY <1>2, <1>3, <1>4

\* The place of a call is right for any course of the join: what a join does with
\* the answer of a call.
LEMMA ContinueIs ==
  ASSUME NEW n \in Members, GoodState(join[n]), NEW t, GoodTable(t, n),
         NEW step \in {"ping", "find", "connect", "query", "nothing"},
         NEW failed \in BOOLEAN, step = "ping" /\ ~failed => Contacts(t) # {},
         NEW nodes \in Seq(Nodes), NEW X, Contacts(t) \cup ToSet(nodes) \subseteq X,
         ToSet(join[n].todo) \cup ToSet(join[n].nodes) \cup ToSet(join[n].candidates) \subseteq X
  PROVE  /\ GoodThen(Continue(n, t, step, failed, nodes), n)
         /\ Within(Continue(n, t, step, failed, nodes), X)
<1> DEFINE s == Continue(n, t, step, failed, nodes)
           j == join[n]
<1>1. /\ j \in States /\ j.todo \in Seq(Nodes) /\ j.nodes \in Seq(Nodes)
      /\ j.candidates \in Seq(Nodes) /\ (j.at = "query" => j.target \in Sought)
  BY DEF GoodState, States
<1>2. j.nodes \o nodes \in Seq(Nodes) /\ ToSet(j.nodes \o nodes) \subseteq X
  BY <1>1, Concatenated
<1>3. ASSUME s = Then(t, At("failed"), {}) PROVE GoodThen(s, n) /\ Within(s, X)
  <2>1. /\ GoodState(At("failed")) /\ At("failed").todo = <<>> /\ At("failed").nodes = <<>>
        /\ At("failed").candidates = <<>>
    BY AtIs
  <2>2. s.table = t /\ s.state = At("failed") /\ s.new = {}
    BY <1>3 DEF Then
  <2> HIDE DEF s
  <2> QED BY <2>1, <2>2, EmptyIs DEF GoodThen, Within
<1>4. CASE step = "ping"
  <2>1. CASE failed
    BY <1>3, <1>4, <2>1 DEF Continue
  <2>2. CASE ~failed
    <3>1. s = FindNode(n, t)
      BY <1>4, <2>2 DEF Continue
    <3> HIDE DEF s
    <3>2. Contacts(t) # {} /\ Contacts(t) \subseteq X
      BY <1>4, <2>2
    <3>3. GoodThen(s, n) /\ Within(s, X)
      BY <3>1, <3>2, FindNodeIs
    <3> QED BY <3>3 DEF s
  <2> QED BY <2>1, <2>2
<1>5. CASE step = "find"
  <2> DEFINE told == j.nodes \o nodes
  <2>0. told \in Seq(Nodes) /\ Contacts(t) \cup ToSet(told) \subseteq X
    BY <1>2
  <2>1. CASE j.todo = <<>>
    <3>1. s = Connect(n, t, told)
      BY <1>5, <2>1 DEF Continue
    <3> HIDE DEF s, told
    <3>2. GoodThen(s, n) /\ Within(s, X)
      BY <2>0, <3>1, ConnectIs
    <3> QED BY <3>2 DEF s
  <2>2. CASE j.todo # <<>>
    <3>1. s = FindNext(n, t, j.todo, told)
      BY <1>5, <2>2 DEF Continue
    <3>2. Contacts(t) \cup ToSet(j.todo) \cup ToSet(told) \subseteq X
      BY <2>0
    <3> HIDE DEF s, told
    <3>3. GoodThen(s, n) /\ Within(s, X)
      BY <1>1, <2>0, <2>2, <3>1, <3>2, FindNextIs
    <3> QED BY <3>3 DEF s
  <2> QED BY <2>1, <2>2
<1>6. CASE step = "connect"
  <2>1. CASE failed
    BY <1>3, <1>6, <2>1 DEF Continue
  <2>2. CASE ~failed
    <3>1. s = Connect(n, t, j.todo)
      BY <1>6, <2>2 DEF Continue
    <3>2. Contacts(t) \cup ToSet(j.todo) \subseteq X
      OBVIOUS
    <3> HIDE DEF s
    <3>3. GoodThen(s, n) /\ Within(s, X)
      BY <1>1, <3>1, <3>2, ConnectIs
    <3> QED BY <3>3 DEF s
  <2> QED BY <2>1, <2>2
<1>7. CASE step = "query"
  <2> DEFINE S == ToSet(j.nodes) \cup ToSet(nodes)
             told == SetToSeq(S)
             state == [j EXCEPT !.nodes = told]
  <2>1. S \in SUBSET Nodes /\ S \subseteq X
    BY <1>1, Elements
  <2> HIDE DEF S
  <2>2. told \in Seq(Nodes) /\ ToSet(told) \subseteq X
    BY <2>1, SetToSeqIs
  <2>3. s = Then(t, [j EXCEPT !.nodes = SetToSeq(ToSet(@) \cup ToSet(nodes))], {})
    BY <1>7 DEF Continue
  <2>4. s = Then(t, state, {})
    BY <2>3 DEF S
  <2> HIDE DEF told
  <2>5. /\ state \in States /\ state.at = j.at /\ state.target = j.target
        /\ state.todo = j.todo /\ state.nodes = told /\ state.candidates = j.candidates
    BY <1>1, <2>2 DEF States
  <2> HIDE DEF state, s
  <2>6. s.table = t /\ s.state = state /\ s.new = {}
    BY <2>4 DEF Then
  <2>7. GoodThen(s, n) /\ Within(s, X)
    BY <1>1, <2>2, <2>5, <2>6 DEF GoodThen, GoodState, Within
  <2> QED BY <2>7 DEF s
<1>8. CASE step = "nothing"
  <2>1. s.table = t /\ s.state = j /\ s.new = {}
    BY <1>8 DEF Continue, Then
  <2> HIDE DEF s
  <2>2. GoodThen(s, n) /\ Within(s, X)
    BY <2>1 DEF GoodThen, Within
  <2> QED BY <2>2 DEF s
<1> QED BY <1>4, <1>5, <1>6, <1>7, <1>8

-----------------------------------------------------------------------------
\* The lookup.

LEMMA AskIs ==
  ASSUME NEW n \in Members, NEW t, GoodTable(t, n), NEW j \in States, j.target \in Sought,
         NEW places \in SUBSET DOMAIN j.candidates, NEW X,
         Contacts(t) \cup ToSet(j.todo) \cup ToSet(j.candidates) \subseteq X
  PROVE  /\ GoodThen(Ask(n, t, j, places), n) /\ Within(Ask(n, t, j, places), X)
         /\ Ask(n, t, j, places).table = t
<1> DEFINE state == [j EXCEPT !.at = "query",
                              !.queried = @ \cup {j.candidates[i] : i \in places},
                              !.iteration = @ + 1, !.nodes = <<>>]
           s == Ask(n, t, j, places)
           new == {Call(n, j.candidates[i], FIND_NODE, j.target, "query", i) : i \in places}
<1>1. s.table = t /\ s.state = state /\ s.new = new
  BY DEF Ask, Then
<1>2. /\ j.candidates \in Seq(Nodes) /\ j.queried \in SUBSET Nodes /\ j.iteration \in Nat
      /\ \A i \in places : /\ i \in Nat /\ j.candidates[i] \in Nodes
                           /\ j.candidates[i] \in ToSet(j.candidates)
  BY DEF States, ToSet
<1>3. /\ state \in States /\ state.at = "query" /\ state.target = j.target
      /\ state.todo = j.todo /\ state.nodes = <<>> /\ state.candidates = j.candidates
  <2>1. j.queried \cup {j.candidates[i] : i \in places} \in SUBSET Nodes
    BY <1>2
  <2>2. j.iteration + 1 \in Nat
    BY <1>2
  <2>3. "query" \in Steps /\ <<>> \in Seq(Nodes)
    BY EmptyIs DEF Steps
  <2>4. state \in States
    BY <2>1, <2>2, <2>3 DEF States
  <2> QED BY <2>4 DEF States
<1>4. ASSUME NEW c \in new
      PROVE  GoodCall(c) /\ c.from = n /\ ~c.served /\ c.to \in ToSet(j.candidates)
  <2>1. PICK i \in places :
          c = Call(n, j.candidates[i], FIND_NODE, j.target, "query", i)
    OBVIOUS
  <2>2. j.candidates[i] \in Nodes /\ i \in Nat /\ "query" \in {"find", "query"}
    BY <1>2
  <2>3. GoodCall(c)
    BY <2>1, <2>2, QuestionIs
  <2>4. c.from = n /\ c.served = FALSE /\ c.to = j.candidates[i]
    BY <2>1 DEF Call
  <2> QED BY <1>2, <2>3, <2>4
<1> HIDE DEF s, state, new
<1>5. GoodThen(s, n)
  BY <1>1, <1>3, <1>4 DEF GoodThen, GoodState
<1>6. Within(s, X)
  BY <1>1, <1>3, <1>4, EmptyIs DEF Within
<1> QED BY <1>1, <1>5, <1>6 DEF s

LEMMA RoundIs ==
  ASSUME NEW n \in Members, NEW t, GoodTable(t, n), NEW j \in States, j.target \in Sought,
         NEW X, Contacts(t) \cup ToSet(j.todo) \cup ToSet(j.candidates) \subseteq X
  PROVE  GoodThen(Round(n, t, j), n) /\ Within(Round(n, t, j), X) /\ Round(n, t, j).table = t
<1> DEFINE open == {i \in DOMAIN j.candidates : j.candidates[i] \notin j.queried}
           places == FirstPlaces(open)
<1>1. places \in SUBSET DOMAIN j.candidates
  BY DEF FirstPlaces
<1>2. Round(n, t, j) = Ask(n, t, j, places)
  BY DEF Round
<1> HIDE DEF places
<1> QED BY <1>1, <1>2, AskIs

LEMMA EndLookupIs ==
  ASSUME NEW n \in Members, GoodTable(routingTable[n], n), join[n] \in States,
         NEW s \in Seq(Nodes), NEW X, Contacts(routingTable[n]) \cup ToSet(s) \subseteq X
  PROVE  GoodThen(EndLookup(n, s), n) /\ Within(EndLookup(n, s), X)
<1> DEFINE e == EndLookup(n, s)
           on == [At("lookup") EXCEPT !.lookups = join[n].lookups]
           t == AddAll(routingTable[n], n, s)
           new == {Ping(n, m, "nothing") : m \in ToSet(s) \ {n}}
<1>1. e.table = t /\ e.new = new
  BY DEF EndLookup, Then
<1>2. e.state = At("joined") \/ e.state = on
  BY DEF EndLookup, Then
<1>3. GoodTable(t, n) /\ \A m : m \in Contacts(t) => m \in Contacts(routingTable[n]) \cup ToSet(s)
  BY AddAllIs DEF Members
<1>4. join[n].lookups \in Int
  BY DEF States
<1>5. /\ At("lookup") \in States /\ At("lookup").todo = <<>> /\ At("lookup").nodes = <<>>
      /\ At("lookup").candidates = <<>> /\ At("lookup").at = "lookup"
  BY AtIs
<1>6. GoodState(on) /\ on.todo = <<>> /\ on.nodes = <<>> /\ on.candidates = <<>>
  BY <1>4, <1>5, AtWithIs
<1>7. /\ GoodState(At("joined")) /\ At("joined").todo = <<>> /\ At("joined").nodes = <<>>
      /\ At("joined").candidates = <<>>
  BY AtIs
<1>8. ASSUME NEW c \in new PROVE GoodCall(c) /\ c.from = n /\ ~c.served /\ c.to \in ToSet(s)
  <2>1. PICK m \in ToSet(s) \ {n} : c = Ping(n, m, "nothing")
    OBVIOUS
  <2>2. m \in Nodes
    BY Elements
  <2>3. GoodCall(c)
    BY <2>1, <2>2, PingIs
  <2>4. c.from = n /\ c.served = FALSE /\ c.to = m
    BY <2>1 DEF Ping, Call
  <2> QED BY <2>1, <2>3, <2>4
<1> HIDE DEF e, on, t, new
<1>9. GoodState(e.state) /\ e.state.todo = <<>> /\ e.state.nodes = <<>> /\ e.state.candidates = <<>>
  BY <1>2, <1>6, <1>7
<1>10. GoodThen(e, n)
  BY <1>1, <1>3, <1>8, <1>9 DEF GoodThen
<1>11. Within(e, X)
  BY <1>1, <1>3, <1>8, <1>9, EmptyIs DEF Within
<1> QED BY <1>10, <1>11 DEF e

LEMMA MergedIs ==
  ASSUME NEW j \in States, j.target \in Sought
  PROVE  /\ Merged(j) \in Seq(Nodes)
         /\ ToSet(Merged(j)) \subseteq ToSet(j.candidates) \cup ToSet(j.nodes)
<1> DEFINE s == j.candidates \o j.nodes
<1>1. s \in Seq(Nodes) /\ ToSet(s) = ToSet(j.candidates) \cup ToSet(j.nodes)
  BY Concatenated DEF States
<1>2. K \in Nat \ {0}
  BY BoundsAssumption
<1> HIDE DEF s
<1>3. Merged(j) = FirstOf(ByDistance(s, j.target), K)
  BY DEF Merged, s
<1> QED BY <1>1, <1>2, <1>3, DistanceOf

-----------------------------------------------------------------------------
\* Types.

\* A node takes a step of its own: what it leaves is its.
GoesOn(n, s) ==
  /\ routingTable' = [routingTable EXCEPT ![n] = s.table]
  /\ join' = [join EXCEPT ![n] = s.state]
  /\ calls' \subseteq calls \cup s.new
  /\ joins' = joins
  /\ earlier' = earlier
  /\ troubled' \subseteq Nodes

LEMMA GoesOnTypes ==
  ASSUME Types, NEW n \in Members, joins[n] > 0, NEW s, GoodThen(s, n), GoesOn(n, s)
  PROVE  Types'
<1>1. n \in Nodes /\ s.table \in [Places -> Seq(Nodes)] /\ s.state \in States
  BY DEF GoodThen, GoodTable, GoodState, Members
<1>2. /\ routingTable' \in [Nodes -> [Places -> Seq(Nodes)]]
      /\ routingTable'[n] = s.table
      /\ \A m \in Nodes : m # n => routingTable'[m] = routingTable[m]
  BY <1>1 DEF GoesOn, Types
<1>3. \A m \in Nodes : GoodTable(routingTable'[m], m)
  BY <1>2 DEF Types, GoodThen
<1>4. /\ join' \in [Nodes -> States] /\ join'[n] = s.state
      /\ \A m \in Nodes : m # n => join'[m] = join[m]
  BY <1>1 DEF GoesOn, Types
<1>5. \A m \in Nodes : GoodState(join'[m])
  BY <1>4 DEF Types, GoodThen
<1>6. \A c \in calls' : GoodCall(c) /\ joins'[c.from] > 0
  BY DEF Types, GoodThen, GoesOn
<1>7. \A m \in Members : join'[m].at # "off" => joins'[m] > 0
  BY <1>4 DEF Types, GoesOn, Members
<1>8. joins' \in [Nodes -> Nat] /\ earlier' \in [Nodes -> SUBSET Nodes] /\ troubled' \subseteq Nodes
  BY DEF Types, GoesOn
<1> QED BY <1>2, <1>3, <1>4, <1>5, <1>6, <1>7, <1>8 DEF Types

\* The step that each action of a joining node is.
LEMMA LookupGoesOn ==
  ASSUME Types, NEW n \in Members, NEW target \in Targets \cup {ID[n]}, Lookup(n, target),
         NEW X, Contacts(routingTable[n]) \subseteq X, ToSet(join[n].todo) \subseteq X
  PROVE  \E s : GoesOn(n, s) /\ GoodThen(s, n) /\ Within(s, X)
<1> DEFINE t == routingTable[n]
           near == FindClosestNodes(t, target, K)
           j == [join[n] EXCEPT !.candidates = near, !.target = target, !.lookups = @ - 1]
           s == Round(n, t, j)
<1>1. /\ n \in Nodes /\ GoodTable(t, n) /\ join[n] \in States
      /\ routingTable \in [Nodes -> [Places -> Seq(Nodes)]] /\ join \in [Nodes -> States]
  BY DEF Types, Members
<1>2. target \in Sought /\ target \in SUBSET Positions
  BY <1>1, NodesAssumption, BoundsAssumption DEF Sought
<1>3. near \in Seq(Nodes) /\ ToSet(near) \subseteq Contacts(t)
  <2>1. K \in Nat \ {0} /\ t \in [Places -> Seq(Nodes)]
    BY <1>1, BoundsAssumption
  <2> QED BY <1>2, <2>1, FindClosestNodesIs
<1>4. /\ join' = [join EXCEPT ![n] = s.state] /\ calls' = calls \cup s.new
      /\ UNCHANGED <<routingTable, joins, earlier, troubled>>
  BY DEF Lookup
<1> HIDE DEF t, near
<1>5. /\ j \in States /\ j.target = target /\ j.todo = join[n].todo /\ j.candidates = near
  <2>1. join[n].lookups - 1 \in Int
    BY <1>1 DEF States
  <2>2. j \in States
    BY <1>1, <1>2, <1>3, <2>1 DEF States
  <2> QED BY <1>1, <2>2 DEF States
<1> HIDE DEF j
<1>6. Contacts(t) \cup ToSet(j.todo) \cup ToSet(j.candidates) \subseteq X
  BY <1>3, <1>5 DEF t
<1>7. j.target \in Sought
  BY <1>2, <1>5
<1>8. GoodThen(s, n) /\ Within(s, X) /\ s.table = t
  BY <1>1, <1>5, <1>6, <1>7, RoundIs
<1> HIDE DEF s
<1>9. routingTable' = [routingTable EXCEPT ![n] = s.table]
  BY <1>1, <1>4, <1>8 DEF t
<1>10. GoesOn(n, s)
  BY <1>4, <1>9 DEF GoesOn, Types
<1> QED BY <1>8, <1>10

LEMMA CollectGoesOn ==
  ASSUME Types, NEW n \in Members, CollectResults(n), NEW X,
         Contacts(routingTable[n]) \subseteq X,
         ToSet(join[n].todo) \cup ToSet(join[n].nodes) \cup ToSet(join[n].candidates) \subseteq X
  PROVE  \E s : GoesOn(n, s) /\ GoodThen(s, n) /\ Within(s, X)
<1> DEFINE t == routingTable[n]
           merged == Merged(join[n])
           j == [join[n] EXCEPT !.candidates = merged]
           s == IF j.iteration < Iterations /\ ~ ToSet(j.candidates) \subseteq j.queried
                  THEN Round(n, t, j) ELSE EndLookup(n, j.candidates)
<1>1. /\ n \in Nodes /\ GoodTable(t, n) /\ join[n] \in States /\ join[n].at = "query"
      /\ join[n].target \in Sought
  BY DEF Types, Members, GoodState, CollectResults
<1>2. merged \in Seq(Nodes) /\ ToSet(merged) \subseteq ToSet(join[n].candidates) \cup ToSet(join[n].nodes)
  BY <1>1, MergedIs
<1>3. /\ routingTable' = [routingTable EXCEPT ![n] = s.table]
      /\ join' = [join EXCEPT ![n] = s.state] /\ calls' = calls \cup s.new
      /\ UNCHANGED <<joins, earlier, troubled>>
  BY DEF CollectResults
<1> HIDE DEF merged, t
<1>4. /\ j \in States /\ j.target = join[n].target /\ j.todo = join[n].todo
      /\ j.candidates = merged
  <2>1. j \in States
    BY <1>1, <1>2 DEF States
  <2> QED BY <1>1, <2>1 DEF States
<1> HIDE DEF j
<1>5. Contacts(t) \cup ToSet(j.todo) \cup ToSet(j.candidates) \subseteq X
  BY <1>2, <1>4 DEF t
<1>6. GoodThen(Round(n, t, j), n) /\ Within(Round(n, t, j), X)
  BY <1>1, <1>4, <1>5, RoundIs
<1>7. GoodThen(EndLookup(n, j.candidates), n) /\ Within(EndLookup(n, j.candidates), X)
  <2>1. j.candidates \in Seq(Nodes) /\ Contacts(routingTable[n]) \cup ToSet(j.candidates) \subseteq X
    BY <1>2, <1>4, <1>5 DEF t
  <2> QED BY <1>1, <2>1, EndLookupIs DEF t
<1>8. GoodThen(s, n) /\ Within(s, X)
  BY <1>6, <1>7
<1> HIDE DEF s
<1>9. GoesOn(n, s)
  BY <1>3 DEF GoesOn, Types
<1> QED BY <1>8, <1>9

\* An answer that comes or a call that fails.
LEMMA ProceedGoesOn ==
  ASSUME Types, NEW c \in calls, NEW t, GoodTable(t, c.from), NEW failed \in BOOLEAN,
         c.for = "ping" /\ ~failed => Contacts(t) # {}, NEW nodes \in Seq(Nodes),
         Proceed(c, t, failed, nodes), troubled' \subseteq Nodes,
         NEW X, Contacts(t) \cup ToSet(nodes) \subseteq X,
         ToSet(join[c.from].todo) \cup ToSet(join[c.from].nodes)
           \cup ToSet(join[c.from].candidates) \subseteq X
  PROVE  \E s : /\ GoesOn(c.from, s) /\ GoodThen(s, c.from) /\ Within(s, X)
                /\ c.for = "ping" /\ failed => s.state.at = "failed" /\ s.new = {}
<1> DEFINE n == c.from
           s == Continue(n, t, c.for, failed, nodes)
<1>1. n \in Members /\ c.for \in {"ping", "find", "connect", "query", "nothing"}
  BY DEF Types, GoodCall, Calls
<1>2. GoodState(join[n])
  BY <1>1 DEF Types, Members
<1>3. /\ routingTable' = [routingTable EXCEPT ![n] = s.table]
      /\ join' = [join EXCEPT ![n] = s.state] /\ calls' = (calls \ {c}) \cup s.new
      /\ UNCHANGED <<joins, earlier>>
  BY DEF Proceed
<1>4. c.for = "ping" /\ failed => s.state.at = "failed" /\ s.new = {}
  <2>1. At("failed").at = "failed"
    BY AtIs
  <2> QED BY <2>1 DEF Continue, Then
<1>5. GoodThen(s, n) /\ Within(s, X)
  <2> DEFINE step == c.for
  <2>1. step \in {"ping", "find", "connect", "query", "nothing"}
    BY <1>1
  <2>2. step = "ping" /\ ~failed => Contacts(t) # {}
    OBVIOUS
  <2> HIDE DEF n, step, s
  <2>3. GoodTable(t, n) /\ ToSet(join[n].todo) \cup ToSet(join[n].nodes)
           \cup ToSet(join[n].candidates) \subseteq X
    BY DEF n
  <2>4. /\ GoodThen(Continue(n, t, step, failed, nodes), n)
        /\ Within(Continue(n, t, step, failed, nodes), X)
    BY <1>1, <1>2, <2>1, <2>2, <2>3, ContinueIs
  <2> QED BY <2>4 DEF s, step
<1> HIDE DEF s
<1>6. GoesOn(n, s)
  BY <1>3 DEF GoesOn
<1> QED BY <1>4, <1>5, <1>6

LEMMA InitTypes == Init => Types
<1> SUFFICES ASSUME Init PROVE Types
  OBVIOUS
<1> DEFINE Table(n) ==
             IF n = Bootstrap THEN AddAll(NewRoutingTable, n, SetToSeq(Earlier))
             ELSE IF n \in Earlier
                    THEN AddAll(NewRoutingTable, n, SetToSeq(Earlier \cup {Bootstrap}))
             ELSE NewRoutingTable
<1>1. routingTable = [n \in Nodes |-> Table(n)]
  BY DEF Init
<1>2. ASSUME NEW n \in Nodes PROVE GoodTable(Table(n), n)
  <2>1. Earlier \in SUBSET Nodes /\ Earlier \cup {Bootstrap} \in SUBSET Nodes
    BY NodesAssumption, BoundsAssumption DEF Members
  <2>2. SetToSeq(Earlier) \in Seq(Nodes) /\ SetToSeq(Earlier \cup {Bootstrap}) \in Seq(Nodes)
    BY <2>1, SetToSeqIs
  <2>3. GoodTable(NewRoutingTable, n)
    BY NewTableIs
  <2> QED BY <2>2, <2>3, AddAllIs
<1> HIDE DEF Table
<1>3. /\ routingTable \in [Nodes -> [Places -> Seq(Nodes)]]
      /\ \A n \in Nodes : GoodTable(routingTable[n], n)
  BY <1>1, <1>2 DEF GoodTable
<1>4. ASSUME NEW n \in Nodes
      PROVE  /\ GoodState(join[n]) /\ join[n] \in States
             /\ n \in Members /\ join[n].at # "off" => joins[n] > 0
  <2>1. join[n] = At(IF n \in Earlier THEN "joined" ELSE "off") /\ joins[n] = IF n \in Earlier THEN 1 ELSE 0
    BY DEF Init
  <2>2. CASE n \in Earlier
    <3>1. join[n] = At("joined") /\ joins[n] = 1
      BY <2>1, <2>2
    <3> QED BY <3>1, AtIs
  <2>3. CASE n \notin Earlier
    <3>1. join[n] = At("off") /\ joins[n] = 0
      BY <2>1, <2>3
    <3>2. join[n] \in States /\ GoodState(join[n]) /\ join[n].at = "off"
      BY <3>1, AtIs
    <3> QED BY <3>2
  <2> QED BY <2>2, <2>3
<1>5. join = [n \in Nodes |-> join[n]]
  BY DEF Init
<1>6. join \in [Nodes -> States]
  BY <1>4, <1>5
<1>7. /\ joins \in [Nodes -> Nat] /\ calls = {}
      /\ earlier \in [Nodes -> SUBSET Nodes] /\ troubled \subseteq Nodes
  BY DEF Init
<1> QED BY <1>3, <1>4, <1>6, <1>7 DEF Types, Members

LEMMA JoinTypes ==
  ASSUME Types, NEW n \in Members, Join(n) PROVE Types'
<1> DEFINE t == AddContact(NewRoutingTable, n, Bootstrap)
           c == Ping(n, Bootstrap, "ping")
<1>1. n \in Nodes /\ Bootstrap \in Nodes
  BY NodesAssumption DEF Members
<1>2. GoodTable(t, n) /\ t \in [Places -> Seq(Nodes)]
  <2>1. GoodTable(NewRoutingTable, n)
    BY <1>1, NewTableIs
  <2>2. GoodTable(t, n)
    BY <1>1, <2>1, AddContactIs
  <2> QED BY <2>2 DEF GoodTable
<1>3. GoodCall(c) /\ c.from = n
  <2>1. GoodCall(c)
    BY <1>1, PingIs
  <2> QED BY <2>1 DEF Ping, Call
<1>4. At("ping") \in States /\ GoodState(At("ping"))
  BY AtIs
<1>5. /\ joins' = [joins EXCEPT ![n] = @ + 1] /\ routingTable' = [routingTable EXCEPT ![n] = t]
      /\ join' = [join EXCEPT ![n] = At("ping")] /\ calls' = calls \cup {c}
      /\ troubled' = troubled \ {n} /\ earlier' = earlier
  BY DEF Join
<1> HIDE DEF t, c
<1>6. /\ routingTable' \in [Nodes -> [Places -> Seq(Nodes)]]
      /\ \A m \in Nodes : GoodTable(routingTable'[m], m)
  BY <1>1, <1>2, <1>5 DEF Types
<1>7. join' \in [Nodes -> States] /\ \A m \in Nodes : GoodState(join'[m])
  BY <1>1, <1>4, <1>5 DEF Types
<1>8. /\ joins' \in [Nodes -> Nat] /\ joins'[n] > 0
      /\ \A m \in Nodes : m # n => joins'[m] = joins[m] /\ join'[m] = join[m]
  <2>1. joins[n] \in Nat
    BY <1>1 DEF Types
  <2> QED BY <1>1, <1>5, <2>1 DEF Types
<1>9. ASSUME NEW d \in calls' PROVE GoodCall(d) /\ joins'[d.from] > 0
  <2>1. CASE d = c
    BY <1>3, <1>8, <2>1
  <2>2. CASE d \in calls
    <3>1. GoodCall(d) /\ joins[d.from] > 0 /\ d.from \in Nodes
      BY <2>2 DEF Types, GoodCall, Calls, Members
    <3> QED BY <1>8, <3>1
  <2> QED BY <1>5, <2>1, <2>2
<1>10. \A m \in Members : join'[m].at # "off" => joins'[m] > 0
  BY <1>8 DEF Types, Members
<1>11. earlier' \in [Nodes -> SUBSET Nodes] /\ troubled' \subseteq Nodes
  BY <1>5 DEF Types
<1> QED BY <1>6, <1>7, <1>8, <1>9, <1>10, <1>11 DEF Types

LEMMA TimeOutTypes ==
  ASSUME Types, NEW c \in calls, TimeOut(c) PROVE Types'
<1> DEFINE d == [c EXCEPT !.for = "nothing"]
<1>1. GoodCall(c) /\ joins[c.from] > 0
  BY DEF Types
<1>2. /\ GoodCall(d) /\ d.from = c.from /\ c.from \in Nodes
  <2>1. d \in Calls /\ c \in Calls
    BY <1>1 DEF GoodCall, Calls
  <2>2. /\ d.from = c.from /\ d.to = c.to /\ d.type = c.type /\ d.target = c.target
        /\ d.served = c.served /\ d.answer = c.answer /\ d.for = "nothing"
    BY <2>1 DEF Calls
  <2> HIDE DEF d
  <2> QED BY <1>1, <2>1, <2>2 DEF GoodCall, Calls, Members
<1>3. /\ calls' = (calls \ {c}) \cup {d} /\ troubled' = troubled \cup {c.from}
      /\ UNCHANGED <<routingTable, join, joins, earlier>>
  BY DEF TimeOut
<1> HIDE DEF d
<1> QED BY <1>1, <1>2, <1>3 DEF Types

\* The call that is served and its answer.
LEMMA ServedIs ==
  ASSUME NEW c, GoodCall(c), NEW t \in [Places -> Seq(Nodes)]
  PROVE  LET d == [c EXCEPT !.served = TRUE,
                            !.answer = IF c.type = FIND_NODE
                                         THEN FindClosestNodes(t, c.target, K) ELSE <<>>]
         IN /\ GoodCall(d) /\ d.from = c.from /\ d.to = c.to /\ d.for = c.for
            /\ d.answer \in Seq(Nodes) /\ ToSet(d.answer) \subseteq Contacts(t)
<1> DEFINE answer == IF c.type = FIND_NODE THEN FindClosestNodes(t, c.target, K) ELSE <<>>
           d == [c EXCEPT !.served = TRUE, !.answer = answer]
<1>1. answer \in Seq(Nodes) /\ ToSet(answer) \subseteq Contacts(t)
  <2>1. CASE c.type = FIND_NODE
    <3>1. c.target \in Sought /\ K \in Nat \ {0}
      BY <2>1, BoundsAssumption DEF GoodCall
    <3> QED BY <2>1, <3>1, FindClosestNodesIs
  <2>2. CASE c.type # FIND_NODE
    BY <2>2, EmptyIs
  <2> QED BY <2>1, <2>2
<1> HIDE DEF answer
<1>2. c \in Calls
  BY DEF GoodCall
<1>3. d \in Calls
  BY <1>1, <1>2 DEF Calls
<1>4. /\ d.from = c.from /\ d.to = c.to /\ d.for = c.for /\ d.type = c.type
      /\ d.target = c.target /\ d.answer = answer
  BY <1>2 DEF Calls
<1> HIDE DEF d
<1>5. GoodCall(d)
  BY <1>1, <1>3, <1>4 DEF GoodCall
<1> QED BY <1>1, <1>4, <1>5 DEF answer, d

LEMMA ServeTypes ==
  ASSUME Types, NEW c \in calls, Serve(c) PROVE Types'
<1> DEFINE n == c.to
           t == AddContact(routingTable[n], n, c.from)
           d == [c EXCEPT !.served = TRUE,
                          !.answer = IF c.type = FIND_NODE
                                       THEN FindClosestNodes(t, c.target, K) ELSE <<>>]
<1>1. GoodCall(c) /\ joins[c.from] > 0 /\ n \in Nodes /\ c.from \in Nodes /\ c \in Calls
  BY DEF Types, GoodCall, Calls, Members
<1>2. GoodTable(t, n) /\ t \in [Places -> Seq(Nodes)]
  <2>1. GoodTable(routingTable[n], n)
    BY <1>1 DEF Types
  <2> HIDE DEF n
  <2>2. GoodTable(t, n)
    BY <1>1, <2>1, AddContactIs
  <2> QED BY <2>2 DEF GoodTable
<1>3. /\ routingTable' = [routingTable EXCEPT ![n] = t]
      /\ calls' = (calls \ {c}) \cup {d}
      /\ UNCHANGED <<join, joins, troubled>>
  BY DEF Serve
<1>4. earlier' \in [Nodes -> SUBSET Nodes]
  <2>1. Contacts(routingTable[n]) \ {c.from} \in SUBSET Nodes
    BY <1>1, ContactsAre DEF Types
  <2>2. \/ earlier' = [earlier EXCEPT ![c.from] = Contacts(routingTable[n]) \ {c.from}]
        \/ earlier' = earlier
    BY DEF Serve
  <2> HIDE DEF n
  <2> QED BY <1>1, <2>1, <2>2 DEF Types
<1>5. GoodCall(d) /\ d.from = c.from
  <2> HIDE DEF t
  <2> QED BY <1>1, <1>2, ServedIs
<1> HIDE DEF n, t, d
<1>6. /\ routingTable' \in [Nodes -> [Places -> Seq(Nodes)]]
      /\ \A m \in Nodes : GoodTable(routingTable'[m], m)
  BY <1>1, <1>2, <1>3 DEF Types
<1>7. \A e \in calls' : GoodCall(e) /\ joins'[e.from] > 0
  BY <1>1, <1>3, <1>5 DEF Types
<1> QED BY <1>3, <1>4, <1>6, <1>7 DEF Types

\* The table with which a caller goes on after an answer, and after a failure.
LEMMA ReturnGoesOn ==
  ASSUME Types, NEW c \in calls, Return(c), NEW X,
         Contacts(routingTable[c.from]) \cup ToSet(c.answer) \cup {c.to} \subseteq X,
         ToSet(join[c.from].todo) \cup ToSet(join[c.from].nodes)
           \cup ToSet(join[c.from].candidates) \subseteq X
  PROVE  \E s : GoesOn(c.from, s) /\ GoodThen(s, c.from) /\ Within(s, X)
<1> DEFINE n == c.from
           t == AddContact(routingTable[n], n, c.to)
<1>1. /\ GoodCall(c) /\ n \in Members /\ n \in Nodes /\ c.to \in Nodes
      /\ c.answer \in Seq(Nodes)
  BY DEF Types, GoodCall, Calls, Members, Return
<1>2. GoodTable(routingTable[n], n)
  BY <1>1 DEF Types
<1>3. /\ GoodTable(t, n)
      /\ \A m : m \in Contacts(t) => m \in Contacts(routingTable[n]) \/ m = c.to
      /\ c.to # n => c.to \in Contacts(t)
  BY <1>1, <1>2, AddContactIs
<1>4. c.for = "ping" => Contacts(t) # {}
  <2>1. c.for = "ping" => c.to # n
    BY <1>1 DEF GoodCall, Members
  <2> QED BY <1>3, <2>1
<1>5. Proceed(c, t, FALSE, c.answer) /\ troubled' \subseteq Nodes
  BY DEF Return, Types
<1> HIDE DEF t
<1>6. Contacts(t) \cup ToSet(c.answer) \subseteq X
  BY <1>3
<1>7. FALSE \in BOOLEAN /\ GoodTable(t, c.from) /\ (c.for = "ping" /\ ~FALSE => Contacts(t) # {})
  BY <1>3, <1>4
<1> QED BY <1>1, <1>5, <1>6, <1>7, ProceedGoesOn

LEMMA FailGoesOn ==
  ASSUME Types, NEW c \in calls, Fail(c), NEW X,
         Contacts(routingTable[c.from]) \subseteq X,
         ToSet(join[c.from].todo) \cup ToSet(join[c.from].nodes)
           \cup ToSet(join[c.from].candidates) \subseteq X
  PROVE  \E s : /\ GoesOn(c.from, s) /\ GoodThen(s, c.from) /\ Within(s, X)
                /\ c.for = "ping" => s.state.at = "failed" /\ s.new = {}
<1> DEFINE t == routingTable[c.from]
<1>1. c.from \in Nodes /\ GoodTable(t, c.from)
  BY DEF Types, GoodCall, Calls, Members
<1>2. Proceed(c, t, TRUE, <<>>) /\ troubled' \subseteq Nodes
  BY <1>1 DEF Fail, Types
<1>3. <<>> \in Seq(Nodes) /\ Contacts(t) \cup ToSet(<<>>) \subseteq X
  BY EmptyIs
<1>4. TRUE \in BOOLEAN /\ (c.for = "ping" /\ ~TRUE => Contacts(t) # {})
  OBVIOUS
<1> HIDE DEF t
<1> QED BY <1>1, <1>2, <1>3, <1>4, ProceedGoesOn

LEMMA NextTypes == Types /\ [Next]_vars => Types'
<1> SUFFICES ASSUME Types, [Next]_vars PROVE Types'
  OBVIOUS
<1> DEFINE X == Nodes
<1>0. /\ \A n \in Nodes : /\ Contacts(routingTable[n]) \subseteq X
                          /\ ToSet(join[n].todo) \subseteq X
                          /\ ToSet(join[n].nodes) \subseteq X
                          /\ ToSet(join[n].candidates) \subseteq X
  BY ContactsAre, Elements DEF Types, States
<1>1. ASSUME NEW n \in Members, Join(n) PROVE Types'
  BY <1>1, JoinTypes
<1>2. ASSUME NEW n \in Members, NEW target \in Targets \cup {ID[n]}, Lookup(n, target)
      PROVE  Types'
  <2>1. n \in Nodes /\ joins[n] > 0
    BY <1>2 DEF Members, Lookup, Types
  <2>2. \E s : GoesOn(n, s) /\ GoodThen(s, n)
    BY <1>0, <1>2, <2>1, LookupGoesOn
  <2> QED BY <2>1, <2>2, GoesOnTypes
<1>3. ASSUME NEW n \in Members, CollectResults(n) PROVE Types'
  <2>1. n \in Nodes /\ joins[n] > 0
    BY <1>3 DEF Members, CollectResults, Types
  <2>2. \E s : GoesOn(n, s) /\ GoodThen(s, n)
    BY <1>0, <1>3, <2>1, CollectGoesOn
  <2> QED BY <2>1, <2>2, GoesOnTypes
<1>4. ASSUME NEW c \in calls, Serve(c) PROVE Types'
  BY <1>4, ServeTypes
<1>5. ASSUME NEW c \in calls, Return(c) PROVE Types'
  <2>1. c.from \in Members /\ c.from \in Nodes /\ joins[c.from] > 0
    BY DEF Types, GoodCall, Calls, Members
  <2>2. Contacts(routingTable[c.from]) \cup ToSet(c.answer) \cup {c.to} \subseteq X
    <3>1. c.answer \in Seq(Nodes) /\ c.to \in Nodes
      BY <1>5 DEF Types, GoodCall, Calls, Return
    <3> QED BY <1>0, <2>1, <3>1, Elements
  <2>3. \E s : GoesOn(c.from, s) /\ GoodThen(s, c.from)
    BY <1>0, <1>5, <2>1, <2>2, ReturnGoesOn
  <2> QED BY <2>1, <2>3, GoesOnTypes
<1>6. ASSUME NEW c \in calls, Fail(c) PROVE Types'
  <2>1. c.from \in Members /\ c.from \in Nodes /\ joins[c.from] > 0
    BY DEF Types, GoodCall, Calls, Members
  <2>2. \E s : GoesOn(c.from, s) /\ GoodThen(s, c.from)
    BY <1>0, <1>6, <2>1, FailGoesOn
  <2> QED BY <2>1, <2>2, GoesOnTypes
<1>7. ASSUME NEW c \in calls, TimeOut(c) PROVE Types'
  BY <1>7, TimeOutTypes
<1>8. ASSUME UNCHANGED vars PROVE Types'
  BY <1>8 DEF vars, Types, GoodCall
<1> QED BY <1>1, <1>2, <1>3, <1>4, <1>5, <1>6, <1>7, <1>8 DEF Next

LEMMA TypesHold == Spec => []Types
BY InitTypes, NextTypes, PTL DEF Spec

LEMMA TypesTypeOK == Types => TypeOK
<1> SUFFICES ASSUME Types PROVE TypeOK
  OBVIOUS
<1>1. ASSUME NEW n \in Nodes, NEW i \in Places
      PROVE  LET bucket == routingTable[n][i] IN
             /\ Len(bucket) <= K /\ IsInjective(bucket)
             /\ \A m \in ToSet(bucket) : m # n /\ getBucketIndex(n, m) = i
  <2> DEFINE b == routingTable[n][i]
  <2>1. GoodBucket(b, n, i)
    BY DEF Types, GoodTable
  <2>2. b \in Seq(Nodes) /\ DOMAIN b = 1..Len(b)
    BY <2>1 DEF GoodBucket
  <2> HIDE DEF b
  <2>3. IsInjective(b)
    BY <2>1, <2>2 DEF GoodBucket, IsInjective
  <2>4. \A m \in ToSet(b) : m # n /\ getBucketIndex(n, m) = i
    BY <2>1, <2>2, Elements DEF GoodBucket
  <2> QED BY <2>1, <2>3, <2>4 DEF GoodBucket, b
<1>2. \A c \in calls : {c.from, c.to} \subseteq Nodes /\ Listening(c.from)
  BY DEF Types, GoodCall, Calls, Members, Listening
<1> QED BY <1>1, <1>2 DEF TypeOK, Types, Places

\* A contact stands in the bucket of its distance, once, and never in the table
\* of the node itself (Bucket.AddContact and RoutingTable.AddContact), for any
\* nodes, identifiers and bucket size, whatever the calls, the failures and the
\* late answers of Join and iterativeFindNode bring in which order.
THEOREM TypeCorrect == Spec => []TypeOK
BY TypesHold, TypesTypeOK, PTL

-----------------------------------------------------------------------------
\* Who has been heard of.  Everybody in a table, in a join or in an answer is
\* known to the bootstrap node, and so is a caller, except in a ping of Join that
\* it has not had yet: this is how it comes to know the caller.

HeardByNode(n) ==
  /\ Contacts(routingTable[n]) \subseteq Known
  /\ ToSet(join[n].todo) \subseteq Known
  /\ ToSet(join[n].nodes) \subseteq Known
  /\ ToSet(join[n].candidates) \subseteq Known
  /\ join[n].at \in Registered => n \in Known

HeardInCall(c) ==
  /\ c.to \in Known
  /\ c.served \/ c.for # "ping" => c.from \in Known
  /\ c.served => ToSet(c.answer) \subseteq Known

Heard ==
  /\ \A n \in Nodes : HeardByNode(n)
  /\ \A c \in calls : HeardInCall(c)

\* The bootstrap node never joins: what others do leaves its table.
LEMMA GoesOnHeard ==
  ASSUME Types, Heard, NEW n \in Members, NEW s, GoodThen(s, n), GoesOn(n, s),
         Within(s, Known), s.new # {} \/ s.state.at \in Registered => n \in Known
  PROVE  Heard'
<1>1. n \in Nodes /\ n # Bootstrap /\ Bootstrap \in Nodes
  BY NodesAssumption DEF Members
<1>2. /\ routingTable'[n] = s.table
      /\ \A m \in Nodes : m # n => routingTable'[m] = routingTable[m]
  BY <1>1 DEF GoesOn, Types
<1>3. Known' = Known
  BY <1>1, <1>2 DEF Known
<1>4. join'[n] = s.state /\ \A m \in Nodes : m # n => join'[m] = join[m]
  BY <1>1 DEF GoesOn, Types
<1>5. ASSUME NEW m \in Nodes PROVE HeardByNode(m)'
  <2>1. CASE m = n
    BY <1>2, <1>3, <1>4, <2>1 DEF HeardByNode, Within
  <2>2. CASE m # n
    <3>1. HeardByNode(m)
      BY DEF Heard
    <3>2. routingTable'[m] = routingTable[m] /\ join'[m] = join[m]
      BY <1>2, <1>4, <2>2
    <3> QED BY <1>3, <3>1, <3>2 DEF HeardByNode
  <2> QED BY <2>1, <2>2
<1>6. ASSUME NEW c \in calls' PROVE HeardInCall(c)'
  <2>1. CASE c \in calls
    <3>1. HeardInCall(c)
      BY <2>1 DEF Heard
    <3> QED BY <1>3, <3>1 DEF HeardInCall
  <2>2. CASE c \in s.new
    <3>1. c.to \in Known /\ c.from = n /\ ~c.served /\ n \in Known
      BY <2>2 DEF Within, GoodThen
    <3> QED BY <1>3, <3>1 DEF HeardInCall
  <2> QED BY <2>1, <2>2 DEF GoesOn
<1> QED BY <1>5, <1>6 DEF Heard

LEMMA InitHeard == Roomy(Bootstrap) /\ Init => Heard
<1> SUFFICES ASSUME Roomy(Bootstrap), Init PROVE Heard
  OBVIOUS
<1> DEFINE All == Earlier \cup {Bootstrap}
<1>1. Earlier \in SUBSET Nodes /\ All \in SUBSET Nodes /\ Bootstrap \in Nodes
      /\ Bootstrap \notin Earlier
  BY NodesAssumption, BoundsAssumption DEF Members
<1>2. /\ SetToSeq(Earlier) \in Seq(Nodes) /\ ToSet(SetToSeq(Earlier)) = Earlier
      /\ SetToSeq(All) \in Seq(Nodes) /\ ToSet(SetToSeq(All)) = All
  BY <1>1, SetToSeqIs
<1> HIDE DEF All
<1>3. ASSUME NEW n \in Nodes
      PROVE  GoodTable(NewRoutingTable, n) /\ Contacts(NewRoutingTable) = {}
  BY NewTableIs
<1>4. routingTable[Bootstrap] = AddAll(NewRoutingTable, Bootstrap, SetToSeq(Earlier))
  BY <1>1 DEF Init
<1>5. All \subseteq Known
  <2>1. \A m : m \in ToSet(SetToSeq(Earlier)) \ {Bootstrap} => m \in Contacts(routingTable[Bootstrap])
    BY <1>1, <1>2, <1>3, <1>4, AddAllIs
  <2> QED BY <1>1, <1>2, <2>1 DEF Known, All
<1>6. ASSUME NEW n \in Nodes PROVE Contacts(routingTable[n]) \subseteq All
  <2>1. CASE n = Bootstrap
    BY <1>1, <1>2, <1>3, <1>4, <2>1, AddAllIs DEF All
  <2>2. CASE n # Bootstrap /\ n \in Earlier
    <3>1. routingTable[n] = AddAll(NewRoutingTable, n, SetToSeq(All))
      BY <2>2 DEF Init, All
    <3> QED BY <1>2, <1>3, <3>1, AddAllIs
  <2>3. CASE n # Bootstrap /\ n \notin Earlier
    <3>1. routingTable[n] = NewRoutingTable
      BY <2>3 DEF Init
    <3> QED BY <1>3, <3>1
  <2> QED BY <2>1, <2>2, <2>3
<1>7. ASSUME NEW n \in Nodes PROVE HeardByNode(n)
  <2>1. CASE n \in Earlier
    <3>1. join[n] = At("joined")
      BY <2>1 DEF Init
    <3>2. join[n].todo = <<>> /\ join[n].nodes = <<>> /\ join[n].candidates = <<>>
      BY <3>1, AtIs
    <3>3. n \in Known
      BY <1>5, <2>1 DEF All
    <3> QED BY <1>5, <1>6, <3>2, <3>3, EmptyIs DEF HeardByNode
  <2>2. CASE n \notin Earlier
    <3>1. join[n] = At("off")
      BY <2>2 DEF Init
    <3>2. /\ join[n].todo = <<>> /\ join[n].nodes = <<>> /\ join[n].candidates = <<>>
          /\ join[n].at = "off"
      BY <3>1, AtIs
    <3>3. join[n].at \notin Registered
      BY <3>2 DEF Registered
    <3> QED BY <1>5, <1>6, <3>2, <3>3, EmptyIs DEF HeardByNode
  <2> QED BY <2>1, <2>2
<1>8. calls = {}
  BY DEF Init
<1> QED BY <1>7, <1>8 DEF Heard

LEMMA JoinHeard ==
  ASSUME Types, Heard, NEW n \in Members, Join(n) PROVE Heard'
<1> DEFINE t == AddContact(NewRoutingTable, n, Bootstrap)
           c == Ping(n, Bootstrap, "ping")
<1>1. n \in Nodes /\ n # Bootstrap /\ Bootstrap \in Nodes
  BY NodesAssumption DEF Members
<1>2. \A m : m \in Contacts(t) => m = Bootstrap
  <2>1. GoodTable(NewRoutingTable, n) /\ Contacts(NewRoutingTable) = {}
    BY <1>1, NewTableIs
  <2> QED BY <1>1, <2>1, AddContactIs
<1>3. c.to = Bootstrap /\ ~c.served /\ c.for = "ping"
  BY DEF Ping, Call
<1>4. /\ At("ping").todo = <<>> /\ At("ping").nodes = <<>> /\ At("ping").candidates = <<>>
      /\ At("ping").at \notin Registered
  <2>1. At("ping").at = "ping"
    BY AtIs
  <2>2. "ping" \notin Registered
    BY DEF Registered
  <2> QED BY <2>1, <2>2, AtIs
<1>5. /\ routingTable' = [routingTable EXCEPT ![n] = t]
      /\ join' = [join EXCEPT ![n] = At("ping")] /\ calls' = calls \cup {c}
  BY DEF Join
<1> HIDE DEF t, c
<1>6. /\ routingTable'[n] = t /\ join'[n] = At("ping")
      /\ \A m \in Nodes : m # n => routingTable'[m] = routingTable[m] /\ join'[m] = join[m]
  BY <1>1, <1>5 DEF Types
<1>7. Known' = Known /\ Bootstrap \in Known
  BY <1>1, <1>6 DEF Known
<1>8. ASSUME NEW m \in Nodes PROVE HeardByNode(m)'
  <2>1. CASE m = n
    BY <1>2, <1>4, <1>6, <1>7, <2>1, EmptyIs DEF HeardByNode
  <2>2. CASE m # n
    <3>1. HeardByNode(m)
      BY DEF Heard
    <3> QED BY <1>6, <1>7, <2>2, <3>1 DEF HeardByNode
  <2> QED BY <2>1, <2>2
<1>9. ASSUME NEW d \in calls' PROVE HeardInCall(d)'
  <2>1. CASE d \in calls
    <3>1. HeardInCall(d)
      BY <2>1 DEF Heard
    <3> QED BY <1>7, <3>1 DEF HeardInCall
  <2>2. CASE d = c
    BY <1>3, <1>7, <2>2 DEF HeardInCall
  <2> QED BY <1>5, <2>1, <2>2
<1> QED BY <1>8, <1>9 DEF Heard

LEMMA TimeOutHeard ==
  ASSUME Types, Heard, NEW c \in calls, TimeOut(c) PROVE Heard'
<1> DEFINE d == [c EXCEPT !.for = "nothing"]
<1>1. HeardInCall(c) /\ c.for = "query" /\ c \in Calls
  BY DEF Heard, TimeOut, Types, GoodCall
<1>2. d.from = c.from /\ d.to = c.to /\ d.served = c.served /\ d.answer = c.answer
  BY <1>1 DEF Calls
<1>3. calls' = (calls \ {c}) \cup {d} /\ UNCHANGED <<routingTable, join>>
  BY DEF TimeOut
<1> HIDE DEF d
<1>4. Known' = Known
  BY <1>3 DEF Known
<1>5. ASSUME NEW n \in Nodes PROVE HeardByNode(n)'
  <2>1. HeardByNode(n)
    BY DEF Heard
  <2> QED BY <1>3, <1>4, <2>1 DEF HeardByNode
<1>6. ASSUME NEW e \in calls' PROVE HeardInCall(e)'
  <2>1. CASE e \in calls
    <3>1. HeardInCall(e)
      BY <2>1 DEF Heard
    <3> QED BY <1>4, <3>1 DEF HeardInCall
  <2>2. CASE e = d
    BY <1>1, <1>2, <1>4, <2>2 DEF HeardInCall
  <2> QED BY <1>3, <2>1, <2>2
<1> QED BY <1>5, <1>6 DEF Heard

\* Only a call can make the bootstrap node know somebody, and none makes it
\* forget as long as its buckets have room.
LEMMA ServeHeard ==
  ASSUME Roomy(Bootstrap), Types, Heard, NEW c \in calls, Serve(c) PROVE Heard'
<1> DEFINE n == c.to
           t == AddContact(routingTable[n], n, c.from)
           d == [c EXCEPT !.served = TRUE,
                          !.answer = IF c.type = FIND_NODE
                                       THEN FindClosestNodes(t, c.target, K) ELSE <<>>]
<1>1. /\ GoodCall(c) /\ n \in Nodes /\ c.from \in Nodes /\ c.from \in Members
      /\ Bootstrap \in Nodes /\ (c.for = "ping" => n = Bootstrap)
  BY NodesAssumption DEF Types, GoodCall, Calls, Members
<1>2. GoodTable(routingTable[n], n)
  BY <1>1 DEF Types
<1>3. /\ GoodTable(t, n) /\ t \in [Places -> Seq(Nodes)]
      /\ \A m : m \in Contacts(t) => m \in Contacts(routingTable[n]) \/ m = c.from
      /\ c.from # n => c.from \in Contacts(t)
      /\ Roomy(n) => \A m : m \in Contacts(routingTable[n]) => m \in Contacts(t)
  <2> HIDE DEF n
  <2>1. /\ GoodTable(t, n)
        /\ \A m : m \in Contacts(t) => m \in Contacts(routingTable[n]) \/ m = c.from
        /\ c.from # n => c.from \in Contacts(t)
        /\ Roomy(n) => \A m : m \in Contacts(routingTable[n]) => m \in Contacts(t)
    BY <1>1, <1>2, AddContactIs
  <2> QED BY <2>1 DEF GoodTable
<1>4. /\ routingTable' = [routingTable EXCEPT ![n] = t]
      /\ calls' = (calls \ {c}) \cup {d}
      /\ UNCHANGED join
  BY DEF Serve
<1>5. /\ d.from = c.from /\ d.to = c.to /\ ToSet(d.answer) \subseteq Contacts(t)
  <2> HIDE DEF t
  <2> QED BY <1>1, <1>3, ServedIs
<1> HIDE DEF t, d
<1>6. routingTable'[n] = t /\ \A m \in Nodes : m # n => routingTable'[m] = routingTable[m]
  BY <1>1, <1>4 DEF Types
<1>7. HeardInCall(c)
  BY DEF Heard
<1>8. \A m : m \in Known => m \in Known'
  <2>1. CASE n = Bootstrap
    BY <1>3, <1>6, <2>1 DEF Known
  <2>2. CASE n # Bootstrap
    BY <1>1, <1>6, <2>2 DEF Known
  <2> QED BY <2>1, <2>2
<1>9. c.from \in Known'
  <2>1. CASE n = Bootstrap
    BY <1>1, <1>3, <1>6, <2>1 DEF Known, Members
  <2>2. CASE n # Bootstrap
    BY <1>1, <1>7, <1>8, <2>2 DEF HeardInCall
  <2> QED BY <2>1, <2>2
<1>10. \A m \in Contacts(t) : m \in Known'
  <2>1. HeardByNode(n)
    BY <1>1 DEF Heard
  <2> QED BY <1>3, <1>8, <1>9, <2>1 DEF HeardByNode
<1> HIDE DEF n
<1>11. ASSUME NEW m \in Nodes PROVE HeardByNode(m)'
  <2>1. HeardByNode(m)
    BY DEF Heard
  <2>2. Contacts(routingTable'[m]) \subseteq Known'
    BY <1>6, <1>8, <1>10, <2>1 DEF HeardByNode
  <2> QED BY <1>4, <1>8, <2>1, <2>2 DEF HeardByNode
<1>12. ASSUME NEW e \in calls' PROVE HeardInCall(e)'
  <2>1. CASE e \in calls
    <3>1. HeardInCall(e)
      BY <2>1 DEF Heard
    <3> QED BY <1>8, <3>1 DEF HeardInCall
  <2>2. CASE e = d
    BY <1>5, <1>7, <1>8, <1>9, <1>10, <2>2 DEF HeardInCall
  <2> QED BY <1>4, <2>1, <2>2
<1> QED BY <1>11, <1>12 DEF Heard

LEMMA NextHeard == Roomy(Bootstrap) /\ Types /\ Heard /\ [Next]_vars => Heard'
<1> SUFFICES ASSUME Roomy(Bootstrap), Types, Heard, [Next]_vars PROVE Heard'
  OBVIOUS
<1> DEFINE X == Known
<1>0. \A n \in Nodes : /\ Contacts(routingTable[n]) \subseteq X
                       /\ ToSet(join[n].todo) \subseteq X
                       /\ ToSet(join[n].nodes) \subseteq X
                       /\ ToSet(join[n].candidates) \subseteq X
  BY DEF Heard, HeardByNode
<1>1. ASSUME NEW n \in Members, Join(n) PROVE Heard'
  BY <1>1, JoinHeard
<1>2. ASSUME NEW n \in Members, NEW target \in Targets \cup {ID[n]}, Lookup(n, target)
      PROVE  Heard'
  <2>1. n \in Nodes /\ n \in Known
    BY <1>2 DEF Members, Lookup, Heard, HeardByNode, Registered
  <2> HIDE DEF X
  <2>2. \E s : GoesOn(n, s) /\ GoodThen(s, n) /\ Within(s, X)
    BY <1>0, <1>2, <2>1, LookupGoesOn
  <2> QED BY <2>1, <2>2, GoesOnHeard DEF X
<1>3. ASSUME NEW n \in Members, CollectResults(n) PROVE Heard'
  <2>1. n \in Nodes /\ n \in Known
    BY <1>3 DEF Members, CollectResults, Heard, HeardByNode, Registered
  <2> HIDE DEF X
  <2>2. \E s : GoesOn(n, s) /\ GoodThen(s, n) /\ Within(s, X)
    BY <1>0, <1>3, <2>1, CollectGoesOn
  <2> QED BY <2>1, <2>2, GoesOnHeard DEF X
<1>4. ASSUME NEW c \in calls, Serve(c) PROVE Heard'
  BY <1>4, ServeHeard
<1>5. ASSUME NEW c \in calls, Return(c) PROVE Heard'
  <2>1. c.from \in Members /\ c.from \in Nodes
    BY DEF Types, GoodCall, Calls, Members
  <2>2. c.from \in Known /\ ToSet(c.answer) \cup {c.to} \subseteq X
    BY <1>5 DEF Return, Heard, HeardInCall
  <2> HIDE DEF X
  <2>3. \E s : GoesOn(c.from, s) /\ GoodThen(s, c.from) /\ Within(s, X)
    BY <1>0, <1>5, <2>1, <2>2, ReturnGoesOn
  <2> QED BY <2>1, <2>2, <2>3, GoesOnHeard DEF X
<1>6. ASSUME NEW c \in calls, Fail(c) PROVE Heard'
  <2>1. c.from \in Members /\ c.from \in Nodes
    BY DEF Types, GoodCall, Calls, Members
  <2>2. c.for # "ping" => c.from \in Known
    BY DEF Heard, HeardInCall
  <2>3. "failed" \notin Registered
    BY DEF Registered
  <2> HIDE DEF X
  <2>4. \E s : /\ GoesOn(c.from, s) /\ GoodThen(s, c.from) /\ Within(s, X)
               /\ c.for = "ping" => s.state.at = "failed" /\ s.new = {}
    BY <1>0, <1>6, <2>1, FailGoesOn
  <2>5. PICK s : /\ GoesOn(c.from, s) /\ GoodThen(s, c.from) /\ Within(s, X)
                 /\ c.for = "ping" => s.state.at = "failed" /\ s.new = {}
    BY <2>4
  <2>6. s.new # {} \/ s.state.at \in Registered => c.from \in Known
    BY <2>2, <2>3, <2>5
  <2> QED BY <2>1, <2>5, <2>6, GoesOnHeard DEF X
<1>7. ASSUME NEW c \in calls, TimeOut(c) PROVE Heard'
  BY <1>7, TimeOutHeard
<1>8. ASSUME UNCHANGED vars PROVE Heard'
  BY <1>8 DEF vars, Heard, HeardByNode, HeardInCall, Known
<1> QED BY <1>1, <1>2, <1>3, <1>4, <1>5, <1>6, <1>7, <1>8 DEF Next

\* While the bootstrap node has a place for everybody (a bucket holds K, and no more
\* than K members stand at one distance from it), nobody is known to any node who
\* is unknown to it: the order of Join, its ping first and only then FIND_NODE
\* calls, sees to it in every interleaving, and a failed or repeated Join, which
\* rebuilds the table of its node only, takes nothing back.
THEOREM BootstrapKnows ==
  ASSUME Roomy(Bootstrap)
  PROVE  Spec => []BootstrapKnowsAll
<1>1. Init => Heard
  BY InitHeard
<1>2. Types /\ Heard /\ [Next]_vars => Heard'
  BY NextHeard
<1>3. Heard => BootstrapKnowsAll
  BY DEF Heard, HeardByNode, BootstrapKnowsAll, Known
<1> QED BY <1>1, <1>2, <1>3, TypesHold, PTL DEF Spec
=============================================================================
