-------------------------- MODULE Acquainted_proofs --------------------------
(***************************************************************************)
(* Proof that the nodes of a shard of the size that main starts get to     *)
(* know each other: Acquainted of Discovery, for any such shard, whatever  *)
(* the identifiers and however joins cross, fail, start over and wait in   *)
(* vain.                                                                   *)
(*                                                                         *)
(* A node that joins asks the ALPHA contacts nearest to it.  Either the    *)
(* bootstrap node is one of them and names all who registered before, and  *)
(* they are pinged; or more than ALPHA contacts are in the table already,  *)
(* which in a shard of at most ALPHA + 2 is everybody, and the lookup      *)
(* pings them.  In both cases the node calls everybody it should know.     *)
(***************************************************************************)
EXTENDS Discovery_proofs

\* The shard has at most ALPHA members besides the node that joins and the
\* bootstrap node, and the candidates of a lookup are never cut.  main has 5
\* nodes a shard, and ALPHA is 3, there are 3 rounds, and K is 20.
SmallShard ==
  /\ Cardinality(Nodes) <= ALPHA + 2
  /\ Cardinality(Nodes) - 1 + Iterations * Cardinality(Nodes) <= K

\* A join waits for one call of its own at a time.
Stages == {"ping", "find", "connect"}
Orderly ==
  /\ \A c \in calls : c.for \in Stages \cup {"query"} => join[c.from].at = c.for
  /\ \A c, d \in calls : c.from = d.from /\ {c.for, d.for} \subseteq Stages => c = d
  /\ \A c \in calls : c.for = "find" => c.type = FIND_NODE

\* Nobody has been heard of by a node that has not started.
Fresh == \A n \in Members : joins[n] = 0 => Contacts(routingTable[n]) = {}

\* Who registered before a node is known to the bootstrap node.
Before == \A n \in Members : earlier[n] \subseteq Contacts(routingTable[Bootstrap]) \ {n}

\* The candidates of a lookup, with all those it may yet be told of, are no more
\* than are kept.
Brief(j) ==
  /\ j.at = "lookup" => j.iteration = 0
  /\ j.at = "query" =>
       /\ j.iteration \in 1..Iterations
       /\ Len(j.nodes) <= Cardinality(Nodes)
       /\ Len(j.candidates) + (Iterations - j.iteration + 1) * Cardinality(Nodes) <= K
Short == \A n \in Members : Brief(join[n])

\* n has called m, which has filed it, and still has it unless a later join of m
\* forgot it; that one then fails, or is told of n.
Kept(m, n) ==
  /\ n \in Known
  /\ \/ n \in Contacts(routingTable[m])
     \/ /\ joins[m] > 1
        /\ \/ m \in troubled
           \/ n \in earlier[m]
           \/ \E c \in calls : c.from = m /\ c.for = "ping" /\ ~c.served

Filed == \A c \in calls : c.served /\ c.to # c.from => Kept(c.to, c.from)

\* n and m have met, or n has called m.
Met(n, m) == m \in Contacts(routingTable[n]) /\ Kept(m, n)
Reached(n, m) == Met(n, m) \/ \E c \in calls : c.from = n /\ c.to = m

\* n has called, or is to call, all who registered before it.
KnowsAll(n) == Nodes \ {n} \subseteq Contacts(routingTable[n])
AsksBootstrap(n) ==
  \/ Bootstrap \in ToSet(join[n].todo)
  \/ \E c \in calls : /\ c.from = n /\ c.for = "find" /\ c.to = Bootstrap
                      /\ c.served => earlier[n] \subseteq ToSet(c.answer)
ReachesEarlier(n) == \A m \in earlier[n] : Reached(n, m)

Course(n) ==
  /\ join[n].at = "find" =>
       KnowsAll(n) \/ AsksBootstrap(n) \/ earlier[n] \subseteq ToSet(join[n].nodes)
  /\ join[n].at = "connect" =>
       KnowsAll(n) \/ \A m \in earlier[n] : m \in ToSet(join[n].todo) \/ Reached(n, m)
  /\ join[n].at = "lookup" => KnowsAll(n) \/ ReachesEarlier(n)
  /\ join[n].at = "query" =>
       Nodes \ {n} \subseteq ToSet(join[n].candidates) \/ ReachesEarlier(n)
  /\ join[n].at = "joined" => ReachesEarlier(n)

OnCourse == \A n \in Members : n \in troubled \/ Course(n)

Ways == Orderly /\ Fresh /\ Before /\ Short /\ Filed /\ OnCourse
-----------------------------------------------------------------------------
\* Where nothing is cut.

LEMMA Uncut ==
  ASSUME NEW s \in Seq(Nodes), NEW k \in Nat, Len(s) <= k
  PROVE  FirstOf(s, k) = s
<1> DEFINE T == {k, Len(s)}
<1>1. T \in SUBSET Nat /\ T # {} /\ Len(s) \in Nat
  OBVIOUS
<1>2. Min(T) = Len(s)
  <2>1. Min(T) \in T /\ \A y \in T : Min(T) <= y
    <3> HIDE DEF T
    <3> QED BY <1>1, MinIs
  <2> QED BY <2>1
<1>3. FirstOf(s, k) = SubSeq(s, 1, Len(s))
  BY <1>2 DEF FirstOf
<1> QED BY <1>1, <1>3

LEMMA SortedKeeps ==
  ASSUME NEW s \in Seq(Nodes), NEW target \in Sought
  PROVE  ToSet(ByDistance(s, target)) = ToSet(s)
<1> DEFINE b == ByDistance(s, target)
<1>1. /\ b \in Seq(Nodes) /\ Len(b) = Len(s)
      /\ \A r \in 1..Len(s) : \E i \in 1..Len(s) : b[r] = s[i]
      /\ \A i \in 1..Len(s) : \E r \in 1..Len(s) : b[r] = s[i]
  BY DistancePermutes
<1> HIDE DEF b
<1>2. /\ \A m : m \in ToSet(b) <=> \E r \in 1..Len(s) : b[r] = m
      /\ \A m : m \in ToSet(s) <=> \E i \in 1..Len(s) : s[i] = m
  BY <1>1, Elements
<1>3. \A m : m \in ToSet(b) <=> m \in ToSet(s)
  BY <1>1, <1>2
<1> QED BY <1>3 DEF b

LEMMA SetToSeqLen ==
  ASSUME NEW S \in SUBSET Nodes
  PROVE  Len(SetToSeq(S)) = Cardinality(S)
<1> DEFINE c == Cardinality(S)
           s == SetToSeq(S)
<1>1. IsFiniteSet(S) /\ c \in Nat /\ ExistsBijection(1..c, S)
  BY NodesFinite, FS_Subset, FS_CardinalityType
<1>2. \E f \in [1..c -> S] : IsInjective(f)
  BY <1>1 DEF ExistsBijection, Bijection, Injection
<1>3. s \in [1..c -> S]
  BY <1>2 DEF SetToSeq
<1> HIDE DEF s, c
<1>4. s \in Seq(Nodes) /\ DOMAIN s = 1..c
  BY <1>1, <1>3
<1> QED BY <1>1, <1>4 DEF s, c

\* The numbers of SmallShard.
LEMMA Sizes ==
  ASSUME SmallShard
  PROVE  /\ Cardinality(Nodes) \in Nat \ {0} /\ {K, ALPHA, Iterations} \subseteq Nat \ {0}
         /\ \A n \in Nodes : /\ IsFiniteSet(Nodes \ {n})
                             /\ Cardinality(Nodes \ {n}) = Cardinality(Nodes) - 1
         /\ Cardinality(Nodes) - 1 <= K
<1> DEFINE N == Cardinality(Nodes)
<1>1. IsFiniteSet(Nodes) /\ N \in Nat /\ Bootstrap \in Nodes
  BY NodesFinite, FS_CardinalityType, NodesAssumption
<1>2. \A n \in Nodes : /\ IsFiniteSet(Nodes \ {n}) /\ Cardinality(Nodes \ {n}) = N - 1
                       /\ Cardinality(Nodes \ {n}) \in Nat
  BY <1>1, FS_RemoveElement, FS_CardinalityType
<1>3. N # 0
  <2>1. N - 1 \in Nat
    BY <1>1, <1>2
  <2> HIDE DEF N
  <2> QED BY <1>1, <2>1
<1>4. K \in Nat \ {0} /\ ALPHA \in Nat \ {0} /\ Iterations \in Nat \ {0}
  BY BoundsAssumption
<1>5. N - 1 + Iterations * N <= K
  BY DEF SmallShard
<1> HIDE DEF N
<1>6. Iterations * N \in Nat
  BY <1>1, <1>4
<1>7. N - 1 <= K
  BY <1>1, <1>4, <1>5, <1>6
<1> QED BY <1>1, <1>2, <1>3, <1>4, <1>7 DEF N

\* All contacts are named where there are no more than are asked for.
LEMMA FindsAll ==
  ASSUME NEW t \in [Places -> Seq(Nodes)], NEW target \in Sought, NEW k \in Nat \ {0},
         Cardinality(Contacts(t)) <= k
  PROVE  /\ ToSet(FindClosestNodes(t, target, k)) = Contacts(t)
         /\ Len(FindClosestNodes(t, target, k)) = Cardinality(Contacts(t))
<1> DEFINE s == SetToSeq(Contacts(t))
           b == ByDistance(s, target)
<1>1. Contacts(t) \in SUBSET Nodes
  BY ContactsAre
<1>2. s \in Seq(Nodes) /\ ToSet(s) = Contacts(t) /\ Len(s) = Cardinality(Contacts(t))
  BY <1>1, SetToSeqIs, SetToSeqLen
<1>3. FindClosestNodes(t, target, k) = FirstOf(b, k)
  BY DEF FindClosestNodes
<1> HIDE DEF s
<1>4. b \in Seq(Nodes) /\ Len(b) = Len(s) /\ ToSet(b) = ToSet(s)
  BY <1>2, DistancePermutes, SortedKeeps
<1> HIDE DEF b
<1>5. FirstOf(b, k) = b
  BY <1>2, <1>4, Uncut
<1> QED BY <1>2, <1>3, <1>4, <1>5

\* A table is of others only.
LEMMA TableOfOthers ==
  ASSUME SmallShard, NEW n \in Nodes, NEW t, GoodTable(t, n)
  PROVE  /\ Contacts(t) \subseteq Nodes \ {n} /\ IsFiniteSet(Contacts(t))
         /\ Cardinality(Contacts(t)) \in Nat /\ Cardinality(Contacts(t)) <= Cardinality(Nodes) - 1
<1>1. t \in [Places -> Seq(Nodes)]
  BY DEF GoodTable
<1>2. ASSUME NEW m \in Contacts(t) PROVE m # n /\ m \in Nodes
  <2>1. PICK i \in Places : m \in ToSet(t[i])
    BY <1>1, ContactsAre
  <2>2. t[i] \in Seq(Nodes) /\ GoodBucket(t[i], n, i)
    BY <1>1 DEF GoodTable
  <2>3. \E h \in 1..Len(t[i]) : t[i][h] = m
    BY <2>1, <2>2, Elements
  <2> QED BY <1>1, <2>2, <2>3, ContactsAre DEF GoodBucket
<1>3. Contacts(t) \subseteq Nodes \ {n}
  BY <1>2
<1>4. IsFiniteSet(Nodes \ {n}) /\ Cardinality(Nodes \ {n}) = Cardinality(Nodes) - 1
  BY Sizes
<1> QED BY <1>3, <1>4, FS_Subset, FS_CardinalityType

\* No bucket lacks room.
LEMMA AllRoomy == ASSUME SmallShard, NEW n \in Nodes PROVE Roomy(n)
<1>1. ASSUME NEW i \in Places
      PROVE  Cardinality({m \in Nodes \ {n} : getBucketIndex(n, m) = i}) <= K
  <2> DEFINE S == {m \in Nodes \ {n} : getBucketIndex(n, m) = i}
  <2>1. S \subseteq Nodes \ {n}
    OBVIOUS
  <2> HIDE DEF S
  <2>2. /\ IsFiniteSet(Nodes \ {n}) /\ Cardinality(Nodes \ {n}) = Cardinality(Nodes) - 1
        /\ Cardinality(Nodes) - 1 <= K /\ Cardinality(Nodes) \in Nat /\ K \in Nat
    BY Sizes
  <2>3. /\ Cardinality(S) <= Cardinality(Nodes \ {n}) /\ IsFiniteSet(S)
        /\ Cardinality(S) \in Nat
    BY <2>1, <2>2, FS_Subset, FS_CardinalityType
  <2>4. Cardinality(S) <= K
    BY <2>2, <2>3
  <2> QED BY <2>4 DEF S
<1> QED BY <1>1 DEF Roomy

\* Who does not ask the bootstrap node knows everybody.
LEMMA AsksOrKnows ==
  ASSUME SmallShard, NEW n \in Members, NEW t, GoodTable(t, n), Bootstrap \in Contacts(t)
  PROVE  \/ Bootstrap \in ToSet(FindClosestNodes(t, ID[n], ALPHA))
         \/ Nodes \ {n} \subseteq Contacts(t)
<1>0. /\ t \in [Places -> Seq(Nodes)] /\ ID[n] \in Sought /\ ALPHA \in Nat \ {0} /\ n \in Nodes
      /\ Cardinality(Nodes) \in Nat
  BY Sizes DEF GoodTable, Sought, Members
<1>1. /\ Contacts(t) \subseteq Nodes \ {n} /\ Cardinality(Contacts(t)) \in Nat
      /\ IsFiniteSet(Nodes \ {n}) /\ Cardinality(Nodes \ {n}) = Cardinality(Nodes) - 1
      /\ Cardinality(Contacts(t)) <= Cardinality(Nodes) - 1
  BY <1>0, TableOfOthers, Sizes
<1>2. CASE Cardinality(Contacts(t)) <= ALPHA
  BY <1>0, <1>2, FindsAll
<1>3. CASE ~(Cardinality(Contacts(t)) <= ALPHA)
  <2>1. Cardinality(Nodes) <= ALPHA + 2
    BY DEF SmallShard
  <2>2. Cardinality(Contacts(t)) = Cardinality(Nodes \ {n})
    BY <1>0, <1>1, <1>3, <2>1
  <2>3. Contacts(t) = Nodes \ {n}
    BY <1>1, <2>2, FS_Subset
  <2> QED BY <2>3
<1> QED BY <1>2, <1>3

-----------------------------------------------------------------------------
\* What the steps of a join leave.

\* What it waits for is one call of its own or the questions of a round, no
\* contact is lost, and a lookup keeps its room.
Proper(n, s) ==
  /\ GoodThen(s, n)
  /\ \A c \in s.new : /\ c.for \in Stages \cup {"query"} => s.state.at = c.for
                      /\ c.for = "find" => c.type = FIND_NODE
  /\ \A c, d \in s.new : {c.for, d.for} \subseteq Stages => c = d
  /\ Contacts(routingTable[n]) \subseteq Contacts(s.table)
  /\ Brief(s.state)

\* One call, of its own.
LEMMA OneCall ==
  ASSUME NEW n \in Members, NEW s, GoodThen(s, n), NEW c, s.new \subseteq {c},
         c.for \in Stages \cup {"query"} => s.state.at = c.for,
         c.for = "find" => c.type = FIND_NODE,
         Contacts(routingTable[n]) \subseteq Contacts(s.table),
         s.state.at = "lookup" => s.state.iteration = 0, s.state.at # "query"
  PROVE  Proper(n, s)
BY DEF Proper, Brief

LEMMA FindNextLeaves ==
  ASSUME NEW n \in Members, NEW t, GoodTable(t, n), NEW todo \in Seq(Nodes), todo # <<>>,
         NEW nodes \in Seq(Nodes), NEW s, s = FindNext(n, t, todo, nodes)
  PROVE  /\ s.table = t /\ s.state.at = "find" /\ s.state.nodes = nodes
         /\ s.new = {Call(n, Head(todo), FIND_NODE, ID[n], "find", 1)}
         /\ ToSet(todo) \subseteq {Head(todo)} \cup ToSet(s.state.todo)
<1> DEFINE c == Call(n, Head(todo), FIND_NODE, ID[n], "find", 1)
           state == [At("find") EXCEPT !.todo = Tail(todo), !.nodes = nodes]
<1>1. s.table = t /\ s.state = state /\ s.new = {c}
  BY DEF FindNext, Then
<1>3. state.at = "find" /\ state.todo = Tail(todo) /\ state.nodes = nodes
  BY DEF At
<1> HIDE DEF state
<1>4. /\ Tail(todo) \in Seq(Nodes) /\ Len(Tail(todo)) = Len(todo) - 1
      /\ \A i \in 1..Len(todo) - 1 : Tail(todo)[i] = todo[i + 1]
      /\ Head(todo) = todo[1] /\ Len(todo) >= 1 /\ Len(todo) \in Nat
  OBVIOUS
<1>5. ASSUME NEW m \in ToSet(todo) PROVE m = Head(todo) \/ m \in ToSet(Tail(todo))
  <2>1. PICK i \in 1..Len(todo) : todo[i] = m
    BY Elements
  <2>2. CASE i = 1
    BY <1>4, <2>1, <2>2
  <2>3. CASE i # 1
    <3>1. i - 1 \in 1..Len(todo) - 1 /\ (i - 1) + 1 = i
      BY <1>4, <2>3
    <3>2. Tail(todo)[i - 1] = m
      BY <1>4, <2>1, <3>1
    <3> QED BY <1>4, <3>1, <3>2, Elements
  <2> QED BY <2>2, <2>3
<1> QED BY <1>1, <1>3, <1>5

LEMMA ConnectLeaves ==
  ASSUME NEW n \in Members, NEW t, GoodTable(t, n), NEW todo \in Seq(Nodes),
         NEW s, s = Connect(n, t, todo)
  PROVE  \/ /\ s.table = t /\ s.state.at = "lookup" /\ s.state.iteration = 0
            /\ s.new = {} /\ ToSet(todo) \subseteq {n}
         \/ \E m \in Nodes :
              /\ s.table = AddContact(t, n, m) /\ s.state.at = "connect"
              /\ s.new = {Ping(n, m, "connect")}
              /\ ToSet(todo) \subseteq {n, m} \cup ToSet(s.state.todo)
<1> DEFINE T == {h \in 1..Len(todo) : todo[h] # n}
           i == IF T # {} THEN Min(T) ELSE 0
           over == [At("lookup") EXCEPT !.lookups = 1 + RandomTargets]
           rest == SubSeq(todo, i + 1, Len(todo))
           on == [At("connect") EXCEPT !.todo = rest]
           m == todo[i]
<1>1. s = IF i = 0 THEN Then(t, over, {})
          ELSE Then(AddContact(t, n, m), on, {Ping(n, m, "connect")})
  BY DEF Connect, SelectInSeq
<1>2. T \in SUBSET Nat /\ Len(todo) \in Nat /\ T \subseteq 1..Len(todo)
  OBVIOUS
<1>3. (i = 0 /\ T = {}) \/ (i \in T /\ \A y \in T : i <= y)
  <2> HIDE DEF T
  <2> QED BY <1>2, MinIs
<1>4. /\ over.at = "lookup" /\ over.iteration = 0 /\ on.at = "connect" /\ on.todo = rest
  BY DEF At
<1> HIDE DEF i, over, on
<1>5. CASE i = 0
  <2>1. T = {}
    BY <1>2, <1>3, <1>5
  <2>2. \A h \in 1..Len(todo) : todo[h] = n
    BY <2>1
  <2>3. ToSet(todo) \subseteq {n}
    BY <2>2, Elements
  <2>4. s.table = t /\ s.state = over /\ s.new = {}
    BY <1>1, <1>5 DEF Then
  <2> QED BY <1>4, <2>3, <2>4
<1>6. CASE i # 0
  <2>1. i \in 1..Len(todo) /\ m \in Nodes /\ \A h \in 1..Len(todo) : h < i => todo[h] = n
    BY <1>2, <1>3, <1>6
  <2>2. /\ rest \in Seq(Nodes) /\ Len(rest) = Len(todo) - i
        /\ \A h \in 1..Len(todo) - i : rest[h] = todo[i + h]
    BY <1>2, <2>1
  <2> HIDE DEF rest, T
  <2>3. ASSUME NEW x \in ToSet(todo), x # n, x # m PROVE x \in ToSet(rest)
    <3>1. PICK h \in 1..Len(todo) : todo[h] = x
      BY Elements
    <3>2. h > i
      BY <2>1, <2>3, <3>1
    <3>3. h - i \in 1..Len(todo) - i /\ i + (h - i) = h
      BY <1>2, <2>1, <3>2
    <3>4. rest[h - i] = x
      BY <2>2, <3>1, <3>3
    <3> QED BY <2>2, <3>3, <3>4, Elements
  <2>4. s.table = AddContact(t, n, m) /\ s.state = on /\ s.new = {Ping(n, m, "connect")}
    BY <1>1, <1>6 DEF Then
  <2>5. ToSet(todo) \subseteq {n, m} \cup ToSet(s.state.todo)
    BY <1>4, <2>3, <2>4
  <2> QED BY <1>4, <2>1, <2>4, <2>5
<1> QED BY <1>5, <1>6

LEMMA FindNextProper ==
  ASSUME NEW n \in Members, NEW t, GoodTable(t, n),
         Contacts(routingTable[n]) \subseteq Contacts(t),
         NEW todo \in Seq(Nodes), todo # <<>>, NEW nodes \in Seq(Nodes),
         NEW s, s = FindNext(n, t, todo, nodes), GoodThen(s, n)
  PROVE  Proper(n, s) /\ Contacts(t) \subseteq Contacts(s.table)
<1> DEFINE c == Call(n, Head(todo), FIND_NODE, ID[n], "find", 1)
<1>1. s.table = t /\ s.state.at = "find" /\ s.new = {c}
  BY FindNextLeaves
<1>2. c.for = "find" /\ c.type = FIND_NODE
  BY DEF Call
<1> HIDE DEF c
<1> QED BY <1>1, <1>2, OneCall

LEMMA ConnectProper ==
  ASSUME SmallShard, NEW n \in Members, NEW t, GoodTable(t, n),
         Contacts(routingTable[n]) \subseteq Contacts(t), NEW todo \in Seq(Nodes),
         NEW s, s = Connect(n, t, todo), GoodThen(s, n)
  PROVE  Proper(n, s) /\ Contacts(t) \subseteq Contacts(s.table)
<1>1. CASE s.table = t /\ s.state.at = "lookup" /\ s.state.iteration = 0 /\ s.new = {}
  BY <1>1 DEF Proper, Brief
<1>2. CASE \E m \in Nodes : /\ s.table = AddContact(t, n, m) /\ s.state.at = "connect"
                            /\ s.new = {Ping(n, m, "connect")}
  <2>1. PICK m \in Nodes : /\ s.table = AddContact(t, n, m) /\ s.state.at = "connect"
                           /\ s.new = {Ping(n, m, "connect")}
    BY <1>2
  <2>2. Contacts(t) \subseteq Contacts(s.table)
    BY <2>1, AllRoomy, AddContactIs DEF Members
  <2>3. Ping(n, m, "connect").for = "connect"
    BY DEF Ping, Call
  <2> QED BY <2>1, <2>2, <2>3, OneCall
<1> QED BY <1>1, <1>2, ConnectLeaves

\* A call that is over.
LEMMA ContinueLeaves ==
  ASSUME SmallShard, Types, Short, NEW n \in Members, NEW t, GoodTable(t, n),
         Contacts(routingTable[n]) \subseteq Contacts(t),
         NEW step \in {"ping", "find", "connect", "query", "nothing"},
         step = "query" => join[n].at = step,
         NEW failed \in BOOLEAN, step = "ping" /\ ~failed => Contacts(t) # {},
         NEW nodes \in Seq(Nodes), NEW s, s = Continue(n, t, step, failed, nodes)
  PROVE  /\ Proper(n, s) /\ Contacts(t) \subseteq Contacts(s.table)
         /\ step \in {"query", "nothing"} =>
              /\ s.new = {} /\ s.state.at = join[n].at
              /\ s.state.todo = join[n].todo /\ s.state.candidates = join[n].candidates
              /\ ToSet(join[n].nodes) \subseteq ToSet(s.state.nodes)
<1> DEFINE j == join[n]
<1>1. /\ n \in Nodes /\ GoodState(j) /\ j \in States /\ j.todo \in Seq(Nodes)
      /\ j.nodes \in Seq(Nodes) /\ j.candidates \in Seq(Nodes) /\ t \in [Places -> Seq(Nodes)]
      /\ Brief(j)
  BY DEF Types, Members, States, GoodTable, Short
<1>2. GoodThen(s, n)
  <2>1. /\ Contacts(t) \cup ToSet(nodes) \subseteq Nodes
        /\ ToSet(j.todo) \cup ToSet(j.nodes) \cup ToSet(j.candidates) \subseteq Nodes
    BY <1>1, ContactsAre, Elements
  <2> QED BY <1>1, <2>1, ContinueIs
<1>3. j.nodes \o nodes \in Seq(Nodes)
  BY <1>1, Concatenated
<1>4. ASSUME NEW list \in Seq(Nodes), list # <<>>, NEW named \in Seq(Nodes),
             s = FindNext(n, t, list, named)
      PROVE  Proper(n, s) /\ Contacts(t) \subseteq Contacts(s.table)
  <2> HIDE DEF j
  <2> QED BY <1>2, <1>4, FindNextProper
<1>5. ASSUME NEW list \in Seq(Nodes), s = Connect(n, t, list)
      PROVE  Proper(n, s) /\ Contacts(t) \subseteq Contacts(s.table)
  BY <1>2, <1>5, ConnectProper
<1>6. ASSUME s = Then(t, At("failed"), {})
      PROVE  Proper(n, s) /\ Contacts(t) \subseteq Contacts(s.table)
  <2>1. s.table = t /\ s.state = At("failed") /\ s.new = {} /\ At("failed").at = "failed"
    BY <1>6, AtIs DEF Then
  <2> QED BY <1>2, <2>1 DEF Proper, Brief
<1>7. CASE step = "ping"
  <2>1. CASE failed
    BY <1>6, <1>7, <2>1 DEF Continue
  <2>2. CASE ~failed
    <3> DEFINE list == FindClosestNodes(t, ID[n], ALPHA)
    <3>1. ID[n] \in Sought /\ ALPHA \in Nat \ {0}
      BY <1>1, BoundsAssumption DEF Sought
    <3>2. list \in Seq(Nodes) /\ list # <<>>
      BY <1>1, <1>7, <2>2, <3>1, FindClosestNodesIs
    <3>3. s = FindNext(n, t, list, <<>>)
      BY <1>7, <2>2 DEF Continue, FindNode
    <3> HIDE DEF list
    <3> QED BY <1>4, <1>7, <3>2, <3>3, EmptyIs
  <2> QED BY <2>1, <2>2
<1>8. CASE step = "find"
  BY <1>1, <1>3, <1>4, <1>5, <1>8 DEF Continue
<1>9. CASE step = "connect"
  BY <1>1, <1>5, <1>6, <1>9 DEF Continue
<1>10. CASE step = "query"
  <2> DEFINE S == ToSet(j.nodes) \cup ToSet(nodes)
             list == SetToSeq(S)
             k == [j EXCEPT !.nodes = list]
  <2>1. s.table = t /\ s.state = k /\ s.new = {}
    BY <1>10 DEF Continue, Then
  <2>2. S \in SUBSET Nodes
    BY <1>1, Elements
  <2> HIDE DEF S
  <2>3. list \in Seq(Nodes) /\ ToSet(list) = S /\ Len(list) = Cardinality(S)
    BY <2>2, SetToSeqIs, SetToSeqLen
  <2>4. Cardinality(S) <= Cardinality(Nodes)
    BY <2>2, NodesFinite, FS_Subset
  <2> HIDE DEF list
  <2>5. /\ k.at = j.at /\ k.todo = j.todo /\ k.candidates = j.candidates /\ k.nodes = list
        /\ k.iteration = j.iteration
    BY <1>1 DEF States
  <2> HIDE DEF k, j
  <2>6. Brief(k)
    BY <1>1, <1>10, <2>3, <2>4, <2>5 DEF Brief
  <2>7. Proper(n, s)
    BY <1>2, <2>1, <2>6 DEF Proper
  <2> QED BY <2>1, <2>3, <2>5, <2>7 DEF S, j
<1>11. CASE step = "nothing"
  <2>1. s.table = t /\ s.state = j /\ s.new = {}
    BY <1>11 DEF Continue, Then
  <2> HIDE DEF j
  <2>2. Proper(n, s)
    BY <1>1, <1>2, <2>1 DEF Proper
  <2> QED BY <2>1, <2>2 DEF j
<1> QED BY <1>7, <1>8, <1>9, <1>10, <1>11

\* A round of a lookup that has rounds left.
LEMMA RoundLeaves ==
  ASSUME SmallShard, NEW n \in Members, NEW t, GoodTable(t, n),
         Contacts(routingTable[n]) \subseteq Contacts(t),
         NEW j \in States, j.target \in Sought, j.iteration < Iterations,
         Len(j.candidates) + (Iterations - j.iteration) * Cardinality(Nodes) <= K,
         NEW s, s = Round(n, t, j)
  PROVE  /\ Proper(n, s) /\ s.table = t /\ s.state.at = "query"
         /\ s.state.candidates = j.candidates
<1> DEFINE open == {i \in DOMAIN j.candidates : j.candidates[i] \notin j.queried}
           places == FirstPlaces(open)
           state == [j EXCEPT !.at = "query",
                              !.queried = @ \cup {j.candidates[i] : i \in places},
                              !.iteration = @ + 1, !.nodes = <<>>]
           new == {Call(n, j.candidates[i], FIND_NODE, j.target, "query", i) : i \in places}
<1>1. s.table = t /\ s.state = state /\ s.new = new
  BY DEF Round, Ask, Then
<1>2. \A c \in new : c.for = "query"
  <2>1. \A i \in places : Call(n, j.candidates[i], FIND_NODE, j.target, "query", i).for = "query"
    BY DEF Call
  <2> HIDE DEF places
  <2> QED BY <2>1
<1>3. /\ state.at = "query" /\ state.candidates = j.candidates /\ state.nodes = <<>>
      /\ state.iteration = j.iteration + 1 /\ j.iteration \in Nat
  BY DEF States
<1>4. GoodThen(s, n)
  <2>1. Contacts(t) \cup ToSet(j.todo) \cup ToSet(j.candidates) \subseteq Nodes
    BY ContactsAre, Elements DEF GoodTable, States
  <2> QED BY <2>1, RoundIs
<1> HIDE DEF state, new
<1>5. Brief(state)
  <2>1. Cardinality(Nodes) \in Nat /\ Iterations \in Nat
    BY Sizes
  <2>2. /\ state.iteration \in 1..Iterations
        /\ Iterations - state.iteration + 1 = Iterations - j.iteration
    <3>1. \A x, y \in Nat : x < y => x + 1 \in 1..y /\ y - (x + 1) + 1 = y - x
      OBVIOUS
    <3> QED BY <1>3, <2>1, <3>1
  <2>3. Len(<<>>) = 0
    OBVIOUS
  <2> QED BY <1>3, <2>1, <2>2, <2>3 DEF Brief
<1>6. Proper(n, s)
  <2>1. "query" \notin Stages
    BY DEF Stages
  <2> QED BY <1>1, <1>2, <1>3, <1>4, <1>5, <2>1 DEF Proper
<1> QED BY <1>1, <1>3, <1>6

LEMMA MergedLeaves ==
  ASSUME NEW j \in States, j.target \in Sought, Len(j.candidates) + Len(j.nodes) <= K
  PROVE  /\ Merged(j) \in Seq(Nodes) /\ Len(Merged(j)) = Len(j.candidates) + Len(j.nodes)
         /\ ToSet(j.candidates) \subseteq ToSet(Merged(j))
<1> DEFINE s == j.candidates \o j.nodes
           b == ByDistance(s, j.target)
<1>1. j.candidates \in Seq(Nodes) /\ j.nodes \in Seq(Nodes) /\ K \in Nat
  BY BoundsAssumption DEF States
<1>2. /\ s \in Seq(Nodes) /\ ToSet(s) = ToSet(j.candidates) \cup ToSet(j.nodes)
      /\ Len(s) = Len(j.candidates) + Len(j.nodes)
  BY <1>1, Concatenated
<1>3. Merged(j) = FirstOf(b, K)
  BY DEF Merged
<1> HIDE DEF s
<1>4. b \in Seq(Nodes) /\ Len(b) = Len(s) /\ ToSet(b) = ToSet(s)
  BY <1>2, DistancePermutes, SortedKeeps
<1> HIDE DEF b
<1>5. FirstOf(b, K) = b
  BY <1>1, <1>2, <1>4, Uncut
<1> QED BY <1>2, <1>3, <1>4, <1>5

\* The end of a lookup: every candidate is called.
LEMMA EndLookupLeaves ==
  ASSUME SmallShard, Types, NEW n \in Members, NEW nodes \in Seq(Nodes),
         NEW s, s = EndLookup(n, nodes)
  PROVE  /\ Proper(n, s) /\ s.state.at \in {"lookup", "joined"}
         /\ s.new = {Ping(n, m, "nothing") : m \in ToSet(nodes) \ {n}}
<1> DEFINE t == routingTable[n]
           on == [At("lookup") EXCEPT !.lookups = join[n].lookups]
           new == {Ping(n, m, "nothing") : m \in ToSet(nodes) \ {n}}
<1>1. /\ n \in Nodes /\ GoodTable(t, n) /\ join[n] \in States
  BY DEF Types, Members
<1>2. /\ s.table = AddAll(t, n, nodes) /\ s.new = new
      /\ s.state = At("joined") \/ s.state = on
  BY DEF EndLookup, Then
<1>3. GoodThen(s, n)
  <2>1. Contacts(t) \cup ToSet(nodes) \subseteq Nodes
    BY <1>1, ContactsAre, Elements DEF GoodTable
  <2> HIDE DEF t
  <2> QED BY <1>1, <2>1, EndLookupIs DEF t
<1>4. Contacts(t) \subseteq Contacts(s.table)
  <2>1. Roomy(n) /\ n \notin Contacts(t)
    BY <1>1, AllRoomy, TableOfOthers
  <2> HIDE DEF t
  <2> QED BY <1>1, <1>2, <2>1, AddAllIs
<1>5. \A c \in new : c.for = "nothing"
  BY DEF Ping, Call
<1>6. s.state.at = "joined" \/ (s.state.at = "lookup" /\ s.state.iteration = 0)
  <2>1. At("joined").at = "joined" /\ on.at = "lookup" /\ on.iteration = 0
    BY DEF At
  <2> HIDE DEF on
  <2> QED BY <1>2, <2>1
<1>7. Brief(s.state)
  BY <1>6 DEF Brief
<1>8. Proper(n, s)
  <2>1. "nothing" \notin Stages
    BY DEF Stages
  <2> HIDE DEF new
  <2> QED BY <1>2, <1>3, <1>4, <1>5, <1>7, <2>1 DEF Proper
<1> HIDE DEF new
<1> QED BY <1>2, <1>6, <1>8 DEF new

-----------------------------------------------------------------------------
\* The steps of a node.

\* A node goes on, when the calls in gone are over: what it still waits for is
\* of the step it is at.
Moves(n, s, gone) ==
  /\ joins[n] > 0
  /\ routingTable' = [routingTable EXCEPT ![n] = s.table]
  /\ join' = [join EXCEPT ![n] = s.state]
  /\ calls' = (calls \ gone) \cup s.new
  /\ joins' = joins /\ earlier' = earlier /\ troubled \subseteq troubled'
  /\ \A c \in gone :
       /\ c.from = n
       /\ n \in troubled' \/ (c.served /\ (c.to # n => c.to \in Contacts(s.table)))
  /\ \/ \A c \in calls \ gone : c.from = n => c.for \notin Stages \cup {"query"}
     \/ s.new = {} /\ s.state.at = join[n].at

LEMMA LookupMoves ==
  ASSUME SmallShard, Types, Orderly, Short,
         NEW n \in Members, NEW target \in Targets \cup {ID[n]}, Lookup(n, target)
  PROVE  \E s : /\ Moves(n, s, {}) /\ Proper(n, s) /\ s.state.at = "query"
                /\ ToSet(s.state.candidates) = Contacts(routingTable[n])
<1> DEFINE t == routingTable[n]
           near == FindClosestNodes(t, target, K)
           j == [join[n] EXCEPT !.candidates = near, !.target = target, !.lookups = @ - 1]
           s == Round(n, t, j)
<1>1. /\ n \in Nodes /\ GoodTable(t, n) /\ t \in [Places -> Seq(Nodes)] /\ join[n] \in States
      /\ join[n].at = "lookup" /\ join[n].iteration = 0 /\ join[n].lookups \in Int
  <2>1. n \in Nodes /\ GoodTable(t, n) /\ join[n] \in States /\ join[n].at = "lookup"
    BY DEF Types, Members, Lookup
  <2> QED BY <2>1 DEF GoodTable, Short, Brief, States
<1>2. target \in Sought /\ target \in SUBSET Positions
  BY <1>1, NodesAssumption, BoundsAssumption DEF Sought
<1>3. /\ Cardinality(Contacts(t)) <= K /\ Cardinality(Contacts(t)) \in Nat /\ K \in Nat \ {0}
      /\ Cardinality(Contacts(t)) <= Cardinality(Nodes) - 1 /\ Cardinality(Nodes) \in Nat
      /\ Iterations \in Nat \ {0}
  <2>1. /\ Cardinality(Contacts(t)) \in Nat /\ Cardinality(Contacts(t)) <= Cardinality(Nodes) - 1
    BY <1>1, TableOfOthers
  <2>2. /\ Cardinality(Nodes) \in Nat /\ K \in Nat \ {0} /\ Cardinality(Nodes) - 1 <= K
        /\ Iterations \in Nat \ {0}
    BY Sizes
  <2> HIDE DEF t
  <2> QED BY <2>1, <2>2
<1>4. /\ near \in Seq(Nodes) /\ ToSet(near) = Contacts(t)
      /\ Len(near) = Cardinality(Contacts(t))
  BY <1>1, <1>2, <1>3, FindClosestNodesIs, FindsAll
<1>5. /\ join' = [join EXCEPT ![n] = s.state] /\ calls' = calls \cup s.new
      /\ UNCHANGED <<routingTable, joins, earlier, troubled>>
  BY DEF Lookup
<1> HIDE DEF near
<1>6. j \in States /\ j.target = target /\ j.candidates = near /\ j.iteration = 0
  <2>1. join[n].lookups - 1 \in Int
    BY <1>1
  <2>2. j \in States
    BY <1>1, <1>2, <1>4, <2>1 DEF States
  <2> QED BY <1>1, <2>2 DEF States
<1> HIDE DEF t, j
<1>7. Len(j.candidates) + (Iterations - j.iteration) * Cardinality(Nodes) <= K
  <2>1. Cardinality(Nodes) - 1 + Iterations * Cardinality(Nodes) <= K
    BY DEF SmallShard
  <2>2. Iterations * Cardinality(Nodes) \in Nat /\ Iterations - 0 = Iterations
    BY <1>3, SMTT(30)
  <2>3. Len(near) + Iterations * Cardinality(Nodes) <= K
    <3> DEFINE P == Iterations * Cardinality(Nodes)
    <3>1. Cardinality(Nodes) - 1 + P <= K /\ P \in Nat
      BY <2>1, <2>2
    <3> HIDE DEF P
    <3>2. \A a, b, x, k \in Nat : a <= b - 1 /\ b - 1 + x <= k => a + x <= k
      OBVIOUS
    <3>3. Len(near) + P <= K
      BY <1>3, <1>4, <3>1, <3>2
    <3> QED BY <3>3 DEF P
  <2> QED BY <1>6, <2>2, <2>3
<1>8. j.iteration < Iterations /\ Contacts(routingTable[n]) \subseteq Contacts(t)
  BY <1>3, <1>6 DEF t
<1>9. /\ Proper(n, s) /\ s.table = t /\ s.state.at = "query" /\ s.state.candidates = near
  BY <1>1, <1>2, <1>6, <1>7, <1>8, RoundLeaves
<1> HIDE DEF s
<1>10. Moves(n, s, {})
  <2>1. routingTable' = [routingTable EXCEPT ![n] = s.table]
    BY <1>1, <1>5, <1>9 DEF t, Types
  <2>2. \A c \in calls : c.from = n => c.for \notin Stages \cup {"query"}
    BY <1>1 DEF Orderly, Stages
  <2>3. joins[n] > 0
    BY <1>1 DEF Types
  <2> QED BY <1>5, <2>1, <2>2, <2>3 DEF Moves
<1> QED BY <1>4, <1>9, <1>10 DEF t

LEMMA CollectMoves ==
  ASSUME SmallShard, Types, Orderly, Short, NEW n \in Members, CollectResults(n)
  PROVE  \E s : /\ Moves(n, s, {}) /\ Proper(n, s) /\ join[n].at = "query"
                /\ \/ /\ s.state.at = "query"
                      /\ ToSet(join[n].candidates) \subseteq ToSet(s.state.candidates)
                   \/ /\ s.state.at \in {"lookup", "joined"}
                      /\ \A m \in ToSet(join[n].candidates) \ {n} :
                           Ping(n, m, "nothing") \in s.new
<1> DEFINE t == routingTable[n]
           merged == Merged(join[n])
           j == [join[n] EXCEPT !.candidates = merged]
           again == j.iteration < Iterations /\ ~ ToSet(j.candidates) \subseteq j.queried
           s == IF again THEN Round(n, t, j) ELSE EndLookup(n, j.candidates)
           it == join[n].iteration
           N == Cardinality(Nodes)
<1>1. /\ n \in Nodes /\ GoodTable(t, n) /\ join[n] \in States /\ join[n].at = "query"
      /\ join[n].target \in Sought
  BY DEF Types, Members, GoodState, CollectResults
<1>2. /\ Len(join[n].nodes) <= N
      /\ Len(join[n].candidates) + (Iterations - it + 1) * N <= K
  BY <1>1 DEF Short, Brief
<1>3. /\ N \in Nat /\ K \in Nat /\ Iterations \in Nat
      /\ Len(join[n].nodes) \in Nat /\ Len(join[n].candidates) \in Nat
  BY <1>1, Sizes DEF States
<1>3a. Iterations - it \in Nat
  <2>1. it \in 1..Iterations
    BY <1>1 DEF Short, Brief
  <2> HIDE DEF it
  <2> QED BY <1>3, <2>1
<1>4. Len(join[n].candidates) + Len(join[n].nodes) + (Iterations - it) * N <= K
  <2>2. \A x, y \in Nat : (x + 1) * y = x * y + y /\ x * y \in Nat
    BY SMTT(30)
  <2> HIDE DEF it, N
  <2>3. /\ (Iterations - it + 1) * N = (Iterations - it) * N + N
        /\ (Iterations - it) * N \in Nat
    BY <1>3, <1>3a, <2>2
  <2> DEFINE P == (Iterations - it) * N
  <2>4. Len(join[n].candidates) + (P + N) <= K /\ P \in Nat
    BY <1>2, <2>3 DEF N
  <2> HIDE DEF P
  <2>5. \A a, b, x, y, k \in Nat : a + (x + y) <= k /\ b <= y => a + b + x <= k
    OBVIOUS
  <2>6. Len(join[n].candidates) + Len(join[n].nodes) + P <= K
    BY <1>2, <1>3, <2>4, <2>5 DEF N
  <2> QED BY <2>6 DEF P
<1>5. (Iterations - it) * N \in Nat
  <2>2. \A x, y \in Nat : x * y \in Nat
    BY SMTT(30)
  <2> QED BY <1>3, <1>3a, <2>2
<1>6. /\ merged \in Seq(Nodes)
      /\ Len(merged) = Len(join[n].candidates) + Len(join[n].nodes)
      /\ ToSet(join[n].candidates) \subseteq ToSet(merged)
  <2>1. Len(join[n].candidates) + Len(join[n].nodes) <= K
    <3> DEFINE P == (Iterations - it) * N
    <3>1. P \in Nat /\ Len(join[n].candidates) + Len(join[n].nodes) + P <= K
      BY <1>4, <1>5
    <3> HIDE DEF P
    <3>2. \A a, b, x, k \in Nat : a + b + x <= k => a + b <= k
      OBVIOUS
    <3> QED BY <1>3, <3>1, <3>2
  <2> QED BY <1>1, <2>1, MergedLeaves
<1>7. /\ routingTable' = [routingTable EXCEPT ![n] = s.table]
      /\ join' = [join EXCEPT ![n] = s.state] /\ calls' = calls \cup s.new
      /\ UNCHANGED <<joins, earlier, troubled>>
  BY DEF CollectResults
<1> HIDE DEF merged
<1>8. /\ j \in States /\ j.target = join[n].target /\ j.candidates = merged
      /\ j.iteration = it
  <2>1. j \in States
    BY <1>1, <1>6 DEF States
  <2> QED BY <1>1, <2>1 DEF States
<1> HIDE DEF j
<1>9. Moves(n, s, {})
  <2>1. \A c \in calls : c.from = n => c.for \notin Stages \cup {"query"}
    BY <1>1 DEF Orderly, Stages, CollectResults, Unanswered
  <2>2. joins[n] > 0
    BY <1>1 DEF Types
  <2> HIDE DEF s
  <2> QED BY <1>7, <2>1, <2>2 DEF Moves
<1>10. CASE again
  <2>1. j.target \in Sought /\ j.iteration < Iterations
    BY <1>1, <1>8, <1>10
  <2>2. Len(j.candidates) + (Iterations - j.iteration) * Cardinality(Nodes) <= K
    BY <1>4, <1>6, <1>8
  <2>3. s = Round(n, t, j)
    BY <1>10
  <2> HIDE DEF s, again
  <2>4. /\ Proper(n, s) /\ s.state.at = "query" /\ s.state.candidates = j.candidates
    BY <1>1, <1>8, <2>1, <2>2, <2>3, RoundLeaves
  <2> QED BY <1>1, <1>6, <1>8, <1>9, <2>4
<1>11. CASE ~again
  <2>1. s = EndLookup(n, merged)
    BY <1>8, <1>11
  <2> HIDE DEF s, again
  <2>2. /\ Proper(n, s) /\ s.state.at \in {"lookup", "joined"}
        /\ s.new = {Ping(n, m, "nothing") : m \in ToSet(merged) \ {n}}
    BY <1>6, <2>1, EndLookupLeaves
  <2>3. \A m \in ToSet(join[n].candidates) \ {n} : Ping(n, m, "nothing") \in s.new
    BY <1>6, <2>2
  <2> QED BY <1>1, <1>9, <2>2, <2>3
<1> QED BY <1>10, <1>11

\* What a node does next when nothing waits for the call that is over.
Stays(n, s) ==
  /\ s.new = {} /\ s.state.at = join[n].at /\ s.state.todo = join[n].todo
  /\ s.state.candidates = join[n].candidates
  /\ ToSet(join[n].nodes) \subseteq ToSet(s.state.nodes)

LEMMA ProceedMoves ==
  ASSUME SmallShard, Types, Orderly, Short, NEW c \in calls, NEW t, GoodTable(t, c.from),
         Contacts(routingTable[c.from]) \subseteq Contacts(t), NEW failed \in BOOLEAN,
         c.for = "ping" /\ ~failed => Contacts(t) # {}, NEW nodes \in Seq(Nodes),
         Proceed(c, t, failed, nodes), troubled \subseteq troubled',
         c.from \in troubled' \/ (c.served /\ (c.to # c.from => c.to \in Contacts(t))),
         NEW s, s = Continue(c.from, t, c.for, failed, nodes)
  PROVE  /\ Moves(c.from, s, {c}) /\ Proper(c.from, s)
         /\ c.for \in {"query", "nothing"} => Stays(c.from, s)
<1> DEFINE n == c.from
           step == c.for
<1>0. joins[n] > 0
  BY DEF Types
<1>1. n \in Members /\ step \in {"ping", "find", "connect", "query", "nothing"}
  BY DEF Types, GoodCall, Calls
<1>2. step \in Stages \cup {"query"} => join[n].at = step
  BY DEF Orderly
<1>3. /\ routingTable' = [routingTable EXCEPT ![n] = s.table]
      /\ join' = [join EXCEPT ![n] = s.state] /\ calls' = (calls \ {c}) \cup s.new
      /\ UNCHANGED <<joins, earlier>>
  BY DEF Proceed
<1>4. /\ Proper(n, s) /\ Contacts(t) \subseteq Contacts(s.table)
      /\ step \in {"query", "nothing"} => Stays(n, s)
  <2>1. /\ GoodTable(t, n) /\ Contacts(routingTable[n]) \subseteq Contacts(t)
        /\ step = "ping" /\ ~failed => Contacts(t) # {}
        /\ s = Continue(n, t, step, failed, nodes)
    OBVIOUS
  <2> HIDE DEF n, step
  <2> QED BY <1>1, <1>2, <2>1, ContinueLeaves, SMTT(20) DEF Stays, Stages
<1>5. \/ \A d \in calls \ {c} : d.from = n => d.for \notin Stages \cup {"query"}
      \/ s.new = {} /\ s.state.at = join[n].at
  <2>1. CASE step \in {"query", "nothing"}
    BY <1>4, <2>1 DEF Stays
  <2>2. CASE step \in Stages
    <3>1. ASSUME NEW d \in calls \ {c}, d.from = n PROVE d.for \notin Stages \cup {"query"}
      <4>1. d.for \notin Stages
        BY <2>2, <3>1 DEF Orderly
      <4>2. d.for # "query"
        BY <1>2, <2>2, <3>1 DEF Orderly, Stages
      <4> QED BY <4>1, <4>2
    <3> QED BY <3>1
  <2> QED BY <1>1, <2>1, <2>2 DEF Stages
<1>6. Moves(n, s, {c})
  BY <1>0, <1>3, <1>4, <1>5 DEF Moves
<1> QED BY <1>4, <1>6

LEMMA ReturnMoves ==
  ASSUME SmallShard, Types, Orderly, Short, NEW c \in calls, Return(c),
         NEW t, t = AddContact(routingTable[c.from], c.from, c.to),
         NEW s, s = Continue(c.from, t, c.for, FALSE, c.answer)
  PROVE  /\ Moves(c.from, s, {c}) /\ Proper(c.from, s)
         /\ c.for \in {"query", "nothing"} => Stays(c.from, s)
         /\ GoodTable(t, c.from) /\ Contacts(routingTable[c.from]) \subseteq Contacts(t)
         /\ c.to # c.from => c.to \in Contacts(t)
<1> DEFINE n == c.from
<1>1. /\ GoodCall(c) /\ n \in Members /\ n \in Nodes /\ c.to \in Nodes
      /\ c.answer \in Seq(Nodes) /\ c.served
  BY DEF Types, GoodCall, Calls, Members, Return
<1>2. GoodTable(routingTable[n], n) /\ Roomy(n)
  BY <1>1, AllRoomy DEF Types
<1>3. /\ GoodTable(t, n) /\ (c.to # n => c.to \in Contacts(t))
      /\ Contacts(routingTable[n]) \subseteq Contacts(t)
  BY <1>1, <1>2, AddContactIs
<1>4. c.for = "ping" => c.to # n
  BY <1>1 DEF GoodCall, Members
<1>5. Proceed(c, t, FALSE, c.answer) /\ troubled \subseteq troubled'
  BY DEF Return
<1> HIDE DEF n
<1>6. FALSE \in BOOLEAN /\ (c.for = "ping" /\ ~FALSE => Contacts(t) # {})
  BY <1>3, <1>4
<1> QED BY <1>1, <1>3, <1>5, <1>6, ProceedMoves DEF n

LEMMA FailMoves ==
  ASSUME SmallShard, Types, Orderly, Short, NEW c \in calls, Fail(c)
  PROVE  /\ c.from \in troubled'
         /\ \E s : Moves(c.from, s, {c}) /\ Proper(c.from, s)
<1> DEFINE t == routingTable[c.from]
           s == Continue(c.from, t, c.for, TRUE, <<>>)
<1>1. c.from \in Nodes /\ GoodTable(t, c.from)
  BY DEF Types, GoodCall, Calls, Members
<1>2. Proceed(c, t, TRUE, <<>>) /\ c.from \in troubled' /\ troubled \subseteq troubled'
  BY DEF Fail
<1>3. <<>> \in Seq(Nodes) /\ Contacts(t) \subseteq Contacts(t)
  BY EmptyIs
<1>4. TRUE \in BOOLEAN /\ (c.for = "ping" /\ ~TRUE => Contacts(t) # {})
  OBVIOUS
<1>5. Contacts(routingTable[c.from]) \subseteq Contacts(t)
  OBVIOUS
<1> HIDE DEF t, s
<1>6. s = Continue(c.from, t, c.for, TRUE, <<>>)
  BY DEF s
<1>7. Moves(c.from, s, {c}) /\ Proper(c.from, s)
  BY <1>1, <1>2, <1>3, <1>4, <1>5, <1>6, ProceedMoves
<1> QED BY <1>2, <1>7

\* What a step changes, action by action.
LEMMA JoinIs ==
  ASSUME Types, Orderly, NEW n \in Members, Join(n)
  PROVE  /\ \A m \in Nodes : m # n => /\ routingTable'[m] = routingTable[m]
                                      /\ join'[m] = join[m] /\ joins'[m] = joins[m]
         /\ join'[n].at = "ping" /\ joins'[n] = joins[n] + 1
         /\ calls' = calls \cup {Ping(n, Bootstrap, "ping")}
         /\ troubled' = troubled \ {n} /\ earlier' = earlier
         /\ \A c \in calls : c.from = n => c.for \notin Stages \cup {"query"}
<1>1. n \in Nodes /\ joins[n] \in Nat /\ At("ping").at = "ping"
  BY AtIs DEF Types, Members
<1>2. /\ \E t : routingTable' = [routingTable EXCEPT ![n] = t]
      /\ join' = [join EXCEPT ![n] = At("ping")] /\ joins' = [joins EXCEPT ![n] = @ + 1]
      /\ calls' = calls \cup {Ping(n, Bootstrap, "ping")}
      /\ troubled' = troubled \ {n} /\ earlier' = earlier
  BY DEF Join
<1>3. \A c \in calls : c.from = n => c.for \notin Stages \cup {"query"}
  BY DEF Join, Orderly, Stages
<1> QED BY <1>1, <1>2, <1>3 DEF Types

LEMMA TimeOutIs ==
  ASSUME Types, NEW c \in calls, TimeOut(c)
  PROVE  /\ \E d : /\ calls' = (calls \ {c}) \cup {d} /\ d.from = c.from /\ d.to = c.to
                   /\ d.served = c.served /\ d.for = "nothing"
         /\ c.for = "query" /\ troubled' = troubled \cup {c.from}
         /\ UNCHANGED <<routingTable, join, joins, earlier>>
<1> DEFINE d == [c EXCEPT !.for = "nothing"]
<1>1. c \in Calls
  BY DEF Types, GoodCall
<1>2. /\ calls' = (calls \ {c}) \cup {d} /\ c.for = "query"
      /\ troubled' = troubled \cup {c.from}
      /\ UNCHANGED <<routingTable, join, joins, earlier>>
  BY DEF TimeOut
<1>3. d.from = c.from /\ d.to = c.to /\ d.served = c.served /\ d.for = "nothing"
  BY <1>1 DEF Calls
<1> HIDE DEF d
<1> QED BY <1>2, <1>3

LEMMA ServeIs ==
  ASSUME SmallShard, Types, NEW c \in calls, Serve(c)
  PROVE  /\ \E d : /\ calls' = (calls \ {c}) \cup {d} /\ d.from = c.from /\ d.to = c.to
                   /\ d.for = c.for /\ d.type = c.type
                   /\ c.type = FIND_NODE => Contacts(routingTable[c.to]) \subseteq ToSet(d.answer)
         /\ \A m \in Nodes : /\ Contacts(routingTable[m]) \subseteq Contacts(routingTable'[m])
                             /\ m # c.to => routingTable'[m] = routingTable[m]
         /\ c.from # c.to => c.from \in Contacts(routingTable'[c.to])
         /\ UNCHANGED <<join, joins, troubled>>
         /\ c.for # "ping" => earlier' = earlier
         /\ c.for = "ping" =>
              /\ earlier'[c.from] = Contacts(routingTable[Bootstrap]) \ {c.from}
              /\ \A m \in Nodes : m # c.from => earlier'[m] = earlier[m]
<1> DEFINE n == c.to
           t == AddContact(routingTable[n], n, c.from)
           answer == IF c.type = FIND_NODE THEN FindClosestNodes(t, c.target, K) ELSE <<>>
           d == [c EXCEPT !.served = TRUE, !.answer = answer]
           registered == Contacts(routingTable[n]) \ {c.from}
<1>1. /\ GoodCall(c) /\ c \in Calls /\ n \in Nodes /\ c.from \in Nodes
      /\ (c.for = "ping" => n = Bootstrap)
  BY DEF Types, GoodCall, Calls, Members
<1>2. GoodTable(routingTable[n], n) /\ Roomy(n)
  BY <1>1, AllRoomy DEF Types
<1>3. /\ routingTable' = [routingTable EXCEPT ![n] = t]
      /\ calls' = (calls \ {c}) \cup {d}
      /\ UNCHANGED <<join, joins, troubled>>
      /\ earlier' = IF c.for = "ping" THEN [earlier EXCEPT ![c.from] = registered] ELSE earlier
  BY DEF Serve
<1> HIDE DEF n
<1>4. /\ GoodTable(t, n) /\ (c.from # n => c.from \in Contacts(t))
      /\ Contacts(routingTable[n]) \subseteq Contacts(t)
  BY <1>1, <1>2, AddContactIs
<1> HIDE DEF t
<1>5. c.type = FIND_NODE => Contacts(t) = ToSet(answer)
  <2>1. ASSUME c.type = FIND_NODE PROVE Contacts(t) = ToSet(FindClosestNodes(t, c.target, K))
    <3>1. c.target \in Sought /\ t \in [Places -> Seq(Nodes)]
      BY <1>1, <1>4, <2>1 DEF GoodCall, GoodTable
    <3>2. /\ Cardinality(Contacts(t)) \in Nat /\ Cardinality(Contacts(t)) <= Cardinality(Nodes) - 1
      BY <1>1, <1>4, TableOfOthers
    <3>3. Cardinality(Nodes) \in Nat /\ K \in Nat \ {0} /\ Cardinality(Nodes) - 1 <= K
      BY Sizes
    <3>4. Cardinality(Contacts(t)) <= K
      BY <3>2, <3>3
    <3> QED BY <3>1, <3>3, <3>4, FindsAll
  <2> QED BY <2>1
<1> HIDE DEF answer
<1>6. d.from = c.from /\ d.to = c.to /\ d.for = c.for /\ d.type = c.type /\ d.answer = answer
  BY <1>1 DEF Calls
<1> HIDE DEF d
<1>7. \E e : /\ calls' = (calls \ {c}) \cup {e} /\ e.from = c.from /\ e.to = c.to
             /\ e.for = c.for /\ e.type = c.type
             /\ c.type = FIND_NODE => Contacts(routingTable[c.to]) \subseteq ToSet(e.answer)
  BY <1>3, <1>4, <1>5, <1>6 DEF n
<1>8. routingTable'[n] = t /\ \A m \in Nodes : m # n => routingTable'[m] = routingTable[m]
  BY <1>1, <1>3 DEF Types
<1>9. \A m \in Nodes : Contacts(routingTable[m]) \subseteq Contacts(routingTable'[m])
  BY <1>4, <1>8
<1>10. c.for = "ping" =>
         /\ earlier'[c.from] = Contacts(routingTable[Bootstrap]) \ {c.from}
         /\ \A m \in Nodes : m # c.from => earlier'[m] = earlier[m]
  BY <1>1, <1>3 DEF Types
<1> QED BY <1>3, <1>4, <1>7, <1>8, <1>9, <1>10 DEF n

LEMMA MovesIs ==
  ASSUME Types, NEW n \in Members, NEW gone, NEW s, Moves(n, s, gone), Proper(n, s)
  PROVE  /\ routingTable'[n] = s.table /\ join'[n] = s.state
         /\ \A m \in Nodes : m # n => routingTable'[m] = routingTable[m] /\ join'[m] = join[m]
         /\ \A m \in Nodes : Contacts(routingTable[m]) \subseteq Contacts(routingTable'[m])
BY DEF Moves, Proper, Types, Members

LEMMA NextIs ==
  ASSUME SmallShard, Types, Orderly, Short, [Next]_vars
  PROVE  \/ \E n \in Members : Join(n)
         \/ \E c \in calls : Serve(c)
         \/ \E c \in calls : TimeOut(c)
         \/ \E n \in Members, gone \in SUBSET calls : \E s : Moves(n, s, gone) /\ Proper(n, s)
         \/ UNCHANGED vars
<1> DEFINE Moved == \E n \in Members, gone \in SUBSET calls : \E s : Moves(n, s, gone) /\ Proper(n, s)
<1>1. ASSUME NEW n \in Members, CollectResults(n) PROVE Moved
  <2>1. \E s : Moves(n, s, {}) /\ Proper(n, s)
    BY <1>1, CollectMoves
  <2> QED BY <2>1
<1>2. ASSUME NEW n \in Members, NEW target \in Targets \cup {ID[n]}, Lookup(n, target)
      PROVE  Moved
  <2>1. \E s : Moves(n, s, {}) /\ Proper(n, s)
    BY <1>2, LookupMoves
  <2> QED BY <2>1
<1>3. ASSUME NEW c \in calls, Return(c) PROVE Moved
  <2>1. \E s : Moves(c.from, s, {c}) /\ Proper(c.from, s)
    BY <1>3, ReturnMoves
  <2>2. c.from \in Members /\ {c} \in SUBSET calls
    BY DEF Types, GoodCall, Calls
  <2> QED BY <2>1, <2>2
<1>4. ASSUME NEW c \in calls, Fail(c) PROVE Moved
  <2>1. \E s : Moves(c.from, s, {c}) /\ Proper(c.from, s)
    BY <1>4, FailMoves
  <2>2. c.from \in Members /\ {c} \in SUBSET calls
    BY DEF Types, GoodCall, Calls
  <2> QED BY <2>1, <2>2
<1> HIDE DEF Moved
<1>5. CASE Next
  BY <1>1, <1>2, <1>3, <1>4, <1>5 DEF Next, Moved
<1> QED BY <1>5

-----------------------------------------------------------------------------
\* Every step keeps the calls in order, ...

LEMMA OrderlyStep ==
  ASSUME SmallShard, Types, Orderly, Short, [Next]_vars PROVE Orderly'
<1>0. \A c \in calls : c.from \in Nodes /\ c.from \in Members
  BY DEF Types, GoodCall, Calls, Members
<1>1. ASSUME NEW n \in Members, Join(n) PROVE Orderly'
  <2> DEFINE p == Ping(n, Bootstrap, "ping")
  <2>1. p.from = n /\ p.for = "ping"
    BY DEF Ping, Call
  <2> HIDE DEF p
  <2>2. /\ calls' = calls \cup {p} /\ join'[n].at = "ping"
        /\ \A m \in Nodes : m # n => join'[m] = join[m]
        /\ \A c \in calls : c.from = n => c.for \notin Stages \cup {"query"}
    BY <1>1, JoinIs DEF p
  <2> QED BY <1>0, <2>1, <2>2 DEF Orderly, Stages
<1>2. ASSUME NEW c \in calls, Serve(c) PROVE Orderly'
  <2>1. PICK d : /\ calls' = (calls \ {c}) \cup {d} /\ d.from = c.from
                 /\ d.for = c.for /\ d.type = c.type
    BY <1>2, ServeIs
  <2>2. join' = join
    BY <1>2, ServeIs
  <2>3. ASSUME NEW e \in calls', NEW f \in calls', e.from = f.from,
               {e.for, f.for} \subseteq Stages
        PROVE  e = f
    BY <2>1, <2>3 DEF Orderly
  <2>4. ASSUME NEW e \in calls'
        PROVE  /\ e.for \in Stages \cup {"query"} => join'[e.from].at = e.for
               /\ e.for = "find" => e.type = FIND_NODE
    <3>1. CASE e \in calls
      BY <2>2, <3>1 DEF Orderly
    <3>2. CASE e = d
      BY <2>1, <2>2, <3>2 DEF Orderly
    <3> QED BY <2>1, <3>1, <3>2
  <2> QED BY <2>3, <2>4 DEF Orderly
<1>3. ASSUME NEW c \in calls, TimeOut(c) PROVE Orderly'
  <2>1. PICK d : calls' = (calls \ {c}) \cup {d} /\ d.for = "nothing"
    BY <1>3, TimeOutIs
  <2>2. join' = join
    BY <1>3, TimeOutIs
  <2> QED BY <2>1, <2>2 DEF Orderly, Stages
<1>4. ASSUME NEW n \in Members, NEW gone \in SUBSET calls, NEW s, Moves(n, s, gone), Proper(n, s)
      PROVE  Orderly'
  <2>1. join'[n] = s.state /\ \A m \in Nodes : m # n => join'[m] = join[m]
    BY <1>4, MovesIs
  <2>2. calls' = (calls \ gone) \cup s.new
    BY <1>4 DEF Moves
  <2>3. \A c \in s.new : /\ c.from = n
                         /\ c.for \in Stages \cup {"query"} => s.state.at = c.for
                         /\ c.for = "find" => c.type = FIND_NODE
    BY <1>4 DEF Proper, GoodThen
  <2>4. \A c, d \in s.new : {c.for, d.for} \subseteq Stages => c = d
    BY <1>4 DEF Proper
  <2>5. \/ \A c \in calls \ gone : c.from = n => c.for \notin Stages \cup {"query"}
        \/ s.new = {} /\ s.state.at = join[n].at
    BY <1>4 DEF Moves
  <2>6. ASSUME NEW e \in calls'
        PROVE  /\ e.for \in Stages \cup {"query"} => join'[e.from].at = e.for
               /\ e.for = "find" => e.type = FIND_NODE
    <3>1. CASE e \in s.new
      BY <2>1, <2>3, <3>1
    <3>2. CASE e \in calls \ gone /\ e.from # n
      BY <1>0, <2>1, <3>2 DEF Orderly
    <3>3. CASE e \in calls \ gone /\ e.from = n
      BY <2>1, <2>5, <3>3 DEF Orderly
    <3> QED BY <2>2, <3>1, <3>2, <3>3
  <2>7. ASSUME NEW e \in calls', NEW f \in calls', e.from = f.from,
               {e.for, f.for} \subseteq Stages
        PROVE  e = f
    <3>1. CASE e \in calls \ gone /\ f \in calls \ gone
      BY <2>7, <3>1 DEF Orderly
    <3>2. CASE e \in s.new /\ f \in s.new
      BY <2>4, <2>7, <3>2
    <3>3. CASE e \in s.new /\ f \in calls \ gone
      BY <2>3, <2>5, <2>7, <3>3
    <3>4. CASE e \in calls \ gone /\ f \in s.new
      BY <2>3, <2>5, <2>7, <3>4
    <3> QED BY <2>2, <3>1, <3>2, <3>3, <3>4
  <2> QED BY <2>6, <2>7 DEF Orderly
<1>5. CASE UNCHANGED vars
  BY <1>5 DEF vars, Orderly
<1> QED BY <1>1, <1>2, <1>3, <1>4, <1>5, NextIs

\* ... only nodes that have started are told of others, ...
LEMMA FreshStep ==
  ASSUME SmallShard, Types, Orderly, Short, Fresh, [Next]_vars PROVE Fresh'
<1>0. \A n \in Members : n \in Nodes /\ joins[n] \in Nat
  BY DEF Types, Members
<1>1. ASSUME NEW n \in Members, Join(n) PROVE Fresh'
  <2>1. /\ joins'[n] # 0
        /\ \A m \in Nodes : m # n => routingTable'[m] = routingTable[m] /\ joins'[m] = joins[m]
    BY <1>0, <1>1, JoinIs
  <2> QED BY <1>0, <2>1 DEF Fresh
<1>2. ASSUME NEW c \in calls, Serve(c) PROVE Fresh'
  <2>1. c.to = Bootstrap \/ joins[c.to] > 0
    BY <1>2 DEF Serve, Listening
  <2>2. joins' = joins /\ \A m \in Nodes : m # c.to => routingTable'[m] = routingTable[m]
    BY <1>2, ServeIs
  <2> QED BY <1>0, <2>1, <2>2 DEF Fresh, Members
<1>3. ASSUME NEW c \in calls, TimeOut(c) PROVE Fresh'
  BY <1>3, TimeOutIs DEF Fresh
<1>4. ASSUME NEW n \in Members, NEW gone \in SUBSET calls, NEW s, Moves(n, s, gone), Proper(n, s)
      PROVE  Fresh'
  <2>1. \A m \in Nodes : m # n => routingTable'[m] = routingTable[m]
    BY <1>4, MovesIs
  <2>2. joins' = joins /\ joins[n] > 0
    BY <1>4 DEF Moves
  <2> QED BY <1>0, <2>1, <2>2 DEF Fresh
<1>5. CASE UNCHANGED vars
  BY <1>5 DEF vars, Fresh
<1> QED BY <1>1, <1>2, <1>3, <1>4, <1>5, NextIs

\* ... the bootstrap node forgets nobody, ...
LEMMA BeforeStep ==
  ASSUME SmallShard, Types, Orderly, Short, Before, [Next]_vars
  PROVE  Before' /\ Known \subseteq Known'
<1> DEFINE table == routingTable[Bootstrap]
<1>0. Bootstrap \in Nodes /\ \A n \in Members : n \in Nodes /\ n # Bootstrap
  BY NodesAssumption DEF Members
<1>1. ASSUME earlier' = earlier, Contacts(table) \subseteq Contacts(table')
      PROVE  Before' /\ Known \subseteq Known'
  BY <1>1 DEF Before, Known
<1>2. ASSUME NEW n \in Members, Join(n) PROVE Before' /\ Known \subseteq Known'
  <2>1. earlier' = earlier /\ table' = table
    BY <1>0, <1>2, JoinIs
  <2> QED BY <1>1, <2>1
<1>3. ASSUME NEW c \in calls, Serve(c) PROVE Before' /\ Known \subseteq Known'
  <2>1. Contacts(table) \subseteq Contacts(table')
    BY <1>0, <1>3, ServeIs
  <2>2. /\ c.for # "ping" => earlier' = earlier
        /\ c.for = "ping" =>
             /\ earlier'[c.from] = Contacts(table) \ {c.from}
             /\ \A m \in Nodes : m # c.from => earlier'[m] = earlier[m]
    BY <1>3, ServeIs
  <2> QED BY <1>0, <2>1, <2>2 DEF Before, Known
<1>4. ASSUME NEW c \in calls, TimeOut(c) PROVE Before' /\ Known \subseteq Known'
  BY <1>1, <1>4, TimeOutIs
<1>5. ASSUME NEW n \in Members, NEW gone \in SUBSET calls, NEW s, Moves(n, s, gone), Proper(n, s)
      PROVE  Before' /\ Known \subseteq Known'
  <2>1. Contacts(table) \subseteq Contacts(table')
    BY <1>0, <1>5, MovesIs
  <2>2. earlier' = earlier
    BY <1>5 DEF Moves
  <2> QED BY <1>1, <2>1, <2>2
<1>6. CASE UNCHANGED vars
  BY <1>1, <1>6 DEF vars
<1> QED BY <1>2, <1>3, <1>4, <1>5, <1>6, NextIs

\* ... a lookup keeps its room, ...
LEMMA ShortStep ==
  ASSUME SmallShard, Types, Orderly, Short, [Next]_vars PROVE Short'
<1>0. \A n \in Members : n \in Nodes
  BY DEF Members
<1>1. ASSUME NEW n \in Members, Join(n) PROVE Short'
  <2>1. join'[n].at = "ping" /\ \A m \in Nodes : m # n => join'[m] = join[m]
    BY <1>1, JoinIs
  <2>2. Brief(join'[n])
    BY <2>1 DEF Brief
  <2> QED BY <1>0, <2>1, <2>2 DEF Short
<1>2. ASSUME NEW c \in calls, Serve(c) PROVE Short'
  BY <1>2, ServeIs DEF Short
<1>3. ASSUME NEW c \in calls, TimeOut(c) PROVE Short'
  BY <1>3, TimeOutIs DEF Short
<1>4. ASSUME NEW n \in Members, NEW gone \in SUBSET calls, NEW s, Moves(n, s, gone), Proper(n, s)
      PROVE  Short'
  <2>1. join'[n] = s.state /\ \A m \in Nodes : m # n => join'[m] = join[m]
    BY <1>4, MovesIs
  <2>2. Brief(s.state)
    BY <1>4 DEF Proper
  <2> QED BY <1>0, <2>1, <2>2 DEF Short
<1>5. CASE UNCHANGED vars
  BY <1>5 DEF vars, Short
<1> QED BY <1>1, <1>2, <1>3, <1>4, <1>5, NextIs

\* ... and who is filed stays filed, or is told of again to a node that joins
\* once more: its ping is served after the other one registered.
LEMMA KeptStays ==
  ASSUME SmallShard, Types, Orderly, Short, Fresh, Before, [Next]_vars,
         NEW m \in Nodes, NEW n \in Members, Kept(m, n)
  PROVE  Kept(m, n)' \/ m = n
<1> SUFFICES ASSUME m # n PROVE Kept(m, n)'
  OBVIOUS
<1>0. /\ n \in Known /\ n \in Known' /\ n # Bootstrap /\ n \in Nodes /\ joins[m] \in Nat
      /\ n \in Contacts(routingTable[Bootstrap])
  BY BeforeStep DEF Kept, Known, Members, Types
<1>1. ASSUME NEW x \in Members, Join(x) PROVE Kept(m, n)'
  <2>1. /\ \A y \in Nodes : y # x => routingTable'[y] = routingTable[y] /\ joins'[y] = joins[y]
        /\ joins'[x] = joins[x] + 1 /\ calls' = calls \cup {Ping(x, Bootstrap, "ping")}
        /\ troubled' = troubled \ {x} /\ earlier' = earlier
    BY <1>1, JoinIs
  <2>2. CASE x # m
    BY <1>0, <2>1, <2>2 DEF Kept
  <2>3. CASE x = m
    <3>1. joins[m] # 0
      BY <1>0, <2>3 DEF Kept, Fresh
    <3>2. joins'[m] > 1
      BY <1>0, <2>1, <2>3, <3>1
    <3> DEFINE p == Ping(x, Bootstrap, "ping")
    <3>3. p.from = x /\ p.for = "ping" /\ ~p.served
      BY DEF Ping, Call
    <3> HIDE DEF p
    <3>4. p \in calls'
      BY <2>1 DEF p
    <3> QED BY <1>0, <2>3, <3>2, <3>3, <3>4 DEF Kept
  <2> QED BY <2>2, <2>3
<1>2. ASSUME NEW c \in calls, Serve(c) PROVE Kept(m, n)'
  <2>1. PICK d : calls' = (calls \ {c}) \cup {d}
    BY <1>2, ServeIs
  <2>2. /\ Contacts(routingTable[m]) \subseteq Contacts(routingTable'[m])
        /\ joins' = joins /\ troubled' = troubled
    BY <1>2, ServeIs
  <2>3. /\ c.for # "ping" => earlier' = earlier
        /\ c.for = "ping" =>
             /\ earlier'[c.from] = Contacts(routingTable[Bootstrap]) \ {c.from}
             /\ \A y \in Nodes : y # c.from => earlier'[y] = earlier[y]
    BY <1>2, ServeIs
  <2>4. c.for = "ping" /\ c.from = m => n \in earlier'[m]
    BY <1>0, <2>3
  <2>5. n \in earlier[m] => n \in earlier'[m]
    BY <2>3, <2>4
  <2>6. ASSUME NEW e \in calls, e.from = m, e.for = "ping", ~e.served
        PROVE  n \in earlier'[m] \/ e \in calls'
    BY <2>1, <2>4, <2>6
  <2> QED BY <1>0, <2>2, <2>4, <2>5, <2>6 DEF Kept
<1>3. ASSUME NEW c \in calls, TimeOut(c) PROVE Kept(m, n)'
  <2>1. PICK d : calls' = (calls \ {c}) \cup {d}
    BY <1>3, TimeOutIs
  <2>2. /\ c.for = "query" /\ troubled' = troubled \cup {c.from}
        /\ UNCHANGED <<routingTable, join, joins, earlier>>
    BY <1>3, TimeOutIs
  <2> QED BY <1>0, <2>1, <2>2 DEF Kept
<1>4. ASSUME NEW x \in Members, NEW gone \in SUBSET calls, NEW s, Moves(x, s, gone), Proper(x, s)
      PROVE  Kept(m, n)'
  <2>1. Contacts(routingTable[m]) \subseteq Contacts(routingTable'[m])
    BY <1>4, MovesIs
  <2>2. /\ joins' = joins /\ earlier' = earlier /\ troubled \subseteq troubled'
        /\ calls' = (calls \ gone) \cup s.new
        /\ \A c \in gone : c.from = x /\ (x \in troubled' \/ c.served)
    BY <1>4 DEF Moves
  <2>3. ASSUME NEW e \in calls, e.from = m, e.for = "ping", ~e.served
        PROVE  m \in troubled' \/ e \in calls'
    BY <2>2, <2>3
  <2> QED BY <1>0, <2>1, <2>2, <2>3 DEF Kept
<1>5. CASE UNCHANGED vars
  BY <1>5 DEF vars, Kept, Known
<1> QED BY <1>1, <1>2, <1>3, <1>4, <1>5, NextIs

LEMMA FiledStep ==
  ASSUME SmallShard, Types, Heard, Orderly, Short, Fresh, Before, Filed, [Next]_vars
  PROVE  Filed'
<1>0. Heard' /\ \A c \in calls : c.to \in Nodes /\ c.from \in Members /\ c.from \in Nodes
  <2>1. Roomy(Bootstrap)
    BY AllRoomy, NodesAssumption
  <2> QED BY <2>1, NextHeard DEF Types, GoodCall, Calls, Members
<1>1. ASSUME NEW e \in calls, e.served, e.to # e.from PROVE Kept(e.to, e.from)'
  <2>1. Kept(e.to, e.from)
    BY <1>1 DEF Filed
  <2> QED BY <1>0, <1>1, <2>1, KeptStays
<1>2. ASSUME NEW n \in Members, Join(n) PROVE Filed'
  <2>1. calls' = calls \cup {Ping(n, Bootstrap, "ping")}
    BY <1>2, JoinIs
  <2>2. ~Ping(n, Bootstrap, "ping").served
    BY DEF Ping, Call
  <2> QED BY <1>1, <2>1, <2>2 DEF Filed
<1>3. ASSUME NEW c \in calls, Serve(c) PROVE Filed'
  <2>1. PICK d : calls' = (calls \ {c}) \cup {d} /\ d.from = c.from /\ d.to = c.to
    BY <1>3, ServeIs
  <2>2. c.from # c.to => c.from \in Contacts(routingTable'[c.to])
    BY <1>3, ServeIs
  <2>3. ASSUME d.served, d.to # d.from PROVE Kept(d.to, d.from)'
    <3>1. d.from \in Known'
      BY <1>0, <2>1, <2>3 DEF Heard, HeardInCall
    <3> QED BY <2>1, <2>2, <2>3, <3>1 DEF Kept
  <2> QED BY <1>1, <2>1, <2>3 DEF Filed
<1>4. ASSUME NEW c \in calls, TimeOut(c) PROVE Filed'
  <2>1. PICK d : /\ calls' = (calls \ {c}) \cup {d} /\ d.from = c.from /\ d.to = c.to
                 /\ d.served = c.served
    BY <1>4, TimeOutIs
  <2> QED BY <1>1, <2>1 DEF Filed
<1>5. ASSUME NEW n \in Members, NEW gone \in SUBSET calls, NEW s, Moves(n, s, gone), Proper(n, s)
      PROVE  Filed'
  <2>1. calls' = (calls \ gone) \cup s.new /\ \A c \in s.new : ~c.served
    BY <1>5 DEF Moves, Proper, GoodThen
  <2> QED BY <1>1, <2>1 DEF Filed
<1>6. CASE UNCHANGED vars
  BY <1>6 DEF vars, Filed, Kept, Known
<1> QED BY <1>2, <1>3, <1>4, <1>5, <1>6, NextIs

-----------------------------------------------------------------------------
\* The way of a join.

\* Only the node itself forgets its contacts.
LEMMA TableStays ==
  ASSUME SmallShard, Types, Orderly, Short, [Next]_vars, NEW n \in Members, ~Join(n)
  PROVE  Contacts(routingTable[n]) \subseteq Contacts(routingTable'[n])
<1>0. n \in Nodes
  BY DEF Members
<1>1. ASSUME NEW x \in Members, Join(x) PROVE routingTable'[n] = routingTable[n]
  BY <1>0, <1>1, JoinIs
<1>2. ASSUME NEW c \in calls, Serve(c)
      PROVE  Contacts(routingTable[n]) \subseteq Contacts(routingTable'[n])
  BY <1>0, <1>2, ServeIs
<1>3. ASSUME NEW c \in calls, TimeOut(c) PROVE routingTable'[n] = routingTable[n]
  BY <1>3, TimeOutIs
<1>4. ASSUME NEW x \in Members, NEW gone \in SUBSET calls, NEW s, Moves(x, s, gone), Proper(x, s)
      PROVE  Contacts(routingTable[n]) \subseteq Contacts(routingTable'[n])
  BY <1>0, <1>4, MovesIs
<1>5. CASE UNCHANGED vars
  BY <1>5 DEF vars
<1> QED BY <1>1, <1>2, <1>3, <1>4, <1>5, NextIs

\* Who has been reached stays so, unless a call is in vain.
LEMMA ReachedStays ==
  ASSUME SmallShard, Types, Orderly, Short, Fresh, Before, Filed, [Next]_vars,
         NEW n \in Members, NEW m \in Nodes, m # n, Reached(n, m), ~Join(n), n \notin troubled'
  PROVE  Reached(n, m)'
<1>0. n \in Nodes /\ Contacts(routingTable[n]) \subseteq Contacts(routingTable'[n])
  BY TableStays DEF Members
<1>1. CASE Met(n, m)
  <2>1. Kept(m, n)'
    BY <1>1, KeptStays DEF Met
  <2> QED BY <1>0, <1>1, <2>1 DEF Reached, Met
<1>2. CASE \E c \in calls : c.from = n /\ c.to = m
  <2>0. PICK c \in calls : c.from = n /\ c.to = m
    BY <1>2
  <2>1. c \in calls' => Reached(n, m)'
    BY <2>0 DEF Reached
  <2>2. ASSUME NEW x \in Members, Join(x) PROVE Reached(n, m)'
    <3>1. calls' = calls \cup {Ping(x, Bootstrap, "ping")}
      BY <2>2, JoinIs
    <3> QED BY <2>1, <3>1
  <2>3. ASSUME NEW d \in calls, NEW e, calls' = (calls \ {d}) \cup {e}, e.from = d.from, e.to = d.to
        PROVE  Reached(n, m)'
    BY <2>0, <2>1, <2>3 DEF Reached
  <2>4. ASSUME NEW d \in calls, Serve(d) PROVE Reached(n, m)'
    <3>1. PICK e : calls' = (calls \ {d}) \cup {e} /\ e.from = d.from /\ e.to = d.to
      BY <2>4, ServeIs
    <3> QED BY <2>3, <3>1
  <2>5. ASSUME NEW d \in calls, TimeOut(d) PROVE Reached(n, m)'
    <3>1. PICK e : calls' = (calls \ {d}) \cup {e} /\ e.from = d.from /\ e.to = d.to
      BY <2>5, TimeOutIs
    <3> QED BY <2>3, <3>1
  <2>6. ASSUME NEW x \in Members, NEW gone \in SUBSET calls, NEW s, Moves(x, s, gone), Proper(x, s)
        PROVE  Reached(n, m)'
    <3>1. calls' = (calls \ gone) \cup s.new
      BY <2>6 DEF Moves
    <3>2. CASE c \in gone
      <4>1. x = n /\ c.served /\ m \in Contacts(s.table)
        BY <2>0, <2>6, <3>2 DEF Moves
      <4>2. routingTable'[n] = s.table
        BY <2>6, <4>1, MovesIs
      <4>3. Kept(m, n)
        BY <2>0, <4>1 DEF Filed
      <4>4. Kept(m, n)'
        BY <4>3, KeptStays
      <4> QED BY <4>1, <4>2, <4>4 DEF Reached, Met
    <3> QED BY <2>1, <3>1, <3>2
  <2>7. CASE UNCHANGED vars
    BY <2>1, <2>7 DEF vars
  <2> QED BY <2>2, <2>4, <2>5, <2>6, <2>7, NextIs
<1> QED BY <1>1, <1>2 DEF Reached

\* A node whose join does not get anywhere in a step keeps its course.
LEMMA CourseStays ==
  ASSUME SmallShard, Types, Orderly, Short, Fresh, Before, Filed, [Next]_vars,
         NEW n \in Members, ~Join(n), n \notin troubled', Course(n),
         earlier'[n] = earlier[n], join'[n].at = join[n].at, join'[n].todo = join[n].todo,
         join'[n].candidates = join[n].candidates,
         ToSet(join[n].nodes) \subseteq ToSet(join'[n].nodes),
         join[n].at = "find" /\ AsksBootstrap(n) => AsksBootstrap(n)'
  PROVE  Course(n)'
<1>1. n \in Nodes /\ \A m \in earlier[n] : m \in Nodes /\ m # n
  BY DEF Members, Types, Before
<1>2. KnowsAll(n) => KnowsAll(n)'
  BY TableStays DEF KnowsAll
<1>3. \A m \in earlier[n] : Reached(n, m) => Reached(n, m)'
  BY <1>1, ReachedStays
<1>4. ReachesEarlier(n) => ReachesEarlier(n)'
  BY <1>3 DEF ReachesEarlier
<1>5. join'[n].at = "find" =>
        KnowsAll(n)' \/ AsksBootstrap(n)' \/ earlier'[n] \subseteq ToSet(join'[n].nodes)
  BY <1>2 DEF Course
<1>6. join'[n].at = "connect" =>
        KnowsAll(n)' \/ \A m \in earlier'[n] : m \in ToSet(join'[n].todo) \/ Reached(n, m)'
  BY <1>2, <1>3 DEF Course
<1>7. join'[n].at = "lookup" => KnowsAll(n)' \/ ReachesEarlier(n)'
  BY <1>2, <1>4 DEF Course
<1>8. join'[n].at = "query" =>
        Nodes \ {n} \subseteq ToSet(join'[n].candidates) \/ ReachesEarlier(n)'
  BY <1>4 DEF Course
<1>9. join'[n].at = "joined" => ReachesEarlier(n)'
  BY <1>4 DEF Course
<1> QED BY <1>5, <1>6, <1>7, <1>8, <1>9 DEF Course

LEMMA NotJoin ==
  ASSUME Types, NEW n \in Members, joins'[n] = joins[n] PROVE ~Join(n)
<1>1. n \in Nodes /\ joins \in [Nodes -> Nat] /\ joins[n] + 1 # joins[n]
  BY DEF Types, Members
<1> QED BY <1>1 DEF Join

LEMMA NoCourse ==
  ASSUME NEW n, join'[n].at \notin {"find", "connect", "lookup", "query", "joined"}
  PROVE  Course(n)'
BY DEF Course

\* The calls of a node that turns to the next one to ask.
LEMMA FindNextCourse ==
  ASSUME SmallShard, Types, NEW n \in Members, NEW t, GoodTable(t, n),
         Contacts(routingTable[n]) \subseteq Contacts(t),
         NEW todo \in Seq(Nodes), todo # <<>>, NEW nodes \in Seq(Nodes),
         NEW s, s = FindNext(n, t, todo, nodes), NEW gone, Moves(n, s, gone), Proper(n, s),
         \/ Nodes \ {n} \subseteq Contacts(t)
         \/ Bootstrap \in ToSet(todo)
         \/ earlier[n] \subseteq ToSet(nodes)
  PROVE  Course(n)'
<1> DEFINE c == Call(n, Head(todo), FIND_NODE, ID[n], "find", 1)
<1>1. /\ s.table = t /\ s.state.at = "find" /\ s.state.nodes = nodes /\ s.new = {c}
      /\ ToSet(todo) \subseteq {Head(todo)} \cup ToSet(s.state.todo)
  BY FindNextLeaves
<1>2. c.from = n /\ c.to = Head(todo) /\ c.for = "find" /\ ~c.served
  BY DEF Call
<1> HIDE DEF c
<1>3. routingTable'[n] = s.table /\ join'[n] = s.state
  BY MovesIs
<1>4. c \in calls' /\ earlier' = earlier
  BY <1>1 DEF Moves
<1>5. CASE Nodes \ {n} \subseteq Contacts(t)
  <2>1. KnowsAll(n)'
    BY <1>1, <1>3, <1>5 DEF KnowsAll
  <2> QED BY <1>1, <1>3, <2>1 DEF Course
<1>6. CASE Bootstrap \in ToSet(todo)
  <2>1. AsksBootstrap(n)'
    BY <1>1, <1>2, <1>3, <1>4, <1>6 DEF AsksBootstrap
  <2> QED BY <1>1, <1>3, <2>1 DEF Course
<1>7. CASE earlier[n] \subseteq ToSet(nodes)
  BY <1>1, <1>3, <1>4, <1>7 DEF Course
<1> QED BY <1>5, <1>6, <1>7

\* The calls of a node that turns to the next one to ping.
LEMMA ConnectCourse ==
  ASSUME SmallShard, Types, Orderly, Short, Fresh, Before, Filed, [Next]_vars,
         NEW n \in Members, n \notin troubled', NEW t, GoodTable(t, n),
         Contacts(routingTable[n]) \subseteq Contacts(t), NEW todo \in Seq(Nodes),
         NEW s, s = Connect(n, t, todo), NEW gone, Moves(n, s, gone), Proper(n, s),
         \/ Nodes \ {n} \subseteq Contacts(t)
         \/ \A m \in earlier[n] : m \in ToSet(todo) \/ Reached(n, m)
  PROVE  Course(n)'
<1>0. earlier' = earlier /\ joins' = joins /\ s.new \subseteq calls'
  BY DEF Moves
<1>1. routingTable'[n] = s.table /\ join'[n] = s.state
  BY MovesIs
<1>2. \A m \in earlier[n] : m # n /\ m \in Nodes
  BY DEF Before, Types, Members
<1>3. \A m \in earlier[n] : Reached(n, m) => Reached(n, m)'
  <2>1. ~Join(n)
    BY <1>0, NotJoin
  <2> QED BY <1>2, <2>1, ReachedStays
<1>4. GoodThen(s, n)
  BY DEF Proper
<1>5. Nodes \ {n} \subseteq Contacts(t) => KnowsAll(n)'
  <2>1. Contacts(t) \subseteq Contacts(s.table)
    BY <1>4, ConnectProper
  <2> QED BY <1>1, <2>1 DEF KnowsAll
<1>6. CASE s.state.at = "lookup" /\ ToSet(todo) \subseteq {n}
  <2>1. KnowsAll(n)' \/ ReachesEarlier(n)'
    BY <1>0, <1>2, <1>3, <1>5, <1>6 DEF ReachesEarlier
  <2> QED BY <1>1, <1>6, <2>1 DEF Course
<1>7. CASE \E x \in Nodes : /\ s.state.at = "connect" /\ s.new = {Ping(n, x, "connect")}
                            /\ ToSet(todo) \subseteq {n, x} \cup ToSet(s.state.todo)
  <2>1. PICK x \in Nodes : /\ s.state.at = "connect" /\ s.new = {Ping(n, x, "connect")}
                           /\ ToSet(todo) \subseteq {n, x} \cup ToSet(s.state.todo)
    BY <1>7
  <2>2. Reached(n, x)'
    <3> DEFINE p == Ping(n, x, "connect")
    <3>1. p.from = n /\ p.to = x
      BY DEF Ping, Call
    <3>2. p \in calls'
      BY <1>0, <2>1
    <3> HIDE DEF p
    <3> QED BY <3>1, <3>2 DEF Reached
  <2>3. KnowsAll(n)' \/ \A m \in earlier'[n] : m \in ToSet(join'[n].todo) \/ Reached(n, m)'
    BY <1>0, <1>1, <1>2, <1>3, <1>5, <2>1, <2>2
  <2> QED BY <1>1, <2>1, <2>3 DEF Course
<1>8. \/ s.state.at = "lookup" /\ ToSet(todo) \subseteq {n}
      \/ \E x \in Nodes : /\ s.state.at = "connect" /\ s.new = {Ping(n, x, "connect")}
                          /\ ToSet(todo) \subseteq {n, x} \cup ToSet(s.state.todo)
  BY ConnectLeaves
<1> QED BY <1>6, <1>7, <1>8

\* An answer takes its node on.
LEMMA ReturnCourse ==
  ASSUME SmallShard, Types, Heard, Orderly, Short, Fresh, Before, Filed, [Next]_vars,
         NEW c \in calls, Return(c), c.from \notin troubled', Course(c.from)
  PROVE  Course(c.from)'
<1> DEFINE n == c.from
           j == join[n]
           t == AddContact(routingTable[n], n, c.to)
           s == Continue(n, t, c.for, FALSE, c.answer)
<1>1. /\ GoodCall(c) /\ n \in Members /\ n \in Nodes /\ c.answer \in Seq(Nodes) /\ c.served
      /\ c.for \in {"ping", "find", "connect", "query", "nothing"}
      /\ j.todo \in Seq(Nodes) /\ j.nodes \in Seq(Nodes) /\ n # Bootstrap
  BY DEF Types, GoodCall, Calls, Members, Return, States
<1>2. /\ Moves(n, s, {c}) /\ Proper(n, s)
      /\ c.for \in {"query", "nothing"} => Stays(n, s)
      /\ GoodTable(t, n) /\ Contacts(routingTable[n]) \subseteq Contacts(t)
      /\ c.to # n => c.to \in Contacts(t)
  BY ReturnMoves
<1>3. s = Continue(n, t, c.for, FALSE, c.answer)
  OBVIOUS
<1>4. c.for \in Stages \cup {"query"} => j.at = c.for
  BY DEF Orderly
<1>5. Course(n) /\ n \notin troubled'
  OBVIOUS
<1>6. c \in calls /\ c.from = n
  OBVIOUS
<1> SUFFICES Course(n)'
  OBVIOUS
<1> HIDE DEF s, t, n
<1>7. KnowsAll(n) => Nodes \ {n} \subseteq Contacts(t)
  BY <1>2 DEF KnowsAll
<1>8. CASE c.for = "ping"
  <2> DEFINE todo == FindClosestNodes(t, ID[n], ALPHA)
  <2>1. s = FindNext(n, t, todo, <<>>)
    BY <1>3, <1>8 DEF Continue, FindNode
  <2>2. Bootstrap \in Contacts(t)
    BY <1>1, <1>2, <1>8 DEF GoodCall
  <2>3. Bootstrap \in ToSet(todo) \/ Nodes \ {n} \subseteq Contacts(t)
    BY <1>1, <1>2, <2>2, AsksOrKnows
  <2>4. todo \in Seq(Nodes) /\ todo # <<>>
    <3>1. t \in [Places -> Seq(Nodes)] /\ ID[n] \in Sought /\ ALPHA \in Nat \ {0}
      BY <1>1, <1>2, BoundsAssumption DEF GoodTable, Sought
    <3> QED BY <2>2, <3>1, FindClosestNodesIs
  <2> HIDE DEF todo
  <2> QED BY <1>1, <1>2, <2>1, <2>3, <2>4, EmptyIs, FindNextCourse
<1>9. CASE c.for = "find"
  <2> DEFINE named == j.nodes \o c.answer
  <2>0. j.at = "find"
    BY <1>4, <1>9 DEF Stages
  <2>1. named \in Seq(Nodes) /\ ToSet(named) = ToSet(j.nodes) \cup ToSet(c.answer)
    BY <1>1, Concatenated
  <2>2. \/ Nodes \ {n} \subseteq Contacts(t) \/ Bootstrap \in ToSet(j.todo)
        \/ earlier[n] \subseteq ToSet(named)
    <3>1. KnowsAll(n) \/ AsksBootstrap(n) \/ earlier[n] \subseteq ToSet(j.nodes)
      BY <1>5, <2>0 DEF Course
    <3>2. ASSUME NEW d \in calls, d.from = n, d.for = "find" PROVE d = c
      BY <1>6, <1>9, <3>2 DEF Orderly, Stages
    <3>3. AsksBootstrap(n) => Bootstrap \in ToSet(j.todo) \/ earlier[n] \subseteq ToSet(c.answer)
      BY <1>1, <3>2 DEF AsksBootstrap
    <3> QED BY <1>7, <2>1, <3>1, <3>3
  <2>3. CASE j.todo = <<>>
    <3>1. s = Connect(n, t, named)
      BY <1>3, <1>9, <2>3 DEF Continue
    <3>2. ToSet(j.todo) = {}
      BY <2>3, EmptyIs
    <3>3. \/ Nodes \ {n} \subseteq Contacts(t)
          \/ \A m \in earlier[n] : m \in ToSet(named) \/ Reached(n, m)
      BY <2>2, <3>2
    <3> HIDE DEF named, j
    <3> QED BY <1>1, <1>2, <1>5, <2>1, <3>1, <3>3, ConnectCourse
  <2>4. CASE j.todo # <<>>
    <3>1. s = FindNext(n, t, j.todo, named)
      BY <1>3, <1>9, <2>4 DEF Continue
    <3> HIDE DEF named, j
    <3> QED BY <1>1, <1>2, <2>1, <2>2, <2>4, <3>1, FindNextCourse
  <2> QED BY <2>3, <2>4
<1>10. CASE c.for = "connect"
  <2>0. j.at = "connect"
    BY <1>4, <1>10 DEF Stages
  <2>1. s = Connect(n, t, j.todo)
    BY <1>3, <1>10 DEF Continue
  <2>2. \/ Nodes \ {n} \subseteq Contacts(t)
        \/ \A m \in earlier[n] : m \in ToSet(j.todo) \/ Reached(n, m)
    BY <1>5, <1>7, <2>0 DEF Course
  <2> HIDE DEF j
  <2> QED BY <1>1, <1>2, <1>5, <2>1, <2>2, ConnectCourse
<1>11. CASE c.for \in {"query", "nothing"}
  <2>1. join'[n] = s.state
    BY <1>1, <1>2, MovesIs
  <2>2. Stays(n, s)
    BY <1>2, <1>11
  <2>3. earlier' = earlier /\ joins' = joins /\ calls' = (calls \ {c}) \cup s.new
    BY <1>2 DEF Moves
  <2>4. ~Join(n)
    BY <1>1, <2>3, NotJoin
  <2>5. AsksBootstrap(n) => AsksBootstrap(n)'
    <3>1. join'[n].todo = join[n].todo
      BY <2>1, <2>2 DEF Stays
    <3>2. ASSUME NEW d \in calls, d.for = "find" PROVE d \in calls'
      BY <1>11, <2>3, <3>2
    <3> QED BY <2>3, <3>1, <3>2 DEF AsksBootstrap
  <2>6. /\ join'[n].at = join[n].at /\ join'[n].todo = join[n].todo
        /\ join'[n].candidates = join[n].candidates
        /\ ToSet(join[n].nodes) \subseteq ToSet(join'[n].nodes)
    BY <2>1, <2>2 DEF Stays
  <2> QED BY <1>1, <1>5, <2>3, <2>4, <2>5, <2>6, CourseStays
<1> QED BY <1>1, <1>8, <1>9, <1>10, <1>11

LEMMA LookupCourse ==
  ASSUME SmallShard, Types, Orderly, Short, Fresh, Before, Filed, [Next]_vars,
         NEW n \in Members, NEW target \in Targets \cup {ID[n]}, Lookup(n, target),
         n \notin troubled', Course(n)
  PROVE  Course(n)'
<1>1. PICK s : /\ Moves(n, s, {}) /\ Proper(n, s) /\ s.state.at = "query"
               /\ ToSet(s.state.candidates) = Contacts(routingTable[n])
  BY LookupMoves
<1>2. join'[n] = s.state
  BY <1>1, MovesIs
<1>3. ~Join(n) /\ earlier' = earlier
  BY <1>1, NotJoin DEF Moves
<1>4. \A m \in earlier[n] : m # n /\ m \in Nodes
  BY DEF Before, Types, Members
<1>5. ReachesEarlier(n) => ReachesEarlier(n)'
  BY <1>3, <1>4, ReachedStays DEF ReachesEarlier
<1>6. KnowsAll(n) \/ ReachesEarlier(n)
  BY DEF Course, Lookup
<1> QED BY <1>1, <1>2, <1>5, <1>6 DEF Course, KnowsAll

LEMMA CollectCourse ==
  ASSUME SmallShard, Types, Orderly, Short, Fresh, Before, Filed, [Next]_vars,
         NEW n \in Members, CollectResults(n), n \notin troubled', Course(n)
  PROVE  Course(n)'
<1>1. PICK s : /\ Moves(n, s, {}) /\ Proper(n, s) /\ join[n].at = "query"
               /\ \/ /\ s.state.at = "query"
                     /\ ToSet(join[n].candidates) \subseteq ToSet(s.state.candidates)
                  \/ /\ s.state.at \in {"lookup", "joined"}
                     /\ \A m \in ToSet(join[n].candidates) \ {n} :
                          Ping(n, m, "nothing") \in s.new
  BY CollectMoves
<1>2. join'[n] = s.state
  BY <1>1, MovesIs
<1>3. ~Join(n) /\ earlier' = earlier /\ s.new \subseteq calls'
  BY <1>1, NotJoin DEF Moves
<1>4. \A m \in earlier[n] : m # n /\ m \in Nodes
  BY DEF Before, Types, Members
<1>5. ReachesEarlier(n) => ReachesEarlier(n)'
  BY <1>3, <1>4, ReachedStays DEF ReachesEarlier
<1>6. Nodes \ {n} \subseteq ToSet(join[n].candidates) \/ ReachesEarlier(n)
  BY <1>1 DEF Course
<1>7. CASE s.state.at = "query" /\ ToSet(join[n].candidates) \subseteq ToSet(s.state.candidates)
  BY <1>2, <1>5, <1>6, <1>7 DEF Course
<1>8. CASE /\ s.state.at \in {"lookup", "joined"}
           /\ \A m \in ToSet(join[n].candidates) \ {n} : Ping(n, m, "nothing") \in s.new
  <2>1. ASSUME Nodes \ {n} \subseteq ToSet(join[n].candidates), NEW m \in earlier[n]
        PROVE  Reached(n, m)'
    <3> DEFINE p == Ping(n, m, "nothing")
    <3>1. p.from = n /\ p.to = m
      BY DEF Ping, Call
    <3>2. p \in calls'
      BY <1>3, <1>4, <1>8, <2>1
    <3> HIDE DEF p
    <3> QED BY <3>1, <3>2 DEF Reached
  <2>2. ReachesEarlier(n)'
    BY <1>3, <1>5, <1>6, <2>1 DEF ReachesEarlier
  <2> QED BY <1>2, <1>8, <2>2 DEF Course
<1> QED BY <1>1, <1>7, <1>8

\* What another node does.
LEMMA OthersCourse ==
  ASSUME SmallShard, Types, Orderly, Short, Fresh, Before, Filed, [Next]_vars,
         NEW x \in Members, NEW gone \in SUBSET calls, NEW s, Moves(x, s, gone), Proper(x, s),
         NEW n \in Members, n # x, n \notin troubled', Course(n)
  PROVE  Course(n)'
<1>1. n \in Nodes /\ join'[n] = join[n]
  BY MovesIs DEF Members
<1>2. ~Join(n) /\ earlier' = earlier /\ calls' = (calls \ gone) \cup s.new
  BY NotJoin DEF Moves
<1>3. \A c \in gone : c.from = x
  BY DEF Moves
<1>4. AsksBootstrap(n) => AsksBootstrap(n)'
  BY <1>1, <1>2, <1>3 DEF AsksBootstrap
<1> QED BY <1>1, <1>2, <1>4, CourseStays

LEMMA JoinCourse ==
  ASSUME SmallShard, Types, Orderly, Short, Fresh, Before, Filed, [Next]_vars,
         NEW x \in Members, Join(x), NEW n \in Members, n # x, Course(n), n \notin troubled
  PROVE  Course(n)'
<1>1. /\ n \in Nodes /\ join'[n] = join[n] /\ joins'[n] = joins[n]
  BY JoinIs DEF Members
<1>2. /\ earlier' = earlier /\ calls' = calls \cup {Ping(x, Bootstrap, "ping")}
      /\ troubled' = troubled \ {x}
  BY JoinIs
<1>3. ~Join(n) /\ n \notin troubled'
  BY <1>1, <1>2, NotJoin
<1>4. AsksBootstrap(n) => AsksBootstrap(n)'
  BY <1>1, <1>2 DEF AsksBootstrap
<1> QED BY <1>1, <1>2, <1>3, <1>4, CourseStays

LEMMA TimeOutCourse ==
  ASSUME SmallShard, Types, Orderly, Short, Fresh, Before, Filed, [Next]_vars,
         NEW c \in calls, TimeOut(c), NEW n \in Members, n \notin troubled', Course(n)
  PROVE  Course(n)'
<1>1. PICK d : calls' = (calls \ {c}) \cup {d}
  BY TimeOutIs
<1>2. c.for = "query" /\ UNCHANGED <<routingTable, join, joins, earlier>>
  BY TimeOutIs
<1>3. ~Join(n)
  BY <1>2, NotJoin
<1>4. AsksBootstrap(n) => AsksBootstrap(n)'
  BY <1>1, <1>2 DEF AsksBootstrap
<1> QED BY <1>2, <1>3, <1>4, CourseStays

\* What the bootstrap node is asked it answers with all who had registered.
LEMMA ServeCourse ==
  ASSUME SmallShard, Types, Orderly, Short, Fresh, Before, Filed, [Next]_vars,
         NEW c \in calls, Serve(c), NEW n \in Members, n \notin troubled, Course(n)
  PROVE  Course(n)'
<1>1. PICK d : /\ calls' = (calls \ {c}) \cup {d} /\ d.from = c.from /\ d.to = c.to
               /\ d.for = c.for /\ d.type = c.type
               /\ c.type = FIND_NODE => Contacts(routingTable[c.to]) \subseteq ToSet(d.answer)
  BY ServeIs
<1>2. UNCHANGED <<join, joins, troubled>>
  BY ServeIs
<1>3. CASE join[n].at = "ping"
  BY <1>2, <1>3, NoCourse
<1>4. CASE join[n].at # "ping"
  <2>1. n \in Nodes /\ ~Join(n)
    BY <1>2, NotJoin DEF Members
  <2>2. c.for = "ping" => c.from # n
    BY <1>4 DEF Orderly, Stages
  <2>3. earlier'[n] = earlier[n]
    BY <2>1, <2>2, ServeIs
  <2>4. AsksBootstrap(n) => AsksBootstrap(n)'
    <3>1. CASE Bootstrap \in ToSet(join[n].todo)
      BY <1>2, <3>1 DEF AsksBootstrap
    <3>2. ASSUME NEW e \in calls, e.from = n, e.for = "find", e.to = Bootstrap,
                 e.served => earlier[n] \subseteq ToSet(e.answer)
          PROVE  AsksBootstrap(n)'
      <4>1. CASE e # c
        <5>1. e \in calls'
          BY <1>1, <4>1
        <5> QED BY <2>3, <3>2, <5>1 DEF AsksBootstrap
      <4>2. CASE e = c
        <5>1. earlier[n] \subseteq ToSet(d.answer)
          BY <1>1, <3>2, <4>2 DEF Orderly, Before
        <5>2. d \in calls' /\ d.from = n /\ d.for = "find" /\ d.to = Bootstrap
          BY <1>1, <3>2, <4>2
        <5> QED BY <2>3, <5>1, <5>2 DEF AsksBootstrap
      <4> QED BY <4>1, <4>2
    <3> QED BY <3>1, <3>2 DEF AsksBootstrap
  <2> QED BY <1>2, <2>1, <2>3, <2>4, CourseStays
<1> QED BY <1>3, <1>4

LEMMA OnCourseStep ==
  ASSUME SmallShard, Types, Heard, Orderly, Short, Fresh, Before, Filed, OnCourse, [Next]_vars
  PROVE  OnCourse'
<1> SUFFICES ASSUME NEW n \in Members, n \notin troubled' PROVE Course(n)'
  BY DEF OnCourse
<1>0. n \notin troubled => Course(n)
  BY DEF OnCourse
<1>1. ASSUME NEW x \in Members, Join(x) PROVE Course(n)'
  <2>1. CASE x = n
    <3>1. join'[n].at = "ping"
      BY <1>1, <2>1, JoinIs
    <3> QED BY <3>1, NoCourse
  <2>2. CASE x # n
    <3>1. n \notin troubled
      BY <1>1, <2>2, JoinIs
    <3> QED BY <1>0, <1>1, <2>2, <3>1, JoinCourse
  <2> QED BY <2>1, <2>2
<1>2. ASSUME NEW x \in Members, NEW gone \in SUBSET calls, NEW s, Moves(x, s, gone), Proper(x, s),
             n # x
      PROVE  Course(n)'
  <2>1. n \notin troubled
    BY <1>2 DEF Moves
  <2> QED BY <1>0, <1>2, <2>1, OthersCourse
<1>3. ASSUME NEW x \in Members, CollectResults(x) PROVE Course(n)'
  <2>1. CASE x = n
    <3>1. n \notin troubled
      BY <1>3 DEF CollectResults
    <3> QED BY <1>0, <1>3, <2>1, <3>1, CollectCourse
  <2>2. CASE x # n
    <3>1. \E s : Moves(x, s, {}) /\ Proper(x, s)
      BY <1>3, CollectMoves
    <3> QED BY <1>2, <2>2, <3>1
  <2> QED BY <2>1, <2>2
<1>4. ASSUME NEW x \in Members, NEW target \in Targets \cup {ID[x]}, Lookup(x, target)
      PROVE  Course(n)'
  <2>1. CASE x = n
    <3>1. n \notin troubled
      BY <1>4 DEF Lookup
    <3> QED BY <1>0, <1>4, <2>1, <3>1, LookupCourse
  <2>2. CASE x # n
    <3>1. \E s : Moves(x, s, {}) /\ Proper(x, s)
      BY <1>4, LookupMoves
    <3> QED BY <1>2, <2>2, <3>1
  <2> QED BY <2>1, <2>2
<1>5. ASSUME NEW c \in calls, Serve(c) PROVE Course(n)'
  <2>1. n \notin troubled
    BY <1>5, ServeIs
  <2> QED BY <1>0, <1>5, <2>1, ServeCourse
<1>6. ASSUME NEW c \in calls, Return(c) PROVE Course(n)'
  <2>1. n \notin troubled /\ c.from \in Members
    BY <1>6 DEF Return, Types, GoodCall, Calls
  <2>2. CASE c.from = n
    <3>1. Course(c.from) /\ c.from \notin troubled'
      BY <1>0, <2>1, <2>2
    <3>2. Course(c.from)'
      BY <1>6, <3>1, ReturnCourse
    <3> QED BY <2>2, <3>2 DEF Course, KnowsAll, AsksBootstrap, ReachesEarlier, Reached, Met, Kept,
                              Known
  <2>3. CASE c.from # n
    <3>1. \E s : Moves(c.from, s, {c}) /\ Proper(c.from, s)
      BY <1>6, ReturnMoves
    <3> QED BY <1>2, <2>1, <2>3, <3>1
  <2> QED BY <2>2, <2>3
<1>7. ASSUME NEW c \in calls, Fail(c) PROVE Course(n)'
  <2>1. /\ c.from \in troubled' /\ c.from \in Members
        /\ \E s : Moves(c.from, s, {c}) /\ Proper(c.from, s)
    BY <1>7, FailMoves DEF Types, GoodCall, Calls
  <2> QED BY <1>2, <2>1
<1>8. ASSUME NEW c \in calls, TimeOut(c) PROVE Course(n)'
  <2>1. n \notin troubled
    BY <1>8, TimeOutIs
  <2> QED BY <1>0, <1>8, <2>1, TimeOutCourse
<1>9. CASE UNCHANGED vars
  <2>1. Course(n) /\ UNCHANGED <<routingTable, join, joins, calls, earlier, troubled>>
    BY <1>0, <1>9 DEF vars
  <2> QED BY <2>1 DEF Course, KnowsAll, AsksBootstrap, ReachesEarlier, Reached, Met, Kept, Known
<1> QED BY <1>1, <1>3, <1>4, <1>5, <1>6, <1>7, <1>8, <1>9 DEF Next

-----------------------------------------------------------------------------
\* The theorem.

LEMMA InitWays == Init => Ways
<1> SUFFICES ASSUME Init PROVE Ways
  OBVIOUS
<1>1. calls = {} /\ \A n \in Nodes : earlier[n] = {}
  BY DEF Init
<1>2. Orderly /\ Filed
  BY <1>1 DEF Orderly, Filed
<1>3. Before
  BY <1>1 DEF Before, Members
<1>4. ASSUME NEW n \in Members
      PROVE  /\ join[n].at \in {"joined", "off"}
             /\ joins[n] = 0 => Contacts(routingTable[n]) = {}
  <2>1. /\ n \in Nodes /\ n # Bootstrap
        /\ join[n] = At(IF n \in Earlier THEN "joined" ELSE "off")
        /\ joins[n] = IF n \in Earlier THEN 1 ELSE 0
    BY DEF Init, Members
  <2>2. At("joined").at = "joined" /\ At("off").at = "off"
    BY AtIs
  <2>3. n \notin Earlier => routingTable[n] = NewRoutingTable
    BY <2>1 DEF Init
  <2> QED BY <2>1, <2>2, <2>3, NewTableIs
<1>5. Fresh
  BY <1>4 DEF Fresh
<1>6. Short
  BY <1>4 DEF Short, Brief
<1>7. OnCourse
  <2>1. \A n \in Members : ReachesEarlier(n)
    BY <1>1 DEF ReachesEarlier, Members
  <2> QED BY <1>4, <2>1 DEF OnCourse, Course
<1> QED BY <1>2, <1>3, <1>5, <1>6, <1>7 DEF Ways

LEMMA NextWays ==
  ASSUME SmallShard
  PROVE  Types /\ Heard /\ Ways /\ [Next]_vars => Heard' /\ Ways'
<1> SUFFICES ASSUME Types, Heard, Ways, [Next]_vars PROVE Heard' /\ Ways'
  OBVIOUS
<1>1. Orderly /\ Fresh /\ Before /\ Short /\ Filed /\ OnCourse
  BY DEF Ways
<1>2. Heard'
  <2>1. Roomy(Bootstrap)
    BY AllRoomy, NodesAssumption
  <2> QED BY <2>1, NextHeard
<1>3. Orderly' /\ Fresh' /\ Before' /\ Short'
  BY <1>1, OrderlyStep, FreshStep, BeforeStep, ShortStep
<1>4. Filed'
  BY <1>1, FiledStep
<1>5. OnCourse'
  BY <1>1, OnCourseStep
<1> QED BY <1>2, <1>3, <1>4, <1>5 DEF Ways

LEMMA WaysAcquaint == ASSUME SmallShard, Types, Ways PROVE Acquainted
<1> SUFFICES ASSUME NEW n \in Members, Settled(n), NEW m \in earlier[n],
                    joins[m] = 1 \/ Settled(m)
             PROVE  m \in Contacts(routingTable[n]) /\ n \in Contacts(routingTable[m])
  BY DEF Acquainted
<1>1. ASSUME NEW x \in Members, Settled(x), NEW y \in earlier[x] PROVE Met(x, y)
  BY <1>1 DEF Ways, OnCourse, Course, Settled, ReachesEarlier, Reached
<1>2. Met(n, m)
  BY <1>1
<1>3. m \in Members
  <2>1. Bootstrap \in Nodes /\ GoodTable(routingTable[Bootstrap], Bootstrap)
    BY NodesAssumption DEF Types
  <2>2. Contacts(routingTable[Bootstrap]) \subseteq Nodes \ {Bootstrap}
    BY <2>1, TableOfOthers
  <2>3. m \in Contacts(routingTable[Bootstrap])
    BY DEF Ways, Before
  <2> QED BY <2>2, <2>3 DEF Members
<1>4. CASE n \in Contacts(routingTable[m])
  BY <1>2, <1>4 DEF Met
<1>5. CASE n \notin Contacts(routingTable[m])
  <2>1. /\ joins[m] > 1
        /\ \/ m \in troubled
           \/ n \in earlier[m]
           \/ \E c \in calls : c.from = m
    BY <1>2, <1>5 DEF Met, Kept
  <2>2. Settled(m) /\ n \in earlier[m]
    BY <2>1 DEF Settled
  <2>3. Met(m, n)
    BY <1>1, <1>3, <2>2
  <2> QED BY <1>5, <2>3 DEF Met
<1> QED BY <1>4, <1>5

\* A node that has joined without trouble, and the nodes that had registered at
\* the bootstrap node before it, know each other, in any shard of the size that
\* main starts (SmallShard), with any identifiers, bucket and lookup sizes: Join
\* calls all of them, through the bootstrap node's answer (FindNode) or, when it
\* knows so many contacts that it never asks the bootstrap node, through its
\* lookups, in every interleaving with other joins, failed and repeated joins,
\* calls that fail and answers that come too late.
THEOREM MembersAcquainted ==
  ASSUME SmallShard
  PROVE  Spec => []Acquainted
<1>1. Init => Heard /\ Ways
  BY InitHeard, InitWays, AllRoomy, NodesAssumption
<1>2. Types /\ Heard /\ Ways /\ [Next]_vars => Heard' /\ Ways'
  BY NextWays
<1>3. Types /\ Ways => Acquainted
  BY WaysAcquaint
<1> QED BY <1>1, <1>2, <1>3, TypesHold, PTL DEF Spec
=============================================================================
