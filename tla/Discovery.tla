------------------------------ MODULE Discovery ------------------------------
(***************************************************************************)
(* How the nodes of a shard come to know each other: the buckets of        *)
(* network/bucket.go, the routing table of network/routing_table.go, and   *)
(* Join, FindNode, Ping and the iterative lookup of network/kademlia.go.   *)
(*                                                                         *)
(* Every node joins through the bootstrap node, and joins again when its   *)
(* Run loop sends a message to its own shard (BroadcastToShard).  Several  *)
(* nodes join at once.  sendMessage is a call: at the other end, on a      *)
(* goroutine of its own, handleConnection files the caller and computes    *)
(* the answer (Serve); later the caller files the one that answered and    *)
(* goes on (Return).  A call may fail before or after it is served, and a  *)
(* lookup stops waiting for an answer after two seconds.                   *)
(*                                                                         *)
(* An identifier is the set of the positions of its one bits, position 1   *)
(* the most significant.                                                   *)
(***************************************************************************)
EXTENDS Integers, FiniteSets, FiniteSetsExt, SequencesExt

CONSTANTS
  Nodes,         \* the nodes of the shard
  Bootstrap,     \* the one that only listens
  ID,            \* the identifier of every node
  IDLength,      \* ID_LENGTH, the bits of an identifier (the code has 160)
  K,             \* what a bucket holds and a lookup keeps (the code has 20)
  ALPHA,         \* how many nodes are asked at once (the code has 3)
  Iterations,    \* the rounds of a lookup (the code has 3)
  RandomTargets, \* the lookups with a random target (the code has 3)
  Targets,       \* the random targets
  Earlier,       \* the members that were set up before the others
  MaxJoins,      \* bound on the joins of all nodes
  MaxFaults,     \* bound on the calls that fail or are not waited for
  None           \* no answer yet

Positions == 1..IDLength
Members == Nodes \ {Bootstrap}

ASSUME NodesAssumption ==
  /\ Bootstrap \in Nodes
  /\ ID \in [Nodes -> SUBSET Positions]
  /\ \A n, m \in Nodes : ID[n] = ID[m] => n = m
ASSUME BoundsAssumption ==
  /\ {IDLength, K, ALPHA, Iterations} \subseteq Nat \ {0}
  /\ Earlier \subseteq Members
  /\ {RandomTargets, MaxJoins, MaxFaults} \subseteq Nat
  /\ Targets \subseteq SUBSET Positions

VARIABLES
  routingTable,  \* per node: its buckets, each a sequence of contacts
  join,          \* per node: where its latest join is
  joins,         \* per node: how many joins it has begun
  calls,         \* the calls made and not returned
  earlier,       \* per node: whom the bootstrap node knew when the latest
                 \*   join of the node registered there
  troubled       \* nodes with a call of the latest join that failed or was
                 \*   not waited for

vars == <<routingTable, join, joins, calls, earlier, troubled>>

-----------------------------------------------------------------------------
\* Identifiers, buckets and the routing table.

XOR(a, b) == (a \ b) \cup (b \ a)

\* A distance is smaller when the first bit in which the two differ is its 0.
Smaller(d, e) == d # e /\ Min(XOR(d, e)) \in e

NewBucket == <<>>
NewRoutingTable == [i \in 0..IDLength - 1 |-> NewBucket]

\* Faulty: a known contact is appended again; a newcomer takes the first place.
AddAgain(bucket, n) ==
  IF Len(bucket) < K THEN Append(bucket, n) ELSE [bucket EXCEPT ![1] = n]
ReplaceFirst(bucket, n) ==
  CASE Contains(bucket, n) -> Append(Remove(bucket, n), n)
    [] bucket = <<>> -> <<n>>
    [] OTHER -> [bucket EXCEPT ![1] = n]

\* A known contact moves to the end; a full bucket gives up its first place.
AddToBucket(bucket, n) ==
  LET i == SelectInSeq(bucket, LAMBDA m : m = n) IN
  CASE i > 0 -> Append(RemoveAt(bucket, i), n)
    [] i = 0 /\ Len(bucket) < K -> Append(bucket, n)
    [] OTHER -> [bucket EXCEPT ![1] = n]

\* How many leading bits the identifiers of local and n share.
bucketIndexes ==
  [local \in Nodes |->
    [n \in Nodes |-> IF local = n THEN 0 ELSE Min(XOR(ID[local], ID[n])) - 1]]
getBucketIndex(local, n) == bucketIndexes[local][n]

\* The table of local with n in it.
AddContact(table, local, n) ==
  IF n = local THEN table
  ELSE [table EXCEPT ![getBucketIndex(local, n)] = AddToBucket(@, n)]

\* The table of local with all of a sequence of nodes in it.
AddAll(table, local, nodes) ==
  LET after[i \in 0..Len(nodes)] ==
        IF i = 0 THEN table ELSE AddContact(after[i - 1], local, nodes[i])
  IN after[Len(nodes)]

Contacts(table) == UNION {ToSet(table[i]) : i \in DOMAIN table}

\* The first k of a sequence.
FirstOf(s, k) == SubSeq(s, 1, Min({k, Len(s)}))

\* Which of two nodes is the nearer to a target.
nearer ==
  [target \in Targets \cup {ID[n] : n \in Nodes} |->
    [n \in Nodes |-> [m \in Nodes |-> Smaller(XOR(ID[n], target), XOR(ID[m], target))]]]

\* A sequence of nodes by their distance to a target: each in the place after
\* those that come before it.  And the k nearest of the contacts.
ByDistance(s, target) ==
  LET order == nearer[target]
      before(i) == {h \in DOMAIN s : order[s[h]][s[i]] \/ (s[h] = s[i] /\ h < i)}
      places == {<<i, 1 + Cardinality(before(i))>> : i \in DOMAIN s}
  IN [r \in DOMAIN s |-> s[(CHOOSE p \in places : p[2] = r)[1]]]
FindClosestNodes(table, target, k) ==
  FirstOf(ByDistance(SetToSeq(Contacts(table)), target), k)

-----------------------------------------------------------------------------
\* A call, and where a join is.  The fields: at, the step; todo, the nodes it
\* has yet to turn to; nodes, those it was told of; candidates, queried,
\* iteration and target, the state of a lookup; lookups, how many are left.

PING == "PING"
FIND_NODE == "FIND_NODE"

\* What a call is made for: a step of Join, one of the lookup's parallel
\* questions (to the candidate in place copy), or a ping nobody waits for.
Call(n, m, type, target, for, copy) ==
  [from |-> n, to |-> m, type |-> type, target |-> target, for |-> for, copy |-> copy,
   served |-> FALSE, answer |-> None]

Ping(n, m, for) == Call(n, m, PING, {}, for, 1)

At(step) ==
  [at |-> step, todo |-> <<>>, nodes |-> <<>>, candidates |-> <<>>, queried |-> {},
   iteration |-> 0, target |-> {}, lookups |-> 0]

\* What the caller does next: its table, where its join is, the new calls.
Then(table, state, new) == [table |-> table, state |-> state, new |-> new]

Init ==
  /\ routingTable = [n \in Nodes |->
       IF n = Bootstrap THEN AddAll(NewRoutingTable, n, SetToSeq(Earlier))
       ELSE IF n \in Earlier THEN AddAll(NewRoutingTable, n, SetToSeq(Earlier \cup {Bootstrap}))
       ELSE NewRoutingTable]
  /\ join = [n \in Nodes |-> At(IF n \in Earlier THEN "joined" ELSE "off")]
  /\ joins = [n \in Nodes |-> IF n \in Earlier THEN 1 ELSE 0]
  /\ calls = {}
  /\ earlier = [n \in Nodes |-> {}]
  /\ troubled = {}

\* The node has started: its listener takes connections.
Listening(n) == n = Bootstrap \/ joins[n] > 0

\* Setup, and BroadcastToShard to the own shard later: the table is built
\* anew with the bootstrap node in it, which is pinged.
Join(n) ==
  /\ join[n].at \in {"off", "joined", "failed"}
  /\ MapThenSumSet(LAMBDA m : joins[m], Nodes) < MaxJoins + Cardinality(Earlier)
  /\ joins' = [joins EXCEPT ![n] = @ + 1]
  /\ routingTable' = [routingTable EXCEPT ![n] = AddContact(NewRoutingTable, n, Bootstrap)]
  /\ join' = [join EXCEPT ![n] = At("ping")]
  /\ calls' = calls \cup {Ping(n, Bootstrap, "ping")}
  /\ troubled' = troubled \ {n}
  /\ UNCHANGED earlier

\* FindNode asks the ALPHA contacts nearest to the node itself, one by one,
\* and goes on with the nodes they named.
FindNext(n, table, todo, nodes) ==
  Then(table,
       [At("find") EXCEPT !.todo = Tail(todo), !.nodes = nodes],
       {Call(n, Head(todo), FIND_NODE, ID[n], "find", 1)})

FindNode(n, table) == FindNext(n, table, FindClosestNodes(table, ID[n], ALPHA), <<>>)

\* Every node named is added and pinged; then come the lookups.
Connect(n, table, todo) ==
  LET i == SelectInSeq(todo, LAMBDA m : m # n) IN
  IF i = 0
    THEN Then(table, [At("lookup") EXCEPT !.lookups = 1 + RandomTargets], {})
    ELSE Then(AddContact(table, n, todo[i]),
              [At("connect") EXCEPT !.todo = SubSeq(todo, i + 1, Len(todo))],
              {Ping(n, todo[i], "connect")})

\* What the join does when a call for step is over; nodes are those of the
\* answer, <<>> when the call failed.
Continue(n, table, step, failed, nodes) ==
  LET j == join[n] IN
  CASE step = "ping" -> IF failed THEN Then(table, At("failed"), {}) ELSE FindNode(n, table)
    [] step = "find" ->
         IF j.todo = <<>> THEN Connect(n, table, j.nodes \o nodes)
         ELSE FindNext(n, table, j.todo, j.nodes \o nodes)
    [] step = "connect" ->
         IF failed THEN Then(table, At("failed"), {}) ELSE Connect(n, table, j.todo)
    [] step = "query" ->
         Then(table, [j EXCEPT !.nodes = SetToSeq(ToSet(@) \cup ToSet(nodes))], {})
    [] step = "nothing" -> Then(table, j, {})

-----------------------------------------------------------------------------
\* The lookup.

\* The first ALPHA places of a set of places.
FirstPlaces(places) == {i \in places : Cardinality({h \in places : h < i}) < ALPHA}

\* The places of a list of candidates are asked.
Ask(n, table, j, places) ==
  Then(table,
       [j EXCEPT !.at = "query", !.queried = @ \cup {j.candidates[i] : i \in places},
                 !.iteration = @ + 1, !.nodes = <<>>],
       {Call(n, j.candidates[i], FIND_NODE, j.target, "query", i) : i \in places})

\* Faulty: who was asked is asked again.
RoundAgain(n, table, j) == Ask(n, table, j, FirstPlaces(DOMAIN j.candidates))

\* A round asks the ALPHA nearest candidates that were not asked, itself and
\* repeated ones included.
Round(n, table, j) ==
  Ask(n, table, j, FirstPlaces({i \in DOMAIN j.candidates : j.candidates[i] \notin j.queried}))

\* A lookup begins, the first with the node's own identifier as its target.
Lookup(n, target) ==
  /\ join[n].at = "lookup"
  /\ IF join[n].lookups = 1 + RandomTargets THEN target = ID[n] ELSE target \in Targets
  /\ LET s == Round(n, routingTable[n],
                    [join[n] EXCEPT !.candidates = FindClosestNodes(routingTable[n], target, K),
                                    !.target = target, !.lookups = @ - 1])
     IN /\ join' = [join EXCEPT ![n] = s.state]
        /\ calls' = calls \cup s.new
  /\ UNCHANGED <<routingTable, joins, earlier, troubled>>

Unanswered(n) == {c \in calls : c.from = n /\ c.for = "query"}

\* The candidates after a round: those named are appended, whether they are
\* there or not, and the K nearest are kept.
Merged(j) == FirstOf(ByDistance(j.candidates \o j.nodes, j.target), K)

\* A lookup ends: its candidates are added, and pinged by goroutines.
EndLookup(n, candidates) ==
  Then(AddAll(routingTable[n], n, candidates),
       IF join[n].lookups = 0 THEN At("joined")
       ELSE [At("lookup") EXCEPT !.lookups = join[n].lookups],
       {Ping(n, m, "nothing") : m \in ToSet(candidates) \ {n}})

\* All answers of a round are in or given up: the next round, or the end.
CollectResults(n) ==
  LET j == [join[n] EXCEPT !.candidates = Merged(join[n])] IN
  /\ join[n].at = "query"
  /\ Unanswered(n) = {}
  /\ LET s == IF j.iteration < Iterations /\ ~ ToSet(j.candidates) \subseteq j.queried
                THEN Round(n, routingTable[n], j)
                ELSE EndLookup(n, j.candidates)
     IN /\ routingTable' = [routingTable EXCEPT ![n] = s.table]
        /\ join' = [join EXCEPT ![n] = s.state]
        /\ calls' = calls \cup s.new
  /\ UNCHANGED <<joins, earlier, troubled>>

\* The two seconds are over: the answer, if there is one, is for nobody.
TimeOut(c) ==
  /\ c.for = "query"
  /\ Cardinality(troubled) < MaxFaults
  /\ calls' = (calls \ {c}) \cup {[c EXCEPT !.for = "nothing"]}
  /\ troubled' = troubled \cup {c.from}
  /\ UNCHANGED <<routingTable, join, joins, earlier>>

-----------------------------------------------------------------------------
\* Calls.

\* The node called files the caller and answers: handleConnection and
\* handleMessage.
Serve(c) ==
  LET table == AddContact(routingTable[c.to], c.to, c.from) IN
  /\ ~ c.served
  /\ Listening(c.to)
  /\ routingTable' = [routingTable EXCEPT ![c.to] = table]
  /\ calls' = (calls \ {c}) \cup
       {[c EXCEPT !.served = TRUE,
                  !.answer = IF c.type = FIND_NODE THEN FindClosestNodes(table, c.target, K)
                             ELSE <<>>]}
  /\ earlier' = IF c.for = "ping"
                  THEN [earlier EXCEPT ![c.from] = Contacts(routingTable[c.to]) \ {c.from}]
                  ELSE earlier
  /\ UNCHANGED <<join, joins, troubled>>

\* The caller goes on with table and the nodes of the answer.
Proceed(c, table, failed, nodes) ==
  LET s == Continue(c.from, table, c.for, failed, nodes) IN
  /\ routingTable' = [routingTable EXCEPT ![c.from] = s.table]
  /\ join' = [join EXCEPT ![c.from] = s.state]
  /\ calls' = (calls \ {c}) \cup s.new
  /\ UNCHANGED <<joins, earlier>>

\* The answer: the caller files the node that gave it.
Return(c) ==
  /\ c.served
  /\ Proceed(c, AddContact(routingTable[c.from], c.from, c.to), FALSE, c.answer)
  /\ UNCHANGED troubled

\* The connection breaks, before the call is served or after.
Fail(c) ==
  /\ Cardinality(troubled) < MaxFaults
  /\ Proceed(c, routingTable[c.from], TRUE, <<>>)
  /\ troubled' = troubled \cup {c.from}

Next ==
  \/ \E n \in Members :
       \/ Join(n)
       \/ CollectResults(n)
       \/ \E t \in Targets \cup {ID[n]} : Lookup(n, t)
  \/ \E c \in calls : Serve(c) \/ Return(c) \/ Fail(c) \/ TimeOut(c)

Spec == Init /\ [][Next]_vars

-----------------------------------------------------------------------------

\* Types: a contact stands in the bucket of its distance, once, and never in
\* the table of the node itself, whatever was told and in which order.
TypeOK ==
  /\ \A n \in Nodes : \A i \in 0..IDLength - 1 :
       LET bucket == routingTable[n][i] IN
       /\ Len(bucket) <= K /\ IsInjective(bucket)
       /\ \A m \in ToSet(bucket) : m # n /\ getBucketIndex(n, m) = i
  /\ joins \in [Nodes -> Nat]
  /\ earlier \in [Nodes -> SUBSET Nodes]
  /\ troubled \subseteq Nodes
  /\ \A c \in calls : {c.from, c.to} \subseteq Nodes /\ Listening(c.from)

\* The bootstrap node is where everybody is found: as long as its buckets are
\* not full, nobody is known to any node, through calls that cross and joins
\* that fail half way or start over, who is unknown to it.
BootstrapKnowsAll ==
  \A n \in Nodes :
    Contacts(routingTable[n]) \subseteq Contacts(routingTable[Bootstrap]) \cup {Bootstrap}

\* The latest join of n is over, and every call it made was answered in time.
Settled(n) ==
  join[n].at = "joined" /\ n \notin troubled /\ ~ \E c \in calls : c.from = n

\* A node that has joined without trouble, and the nodes that had registered
\* at the bootstrap node before it, know each other; of two that join at once
\* one is the earlier.  It need not have asked the bootstrap node first: nearer
\* nodes that heard of it meanwhile are asked instead, and only the lookup then
\* gets there.  The earlier one may be in its first join or have failed in it;
\* only a later join of its own makes it forget.
Acquainted ==
  \A n \in Members : Settled(n) =>
    \A m \in earlier[n] :
      joins[m] = 1 \/ Settled(m) =>
        /\ m \in Contacts(routingTable[n])
        /\ n \in Contacts(routingTable[m])
=============================================================================
