----------------------------- MODULE Flood_proofs -----------------------------
(***************************************************************************)
(* Proofs about Flood, for every set of nodes, shards, messages and        *)
(* contacts, every TTL and channel size, and whatever calls may fail.      *)
(*                                                                         *)
(* Nothing about one handler makes a message stay in its shard: it is put  *)
(* together from what a copy says of its sender, what tables hold, and     *)
(* which tables there are, so IInv carries all three along with the marks  *)
(* that make a message be put once and what they stand for.  That nothing  *)
(* is lost between contacts rests on where copies come from and how far    *)
(* they have come (Journey).                                               *)
(***************************************************************************)
EXTENDS Flood, FiniteSets, FiniteSetTheorems, TLAPS

Tables == [Nodes -> [Shards -> (SUBSET Nodes) \cup {None}]]

\* Routing tables of the right shape, filed under the right shard, and one for
\* a node's own shard.
Filed(rt) ==
  /\ rt \in Tables
  /\ \A n \in Nodes, s \in Shards : Table(rt, n, s) \subseteq Members(s)
  /\ \A n \in Nodes : rt[n][ShardNum[n]] # None

\* No table of rt is missing in rt2.
Keeps(rt, rt2) == \A n \in Nodes, s \in Shards : rt[n][s] # None => rt2[n][s] # None

\* No contact of rt is missing in rt2.
Wider(rt, rt2) == \A n \in Nodes, s \in Shards : Table(rt, n, s) \subseteq Table(rt2, n, s)

\* The tables rt with T in the place of one of them.
Refiled(rt, n, s, T) == [rt EXCEPT ![n][s] = T]

\* A copy is for a member of the target shard, names the shard of its sender,
\* and its sender has a table for the target.
Addressed(c, rt) ==
  /\ c \in CopyType
  /\ c.msg.targetShard = ShardNum[c.to]
  /\ c.senderShard = ShardNum[c.sender]
  /\ rt[c.sender][c.msg.targetShard] # None

\* A join is for a message of the orchestration and has a table to fill.
Opened(j, rt) ==
  /\ j \in [msg : Messages, met : SUBSET Nodes]
  /\ j.msg.dataType = "shard"
  /\ rt[j.msg.sender][j.msg.targetShard] # None

\* The copies on their way, in a handler, or waiting to be forwarded.
Underway == net \cup putting \cup forwarding

Placed ==
  /\ Filed(routingTable)
  /\ \A c \in Underway : Addressed(c, routingTable)
  /\ \A j \in joining : Opened(j, routingTable)
  /\ \A c \in forwarding : c.ttl > 0

\* Only what was sent is under way, from nodes that have it.
Sourced ==
  /\ \A c \in Underway :
       c.msg \in sent /\ (c.sender = c.msg.sender \/ delivered[c.sender][c.msg] > 0)
  /\ \A c \in forwarding : delivered[c.to][c.msg] > 0
  /\ \A n \in Nodes, m \in Messages : delivered[n][m] > 0 => m \in sent

\* A message on its way into a channel is there once, marked, and not yet put.
PutMarked ==
  /\ \A c \in putting : MessageID(c.msg) \in seenMessages[c.to] /\ delivered[c.to][c.msg] = 0
  /\ \A c, d \in putting : c.to = d.to /\ c.msg = d.msg => c = d

DeliveredMarked ==
  \A n \in Nodes, m \in Messages :
    delivered[n][m] > 0 =>
      delivered[n][m] = 1 /\ MessageID(m) \in seenMessages[n] /\ ShardNum[n] = m.targetShard

IInv ==
  /\ TypeOK
  /\ Placed
  /\ Sourced
  /\ PutMarked
  /\ DeliveredMarked
  /\ MarksBacked
-----------------------------------------------------------------------------

\* The message and the ends of a copy are what they are typed to be.
LEMMA ShardOf == \A n \in Nodes : ShardNum[n] \in Shards /\ n \in Members(ShardNum[n])
BY DEF Shards, Members

LEMMA NoneNoTable == \A S \in SUBSET Nodes : S # None
BY NodesAssumption

LEMMA MessageOf ==
  \A m \in Messages : m.sender \in Nodes /\ m.targetShard \in Shards /\ m.dataType \in DataTypes
BY MessagesAssumption, NodesAssumption

\* One table replaced by members of its shard: tables stay filed, none goes away.
LEMMA RefiledIs ==
  ASSUME NEW rt, Filed(rt), NEW n \in Nodes, NEW s \in Shards, NEW T \in SUBSET Members(s)
  PROVE  /\ Filed(Refiled(rt, n, s, T))
         /\ Keeps(rt, Refiled(rt, n, s, T))
         /\ Refiled(rt, n, s, T)[n][s] # None
         /\ \A x \in Nodes, t \in Shards :
              Table(Refiled(rt, n, s, T), x, t) = IF x = n /\ t = s THEN T ELSE Table(rt, x, t)
<1> DEFINE rt2 == Refiled(rt, n, s, T)
<1>1. T \in SUBSET Nodes /\ T # None
  BY NoneNoTable DEF Members
<1>2. rt \in Tables
  BY DEF Filed
<1>3. rt2 \in Tables /\ \A x \in Nodes, t \in Shards :
        rt2[x][t] = IF x = n /\ t = s THEN T ELSE rt[x][t]
  BY <1>1, <1>2 DEF Refiled, Tables
<1> HIDE DEF rt2
<1>4. \A x \in Nodes, t \in Shards :
        Table(rt2, x, t) = IF x = n /\ t = s THEN T ELSE Table(rt, x, t)
  BY <1>1, <1>3 DEF Table
<1>5. \A x \in Nodes, t \in Shards : Table(rt2, x, t) \subseteq Members(t)
  BY <1>4 DEF Filed
<1>6. \A x \in Nodes : rt2[x][ShardNum[x]] # None
  BY <1>1, <1>3, ShardOf DEF Filed
<1>7. Keeps(rt, rt2) /\ rt2[n][s] # None
  BY <1>1, <1>3 DEF Keeps
<1> QED BY <1>3, <1>4, <1>5, <1>6, <1>7 DEF Filed, rt2

\* Learning a member of a shard under that shard.
LEMMA LearnFiled ==
  ASSUME NEW rt, Filed(rt), NEW n \in Nodes, NEW s \in Shards, NEW x \in Members(s)
  PROVE  /\ Filed(Learn(rt, n, s, x))
         /\ Keeps(rt, Learn(rt, n, s, x))
         /\ Wider(rt, Learn(rt, n, s, x))
<1> DEFINE T == Table(rt, n, s) \cup ({x} \ {n})
<1>1. T \in SUBSET Members(s)
  BY DEF Filed
<1>2. Learn(rt, n, s, x) = Refiled(rt, n, s, T)
  BY DEF Learn, Refiled
<1>3. Table(rt, n, s) \subseteq T
  OBVIOUS
<1> HIDE DEF T
<1> QED BY <1>1, <1>2, <1>3, RefiledIs DEF Wider

\* Both hold along a sequence of changes.
LEMMA KeptThrough ==
  ASSUME NEW a, NEW b, NEW c, Keeps(a, b), Keeps(b, c), Wider(a, b), Wider(b, c)
  PROVE  Keeps(a, c) /\ Wider(a, c)
BY DEF Keeps, Wider

\* Copies keep their address, and joins their table, as long as none goes away.
LEMMA AddressedKept ==
  ASSUME NEW rt, NEW rt2, Keeps(rt, rt2)
  PROVE  /\ \A c : Addressed(c, rt) => Addressed(c, rt2)
         /\ \A j : Opened(j, rt) => Opened(j, rt2)
<1>1. \A c : Addressed(c, rt) => Addressed(c, rt2)
  BY ShardOf DEF Addressed, Keeps, CopyType
<1>2. \A j : Opened(j, rt) => Opened(j, rt2)
  BY MessageOf DEF Opened, Keeps
<1> QED BY <1>1, <1>2

\* New copies of a message to members of its target shard are addressed.
LEMMA CopiesAddressed ==
  ASSUME NEW rt, NEW m \in Messages, NEW ttl \in 0..InitialTTL, NEW n \in Nodes,
         rt[n][m.targetShard] # None, NEW S \in SUBSET Members(m.targetShard)
  PROVE  \A c \in Copies(m, ttl, n, S) : Addressed(c, rt)
BY ShardOf DEF Copies, Addressed, CopyType, Members

\* A forwarded copy is addressed: a node has a table for its own shard.
LEMMA ForwardAddressed ==
  ASSUME Placed, NEW c \in forwarding
  PROVE  \A d \in forwardBroadcast(c) : Addressed(d, routingTable)
<1>1. Addressed(c, routingTable) /\ c.ttl > 0 /\ Filed(routingTable)
  BY DEF Placed, Underway
<1>2. /\ c.msg \in Messages /\ c.msg.targetShard \in Shards
      /\ c.to \in Nodes /\ c.ttl - 1 \in 0..InitialTTL
  BY <1>1, MessageOf, BoundsAssumption DEF Addressed, CopyType
<1>3. routingTable[c.to][c.msg.targetShard] # None
  BY <1>1, <1>2 DEF Addressed, Filed
<1>4. Others(c) \in SUBSET Members(c.msg.targetShard)
  BY <1>1, <1>2 DEF Others, Filed
<1> QED BY <1>2, <1>3, <1>4, CopiesAddressed DEF forwardBroadcast

\* The steps there are.
LEMMA Steps ==
  ASSUME [Next]_vars
  PROVE  \/ \E m \in Messages : Broadcast(m) \/ Join(m)
         \/ \E j \in joining, x \in Nodes : BroadcastToShard(j) \/ Meet(j, x) \/ FailToJoin(j, x)
         \/ \E c \in net : HandleBroadcast(c) \/ Lose(c)
         \/ \E c \in putting : Put(c)
         \/ \E c \in forwarding : Forward(c)
         \/ \E n \in Nodes, d \in DataTypes : Stop(n) \/ Take(n, d)
         \/ \E n \in stopped : Die(n)
         \/ UNCHANGED vars
<1>1. ASSUME NEW n \in Nodes, Handle(n)
      PROVE  \/ \E c \in net : HandleBroadcast(c)
             \/ \E c \in putting : Put(c)
             \/ \E c \in forwarding : Forward(c)
             \/ \E k \in stopped : Die(k)
  BY <1>1 DEF Handle, PutClosed
<1>2. ASSUME NEW n \in Nodes, GoOnJoining(n)
      PROVE  \E j \in joining, x \in Nodes : BroadcastToShard(j) \/ Meet(j, x) \/ FailToJoin(j, x)
  BY <1>2 DEF GoOnJoining, Members
<1>3. ASSUME NEW n \in Nodes, Exit(n) PROVE \E k \in stopped : Die(k)
  BY <1>3 DEF Exit
<1>4. "shard" \in DataTypes
  BY DEF DataTypes
<1> QED BY <1>1, <1>2, <1>3, <1>4 DEF Next

-----------------------------------------------------------------------------

\* What both handlers of a copy do to the tables.
LEMMA AnsweredFiled ==
  ASSUME NEW rt, Filed(rt), NEW c \in CopyType, NEW rt2 \in Answered(rt, c)
  PROVE  Filed(rt2) /\ Keeps(rt, rt2) /\ Wider(rt, rt2)
<1>1. rt2 = rt \/ rt2 = Learn(rt, c.sender, ShardNum[c.to], c.to)
  BY DEF Answered, Acknowledge
<1>2. c.sender \in Nodes /\ c.to \in Nodes
  BY DEF CopyType
<1>3. CASE rt2 = rt
  BY <1>3 DEF Keeps, Wider
<1> QED BY <1>1, <1>2, <1>3, ShardOf, LearnFiled

\* Tables stay filed and none goes away.  Only a join takes contacts out of one,
\* that of the shard it is for.
TablesGrow ==
  /\ Filed(routingTable') /\ Keeps(routingTable, routingTable')
  /\ \/ Wider(routingTable, routingTable')
     \/ \E m \in Messages :
          Join(m) /\ routingTable' = Refiled(routingTable, m.sender, m.targetShard, {})

LEMMA TableStep == IInv /\ [Next]_vars => TablesGrow
<1> SUFFICES ASSUME IInv, [Next]_vars PROVE TablesGrow
  OBVIOUS
<1> USE DEF TablesGrow
<1>0. /\ Filed(routingTable) /\ \A c \in net \cup putting : Addressed(c, routingTable)
      /\ \A j \in joining : Opened(j, routingTable)
  BY DEF IInv, Placed, Underway
<1>1. CASE UNCHANGED routingTable
  BY <1>0, <1>1 DEF Keeps, Wider
<1>2. ASSUME NEW m \in Messages, Broadcast(m) \/ Join(m) PROVE TablesGrow
  <2>1. CASE Join(m)
    <3>1. routingTable' = Refiled(routingTable, m.sender, m.targetShard, {})
      BY <2>1 DEF Join, Refiled
    <3>2. {} \in SUBSET Members(m.targetShard)
      OBVIOUS
    <3> QED BY <1>0, <2>1, <3>1, <3>2, MessageOf, RefiledIs
  <2>2. CASE Broadcast(m)
    BY <1>1, <2>2 DEF Broadcast
  <2> QED BY <1>2, <2>1, <2>2
<1>3. ASSUME NEW j \in joining, NEW x \in Nodes, BroadcastToShard(j) \/ Meet(j, x) \/ FailToJoin(j, x)
      PROVE  TablesGrow
  <2> DEFINE n == j.msg.sender
             s == j.msg.targetShard
             met == Learn(routingTable, n, s, x)
  <2>1. n \in Nodes /\ s \in Shards
    BY <1>0, MessageOf DEF Opened
  <2>2. CASE BroadcastToShard(j)
    BY <1>1, <2>2 DEF BroadcastToShard
  <2>3. ASSUME Meet(j, x) \/ FailToJoin(j, x)
        PROVE  x \in Members(s) /\ Filed(met) /\ Keeps(routingTable, met) /\ Wider(routingTable, met)
    <3>1. x \in Members(s)
      BY <2>3 DEF Meet, FailToJoin, Upcoming, Unmet
    <3> QED BY <1>0, <2>1, <3>1, LearnFiled
  <2>4. CASE FailToJoin(j, x)
    BY <2>3, <2>4 DEF FailToJoin
  <2>5. CASE Meet(j, x)
    <3>1. routingTable' = Learn(met, x, ShardNum[n], n)
      BY <2>5 DEF Meet
    <3>2. Filed(met)
      BY <2>3, <2>5
    <3> HIDE DEF met
    <3>3. Filed(routingTable') /\ Keeps(met, routingTable') /\ Wider(met, routingTable')
      BY <2>1, <3>1, <3>2, ShardOf, LearnFiled
    <3> QED BY <2>3, <2>5, <3>3, KeptThrough DEF met
  <2> QED BY <1>3, <2>2, <2>4, <2>5
<1>4. ASSUME NEW c \in net, HandleBroadcast(c) \/ Lose(c) PROVE TablesGrow
  <2> DEFINE met == Learn(routingTable, c.to, c.senderShard, c.sender)
  <2>1. c \in CopyType /\ c.to \in Nodes /\ c.sender \in Nodes /\ c.senderShard = ShardNum[c.sender]
    BY <1>0 DEF Addressed, CopyType
  <2>2. Filed(met) /\ Keeps(routingTable, met) /\ Wider(routingTable, met)
    BY <1>0, <2>1, ShardOf, LearnFiled
  <2>3. CASE HandleBroadcast(c)
    <3>1. routingTable' = met \/ routingTable' \in Answered(met, c)
      BY <2>3 DEF HandleBroadcast
    <3> HIDE DEF met
    <3>2. CASE routingTable' \in Answered(met, c)
      <4>1. Filed(routingTable') /\ Keeps(met, routingTable') /\ Wider(met, routingTable')
        BY <2>1, <2>2, <3>2, AnsweredFiled
      <4>2. Keeps(routingTable, met) /\ Wider(routingTable, met)
        BY <2>2
      <4>3. Keeps(routingTable, routingTable') /\ Wider(routingTable, routingTable')
        BY <4>1, <4>2, KeptThrough
      <4> QED BY <4>1, <4>3
    <3> QED BY <2>2, <3>1, <3>2
  <2>4. CASE Lose(c)
    BY <1>1, <2>4 DEF Lose
  <2> QED BY <1>4, <2>3, <2>4
<1>5. ASSUME NEW c \in putting, Put(c) PROVE TablesGrow
  <2>1. c \in CopyType /\ routingTable' \in Answered(routingTable, c)
    BY <1>0, <1>5 DEF Addressed, Put
  <2> QED BY <1>0, <2>1, AnsweredFiled
<1>6. ASSUME NEW c \in forwarding, Forward(c) PROVE TablesGrow
  BY <1>1, <1>6 DEF Forward
<1>7. ASSUME NEW n \in Nodes, NEW d \in DataTypes, Stop(n) \/ Take(n, d) PROVE TablesGrow
  BY <1>1, <1>7 DEF Stop, Take
<1>8. ASSUME NEW n \in stopped, Die(n) PROVE TablesGrow
  BY <1>1, <1>8 DEF Die
<1>9. CASE UNCHANGED vars
  BY <1>1, <1>9 DEF vars
<1> HIDE DEF TablesGrow
<1> QED BY <1>2, <1>3, <1>4, <1>5, <1>6, <1>7, <1>8, <1>9, Steps

LEMMA PlacedStep == IInv /\ [Next]_vars => Placed'
<1> SUFFICES ASSUME IInv, [Next]_vars PROVE Placed'
  OBVIOUS
<1>0. /\ Filed(routingTable) /\ \A c \in Underway : Addressed(c, routingTable)
      /\ \A j \in joining : Opened(j, routingTable)
      /\ \A c \in forwarding : c.ttl > 0
  BY DEF IInv, Placed
<1>1. Filed(routingTable') /\ Keeps(routingTable, routingTable')
  BY TableStep DEF TablesGrow
\* It is enough to look at copies and joins that are new, in the tables there were.
<1>2. ASSUME \A c \in Underway' \ Underway : Addressed(c, routingTable),
             \A j \in joining' \ joining : Opened(j, routingTable'),
             \A c \in forwarding' \ forwarding : c.ttl > 0
      PROVE  Placed'
  <2>1. \A c \in Underway' : Addressed(c, routingTable')
    BY <1>0, <1>1, <1>2, AddressedKept
  <2>2. \A j \in joining' : Opened(j, routingTable')
    BY <1>0, <1>1, <1>2, AddressedKept
  <2> QED BY <1>0, <1>1, <1>2, <2>1, <2>2 DEF Placed
<1>3. ASSUME Underway' \subseteq Underway, joining' \subseteq joining,
             \A c \in forwarding' \ forwarding : c.ttl > 0
      PROVE  Placed'
  BY <1>2, <1>3
<1>4. ASSUME NEW m \in Messages, routingTable[m.sender][m.targetShard] # None,
             net' = net \cup Copies(m, InitialTTL, m.sender,
                                    Table(routingTable, m.sender, m.targetShard)),
             joining' \subseteq joining, UNCHANGED <<putting, forwarding>>
      PROVE  Placed'
  <2> DEFINE T == Table(routingTable, m.sender, m.targetShard)
  <2>1. T \in SUBSET Members(m.targetShard) /\ InitialTTL \in 0..InitialTTL
    BY <1>0, MessageOf, BoundsAssumption DEF Filed
  <2>2. \A c \in Copies(m, InitialTTL, m.sender, T) : Addressed(c, routingTable)
    BY <1>4, <2>1, MessageOf, CopiesAddressed
  <2> HIDE DEF T
  <2>3. net' = net \cup Copies(m, InitialTTL, m.sender, T)
    BY <1>4 DEF T
  <2> QED BY <1>2, <1>4, <2>2, <2>3 DEF Underway
<1>5. ASSUME NEW m \in Messages, Broadcast(m) PROVE Placed'
  <2>1. m.targetShard = ShardNum[m.sender] /\ m.sender \in Nodes
    BY <1>5, MessagesAssumption, MessageOf DEF Broadcast
  <2>2. routingTable[m.sender][m.targetShard] # None
    BY <1>0, <2>1 DEF Filed
  <2> QED BY <1>4, <1>5, <2>2 DEF Broadcast, handling
<1>6. ASSUME NEW m \in Messages, Join(m) PROVE Placed'
  <2>1. routingTable'[m.sender][m.targetShard] # None
    <3>1. routingTable' = Refiled(routingTable, m.sender, m.targetShard, {})
      BY <1>6 DEF Join, Refiled
    <3>2. {} \in SUBSET Members(m.targetShard)
      OBVIOUS
    <3> QED BY <1>0, <3>1, <3>2, MessageOf, RefiledIs
  <2>2. \A j \in joining' \ joining : Opened(j, routingTable')
    BY <1>6, <2>1 DEF Join, Opened
  <2>3. Underway' = Underway /\ forwarding' = forwarding
    BY <1>6 DEF Join, Underway, handling
  <2> QED BY <1>2, <2>2, <2>3
<1>7. ASSUME NEW j \in joining, BroadcastToShard(j) PROVE Placed'
  <2>1. j.msg \in Messages /\ routingTable[j.msg.sender][j.msg.targetShard] # None
    BY <1>0 DEF Opened
  <2> QED BY <1>4, <1>7, <2>1 DEF BroadcastToShard, handling
<1>8. ASSUME NEW j \in joining, NEW x \in Nodes, Meet(j, x) PROVE Placed'
  <2> DEFINE k == [j EXCEPT !.met = @ \cup {x}]
  <2>1. joining' = (joining \ {j}) \cup {k}
    BY <1>8 DEF Meet
  <2>2. Opened(j, routingTable')
    BY <1>0, <1>1, AddressedKept
  <2>3. Opened(k, routingTable')
    <3>1. k.msg = j.msg /\ k \in [msg : Messages, met : SUBSET Nodes]
      BY <2>2 DEF Opened
    <3> HIDE DEF k
    <3> QED BY <2>2, <3>1 DEF Opened
  <2>4. Underway' = Underway /\ forwarding' = forwarding
    BY <1>8 DEF Meet, Underway, handling
  <2> QED BY <1>2, <2>1, <2>3, <2>4
<1>9. ASSUME NEW j \in joining, NEW x \in Nodes, FailToJoin(j, x) PROVE Placed'
  BY <1>3, <1>9 DEF FailToJoin, Underway, handling
<1>10. ASSUME NEW c \in net, HandleBroadcast(c) PROVE Placed'
  BY <1>3, <1>10 DEF HandleBroadcast, Underway
<1>11. ASSUME NEW c \in net, Lose(c) PROVE Placed'
  BY <1>3, <1>11 DEF Lose, Underway, handling
<1>12. ASSUME NEW c \in putting, Put(c) PROVE Placed'
  BY <1>3, <1>12 DEF Put, Alive, Underway
<1>13. ASSUME NEW c \in forwarding, Forward(c) PROVE Placed'
  <2>1. \A d \in forwardBroadcast(c) : Addressed(d, routingTable)
    BY ForwardAddressed DEF IInv
  <2> QED BY <1>2, <1>13, <2>1 DEF Forward, Underway
<1>14. ASSUME NEW n \in Nodes, NEW d \in DataTypes, Stop(n) \/ Take(n, d) PROVE Placed'
  <2>1. /\ net' \subseteq net
        /\ UNCHANGED <<putting, forwarding, joining>>
    BY <1>14 DEF Stop, Take, handling
  <2> QED BY <1>3, <2>1 DEF Underway
<1>15. ASSUME NEW n \in stopped, Die(n) PROVE Placed'
  BY <1>3, <1>15 DEF Die, Underway
<1>16. CASE UNCHANGED vars
  BY <1>3, <1>16 DEF vars, Underway, handling
<1> QED BY <1>5, <1>6, <1>7, <1>8, <1>9, <1>10, <1>11, <1>12, <1>13, <1>14, <1>15, <1>16, Steps

LEMMA TypeStep == IInv /\ Placed' /\ [Next]_vars => TypeOK'
<1> SUFFICES ASSUME IInv, Placed', [Next]_vars PROVE TypeOK'
  OBVIOUS
<1>0. TypeOK /\ \A c \in Underway : c \in CopyType
  BY DEF IInv, Placed, Addressed
<1>1. /\ routingTable' \in Tables
      /\ joining' \subseteq [msg : Messages, met : SUBSET Nodes]
      /\ \A c \in Underway' : c \in CopyType
      /\ \A j \in joining : j.msg \in Messages
  BY DEF IInv, Placed, Filed, Addressed, Opened
<1>2. ASSUME sent' \subseteq Messages, failed' \subseteq CopyType,
             seenMessages' \in [Nodes -> SUBSET {MessageID(m) : m \in Messages}],
             queued' \in [Nodes -> [DataTypes -> 0..ChanelSize]],
             delivered' \in [Nodes -> [Messages -> Nat]],
             died' \subseteq stopped', stopped' \subseteq Stoppable
      PROVE  TypeOK'
  BY <1>1, <1>2 DEF TypeOK, Tables, Underway
<1>3. ASSUME sent' \subseteq Messages, UNCHANGED <<failed, handling, stopped, died>>
      PROVE  TypeOK'
  BY <1>0, <1>2, <1>3 DEF TypeOK, handling
<1>4. ASSUME NEW m \in Messages, Broadcast(m) \/ Join(m) PROVE TypeOK'
  BY <1>0, <1>3, <1>4 DEF Broadcast, Join, handling, TypeOK
<1>5. ASSUME NEW j \in joining, NEW x \in Nodes, BroadcastToShard(j) \/ Meet(j, x) \/ FailToJoin(j, x)
      PROVE  TypeOK'
  BY <1>0, <1>1, <1>3, <1>5 DEF BroadcastToShard, Meet, FailToJoin, handling, TypeOK
<1>6. ASSUME NEW c \in net, HandleBroadcast(c) PROVE TypeOK'
  <2>1. c.to \in Nodes /\ c.msg \in Messages
    BY <1>0 DEF Underway, CopyType
  <2>2. seenMessages' = seenMessages
          \/ seenMessages' = [seenMessages EXCEPT ![c.to] = @ \cup {MessageID(c.msg)}]
    BY <1>6 DEF HandleBroadcast
  <2>3. seenMessages' \in [Nodes -> SUBSET {MessageID(m) : m \in Messages}]
    <3> DEFINE IDs == {MessageID(m) : m \in Messages}
    <3>1. MessageID(c.msg) \in IDs /\ seenMessages \in [Nodes -> SUBSET IDs]
      BY <1>0, <2>1 DEF TypeOK
    <3> HIDE DEF IDs
    <3>2. seenMessages' \in [Nodes -> SUBSET IDs]
      BY <2>1, <2>2, <3>1
    <3> QED BY <3>2 DEF IDs
  <2>4. UNCHANGED <<sent, failed, queued, delivered, stopped, died>>
    BY <1>6 DEF HandleBroadcast
  <2> QED BY <1>0, <1>2, <2>3, <2>4 DEF TypeOK
<1>7. ASSUME NEW c \in net, Lose(c) PROVE TypeOK'
  BY <1>0, <1>2, <1>7 DEF Lose, handling, TypeOK
<1>8. ASSUME NEW c \in putting, Put(c) PROVE TypeOK'
  <2>1. c.to \in Nodes /\ c.msg \in Messages /\ c.msg.dataType \in DataTypes
    BY <1>0, MessageOf DEF Underway, CopyType
  <2>2. queued' \in [Nodes -> [DataTypes -> 0..ChanelSize]]
    <3>1. queued[c.to][c.msg.dataType] + 1 \in 0..ChanelSize
      BY <1>0, <1>8, <2>1, BoundsAssumption DEF Put, TypeOK
    <3> QED BY <1>0, <1>8, <2>1, <3>1 DEF Put, TypeOK
  <2>3. delivered' \in [Nodes -> [Messages -> Nat]]
    BY <1>0, <1>8, <2>1 DEF Put, TypeOK
  <2> QED BY <1>0, <1>2, <1>8, <2>2, <2>3 DEF Put, TypeOK
<1>9. ASSUME NEW c \in forwarding, Forward(c) PROVE TypeOK'
  BY <1>0, <1>2, <1>9 DEF Forward, TypeOK
<1>10. ASSUME NEW n \in Nodes, NEW d \in DataTypes, Take(n, d) PROVE TypeOK'
  <2>1. queued' \in [Nodes -> [DataTypes -> 0..ChanelSize]]
    <3>1. queued[n][d] - 1 \in 0..ChanelSize
      BY <1>0, <1>10, BoundsAssumption DEF Take, TypeOK
    <3> QED BY <1>0, <1>10, <3>1 DEF Take, TypeOK
  <2> QED BY <1>0, <1>2, <1>10, <2>1 DEF Take, TypeOK
<1>11. ASSUME NEW n \in Nodes, Stop(n) PROVE TypeOK'
  BY <1>0, <1>2, <1>11 DEF Stop, handling, TypeOK
<1>12. ASSUME NEW n \in stopped, Die(n) PROVE TypeOK'
  BY <1>0, <1>2, <1>12 DEF Die, TypeOK
<1>13. CASE UNCHANGED vars
  BY <1>0, <1>3, <1>13 DEF vars, handling, TypeOK
<1> QED BY <1>4, <1>5, <1>6, <1>7, <1>8, <1>9, <1>10, <1>11, <1>12, <1>13, Steps

-----------------------------------------------------------------------------

\* The ends of what is under way, and a message that is put is put a first time.
LEMMA CopyIs ==
  ASSUME IInv, NEW c \in Underway
  PROVE  /\ c \in CopyType /\ c.msg \in Messages /\ c.to \in Nodes /\ c.sender \in Nodes
         /\ c.ttl \in 0..InitialTTL /\ c.msg.targetShard = ShardNum[c.to]
BY DEF IInv, Placed, Addressed, CopyType

LEMMA PutDelivers ==
  ASSUME IInv, NEW c \in putting, Put(c)
  PROVE  /\ c.to \in Nodes /\ c.msg \in Messages /\ delivered[c.to][c.msg] = 0
         /\ \A n \in Nodes, m \in Messages :
              /\ delivered'[n][m] =
                   IF n = c.to /\ m = c.msg THEN delivered[n][m] + 1 ELSE delivered[n][m]
              /\ delivered'[n][m] > 0 <=> delivered[n][m] > 0 \/ (n = c.to /\ m = c.msg)
<1>1. c.to \in Nodes /\ c.msg \in Messages /\ delivered[c.to][c.msg] = 0
  BY CopyIs DEF IInv, PutMarked, Underway
<1>2. delivered \in [Nodes -> [Messages -> Nat]]
  BY DEF IInv, TypeOK
<1>3. \A n \in Nodes, m \in Messages :
        delivered'[n][m] =
          IF n = c.to /\ m = c.msg THEN delivered[n][m] + 1 ELSE delivered[n][m]
  BY <1>1, <1>2 DEF Put
<1> QED BY <1>1, <1>2, <1>3

LEMMA SourcedStep == IInv /\ [Next]_vars => Sourced'
<1> SUFFICES ASSUME IInv, [Next]_vars PROVE Sourced'
  OBVIOUS
<1>0. Sourced
  BY DEF IInv
<1> USE DEF Sourced
<1>1. ASSUME sent \subseteq sent', UNCHANGED delivered,
             \A n \in Nodes, m \in Messages : delivered[n][m] > 0 => m \in sent',
             \A c \in Underway' : c \in Underway \/
               (c.msg \in sent' /\ (c.sender = c.msg.sender \/ delivered[c.sender][c.msg] > 0)),
             forwarding' \subseteq forwarding
      PROVE  Sourced'
  BY <1>0, <1>1
<1>2. ASSUME sent \subseteq sent', UNCHANGED delivered, Underway' \subseteq Underway,
             forwarding' \subseteq forwarding
      PROVE  Sourced'
  BY <1>0, <1>1, <1>2
<1>3. ASSUME NEW m, sent' = sent \cup {m},
             net' = net \cup Copies(m, InitialTTL, m.sender,
                                    Table(routingTable, m.sender, m.targetShard)),
             UNCHANGED handling
      PROVE  Sourced'
  <2>1. \A c \in net' : c \in net \/ (c.msg = m /\ c.sender = m.sender)
    BY <1>3 DEF Copies
  <2>2. UNCHANGED <<putting, forwarding, delivered>>
    BY <1>3 DEF handling
  <2> QED BY <1>0, <1>1, <1>3, <2>1, <2>2 DEF Underway
<1>4. ASSUME NEW m \in Messages, Broadcast(m) \/ Join(m) PROVE Sourced'
  BY <1>2, <1>3, <1>4 DEF Broadcast, Join, handling, Underway
<1>5. ASSUME NEW j \in joining, NEW x \in Nodes, BroadcastToShard(j) \/ Meet(j, x) \/ FailToJoin(j, x)
      PROVE  Sourced'
  <2>1. CASE BroadcastToShard(j)
    BY <1>3, <2>1 DEF BroadcastToShard
  <2>2. CASE Meet(j, x)
    BY <1>2, <2>2 DEF Meet, handling, Underway
  <2>3. CASE FailToJoin(j, x)
    BY <1>2, <2>3 DEF FailToJoin, handling, Underway
  <2> QED BY <1>5, <2>1, <2>2, <2>3
<1>6. ASSUME NEW c \in net, HandleBroadcast(c) PROVE Sourced'
  BY <1>2, <1>6 DEF HandleBroadcast, Underway
<1>7. ASSUME NEW c \in net, Lose(c) PROVE Sourced'
  BY <1>2, <1>7 DEF Lose, handling, Underway
<1>8. ASSUME NEW c \in putting, Put(c) PROVE Sourced'
  <2>1. /\ UNCHANGED <<sent, net>> /\ putting' \subseteq putting
        /\ forwarding' \subseteq forwarding \cup {c}
    BY <1>8 DEF Put, Alive
  <2>2. /\ c.to \in Nodes /\ c.msg \in Messages
        /\ \A n \in Nodes, m \in Messages :
             delivered'[n][m] > 0 <=> delivered[n][m] > 0 \/ (n = c.to /\ m = c.msg)
    BY <1>8, PutDelivers
  <2>3. \A d \in Underway : d.sender \in Nodes /\ d.msg \in Messages /\ d.to \in Nodes
    BY CopyIs
  <2> QED BY <1>0, <2>1, <2>2, <2>3 DEF Underway
<1>9. ASSUME NEW c \in forwarding, Forward(c) PROVE Sourced'
  <2>1. /\ UNCHANGED <<sent, putting, delivered>> /\ forwarding' \subseteq forwarding
        /\ net' = net \cup forwardBroadcast(c)
    BY <1>9 DEF Forward
  <2>2. \A d \in forwardBroadcast(c) : d.msg = c.msg /\ d.sender = c.to
    BY DEF forwardBroadcast, Copies
  <2> QED BY <1>0, <1>1, <2>1, <2>2 DEF Underway
<1>10. ASSUME NEW n \in Nodes, NEW d \in DataTypes, Stop(n) \/ Take(n, d) PROVE Sourced'
  <2>1. net' \subseteq net /\ UNCHANGED <<putting, forwarding, delivered, sent>>
    BY <1>10 DEF Stop, Take, handling
  <2> QED BY <1>2, <2>1 DEF Underway
<1>11. ASSUME NEW n \in stopped, Die(n) PROVE Sourced'
  BY <1>2, <1>11 DEF Die, Underway
<1>12. CASE UNCHANGED vars
  BY <1>2, <1>12 DEF vars, handling, Underway
<1> QED BY <1>4, <1>5, <1>6, <1>7, <1>8, <1>9, <1>10, <1>11, <1>12, Steps

\* What marks are for: a message is put once, and what is marked has come through.
Marks == PutMarked /\ DeliveredMarked /\ MarksBacked

LEMMA MarksStep == IInv /\ [Next]_vars => Marks'
<1> SUFFICES ASSUME IInv, [Next]_vars PROVE Marks'
  OBVIOUS
<1>0. Marks
  BY DEF IInv, Marks
<1>1. ASSUME sent \subseteq sent', UNCHANGED <<seenMessages, putting, delivered, died>> PROVE Marks'
  BY <1>0, <1>1 DEF Marks, PutMarked, DeliveredMarked, MarksBacked, Reached
<1>2. ASSUME NEW m \in Messages, Broadcast(m) \/ Join(m) PROVE Marks'
  BY <1>1, <1>2 DEF Broadcast, Join, handling
<1>3. ASSUME NEW j \in joining, NEW x \in Nodes, BroadcastToShard(j) \/ Meet(j, x) \/ FailToJoin(j, x)
      PROVE  Marks'
  BY <1>1, <1>3 DEF BroadcastToShard, Meet, FailToJoin, handling
<1>4. ASSUME NEW c \in net, HandleBroadcast(c) PROVE Marks'
  <2> DEFINE id == MessageID(c.msg)
  <2>1. c.to \in Nodes /\ c.msg \in Messages /\ c.msg.targetShard = ShardNum[c.to]
    BY CopyIs DEF Underway
  <2>2. UNCHANGED <<sent, delivered, died>>
    BY <1>4 DEF HandleBroadcast
  <2>3. \/ UNCHANGED <<seenMessages, putting>>
        \/ /\ id \notin seenMessages[c.to]
           /\ seenMessages' = [seenMessages EXCEPT ![c.to] = @ \cup {id}]
           /\ putting' = putting \cup {c}
    BY <1>4 DEF HandleBroadcast
  <2>4. CASE /\ id \notin seenMessages[c.to]
             /\ seenMessages' = [seenMessages EXCEPT ![c.to] = @ \cup {id}]
             /\ putting' = putting \cup {c}
    <3>1. \A n \in Nodes : seenMessages'[n] =
            IF n = c.to THEN seenMessages[n] \cup {id} ELSE seenMessages[n]
      BY <2>4 DEF IInv, TypeOK
    <3>2. delivered[c.to][c.msg] = 0
      BY <1>0, <2>1, <2>4 DEF IInv, TypeOK, Marks, DeliveredMarked
    <3>3. \A d \in putting : d.to # c.to \/ d.msg # c.msg
      BY <1>0, <2>4 DEF Marks, PutMarked
    <3>4. \A d \in putting : d.to \in Nodes
      BY CopyIs DEF Underway
    <3>5. PutMarked'
      BY <1>0, <2>1, <2>2, <2>4, <3>1, <3>2, <3>3, <3>4 DEF Marks, PutMarked
    <3>6. DeliveredMarked'
      BY <1>0, <2>2, <3>1 DEF Marks, DeliveredMarked
    <3>7. MarksBacked'
      <4> SUFFICES ASSUME NEW n \in Nodes \ died, NEW i \in seenMessages'[n]
                   PROVE  \E m \in sent :
                            MessageID(m) = i /\ m.targetShard = ShardNum[n] /\ Reached(n, m)'
        BY <2>2 DEF MarksBacked
      <4>1. CASE i \in seenMessages[n]
        BY <1>0, <4>1, <2>2, <2>4 DEF Marks, MarksBacked, Reached
      <4>2. CASE n = c.to /\ i = id
        <5>1. Reached(n, c.msg)'
          BY <4>2, <2>4 DEF Reached
        <5>2. c.msg \in sent
          BY DEF IInv, Sourced, Underway
        <5> QED BY <4>2, <5>1, <5>2, <2>1
      <4> QED BY <4>1, <4>2, <3>1
    <3> QED BY <3>5, <3>6, <3>7 DEF Marks
  <2> QED BY <1>1, <2>2, <2>3, <2>4
<1>5. ASSUME NEW c \in net, Lose(c) PROVE Marks'
  BY <1>1, <1>5 DEF Lose, handling
<1>6. ASSUME NEW c \in putting, Put(c) PROVE Marks'
  <2>1. putting' = putting \ {c} /\ UNCHANGED <<sent, seenMessages, died>>
    BY <1>6 DEF Put
  <2>2. /\ c.to \in Nodes /\ c.msg \in Messages /\ delivered[c.to][c.msg] = 0
        /\ \A n \in Nodes, m \in Messages :
             delivered'[n][m] =
               IF n = c.to /\ m = c.msg THEN delivered[n][m] + 1 ELSE delivered[n][m]
    BY <1>6, PutDelivers
  <2>3. MessageID(c.msg) \in seenMessages[c.to] /\ c.msg.targetShard = ShardNum[c.to]
    BY <1>0, CopyIs DEF Marks, PutMarked, Underway
  <2>4. PutMarked'
    <3>1. \A d \in putting' : d \in putting /\ ~(d.to = c.to /\ d.msg = c.msg)
      BY <1>0, <2>1 DEF Marks, PutMarked
    <3>2. \A d \in putting : d.to \in Nodes /\ d.msg \in Messages
      BY CopyIs DEF Underway
    <3> QED BY <1>0, <2>1, <2>2, <3>1, <3>2 DEF Marks, PutMarked
  <2>5. DeliveredMarked'
    BY <1>0, <2>1, <2>2, <2>3 DEF Marks, DeliveredMarked
  <2>6. MarksBacked'
    <3> SUFFICES ASSUME NEW n \in Nodes \ died, NEW i \in seenMessages[n]
                 PROVE  \E m \in sent :
                          MessageID(m) = i /\ m.targetShard = ShardNum[n] /\ Reached(n, m)'
      BY <2>1 DEF MarksBacked
    <3>1. PICK m \in sent : MessageID(m) = i /\ m.targetShard = ShardNum[n] /\ Reached(n, m)
      BY <1>0 DEF Marks, MarksBacked
    <3>2. m \in Messages
      BY DEF IInv, TypeOK
    <3>3. Reached(n, m)'
      BY <2>1, <2>2, <3>1, <3>2 DEF Reached
    <3> QED BY <3>1, <3>3
  <2> QED BY <2>4, <2>5, <2>6 DEF Marks
<1>7. ASSUME NEW c \in forwarding, Forward(c) PROVE Marks'
  BY <1>1, <1>7 DEF Forward
<1>8. ASSUME NEW n \in Nodes, NEW d \in DataTypes, Stop(n) \/ Take(n, d) PROVE Marks'
  <2>1. UNCHANGED <<sent, seenMessages, putting, delivered, died>>
    BY <1>8 DEF Stop, Take, handling
  <2> QED BY <1>1, <2>1
<1>9. ASSUME NEW n \in stopped, Die(n) PROVE Marks'
  <2>1. /\ UNCHANGED <<sent, seenMessages, delivered>>
        /\ putting' = {d \in putting : d.to # n} /\ died' = died \cup {n}
    BY <1>9 DEF Die
  <2>2. \A k \in Nodes \ died' : \A m : Reached(k, m) => Reached(k, m)'
    BY <2>1 DEF Reached
  <2> QED BY <1>0, <2>1, <2>2 DEF Marks, PutMarked, DeliveredMarked, MarksBacked
<1>10. CASE UNCHANGED vars
  BY <1>1, <1>10 DEF vars, handling
<1> QED BY <1>2, <1>3, <1>4, <1>5, <1>6, <1>7, <1>8, <1>9, <1>10, Steps

-----------------------------------------------------------------------------

\* The initial states satisfy the invariant.
LEMMA InitIInv == Init => IInv
<1> SUFFICES ASSUME Init PROVE IInv
  OBVIOUS
<1>1. Filed(routingTable)
  <2>1. \A n \in Nodes : Contacts[n] \in SUBSET Members(ShardNum[n])
    BY ContactsAssumption
  <2>2. \A n \in Nodes : Contacts[n] \in SUBSET Nodes /\ Contacts[n] # None
    BY <2>1, NoneNoTable DEF Members
  <2>3. routingTable \in Tables
    <3>1. \A n \in Nodes, s \in Shards :
            (IF s = ShardNum[n] THEN Contacts[n] ELSE None) \in (SUBSET Nodes) \cup {None}
      BY <2>2
    <3> QED BY <3>1 DEF Init, Tables
  <2>4. \A n \in Nodes, s \in Shards :
          routingTable[n][s] = IF s = ShardNum[n] THEN Contacts[n] ELSE None
    BY DEF Init
  <2>5. \A n \in Nodes, s \in Shards : Table(routingTable, n, s) \subseteq Members(s)
    BY <2>1, <2>4 DEF Table
  <2> QED BY <2>2, <2>3, <2>4, <2>5, ShardOf DEF Filed
<1>2. net = {} /\ putting = {} /\ forwarding = {} /\ joining = {} /\ failed = {}
        /\ sent = {} /\ died = {} /\ stopped = {}
  BY DEF Init
<1>3. TypeOK
  <2>1. queued \in [Nodes -> [DataTypes -> 0..ChanelSize]]
    <3>1. \A S : \A n \in Nodes : (IF n \in S THEN Backlog ELSE 0) \in 0..ChanelSize
      BY BoundsAssumption
    <3>2. PICK S \in SUBSET Nodes :
            queued = [n \in Nodes |-> [d \in DataTypes |-> IF n \in S THEN Backlog ELSE 0]]
      BY DEF Init
    <3> QED BY <3>1, <3>2
  <2>2. /\ delivered \in [Nodes -> [Messages -> Nat]]
        /\ seenMessages \in [Nodes -> SUBSET {MessageID(m) : m \in Messages}]
    BY DEF Init
  <2> QED BY <1>1, <1>2, <2>1, <2>2 DEF TypeOK, Filed, Tables
<1>4. Placed /\ Sourced
  BY <1>1, <1>2 DEF Init, Placed, Sourced, Underway
<1>5. PutMarked /\ DeliveredMarked /\ MarksBacked
  BY <1>2 DEF Init, PutMarked, DeliveredMarked, MarksBacked
<1> QED BY <1>3, <1>4, <1>5 DEF IInv

\* The invariant holds of every behaviour.
THEOREM Invariance == Spec => []IInv
<1>1. IInv /\ [Next]_vars => IInv'
  BY PlacedStep, TypeStep, SourcedStep, MarksStep DEF IInv, Marks
<1> QED BY <1>1, InitIInv, PTL DEF Spec

\* Type correctness of the broadcast.
THEOREM TypeCorrect == Spec => []TypeOK
<1>1. IInv => TypeOK
  BY DEF IInv
<1> QED BY <1>1, Invariance, PTL

\* The shards stay apart: tables, copies and deliveries keep to their shard.
THEOREM ShardsKeptApart == Spec => []ShardsApart
<1>1. IInv => ShardsApart
  BY DEF IInv, Placed, Underway, Filed, Addressed, DeliveredMarked, ShardsApart
<1> QED BY <1>1, Invariance, PTL

\* No handler and no join dereferences a routing table that is not there.
THEOREM TablesPresent == Spec => []TablesThere
<1>1. IInv => TablesThere
  <2> SUFFICES ASSUME IInv PROVE TablesThere
    OBVIOUS
  <2>1. \A c \in Underway : Addressed(c, routingTable) /\ c.to \in Nodes
    BY DEF IInv, Placed, Addressed, CopyType
  <2>2. Filed(routingTable) /\ \A j \in joining : Opened(j, routingTable)
    BY DEF IInv, Placed
  <2> QED BY <2>1, <2>2 DEF Addressed, Opened, Filed, TablesThere, Underway
<1> QED BY <1>1, Invariance, PTL

\* A message is put into the channel of a node at most once.
THEOREM PutAtMostOnce == Spec => []PutOnce
<1>1. IInv => PutOnce
  BY DEF IInv, TypeOK, DeliveredMarked, PutOnce
<1> QED BY <1>1, Invariance, PTL

\* A mark stands for a message of the shard that has come through or is in a
\* handler about to put it, whatever ids the messages have: a node that ignores a
\* message as seen has that message or one with the same id.
THEOREM MarksStandForMessages == Spec => []MarksBacked
<1>1. IInv => MarksBacked
  BY DEF IInv
<1> QED BY <1>1, Invariance, PTL
-----------------------------------------------------------------------------
\* What NoneLeftOut needs: how far copies have come, and whom a node sends them to.

\* The TTL of a new message is at least the number of members of a shard.  Both
\* are 5 in main.
LongTTL ==
  \A s \in Shards : IsFiniteSet(Members(s)) /\ Cardinality(Members(s)) <= InitialTTL

\* The nodes that have put a message into their channel: as many, at least, as
\* any copy of it has hops behind it, since each forwards it once.  The goroutine
\* that is to forward a copy belongs to one more of them.
Hearers(m) == {n \in Nodes : delivered[n][m] > 0}
Hops ==
  /\ \A c \in net \cup putting : InitialTTL - c.ttl <= Cardinality(Hearers(c.msg))
  /\ \A c \in forwarding : InitialTTL - c.ttl + 1 <= Cardinality(Hearers(c.msg))

\* A node keeps its first contacts until it joins its own shard again.
Knows == \A n \in Nodes : ~Rejoined(n) => Contacts[n] \subseteq Table(routingTable, n, ShardNum[n])

Journey == Hops /\ Knows /\ NoneLeftOut

\* What NoneLeftOut says of a node n with message m and its contact x.
Passed(n, x, m) ==
  \/ \E k \in Namesakes(m) : Reached(x, k)
  \/ \E c \in net : c.sender = n /\ c.to = x /\ c.msg = m
  \/ \E c \in forwarding : c.to = n /\ c.msg = m
  \/ Failed(n, x, m)
HasSent(n, m) == n = m.sender \/ delivered[n][m] > 0

LEMMA NoneLeftOutIs ==
  NoneLeftOut <=>
    \A m \in sent : \A n \in Nodes \ stopped :
      m.dataType = "consensus" /\ HasSent(n, m) /\ ~Rejoined(n) =>
        \A x \in Contacts[n] \ (stopped \cup {m.sender}) : Passed(n, x, m)
BY DEF NoneLeftOut, HasSent, Passed

\* Those who have put a message are finitely many members of its target shard.
LEMMA HearersFew ==
  ASSUME IInv, LongTTL, NEW m \in Messages
  PROVE  /\ Hearers(m) \subseteq Members(m.targetShard)
         /\ IsFiniteSet(Hearers(m)) /\ Cardinality(Hearers(m)) \in Nat
<1>1. Hearers(m) \subseteq Members(m.targetShard)
  BY DEF IInv, DeliveredMarked, Hearers, Members
<1>2. IsFiniteSet(Members(m.targetShard))
  BY MessageOf DEF LongTTL
<1> QED BY <1>1, <1>2, FS_Subset, FS_CardinalityType

\* A copy that is about to be put has TTL left: the members that have the message
\* are not all, for its receiver is not one of them.
LEMMA TTLLeft ==
  ASSUME IInv, LongTTL, Hops, NEW c \in putting
  PROVE  c.ttl > 0
<1> DEFINE M == Members(c.msg.targetShard)
           D == Hearers(c.msg)
<1>1. /\ c.msg \in Messages /\ c.to \in Nodes /\ c.ttl \in 0..InitialTTL
      /\ c.msg.targetShard = ShardNum[c.to] /\ c.msg.targetShard \in Shards
  BY CopyIs, ShardOf DEF Underway
<1>2. c.to \in M /\ c.to \notin D
  BY <1>1, ShardOf DEF IInv, PutMarked, Hearers
<1>3. D \subseteq M \ {c.to} /\ Cardinality(D) \in Nat
  BY <1>1, <1>2, HearersFew
<1>4. IsFiniteSet(M) /\ Cardinality(M) <= InitialTTL
  BY <1>1 DEF LongTTL
<1>5. InitialTTL - c.ttl <= Cardinality(D)
  BY DEF Hops
<1> HIDE DEF M, D
<1>6. /\ IsFiniteSet(M \ {c.to}) /\ Cardinality(M \ {c.to}) = Cardinality(M) - 1
      /\ Cardinality(M) \in Nat
  BY <1>2, <1>4, FS_RemoveElement, FS_CardinalityType
<1>7. Cardinality(D) <= Cardinality(M) - 1
  BY <1>3, <1>6, FS_Subset
<1> QED BY <1>1, <1>3, <1>4, <1>5, <1>6, <1>7, BoundsAssumption

-----------------------------------------------------------------------------

LEMMA InitJourney == Init => Journey
<1> SUFFICES ASSUME Init PROVE Journey
  OBVIOUS
<1>1. Hops /\ NoneLeftOut
  BY DEF Init, Hops, NoneLeftOut
<1>2. Knows
  <2> SUFFICES ASSUME NEW n \in Nodes
               PROVE  Contacts[n] \subseteq Table(routingTable, n, ShardNum[n])
    BY DEF Knows
  <2>1. Contacts[n] \in SUBSET Nodes /\ Contacts[n] # None
    BY ContactsAssumption, NoneNoTable DEF Members
  <2> QED BY <2>1, ShardOf DEF Init, Table
<1> QED BY <1>1, <1>2 DEF Journey

\* A copy that is put makes its receiver one more node that has the message, and
\* a forwarded copy has one hop more behind it than the one it was made of.
LEMMA HopsStep ==
  ASSUME IInv, LongTTL, Hops, [Next]_vars
  PROVE  Hops'
<1>0. \A c \in Underway :
        c.to \in Nodes /\ c.msg \in Messages /\ c.ttl \in 0..InitialTTL
  BY CopyIs
<1> DEFINE Count(m) == Cardinality(Hearers(m))
<1>1. \A m \in Messages : Count(m) \in Nat
  BY HearersFew
<1>2. ASSUME UNCHANGED delivered,
             \A c \in net' \cup putting' :
               c \in net \cup putting \/ InitialTTL - c.ttl <= Count(c.msg),
             forwarding' \subseteq forwarding
      PROVE  Hops'
  <2>1. \A m : Hearers(m)' = Hearers(m)
    BY <1>2 DEF Hearers
  <2> QED BY <1>2, <2>1 DEF Hops
<1>3. ASSUME UNCHANGED delivered, net' \cup putting' \subseteq net \cup putting,
             forwarding' \subseteq forwarding
      PROVE  Hops'
  BY <1>2, <1>3
<1>4. ASSUME NEW m \in Messages, UNCHANGED handling,
             net' = net \cup Copies(m, InitialTTL, m.sender,
                                    Table(routingTable, m.sender, m.targetShard))
      PROVE  Hops'
  <2>1. \A c \in net' : c \in net \/ (c.msg = m /\ c.ttl = InitialTTL)
    BY <1>4 DEF Copies
  <2>2. UNCHANGED <<putting, forwarding, delivered>>
    BY <1>4 DEF handling
  <2> HIDE DEF Count
  <2> QED BY <1>1, <1>2, <2>1, <2>2, BoundsAssumption
<1>5. ASSUME NEW m \in Messages, Broadcast(m) \/ Join(m) PROVE Hops'
  BY <1>3, <1>4, <1>5 DEF Broadcast, Join, handling
<1>6. ASSUME NEW j \in joining, NEW x \in Nodes, BroadcastToShard(j) \/ Meet(j, x) \/ FailToJoin(j, x)
      PROVE  Hops'
  <2>1. j.msg \in Messages
    BY DEF IInv, Placed, Opened
  <2> QED BY <1>3, <1>4, <1>6, <2>1 DEF BroadcastToShard, Meet, FailToJoin, handling
<1>7. ASSUME NEW c \in net, HandleBroadcast(c) \/ Lose(c) PROVE Hops'
  BY <1>3, <1>7 DEF HandleBroadcast, Lose, handling
<1>8. ASSUME NEW c \in putting, Put(c) PROVE Hops'
  <2> DEFINE D == Hearers(c.msg)
  <2>1. net' = net /\ putting' \subseteq putting /\ forwarding' \subseteq forwarding \cup {c}
    BY <1>8 DEF Put, Alive
  <2>2. /\ c.to \in Nodes /\ c.msg \in Messages /\ c.to \notin D
        /\ \A n \in Nodes, m \in Messages :
             delivered'[n][m] > 0 <=> delivered[n][m] > 0 \/ (n = c.to /\ m = c.msg)
    BY <1>8, PutDelivers DEF Hearers
  <2>3. /\ Hearers(c.msg)' = D \cup {c.to}
        /\ \A m \in Messages : m # c.msg => Hearers(m)' = Hearers(m)
    BY <2>2 DEF Hearers
  <2>4. IsFiniteSet(D) /\ Cardinality(D) \in Nat
    BY <2>2, HearersFew
  <2> HIDE DEF D
  <2>5. Cardinality(Hearers(c.msg)') = Cardinality(D) + 1
    BY <2>2, <2>3, <2>4, FS_AddElement
  <2>6. /\ Cardinality(Hearers(c.msg)') = Count(c.msg) + 1
        /\ \A m \in Messages : m # c.msg => Cardinality(Hearers(m)') = Count(m)
    BY <2>3, <2>5 DEF D
  <2>7. /\ \A d \in net \cup putting : InitialTTL - d.ttl <= Count(d.msg)
        /\ \A d \in forwarding : InitialTTL - d.ttl + 1 <= Count(d.msg)
    BY DEF Hops
  <2> HIDE DEF Count
  <2>8. \A d \in net' \cup putting' : InitialTTL - d.ttl <= Cardinality(Hearers(d.msg)')
    BY <1>0, <1>1, <2>1, <2>6, <2>7, BoundsAssumption DEF Underway
  <2>9. \A d \in forwarding' : InitialTTL - d.ttl + 1 <= Cardinality(Hearers(d.msg)')
    BY <1>0, <1>1, <2>1, <2>6, <2>7, BoundsAssumption DEF Underway
  <2> QED BY <2>8, <2>9 DEF Hops
<1>9. ASSUME NEW c \in forwarding, Forward(c) PROVE Hops'
  <2>1. /\ UNCHANGED <<putting, delivered>> /\ forwarding' \subseteq forwarding
        /\ net' = net \cup forwardBroadcast(c)
    BY <1>9 DEF Forward
  <2>2. \A d \in forwardBroadcast(c) : d.msg = c.msg /\ d.ttl = c.ttl - 1
    BY DEF forwardBroadcast, Copies
  <2>3. InitialTTL - c.ttl + 1 <= Count(c.msg)
    BY DEF Hops
  <2> HIDE DEF Count
  <2>4. \A d \in forwardBroadcast(c) : InitialTTL - d.ttl <= Count(d.msg)
    BY <1>0, <1>1, <2>2, <2>3, BoundsAssumption DEF Underway
  <2> QED BY <1>2, <2>1, <2>4
<1>10. ASSUME NEW n \in Nodes, NEW d \in DataTypes, Stop(n) \/ Take(n, d) PROVE Hops'
  <2>1. net' \subseteq net /\ UNCHANGED <<putting, forwarding, delivered>>
    BY <1>10 DEF Stop, Take, handling
  <2> QED BY <1>3, <2>1
<1>11. ASSUME NEW n \in stopped, Die(n) PROVE Hops'
  BY <1>3, <1>11 DEF Die
<1>12. CASE UNCHANGED vars
  BY <1>3, <1>12 DEF vars, handling
<1> QED BY <1>5, <1>6, <1>7, <1>8, <1>9, <1>10, <1>11, <1>12, Steps

\* Once a node has joined its own shard again, it has.
LEMMA RejoinedKept ==
  ASSUME IInv, [Next]_vars, NEW n, Rejoined(n)
  PROVE  Rejoined(n)'
<1> DEFINE msgs == sent \cup {j.msg : j \in joining}
<1>1. ASSUME msgs \subseteq msgs' PROVE Rejoined(n)'
  BY <1>1 DEF Rejoined
<1>2. ASSUME sent \subseteq sent', joining \subseteq joining' PROVE Rejoined(n)'
  BY <1>1, <1>2
<1>3. ASSUME NEW j \in joining, sent' = sent \cup {j.msg}, joining' = joining \ {j}
      PROVE  Rejoined(n)'
  BY <1>1, <1>3
<1>4. ASSUME NEW j \in joining, NEW k, k.msg = j.msg, sent' = sent,
             joining' = (joining \ {j}) \cup {k}
      PROVE  Rejoined(n)'
  BY <1>1, <1>4
<1>5. ASSUME NEW m \in Messages, Broadcast(m) \/ Join(m) PROVE Rejoined(n)'
  BY <1>2, <1>5 DEF Broadcast, Join
<1>6. ASSUME NEW j \in joining, NEW x \in Nodes, BroadcastToShard(j) \/ Meet(j, x) \/ FailToJoin(j, x)
      PROVE  Rejoined(n)'
  <2>1. CASE BroadcastToShard(j) \/ FailToJoin(j, x)
    BY <1>3, <2>1 DEF BroadcastToShard, FailToJoin
  <2>2. CASE Meet(j, x)
    <3> DEFINE k == [j EXCEPT !.met = @ \cup {x}]
    <3>1. sent' = sent /\ joining' = (joining \ {j}) \cup {k}
      BY <2>2 DEF Meet
    <3>2. k.msg = j.msg
      BY DEF IInv, Placed, Opened
    <3> HIDE DEF k
    <3> QED BY <1>4, <3>1, <3>2
  <2> QED BY <1>6, <2>1, <2>2
<1>7. ASSUME NEW c \in net, HandleBroadcast(c) \/ Lose(c) PROVE Rejoined(n)'
  BY <1>2, <1>7 DEF HandleBroadcast, Lose
<1>8. ASSUME NEW c \in putting, Put(c) PROVE Rejoined(n)'
  BY <1>2, <1>8 DEF Put
<1>9. ASSUME NEW c \in forwarding, Forward(c) PROVE Rejoined(n)'
  BY <1>2, <1>9 DEF Forward
<1>10. ASSUME NEW k \in Nodes, NEW d \in DataTypes, Stop(k) \/ Take(k, d) PROVE Rejoined(n)'
  BY <1>2, <1>10 DEF Stop, Take
<1>11. ASSUME NEW k \in stopped, Die(k) PROVE Rejoined(n)'
  BY <1>2, <1>11 DEF Die
<1>12. CASE UNCHANGED vars
  BY <1>2, <1>12 DEF vars
<1> QED BY <1>5, <1>6, <1>7, <1>8, <1>9, <1>10, <1>11, <1>12, Steps

\* Tables only grow, but for that of a node which joins its own shard.
LEMMA KnowsStep ==
  ASSUME IInv, Knows, [Next]_vars
  PROVE  Knows'
<1> SUFFICES ASSUME NEW n \in Nodes, ~Rejoined(n)'
             PROVE  Contacts[n] \subseteq Table(routingTable', n, ShardNum[n])
  BY DEF Knows
<1>1. Contacts[n] \subseteq Table(routingTable, n, ShardNum[n])
  BY RejoinedKept DEF Knows
<1>2. CASE Wider(routingTable, routingTable')
  BY <1>1, <1>2, ShardOf DEF Wider
<1>3. ASSUME NEW m \in Messages, Join(m),
             routingTable' = Refiled(routingTable, m.sender, m.targetShard, {})
      PROVE  Contacts[n] \subseteq Table(routingTable', n, ShardNum[n])
  <2>1. n # m.sender \/ ShardNum[n] # m.targetShard
    <3> DEFINE k == [msg |-> m, met |-> {}]
    <3>1. m.dataType = "shard" /\ k \in joining' /\ k.msg = m
      BY <1>3 DEF Join
    <3> HIDE DEF k
    <3> QED BY <3>1 DEF Rejoined
  <2>2. {} \in SUBSET Members(m.targetShard) /\ Filed(routingTable)
    BY DEF IInv, Placed
  <2>3. Table(routingTable', n, ShardNum[n]) = Table(routingTable, n, ShardNum[n])
    BY <1>3, <2>1, <2>2, ShardOf, MessageOf, RefiledIs
  <2> QED BY <1>1, <2>3
<1> QED BY <1>2, <1>3, TableStep DEF TablesGrow

\* A copy is made for everyone who takes connections.
LEMMA CopyMade ==
  ASSUME NEW m, NEW ttl, NEW n, NEW S, NEW x \in S \ stopped
  PROVE  \E c \in Copies(m, ttl, n, S) : c.sender = n /\ c.to = x /\ c.msg = m
<1> DEFINE c == [msg |-> m, ttl |-> ttl, sender |-> n, senderShard |-> ShardNum[n], to |-> x]
<1>1. c \in Copies(m, ttl, n, S)
  BY DEF Copies
<1> QED BY <1>1

LEMMA NoneLeftOutStep ==
  ASSUME LongTTL, IInv, Journey, [Next]_vars
  PROVE  NoneLeftOut'
<1> DEFINE Concerns(n, x, m) ==
      /\ m \in sent /\ m.dataType = "consensus" /\ HasSent(n, m) /\ ~Rejoined(n)
      /\ n \in Nodes \ stopped /\ x \in Contacts[n] \ (stopped \cup {m.sender})
<1>1. \A n, x, m : Concerns(n, x, m) => Passed(n, x, m)
  BY NoneLeftOutIs DEF Journey
<1>2. \A n \in Nodes : Contacts[n] \in SUBSET Members(ShardNum[n])
  BY ContactsAssumption
<1>3. sent \subseteq Messages /\ died \subseteq stopped
  BY DEF IInv, TypeOK
<1>4. ASSUME NEW n, NEW x, NEW m, Concerns(n, x, m)
      PROVE  /\ n \in Nodes /\ x \in Nodes /\ x # n /\ m \in Messages
             /\ ShardNum[n] = m.targetShard /\ ShardNum[x] = m.targetShard
  <2>1. n \in Nodes /\ m \in Messages /\ x \in Contacts[n]
    BY <1>3, <1>4
  <2>2. x \in Nodes /\ x # n /\ ShardNum[x] = ShardNum[n]
    BY <1>2, <2>1, ContactsAssumption DEF Members
  <2>3. ShardNum[n] = m.targetShard
    <3>1. CASE n = m.sender
      BY <1>4, <2>1, <3>1, MessagesAssumption
    <3>2. CASE delivered[n][m] > 0
      BY <2>1, <3>2 DEF IInv, DeliveredMarked
    <3> QED BY <1>4, <3>1, <3>2 DEF HasSent
  <2> QED BY <2>1, <2>2, <2>3
<1>5. \A m : m \in sent => m \in Namesakes(m)
  BY DEF Namesakes
<1> HIDE DEF Concerns
\* Steps by which nobody comes to have a message.
<1>6. ASSUME sent \subseteq sent', stopped \subseteq stopped',
             \A m \in sent' \ sent : m.dataType # "consensus", UNCHANGED delivered,
             \A n, x, m : Concerns(n, x, m) /\ {n, x} \cap stopped' = {} => Passed(n, x, m)'
      PROVE  NoneLeftOut'
  <2> SUFFICES ASSUME NEW m \in sent', NEW n \in Nodes \ stopped', m.dataType = "consensus",
                      HasSent(n, m)', ~Rejoined(n)',
                      NEW x \in Contacts[n] \ (stopped' \cup {m.sender})
               PROVE  Passed(n, x, m)'
    BY DEF NoneLeftOut, HasSent, Passed
  <2>1. ~Rejoined(n)
    BY RejoinedKept
  <2>2. HasSent(n, m) /\ m \in sent
    BY <1>6 DEF HasSent
  <2>3. Concerns(n, x, m)
    BY <1>6, <2>1, <2>2 DEF Concerns
  <2> QED BY <1>6, <2>3
\* Steps that take copies and handlers only from nodes which have stopped.
<1>7. ASSUME sent \subseteq sent', \A m \in sent' \ sent : m.dataType # "consensus",
             stopped \subseteq stopped', UNCHANGED delivered, failed \subseteq failed',
             \A c \in putting \cup forwarding : c.to \notin stopped' =>
               (c \in putting => c \in putting') /\ (c \in forwarding => c \in forwarding'),
             \A c \in net : {c.sender, c.to} \cap stopped' = {} => c \in net' \cup failed'
      PROVE  NoneLeftOut'
  <2>1. ASSUME NEW n, NEW x, NEW m, Concerns(n, x, m), {n, x} \cap stopped' = {}
        PROVE  Passed(n, x, m)'
    <3>1. CASE \E k \in Namesakes(m) : Reached(x, k)
      BY <1>7, <2>1, <3>1 DEF Passed, Namesakes, Reached
    <3>2. CASE \E c \in net : c.sender = n /\ c.to = x /\ c.msg = m
      BY <1>7, <2>1, <3>2 DEF Passed, Failed
    <3>3. CASE \E c \in forwarding : c.to = n /\ c.msg = m
      BY <1>7, <2>1, <3>3 DEF Passed
    <3>4. CASE Failed(n, x, m)
      BY <1>7, <3>4 DEF Passed, Failed
    <3> QED BY <1>1, <2>1, <3>1, <3>2, <3>3, <3>4 DEF Passed
  <2> QED BY <1>6, <1>7, <2>1
<1>8. ASSUME NEW m \in Messages, Broadcast(m) PROVE NoneLeftOut'
  <2>1. /\ m \notin sent /\ sent' = sent \cup {m} /\ m.dataType = "consensus"
        /\ UNCHANGED <<putting, forwarding, failed, delivered, stopped>>
        /\ net' = net \cup Copies(m, InitialTTL, m.sender, Table(routingTable, m.sender, m.targetShard))
    BY <1>8 DEF Broadcast, handling
  <2> SUFFICES ASSUME NEW k \in sent', NEW n \in Nodes \ stopped, k.dataType = "consensus",
                      HasSent(n, k), ~Rejoined(n)',
                      NEW x \in Contacts[n] \ (stopped \cup {k.sender})
               PROVE  Passed(n, x, k)'
    BY <2>1 DEF NoneLeftOut, HasSent, Passed
  <2>2. ~Rejoined(n)
    BY RejoinedKept
  <2>3. CASE k \in sent
    <3>1. Passed(n, x, k)
      BY <1>1, <2>2, <2>3 DEF Concerns
    <3> QED BY <2>1, <3>1 DEF Passed, Namesakes, Reached, Failed
  <2>4. CASE k = m
    <3>1. n = m.sender
      BY <2>1, <2>4 DEF HasSent, IInv, Sourced
    <3>2. x \in Table(routingTable, n, ShardNum[n]) /\ m.targetShard = ShardNum[n]
      BY <2>2, <3>1, <2>1, MessagesAssumption DEF Journey, Knows
    <3>3. \E c \in net' : c.sender = n /\ c.to = x /\ c.msg = m
      <4>1. x \in Table(routingTable, m.sender, m.targetShard) \ stopped
        BY <3>1, <3>2
      <4> QED BY <2>1, <3>1, <4>1, CopyMade
    <3> QED BY <2>4, <3>3 DEF Passed
  <2> QED BY <2>1, <2>3, <2>4
<1>9. ASSUME NEW m \in Messages, Join(m) PROVE NoneLeftOut'
  <2>1. UNCHANGED <<sent, net, failed, putting, forwarding, delivered, stopped>>
    BY <1>9 DEF Join, handling
  <2> QED BY <1>7, <2>1
<1>10. ASSUME NEW j \in joining, NEW x \in Nodes, BroadcastToShard(j) \/ Meet(j, x) \/ FailToJoin(j, x)
       PROVE  NoneLeftOut'
  <2>1. /\ sent' = sent \/ sent' = sent \cup {j.msg}
        /\ net \subseteq net' /\ UNCHANGED <<failed, putting, forwarding, delivered, stopped>>
    BY <1>10 DEF BroadcastToShard, Meet, FailToJoin, handling
  <2>2. j.msg.dataType # "consensus"
    BY DEF IInv, Placed, Opened
  <2> QED BY <1>7, <2>1, <2>2
<1>11. ASSUME NEW c \in net, HandleBroadcast(c) PROVE NoneLeftOut'
  <2>1. /\ net' = net \ {c} /\ putting \subseteq putting'
        /\ MessageID(c.msg) \in seenMessages[c.to] \/ c \in putting'
        /\ UNCHANGED <<sent, failed, forwarding, delivered, stopped, died>>
    BY <1>11 DEF HandleBroadcast
  <2>2. ASSUME NEW n, NEW x, NEW m, Concerns(n, x, m) PROVE Passed(n, x, m)'
    <3>1. /\ x \in Nodes \ died /\ m \in sent /\ ShardNum[x] = m.targetShard
      BY <1>3, <1>4, <2>2 DEF Concerns
    <3>2. (\E k \in Namesakes(m) : Reached(x, k)) => Passed(n, x, m)'
      BY <2>1 DEF Passed, Namesakes, Reached
    <3>3. CASE c.sender = n /\ c.to = x /\ c.msg = m
      <4>1. CASE c \in putting'
        <5>1. Reached(x, m)' /\ m \in Namesakes(m)'
          BY <2>1, <3>1, <3>3, <4>1 DEF Reached, Namesakes
        <5> QED BY <5>1 DEF Passed
      <4>2. CASE MessageID(m) \in seenMessages[x]
        <5>1. \E k \in Namesakes(m) : Reached(x, k)
          BY <3>1, <4>2 DEF IInv, MarksBacked, Namesakes
        <5> QED BY <3>2, <5>1
      <4> QED BY <2>1, <3>3, <4>1, <4>2
    <3>4. CASE ~(c.sender = n /\ c.to = x /\ c.msg = m)
      BY <1>1, <2>1, <2>2, <3>2, <3>4 DEF Passed, Failed
    <3> QED BY <3>3, <3>4
  <2> QED BY <1>6, <2>1, <2>2
<1>12. ASSUME NEW c \in net, Lose(c) PROVE NoneLeftOut'
  <2>1. /\ net' = net \ {c} /\ failed' = failed \cup {c}
        /\ UNCHANGED <<sent, putting, forwarding, delivered, stopped>>
    BY <1>12 DEF Lose, handling
  <2> QED BY <1>7, <2>1
<1>13. ASSUME NEW c \in putting, Put(c) PROVE NoneLeftOut'
  <2>1. /\ putting' = putting \ {c} /\ forwarding' = forwarding \cup {c}
        /\ UNCHANGED <<sent, net, failed, stopped>>
    BY <1>13, TTLLeft DEF Put, Alive, Journey
  <2>2. /\ c.to \in Nodes /\ c.msg \in Messages
        /\ \A n \in Nodes, m \in Messages :
             delivered'[n][m] > 0 <=> delivered[n][m] > 0 \/ (n = c.to /\ m = c.msg)
    BY <1>13, PutDelivers
  <2> SUFFICES ASSUME NEW m \in sent, NEW n \in Nodes \ stopped, m.dataType = "consensus",
                      HasSent(n, m)', ~Rejoined(n)',
                      NEW x \in Contacts[n] \ (stopped \cup {m.sender})
               PROVE  Passed(n, x, m)'
    BY <2>1 DEF NoneLeftOut, HasSent, Passed
  <2>3. ~Rejoined(n)
    BY RejoinedKept
  <2>4. x \in Nodes /\ m \in Messages
    BY <1>2, <1>3 DEF Members
  <2>5. CASE HasSent(n, m)
    <3>1. Passed(n, x, m)
      BY <1>1, <2>3, <2>5 DEF Concerns
    <3>2. \A k \in Messages : Reached(x, k) => Reached(x, k)'
      BY <2>1, <2>2, <2>4 DEF Reached
    <3>3. CASE \E k \in Namesakes(m) : Reached(x, k)
      BY <1>3, <2>1, <3>2, <3>3 DEF Passed, Namesakes
    <3> QED BY <2>1, <3>1, <3>3 DEF Passed, Failed
  <2>6. CASE n = c.to /\ m = c.msg
    BY <2>1, <2>6 DEF Passed
  <2>7. HasSent(n, m) \/ (n = c.to /\ m = c.msg)
    BY <2>2, <2>4 DEF HasSent
  <2> QED BY <2>5, <2>6, <2>7
<1>14. ASSUME NEW c \in forwarding, Forward(c) PROVE NoneLeftOut'
  <2>1. /\ forwarding' = forwarding \ {c} /\ net' = net \cup forwardBroadcast(c)
        /\ UNCHANGED <<sent, failed, putting, delivered, stopped>>
    BY <1>14 DEF Forward
  <2>2. ASSUME NEW n, NEW x, NEW m, Concerns(n, x, m) PROVE Passed(n, x, m)'
    <3>1. CASE n = c.to /\ m = c.msg
      <4>1. /\ x \notin stopped /\ x # m.sender /\ x # n /\ m \in sent
            /\ x \in Table(routingTable, n, m.targetShard)
        BY <1>4, <2>2 DEF Concerns, Journey, Knows
      <4>2. CASE x = c.sender
        <5>1. delivered[x][m] > 0
          BY <3>1, <4>1, <4>2 DEF IInv, Sourced, Underway
        <5>2. Reached(x, m)' /\ m \in Namesakes(m)'
          BY <2>1, <4>1, <5>1 DEF Reached, Namesakes
        <5> QED BY <5>2 DEF Passed
      <4>3. CASE x # c.sender
        <5>1. x \in Others(c) \ stopped
          BY <3>1, <4>1, <4>3 DEF Others
        <5>2. \E d \in forwardBroadcast(c) : d.sender = n /\ d.to = x /\ d.msg = m
          BY <3>1, <5>1, CopyMade DEF forwardBroadcast
        <5> QED BY <2>1, <5>2 DEF Passed
      <4> QED BY <4>2, <4>3
    <3>2. CASE ~(n = c.to /\ m = c.msg)
      BY <1>1, <2>1, <2>2, <3>2 DEF Passed, Namesakes, Reached, Failed
    <3> QED BY <3>1, <3>2
  <2> QED BY <1>6, <2>1, <2>2
<1>15. ASSUME NEW n \in Nodes, NEW d \in DataTypes, Take(n, d) PROVE NoneLeftOut'
  <2>1. UNCHANGED <<sent, net, failed, putting, forwarding, delivered, stopped>>
    BY <1>15 DEF Take
  <2> QED BY <1>7, <2>1
<1>16. ASSUME NEW n \in Nodes, Stop(n) PROVE NoneLeftOut'
  <2>1. /\ stopped' = stopped \cup {n}
        /\ UNCHANGED <<sent, failed, delivered, putting, forwarding>>
        /\ \A c \in net : c.to # n => c \in net'
    BY <1>16 DEF Stop, handling
  <2> QED BY <1>7, <2>1
<1>17. ASSUME NEW n \in stopped, Die(n) PROVE NoneLeftOut'
  <2>1. /\ UNCHANGED <<sent, failed, delivered, stopped>>
        /\ putting' = {c \in putting : c.to # n}
        /\ forwarding' = {c \in forwarding : c.to # n}
        /\ \A c \in net : c.sender # n /\ c.to # n => c \in net'
    BY <1>17 DEF Die
  <2> QED BY <1>7, <1>17, <2>1
<1>18. CASE UNCHANGED vars
  <2>1. UNCHANGED <<sent, net, failed, putting, forwarding, delivered, stopped>>
    BY <1>18 DEF vars, handling
  <2> QED BY <1>7, <2>1
<1>19. ASSUME NEW n \in Nodes, NEW d \in DataTypes, Stop(n) \/ Take(n, d) PROVE NoneLeftOut'
  BY <1>15, <1>16, <1>19
<1> QED BY <1>8, <1>9, <1>10, <1>11, <1>12, <1>13, <1>14, <1>17, <1>18, <1>19, Steps

\* No message of consensus is lost between a node that has it and one of its
\* contacts, but by the failure of the one call that carries it, in any network,
\* with channels full or not, ids repeated or not, bootstrap nodes stopped and
\* dying and nodes joining, if a message starts with a TTL of at least the number
\* of members of a shard: what handleMessage, forwardBroadcast and putData owe a
\* shard before its goroutines have run to their end.
THEOREM ContactsReached ==
  ASSUME LongTTL
  PROVE  Spec => []NoneLeftOut
<1>1. Init => Journey
  BY InitJourney
<1>2. IInv /\ Journey /\ [Next]_vars => Journey'
  BY HopsStep, KnowsStep, NoneLeftOutStep DEF Journey
<1>3. Journey => NoneLeftOut
  BY DEF Journey
<1> QED BY <1>1, <1>2, <1>3, Invariance, PTL DEF Spec

\* Where no goroutine of a node with a Run loop has a copy of a message, or of one
\* with the same id, to receive, to put or to forward, and none has joined its own
\* shard again, all to which contacts and calls that worked lead have one of them.
HeardAtRest ==
  \A m \in sent :
    /\ m.dataType = "consensus"
    /\ \A c \in net \cup putting \cup forwarding : c.msg \in Namesakes(m) => c.to \notin Runners
    /\ \A n \in Runners : ~Rejoined(n)
    => \A n \in Linked(m) \ {m.sender} : \E k \in Namesakes(m) : delivered[n][k] > 0

\* When the goroutines of the nodes have come to their end, every running node to
\* which contacts and calls that worked lead from the sender has its message of
\* consensus, or what it takes for it, whatever the bootstrap nodes did: what
\* Broadcast and forwardBroadcast are for.
THEOREM LinkedHear ==
  ASSUME LongTTL
  PROVE  Spec => []HeardAtRest
<1>1. IInv /\ NoneLeftOut => HeardAtRest
  <2> SUFFICES ASSUME IInv, NoneLeftOut, NEW m \in sent, m.dataType = "consensus",
                      \A c \in Underway : c.msg \in Namesakes(m) => c.to \notin Runners,
                      \A n \in Runners : ~Rejoined(n),
                      NEW n \in Linked(m) \ {m.sender}
               PROVE  \E k \in Namesakes(m) : delivered[n][k] > 0
    BY DEF HeardAtRest, Underway
  <2> DEFINE S == {k \in Runners : \E a \in Namesakes(m) : HasSent(k, a)}
  <2>0. m \in Messages /\ m \in Namesakes(m) /\ sent \subseteq Messages
    BY DEF IInv, TypeOK, Namesakes
  <2>1. m.sender \in Runners /\ m.sender \in S
    BY <2>0, MessagesAssumption DEF HasSent
  <2>2. Runners \subseteq Nodes \ stopped
    BY NodesAssumption DEF IInv, TypeOK
  <2>3. ASSUME NEW a \in Namesakes(m)
        PROVE  /\ a \in sent /\ a.dataType = "consensus" /\ a.sender = m.sender
               /\ Namesakes(a) = Namesakes(m)
    <3>1. a \in Messages /\ a \in sent /\ MessageID(a) = MessageID(m) /\ a.targetShard = m.targetShard
      BY <2>0 DEF Namesakes
    <3>2. a.dataType = "consensus" /\ a.number = m.number
      BY <2>0, <3>1, MessagesAssumption DEF MessageID, DataTypes
    <3>3. a.sender = m.sender
      BY <2>0, <3>1, <3>2, MessagesAssumption
    <3> QED BY <3>1, <3>2, <3>3 DEF Namesakes
  <2>4. ASSUME NEW k \in S, NEW x \in Contacts[k] \cap Runners,
               \A a \in Namesakes(m) : ~Failed(k, x, a)
        PROVE  x \in S
    <3>1. CASE x = m.sender
      BY <2>1, <3>1
    <3>2. CASE x # m.sender
      <4>1. PICK a \in Namesakes(m) : HasSent(k, a)
        OBVIOUS
      <4>2. /\ a \in sent /\ a.dataType = "consensus" /\ a.sender = m.sender
            /\ Namesakes(a) = Namesakes(m)
        BY <2>3
      <4>3. Passed(k, x, a)
        BY <2>2, <3>2, <4>1, <4>2, NoneLeftOutIs
      <4>4. PICK b \in Namesakes(m) : Reached(x, b)
        BY <2>4, <4>2, <4>3 DEF Passed, Underway
      <4>5. delivered[x][b] > 0
        BY <4>4 DEF Reached, Underway
      <4> QED BY <4>5 DEF HasSent
    <3> QED BY <3>1, <3>2
  <2>5. n \in S
    <3>1. S \in SUBSET Runners /\ m.sender \in S
      BY <2>1
    <3>2. \A k \in S : {x \in Contacts[k] \cap Runners :
                          \A a \in Namesakes(m) : ~Failed(k, x, a)} \subseteq S
      BY <2>4
    <3> HIDE DEF S
    <3> QED BY <3>1, <3>2 DEF Linked
  <2>6. PICK a \in Namesakes(m) : HasSent(n, a)
    BY <2>5
  <2> QED BY <2>3, <2>6 DEF HasSent
<1> QED BY <1>1, Invariance, ContactsReached, PTL
=============================================================================
