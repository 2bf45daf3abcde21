-------------------------------- MODULE Flood --------------------------------
(***************************************************************************)
(* How a message reaches the nodes of a shard: Broadcast, BroadcastToShard *)
(* and the BROADCAST case of handleMessage in network/kademlia.go, with    *)
(* the contacts a node learns on the way and the channels it fills.        *)
(*                                                                         *)
(* A copy sent is one TCP connection: handleConnection and handleMessage   *)
(* run on a goroutine of their own at the receiver, and mark the message   *)
(* seen under a lock before they put it into a channel, which blocks while *)
(* the channel is full.  Only then they forward it, and the answer lets    *)
(* the sender of the copy learn who received it.                           *)
(*                                                                         *)
(* The shards here have fewer members than a bucket holds (20), so a       *)
(* routing table is the set of its contacts.  A join empties the table of  *)
(* its shard and fills it while the other goroutines of the node go on;    *)
(* whom it meets is told in Discovery.                                     *)
(*                                                                         *)
(* Stop closes the listener of a bootstrap node, so connections are        *)
(* refused from then on, and its channels: a handler that has a message    *)
(* for one panics.  Its process ends with that, or later, when the program *)
(* that called Stop does, and with it what it had yet to send.             *)
(***************************************************************************)
EXTENDS Integers

CONSTANTS
  Nodes,         \* all nodes of all shards
  Runners,       \* the nodes with a Run loop: all but the bootstrap nodes
  Stoppable,     \* the bootstrap nodes that may be stopped
  Lossy,         \* <<s, r>>: a call of s to r may fail on the way or back
  ShardNum,      \* the shard of every node
  Messages,      \* [sender, dataType, targetShard, number, kind]; the number of
                 \*   two of one replica may be the same (see MessageIDs)
  Contacts,      \* per node: its contacts in its shard after Setup
  InitialTTL,    \* the TTL of a new message (the code has 5)
  ChanelSize,    \* what a channel holds (config.json has 1000)
  Backlog,       \* earlier messages that wait in the channels of some nodes
  None           \* no routing table for a shard

Shards == {ShardNum[n] : n \in Nodes}
Members(s) == {n \in Nodes : ShardNum[n] = s}
DataTypes == {"consensus", "shard"}

ASSUME NodesAssumption ==
  /\ Runners \subseteq Nodes /\ Stoppable \subseteq Nodes \ Runners
  /\ \A S \in SUBSET Nodes : S # None
ASSUME MessagesAssumption ==
  \A m \in Messages :
    /\ m.sender \in Runners
    /\ m.dataType \in DataTypes
    /\ m.targetShard \in Shards
    /\ m.dataType = "consensus" =>
         m.targetShard = ShardNum[m.sender] /\ m.number # ""
    /\ \A k \in Messages :
         {m.dataType, k.dataType} = {"consensus"} /\ m.number = k.number => m.sender = k.sender
ASSUME ContactsAssumption ==
  \A n \in Nodes : Contacts[n] \subseteq Members(ShardNum[n]) \ {n}
ASSUME BoundsAssumption ==
  InitialTTL \in Nat /\ ChanelSize \in Nat \ {0} /\ Backlog \in 0..ChanelSize

\* PBFT.Broadcast numbers its messages; BroadcastToShard sets no MessageID.
MessageID(m) == IF m.dataType = "consensus" THEN m.number ELSE ""

VARIABLES
  routingTable,  \* per node and shard: contacts, or None
  joining,       \* joins for a message under way: [msg, met], met those pinged
  sent,          \* the messages broadcast, or dropped by a join that failed
  net,           \* copies on their way: [msg, ttl, sender, senderShard, to]
  failed,        \* the copies lost on their way
  seenMessages,  \* per node: the MessageIDs marked as seen
  putting,       \* the copies marked by a handler that has yet to put them
  forwarding,    \* the copies put that a goroutine has yet to forward
  queued,        \* per node and channel: how many messages wait in it
  delivered,     \* per node and message: how often it was put in a channel
  stopped,       \* the nodes whose listener and channels Stop has closed
  died           \* those of them whose process has ended

handling == <<seenMessages, putting, forwarding, queued, delivered>>
vars == <<routingTable, joining, sent, net, failed, handling, stopped, died>>

Init ==
  /\ routingTable =
       [n \in Nodes |-> [s \in Shards |-> IF s = ShardNum[n] THEN Contacts[n] ELSE None]]
  /\ joining = {}
  /\ sent = {}
  /\ net = {}
  /\ failed = {}
  /\ seenMessages = [n \in Nodes |-> {}]
  /\ putting = {}
  /\ forwarding = {}
  /\ \E S \in SUBSET Nodes :
       queued = [n \in Nodes |-> [d \in DataTypes |-> IF n \in S THEN Backlog ELSE 0]]
  /\ delivered = [n \in Nodes |-> [m \in Messages |-> 0]]
  /\ stopped = {}
  /\ died = {}

-----------------------------------------------------------------------------

\* The contacts under a shard.  None have been filed while there is no table.
Table(rt, n, s) == IF rt[n][s] = None THEN {} ELSE rt[n][s]

\* The routing tables rt after node n has filed another node x under shard s.
Learn(rt, n, s, x) == [rt EXCEPT ![n][s] = Table(rt, n, s) \cup ({x} \ {n})]

\* Copies of a message from n to those of S that take connections.
Copies(m, ttl, n, S) ==
  [msg : {m}, ttl : {ttl}, sender : {n}, senderShard : {ShardNum[n]}, to : S \ stopped]

\* The Run loop of n is not in a join.
Free(n) == \A j \in joining : j.msg.sender # n

\* The Run loop broadcasts a message of consensus to its shard.  What is
\* marked as seen is a fresh id and not that of the message.
Broadcast(m) ==
  /\ m.dataType = "consensus" /\ m \notin sent
  /\ Free(m.sender)
  /\ sent' = sent \cup {m}
  /\ net' = net \cup Copies(m, InitialTTL, m.sender, Table(routingTable, m.sender, m.targetShard))
  /\ UNCHANGED <<routingTable, joining, failed, handling, stopped, died>>

\* Faulty: a join takes the table away, to make it when there are contacts.
JoinWithout(m) ==
  /\ m.dataType = "shard" /\ m \notin sent
  /\ Free(m.sender)
  /\ joining' = joining \cup {[msg |-> m, met |-> {}]}
  /\ routingTable' = [routingTable EXCEPT ![m.sender][m.targetShard] = None]
  /\ UNCHANGED <<sent, net, failed, handling, stopped, died>>

\* The Run loop has a message of the orchestration.  It joins the target shard,
\* beginning with a new table there.
Join(m) ==
  /\ m.dataType = "shard" /\ m \notin sent
  /\ Free(m.sender)
  /\ joining' = joining \cup {[msg |-> m, met |-> {}]}
  /\ routingTable' = [routingTable EXCEPT ![m.sender][m.targetShard] = {}]
  /\ UNCHANGED <<sent, net, failed, handling, stopped, died>>

\* Whom a join has to meet, and who is next: the bootstrap node, then the others.
Unmet(j) == Members(j.msg.targetShard) \ (j.met \cup {j.msg.sender})
Upcoming(j) == IF Unmet(j) \subseteq Runners THEN Unmet(j) ELSE Unmet(j) \ Runners

\* A ping: both learn of each other.
Meet(j, x) ==
  LET n == j.msg.sender
      s == j.msg.targetShard
  IN
  /\ x \in Upcoming(j) \ stopped
  /\ joining' = (joining \ {j}) \cup {[j EXCEPT !.met = @ \cup {x}]}
  /\ routingTable' = Learn(Learn(routingTable, n, s, x), x, ShardNum[n], n)
  /\ UNCHANGED <<sent, net, failed, handling, stopped, died>>

\* A ping that fails ends the join, and the message is dropped.
FailToJoin(j, x) ==
  /\ x \in Upcoming(j)
  /\ joining' = joining \ {j}
  /\ sent' = sent \cup {j.msg}
  /\ routingTable' = Learn(routingTable, j.msg.sender, j.msg.targetShard, x)
  /\ UNCHANGED <<net, failed, handling, stopped, died>>

\* After the join the message is broadcast to the contacts it has left.
BroadcastToShard(j) ==
  LET m == j.msg IN
  /\ Unmet(j) = {}
  /\ joining' = joining \ {j}
  /\ sent' = sent \cup {m}
  /\ net' = net \cup Copies(m, InitialTTL, m.sender, Table(routingTable, m.sender, m.targetShard))
  /\ UNCHANGED <<routingTable, failed, handling, stopped, died>>

\* The answer to a copy: its sender learns of the node that received it, unless
\* the answer is lost.
Acknowledge(rt, c) == Learn(rt, c.sender, ShardNum[c.to], c.to)
Answered(rt, c) == {Acknowledge(rt, c)} \cup {t \in {rt} : <<c.sender, c.to>> \in Lossy}

\* Faulty: nothing marks the message.
HandleUnmarked(c) ==
  /\ c \in net
  /\ net' = net \ {c}
  /\ routingTable' = Learn(routingTable, c.to, c.senderShard, c.sender)
  /\ putting' = putting \cup {c}
  /\ UNCHANGED <<joining, sent, failed, seenMessages, forwarding, queued, delivered, stopped, died>>

\* Faulty: a copy with no TTL left is marked and dropped.
HandleAlive(c) ==
  /\ c \in net
  /\ net' = net \ {c}
  /\ routingTable' = Learn(routingTable, c.to, c.senderShard, c.sender)
  /\ seenMessages' = [seenMessages EXCEPT ![c.to] = @ \cup {MessageID(c.msg)}]
  /\ putting' = IF MessageID(c.msg) \notin seenMessages[c.to] /\ c.ttl > 0
                  THEN putting \cup {c} ELSE putting
  /\ UNCHANGED <<joining, sent, failed, forwarding, queued, delivered, stopped, died>>

\* A copy arrives: its sender becomes a contact, under the shard it names, and
\* the message is marked, unless its id was marked already.
HandleBroadcast(c) ==
  LET met == Learn(routingTable, c.to, c.senderShard, c.sender)
      id == MessageID(c.msg)
  IN
  /\ c \in net
  /\ net' = net \ {c}
  /\ IF id \in seenMessages[c.to]
       THEN /\ routingTable' \in Answered(met, c)
            /\ UNCHANGED <<seenMessages, putting>>
       ELSE /\ routingTable' = met
            /\ seenMessages' = [seenMessages EXCEPT ![c.to] = @ \cup {id}]
            /\ putting' = putting \cup {c}
  /\ UNCHANGED <<joining, sent, failed, forwarding, queued, delivered, stopped, died>>

\* The call that carries a copy fails on the way, and nobody tries again.
Lose(c) ==
  /\ c \in net /\ <<c.sender, c.to>> \in Lossy
  /\ net' = net \ {c}
  /\ failed' = failed \cup {c}
  /\ UNCHANGED <<routingTable, joining, sent, handling, stopped, died>>

\* The nodes a copy is forwarded to: contacts in the target shard, but not the
\* node it came from.
Others(c) == Table(routingTable, c.to, c.msg.targetShard) \ {c.sender, c.to}

\* Faulty: the shard of the first sender is handed on.
ForwardSenderShard(c) ==
  {[copy EXCEPT !.senderShard = c.senderShard] :
     copy \in Copies(c.msg, c.ttl - 1, c.to, Others(c))}

\* What a node forwards of a copy it has put in its channel.
forwardBroadcast(c) == Copies(c.msg, c.ttl - 1, c.to, Others(c))

\* Faulty: one hop is missing; the TTL is not looked at.
Last(c) == {d \in {c} : d.ttl > 1}
Always(c) == {c}

\* The copy c, if it has TTL left.
Alive(c) == {d \in {c} : d.ttl > 0}

\* putData finds room in the channel; a goroutine is started to forward what has
\* TTL left, and the copy is answered.
Put(c) ==
  /\ c \in putting /\ c.to \notin stopped
  /\ queued[c.to][c.msg.dataType] < ChanelSize
  /\ putting' = putting \ {c}
  /\ queued' = [queued EXCEPT ![c.to][c.msg.dataType] = @ + 1]
  /\ delivered' = [delivered EXCEPT ![c.to][c.msg] = @ + 1]
  /\ forwarding' = forwarding \cup Alive(c)
  /\ routingTable' \in Answered(routingTable, c)
  /\ UNCHANGED <<joining, sent, net, failed, seenMessages, stopped, died>>

\* That goroutine reads the table as it is by then.
Forward(c) ==
  /\ c \in forwarding
  /\ forwarding' = forwarding \ {c}
  /\ net' = net \cup forwardBroadcast(c)
  /\ UNCHANGED <<routingTable, joining, sent, failed, seenMessages, putting, queued,
                 delivered, stopped, died>>

\* The Run loop takes a message from a channel.  A bootstrap node has none.
Take(n, d) ==
  /\ n \in Runners /\ Free(n)
  /\ queued[n][d] > 0
  /\ queued' = [queued EXCEPT ![n][d] = @ - 1]
  /\ UNCHANGED <<routingTable, joining, sent, net, failed, seenMessages, putting, forwarding,
                 delivered, stopped, died>>

\* Stop: from now on connections are refused, like some that have not been
\* accepted yet.  Handlers of those that have go on.
Stop(n) ==
  /\ n \in Stoppable \ stopped
  /\ stopped' = stopped \cup {n}
  /\ \E refused \in SUBSET {c \in net : c.to = n} : net' = net \ refused
  /\ UNCHANGED <<routingTable, joining, sent, failed, handling, died>>

\* The process of n ends: its handlers are gone, and what its other goroutines
\* have not sent may be.
Die(n) ==
  /\ died' = died \cup {n}
  /\ putting' = {d \in putting : d.to # n}
  /\ forwarding' = {d \in forwarding : d.to # n}
  /\ \E unsent \in SUBSET {d \in net : d.sender = n} :
       net' = {d \in net \ unsent : d.to # n}
  /\ UNCHANGED <<routingTable, joining, sent, failed, seenMessages, queued, delivered, stopped>>

\* putData finds the channel closed and panics.
PutClosed(c) == c \in putting /\ c.to \in stopped /\ Die(c.to)

\* The program that stopped its bootstrap node comes to its end.
Exit(n) == n \in stopped \ died /\ Die(n)

Handle(n) ==
  \/ \E c \in net : c.to = n /\ HandleBroadcast(c)
  \/ \E c \in putting : c.to = n /\ (Put(c) \/ PutClosed(c))
  \/ \E c \in forwarding : c.to = n /\ Forward(c)

\* The next step of the join that the Run loop of n is in.
GoOnJoining(n) ==
  \E j \in joining :
    /\ j.msg.sender = n
    /\ BroadcastToShard(j) \/ \E x \in Members(j.msg.targetShard) : Meet(j, x) \/ FailToJoin(j, x)

Next ==
  \/ \E m \in Messages : Broadcast(m) \/ Join(m)
  \/ \E c \in net : Lose(c)
  \/ \E n \in Nodes :
       Handle(n) \/ GoOnJoining(n) \/ Stop(n) \/ Exit(n) \/ \E d \in DataTypes : Take(n, d)

Spec == Init /\ [][Next]_vars

\* Goroutines and Run loops keep running, a call ends in an answer or an error,
\* and only Stop makes a node refuse connections.
FairSpec ==
  /\ Spec
  /\ \A n \in Nodes :
       WF_vars(Handle(n)) /\ WF_vars(GoOnJoining(n)) /\ \A d \in DataTypes : WF_vars(Take(n, d))

-----------------------------------------------------------------------------

CopyType ==
  [msg : Messages, ttl : 0..InitialTTL, sender : Nodes, senderShard : Shards, to : Nodes]

TypeOK ==
  /\ routingTable \in [Nodes -> [Shards -> (SUBSET Nodes) \cup {None}]]
  /\ sent \subseteq Messages
  /\ joining \subseteq [msg : Messages, met : SUBSET Nodes]
  /\ net \cup failed \cup putting \cup forwarding \subseteq CopyType
  /\ seenMessages \in [Nodes -> SUBSET {MessageID(m) : m \in Messages}]
  /\ queued \in [Nodes -> [DataTypes -> 0..ChanelSize]]
  /\ delivered \in [Nodes -> [Messages -> Nat]]
  /\ died \subseteq stopped /\ stopped \subseteq Stoppable

\* The shards stay apart: whatever copies a node has received and whoever has
\* joined, the contacts it files under a shard are members of that shard, so
\* no message is on its way to, or put at, a node outside its target.
ShardsApart ==
  /\ \A n \in Nodes, s \in Shards : Table(routingTable, n, s) \subseteq Members(s)
  /\ \A c \in net \cup putting \cup forwarding : ShardNum[c.to] = c.msg.targetShard
  /\ \A n \in Nodes, m \in Messages : delivered[n][m] > 0 => ShardNum[n] = m.targetShard

\* A routing table is there when it is used, while joins replace tables: the
\* receiver of a copy has one for the target shard, its sender one for the shard
\* of the receiver, who answers, and a node that joins one for what it joins.
TablesThere ==
  /\ \A c \in net \cup putting \cup forwarding :
       /\ routingTable[c.to][c.msg.targetShard] # None
       /\ routingTable[c.sender][ShardNum[c.to]] # None
  /\ \A j \in joining : routingTable[j.msg.sender][j.msg.targetShard] # None

\* Copies of one message that arrive at the same time on several connections
\* put it in the channel once.
PutOnce == \A n \in Nodes, m \in Messages : delivered[n][m] <= 1

\* The message is in the channel of n, or in a handler about to put it there.
Reached(n, m) == delivered[n][m] > 0 \/ \E c \in putting : c.to = n /\ c.msg = m

\* What was sent to a shard under the id of m: m, and what is taken for m.
Namesakes(m) ==
  {k \in sent : MessageID(k) = MessageID(m) /\ k.targetShard = m.targetShard}

\* No mark without a message: when a node ignores a copy because the id is
\* marked, that message or one with the same id has got through to it, even if
\* the handler that marked it is still waiting for room in the channel.
MarksBacked ==
  \A n \in Nodes \ died : \A id \in seenMessages[n] :
    \E m \in sent : MessageID(m) = id /\ m.targetShard = ShardNum[n] /\ Reached(n, m)

\* A node that ignores a message because its id is marked has the message: the
\* id is unique, as the comment on the field says.
SeenMeansReceived ==
  \A n \in Nodes \ died : \A m \in sent :
    ShardNum[n] = m.targetShard /\ n # m.sender /\ MessageID(m) \in seenMessages[n] =>
      Reached(n, m)

\* A node never gets its own message from the network: it marks it as seen, as
\* the comment in Broadcast says.
NotOwnMessage == \A m \in sent : delivered[m.sender][m] = 0

\* The node has joined its own shard again, which may have failed half way.
Rejoined(n) ==
  \E m \in sent \cup {j.msg : j \in joining} :
    m.sender = n /\ m.dataType = "shard" /\ m.targetShard = ShardNum[n]

\* The copy of m from n to x has failed.
Failed(n, x, m) == \E c \in failed : c.sender = n /\ c.to = x /\ c.msg = m

\* Nothing is lost between a node that has a message of consensus and a contact
\* of it, but by the failure of the one call that carries it: the contact has the
\* message, or one that it takes for it, or the copy that the node sends it is on
\* its way or about to be made.  A node makes its copies once, for the contacts
\* it has at that moment, with what TTL the first copy left it, and not for the
\* node that one came from.
NoneLeftOut ==
  \A m \in sent : \A n \in Nodes \ stopped :
    m.dataType = "consensus" /\ (n = m.sender \/ delivered[n][m] > 0) /\ ~Rejoined(n) =>
      \A x \in Contacts[n] \ (stopped \cup {m.sender}) :
        \/ \E k \in Namesakes(m) : Reached(x, k)
        \/ \E c \in net : c.sender = n /\ c.to = x /\ c.msg = m
        \/ \E c \in forwarding : c.to = n /\ c.msg = m
        \/ Failed(n, x, m)

\* The nodes with a Run loop to which contacts lead from the sender of a message,
\* over nodes with a Run loop and calls that have not failed.
Linked(m) ==
  {n \in Runners : \A S \in SUBSET Runners :
     /\ m.sender \in S
     /\ \A k \in S : {x \in Contacts[k] \cap Runners :
                        \A a \in Namesakes(m) : ~Failed(k, x, a)} \subseteq S
     => n \in S}

\* Every running node of a shard to which contacts lead gets what one of them
\* broadcasts, or what it takes for it, although a node forwards only the first
\* copy, with what TTL that has left, nobody repeats a call that failed, and a
\* bootstrap node stops forwarding once nobody empties its channel, or dies
\* between two of the copies it has to send.
EveryoneHears ==
  \A m \in Messages :
    m \in sent /\ m.dataType = "consensus" ~>
      \A n \in Linked(m) \ {m.sender} : \E k \in Namesakes(m) : delivered[n][k] > 0
=============================================================================
