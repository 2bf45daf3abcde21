------------------------------- MODULE NodeLoop -------------------------------
(***************************************************************************)
(* The goroutines of one node, the primary of its shard: the Run loop of   *)
(* node/node.go, and the ones that consensus/pbft.go starts for its own    *)
(* messages (go n.Broadcast, go n.HandleX).                                *)
(*                                                                         *)
(* The Run loop is the only reader of the channels between the parts of    *)
(* the node, and it writes to all of them: a send on a full channel waits  *)
(* for ever if it is made by the loop, or by a goroutine whose mutex the   *)
(* loop waits for.  A handler holds the mutex until it returns.  It is one *)
(* step, unless it sends while it holds it: Propose does in Broadcast, and *)
(* HandleCommit in execute.                                                *)
(*                                                                         *)
(* The network's two channels are filled by others, in any order, so the   *)
(* loop takes any message that was sent.  Peers answer what was announced  *)
(* to them.  That Broadcast numbers its message first is in MessageIDs.    *)
(***************************************************************************)
EXTENDS Integers, Sequences, FiniteSets

CONSTANTS
  Self,         \* this node
  Peers,        \* the other replicas of the shard
  Heard,        \* per key: those of them whose messages of it reach this node
  Required,     \* the quorum, 2f + 1
  Requests,     \* the requests that clients of this node and other shards have for it
  FromMain,     \*   those of clients, whom the main program stands for
  Fanout,       \* per request: the shard messages its execution gives rise to,
  MaxFanout,    \*   which are at most this many
  ChanelSize,   \* what a channel holds
  None          \* nobody holds the mutex

MaxRequests == Cardinality(Requests)
Keys == 1..MaxRequests

\* A quorum needs others.
ASSUME NodesAssumption ==
  /\ IsFiniteSet(Peers) /\ Self \notin Peers
  /\ Required \in Nat \ {0, 1}
ASSUME RequestsAssumption ==
  /\ IsFiniteSet(Requests) /\ FromMain \subseteq Requests
  /\ Heard \in [Keys -> SUBSET Peers]
  /\ MaxFanout \in Nat /\ Fanout \in [Requests -> 0..MaxFanout]

\* A request is broadcast in three messages, of which two are in the channel at
\* a time: the commit needs peers, and peers the pre-prepare.  When the loop
\* sends the first one of the last request, those of all others may be there.
ASSUME RoomAssumption ==
  /\ ChanelSize \in Nat \ {0}
  /\ ChanelSize >= 2 * (MaxRequests - 1) + 1
  /\ ChanelSize >= MaxFanout * MaxRequests

\* The goroutines: the Run loop, and one for each key and task.
Run == [task |-> "Run", key |-> 0]
Goroutine(task, k) == [task |-> task, key |-> k]
Handlers == {"HandlePreprepare", "HandlePrepare", "HandleCommit"}
Broadcasters == {"BroadcastPrepare", "BroadcastCommit"}
Goroutines == [task : Handlers \cup Broadcasters, key : Keys]
Threads == {Run} \cup Goroutines
ASSUME NoneAssumption == None \notin Threads

Messages == [task : {"HandlePrepare", "HandleCommit"}, key : Keys, from : Peers]
Broadcasts == [type : {"PREPREPARE", "PREPARE", "COMMIT"}, key : Keys]

VARIABLES
  pending,      \* the requests that nobody has proposed here yet
  forward,      \* channel of requests from the orchestration to consensus
  log,          \* the requests numbered: Sequence is its length
  prepares,     \* per key: whose prepares were counted
  commits,      \* per key: whose commits were counted
  mu,           \* the goroutine that holds the mutex, or None
  pc,           \* per goroutine: what it does next
  item,         \* the request or message the Run loop is on
  left,         \* the shard messages the Run loop has yet to hand over
  broadcasts,   \* channel of broadcasts from consensus to the network
  announced,    \* the keys whose pre-prepare has left the node
  results,      \* channel of executed keys from consensus to the orchestration
  shardMessages,\* how many wait in the channel from the orchestration to the network
  answered      \* the requests whose results the orchestration has had

consensus == <<log, prepares, commits>>
channels == <<forward, broadcasts, results, shardMessages>>
vars == <<pending, consensus, mu, pc, item, left, channels, announced, answered>>

Init ==
  /\ pending = Requests
  /\ log = <<>>
  /\ prepares = [k \in Keys |-> {}]
  /\ commits = [k \in Keys |-> {}]
  /\ mu = None
  /\ pc = [t \in Threads |-> IF t = Run THEN "select" ELSE "idle"]
  /\ item = None
  /\ left = 0
  /\ forward = <<>> /\ broadcasts = <<>> /\ results = <<>> /\ shardMessages = 0
  /\ announced = {}
  /\ answered = {}

-----------------------------------------------------------------------------
(* Run: one action for each case of the select.  The methods called there  *)
(* wait for the mutex or for room in a channel in the actions below.       *)

Selected(next) == pc[Run] = "select" /\ pc' = [pc EXCEPT ![Run] = next]

\* A peer that is heard answers what was announced to it, until its message is
\* counted.
Coming(m) ==
  /\ m.from \in Heard[m.key]
  /\ m.key \in announced
  /\ m.from \notin (IF m.task = "HandlePrepare" THEN prepares ELSE commits)[m.key]

\* A message of a peer comes from the network; the handler takes the mutex.
TakeConsensus(m) ==
  /\ Selected("lock")
  /\ Coming(m)
  /\ item' = m
  /\ UNCHANGED <<pending, consensus, mu, left, channels, announced, answered>>

\* A shard message comes from the network: the orchestration passes its request
\* on.
TakeShard(q) ==
  /\ Selected("forward")
  /\ q \in pending \ FromMain
  /\ pending' = pending \ {q}
  /\ item' = q
  /\ UNCHANGED <<consensus, mu, left, channels, announced, answered>>

\* A request goes from the orchestration to consensus; Propose takes the mutex.
TakeForward ==
  /\ Selected("propose")
  /\ forward # <<>>
  /\ forward' = Tail(forward)
  /\ item' = Head(forward)
  /\ UNCHANGED <<pending, consensus, mu, left, broadcasts, results,
                 shardMessages, announced, answered>>

\* A result goes to the orchestration, which may have shard messages to send.
TakeResult ==
  /\ results # <<>>
  /\ results' = Tail(results)
  /\ LET q == log[Head(results)] IN
     /\ Selected(IF Fanout[q] = 0 THEN "select" ELSE "fanout")
     /\ left' = Fanout[q]
     /\ answered' = answered \cup {q}
  /\ UNCHANGED <<pending, consensus, mu, item, forward, broadcasts,
                 shardMessages, announced>>

\* A broadcast goes to the network, which sends on goroutines of its own.
TakeBroadcast ==
  /\ Selected("select")
  /\ broadcasts # <<>>
  /\ broadcasts' = Tail(broadcasts)
  /\ announced' = IF Head(broadcasts).type = "PREPREPARE"
                    THEN announced \cup {Head(broadcasts).key} ELSE announced
  /\ UNCHANGED <<pending, consensus, mu, item, left, forward, results,
                 shardMessages, answered>>

\* A shard message goes to the network.
TakeShardBroadcast ==
  /\ Selected("select")
  /\ shardMessages > 0
  /\ shardMessages' = shardMessages - 1
  /\ UNCHANGED <<pending, consensus, mu, item, left, forward, broadcasts,
                 results, announced, answered>>

\* Linear.Propose sends the request, once the channel has room.
Forward ==
  /\ pc[Run] = "forward" /\ Len(forward) < ChanelSize
  /\ forward' = Append(forward, item)
  /\ pc' = [pc EXCEPT ![Run] = "select"]
  /\ item' = None
  /\ UNCHANGED <<pending, consensus, mu, left, broadcasts, results,
                 shardMessages, announced, answered>>

\* handleCommitVote sends one shard message after the other.
BroadcastToShard ==
  /\ pc[Run] = "fanout" /\ shardMessages < ChanelSize
  /\ shardMessages' = shardMessages + 1
  /\ left' = left - 1
  /\ pc' = [pc EXCEPT ![Run] = IF left = 1 THEN "select" ELSE "fanout"]
  /\ UNCHANGED <<pending, consensus, mu, item, forward, broadcasts, results,
                 announced, answered>>

\* PBFT.Propose gets the mutex and goes into Broadcast with the pre-prepare.
Propose ==
  /\ pc[Run] = "propose" /\ mu = None
  /\ mu' = Run
  /\ log' = Append(log, item)
  /\ pc' = [pc EXCEPT ![Run] = "send"]
  /\ item' = None
  /\ UNCHANGED <<pending, prepares, commits, left, channels, announced, answered>>

\* The main program proposes a request on a goroutine of its own.
ProposeFromMain(q) ==
  /\ pc[Run] # "dead"
  /\ q \in pending \cap FromMain /\ Len(forward) < ChanelSize
  /\ pending' = pending \ {q}
  /\ forward' = Append(forward, q)
  /\ UNCHANGED <<consensus, mu, pc, item, left, broadcasts, results,
                 shardMessages, announced, answered>>

-----------------------------------------------------------------------------
(* PBFT.Broadcast, at the Run loop or on a goroutine.                      *)

BroadcastType(t) ==
  CASE t.task = "Run" -> "PREPREPARE"
    [] t.task = "BroadcastCommit" -> "COMMIT"
    [] OTHER -> "PREPARE"

\* Faulty: the pre-prepare is built before Sequence is increased.
BroadcastEarly(t) == [type |-> BroadcastType(t), key |-> IF t = Run THEN Len(log) - 1 ELSE t.key]

\* What goroutine t broadcasts.
Broadcast(t) == [type |-> BroadcastType(t), key |-> IF t = Run THEN Len(log) ELSE t.key]

\* Goroutines that start, with the one that ends or goes back to its select.
Return(t, started) ==
  pc' = [u \in Threads |->
           CASE u = t -> IF t = Run THEN "select" ELSE "done"
             [] u \in started -> IF u.task \in Broadcasters THEN "send" ELSE "lock"
             [] OTHER -> pc[u]]

\* The broadcast goes into the channel, once it has room.  Then Propose starts
\* the handler of its own pre-prepare, and the mutex is free.
Send(t) ==
  /\ pc[t] = "send" /\ Len(broadcasts) < ChanelSize
  /\ broadcasts' = Append(broadcasts, Broadcast(t))
  /\ Return(t, IF t = Run THEN {Goroutine("HandlePreprepare", Len(log))} ELSE {})
  /\ mu' = IF mu = t THEN None ELSE mu
  /\ UNCHANGED <<pending, consensus, item, left, forward, results,
                 shardMessages, announced, answered>>

-----------------------------------------------------------------------------
(* The handlers of PBFT, at the Run loop for a message of a peer, on a     *)
(* goroutine for the node's own.                                           *)

Message(t) == IF t = Run THEN item ELSE [task |-> t.task, key |-> t.key, from |-> Self]

\* Faulty: the handler broadcasts the prepare itself.
HandlePreprepareSending(t) ==
  /\ pc[t] = "lock" /\ mu = None
  /\ Message(t).task = "HandlePreprepare"
  /\ mu' = t
  /\ pc' = [pc EXCEPT ![t] = "send", ![Goroutine("HandlePrepare", t.key)] = "lock"]
  /\ UNCHANGED <<pending, consensus, item, left, channels, announced, answered>>

\* The primary takes its own pre-prepare.
HandlePreprepare(t) ==
  /\ pc[t] = "lock" /\ mu = None
  /\ Message(t).task = "HandlePreprepare"
  /\ Return(t, {Goroutine("BroadcastPrepare", t.key), Goroutine("HandlePrepare", t.key)})
  /\ UNCHANGED <<pending, consensus, mu, item, left, channels, announced, answered>>

\* A prepare is counted; the one that completes the quorum starts the commit.
HandlePrepare(t) ==
  LET m == Message(t) k == m.key IN
  /\ pc[t] = "lock" /\ mu = None
  /\ m.task = "HandlePrepare"
  /\ prepares' = [prepares EXCEPT ![k] = @ \cup {m.from}]
  /\ Return(t, IF m.from \notin prepares[k] /\ Cardinality(prepares'[k]) = Required
                 THEN {Goroutine("BroadcastCommit", k), Goroutine("HandleCommit", k)} ELSE {})
  /\ item' = IF t = Run THEN None ELSE item
  /\ UNCHANGED <<pending, log, commits, mu, left, channels, announced, answered>>

\* With the quorum, execute sends the result, which it may have to wait for.
HandleCommit(t) ==
  LET m == Message(t) k == m.key IN
  /\ pc[t] = "lock" /\ mu = None
  /\ m.task = "HandleCommit"
  /\ commits' = [commits EXCEPT ![k] = @ \cup {m.from}]
  /\ IF m.from \notin commits[k] /\ Cardinality(commits'[k]) = Required
       THEN mu' = t /\ pc' = [pc EXCEPT ![t] = "execute"] /\ item' = item
       ELSE mu' = mu /\ Return(t, {}) /\ item' = IF t = Run THEN None ELSE item
  /\ UNCHANGED <<pending, log, prepares, left, channels, announced, answered>>

\* The node has handled its own pre-prepare.
HasPreprepare(k) == pc[Goroutine("HandlePreprepare", k)] = "done"

\* Without the pre-prepare execute panics: the node dies, with all its goroutines.
Panic(t) ==
  /\ pc[t] = "execute" /\ ~HasPreprepare(Message(t).key)
  /\ pc' = [u \in Threads |-> "dead"]
  /\ UNCHANGED <<pending, consensus, mu, item, left, channels, announced, answered>>

\* Faulty: the mutex is left locked.
executeLocked(t) ==
  /\ pc[t] = "execute" /\ HasPreprepare(Message(t).key) /\ Len(results) < ChanelSize
  /\ results' = Append(results, Message(t).key)
  /\ Return(t, {})
  /\ item' = IF t = Run THEN None ELSE item
  /\ UNCHANGED <<pending, consensus, mu, left, forward, broadcasts, shardMessages,
                 announced, answered>>

\* The result goes into its channel, once it has room, and the mutex is free.
execute(t) ==
  /\ pc[t] = "execute" /\ HasPreprepare(Message(t).key) /\ Len(results) < ChanelSize
  /\ results' = Append(results, Message(t).key)
  /\ mu' = None
  /\ Return(t, {})
  /\ item' = IF t = Run THEN None ELSE item
  /\ UNCHANGED <<pending, consensus, left, forward, broadcasts,
                 shardMessages, announced, answered>>

Handle(t) == HandlePreprepare(t) \/ HandlePrepare(t) \/ HandleCommit(t) \/ execute(t)

RunLoop ==
  \/ \E m \in Messages : TakeConsensus(m)
  \/ \E q \in Requests : TakeShard(q)
  \/ TakeForward \/ TakeResult \/ TakeBroadcast \/ TakeShardBroadcast
  \/ Forward \/ BroadcastToShard \/ Propose \/ Handle(Run)

Work ==
  \/ RunLoop
  \/ \E t \in Goroutines : Handle(t)
  \/ \E t \in Threads : Send(t)
  \/ \E q \in Requests : ProposeFromMain(q)

Next == Work \/ \E t \in Threads : Panic(t)

Spec == Init /\ [][Next]_vars

-----------------------------------------------------------------------------

TypeOK ==
  /\ pending \subseteq Requests /\ answered \subseteq Requests
  /\ forward \in Seq(Requests) /\ log \in Seq(Requests) /\ Len(log) <= MaxRequests
  /\ prepares \in [Keys -> SUBSET (Peers \cup {Self})]
  /\ commits \in [Keys -> SUBSET (Peers \cup {Self})]
  /\ mu \in Threads \cup {None}
  /\ pc \in [Threads -> {"select", "forward", "propose", "fanout", "idle", "lock", "execute",
                        "send", "done", "dead"}]
  /\ item \in Requests \cup Messages \cup {None}
  /\ left \in 0..MaxFanout /\ shardMessages \in 0..ChanelSize
  /\ broadcasts \in Seq(Broadcasts) /\ announced \subseteq 1..Len(log)
  /\ results \in Seq(1..Len(log))
  /\ \A n \in {Len(forward), Len(broadcasts), Len(results)} : n <= ChanelSize

\* A goroutine waits for room in a channel.
Blocked(t) ==
  \/ pc[t] = "send" /\ Len(broadcasts) = ChanelSize
  \/ pc[t] = "execute" /\ Len(results) = ChanelSize

\* The Run loop never waits on itself: no channel is full when it sends, and the
\* mutex it waits for is not held by a goroutine that waits for a channel.
NeverStuck ==
  /\ pc[Run] = "forward" => Len(forward) < ChanelSize
  /\ pc[Run] = "fanout" => shardMessages < ChanelSize
  /\ ~Blocked(Run)
  /\ pc[Run] \in {"lock", "propose"} => \A t \in Threads : mu = t => ~Blocked(t)

\* A goroutine is not waiting for the mutex or for room in a channel.
Ready(t) ==
  \/ pc[t] = "send" /\ Len(broadcasts) < ChanelSize
  \/ pc[t] = "execute" /\ Len(results) < ChanelSize
  \/ pc[t] \in {"lock", "propose"} /\ mu = None

\* Nor is the Run loop, and in its select it has something to take.
LoopReady ==
  \/ pc[Run] = "forward" /\ Len(forward) < ChanelSize
  \/ pc[Run] = "fanout" /\ shardMessages < ChanelSize
  \/ /\ pc[Run] = "select"
     /\ \/ forward # <<>> \/ results # <<>> \/ broadcasts # <<>> \/ shardMessages > 0
        \/ pending \ FromMain # {} \/ \E m \in Messages : Coming(m)

\* No goroutine of the node, which has not died, can take a step.
AtRest == pc[Run] # "dead" /\ ~LoopReady /\ \A t \in Threads : ~Ready(t)

\* The node comes to rest only when every request proposed at it has been
\* executed and its result is back at the orchestration: no goroutine is left
\* waiting for the mutex or for room, whatever the order they ran in.
AnsweredAtRest == AtRest => Requests \ pending \subseteq answered
=============================================================================
