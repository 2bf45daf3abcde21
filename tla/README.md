# Verification of go-byshard

TLA+ models of go-byshard, a sharded ledger in the manner of ByShard: every
shard orders requests with PBFT, a request over several shards is carried from
shard to shard by a linear orchestration, and messages are flooded over
Kademlia routing tables. The modules are translated from the Go code; TLC
checks them on small instances and TLAPS proves what matters most for every
value of the constants.

## The system

One process of `main` starts three shards of four nodes and one bootstrap node
each. A node (`node/node.go`) is three parts around one loop:

| part | state | operations |
|---|---|---|
| `PBFT` (`consensus/pbft.go`) | `Sequence`, `View`, the pre-prepares, prepares and commits received under a key "view-sequence", `stateDB`, `messageID`, one mutex | `Propose`, `Handle` and the three message handlers, `execute`, `Broadcast` |
| `Linear` (`orchestration/linear.go`) | `messages`: the shard request behind each request in progress; `isPrimary` | `Handle`, `Propose`, `HandleConsensusResult`, `handleCommitVote`, `broadcastToShard` |
| `Kademlia` (`network/kademlia.go`) | `routingTable` per shard, `seenMessages` (under a mutex), `running`, the listener | `Setup`, `Start`, `Stop`, `Join`, `Ping`, `FindNode`, the lookups, `Broadcast`, `forwardBroadcast`, `BroadcastToShard`, `Leave`, `handleMessage` |
| `RoutingTable`, `Bucket` (`network/routing_table.go`, `bucket.go`) | 160 buckets of at most 20 contacts | `AddContact`, `RemoveContact`, `FindClosestNodes`, `GetContacts` |
| `Node.Run` (`node/node.go`) | none of its own | one `select` over six channels |

The parts meet in six channels per node, each of `chanel_size` (1000) values:
consensus messages and shard messages from the network, broadcasts from
consensus and from the orchestration, requests from the orchestration to
consensus (`forward` of `Linear`), results from consensus to the orchestration
(`forward` of `PBFT`). `Run` is the only reader of all six. Consensus handlers
run on goroutines of their own under the mutex of `PBFT`; a network handler
runs on a goroutine per connection; the orchestration runs on the Run loop.

A shard request (`main.go:65-113`) has votes, commits and aborts. Its votes
are decided one after the other, each by the shard its account belongs to
(`FindShard`: first letter of the name); the primary that executes one sends
what is left to the shard of the next; the one that executes the last sends
each commit to its shard. No code produces an abort vote, and `handleAbort` is
empty.

### What is hard here, and what makes each part correct

* **Consensus.** Messages arrive in any order, any number of times, or never;
  every quorum test is an equality on the number of entries of a map, and
  nothing asks whether a replica has the pre-prepare that a prepare or a
  commit is about. Correct means: an execution rests on a quorum; each key is
  executed once and with one request everywhere; replicas that executed the
  same keys agree on every balance; a numbered request is executed at live
  replicas.
* **Orchestration.** Several shard requests interleave over the same shards,
  joins fail, messages are dropped. Correct means: a shard request is at one
  place at a time while it is voted on; no commit before all votes; nothing
  twice; requests are numbered only at home.
* **Broadcast.** Copies of one message race along different ways with
  different TTLs; a handler marks a message, then blocks on a full channel,
  then forwards; a node of another shard joins and sends in between. Correct
  means: no message outside its target shard, no copy put twice, nothing
  ignored that the node has nothing of, and everybody hears what is broadcast.
* **Run loop.** The only reader of six bounded channels writes to them too,
  and waits for a mutex whose holders write to them. Correct means: it never
  waits on itself, and what was proposed is answered before the node comes to
  rest.
* **Join and lookup.** Joins cross, fail half way, time out and are repeated;
  the table of a shard is thrown away at each. Correct means: the bootstrap
  node knows everybody that anybody knows, and a node that has joined without
  trouble knows, and is known to, those who came before it.

PROJECT.json lists every hazard of this kind at its line, with the properties
that are about it.

## The modules

| module | what it is |
|---|---|
| `ShardLog` | abstract: what consensus promises. A log of requests under keys; replicas accept and commit a key; with a quorum of both a key is executed, once per replica |
| `PBFT` | `PBFT` of every replica of a shard and the messages between them |
| `PBFT_proofs` | inductive invariants and theorems of `PBFT` and `PBFTDelivery`, balances included, and `PBFT` implements `ShardLog` |
| `PBFTDelivery` | `PBFT` with a network that delivers, except messages whose id a node has seen: what gets executed |
| `Transfer` | abstract: what the orchestration promises a client. Votes in order, each once, then commits, each once |
| `Linear` | `Linear` and the Run loop at the primary of every shard, over the log that consensus promises, where it can stop too, and the network |
| `Linear_proofs` | inductive invariant and theorems of `Linear` |
| `Transfer_proofs` | one vote at a time, and `Linear` implements `Transfer` |
| `NodeLoop` | the goroutines of one node: its Run loop, the channels, the mutex and the goroutines that `PBFT` starts |
| `NodeLoop_proofs` | inductive invariant of `NodeLoop`: the loop is never stuck |
| `NodeRest_proofs` | what `NodeLoop` keeps hold of: a node rests only when all is answered |
| `MessageIDs` | `NodeLoop` with the unlocked counter that numbers broadcasts |
| `Flood` | `Broadcast`, `BroadcastToShard`, the BROADCAST handler, joins that cross them, calls that fail, `Stop`, and what they do to routing tables, at every node of every shard |
| `Flood_proofs` | inductive invariants and theorems of `Flood` |
| `Discovery` | buckets, routing tables, `Join`, `FindNode`, `Ping` and the iterative lookup of the nodes of a shard |
| `Discovery_proofs` | the operators of tables and lookups, inductive invariants and theorems of `Discovery` |
| `Acquainted_proofs` | the nodes of a small shard get to know each other: `Acquainted` of `Discovery` |
| `MCPBFT`, `MCPBFTDelivery`, `MCLinear`, `MCNodeLoop`, `MCMessageIDs`, `MCFlood`, `MCDiscovery` | instances for TLC |

How they fit together: `Linear` uses of consensus what `ShardLog` states,
which `PBFT` is proved to implement. `Linear` and `PBFT` treat the channels of
a node as never full; `NodeLoop` shows under which condition that does no
harm. `Flood` takes the contacts after the joins as a constant; `Discovery` is
about how they come to be, and the `Kite` of `MCFlood` is one that a failed
join leaves there.

Definitions have the names of the source. A definition marked `Faulty:` is a
wrong version of the one that follows it; nothing uses it. It is there so that
a property can be seen to fail when the code is wrong in that way.

### PBFT

A handler holds the replica's mutex from entry to return, so it is one action:
`Propose`, `HandlePreprepare`, `HandlePrepare`, `HandleCommit` with `execute`
inside. What a handler hands to `go n.Broadcast(...)` or to `go
n.HandleX(...)` runs later: it joins the set `msgs`, from which any replica
that hears the sender takes it, in any order, again and again, or never (a set
that only grows is the weakest network). `Links` says who hears whom, so that
a replica that is cut off or late can be studied without more state. `stateDB`
keeps the balances and `forward` the results with the key they were executed
under. In `execute` the code panics when the key has no pre-prepare;
`panicked` is the set of replicas that died so.

Left out: `View` (nothing assigns it after `NewPBFT`, so its tests never
reject); signatures (a message is verified with the public key it carries, so
every message a handler built is accepted); the duplicate-message ids, which
only take messages away and are in `PBFTDelivery`. In `main` all nodes share
one process, and there a panic ends them all; the model gives each replica a
process of its own, as the code is plainly meant to run, so that there is
something to say about the others.

`PBFTDelivery` is for what must happen in the end. Its network hands over
every message that can reach a live replica, but one: `same` says which
messages of one replica have the same `MessageID` (finding 4), and a replica
that has handled one of such a pair ignores the other (`Ignores`).
`Coincidences` are the cases an instance has. A replica is `Impaired` for a
key when it died, when a link from the primary or to another replica is
missing, or when a message of its own about the key may be ignored; `Settled`
and `TooFew` say what is to be expected: every replica executes the key or
dies, unless those that are not impaired are no quorum.

### Linear

`messages`, `forward`, `results` and `outbox` are the map and the channels at
the primary of a shard (the methods of every other replica return at once).
Each case of the `select` in `Run` is one action: `HandleShardMessage`,
`Forward`, `HandleConsensusResult`, `BroadcastToShard`. Consensus is `log` and
`executed`: the primary numbers a request and executes positions in any order,
each once, which is what `ShardLog` allows and `PBFT_proofs` shows. Nor need
it execute what is numbered: `Panic` is finding 1 at the primary of a shard,
which dies with all it had in hand, and `Stall` a position whose counts stay
below the quorum because messages about it were ignored (finding 4) or too
many replicas died; `stalled` are those positions. The network hands a primary
the first shard message only (see *Findings*), may drop a message when the
join fails, and returns a message to its own sender only by way of another
node; `lost` is the history of what it dropped. `FindShard` keeps the byte
arithmetic of the code, and the names of accounts are any first bytes: a
primary that has to send to a shard that is not in the bootstrap list indexes
it out of range and dies (`panicked`). Only the first vote of a shard request
must have a shard, since a client proposes there. `Remainders` are the forms
that `handleCommitVote` reduces a shard request to; `TypeOK` says that nothing
else is filed or sent.

### NodeLoop and MessageIDs

`pc` says of the Run loop and of each goroutine what it does next: `select`,
wait for the mutex (`lock`, `propose`), wait for room in a channel (`forward`,
`fanout`, `send`, `execute`), or nothing more. A case of the `select` is one
action; the method it calls is one more, or two where it sends. A handler of
`PBFT` is one step, taken when the mutex is free, except where it sends while
it holds it: in `Propose`, which broadcasts at the Run loop, and in `execute`.
Goroutines are named by their task and the key, since each handler starts each
at most once a key. `Heard` says per key which peers' messages reach the node,
so that the whole committee is there, or a part that is left when one dies
between two requests. With as many peers as the quorum, their commits can be
counted before the node's own pre-prepare has been handled: `Panic` is
`execute` without it, and ends every goroutine of the node. The two channels
that the network fills are left out: the loop takes any message that a peer,
to whom the pre-prepare was announced, may have sent, once each, and any
request that another shard has for this node, so those channels may hold
anything. Messages of the node's own that come back from the network (finding
3) are left out; a handler drops them at once, as duplicates.

`RoomAssumption` is what the channels must hold for the requests in progress:
two broadcasts for every earlier request and one more, and the shard messages
of all of them. The code has 1000 places and no limit on the requests in
progress; the assumption names the limit that it needs.

`MessageIDs` adds to `NodeLoop` the field `messageID`: the id is built from
it, and `+= 1` reads and writes it, three steps of a goroutine that no mutex
covers.

### Flood

A copy on its way is `[msg, ttl, sender, senderShard, to]` in `net`.
`HandleBroadcast` is a handler up to and including the locked test-and-mark of
`seenMessages`. `Put` is the second half, from the moment its channel has
room: the message is counted as put, a goroutine is started to forward it
(`forwarding`), and the copy is answered, by which its sender learns of the
receiver. That goroutine reads the routing table when it runs (`Forward`),
which may be after a join has emptied it. The answer is filed at the moment it
is given; that a caller may file it later only delays a contact. `Take` is the
Run loop; a bootstrap node has none.

A shard message begins with a join of the target shard: `Join` puts an empty
table in the place of the one there is, `Meet` is a ping by which both sides
learn of each other, first with the bootstrap node, and `BroadcastToShard`
sends to the contacts the table then holds. `FailToJoin` is a ping that fails;
the message is dropped. Other handlers of the node run between these steps and
file and read contacts; its own Run loop is in the join (`joining`) and does
nothing else. `Lossy` are the calls that may fail: `Lose` takes the copy away,
and nobody sends it again; or the copy arrives and the answer does not
(`Answered`).

Messages of one replica may share an id (finding 4): the `Namesakes` of a
message are those that a receiver takes for it. A routing table is the set of
its contacts, since shards are smaller than a bucket; `None` is a missing
entry of the Go map. `Backlog` are earlier messages that some of the channels
hold at the start.

`Stop` closes the listener and the channels of a bootstrap node: connections
are refused from then on, a handler on its way into a channel panics
(`PutClosed`), and with it, or when the program that called `Stop` ends
(`Exit`), the process dies and what its goroutines had yet to send is lost,
any part of it.

### Discovery

An identifier is the set of its one bits, a bucket the sequence of its
contacts, a routing table a function from bucket numbers. `AddToBucket` moves
a known contact to the end, and puts a new one in the first place of a full
bucket. `ByDistance`, the sort of the code, gives each node the place after
those that come before it. A call of `sendMessage` is a record in `calls`:
made, served at the other end (`Serve`: `handleConnection` files the caller,
`handleMessage` answers), and returned (`Return`: the caller files the callee
and goes on) or failed (`Fail`, before or after it was served). `join` is
where the `Join` of a node is: the ping of the bootstrap node, the questions
of `FindNode` one by one, the ping of every node named, then the lookups, each
in rounds of `ALPHA` questions at once. A round ends when every answer is in
or given up (`TimeOut`); the answer that comes later is nobody's, but its
sender has been filed and files the callee. The pings that a lookup starts at
its end run on after it. A node joins again when its Run loop sends to its own
shard, and then starts from an empty table.

`main` sets the nodes of a shard up one after the other, in one process; nodes
in processes of their own need not wait for each other, and repeated joins
cross in `main` too, so joins cross here. The instance has both orders.

Two pings of one caller to one node under way at a time count as one. The
lookups with a random target only add contacts; `RandomTargets` is the number
of them, 0 in the instance.

## Runs

| run | checks | shows |
|---|---|---|
| `pbft_lagging` | `TypeOK`, `QuorumBehindExecution`, `FewDieOnAKey`, `LogSpec` | 4 replicas, one that nobody hears: an execution, or a death in `execute`, has a quorum behind it; one key kills at most F; every behaviour is one of `ShardLog` |
| `pbft_two_requests` | `ExecuteOnce`, `Agreement`, `Convergence` | two keys in flight in every order |
| `pbft_liveness` | `SettledAtRest`, `EventuallyExecuted` | the committee of four, everyone hears everyone, d in any order; the prepare and the commit of one of them may have one id: a numbered request is executed at every replica that does not die, and consensus does not come to rest before |
| `pbft_panic` | `NoPanic`, violated | finding 1 |
| `linear` | `TypeOK`, `HomeShard`, `OneVoteAtATime`, `TransferSpec`, `EventuallyCommitted` | three shard requests over the same three shards, two votes in a row at one shard, commits at a shard that voted, a commit for a shard that does not exist, failing joins: what is proposed reaches its last commit unless one of its messages is lost, one of its requests stalls in consensus, or the primary of one dies |
| `node_loop` | `TypeOK`, `NeverStuck`, `AnsweredAtRest` | a vote and a commit in progress at one primary, channels with just enough room, the whole committee there for the first, one replica of it gone for the second |
| `message_ids` | `UniqueIDs`, violated | finding 4 |
| `discovery` | `TypeOK`, `BootstrapKnowsAll`, `Acquainted` | a bootstrap node, a member, and two joins at once or in a row, one call of which may fail or be answered too late |
| `flood` | `ShardsApart`, `TablesThere`, `PutOnce`, `MarksBacked` | consensus in two shards, with two messages under one id, while a node of one joins the other twice to send there, and a node joins its own shard again, or they fail to |
| `flood_kite` | `TypeOK`, `NoneLeftOut`, `EveryoneHears` | a node two hops away, a call that may fail or whose answer may be lost, any channels full at the start, and a bootstrap node that may be stopped and die between two copies |
| `flood_ids` | `SeenMeansReceived`, violated | finding 2 |
| `flood_own` | `NotOwnMessage`, violated | finding 3 |

**Bounds.** `MaxSequence` bounds the keys: one key is enough for everything
about a key, since handlers of different keys share only the balances, and
`pbft_two_requests` has two for what is about several. That run has a
committee of two, whose quorum is one, so that both keys can be complete at
once in every order; the committee of `main.go` is in `pbft_lagging`. Three of
four replicas that everyone hears, and a fourth that hears everyone, are the
smallest case in which a quorum leaves a correct replica out, which is when
commits can overtake the pre-prepare. In `pbft_liveness` all four hear each
other, and d handles messages in every order, so it can die and the others
must do without it. a, b and c handle theirs phase by phase (`Orderly`,
`Place`), which keeps the instance small; that they may die too, and any
number of them, is in `SettledWhenAtRest`, which is proved for every order.
Its `Coincidences` are no pair, or the prepare and the commit of one replica.
`Linear` needs three shards for a shard request to have somewhere to come
from, go to and go wrong; `Flood` needs two shards, and in one of them a
bootstrap node and two others, for copies to meet. In `flood_kite` the node z
has an incomplete join behind it: it reached the bootstrap node and y, but not
x, who broadcasts. It hears from y, or from the bootstrap node, which may be
full, refuse, or die. A TTL of 2 is the least with which y still passes on a
copy that came to it over the bootstrap node (the code has 5). The call that
may fail there is the one from x to y, on the way to z; no call fails in
`flood`, where joins do. Two messages under one id are in `flood` only, since
a second message is beyond TLC in `flood_kite`; `ContactsReached` has them.
`flood_own` needs a TTL of 2. `ChanelSize = 1` makes every channel full as
soon as it can be. With a TTL of 1 in `flood_kite`, TLC finds both of its
properties violated.

`NodeLoop.cfg` has `ChanelSize = 3`, which is what `RoomAssumption` asks for
two requests, and it is tight: with 2, TLC finds `NeverStuck` violated. One of
the two requests sends a shard message on when it is executed, one does not;
one comes from a client, one from another shard. The node has the three peers
of `main`, with a quorum of three: all three answer the first request, so
their commits can kill the node before its own pre-prepare is handled; d is
gone for the second, where each message of the others matters.

`Discovery.cfg` has three nodes besides the bootstrap node with identifiers
such that x and y are nearer to each other than to the bootstrap node, so that
one that hears of the other in time asks it first; `ALPHA = 1` makes that
happen, where the code, with 3, needs three nearer members, as many as a node
of `main` can have. `Iterations = 3` is the code's, and it matters: with 2,
`Acquainted` is violated, because a lookup that is told of the node itself
spends a round on asking it. `K = 15` for four nodes is large enough that the
cut of the candidates drops nobody, as 20 is for the five nodes of a shard of
`main` (a lookup starts with at most 4 candidates and is told of at most 5
nodes in each of 3 rounds, 19 in all); with `K = 4` duplicates push the
bootstrap node out of the candidates, and `Acquainted` is violated. `MaxJoins
= 2` and `MaxFaults = 1` bound the state space; with them the run has the
crossing of two first joins, of a first and a repeated one, and a fault in
either.

**Symmetry.** `pbft_lagging` and `pbft_panic` permute the backups that are
neither the primary nor the laggard, `node_loop` the two peers that answer
both requests. No liveness is checked under symmetry.

**Deadlock** is not checked: each of these systems stops when the requests of
the instance are done, and so does the program, which waits for input. That it
does not stop too early is `AnsweredAtRest` of `NodeLoop`: a node is `AtRest`,
when the guard of none of its steps holds, only if all that was proposed is
answered; a node that died in `execute` is not at rest. That consensus of a
shard does not is `SettledAtRest`. Every behaviour of `NodeLoop` is finite
(each step uses up a request, a message or a step of a goroutine), so this
stands for liveness there: under any fairness that keeps the node running,
what was proposed and not cut off from its quorum is answered, or the node
dies.

**Fairness.** `pbft_liveness`: as long as a live replica has a message
waiting, it handles one (a goroutine started by a handler, or what the network
brings it); the Go scheduler does not starve a goroutine and the mutex is fair
to waiters. A message that is ignored is not waiting, and a quorum is expected
of the others only. `linear`: each case of `select` is taken when it stays
ready (Go chooses among ready cases at random), and the network goes on;
consensus executes, unless it stalls or the primary dies, which no fairness
keeps it from. `EventuallyCommitted` names what was lost, stalled or dead, so
nothing is assumed about joins or the ids of messages. `flood_kite`: handlers,
Run loops and joins proceed, and a call ends in an answer or an error, so a
copy arrives or is lost; no fairness on broadcasting or stopping, and none on
failing. None assumes that a client proposes.

## Findings

1. `pbft_panic`: `execute` asserts that it has the pre-prepare
   (`pbft.go:373`), yet three commits of other replicas can arrive first; the
   replica panics. `FewDieOnAKey` bounds the damage: a key can kill only
   replicas outside a quorum that accepted it.
2. `flood_ids`: a shard message has no `MessageID` (`kademlia.go:738`), so all
   have the id "", and a node ignores every one after its first, though
   `kademlia_message.go:43` calls the field a unique id. The example of `main`
   sends each primary at most one shard message, so it does not show there.
3. `flood_own`: `Broadcast` marks "our own message as seen" under an id that
   no message has (`kademlia.go:581-584`); a node can get its own message
   back.
4. `message_ids`: `PBFT.Broadcast` builds the id of a message from `messageID`
   and adds 1 to it without the mutex (`pbft.go:356`, `362`), on goroutines of
   their own. Two goroutines of one replica can send a prepare and a commit
   under one id, against the comment of finding 2; a receiver then ignores one
   of them. The runs `pbft_liveness` and `flood` have such pairs, `linear`
   what they can do to a request.

## Proofs

`tlapm` proves all of these from the named ASSUMEs on the constants, which TLC
evaluates on every run. Five theorems have hypotheses besides, about the
constants too, and are stated with them: `ContactsReached`, `LinkedHear`,
`RestsAnswered`, `BootstrapKnows` and `MembersAcquainted`.

**PBFT** (`PBFT_proofs`), for every committee size, set of links, number of
requests and of keys:

* `TypeCorrect`, `ExecutionBacked` (QuorumBehindExecution), `ExecutedOnce`,
  `ReplicasAgree`, `DeathsBounded` (FewDieOnAKey);
* `ImplementsLog`: `Spec => LogSpec`, the refinement of `ShardLog`;
* `BalancesConverge` (Convergence);
* `SettledWhenAtRest` (SettledAtRest), of `PBFTDelivery`: in any order of
  messages, whichever of them share ids.

What `execute` relies on is a count in a map, so the invariant is a chain back
from it: a counted commit was sent, and its sender had counted a quorum of
prepares (`CommitInv`); a counted prepare was sent, and its sender holds the
pre-prepare (`PrepareInv`); all hold the one request the primary numbered
(`PreprepareInv`); and what is in `forward` came after a quorum of commits
(`ExecuteInv`). `IInv` is these with `TypeOK` and `ExecuteOnce`. A quorum is a
set of at least `Required` replicas, never empty (`RequiredPositive`), so a
quorum of commits has a member and that member's quorum of prepares is the
quorum of acceptances. `ExecuteOnce` needs that the equality with `Required`
holds once: sets of senders only grow, so after it the count is above.

`DeathsBounded` follows with no more: a replica that died on a key has not
accepted it, a quorum has, and the two sets are disjoint.

For `BalancesConverge` the invariant is `Ledger`: every balance is a sum over
the keys, taken in the order of the keys, of what each executed key adds to it
(`Effect`, 0 for a key not executed). A key executed now changes the sums from
that key on by its effect, whatever was executed before it, because `Apply`
only adds or subtracts. Two replicas with the same keys executed have the same
request under each (`Agreement`), so there is no first key at which their sums
differ.

`SettledWhenAtRest` is the safety half of `EventuallyExecuted`: consensus has
not come to rest while a key is short of its quorum and could have it. Its
invariant `Answered` says that no step of a replica is dropped: an acceptance
has its prepare among the messages, a quorum of prepares its commit, a quorum
of commits an execution or a death. When nothing is waiting, the replicas that
are not impaired have accepted the key, and each replica has counted the
prepares of all of them, then their commits; if they are a quorum, it has
executed or died.

**Flood** (`Flood_proofs`), for every network, contacts, messages and their
ids, calls that may fail, TTL and channel size: `TypeCorrect`,
`ShardsKeptApart`, `TablesPresent`, `PutAtMostOnce` and
`MarksStandForMessages` (MarksBacked).

That a node only files members of a shard under it depends on what copies say
of their senders, and that copies stay in their shard on what is filed, so
`Placed` has both (`Filed`, `Addressed`), with the tables that must exist and
the joins that fill them (`Opened`). Each step but a `Join` changes tables by
filing members of a shard (`TablesGrow`); a `Join` puts an empty table where
one may have been, and never takes one away, which is all that a copy whose
sender rejoins relies on. `PutMarked` and `DeliveredMarked` say that a message
on its way into a channel is there once and marked, and so gives `PutOnce`.
`MarksBacked` is inductive with them and `Sourced`: every mark has a message
with that id that has come through to the node or is in its handler. Which one
it is cannot be said when ids repeat. Of ids `MessagesAssumption` asks only that
those of consensus name their replica (`pbft.go:356`).

`ContactsReached` (NoneLeftOut) and `LinkedHear` are the safety half of
`EveryoneHears`: between a node that has a message and its contact nothing is
lost but by the failure of a call, so when the goroutines have come to their
end, every running node to which contacts and calls that worked lead from the
sender has it, or a message with its id. `Journey` adds to `IInv`, in which
copies come from nodes that have the message (`Sourced`, which is why the node
left out in forwarding needs none), that a node keeps its first contacts
unless it joins its own shard again (`Knows`), and `Hops`: a copy with `h`
hops behind it has left `h` nodes with the message in their channel, for each
forwards it once (`PutDelivers`). A node about to put it is not one of them,
and the one that is about to forward a copy is one more, so if the TTL of a
new message is at least the number of members of the shard (`LongTTL`, the
only hypothesis), there is a hop left, by whichever way the first copy came
(`TTLLeft`). The program has 5 of both. `flood_kite` has a TTL of 2 in a shard
of four, where the property holds for another reason, that of its contacts.

**Linear** (`Linear_proofs`), for every set of shards and shard requests,
accounts of no shard included: `TypeCorrect` and `NumberedAtHome` (HomeShard).
That a request is numbered only at home depends on where shard messages are
sent, and that on what is filed in `messages`, so `IInv` adds to `TypeOK` that
what is in `forward` and `log` is at home and that shard messages are
addressed to the shard of their first request (`Addressed`). The lemma
`CommitVoteSends` says what `handleCommitVote` makes of a shard request,
`SuffixReduced` and `CommitReduced` that these are `Reduced` again.

**NodeLoop** (`NodeLoop_proofs`), for every finite set of peers and requests,
any of the peers heard of each key, every quorum above one and every channel
size that `RoomAssumption` allows, so of the committee of `main` with all its
replicas as with one down: `TypeCorrect`, and `LoopNeverStuck` (NeverStuck).
The proof counts what can be in each channel. A request is pending, in
`forward`, in the hands of the loop or numbered, in one place only
(`Requested`); `results` holds keys with their quorum, each once
(`ExecutedOnce`); the shard messages are at most `MaxFanout` for each key
whose result has been taken (`FannedOut`); a broadcast is in its channel once,
after its goroutine has ended (`Channel`), and a commit only after a quorum of
prepares, one of which is a peer's, to whom the pre-prepare had left the
channel before (`Started`, `Answered`): so each key has at most two broadcasts
waiting, and the one that the loop is about to send has none. `Places` says
which goroutine can be at which place, `Mutex` that the mutex is held exactly
by the one that sends under it. `IInv` is their conjunction. It holds until the node dies in `execute`; `Dead` is the
state after that, in which nothing waits.

`NodeRest_proofs` adds `RestsAnswered` (AnsweredAtRest), if the node and the
peers it hears complete the quorum of every key (`QuorumHeard`; without that a
request rightly waits for ever). The whole committee does, and three of four.
Where `IInv` says that nothing happens twice, `Steady` says that nothing is
dropped: a request that was proposed is waiting or numbered (`Found`); a
number has started its handler here and is out or on its way out (`Handed`,
`Leaves`); each handler that ended has started the next (`Goes`); a result
that was taken is answered (`Back`). At rest the loop is in its `select` with
nothing to take, so the channels are empty; the mutex is then free, so nobody
waits for it; every goroutine that started has ended; and the chain of `Goes`
leads from each number to its answer.

**Transfer** (`Transfer_proofs`), for every set of shards and shard requests,
with messages lost and primaries dead: `OneVote` (OneVoteAtATime) and
`ImplementsTransfer` (TransferSpec). A vote passes through a channel, a log, a
second channel and a message, at several shards, and nothing in the code says
where it is; so the invariant does. `Unique`: a request is in one of those
places, once. `Known`: only what a client proposed is under way. `Ordered`: a
vote begins only when the result of every vote before it has been dealt with,
a commit when that of every vote has. `Leading`: nothing but the first vote or
commit of a remainder gets to consensus. What a result sends on has therefore
not begun before, which is what keeps the four true. The refinement counts the
executed positions of the logs that hold a request, 0 or 1 by `Unique`; an
execution is the step of `Transfer` that `Ordered` allows, and every other
action is a stutter.

**Discovery** (`Discovery_proofs`), for every number of nodes, identifiers,
`ALPHA`, `K`, rounds, targets, joins and faults: `TypeCorrect` (TypeOK) and
`BootstrapKnows` (BootstrapKnowsAll). The first half is about operators. The
XOR distance is a strict order (`SmallerOrders`, from the first bit in which
two distances differ), so the places that `ByDistance` gives are all different
and it permutes (`DistancePermutes`); `AddToBucketIs`, `AddContactIs` and
`AddAllIs` say what a bucket and a table keep, gain and lose. `Types` adds to
`TypeOK` the nodes that calls, answers and the state of a join may name.
`Heard` is what makes `BootstrapKnowsAll` inductive: everybody in a table, an
answer or the lists of a join is known to the bootstrap node, and so is every
caller, except in the ping with which its join begins, which is what makes it
known. The hypothesis is `Roomy(Bootstrap)`: no more members at one distance
from the bootstrap node than a bucket has places. Without it the eviction of
`AddToBucket` makes the property false (TLC finds a counterexample with `K =
2` and three members at one distance); the shards of `main`, with 4 members
and 20 places, have it.

**Discovery, Acquainted** (`Acquainted_proofs`): `MembersAcquainted`, for
every shard with `SmallShard`: at most `ALPHA + 2` nodes, the bootstrap node
included, and `K` large enough that the candidates of a lookup are never cut.
A shard of `main` is one (5 <= 3 + 2, and 4 + 3 * 5 <= 20). Identifiers,
targets, the number of joins and of faults are arbitrary. A node asks the
`ALPHA` contacts nearest to it. Either the bootstrap node is among them, and
names all who registered before; or it is not, and then the table holds more
than `ALPHA` contacts, which is everybody, and the lookup pings them. `Course`
follows a join through its stages with this: until it ends, everybody it
should know is called, about to be called, or to be named by the bootstrap
node. That the others know it too is `Kept`: who served a call has filed the
caller, and if it starts over with an empty table, it comes to be told of the
caller or fails. `Orderly` says that a join waits for one call at a time,
`Before` that those who registered before are known to the bootstrap node
(here `BootstrapKnows` is used), `Short` that nothing is cut. TLC checked
their conjunction, `Ways`, on an instance with `ALPHA = 2` before it was
proved. The hypothesis is not idle: with `ALPHA = 1`, the four nodes of the
instance and one round, TLC finds `Acquainted` violated, since a join need not
ask the bootstrap node at all. The instance of the run (`ALPHA = 1`, three
rounds) is beyond the theorem, so the run and the theorem cover different
shards.

**Only model-checked.** `Acquainted` in shards with more than `ALPHA + 2`
nodes, where it depends on the identifiers and the rounds (see *Bounds*).
`EventuallyExecuted`, `EventuallyCommitted` and `EveryoneHears`, since
liveness is out of this prover's reach. The properties that runs find
violated.

## Not modelled, and why

* Byzantine replicas: no code here misbehaves, and there is no view change to
  react to it. Crashes are: a replica that is cut off or dead (`Links`, a
  committee larger than `Replicas`, `Heard`), or dies in `execute`, or in a
  closed channel. No node comes back: nothing is persisted, and no code
  restarts one.
* Signatures, hashing, JSON and reflection (`MapToStruct`): pure, and the
  modules use what they return for messages the program builds.
* The Go map `routingTable` and the map of `Linear` are used by several
  goroutines without a lock. The modules interleave the steps of these
  goroutines, not the undefined outcome of an unsynchronised access.
* Configuration, logging, time stamps.
* `Leave`, its handler and `RemoveContact` are called by nothing (the one call
  is a comment, `kademlia.go:752`); `Abort` has no code behind it.
* The eviction of a full bucket is in `AddToBucket`, but no bucket is full in
  the shards of `main` (5 nodes, 20 places) or in the instance; `TypeCorrect`
  of `Discovery_proofs` covers it, and `BootstrapKnows` says when it cannot
  happen. The comment at `bucket.go:52` says that the first element is the
  least recently seen, which the replacement in place does not keep.
* Several shards in `Discovery`: the tables of different shards are
  independent but for the senders of another shard, which `Flood` has.
* `Stop` of a node with a Run loop: no program here does it.

PROJECT.json says of every part whether it is modelled, partly, or not.

## Plan

1. `Discovery` over two shards, with a node that joins the other one to send
   there, and larger shards with `ALPHA = 3`.
2. Proofs: of `Acquainted`, a hypothesis that lets larger shards in, by
   counting the rounds in which a lookup can be kept from asking the bootstrap
   node; of `Flood`, a TTL between the longest way and the number of members.
