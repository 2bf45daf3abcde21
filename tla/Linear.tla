------------------------------- MODULE Linear -------------------------------
(***************************************************************************)
(* The orchestration of requests across shards: the Linear struct of       *)
(* orchestration/linear.go at the primary of every shard, the Run loop     *)
(* that carries values between it, consensus and the network, and the      *)
(* shard messages in between.  The other replicas' Linear ignores          *)
(* everything: every method returns unless isPrimary.                      *)
(*                                                                         *)
(* A Run loop handles one value at a time, from any of its channels, so    *)
(* each case of its select is one action.  Consensus is what ShardLog      *)
(* promises of it: a log, executed at the primary in any order, each       *)
(* position once, unless it stalls or the primary dies in execute.  The    *)
(* channels hold chanel_size (1000) values; a run here stays far below, so *)
(* no send blocks (NodeLoop is about that).                                *)
(*                                                                         *)
(* A primary also dies when it has to send to a shard that is not in the   *)
(* bootstrap list: Join takes an index out of range.                       *)
(*                                                                         *)
(* A request stands for its GetID(): it carries a timestamp, so two        *)
(* requests of clients differ.                                             *)
(***************************************************************************)
EXTENDS Integers, Sequences, SequencesExt

CONSTANTS
  Shards,          \* the shards of the bootstrap list, numbered from 1
  ShardRequests,   \* [votes, commits, aborts]: sequences of [target, stamp];
                   \*   a target is the first byte of its name
  None             \* no entry in messages

\* The shard of an account, in the arithmetic of bytes.
FindShard(target) == (target - 65 + 1) % 256

\* The requests of a shard request.
Parts(x) == ToSet(x.votes) \cup ToSet(x.commits) \cup ToSet(x.aborts)
Requests == UNION {Parts(x) : x \in ShardRequests}

ASSUME ShardsAssumption == Shards \subseteq 1..256 /\ IsFiniteSet(Shards)
ASSUME RequestsAssumption ==
  /\ ShardRequests \subseteq
       [votes : Seq(Requests), commits : Seq(Requests), aborts : Seq(Requests)]
  /\ \A q \in Requests : q.target \in 0..255
  /\ \A x \in ShardRequests :
       x.votes # <<>> /\ FindShard(Head(x.votes).target) \in Shards
  /\ None \notin [votes : Seq(Requests), commits : Seq(Requests), aborts : Seq(Requests)]
ASSUME DistinctAssumption ==
  /\ \A x, y \in ShardRequests : x # y => Parts(x) \cap Parts(y) = {}
  /\ \A x \in ShardRequests : IsInjective(x.votes \o x.commits \o x.aborts)

\* What a shard request is reduced to on its way: a suffix of the votes with
\* the rest, or one commit.
Remainders(x) ==
  {[x EXCEPT !.votes = SubSeq(@, i, Len(@))] : i \in 1..Len(x.votes)}
    \cup {[votes |-> <<>>, commits |-> <<c>>, aborts |-> <<>>] : c \in ToSet(x.commits)}

Reduced == UNION {Remainders(x) : x \in ShardRequests}

VARIABLES
  submitted,   \* the shard requests clients have proposed
  messages,    \* per primary: the shard request behind a request in progress
  forward,     \* per primary: channel of requests for consensus
  log,         \* per shard: the requests consensus has numbered
  executed,    \* per primary: the positions of the log it has executed
  stalled,     \* per primary: those that consensus will not execute
  results,     \* per primary: channel of requests executed
  outbox,      \* per primary: channel of shard messages to send
  net,         \* shard messages on their way to a primary
  heard,       \* the primaries that have had a shard message
  panicked,    \* the primaries that died
  lost         \* history: the shard messages that reached no primary

vars == <<submitted, messages, forward, log, executed, stalled, results, outbox, net,
          heard, panicked, lost>>

Init ==
  /\ submitted = {}
  /\ messages = [s \in Shards |-> [q \in Requests |-> None]]
  /\ forward = [s \in Shards |-> <<>>]
  /\ log = [s \in Shards |-> <<>>]
  /\ executed = [s \in Shards |-> {}]
  /\ stalled = [s \in Shards |-> {}]
  /\ results = [s \in Shards |-> <<>>]
  /\ outbox = [s \in Shards |-> <<>>]
  /\ net = {}
  /\ heard = {}
  /\ panicked = {}
  /\ lost = {}

-----------------------------------------------------------------------------

\* The request of a shard request that its shard has to execute first.
First(x) ==
  CASE x.votes # <<>> -> Head(x.votes)
    [] x.votes = <<>> /\ x.commits # <<>> -> Head(x.commits)
    [] OTHER -> Head(x.aborts)

\* Faulty: the shard request is filed under its first commit.
ProposeUnderCommit(s, x) ==
  /\ messages' = [messages EXCEPT ![s][Head(x.commits)] = x]
  /\ forward' = [forward EXCEPT ![s] = Append(@, First(x))]

\* The primary of s files a shard request under that request and passes the
\* request on to consensus.
ProposeAt(s, x) ==
  /\ messages' = [messages EXCEPT ![s][First(x)] = x]
  /\ forward' = [forward EXCEPT ![s] = Append(@, First(x))]

\* A client proposes a shard request where its first vote belongs.
Submit(x) ==
  /\ x \notin submitted
  /\ FindShard(First(x).target) \notin panicked
  /\ submitted' = submitted \cup {x}
  /\ ProposeAt(FindShard(First(x).target), x)
  /\ UNCHANGED <<log, executed, stalled, results, outbox, net, heard, panicked, lost>>

\* Faulty: the network hands over every copy of a message.
HandleEveryShardMessage(m) ==
  /\ m \in net /\ m.shard \notin panicked
  /\ heard' = heard \cup {m.shard}
  /\ ProposeAt(m.shard, m.request)
  /\ UNCHANGED <<submitted, log, executed, stalled, results, outbox, net, panicked, lost>>

\* Run: a shard message came from the network.  The network hands a node the
\* first message with a given MessageID; that of a shard message is always "".
HandleShardMessage(m) ==
  /\ m \in net /\ m.shard \notin panicked
  /\ net' = net \ {m}
  /\ heard' = heard \cup {m.shard}
  /\ IF m.shard \in heard
       THEN lost' = lost \cup {m} /\ UNCHANGED <<messages, forward>>
       ELSE ProposeAt(m.shard, m.request) /\ UNCHANGED lost
  /\ UNCHANGED <<submitted, log, executed, stalled, results, outbox, panicked>>

\* Run: a request goes from the orchestration to consensus, which numbers it.
Forward(s) ==
  /\ s \notin panicked /\ forward[s] # <<>>
  /\ forward' = [forward EXCEPT ![s] = Tail(@)]
  /\ log' = [log EXCEPT ![s] = Append(@, Head(forward[s]))]
  /\ UNCHANGED <<submitted, messages, executed, stalled, results, outbox, net, heard, panicked, lost>>

\* A position of the log that consensus has still to execute at the primary.
Numbered(s, k) == s \notin panicked /\ k \notin executed[s] \cup stalled[s]

\* Consensus executes it.
Execute(s, k) ==
  /\ Numbered(s, k)
  /\ executed' = [executed EXCEPT ![s] = @ \cup {k}]
  /\ results' = [results EXCEPT ![s] = Append(@, log[s][k])]
  /\ UNCHANGED <<submitted, messages, forward, log, stalled, outbox, net, heard, panicked, lost>>

\* The commits of the others overtake the pre-prepare: execute panics.
Panic(s, k) ==
  /\ Numbered(s, k)
  /\ panicked' = panicked \cup {s}
  /\ UNCHANGED <<submitted, messages, forward, log, executed, stalled, results, outbox,
                 net, heard, lost>>

\* Or so many messages about it are ignored, as messages whose MessageID was
\* seen, that its counts stay below the quorum.
Stall(s, k) ==
  /\ Numbered(s, k)
  /\ stalled' = [stalled EXCEPT ![s] = @ \cup {k}]
  /\ UNCHANGED <<submitted, messages, forward, log, executed, results, outbox, net, heard,
                 panicked, lost>>

\* A shard message carrying x to the shard of its first request.
To(x) == [shard |-> FindShard(First(x).target), request |-> x]

\* Faulty: the commits leave with the last vote instead of after it.
CommitVoteEarly(x) ==
  LET rest == [x EXCEPT !.votes = Tail(@)] IN
  IF Len(rest.votes) <= 1
    THEN [i \in DOMAIN x.commits |->
            To([votes |-> <<>>, commits |-> <<x.commits[i]>>, aborts |-> <<>>])]
         \o (IF rest.votes = <<>> THEN <<>> ELSE <<To([rest EXCEPT !.commits = <<>>])>>)
    ELSE <<To(rest)>>

\* Faulty: what is left of the request goes to the shard that has just voted.
CommitVoteBack(x) ==
  LET rest == [x EXCEPT !.votes = Tail(@)] IN
  IF rest.votes = <<>>
    THEN [i \in DOMAIN x.commits |->
            To([votes |-> <<>>, commits |-> <<x.commits[i]>>, aborts |-> <<>>])]
    ELSE <<[To(rest) EXCEPT !.shard = FindShard(Head(x.votes).target)]>>

\* Faulty: only the first commit leaves.
CommitVoteOne(x) ==
  LET rest == [x EXCEPT !.votes = Tail(@)] IN
  IF rest.votes = <<>>
    THEN <<To([rest EXCEPT !.commits = <<Head(@)>>])>>
    ELSE <<To(rest)>>

\* After its first vote a shard request goes to the shard of the next; after
\* the last, each commit goes to its shard on its own.
handleCommitVote(x) ==
  LET rest == [x EXCEPT !.votes = Tail(@)] IN
  IF rest.votes = <<>>
    THEN [i \in DOMAIN x.commits |->
            To([votes |-> <<>>, commits |-> <<x.commits[i]>>, aborts |-> <<>>])]
    ELSE <<To(rest)>>

\* Run: a request was executed (the result is always a commit-vote).  If its
\* shard request has votes, that was one of them.
HandleConsensusResult(s) ==
  /\ s \notin panicked /\ results[s] # <<>>
  /\ results' = [results EXCEPT ![s] = Tail(@)]
  /\ LET x == messages[s][Head(results[s])] IN
     outbox' = IF x = None \/ x.votes = <<>>
                 THEN outbox
                 ELSE [outbox EXCEPT ![s] = @ \o handleCommitVote(x)]
  /\ UNCHANGED <<submitted, messages, forward, log, executed, stalled, net, heard, panicked, lost>>

\* Run: a shard message goes to the network.  It is dropped when the node
\* cannot join the target shard.  A message to the sender's own shard comes
\* back to the sender only if some other node passes it on to it.
BroadcastToShard(s) ==
  LET m == Head(outbox[s]) IN
  /\ s \notin panicked /\ outbox[s] # <<>>
  /\ outbox' = [outbox EXCEPT ![s] = Tail(@)]
  /\ IF m.shard \in Shards
       THEN \/ net' = net \cup {m} /\ UNCHANGED <<panicked, lost>>
            \/ lost' = lost \cup {m} /\ UNCHANGED <<panicked, net>>
       ELSE panicked' = panicked \cup {s} /\ UNCHANGED <<net, lost>>
  /\ UNCHANGED <<submitted, messages, forward, log, executed, stalled, results, heard>>

Node(s) ==
  \/ Forward(s)
  \/ HandleConsensusResult(s)
  \/ BroadcastToShard(s)
  \/ \E k \in DOMAIN log[s] : Execute(s, k) \/ Panic(s, k) \/ Stall(s, k)
  \/ \E m \in net : m.shard = s /\ HandleShardMessage(m)

Next ==
  \/ \E x \in ShardRequests : Submit(x)
  \/ \E s \in Shards : Node(s)

Spec == Init /\ [][Next]_vars

\* The Run loop and the goroutines of consensus and of the network keep
\* running; select is fair to a channel that stays ready.  Consensus executes
\* what does not stall.
FairSpec ==
  /\ Spec
  /\ \A s \in Shards :
       /\ WF_vars(Forward(s))
       /\ WF_vars(HandleConsensusResult(s))
       /\ WF_vars(BroadcastToShard(s))
       /\ WF_vars(\E k \in DOMAIN log[s] : Execute(s, k))
       /\ WF_vars(\E m \in net : m.shard = s /\ HandleShardMessage(m))

-----------------------------------------------------------------------------

\* Types: only what shard requests are reduced to is filed and sent, each
\* filed under the request it has come to.
ShardMessages == [shard : 0..255, request : Reduced]

TypeOK ==
  /\ submitted \subseteq ShardRequests
  /\ messages \in [Shards -> [Requests -> Reduced \cup {None}]]
  /\ {forward, log, results} \subseteq [Shards -> Seq(Requests)]
  /\ executed \in [Shards -> SUBSET Nat] 
  /\ stalled \in [Shards -> SUBSET Nat]
  /\ \A s \in Shards : executed[s] \cup stalled[s] \subseteq DOMAIN log[s]
  /\ outbox \in [Shards -> Seq(ShardMessages)]
  /\ net \cup lost \subseteq ShardMessages
  /\ heard \cup panicked \subseteq Shards
  /\ \A s \in Shards, q \in Requests : messages[s][q] = None \/ q = First(messages[s][q])

\* Only the shard an account belongs to numbers the requests on it, whichever
\* shard they come from.
HomeShard ==
  \A s \in Shards : \A q \in ToSet(forward[s]) \cup ToSet(log[s]) : FindShard(q.target) = s

\* The requests that the shard messages in the outboxes are about.
Carried == [s \in Shards |-> [i \in DOMAIN outbox[s] |-> First(outbox[s][i].request)]]

\* Where the votes of x are on their way: in a channel of a primary, in its
\* consensus, or in a shard message.
VotesAt(x, f) ==
  UNION {{<<s, i>> : i \in {i \in DOMAIN f[s] : f[s][i] \in ToSet(x.votes)}} : s \in Shards}
VotesUnderWay(x) ==
  ({"forward"} \X VotesAt(x, forward))
    \cup ({"log"} \X {p \in VotesAt(x, log) : p[2] \notin executed[p[1]]})
    \cup ({"results"} \X VotesAt(x, results))
    \cup ({"outbox"} \X VotesAt(x, Carried))
    \cup ({"net"} \X {m \in net : First(m.request) \in ToSet(x.votes)})

\* A shard request is voted on at one shard at a time: while it has votes to
\* come it is in one channel, one consensus or one message, so that what is
\* behind it has been executed and what is ahead of it has not.
OneVoteAtATime ==
  \A x \in ShardRequests : \A p, q \in VotesUnderWay(x) : p = q

\* The orchestration is an implementation of a transfer: how often a request
\* has been executed is how often it is at an executed position of a log.
Positions(q) ==
  UNION {{<<s, k>> : k \in {k \in executed[s] : log[s][k] = q}} : s \in Shards}

Abstract == INSTANCE Transfer WITH count <- [q \in Requests |-> Cardinality(Positions(q))]
TransferSpec == Abstract!Spec

\* What keeps a shard request, once proposed, from being executed to its last
\* commit is a fault that strikes itself: one of its messages is lost, one of its
\* requests stalls in consensus, or a primary that has one of them dies.
Steps(x) == ToSet(x.votes) \cup ToSet(x.commits)
Struck(x) ==
  \/ \E m \in lost : m.request \in Remainders(x)
  \/ \E s \in Shards : \E k \in stalled[s] : log[s][k] \in Steps(x)
  \/ \E q \in Steps(x) : FindShard(q.target) \in panicked

EventuallyCommitted ==
  \A x \in ShardRequests :
    x \in submitted ~> (\A q \in Steps(x) : Positions(q) # {}) \/ Struck(x)
=============================================================================
