--------------------------- MODULE NodeRest_proofs ---------------------------
(***************************************************************************)
(* Proof that a node comes to rest only when the requests proposed at it   *)
(* are answered, or it has died, for every number of requests, every       *)
(* committee of which it hears a quorum, and every channel size that       *)
(* RoomAssumption allows.                                                  *)
(*                                                                         *)
(* NodeLoop_proofs shows that nothing happens twice and no channel is      *)
(* full.  Here Steady is that nothing is dropped: a request that was       *)
(* proposed is somewhere, and each step in the life of a key has started   *)
(* the next one.  At rest every goroutine has then ended and every channel *)
(* is empty, so that each key has gone all the way.                        *)
(***************************************************************************)
EXTENDS NodeLoop_proofs

Holds(s, e) == \E i \in DOMAIN s : s[i] = e

\* A request that was proposed waits for its number or has it.
Found ==
  \A q \in Requests \ pending :
    \/ Holds(forward, q) \/ Holds(log, q)
    \/ pc[Run] \in {"forward", "propose"} /\ item = q

\* What Propose has numbered, but not yet broadcast.
Proposing(k) == pc[Run] = "send" /\ k = Len(log)

\* The pre-prepare of a key is out, or on its way, and handled here too.
Handed == \A k \in 1..Len(log) : Proposing(k) \/ pc[OwnPreprepare(k)] # "idle"
Leaves ==
  \A k \in 1..Len(log) :
    Proposing(k) \/ k \in announced \/ Holds(broadcasts, [type |-> "PREPREPARE", key |-> k])

\* Each handler of the node's own messages has done its part and started the next.
Goes ==
  \A k \in Keys :
    /\ pc[OwnPreprepare(k)] = "done" => pc[OwnPrepare(k)] # "idle"
    /\ pc[OwnPrepare(k)] = "done" => Self \in prepares[k]
    /\ Cardinality(prepares[k]) >= Required => pc[OwnCommit(k)] # "idle"
    /\ pc[OwnCommit(k)] \in {"execute", "done"} => Self \in commits[k]

\* A result that has been taken is one the orchestration had.
Back == \A k \in Finished : log[k] \in answered

Steady == Found /\ Handed /\ Leaves /\ Goes /\ Back

-----------------------------------------------------------------------------

LEMMA HoldsAppend ==
  ASSUME NEW S, NEW s \in Seq(S), NEW e \in S
  PROVE  \A q : Holds(Append(s, e), q) <=> Holds(s, q) \/ q = e
<1>1. /\ DOMAIN s = 1..Len(s) /\ Len(s) \in Nat /\ DOMAIN Append(s, e) = 1..(Len(s) + 1)
      /\ \A i \in DOMAIN s : Append(s, e)[i] = s[i]
      /\ Append(s, e)[Len(s) + 1] = e
  OBVIOUS
<1>2. \A i : i \in DOMAIN Append(s, e) <=> i \in DOMAIN s \/ i = Len(s) + 1
  BY <1>1
<1> QED BY <1>1, <1>2, Zenon DEF Holds

LEMMA HoldsTail ==
  ASSUME NEW S, NEW s \in Seq(S), s # <<>>, NEW q, Holds(s, q)
  PROVE  q = Head(s) \/ Holds(Tail(s), q)
<1>1. PICK i \in DOMAIN s : s[i] = q
  BY DEF Holds
<1>2. i \in 1..Len(s) /\ Len(s) \in Nat /\ Head(s) = s[1]
  OBVIOUS
<1>3. CASE i = 1
  BY <1>1, <1>2, <1>3
<1>4. CASE i # 1
  <2>1. i - 1 \in DOMAIN Tail(s) /\ Tail(s)[i - 1] = s[i]
    BY <1>2, <1>4
  <2> QED BY <1>1, <2>1 DEF Holds
<1> QED BY <1>3, <1>4

\* The keys, as those given out.
LEMMA GivenOut ==
  ASSUME IInv
  PROVE  /\ Len(log) \in Nat
         /\ \A k \in 1..Len(log) : k \in Keys
         /\ \A k \in Keys : k \in 1..Len(log) <=> k <= Len(log)
<1>1. Len(log) \in Nat /\ Len(log) <= MaxRequests
  BY DEF IInv, Types
<1> QED BY <1>1, Numbers DEF Keys

-----------------------------------------------------------------------------

LEMMA FoundStep == ASSUME IInv, Found, Work PROVE Found'
<1>0. /\ pc \in [Threads -> States] /\ forward \in Seq(Requests) /\ log \in Seq(Requests)
      /\ pending \subseteq Requests
      /\ pc[Run] \in {"forward", "propose"} => item \in Requests
  BY DEF IInv, Types, Places, LoopPlaces
<1>1. ASSUME UNCHANGED <<forward, log>>, pending \ pending' = {},
             pc[Run] \notin {"forward", "propose"} \/ UNCHANGED <<pc[Run], item>>
      PROVE  Found'
  BY <1>1 DEF Found
<1>2. CASE \/ \E m \in Messages : TakeConsensus(m)
           \/ TakeResult \/ TakeBroadcast \/ TakeShardBroadcast \/ BroadcastToShard
  BY <1>1, <1>2 DEF TakeConsensus, TakeResult, TakeBroadcast, TakeShardBroadcast,
     BroadcastToShard, Selected, consensus, channels
<1>3. ASSUME NEW q \in Requests, TakeShard(q) PROVE Found'
  <2>1. pc'[Run] = "forward" /\ item' = q /\ pending' = pending \ {q} /\ pc[Run] = "select"
        /\ UNCHANGED <<forward, log>>
    BY <1>0, <1>3, ThreadsOfKeys DEF TakeShard, Selected, consensus, channels
  <2> QED BY <2>1 DEF Found
<1>4. CASE TakeForward
  <2>1. /\ pc'[Run] = "propose" /\ pc[Run] = "select" /\ item' = Head(forward)
        /\ forward # <<>> /\ forward' = Tail(forward) /\ UNCHANGED <<pending, log>>
    BY <1>0, <1>4, ThreadsOfKeys DEF TakeForward, Selected, consensus
  <2>2. \A q : Holds(forward, q) => q = Head(forward) \/ Holds(forward', q)
    BY <1>0, <2>1, HoldsTail
  <2> QED BY <2>1, <2>2 DEF Found
<1>5. CASE Forward
  <2>1. pc[Run] = "forward" /\ forward' = Append(forward, item) /\ UNCHANGED <<pending, log>>
    BY <1>5 DEF Forward, consensus
  <2>2. \A q : Holds(forward', q) <=> Holds(forward, q) \/ q = item
    BY <1>0, <2>1, HoldsAppend
  <2> QED BY <2>1, <2>2 DEF Found
<1>6. CASE Propose
  <2>1. pc[Run] = "propose" /\ log' = Append(log, item) /\ UNCHANGED <<pending, forward>>
    BY <1>6 DEF Propose, channels
  <2>2. \A q : Holds(log', q) <=> Holds(log, q) \/ q = item
    BY <1>0, <2>1, HoldsAppend
  <2> QED BY <2>1, <2>2 DEF Found
<1>7. ASSUME NEW q \in Requests, ProposeFromMain(q) PROVE Found'
  <2>1. forward' = Append(forward, q) /\ pending' = pending \ {q} /\ UNCHANGED <<pc, item, log>>
    BY <1>7 DEF ProposeFromMain, consensus
  <2>2. \A r : Holds(forward', r) <=> Holds(forward, r) \/ r = q
    BY <1>0, <2>1, HoldsAppend
  <2> QED BY <2>1, <2>2 DEF Found
<1>8. ASSUME NEW t \in Threads, Handle(t) \/ Send(t) PROVE Found'
  <2>1. UNCHANGED <<pending, log, forward>>
    BY <1>8, HandlerFrame
  <2>2. pc[Run] \notin {"forward", "propose"} \/ UNCHANGED <<pc[Run], item>>
    BY <1>8, HandlerFrame
  <2> QED BY <1>1, <2>1, <2>2
<1> QED BY <1>2, <1>3, <1>4, <1>5, <1>6, <1>7, <1>8, Steps DEF LoopStep

-----------------------------------------------------------------------------
\* What a step may do to the goroutine that takes the node's own pre-prepare: a
\* key that was being proposed still is, or has its handler, its broadcast or both.

LEMMA ProposingStep ==
  ASSUME IInv, Work
  PROVE  \/ Propose
         \/ SendsPreprepare /\ log' = log
         \/ log' = log /\ \A k \in 1..Len(log) : Proposing(k) => Proposing(k)'
<1>0. pc \in [Threads -> States]
  BY DEF IInv, Types
<1>1. ASSUME log' = log, pc[Run] = "send" => pc'[Run] = "send"
      PROVE  \A k \in 1..Len(log) : Proposing(k) => Proposing(k)'
  BY <1>1 DEF Proposing
<1>2. CASE LoopStep
  BY <1>1, <1>2, LoopFrame DEF consensus
<1>3. CASE \E q \in Requests : ProposeFromMain(q)
  BY <1>1, <1>3 DEF ProposeFromMain, consensus
<1>4. ASSUME NEW t \in Threads, Handle(t) PROVE log' = log /\ (pc[Run] = "send" => pc'[Run] = "send")
  <2>1. log' = log
    BY <1>4, HandlerFrame
  <2>2. pc[t] \in {"lock", "execute"}
    BY <1>4 DEF Handle, HandlePreprepare, HandlePrepare, HandleCommit, execute
  <2> QED BY <1>4, <2>1, <2>2, HandlerFrame
<1>5. ASSUME NEW t \in Threads, Send(t), ~SendsPreprepare
      PROVE  log' = log /\ (pc[Run] = "send" => pc'[Run] = "send")
  <2>1. log' = log
    BY <1>5, HandlerFrame
  <2>2. PICK k \in Keys, type \in {"PREPARE", "COMMIT"} : Sends(t, k, type)
    BY <1>5, Sent
  <2> QED BY <1>0, <2>1, <2>2, ThreadsOfKeys DEF Sends
<1>6. ASSUME SendsPreprepare, ~Propose, ~LoopStep PROVE log' = log
  BY <1>6, Growing
<1> QED BY <1>1, <1>2, <1>3, <1>4, <1>5, <1>6, Steps

\* A goroutine that has been started stays started.
LEMMA StaysStarted ==
  ASSUME IInv, Work
  PROVE  \A t \in Goroutines : pc[t] # "idle" => pc'[t] # "idle"
<1>0. pc \in [Threads -> States]
  BY DEF IInv, Types
<1>1. CASE LoopStep
  BY <1>1, LoopFrame
<1>2. CASE Propose \/ \E q \in Requests : ProposeFromMain(q)
  BY <1>0, <1>2, ThreadsOfKeys DEF Propose, ProposeFromMain
<1>3. ASSUME NEW t \in Threads, HandlePreprepare(t) \/ HandlePrepare(t) \/ HandleCommit(t)
                                \/ execute(t) \/ Send(t)
      PROVE  \A u \in Goroutines : pc[u] # "idle" => pc'[u] # "idle"
  <2>1. CASE HandlePreprepare(t)
    BY <1>0, <2>1, Preprepared, ThreadsOfKeys DEF TakesPreprepare
  <2>2. CASE HandlePrepare(t)
    BY <1>0, <2>2, Prepared, ThreadsOfKeys DEF TakesPrepare, Ended
  <2>3. CASE HandleCommit(t)
    BY <1>0, <2>3, Committed, ThreadsOfKeys DEF TakesCommit, Ended
  <2>4. CASE execute(t)
    BY <1>0, <2>4, Executed, ThreadsOfKeys DEF Executes, Ended
  <2>5. CASE Send(t)
    <3>1. CASE SendsPreprepare
      BY <1>0, <3>1, ThreadsOfKeys DEF SendsPreprepare
    <3>2. ASSUME NEW k \in Keys, NEW type \in {"PREPARE", "COMMIT"}, Sends(t, k, type)
          PROVE  \A u \in Goroutines : pc[u] # "idle" => pc'[u] # "idle"
      BY <1>0, <3>2, ThreadsOfKeys DEF Sends
    <3> QED BY <2>5, <3>1, <3>2, Sent
  <2> QED BY <1>3, <2>1, <2>2, <2>3, <2>4, <2>5
<1> QED BY <1>1, <1>2, <1>3, Steps DEF Handle

LEMMA HandedStep == ASSUME IInv, Handed, Work PROVE Handed'
<1>0. pc \in [Threads -> States] /\ log \in Seq(Requests)
  BY DEF IInv, Types
<1>1. CASE Propose
  <2>1. Len(log') = Len(log) + 1 /\ pc'[Run] = "send" /\ pc[Run] = "propose"
    BY <1>0, <1>1, ThreadsOfKeys DEF Propose, IInv, Places, LoopPlaces
  <2>2. ASSUME NEW k \in 1..Len(log') PROVE Proposing(k)' \/ pc'[OwnPreprepare(k)] # "idle"
    <3>1. CASE k = Len(log')
      BY <2>1, <3>1 DEF Proposing
    <3>2. CASE k # Len(log')
      <4>1. k \in 1..Len(log)
        BY <2>1, <3>2, GivenOut
      <4>2. pc[OwnPreprepare(k)] # "idle"
        BY <2>1, <4>1 DEF Handed, Proposing
      <4> QED BY <4>1, <4>2, GivenOut, StaysStarted, ThreadsOfKeys
    <3> QED BY <3>1, <3>2
  <2> QED BY <2>2 DEF Handed
<1>2. CASE SendsPreprepare /\ log' = log
  <2>1. Len(log) \in Keys /\ pc'[OwnPreprepare(Len(log))] = "lock"
    BY <1>0, <1>2, ThreadsOfKeys DEF SendsPreprepare
  <2>2. ASSUME NEW k \in 1..Len(log) PROVE pc'[OwnPreprepare(k)] # "idle"
    BY <2>1, GivenOut, StaysStarted, ThreadsOfKeys DEF Handed, Proposing
  <2> QED BY <1>2, <2>2 DEF Handed
<1>3. CASE log' = log /\ \A k \in 1..Len(log) : Proposing(k) => Proposing(k)'
  <2>1. ASSUME NEW k \in 1..Len(log) PROVE Proposing(k)' \/ pc'[OwnPreprepare(k)] # "idle"
    BY <1>3, GivenOut, StaysStarted, ThreadsOfKeys DEF Handed
  <2> QED BY <1>3, <2>1 DEF Handed
<1> QED BY <1>1, <1>2, <1>3, ProposingStep

\* Broadcasts leave their channel from the front.
LEMMA BroadcastsStep ==
  ASSUME IInv, Work
  PROVE  \A k \in Keys : LET b == [type |-> "PREPREPARE", key |-> k] IN
           Holds(broadcasts, b) => Holds(broadcasts', b) \/ k \in announced'
<1>0. broadcasts \in Seq(Broadcasts)
  BY DEF IInv, Types
<1>1. ASSUME NEW k \in Keys, NEW b, b = [type |-> "PREPREPARE", key |-> k], Holds(broadcasts, b)
      PROVE  Holds(broadcasts', b) \/ k \in announced'
  <2>1. CASE broadcasts' = broadcasts
    BY <1>1, <2>1
  <2>2. CASE TakeBroadcast
    <3>1. broadcasts # <<>> /\ broadcasts' = Tail(broadcasts)
      BY <2>2 DEF TakeBroadcast
    <3>2. b = Head(broadcasts) \/ Holds(broadcasts', b)
      BY <1>0, <1>1, <3>1, HoldsTail
    <3>3. b.type = "PREPREPARE" /\ b.key = k
      BY <1>1
    <3>4. Head(broadcasts).type = "PREPREPARE" => Head(broadcasts).key \in announced'
      BY <2>2 DEF TakeBroadcast
    <3> QED BY <3>2, <3>3, <3>4
  <2>3. ASSUME NEW t \in Threads, Send(t) PROVE Holds(broadcasts', b)
    <3>1. PICK c \in Broadcasts : broadcasts' = Append(broadcasts, c)
      BY <2>3, Sent DEF SendsPreprepare, Sends, Broadcasts
    <3> QED BY <1>0, <1>1, <3>1, HoldsAppend
  <2>4. CASE LoopStep /\ ~TakeBroadcast
    BY <1>1, <2>4 DEF LoopStep, TakeConsensus, TakeShard, TakeForward, TakeResult,
       TakeShardBroadcast, Forward, BroadcastToShard, channels
  <2>5. CASE Propose \/ \E q \in Requests : ProposeFromMain(q)
    BY <1>1, <2>5 DEF Propose, ProposeFromMain, channels
  <2>6. ASSUME NEW t \in Threads, Handle(t) PROVE broadcasts' = broadcasts
    BY <2>6 DEF Handle, HandlePreprepare, HandlePrepare, HandleCommit, execute, channels
  <2> QED BY <2>1, <2>2, <2>3, <2>4, <2>5, <2>6, Steps
<1> QED BY <1>1

LEMMA LeavesStep == ASSUME IInv, Leaves, Work PROVE Leaves'
<1>0. pc \in [Threads -> States] /\ log \in Seq(Requests) /\ broadcasts \in Seq(Broadcasts)
  BY DEF IInv, Types
<1> DEFINE Out(k) == k \in announced \/ Holds(broadcasts, [type |-> "PREPREPARE", key |-> k])
<1>1. \A k \in Keys : Out(k) => Out(k)'
  BY BroadcastsStep, Growing
<1>2. \A k \in 1..Len(log) : Proposing(k) \/ Out(k)
  BY DEF Leaves
<1>3. CASE Propose
  <2>1. Len(log') = Len(log) + 1 /\ pc'[Run] = "send" /\ pc[Run] = "propose"
    BY <1>0, <1>3, ThreadsOfKeys DEF Propose, IInv, Places, LoopPlaces
  <2>2. ASSUME NEW k \in 1..Len(log') PROVE Proposing(k)' \/ Out(k)'
    <3>1. CASE k = Len(log')
      BY <2>1, <3>1 DEF Proposing
    <3>2. CASE k # Len(log')
      <4>1. k \in 1..Len(log) /\ k \in Keys
        BY <2>1, <3>2, GivenOut
      <4>2. Out(k)
        BY <1>2, <2>1, <4>1 DEF Proposing
      <4> HIDE DEF Out
      <4> QED BY <1>1, <4>1, <4>2
    <3> QED BY <3>1, <3>2
  <2> QED BY <2>2 DEF Leaves
<1>4. CASE SendsPreprepare /\ log' = log
  <2>1. [type |-> "PREPREPARE", key |-> Len(log)] \in Broadcasts
    BY <1>4 DEF SendsPreprepare, Broadcasts
  <2>2. Holds(broadcasts', [type |-> "PREPREPARE", key |-> Len(log)])
    BY <1>0, <1>4, <2>1, HoldsAppend DEF SendsPreprepare
  <2>3. ASSUME NEW k \in 1..Len(log) PROVE Out(k)'
    <3>1. CASE k = Len(log)
      BY <1>4, <2>2, <3>1
    <3>2. CASE k # Len(log)
      <4>1. Out(k) /\ k \in Keys
        BY <1>2, <3>2, GivenOut DEF Proposing
      <4> HIDE DEF Out
      <4> QED BY <1>1, <4>1
    <3> QED BY <3>1, <3>2
  <2> QED BY <1>4, <2>3 DEF Leaves
<1>5. CASE log' = log /\ \A k \in 1..Len(log) : Proposing(k) => Proposing(k)'
  <2>1. \A k \in 1..Len(log) : Proposing(k)' \/ Out(k)'
    <3> HIDE DEF Out
    <3> QED BY <1>1, <1>2, <1>5, GivenOut
  <2> QED BY <1>5, <2>1 DEF Leaves
<1> QED BY <1>3, <1>4, <1>5, ProposingStep

-----------------------------------------------------------------------------
\* A quorum is reached by the message that makes one of what was none.

LEMMA Reached ==
  ASSUME NEW S \in SUBSET (Peers \cup {Self}), NEW x \in Peers \cup {Self},
         Cardinality(S \cup {x}) >= Required, ~(Cardinality(S) >= Required)
  PROVE  x \notin S /\ Cardinality(S \cup {x}) = Required
<1>1. x \in S => S \cup {x} = S
  OBVIOUS
<1>2. x \notin S
  BY <1>1
<1>3. Cardinality(S) \in Nat /\ Cardinality(S \cup {x}) = Cardinality(S) + 1
  BY <1>2, OneMore
<1>4. Required \in Nat
  BY NodesAssumption
<1> QED BY <1>2, <1>3, <1>4

\* Then the handler does what TakesPrepare and TakesCommit say it may do.
LEMMA StartsCommit ==
  ASSUME IInv, NEW t \in Threads, HandlePrepare(t)
  PROVE  \E k \in Keys, from \in Peers \cup {Self} :
           /\ TakesPrepare(t, k, from) /\ commits' = commits
           /\ Cardinality(prepares'[k]) >= Required /\ ~(Cardinality(prepares[k]) >= Required) =>
                pc'[OwnCommit(k)] = "lock"
<1> DEFINE k == Message(t).key
           from == Message(t).from
<1>1. pc[t] = "lock" /\ Message(t).task = "HandlePrepare" /\ commits' = commits
  BY DEF HandlePrepare
<1>2. /\ k \in Keys
      /\ (t = Run /\ from \in Peers) \/ (t = OwnPrepare(k) /\ from = Self)
  BY <1>1, Handled
<1>3. /\ prepares \in [Keys -> SUBSET (Peers \cup {Self})] /\ pc \in [Threads -> States]
      /\ prepares' = [prepares EXCEPT ![k] = @ \cup {from}]
  BY DEF HandlePrepare, IInv, Types
<1>4. prepares'[k] = prepares[k] \cup {from} /\ \A j \in Keys : j # k => prepares'[j] = prepares[j]
  BY <1>2, <1>3
<1>5. ASSUME Cardinality(prepares'[k]) >= Required, ~(Cardinality(prepares[k]) >= Required)
      PROVE  pc'[OwnCommit(k)] = "lock"
  <2>1. from \notin prepares[k] /\ Cardinality(prepares'[k]) = Required
    BY <1>2, <1>3, <1>4, <1>5, Reached
  <2>2. Return(t, {SendCommit(k), OwnCommit(k)})
    BY <2>1 DEF HandlePrepare, SendCommit, OwnCommit
  <2> HIDE DEF k, from
  <2>3. OwnCommit(k) # t /\ OwnCommit(k) \in Threads /\ OwnCommit(k).task \notin Broadcasters
    BY <1>2, ThreadsOfKeys DEF Broadcasters
  <2> QED BY <2>2, <2>3 DEF Return
<1>6. PICK j \in Keys, g \in Peers \cup {Self} : TakesPrepare(t, j, g)
  BY Prepared
<1>7. prepares'[j] = prepares[j] \cup {g}
  BY <1>3, <1>6 DEF TakesPrepare
<1>8. ASSUME Cardinality(prepares'[j]) >= Required, ~(Cardinality(prepares[j]) >= Required)
      PROVE  pc'[OwnCommit(j)] = "lock"
  <2>1. j = k
    BY <1>4, <1>8
  <2> HIDE DEF k
  <2> QED BY <1>5, <1>8, <2>1
<1> QED BY <1>1, <1>6, <1>8

LEMMA StartsExecution ==
  ASSUME IInv, NEW t \in Threads, HandleCommit(t)
  PROVE  \E k \in Keys, from \in Peers \cup {Self} :
           /\ TakesCommit(t, k, from) /\ UNCHANGED <<prepares, results>>
           /\ Quorate(k)' /\ ~Quorate(k) => Executing(k)'
<1>1. PICK k \in Keys, from \in Peers \cup {Self} : TakesCommit(t, k, from)
  BY Committed
<1>2. UNCHANGED <<prepares, results>>
  BY DEF HandleCommit, channels
<1>3. /\ commits \in [Keys -> SUBSET (Peers \cup {Self})] /\ pc \in [Threads -> States]
      /\ commits' = [commits EXCEPT ![k] = @ \cup {from}]
  BY <1>1 DEF TakesCommit, IInv, Types
<1>4. ASSUME Quorate(k)', ~Quorate(k) PROVE Executing(k)'
  <2> DEFINE j == Message(t).key
             g == Message(t).from
  <2>1. k = j
    BY <1>1 DEF TakesCommit
  <2>2. g \in Peers \cup {Self} /\ commits' = [commits EXCEPT ![j] = @ \cup {g}]
    BY Handled DEF HandleCommit
  <2>3. commits'[j] = commits[j] \cup {g}
    BY <1>3, <2>1, <2>2
  <2>4. g \notin commits[j] /\ Cardinality(commits'[j]) = Required
    BY <1>3, <1>4, <2>1, <2>2, <2>3, Reached DEF Quorate
  <2>5. pc' = [pc EXCEPT ![t] = "execute"] /\ item' = item
    BY <2>4 DEF HandleCommit
  <2>6. Message(t)' = Message(t)
    BY <2>5 DEF Message
  <2> QED BY <1>3, <2>1, <2>5, <2>6 DEF Executing
<1> QED BY <1>1, <1>2, <1>4

\* Goroutines of different tasks or keys are different.
LEMMA Apart ==
  \A j, k \in Keys :
    /\ OwnPreprepare(j) # OwnPrepare(k) /\ OwnPreprepare(j) # OwnCommit(k)
    /\ OwnPreprepare(j) # SendPrepare(k) /\ OwnPreprepare(j) # SendCommit(k)
    /\ OwnPrepare(j) # OwnCommit(k) /\ OwnPrepare(j) # SendPrepare(k)
    /\ OwnPrepare(j) # SendCommit(k)
    /\ OwnCommit(j) # SendPrepare(k) /\ OwnCommit(j) # SendCommit(k)
    /\ j # k => OwnPreprepare(j) # OwnPreprepare(k) /\ OwnPrepare(j) # OwnPrepare(k)
               /\ OwnCommit(j) # OwnCommit(k)
    /\ Run \notin {OwnPreprepare(j), OwnPrepare(j), OwnCommit(j)}
    /\ {OwnPreprepare(j), OwnPrepare(j), OwnCommit(j)} \subseteq Threads
BY ThreadsOfKeys

LEMMA GoesStep == ASSUME IInv, Goes, Work PROVE Goes'
<1>0. /\ pc \in [Threads -> States] /\ Places
      /\ prepares \in [Keys -> SUBSET (Peers \cup {Self})]
      /\ commits \in [Keys -> SUBSET (Peers \cup {Self})]
  BY DEF IInv, Types
<1>1. ASSUME UNCHANGED <<prepares, commits>>,
             \A k \in Keys : /\ pc'[OwnPreprepare(k)] = "done" => pc[OwnPreprepare(k)] = "done"
                             /\ pc'[OwnPrepare(k)] = "done" => pc[OwnPrepare(k)] = "done"
                             /\ pc'[OwnCommit(k)] \in {"execute", "done"} =>
                                  pc[OwnCommit(k)] \in {"execute", "done"}
      PROVE  Goes'
  BY <1>1, StaysStarted, ThreadsOfKeys DEF Goes
<1>2. CASE LoopStep
  BY <1>1, <1>2, LoopFrame, ThreadsOfKeys DEF consensus
<1>3. CASE Propose \/ \E q \in Requests : ProposeFromMain(q)
  BY <1>0, <1>1, <1>3, ThreadsOfKeys DEF Propose, ProposeFromMain, consensus
<1>4. ASSUME NEW t \in Threads, HandlePreprepare(t) PROVE Goes'
  <2>1. PICK k \in Keys : TakesPreprepare(t, k)
    BY <1>4, Preprepared
  <2>2. UNCHANGED <<prepares, commits>>
    BY <1>4 DEF HandlePreprepare, consensus
  <2>3. /\ pc'[OwnPrepare(k)] = "lock"
        /\ \A j \in Keys : /\ pc'[OwnPreprepare(j)] = "done" => pc[OwnPreprepare(j)] = "done" \/ j = k
                           /\ pc'[OwnPrepare(j)] = "done" => pc[OwnPrepare(j)] = "done"
                           /\ pc'[OwnCommit(j)] = pc[OwnCommit(j)]
    <3>1. pc' = [pc EXCEPT ![OwnPreprepare(k)] = "done", ![SendPrepare(k)] = "send",
                           ![OwnPrepare(k)] = "lock"]
      BY <2>1 DEF TakesPreprepare
    <3>2. \A u \in Threads : pc'[u] = IF u = OwnPrepare(k) THEN "lock"
                                      ELSE IF u = SendPrepare(k) THEN "send"
                                      ELSE IF u = OwnPreprepare(k) THEN "done" ELSE pc[u]
      BY <1>0, <3>1
    <3> QED BY <3>2, Apart
  <2> QED BY <2>2, <2>3, StaysStarted, ThreadsOfKeys DEF Goes
<1>5. ASSUME NEW t \in Threads, HandlePrepare(t) PROVE Goes'
  <2>1. PICK k \in Keys, from \in Peers \cup {Self} :
           /\ TakesPrepare(t, k, from) /\ commits' = commits
           /\ Cardinality(prepares'[k]) >= Required /\ ~(Cardinality(prepares[k]) >= Required) =>
                pc'[OwnCommit(k)] = "lock"
    BY <1>5, StartsCommit
  <2>2. /\ prepares'[k] = prepares[k] \cup {from} /\ \A j \in Keys : j # k => prepares'[j] = prepares[j]
    BY <1>0, <2>1 DEF TakesPrepare
  <2>3. ASSUME NEW j \in Keys
        PROVE  /\ pc'[OwnPreprepare(j)] = pc[OwnPreprepare(j)]
               /\ pc'[OwnPrepare(j)] = "done" => pc[OwnPrepare(j)] = "done" \/ (j = k /\ from = Self)
               /\ pc'[OwnCommit(j)] \in {"execute", "done"} =>
                    pc[OwnCommit(j)] \in {"execute", "done"}
    <3>1. CASE pc' = [pc EXCEPT ![t] = Ended(t)]
      BY <1>0, <2>1, <3>1, Apart DEF TakesPrepare, Ended
    <3>2. CASE pc' = [pc EXCEPT ![t] = Ended(t), ![SendCommit(k)] = "send", ![OwnCommit(k)] = "lock"]
      <4>1. \A u \in Threads : pc'[u] = IF u = OwnCommit(k) THEN "lock"
                                        ELSE IF u = SendCommit(k) THEN "send"
                                        ELSE IF u = t THEN Ended(t) ELSE pc[u]
        BY <1>0, <3>2
      <4>2. t = Run \/ (t = OwnPrepare(k) /\ from = Self)
        BY <2>1 DEF TakesPrepare
      <4> QED BY <4>1, <4>2, Apart DEF Ended
    <3> QED BY <2>1, <3>1, <3>2 DEF TakesPrepare
  <2>4. ASSUME NEW j \in Keys, Cardinality(prepares'[j]) >= Required PROVE pc'[OwnCommit(j)] # "idle"
    <3>1. CASE Cardinality(prepares[j]) >= Required
      BY <3>1, StaysStarted, ThreadsOfKeys DEF Goes
    <3>2. CASE ~(Cardinality(prepares[j]) >= Required)
      <4>1. j = k
        BY <2>2, <2>4, <3>2
      <4> QED BY <2>1, <2>4, <3>2, <4>1
    <3> QED BY <3>1, <3>2
  <2>5. \A j \in Keys : Self \in prepares[j] \/ (j = k /\ from = Self) => Self \in prepares'[j]
    BY <2>2
  <2> QED BY <2>1, <2>3, <2>4, <2>5, StaysStarted, ThreadsOfKeys DEF Goes
<1>6. ASSUME NEW t \in Threads, HandleCommit(t) PROVE Goes'
  <2>1. PICK k \in Keys, from \in Peers \cup {Self} :
           TakesCommit(t, k, from) /\ UNCHANGED <<prepares, results>>
    BY <1>6, StartsExecution
  <2>2. /\ commits'[k] = commits[k] \cup {from} /\ \A j \in Keys : j # k => commits'[j] = commits[j]
    BY <1>0, <2>1 DEF TakesCommit
  <2>3. ASSUME NEW j \in Keys
        PROVE  /\ pc'[OwnPreprepare(j)] = pc[OwnPreprepare(j)]
               /\ pc'[OwnPrepare(j)] = pc[OwnPrepare(j)]
               /\ pc'[OwnCommit(j)] \in {"execute", "done"} =>
                    pc[OwnCommit(j)] \in {"execute", "done"} \/ (j = k /\ from = Self)
    BY <1>0, <2>1, ThreadsOfKeys DEF TakesCommit, Ended
  <2>4. \A j \in Keys : Self \in commits[j] \/ (j = k /\ from = Self) => Self \in commits'[j]
    BY <2>2
  <2> QED BY <2>1, <2>3, <2>4, StaysStarted, ThreadsOfKeys DEF Goes
<1>7. ASSUME NEW t \in Threads, execute(t) PROVE Goes'
  <2>1. PICK k \in Keys : Executes(t, k)
    BY <1>7, Executed
  <2> QED BY <1>0, <1>1, <1>7, <2>1, ThreadsOfKeys DEF Executes, Ended, execute, consensus
<1>8. ASSUME NEW t \in Threads, Send(t) PROVE Goes'
  <2>1. UNCHANGED <<prepares, commits>>
    BY <1>8 DEF Send, consensus
  <2>2. CASE SendsPreprepare
    BY <1>0, <1>1, <2>1, <2>2, ThreadsOfKeys DEF SendsPreprepare
  <2>3. ASSUME NEW k \in Keys, NEW type \in {"PREPARE", "COMMIT"}, Sends(t, k, type) PROVE Goes'
    BY <1>0, <1>1, <2>1, <2>3, ThreadsOfKeys DEF Sends
  <2> QED BY <1>8, <2>2, <2>3, Sent
<1> QED BY <1>2, <1>3, <1>4, <1>5, <1>6, <1>7, <1>8, Steps DEF Handle

-----------------------------------------------------------------------------
\* A key is finished when its result is taken, and by no other step.

LEMMA NoneExecutes ==
  ASSUME IInv, mu = None
  PROVE  \A k \in Keys : ~Executing(k)
BY NoneAssumption DEF IInv, Mutex, Executing

LEMMA StillExecuting ==
  ASSUME IInv, LoopStep \/ Propose \/ (\E q \in Requests : ProposeFromMain(q))
               \/ \E t \in Threads : HandlePreprepare(t) \/ HandlePrepare(t) \/ Send(t),
         NEW k \in Keys, Executing(k)
  PROVE  Executing(k)'
<1>0. pc \in [Threads -> States]
  BY DEF IInv, Types
<1>1. PICK u \in Threads : pc[u] = "execute" /\ Message(u).key = k
  BY DEF Executing
<1>2. mu # None /\ mu = u
  BY <1>1, NoneAssumption DEF IInv, Mutex
<1>3. SUFFICES pc'[u] = "execute" /\ Message(u)' = Message(u)
  BY <1>1 DEF Executing
<1>4. CASE LoopStep
  BY <1>0, <1>1, <1>4, LoopFrame, ThreadsOfKeys DEF Message
<1>5. CASE \E q \in Requests : ProposeFromMain(q)
  BY <1>1, <1>5 DEF ProposeFromMain, Message
<1>6. ASSUME NEW t \in Threads, Send(t) PROVE pc'[u] = "execute" /\ Message(u)' = Message(u)
  <2>1. item' = item
    BY <1>6 DEF Send
  <2>2. CASE SendsPreprepare
    BY <1>1, <1>2, <2>2, ThreadsOfKeys DEF SendsPreprepare
  <2>3. ASSUME NEW j \in Keys, NEW type, Sends(t, j, type) PROVE pc'[u] = "execute"
    BY <1>0, <1>1, <2>3 DEF Sends
  <2> QED BY <1>1, <1>2, <1>6, <2>1, <2>2, <2>3, Sent DEF Message, SendsPreprepare
<1> QED BY <1>2, <1>4, <1>5, <1>6 DEF Propose, HandlePreprepare, HandlePrepare

LEMMA FinishedStep ==
  ASSUME IInv, Work, NEW k \in Finished'
  PROVE  k \in Finished \/ (TakeResult /\ k = Head(results))
<1>0. k \in Keys /\ Quorate(k)' /\ ~Returned(k)' /\ ~Executing(k)' /\ results \in Seq(Keys)
  BY DEF Finished, IInv, Types
<1>1. CASE TakeResult
  <2>1. commits' = commits /\ results # <<>> /\ results' = Tail(results)
    BY <1>1 DEF TakeResult, consensus
  <2>2. ~Executing(k)
    BY <1>0, <1>1, StillExecuting DEF LoopStep
  <2>3. Returned(k) => k = Head(results)
    BY <1>0, <2>1, HoldsTail, ZenonT(40) DEF Returned, Holds
  <2> QED BY <1>0, <1>1, <2>1, <2>2, <2>3 DEF Finished, Quorate
<1>2. ASSUME NEW t \in Threads, execute(t) PROVE k \in Finished
  <2>1. PICK j \in Keys : Executes(t, j)
    BY <1>2, Executed
  <2>2. \A e : Holds(results', e) <=> Holds(results, e) \/ e = j
    BY <1>0, <2>1, HoldsAppend DEF Executes
  <2>3. ~Returned(k) /\ k # j
    BY <1>0, <2>2 DEF Returned, Holds
  <2>4. ~Executing(k)
    BY <2>1, <2>3, NoneAssumption DEF Executes, Executing, IInv, Mutex
  <2>5. commits' = commits
    BY <1>2 DEF execute, consensus
  <2> QED BY <1>0, <2>3, <2>4, <2>5 DEF Finished, Quorate
<1>3. ASSUME NEW t \in Threads, HandleCommit(t) PROVE k \in Finished
  <2>1. PICK j \in Keys, from \in Peers \cup {Self} :
           /\ TakesCommit(t, j, from) /\ UNCHANGED <<prepares, results>>
           /\ Quorate(j)' /\ ~Quorate(j) => Executing(j)'
    BY <1>3, StartsExecution
  <2>2. commits \in [Keys -> SUBSET (Peers \cup {Self})]
    BY DEF IInv, Types
  <2>3. \A i \in Keys : i # j => commits'[i] = commits[i]
    BY <2>1, <2>2 DEF TakesCommit
  <2>4. Quorate(k)
    BY <1>0, <2>1, <2>3 DEF Quorate
  <2>5. ~Returned(k)
    BY <1>0, <2>1 DEF Returned
  <2>6. ~Executing(k)
    BY <1>0, <2>1, NoneExecutes DEF TakesCommit
  <2> QED BY <1>0, <2>4, <2>5, <2>6 DEF Finished
<1>4. CASE ~TakeResult /\ NotCommit /\ ~\E t \in Threads : execute(t)
  <2>1. UNCHANGED <<commits, results>>
    BY <1>4, Quiet
  <2>2. ~Executing(k)
    BY <1>0, <1>4, StillExecuting DEF NotCommit
  <2> QED BY <1>0, <2>1, <2>2 DEF Finished, Quorate, Returned
<1> QED BY <1>1, <1>2, <1>3, <1>4, Steps DEF Handle, NotCommit

LEMMA AnsweredGrows == ASSUME IInv, Work PROVE answered \subseteq answered'
<1>1. CASE LoopStep
  BY <1>1 DEF LoopStep, TakeConsensus, TakeShard, TakeForward, TakeResult, TakeBroadcast,
     TakeShardBroadcast, Forward, BroadcastToShard
<1>2. CASE Propose \/ \E q \in Requests : ProposeFromMain(q)
  BY <1>2 DEF Propose, ProposeFromMain
<1> QED BY <1>1, <1>2, HandlerFrame, Steps

LEMMA BackStep == ASSUME IInv, Back, Work PROVE Back'
<1>1. SUFFICES ASSUME NEW k \in Finished' PROVE log'[k] \in answered'
  BY DEF Back
<1>2. CASE k \in Finished
  <2>1. k \in Keys /\ k \in 1..Len(log) /\ log \in Seq(Requests)
    BY <1>2, QuorateGivenOut, GivenOut DEF Finished, IInv, Types
  <2>2. log'[k] = log[k]
    <3>1. CASE Propose
      <4>1. log' = Append(log, item) /\ item \in Requests
        BY <3>1 DEF Propose, IInv, Places, LoopPlaces
      <4> QED BY <2>1, <4>1
    <3> QED BY <3>1, Growing
  <2> QED BY <1>2, <2>2, AnsweredGrows DEF Back
<1>3. CASE TakeResult /\ k = Head(results)
  <2>1. log' = log /\ log[k] \in answered'
    BY <1>3 DEF TakeResult, consensus
  <2> QED BY <2>1
<1> QED BY <1>2, <1>3, FinishedStep

-----------------------------------------------------------------------------

LEMMA InitSteady == Init => Steady
<1> SUFFICES ASSUME Init PROVE Steady
  OBVIOUS
<1>1. /\ \A t \in Goroutines : pc[t] = "idle"
      /\ \A k \in Keys : prepares[k] = {} /\ commits[k] = {}
      /\ log = <<>> /\ pending = Requests
  BY ThreadsOfKeys DEF Init
<1>2. Found /\ Handed /\ Leaves
  BY <1>1 DEF Found, Handed, Leaves
<1>3. \A k \in Keys : ~(Cardinality(prepares[k]) >= Required) /\ ~(Cardinality(commits[k]) >= Required)
  BY <1>1, NotAlone
<1>4. Goes
  BY <1>1, <1>3, ThreadsOfKeys DEF Goes
<1>5. Back
  BY <1>3 DEF Back, Finished, Quorate
<1> QED BY <1>2, <1>4, <1>5 DEF Steady

LEMMA WorkSteady == IInv /\ Steady /\ [Work]_vars => Steady'
<1> SUFFICES ASSUME IInv, Steady, [Work]_vars PROVE Steady'
  OBVIOUS
<1>1. CASE Work
  BY <1>1, FoundStep, HandedStep, LeavesStep, GoesStep, BackStep DEF Steady
<1>2. CASE UNCHANGED vars
  BY <1>2 DEF vars, consensus, channels, Steady, Found, Holds, Proposing, Handed, Leaves, Goes,
     Back, Finished, Quorate, Returned, Executing, Message
<1> QED BY <1>1, <1>2

\* A dead node has no state that IInv is about, and takes no step.
SteadyUntilDead == (IInv /\ Steady) \/ Dead

LEMMA NextSteady == SteadyUntilDead /\ [Next]_vars => SteadyUntilDead'
<1> SUFFICES ASSUME SteadyUntilDead, [Next]_vars PROVE SteadyUntilDead'
  OBVIOUS
<1>1. CASE Dead
  BY <1>1, DeadStays DEF SteadyUntilDead, Dead, TypeOK, vars, consensus, channels
<1>2. CASE IInv /\ Steady /\ [Work]_vars
  BY <1>2, WorkIInv, WorkSteady DEF SteadyUntilDead
<1>3. CASE IInv /\ \E t \in Threads : Panic(t)
  BY <1>3, Dies DEF SteadyUntilDead
<1> QED BY <1>1, <1>2, <1>3 DEF Next, SteadyUntilDead

\* Nothing that a node was asked, has numbered or has counted is dropped, unless
\* the node dies.
THEOREM NothingDropped == Spec => []SteadyUntilDead
<1>1. Init => SteadyUntilDead
  BY InitIInv, InitSteady DEF SteadyUntilDead
<1> QED BY <1>1, NextSteady, PTL DEF Spec

\* With the node, those it hears of a key are a quorum.
QuorumHeard == \A k \in Keys : Cardinality(Heard[k]) + 1 >= Required

LEMMA FullQuorum ==
  ASSUME QuorumHeard, NEW k \in Keys, NEW S \in SUBSET (Peers \cup {Self}),
         Heard[k] \subseteq S, Self \in S
  PROVE  Cardinality(S) >= Required
<1>1. IsFiniteSet(Peers \cup {Self})
  BY NodesAssumption, FS_AddElement
<1>2. Heard[k] \cup {Self} \subseteq S /\ IsFiniteSet(S)
  BY <1>1, FS_Subset
<1>3. Self \notin Heard[k] /\ IsFiniteSet(Heard[k])
  BY NodesAssumption, RequestsAssumption, FS_Subset
<1>4. Cardinality(Heard[k] \cup {Self}) = Cardinality(Heard[k]) + 1
  BY <1>3, FS_AddElement
<1>5. Cardinality(Heard[k] \cup {Self}) <= Cardinality(S)
  BY <1>2, FS_Subset
<1>6. Cardinality(Heard[k]) \in Nat /\ Cardinality(S) \in Nat /\ Required \in Nat
  BY <1>2, <1>3, NodesAssumption, FS_CardinalityType
<1> QED BY <1>4, <1>5, <1>6 DEF QuorumHeard

LEMMA RestAnswered ==
  ASSUME QuorumHeard, IInv, Steady, AtRest
  PROVE  Requests \ pending \subseteq answered
<1>0. /\ pc \in [Threads -> States] /\ Places /\ Run \in Threads
      /\ prepares \in [Keys -> SUBSET (Peers \cup {Self})]
      /\ commits \in [Keys -> SUBSET (Peers \cup {Self})]
      /\ mu \in Threads \cup {None} /\ shardMessages \in Nat
  BY ThreadsOfKeys DEF IInv, Types
\* Nobody is left with the mutex, or waiting for a channel.
<1>1. \A t \in Threads : pc[t] # "execute"
  BY RoomForResult DEF AtRest, Ready
<1>2. mu = None
  <2>1. pc[Run] # "send"
    BY <1>0, RoomForBroadcast DEF AtRest, Ready
  <2> QED BY <1>0, <1>1, <2>1 DEF IInv, Mutex
<1>3. pc[Run] = "select"
  BY <1>0, <1>1, <1>2, RoomForRequest, RoomForShardMessage, RoomForBroadcast
  DEF AtRest, Ready, LoopReady, Places, LoopPlaces
<1>4. /\ forward = <<>> /\ results = <<>> /\ broadcasts = <<>>
      /\ \A m \in Messages : ~Coming(m)
  BY <1>3 DEF AtRest, LoopReady
<1>5. ASSUME NEW t \in Goroutines PROVE pc[t] \in {"idle", "done"}
  <2>1. Len(broadcasts) < ChanelSize
    BY <1>4, Numbers
  <2>2. pc[t] \notin {"lock", "send", "execute"} /\ t.key \in Keys
    BY <1>1, <1>2, <2>1, ThreadsOfKeys DEF AtRest, Ready
  <2> QED BY <1>0, <2>2, ThreadsOfKeys DEF Places, KeyPlaces
\* So each key has gone all the way.
<1>6. ASSUME NEW k \in 1..Len(log) PROVE log[k] \in answered
  <2>1. k \in Keys
    BY GivenOut
  <2>2. k \in announced /\ pc[OwnPreprepare(k)] # "idle"
    BY <1>3, <1>4 DEF Steady, Leaves, Handed, Proposing, Holds
  <2>3. \A p \in Heard[k] : p \in prepares[k] /\ p \in commits[k]
    <3>1. ASSUME NEW p \in Heard[k] PROVE p \in prepares[k] /\ p \in commits[k]
      <4>0. p \in Peers
        BY <2>1, RequestsAssumption
      <4>1. [task |-> "HandlePrepare", key |-> k, from |-> p] \in Messages
            /\ [task |-> "HandleCommit", key |-> k, from |-> p] \in Messages
        BY <2>1, <4>0 DEF Messages
      <4> QED BY <1>4, <2>2, <4>1 DEF Coming
    <3> QED BY <3>1
  <2>4. Self \in prepares[k]
    BY <1>5, <2>1, <2>2, ThreadsOfKeys DEF Steady, Goes
  <2>5. Cardinality(prepares[k]) >= Required
    BY <1>0, <2>1, <2>3, <2>4, FullQuorum
  <2>6. Self \in commits[k]
    BY <1>5, <2>1, <2>5, ThreadsOfKeys DEF Steady, Goes
  <2>7. Quorate(k)
    BY <1>0, <2>1, <2>3, <2>6, FullQuorum DEF Quorate
  <2>8. k \in Finished
    BY <1>1, <1>4, <2>1, <2>7 DEF Finished, Returned, Executing
  <2> QED BY <2>8 DEF Steady, Back
<1>7. ASSUME NEW q \in Requests \ pending PROVE q \in answered
  <2>1. Holds(log, q)
    BY <1>3, <1>4 DEF Steady, Found, Holds
  <2>2. PICK k \in 1..Len(log) : log[k] = q
    BY <2>1 DEF Holds, IInv, Types
  <2> QED BY <1>6, <2>2
<1> QED BY <1>7

\* When no goroutine of a primary can take a step, it died in execute, or every
\* request proposed at it was executed and its result was taken from the channel
\* by the Run loop of node.go: no order of the handlers, of their goroutines and
\* of the answers of the others makes the node stop before.  It must hear a
\* quorum of each key, itself counted: of a committee of four, all others, or
\* those that one death leaves.
THEOREM RestsAnswered ==
  ASSUME QuorumHeard
  PROVE  Spec => []AnsweredAtRest
<1>1. IInv /\ Steady => AnsweredAtRest
  BY RestAnswered DEF AnsweredAtRest
<1>2. Dead => AnsweredAtRest
  BY ThreadsOfKeys DEF Dead, AnsweredAtRest, AtRest
<1>3. SteadyUntilDead => AnsweredAtRest
  BY <1>1, <1>2 DEF SteadyUntilDead
<1> QED BY <1>3, NothingDropped, PTL

=============================================================================
