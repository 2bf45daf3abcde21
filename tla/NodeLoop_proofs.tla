--------------------------- MODULE NodeLoop_proofs ---------------------------
(***************************************************************************)
(* Proofs about NodeLoop, for every number of requests and of peers, every *)
(* quorum and every channel size that RoomAssumption allows: the Run loop  *)
(* never waits on itself.                                                  *)
(*                                                                         *)
(* Each channel is bounded by a count: the requests there are, the keys    *)
(* that can be executed, what executions give rise to, and the broadcasts  *)
(* of earlier keys, of which two of the three can be in the channel at a   *)
(* time.  IInv is those counts and what makes each thing counted happen    *)
(* once.                                                                   *)
(***************************************************************************)
EXTENDS NodeLoop, FiniteSetTheorems, SequenceTheorems, TLAPS

\* The goroutines of a key.
OwnPreprepare(k) == Goroutine("HandlePreprepare", k)
OwnPrepare(k) == Goroutine("HandlePrepare", k)
OwnCommit(k) == Goroutine("HandleCommit", k)
SendPrepare(k) == Goroutine("BroadcastPrepare", k)
SendCommit(k) == Goroutine("BroadcastCommit", k)

States == {"select", "forward", "propose", "fanout", "idle", "lock", "execute", "send", "done"}

\* Types, but for the room in the channels, which IInv leaves.
Types ==
  /\ pending \subseteq Requests /\ answered \subseteq Requests
  /\ forward \in Seq(Requests) /\ log \in Seq(Requests) /\ Len(log) <= MaxRequests
  /\ prepares \in [Keys -> SUBSET (Peers \cup {Self})]
  /\ commits \in [Keys -> SUBSET (Peers \cup {Self})]
  /\ mu \in Threads \cup {None}
  /\ pc \in [Threads -> States]
  /\ item \in Requests \cup Messages \cup {None}
  /\ left \in 0..MaxFanout /\ shardMessages \in Nat
  /\ broadcasts \in Seq(Broadcasts) /\ Len(broadcasts) <= ChanelSize
  /\ announced \subseteq Keys
  /\ results \in Seq(Keys)

\* Which states a thread can be in, and what the loop is on then.
KeyPlaces ==
  \A k \in Keys :
    /\ pc[OwnPreprepare(k)] \in {"idle", "lock", "done"}
    /\ pc[OwnPrepare(k)] \in {"idle", "lock", "done"}
    /\ pc[OwnCommit(k)] \in {"idle", "lock", "execute", "done"}
    /\ pc[SendPrepare(k)] \in {"idle", "send", "done"}
    /\ pc[SendCommit(k)] \in {"idle", "send", "done"}
LoopPlaces ==
  /\ pc[Run] \in {"select", "forward", "propose", "fanout", "lock", "execute", "send"}
  /\ pc[Run] \in {"forward", "propose"} => item \in Requests
  /\ pc[Run] \in {"lock", "execute"} => item \in Messages /\ item.key \in announced
Places == KeyPlaces /\ LoopPlaces

\* Only a thread that sends under the mutex keeps it from one step to the next.
Mutex ==
  /\ \A t \in Threads : pc[t] = "execute" => mu = t
  /\ pc[Run] = "send" => mu = Run
  /\ mu # None => pc[mu] = "execute" \/ (mu = Run /\ pc[Run] = "send")

\* A request is in one place.
Requested ==
  Len(forward) + Len(log) + Cardinality(pending)
    + (IF pc[Run] \in {"forward", "propose"} THEN 1 ELSE 0) <= MaxRequests

\* A key is executed once: it has its quorum from then on.
Quorate(k) == Cardinality(commits[k]) >= Required
Returned(k) == \E i \in DOMAIN results : results[i] = k
Executing(k) == \E t \in Threads : pc[t] = "execute" /\ Message(t).key = k
ExecutedOnce ==
  /\ \A i, j \in DOMAIN results : results[i] = results[j] => i = j
  /\ \A i \in DOMAIN results : Quorate(results[i])
  /\ \A t \in Threads : pc[t] = "execute" =>
       Message(t).key \in Keys /\ Quorate(Message(t).key) /\ ~Returned(Message(t).key)

\* The keys the orchestration has had the results of, and the shard messages
\* those gave rise to.
Finished == {k \in Keys : Quorate(k) /\ ~Returned(k) /\ ~Executing(k)}
FannedOut ==
  /\ pc[Run] = "fanout" => left >= 1
  /\ pc[Run] # "fanout" => left = 0
  /\ shardMessages + left <= MaxFanout * Cardinality(Finished)

\* A key has no goroutine before it is given out, nor one that broadcasts while
\* its pre-prepare is.
Started ==
  /\ \A k \in Keys : k > Len(log) =>
       \A t \in Goroutines : t.key = k => pc[t] = "idle"
  /\ announced \subseteq 1..Len(log)
  /\ pc[Run] = "send" =>
       /\ Len(log) \in Keys /\ Len(log) \notin announced
       /\ pc[OwnPreprepare(Len(log))] = "idle"
  /\ \A k \in Keys : pc[OwnPreprepare(k)] \in {"idle", "lock"} => pc[SendPrepare(k)] = "idle"

\* Peers answer what was announced, and a commit is broadcast after they have.
Answered ==
  /\ \A k \in Keys : ~(prepares[k] \subseteq {Self}) => k \in announced
  /\ \A k \in Keys : ~(commits[k] \subseteq {Self}) => k \in announced
  /\ \A k \in Keys : pc[SendCommit(k)] # "idle" =>
       k \in announced /\ Cardinality(prepares[k]) >= Required

\* A pre-prepare and the commit of its key are never in the channel together.
Slot(b) == <<IF b.type = "PREPARE" THEN 1 ELSE 2, b.key>>
Distinct == \A i, j \in DOMAIN broadcasts : Slot(broadcasts[i]) = Slot(broadcasts[j]) => i = j
Waiting ==
  \A i \in DOMAIN broadcasts :
    LET b == broadcasts[i] IN
    /\ b.key <= Len(log)
    /\ pc[Run] = "send" => b.key # Len(log)
    /\ b.type = "PREPREPARE" => b.key \notin announced
    /\ b.type = "PREPARE" => pc[SendPrepare(b.key)] = "done"
    /\ b.type = "COMMIT" => pc[SendCommit(b.key)] = "done"
Channel == Distinct /\ Waiting

IInv ==
  /\ Types /\ Places /\ Mutex
  /\ Requested /\ ExecutedOnce /\ FannedOut
  /\ Started /\ Answered /\ Channel

-----------------------------------------------------------------------------

LEMMA Numbers ==
  /\ MaxRequests \in Nat /\ IsFiniteSet(Requests)
  /\ IsFiniteSet(Keys) /\ Cardinality(Keys) = MaxRequests
  /\ MaxFanout \in Nat /\ ChanelSize \in Nat \ {0}
<1>1. MaxRequests \in Nat /\ IsFiniteSet(Requests)
  BY RequestsAssumption, FS_CardinalityType DEF MaxRequests
<1>2. IsFiniteSet(Keys) /\ Cardinality(Keys) = MaxRequests
  BY <1>1, FS_Interval DEF Keys
<1> QED BY <1>1, <1>2, RequestsAssumption, RoomAssumption

\* A sequence without repetitions is no longer than the set of its values.
LEMMA NoLonger ==
  ASSUME NEW T, IsFiniteSet(T), NEW n \in Nat, NEW f \in [1..n -> T],
         \A i, j \in 1..n : f[i] = f[j] => i = j
  PROVE  n <= Cardinality(T)
<1>1. f \in Injection(1..n, T)
  BY DEF Injection, IsInjective
<1>2. Cardinality(1..n) = n
  BY FS_Interval
<1> QED BY <1>1, <1>2, FS_Injection

LEMMA Times ==
  ASSUME NEW a \in Nat, NEW b \in Nat, NEW c \in Nat, b <= c
  PROVE  a * b <= a * c /\ a * b \in Nat /\ a * (b + 1) = a * b + a
OBVIOUS

LEMMA Sums ==
  ASSUME NEW a \in Nat, NEW b \in Nat, NEW c \in Nat, NEW d \in Nat
  PROVE  /\ a <= c => a + b <= c + b
         /\ \A m, n \in Nat : a + b <= c + d /\ c + d <= m /\ m <= n => a + b <= n
OBVIOUS

-----------------------------------------------------------------------------
\* The counts leave room.

LEMMA RoomForRequest ==
  ASSUME IInv
  PROVE  Len(forward) <= ChanelSize /\ (pc[Run] = "forward" => Len(forward) < ChanelSize)
<1>1. Len(forward) \in Nat /\ Len(log) \in Nat
  BY DEF IInv, Types
<1>2. Cardinality(pending) \in Nat
  BY Numbers, FS_Subset, FS_CardinalityType DEF IInv, Types
<1>3. Len(forward) <= MaxRequests /\ (pc[Run] = "forward" => Len(forward) < MaxRequests)
  BY <1>1, <1>2, Numbers DEF IInv, Requested
<1>4. MaxRequests <= ChanelSize
  BY Numbers, RoomAssumption
<1> QED BY <1>1, <1>3, <1>4, Numbers

LEMMA RoomForResult ==
  ASSUME IInv
  PROVE  /\ Len(results) <= ChanelSize
         /\ \A t \in Threads : pc[t] = "execute" => Len(results) < ChanelSize
<1>1. results \in Seq(Keys)
  BY DEF IInv, Types
<1>2. MaxRequests <= ChanelSize
  BY Numbers, RoomAssumption
<1>3. Len(results) <= ChanelSize
  <2>1. results \in [1..Len(results) -> Keys] /\ Len(results) \in Nat
    BY <1>1
  <2>2. \A i, j \in 1..Len(results) : results[i] = results[j] => i = j
    BY <1>1 DEF IInv, ExecutedOnce
  <2>3. Len(results) <= Cardinality(Keys)
    BY <2>1, <2>2, NoLonger, Numbers
  <2> QED BY <1>2, <2>1, <2>3, Numbers
<1>4. ASSUME NEW t \in Threads, pc[t] = "execute" PROVE Len(results) < ChanelSize
  <2> DEFINE k == Message(t).key
             T == Keys \ {k}
  <2>1. k \in Keys /\ ~Returned(k)
    BY <1>4 DEF IInv, ExecutedOnce
  <2> HIDE DEF k
  <2>2. \A i \in DOMAIN results : results[i] \in T
    BY <1>1, <2>1 DEF Returned
  <2>3. results \in [1..Len(results) -> T] /\ Len(results) \in Nat
    BY <1>1, <2>2
  <2>4. IsFiniteSet(T) /\ Cardinality(T) = MaxRequests - 1
    BY <2>1, Numbers, FS_RemoveElement
  <2>5. \A i, j \in 1..Len(results) : results[i] = results[j] => i = j
    BY <1>1 DEF IInv, ExecutedOnce
  <2> HIDE DEF T
  <2>6. Len(results) <= Cardinality(T)
    BY <2>3, <2>4, <2>5, NoLonger
  <2> QED BY <1>2, <2>3, <2>4, <2>6, Numbers
<1> QED BY <1>3, <1>4

LEMMA FinishedFinite ==
  IsFiniteSet(Finished) /\ Cardinality(Finished) \in Nat /\ Cardinality(Finished) <= MaxRequests
<1>1. Finished \in SUBSET Keys
  BY DEF Finished
<1> QED BY <1>1, Numbers, FS_Subset, FS_CardinalityType

LEMMA RoomForShardMessage ==
  ASSUME IInv
  PROVE  shardMessages <= ChanelSize /\ (pc[Run] = "fanout" => shardMessages < ChanelSize)
<1>1. MaxFanout * Cardinality(Finished) <= MaxFanout * MaxRequests
      /\ MaxFanout * Cardinality(Finished) \in Nat /\ MaxFanout * MaxRequests \in Nat
  BY Numbers, FinishedFinite, Times
<1>2. MaxFanout * MaxRequests <= ChanelSize
  BY RoomAssumption
<1>3. shardMessages \in Nat /\ left \in Nat
  BY RequestsAssumption DEF IInv, Types
<1>4. shardMessages + left <= MaxFanout * Cardinality(Finished) /\ (pc[Run] = "fanout" => left >= 1)
  BY DEF IInv, FannedOut
<1> HIDE DEF Finished
<1> QED BY <1>1, <1>2, <1>3, <1>4, Numbers

LEMMA RoomForBroadcast ==
  ASSUME IInv, pc[Run] = "send"
  PROVE  Len(broadcasts) < ChanelSize
<1> DEFINE n == Len(log) - 1
           T == {1, 2} \X (1..n)
           f == [i \in 1..Len(broadcasts) |-> Slot(broadcasts[i])]
<1>1. Len(log) \in Keys /\ n \in Nat /\ n <= MaxRequests - 1
  BY Numbers DEF IInv, Started, Keys
<1>2. broadcasts \in Seq(Broadcasts) /\ Len(broadcasts) \in Nat /\ DOMAIN broadcasts = 1..Len(broadcasts)
  BY DEF IInv, Types
<1>3. IsFiniteSet(T) /\ Cardinality(T) = 2 * n
  <2>1. IsFiniteSet(1..n) /\ Cardinality(1..n) = n
    BY <1>1, FS_Interval
  <2>2. IsFiniteSet({1, 2}) /\ Cardinality({1, 2}) = 2
    <3>1. \A k \in Nat : IsFiniteSet(1..k) /\ Cardinality(1..k) = k
      BY FS_Interval
    <3>2. {1, 2} = 1..2
      OBVIOUS
    <3>3. 2 \in Nat
      OBVIOUS
    <3> QED BY <3>1, <3>2, <3>3, Zenon
  <2> QED BY <2>1, <2>2, FS_Product, SMTT(20)
<1>4. f \in [1..Len(broadcasts) -> T]
  <2>1. ASSUME NEW i \in 1..Len(broadcasts) PROVE Slot(broadcasts[i]) \in T
    <3>1. broadcasts[i] \in Broadcasts
      BY <1>2
    <3>2. broadcasts[i].key \in Keys
      BY <3>1 DEF Broadcasts
    <3>3. broadcasts[i].key <= Len(log) /\ broadcasts[i].key # Len(log)
      BY <1>2 DEF IInv, Channel, Distinct, Waiting
    <3>4. broadcasts[i].key \in 1..n
      BY <1>1, <3>2, <3>3, Numbers DEF Keys
    <3> QED BY <3>4 DEF Slot
  <2> QED BY <2>1
<1>5. \A i, j \in 1..Len(broadcasts) : f[i] = f[j] => i = j
  BY <1>2 DEF IInv, Channel, Distinct, Waiting
<1> HIDE DEF f, T
<1>6. Len(broadcasts) <= 2 * n
  BY <1>2, <1>3, <1>4, <1>5, NoLonger
<1>7. ChanelSize >= 2 * (MaxRequests - 1) + 1
  BY RoomAssumption
<1> QED BY <1>1, <1>2, <1>6, <1>7, Numbers

LEMMA CountsLeaveRoom == IInv => NeverStuck
<1> SUFFICES ASSUME IInv PROVE NeverStuck
  OBVIOUS
<1>1. ~Blocked(Run)
  BY RoomForBroadcast, RoomForResult DEF Blocked, Threads
<1>2. ASSUME pc[Run] \in {"lock", "propose"}, NEW t \in Threads, mu = t
      PROVE  ~Blocked(t)
  <2>1. pc[t] = "execute"
    BY <1>2, NoneAssumption DEF IInv, Mutex
  <2> QED BY <2>1, RoomForResult DEF Blocked
<1> QED BY <1>1, <1>2, RoomForRequest, RoomForShardMessage DEF NeverStuck

-----------------------------------------------------------------------------
\* The actions of the handlers, in terms of the goroutines of a key.

LEMMA ThreadsOfKeys ==
  /\ Run \in Threads /\ Run.task = "Run"
  /\ \A k \in Keys :
       /\ OwnPreprepare(k) \in Goroutines /\ OwnPrepare(k) \in Goroutines
       /\ OwnCommit(k) \in Goroutines /\ SendPrepare(k) \in Goroutines
       /\ SendCommit(k) \in Goroutines
       /\ OwnPreprepare(k).task = "HandlePreprepare" /\ OwnPreprepare(k).key = k
       /\ OwnPrepare(k).task = "HandlePrepare" /\ OwnPrepare(k).key = k
       /\ OwnCommit(k).task = "HandleCommit" /\ OwnCommit(k).key = k
       /\ SendPrepare(k).task = "BroadcastPrepare" /\ SendPrepare(k).key = k
       /\ SendCommit(k).task = "BroadcastCommit" /\ SendCommit(k).key = k
  /\ \A t \in Goroutines :
       /\ t \in Threads /\ t # Run /\ t.key \in Keys
       /\ t \in {OwnPreprepare(t.key), OwnPrepare(t.key), OwnCommit(t.key),
                 SendPrepare(t.key), SendCommit(t.key)}
  /\ \A t \in Threads : t # Run => t \in Goroutines
BY DEF Run, Goroutine, Threads, Goroutines, Handlers, Broadcasters, OwnPreprepare,
   OwnPrepare, OwnCommit, SendPrepare, SendCommit

LEMMA LogLength ==
  ASSUME IInv
  PROVE  Len(log) \in Nat /\ \A k \in Keys : k \in Nat /\ (k > Len(log) \/ k <= Len(log))
<1>1. Len(log) \in Nat
  BY DEF IInv, Types
<1> QED BY <1>1, Numbers DEF Keys

\* What a handler is on.
LEMMA Handled ==
  ASSUME IInv, NEW t \in Threads, pc[t] \in {"lock", "execute"}
  PROVE  /\ Message(t).key \in Keys /\ Message(t).key <= Len(log)
         /\ \/ t = Run /\ Message(t).from \in Peers /\ Message(t).key \in announced
               /\ Message(t).task \in {"HandlePrepare", "HandleCommit"}
            \/ t # Run /\ Message(t).from = Self
               /\ \/ Message(t).task = "HandlePreprepare" /\ t = OwnPreprepare(Message(t).key)
                  \/ Message(t).task = "HandlePrepare" /\ t = OwnPrepare(Message(t).key)
                  \/ Message(t).task = "HandleCommit" /\ t = OwnCommit(Message(t).key)
<1>1. CASE t = Run
  <2>1. item \in Messages /\ item.key \in announced
    BY <1>1 DEF IInv, Places, LoopPlaces, KeyPlaces
  <2>2. item.key \in 1..Len(log)
    BY <2>1 DEF IInv, Started
  <2>3. Message(t) = item
    BY <1>1 DEF Message
  <2>4. item.key \in Keys /\ item.from \in Peers /\ item.task \in {"HandlePrepare", "HandleCommit"}
    BY <2>1 DEF Messages
  <2>5. item.key <= Len(log)
    BY <2>2
  <2> QED BY <1>1, <2>1, <2>3, <2>4, <2>5
<1>2. CASE t # Run
  <2>1. t \in Goroutines /\ t.key \in Keys
    BY <1>2, ThreadsOfKeys
  <2>2. t \in {OwnPreprepare(t.key), OwnPrepare(t.key), OwnCommit(t.key)}
    BY <2>1, ThreadsOfKeys DEF IInv, Places, LoopPlaces, KeyPlaces
  <2>3. Message(t).key = t.key /\ Message(t).task = t.task /\ Message(t).from = Self
    BY <1>2 DEF Message
  <2>4. t.key <= Len(log)
    BY <2>1, LogLength DEF IInv, Started
  <2> QED BY <1>2, <2>1, <2>2, <2>3, <2>4, ThreadsOfKeys
<1> QED BY <1>1, <1>2

\* Where a thread is when it has done what it was on.
Ended(t) == IF t = Run THEN "select" ELSE "done"

TakesPreprepare(t, k) ==
  /\ t = OwnPreprepare(k) /\ pc[t] = "lock" /\ mu = None /\ k <= Len(log)
  /\ pc' = [pc EXCEPT ![t] = "done", ![SendPrepare(k)] = "send",
                      ![OwnPrepare(k)] = "lock"]

LEMMA Preprepared ==
  ASSUME IInv, NEW t \in Threads, HandlePreprepare(t)
  PROVE  \E k \in Keys : TakesPreprepare(t, k)
<1> DEFINE k == Message(t).key
<1>1. pc[t] = "lock" /\ mu = None /\ Message(t).task = "HandlePreprepare"
  BY DEF HandlePreprepare
<1>2. k \in Keys /\ k <= Len(log) /\ t # Run /\ t = OwnPreprepare(k)
  BY <1>1, Handled
<1>3. t.key = k
  BY <1>2, ThreadsOfKeys
<1>4. Return(t, {SendPrepare(k), OwnPrepare(k)})
  BY <1>3 DEF HandlePreprepare, SendPrepare, OwnPrepare
<1> HIDE DEF k
<1>5. pc \in [Threads -> States]
  BY DEF IInv, Types
<1>6. /\ SendPrepare(k).task \in Broadcasters /\ OwnPrepare(k).task \notin Broadcasters
      /\ t # SendPrepare(k) /\ t # OwnPrepare(k) /\ SendPrepare(k) # OwnPrepare(k)
  BY <1>2, ThreadsOfKeys DEF Broadcasters
<1>7. pc' = [pc EXCEPT ![t] = "done", ![SendPrepare(k)] = "send", ![OwnPrepare(k)] = "lock"]
  BY <1>2, <1>4, <1>5, <1>6 DEF Return
<1> QED BY <1>1, <1>2, <1>7 DEF TakesPreprepare

TakesPrepare(t, k, from) ==
  /\ pc[t] = "lock" /\ mu = None /\ k <= Len(log)
  /\ \/ t = Run /\ from # Self /\ k \in announced
     \/ t = OwnPrepare(k) /\ from = Self
  /\ prepares' = [prepares EXCEPT ![k] = @ \cup {from}]
  /\ \/ pc' = [pc EXCEPT ![t] = Ended(t)]
     \/ /\ from \notin prepares[k] /\ Cardinality(prepares'[k]) = Required
        /\ pc' = [pc EXCEPT ![t] = Ended(t), ![SendCommit(k)] = "send",
                            ![OwnCommit(k)] = "lock"]

LEMMA Prepared ==
  ASSUME IInv, NEW t \in Threads, HandlePrepare(t)
  PROVE  \E k \in Keys, from \in Peers \cup {Self} : TakesPrepare(t, k, from)
<1> DEFINE k == Message(t).key
           from == Message(t).from
<1>1. pc[t] = "lock" /\ mu = None /\ Message(t).task = "HandlePrepare"
  BY DEF HandlePrepare
<1>2. k \in Keys /\ k <= Len(log)
  BY <1>1, Handled
<1>3. (t = Run /\ from \in Peers /\ k \in announced) \/ (t = OwnPrepare(k) /\ from = Self)
  BY <1>1, Handled
<1>4. Self \notin Peers
  BY NodesAssumption
<1>5. /\ prepares' = [prepares EXCEPT ![k] = @ \cup {from}]
      /\ \/ Return(t, {})
         \/ /\ from \notin prepares[k] /\ Cardinality(prepares'[k]) = Required
            /\ Return(t, {SendCommit(k), OwnCommit(k)})
  BY DEF HandlePrepare, SendCommit, OwnCommit
<1> HIDE DEF k, from
<1>6. pc \in [Threads -> States]
  BY DEF IInv, Types
<1>7. Return(t, {}) => pc' = [pc EXCEPT ![t] = Ended(t)]
  BY <1>6 DEF Return, Ended
<1>8. /\ SendCommit(k).task \in Broadcasters /\ OwnCommit(k).task \notin Broadcasters
      /\ t # SendCommit(k) /\ t # OwnCommit(k) /\ SendCommit(k) # OwnCommit(k)
  BY <1>2, <1>3, ThreadsOfKeys DEF Broadcasters
<1>9. Return(t, {SendCommit(k), OwnCommit(k)}) =>
        pc' = [pc EXCEPT ![t] = Ended(t), ![SendCommit(k)] = "send", ![OwnCommit(k)] = "lock"]
  BY <1>6, <1>8 DEF Return, Ended
<1> QED BY <1>1, <1>2, <1>3, <1>4, <1>5, <1>7, <1>9 DEF TakesPrepare

TakesCommit(t, k, from) ==
  /\ pc[t] = "lock" /\ mu = None /\ k <= Len(log) /\ k = Message(t).key
  /\ \/ t = Run /\ from # Self /\ k \in announced
     \/ t = OwnCommit(k) /\ from = Self
  /\ commits' = [commits EXCEPT ![k] = @ \cup {from}]
  /\ \/ mu' = None /\ pc' = [pc EXCEPT ![t] = Ended(t)]
     \/ /\ from \notin commits[k] /\ Cardinality(commits'[k]) = Required
        /\ mu' = t /\ item' = item
        /\ pc' = [pc EXCEPT ![t] = "execute"]

LEMMA Committed ==
  ASSUME IInv, NEW t \in Threads, HandleCommit(t)
  PROVE  \E k \in Keys, from \in Peers \cup {Self} : TakesCommit(t, k, from)
<1> DEFINE k == Message(t).key
           from == Message(t).from
<1>1. pc[t] = "lock" /\ mu = None /\ Message(t).task = "HandleCommit"
  BY DEF HandleCommit
<1>2. k \in Keys /\ k <= Len(log)
  BY <1>1, Handled
<1>3. (t = Run /\ from \in Peers /\ k \in announced) \/ (t = OwnCommit(k) /\ from = Self)
  BY <1>1, Handled
<1>4. Self \notin Peers
  BY NodesAssumption
<1>5. /\ commits' = [commits EXCEPT ![k] = @ \cup {from}]
      /\ \/ mu' = mu /\ Return(t, {})
         \/ /\ from \notin commits[k] /\ Cardinality(commits'[k]) = Required
            /\ mu' = t /\ item' = item /\ pc' = [pc EXCEPT ![t] = "execute"]
  BY DEF HandleCommit
<1>6. pc \in [Threads -> States]
  BY DEF IInv, Types
<1>7. Return(t, {}) => pc' = [pc EXCEPT ![t] = Ended(t)]
  BY <1>6 DEF Return, Ended
<1> QED BY <1>1, <1>2, <1>3, <1>4, <1>5, <1>7 DEF TakesCommit

Executes(t, k) ==
  /\ pc[t] = "execute" /\ k = Message(t).key /\ k <= Len(log)
  /\ t = Run \/ t = OwnCommit(k)
  /\ results' = Append(results, k)
  /\ pc' = [pc EXCEPT ![t] = Ended(t)]

LEMMA Executed ==
  ASSUME IInv, NEW t \in Threads, execute(t)
  PROVE  \E k \in Keys : Executes(t, k)
<1>1. pc[t] = "execute" /\ results' = Append(results, Message(t).key) /\ Return(t, {})
  BY DEF execute
<1>2. Message(t).key \in Keys /\ Message(t).key <= Len(log)
  BY <1>1, Handled
<1>3. t = Run \/ t = OwnCommit(Message(t).key)
  BY <1>1, <1>2, Handled, ThreadsOfKeys DEF IInv, Places, LoopPlaces, KeyPlaces
<1>4. pc \in [Threads -> States]
  BY DEF IInv, Types
<1>5. pc' = [pc EXCEPT ![t] = Ended(t)]
  BY <1>1, <1>4 DEF Return, Ended
<1> QED BY <1>1, <1>2, <1>3, <1>5 DEF Executes

SendsPreprepare ==
  /\ pc[Run] = "send" /\ mu = Run /\ mu' = None /\ Len(log) \in Keys
  /\ broadcasts' = Append(broadcasts, [type |-> "PREPREPARE", key |-> Len(log)])
  /\ pc' = [pc EXCEPT ![Run] = "select", ![OwnPreprepare(Len(log))] = "lock"]
Sends(t, k, type) ==
  /\ pc[t] = "send" /\ mu' = mu /\ k <= Len(log)
  /\ \/ t = SendPrepare(k) /\ type = "PREPARE"
     \/ t = SendCommit(k) /\ type = "COMMIT"
  /\ broadcasts' = Append(broadcasts, [type |-> type, key |-> k])
  /\ pc' = [pc EXCEPT ![t] = "done"]

LEMMA Sent ==
  ASSUME IInv, NEW t \in Threads, Send(t)
  PROVE  SendsPreprepare \/ \E k \in Keys, type \in {"PREPARE", "COMMIT"} : Sends(t, k, type)
<1>1. pc[t] = "send" /\ broadcasts' = Append(broadcasts, Broadcast(t))
  BY DEF Send
<1>2. pc \in [Threads -> States]
  BY DEF IInv, Types
<1>3. CASE t = Run
  <2>1. mu = Run /\ Len(log) \in Keys
    BY <1>1, <1>3 DEF IInv, Mutex, Started
  <2>2. mu' = None /\ Return(Run, {OwnPreprepare(Len(log))})
    BY <1>3, <2>1 DEF Send, OwnPreprepare
  <2>3. Broadcast(t) = [type |-> "PREPREPARE", key |-> Len(log)]
    BY <1>3, ThreadsOfKeys DEF Broadcast, BroadcastType
  <2>4. OwnPreprepare(Len(log)) # Run /\ OwnPreprepare(Len(log)).task \notin Broadcasters
    BY <2>1, ThreadsOfKeys DEF Broadcasters
  <2>5. pc' = [pc EXCEPT ![Run] = "select", ![OwnPreprepare(Len(log))] = "lock"]
    BY <1>2, <2>2, <2>4 DEF Return
  <2> QED BY <1>1, <1>3, <2>1, <2>2, <2>3, <2>5 DEF SendsPreprepare
<1>4. CASE t # Run
  <2>1. t \in Goroutines /\ t.key \in Keys
    BY <1>4, ThreadsOfKeys
  <2>2. t = SendPrepare(t.key) \/ t = SendCommit(t.key)
    BY <1>1, <2>1, ThreadsOfKeys DEF IInv, Places, LoopPlaces, KeyPlaces
  <2>3. t.key <= Len(log)
    BY <1>1, <2>1, LogLength DEF IInv, Started
  <2>4. mu' = mu
    BY <1>1, <1>4, NoneAssumption DEF Send, IInv, Mutex
  <2>5. pc' = [pc EXCEPT ![t] = "done"]
    BY <1>2, <1>4 DEF Send, Return
  <2>6. t = SendPrepare(t.key) => Broadcast(t) = [type |-> "PREPARE", key |-> t.key]
    BY <1>4, <2>1, ThreadsOfKeys DEF Broadcast, BroadcastType
  <2>7. t = SendCommit(t.key) => Broadcast(t) = [type |-> "COMMIT", key |-> t.key]
    BY <1>4, <2>1, ThreadsOfKeys DEF Broadcast, BroadcastType
  <2> QED BY <1>1, <2>1, <2>2, <2>3, <2>4, <2>5, <2>6, <2>7 DEF Sends
<1> QED BY <1>3, <1>4

LEMMA Pending ==
  ASSUME IInv
  PROVE  /\ IsFiniteSet(pending) /\ Cardinality(pending) \in Nat
         /\ \A q \in pending : Cardinality(pending \ {q}) = Cardinality(pending) - 1
<1>1. IsFiniteSet(pending)
  BY Numbers, FS_Subset DEF IInv, Types
<1> QED BY <1>1, FS_RemoveElement, FS_CardinalityType

LEMMA SentAt ==
  ASSUME IInv, NEW t \in Threads, Send(t)
  PROVE  pc'[Run] = IF t = Run THEN "select" ELSE pc[Run]
<1>1. pc \in [Threads -> States]
  BY DEF IInv, Types
<1>2. CASE t = Run
  <2>1. ASSUME NEW k \in Keys, NEW type, Sends(t, k, type) PROVE t # Run
    <3>1. t = SendPrepare(k) \/ t = SendCommit(k)
      BY <2>1 DEF Sends
    <3> QED BY <3>1, ThreadsOfKeys
  <2>2. SendsPreprepare
    BY <1>2, <2>1, Sent
  <2> QED BY <1>1, <1>2, <2>2, ThreadsOfKeys DEF SendsPreprepare
<1>3. CASE t # Run
  BY <1>1, <1>3, ThreadsOfKeys DEF Send, Return
<1> QED BY <1>2, <1>3

\* A quorum has a peer.
LEMMA NotAlone ==
  ASSUME NEW S, S \subseteq {Self}
  PROVE  ~(Cardinality(S) >= Required)
<1>1. Cardinality({Self}) = 1 /\ IsFiniteSet({Self})
  BY FS_Singleton
<1>2. Cardinality(S) <= 1 /\ Cardinality(S) \in Nat
  BY <1>1, FS_Subset, FS_CardinalityType
<1> QED BY <1>2, NodesAssumption

\* So a key with a quorum of commits is one given out.
LEMMA QuorateGivenOut ==
  ASSUME IInv, NEW k \in Keys, Quorate(k)
  PROVE  k \in announced /\ k <= Len(log) /\ log[k] \in Requests
<1>1. ~(commits[k] \subseteq {Self})
  BY NotAlone DEF Quorate
<1>2. k \in announced
  BY <1>1 DEF IInv, Answered
<1>3. k \in 1..Len(log)
  BY <1>2 DEF IInv, Started
<1>4. log \in Seq(Requests)
  BY DEF IInv, Types
<1> QED BY <1>2, <1>3, <1>4

\* One more voter.
LEMMA OneMore ==
  ASSUME NEW S \in SUBSET (Peers \cup {Self}), NEW x \in Peers \cup {Self}
  PROVE  /\ Cardinality(S) \in Nat /\ Cardinality(S \cup {x}) \in Nat
         /\ Cardinality(S) <= Cardinality(S \cup {x})
         /\ x \notin S => Cardinality(S \cup {x}) = Cardinality(S) + 1
<1>1. IsFiniteSet(Peers \cup {Self})
  BY NodesAssumption, FS_AddElement
<1>2. IsFiniteSet(S)
  BY <1>1, FS_Subset
<1>3. x \in S => S \cup {x} = S
  OBVIOUS
<1> QED BY <1>2, <1>3, FS_AddElement, FS_CardinalityType

-----------------------------------------------------------------------------
\* Each part of IInv is kept by every step.

LEMMA StatesStep == ASSUME IInv, Work PROVE pc' \in [Threads -> States]
<1>1. pc \in [Threads -> States]
  BY DEF IInv, Types
<1>2. CASE \/ \E m \in Messages : TakeConsensus(m)
           \/ \E q \in Requests : TakeShard(q)
           \/ TakeForward \/ TakeResult \/ TakeBroadcast \/ TakeShardBroadcast
  BY <1>1, <1>2 DEF TakeConsensus, TakeShard, TakeForward, TakeResult, TakeBroadcast,
     TakeShardBroadcast, Selected, States
<1>3. CASE Forward \/ BroadcastToShard \/ Propose \/ \E q \in Requests : ProposeFromMain(q)
  BY <1>1, <1>3 DEF Forward, BroadcastToShard, Propose, ProposeFromMain, States
<1>4. ASSUME NEW t \in Threads, HandlePreprepare(t) PROVE pc' \in [Threads -> States]
  BY <1>1, <1>4, Preprepared DEF TakesPreprepare, States
<1>5. ASSUME NEW t \in Threads, HandlePrepare(t) PROVE pc' \in [Threads -> States]
  BY <1>1, <1>5, Prepared DEF TakesPrepare, States, Ended
<1>6. ASSUME NEW t \in Threads, HandleCommit(t) PROVE pc' \in [Threads -> States]
  BY <1>1, <1>6, Committed DEF TakesCommit, States, Ended
<1>7. ASSUME NEW t \in Threads, execute(t) PROVE pc' \in [Threads -> States]
  BY <1>1, <1>7, Executed DEF Executes, States, Ended
<1>8. ASSUME NEW t \in Threads, Send(t) PROVE pc' \in [Threads -> States]
  BY <1>1, <1>8, Sent DEF SendsPreprepare, Sends, States
<1> QED BY <1>2, <1>3, <1>4, <1>5, <1>6, <1>7, <1>8, ThreadsOfKeys DEF Work, RunLoop, Handle

LEMMA TypesStep == ASSUME IInv, Work PROVE Types'
<1> USE DEF Types
<1>0. Types /\ pc' \in [Threads -> States]
  BY StatesStep DEF IInv
<1>1. ASSUME NEW m \in Messages, TakeConsensus(m) PROVE Types'
  BY <1>0, <1>1 DEF TakeConsensus, consensus, channels
<1>2. ASSUME NEW q \in Requests, TakeShard(q) PROVE Types'
  BY <1>0, <1>2 DEF TakeShard, consensus, channels
<1>3. CASE TakeForward
  <2>1. forward' \in Seq(Requests) /\ item' \in Requests
    BY <1>0, <1>3 DEF TakeForward
  <2> QED BY <1>0, <1>3, <2>1 DEF TakeForward, consensus
<1>4. CASE TakeResult
  <2>1. results' \in Seq(Keys) /\ Head(results) \in Keys /\ Quorate(Head(results))
    BY <1>0, <1>4 DEF TakeResult, IInv, ExecutedOnce
  <2>2. log[Head(results)] \in Requests
    BY <2>1, QuorateGivenOut
  <2>3. left' \in 0..MaxFanout /\ answered' \subseteq Requests
    BY <1>0, <1>4, <2>2, RequestsAssumption DEF TakeResult
  <2> QED BY <1>0, <1>4, <2>1, <2>3 DEF TakeResult, consensus
<1>5. CASE TakeBroadcast
  <2>1. broadcasts' \in Seq(Broadcasts) /\ Len(broadcasts') <= ChanelSize
    BY <1>0, <1>5, Numbers DEF TakeBroadcast
  <2>2. Head(broadcasts) \in Broadcasts
    BY <1>0, <1>5 DEF TakeBroadcast
  <2>3. announced' \subseteq Keys
    BY <1>0, <1>5, <2>2 DEF TakeBroadcast, Broadcasts
  <2> QED BY <1>0, <1>5, <2>1, <2>3 DEF TakeBroadcast, consensus
<1>6. CASE TakeShardBroadcast
  BY <1>0, <1>6 DEF TakeShardBroadcast, consensus
<1>7. CASE Forward
  <2>1. forward' \in Seq(Requests)
    BY <1>0, <1>7 DEF Forward, IInv, Places, LoopPlaces
  <2> QED BY <1>0, <1>7, <2>1 DEF Forward, consensus
<1>8. CASE BroadcastToShard
  <2>1. left' \in 0..MaxFanout /\ shardMessages' \in Nat
    BY <1>0, <1>8, Numbers DEF BroadcastToShard, IInv, FannedOut
  <2> QED BY <1>0, <1>8, <2>1 DEF BroadcastToShard, consensus
<1>9. CASE Propose
  <2>1. log' \in Seq(Requests) /\ Len(log') = Len(log) + 1
    BY <1>0, <1>9 DEF Propose, IInv, Places, LoopPlaces
  <2>2. Len(log') <= MaxRequests
    BY <1>0, <1>9, <2>1, Numbers, Pending DEF Propose, IInv, Requested
  <2> QED BY <1>0, <1>9, <2>1, <2>2 DEF Propose, channels
<1>10. ASSUME NEW q \in Requests, ProposeFromMain(q) PROVE Types'
  <2>1. forward' \in Seq(Requests)
    BY <1>0, <1>10 DEF ProposeFromMain
  <2> QED BY <1>0, <1>10, <2>1 DEF ProposeFromMain, consensus
<1>11. ASSUME NEW t \in Threads, HandlePreprepare(t) PROVE Types'
  BY <1>0, <1>11 DEF HandlePreprepare, consensus, channels
<1>12. ASSUME NEW t \in Threads, HandlePrepare(t) PROVE Types'
  <2>1. PICK k \in Keys, from \in Peers \cup {Self} : TakesPrepare(t, k, from)
    BY <1>12, Prepared
  <2>2. prepares' \in [Keys -> SUBSET (Peers \cup {Self})]
    BY <1>0, <2>1 DEF TakesPrepare
  <2> QED BY <1>0, <1>12, <2>2 DEF HandlePrepare, channels
<1>13. ASSUME NEW t \in Threads, HandleCommit(t) PROVE Types'
  <2>1. PICK k \in Keys, from \in Peers \cup {Self} : TakesCommit(t, k, from)
    BY <1>13, Committed
  <2>2. commits' \in [Keys -> SUBSET (Peers \cup {Self})] /\ mu' \in Threads \cup {None}
    BY <1>0, <2>1 DEF TakesCommit
  <2> QED BY <1>0, <1>13, <2>2 DEF HandleCommit, channels
<1>14. ASSUME NEW t \in Threads, execute(t) PROVE Types'
  <2>1. PICK k \in Keys : Executes(t, k)
    BY <1>14, Executed
  <2>2. results' \in Seq(Keys)
    BY <1>0, <2>1 DEF Executes
  <2> QED BY <1>0, <1>14, <2>2 DEF execute, consensus
<1>15. ASSUME NEW t \in Threads, Send(t) PROVE Types'
  <2>1. PICK b : b \in Broadcasts /\ broadcasts' = Append(broadcasts, b)
    BY <1>15, Sent DEF SendsPreprepare, Sends, Broadcasts
  <2>2. broadcasts' \in Seq(Broadcasts) /\ Len(broadcasts') <= ChanelSize
    BY <1>0, <1>15, <2>1, Numbers DEF Send
  <2> QED BY <1>0, <1>15, <2>2 DEF Send, consensus
<1> QED BY <1>1, <1>2, <1>3, <1>4, <1>5, <1>6, <1>7, <1>8, <1>9, <1>10, <1>11, <1>12,
           <1>13, <1>14, <1>15, ThreadsOfKeys DEF Work, RunLoop, Handle

LEMMA LoopPlacesStep == ASSUME IInv, Work PROVE LoopPlaces'
<1> USE DEF LoopPlaces
<1>0. pc \in [Threads -> States] /\ LoopPlaces
  BY DEF IInv, Types, Places
<1>1. ASSUME NEW m \in Messages, TakeConsensus(m) PROVE LoopPlaces'
  BY <1>0, <1>1, ThreadsOfKeys DEF TakeConsensus, Coming, Selected
<1>2. ASSUME NEW q \in Requests, TakeShard(q) PROVE LoopPlaces'
  BY <1>0, <1>2, ThreadsOfKeys DEF TakeShard, Selected
<1>3. CASE TakeForward
  <2>1. item' \in Requests
    BY <1>3 DEF TakeForward, IInv, Types
  <2> QED BY <1>0, <1>3, <2>1, ThreadsOfKeys DEF TakeForward, Selected
<1>4. CASE TakeResult \/ TakeBroadcast \/ TakeShardBroadcast \/ Forward \/ BroadcastToShard
  BY <1>0, <1>4, ThreadsOfKeys DEF TakeResult, TakeBroadcast, TakeShardBroadcast, Forward,
     BroadcastToShard, Selected
<1>5. CASE Propose \/ \E q \in Requests : ProposeFromMain(q)
  BY <1>0, <1>5, ThreadsOfKeys DEF Propose, ProposeFromMain
<1>6. ASSUME UNCHANGED announced,
             \/ UNCHANGED <<pc[Run], item>>
             \/ pc'[Run] = "select"
             \/ pc[Run] = "lock" /\ pc'[Run] = "execute" /\ item' = item
      PROVE LoopPlaces'
  BY <1>0, <1>6
<1>7. ASSUME NEW t \in Threads, HandlePreprepare(t) PROVE LoopPlaces'
  BY <1>0, <1>6, <1>7, Preprepared, ThreadsOfKeys DEF TakesPreprepare, HandlePreprepare
<1>8. ASSUME NEW t \in Threads, HandlePrepare(t) PROVE LoopPlaces'
  <2>1. PICK k \in Keys, from \in Peers \cup {Self} : TakesPrepare(t, k, from)
    BY <1>8, Prepared
  <2>2. IF t = Run THEN pc'[Run] = "select" ELSE pc'[Run] = pc[Run]
    BY <1>0, <2>1, ThreadsOfKeys DEF TakesPrepare, Ended
  <2>3. UNCHANGED announced /\ (t # Run => item' = item)
    BY <1>8 DEF HandlePrepare
  <2> QED BY <1>6, <2>2, <2>3
<1>9. ASSUME NEW t \in Threads, HandleCommit(t) PROVE LoopPlaces'
  <2>1. PICK k \in Keys, from \in Peers \cup {Self} : TakesCommit(t, k, from)
    BY <1>9, Committed
  <2>2. IF t = Run THEN \/ pc'[Run] = "select"
                        \/ pc[Run] = "lock" /\ pc'[Run] = "execute" /\ item' = item
                   ELSE pc'[Run] = pc[Run]
    BY <1>0, <2>1, ThreadsOfKeys DEF TakesCommit, Ended
  <2>3. UNCHANGED announced /\ (t # Run => item' = item)
    BY <1>9 DEF HandleCommit
  <2> QED BY <1>6, <2>2, <2>3
<1>10. ASSUME NEW t \in Threads, execute(t) PROVE LoopPlaces'
  <2>1. IF t = Run THEN pc'[Run] = "select" ELSE pc'[Run] = pc[Run]
    BY <1>0, <1>10, Executed, ThreadsOfKeys DEF Executes, Ended
  <2>2. UNCHANGED announced /\ (t # Run => item' = item)
    BY <1>10 DEF execute
  <2> QED BY <1>6, <2>1, <2>2
<1>11. ASSUME NEW t \in Threads, Send(t) PROVE LoopPlaces'
  <2>1. pc'[Run] = IF t = Run THEN "select" ELSE pc[Run]
    BY <1>11, SentAt
  <2> QED BY <1>6, <1>11, <2>1 DEF Send
<1> QED BY <1>1, <1>2, <1>3, <1>4, <1>5, <1>7, <1>8, <1>9, <1>10, <1>11,
           ThreadsOfKeys DEF Work, RunLoop, Handle

LEMMA KeyPlacesStep == ASSUME IInv, Work PROVE KeyPlaces'
<1>0. pc \in [Threads -> States] /\ KeyPlaces
  BY DEF IInv, Types, Places
<1>1. CASE \/ \E m \in Messages : TakeConsensus(m)
           \/ \E q \in Requests : TakeShard(q) \/ ProposeFromMain(q)
           \/ TakeForward \/ TakeResult \/ TakeBroadcast \/ TakeShardBroadcast
           \/ Forward \/ BroadcastToShard \/ Propose
  <2>1. \A t \in Goroutines : pc'[t] = pc[t]
    BY <1>0, <1>1, ThreadsOfKeys DEF TakeConsensus, TakeShard, ProposeFromMain, TakeForward,
       TakeResult, TakeBroadcast, TakeShardBroadcast, Forward, BroadcastToShard, Propose, Selected
  <2> QED BY <1>0, <2>1, ThreadsOfKeys DEF KeyPlaces
<1>2. ASSUME NEW t \in Threads, HandlePreprepare(t) PROVE KeyPlaces'
  <2>1. PICK k \in Keys : TakesPreprepare(t, k)
    BY <1>2, Preprepared
  <2> QED BY <1>0, <2>1, ThreadsOfKeys DEF TakesPreprepare, KeyPlaces
<1>3. ASSUME NEW t \in Threads, HandlePrepare(t) PROVE KeyPlaces'
  <2>1. PICK k \in Keys, from \in Peers \cup {Self} : TakesPrepare(t, k, from)
    BY <1>3, Prepared
  <2>2. CASE t = Run
    BY <1>0, <2>1, <2>2, ThreadsOfKeys DEF TakesPrepare, KeyPlaces, Ended
  <2>3. CASE t = OwnPrepare(k)
    BY <1>0, <2>1, <2>3, ThreadsOfKeys DEF TakesPrepare, KeyPlaces, Ended
  <2> QED BY <2>1, <2>2, <2>3 DEF TakesPrepare
<1>4. ASSUME NEW t \in Threads, HandleCommit(t) PROVE KeyPlaces'
  <2>1. PICK k \in Keys, from \in Peers \cup {Self} : TakesCommit(t, k, from)
    BY <1>4, Committed
  <2>2. CASE t = Run
    BY <1>0, <2>1, <2>2, ThreadsOfKeys DEF TakesCommit, KeyPlaces, Ended
  <2>3. CASE t = OwnCommit(k)
    BY <1>0, <2>1, <2>3, ThreadsOfKeys DEF TakesCommit, KeyPlaces, Ended
  <2> QED BY <2>1, <2>2, <2>3 DEF TakesCommit
<1>5. ASSUME NEW t \in Threads, execute(t) PROVE KeyPlaces'
  <2>1. PICK k \in Keys : Executes(t, k)
    BY <1>5, Executed
  <2> QED BY <1>0, <2>1, ThreadsOfKeys DEF Executes, KeyPlaces, Ended
<1>6. ASSUME NEW t \in Threads, Send(t) PROVE KeyPlaces'
  <2>1. CASE SendsPreprepare
    BY <1>0, <2>1, ThreadsOfKeys DEF SendsPreprepare, KeyPlaces
  <2>2. ASSUME NEW k \in Keys, NEW type, Sends(t, k, type) PROVE KeyPlaces'
    BY <1>0, <2>2, ThreadsOfKeys DEF Sends, KeyPlaces
  <2> QED BY <1>6, <2>1, <2>2, Sent
<1> QED BY <1>1, <1>2, <1>3, <1>4, <1>5, <1>6, ThreadsOfKeys DEF Work, RunLoop, Handle

-----------------------------------------------------------------------------
\* What the Run loop's own steps and the steps of the handlers leave alone.

LoopStep ==
  \/ \E m \in Messages : TakeConsensus(m)
  \/ \E q \in Requests : TakeShard(q)
  \/ TakeForward \/ TakeResult \/ TakeBroadcast \/ TakeShardBroadcast
  \/ Forward \/ BroadcastToShard

LEMMA LoopFrame ==
  ASSUME IInv, LoopStep
  PROVE  /\ \A t \in Goroutines : pc'[t] = pc[t]
         /\ pc[Run] \in {"select", "forward", "fanout"}
         /\ pc'[Run] \in {"select", "forward", "fanout", "lock", "propose"}
         /\ UNCHANGED <<consensus, mu>>
<1>1. pc \in [Threads -> States]
  BY DEF IInv, Types
<1> QED BY <1>1, ThreadsOfKeys DEF LoopStep, TakeConsensus, TakeShard, TakeForward, TakeResult,
   TakeBroadcast, TakeShardBroadcast, Forward, BroadcastToShard, Selected, consensus

LEMMA HandlerFrame ==
  ASSUME IInv, NEW t \in Threads, Handle(t) \/ Send(t)
  PROVE  /\ UNCHANGED <<pending, log, forward, left, shardMessages, announced, answered>>
         /\ \/ UNCHANGED <<pc[Run], item>>
            \/ /\ pc[Run] \in {"lock", "execute", "send"} /\ t = Run
               /\ \/ pc'[Run] = "select"
                  \/ pc'[Run] = "execute" /\ HandleCommit(t) /\ UNCHANGED item
<1>0. pc \in [Threads -> States]
  BY DEF IInv, Types
<1>1. UNCHANGED <<pending, log, forward, left, shardMessages, announced, answered>>
      /\ (t # Run => item' = item)
  BY DEF Handle, HandlePreprepare, HandlePrepare, HandleCommit, execute, Send, consensus, channels
<1>2. CASE t # Run
  <2>1. t \in Goroutines
    BY <1>2, ThreadsOfKeys
  <2>2. CASE HandlePreprepare(t)
    BY <1>0, <1>1, <1>2, <2>2, Preprepared, ThreadsOfKeys DEF TakesPreprepare
  <2>3. CASE HandlePrepare(t)
    BY <1>0, <1>1, <1>2, <2>3, Prepared, ThreadsOfKeys DEF TakesPrepare
  <2>4. CASE HandleCommit(t)
    BY <1>0, <1>1, <1>2, <2>4, Committed, ThreadsOfKeys DEF TakesCommit
  <2>5. CASE execute(t)
    BY <1>0, <1>1, <1>2, <2>5, Executed, ThreadsOfKeys DEF Executes
  <2>6. CASE Send(t)
    BY <1>1, <1>2, <2>6, SentAt
  <2> QED BY <1>1, <2>2, <2>3, <2>4, <2>5, <2>6 DEF Handle
<1>3. CASE t = Run
  <2>1. ~HandlePreprepare(t)
    BY <1>3, Preprepared, ThreadsOfKeys DEF TakesPreprepare
  <2>2. CASE HandlePrepare(t)
    BY <1>0, <1>1, <1>3, <2>2, Prepared, ThreadsOfKeys DEF TakesPrepare, Ended
  <2>3. CASE HandleCommit(t)
    BY <1>0, <1>1, <1>3, <2>3, Committed, ThreadsOfKeys DEF TakesCommit, Ended
  <2>4. CASE execute(t)
    BY <1>0, <1>1, <1>3, <2>4, Executed, ThreadsOfKeys DEF Executes, Ended
  <2>5. CASE Send(t)
    BY <1>1, <1>3, <2>5, SentAt DEF Send
  <2> QED BY <1>1, <2>1, <2>2, <2>3, <2>4, <2>5 DEF Handle
<1> QED BY <1>2, <1>3

LEMMA Steps ==
  ASSUME Work
  PROVE  \/ LoopStep \/ Propose
         \/ \E q \in Requests : ProposeFromMain(q)
         \/ \E t \in Threads : Handle(t) \/ Send(t)
BY ThreadsOfKeys DEF Work, RunLoop, LoopStep

LEMMA MutexStep == ASSUME IInv, Work PROVE Mutex'
<1>0. pc \in [Threads -> States] /\ Mutex /\ mu \in Threads \cup {None}
  BY DEF IInv, Types
<1>1. CASE LoopStep
  BY <1>0, <1>1, LoopFrame, ThreadsOfKeys DEF Mutex
<1>2. CASE \E q \in Requests : ProposeFromMain(q)
  BY <1>0, <1>2 DEF ProposeFromMain, Mutex
<1>3. CASE Propose
  BY <1>0, <1>3, ThreadsOfKeys, NoneAssumption DEF Propose, Mutex
<1>4. ASSUME NEW t \in Threads, HandlePreprepare(t) PROVE Mutex'
  <2>1. mu' = None /\ mu = None
    BY <1>4 DEF HandlePreprepare
  <2> QED BY <1>0, <1>4, <2>1, Preprepared, ThreadsOfKeys, NoneAssumption DEF TakesPreprepare, Mutex
<1>5. ASSUME NEW t \in Threads, HandlePrepare(t) PROVE Mutex'
  <2>1. mu' = None /\ mu = None
    BY <1>5 DEF HandlePrepare
  <2>2. PICK k \in Keys, from \in Peers \cup {Self} : TakesPrepare(t, k, from)
    BY <1>5, Prepared
  <2> QED BY <1>0, <2>1, <2>2, ThreadsOfKeys, NoneAssumption DEF TakesPrepare, Mutex, Ended
<1>6. ASSUME NEW t \in Threads, HandleCommit(t) PROVE Mutex'
  <2>1. PICK k \in Keys, from \in Peers \cup {Self} : TakesCommit(t, k, from)
    BY <1>6, Committed
  <2> QED BY <1>0, <2>1, ThreadsOfKeys, NoneAssumption DEF TakesCommit, Mutex, Ended
<1>7. ASSUME NEW t \in Threads, execute(t) PROVE Mutex'
  <2>1. mu' = None
    BY <1>7 DEF execute
  <2> QED BY <1>0, <1>7, <2>1, Executed, ThreadsOfKeys, NoneAssumption DEF Executes, Mutex, Ended
<1>8. ASSUME NEW t \in Threads, Send(t) PROVE Mutex'
  <2>1. CASE SendsPreprepare
    BY <1>0, <2>1, ThreadsOfKeys, NoneAssumption DEF SendsPreprepare, Mutex
  <2>2. ASSUME NEW k \in Keys, NEW type, Sends(t, k, type) PROVE Mutex'
    BY <1>0, <2>2, ThreadsOfKeys, NoneAssumption DEF Sends, Mutex
  <2> QED BY <1>8, <2>1, <2>2, Sent
<1> QED BY <1>1, <1>2, <1>3, <1>4, <1>5, <1>6, <1>7, <1>8, Steps DEF Handle

LEMMA RequestedStep == ASSUME IInv, Work PROVE Requested'
<1>0. /\ pc \in [Threads -> States] /\ Requested /\ Len(log) \in Nat /\ Len(forward) \in Nat
      /\ Cardinality(pending) \in Nat /\ MaxRequests \in Nat
      /\ forward \in Seq(Requests) /\ log \in Seq(Requests)
  BY Pending, Numbers DEF IInv, Types
<1>1. ASSUME NEW q \in Requests, TakeShard(q) PROVE Requested'
  <2>1. Cardinality(pending') = Cardinality(pending) - 1
    BY <1>1, Pending DEF TakeShard
  <2> QED BY <1>0, <1>1, <2>1, ThreadsOfKeys DEF TakeShard, Selected, Requested, consensus, channels
<1>2. CASE TakeForward
  <2>1. Len(forward') = Len(forward) - 1
    BY <1>0, <1>2 DEF TakeForward
  <2> QED BY <1>0, <1>2, <2>1, ThreadsOfKeys DEF TakeForward, Selected, Requested, consensus
<1>3. CASE Forward
  <2>1. Len(forward') = Len(forward) + 1
    BY <1>0, <1>3 DEF Forward, IInv, Places, LoopPlaces
  <2> QED BY <1>0, <1>3, <2>1, ThreadsOfKeys DEF Forward, Requested, consensus
<1>4. CASE Propose
  <2>1. Len(log') = Len(log) + 1
    BY <1>0, <1>4 DEF Propose, IInv, Places, LoopPlaces
  <2> QED BY <1>0, <1>4, <2>1, ThreadsOfKeys DEF Propose, Requested, channels
<1>5. ASSUME NEW q \in Requests, ProposeFromMain(q) PROVE Requested'
  <2>1. Cardinality(pending') = Cardinality(pending) - 1
    BY <1>5, Pending DEF ProposeFromMain
  <2>2. Len(forward') = Len(forward) + 1
    BY <1>0, <1>5 DEF ProposeFromMain
  <2> QED BY <1>0, <1>5, <2>1, <2>2 DEF ProposeFromMain, Requested, consensus
<1>6. CASE \/ \E m \in Messages : TakeConsensus(m)
           \/ TakeResult \/ TakeBroadcast \/ TakeShardBroadcast \/ BroadcastToShard
  BY <1>0, <1>6, ThreadsOfKeys DEF TakeConsensus, TakeResult, TakeBroadcast, TakeShardBroadcast,
     BroadcastToShard, Selected, Requested, consensus, channels
<1>7. ASSUME NEW t \in Threads, Handle(t) \/ Send(t) PROVE Requested'
  BY <1>0, <1>7, HandlerFrame DEF Requested
<1> QED BY <1>1, <1>2, <1>3, <1>4, <1>5, <1>6, <1>7, Steps DEF LoopStep

-----------------------------------------------------------------------------
\* Executions: no step but HandleCommit starts one.

NotCommit ==
  \/ LoopStep \/ Propose
  \/ \E q \in Requests : ProposeFromMain(q)
  \/ \E t \in Threads : HandlePreprepare(t) \/ HandlePrepare(t) \/ execute(t) \/ Send(t)

LEMMA Quiet ==
  ASSUME NotCommit
  PROVE  TakeResult \/ (\E t \in Threads : execute(t)) \/ UNCHANGED <<commits, results>>
BY DEF NotCommit, LoopStep, TakeConsensus, TakeShard, TakeForward, TakeBroadcast,
   TakeShardBroadcast, Forward, BroadcastToShard, Propose, ProposeFromMain, HandlePreprepare,
   HandlePrepare, Send, consensus, channels

LEMMA NoneStarted ==
  ASSUME IInv, NotCommit
  PROVE  \A u \in Threads :
           pc'[u] = "execute" => pc[u] = "execute" /\ Message(u)' = Message(u)
<1>0. pc \in [Threads -> States]
  BY DEF IInv, Types
<1>1. CASE LoopStep
  BY <1>0, <1>1, LoopFrame, ThreadsOfKeys DEF Message
<1>2. CASE Propose
  BY <1>0, <1>2, ThreadsOfKeys DEF Propose, Message
<1>3. CASE \E q \in Requests : ProposeFromMain(q)
  BY <1>0, <1>3 DEF ProposeFromMain, Message
<1>4. ASSUME NEW t \in Threads,
             HandlePreprepare(t) \/ HandlePrepare(t) \/ execute(t) \/ Send(t)
      PROVE  \A u \in Threads :
               pc'[u] = "execute" => pc[u] = "execute" /\ Message(u)' = Message(u)
  <2>1. ASSUME NEW u \in Goroutines, pc'[u] = "execute"
        PROVE  pc[u] = "execute" /\ Message(u)' = Message(u)
    <3>1. Message(u)' = Message(u)
      BY <2>1, ThreadsOfKeys DEF Message
    <3>2. CASE HandlePreprepare(t)
      BY <1>0, <2>1, <3>1, <3>2, Preprepared, ThreadsOfKeys DEF TakesPreprepare
    <3>3. CASE HandlePrepare(t)
      BY <1>0, <2>1, <3>1, <3>3, Prepared, ThreadsOfKeys DEF TakesPrepare, Ended
    <3>4. CASE execute(t)
      BY <1>0, <2>1, <3>1, <3>4, Executed, ThreadsOfKeys DEF Executes, Ended
    <3>5. CASE Send(t)
      <4>1. CASE SendsPreprepare
        BY <1>0, <2>1, <3>1, <4>1, ThreadsOfKeys DEF SendsPreprepare
      <4>2. ASSUME NEW k \in Keys, NEW type, Sends(t, k, type) PROVE pc[u] = "execute"
        BY <1>0, <2>1, <4>2, ThreadsOfKeys DEF Sends
      <4> QED BY <3>1, <3>5, <4>1, <4>2, Sent
    <3> QED BY <1>4, <3>2, <3>3, <3>4, <3>5
  <2>2. ~HandleCommit(t)
    BY <1>4 DEF HandlePreprepare, HandlePrepare, HandleCommit, execute, Send
  <2>3. pc'[Run] = "execute" => pc[Run] = "execute" /\ item' = item
    BY <1>4, <2>2, HandlerFrame DEF Handle
  <2>4. pc'[Run] = "execute" => pc[Run] = "execute" /\ Message(Run)' = Message(Run)
    BY <2>3 DEF Message
  <2> QED BY <2>1, <2>4, ThreadsOfKeys
<1> QED BY <1>1, <1>2, <1>3, <1>4 DEF NotCommit

LEMMA VotersKept ==
  ASSUME IInv, NEW t \in Threads, NEW k \in Keys, NEW from \in Peers \cup {Self},
         TakesCommit(t, k, from)
  PROVE  /\ \A j \in Keys : Quorate(j) => Quorate(j)'
         /\ pc' = [pc EXCEPT ![t] = "execute"] /\ mu' = t => ~Quorate(k) /\ Quorate(k)'
         /\ \A u \in Threads : pc'[u] = "execute" =>
              u = t /\ pc' = [pc EXCEPT ![t] = "execute"] /\ mu' = t /\ item' = item
<1>1. commits \in [Keys -> SUBSET (Peers \cup {Self})] /\ Required \in Nat
  BY NodesAssumption DEF IInv, Types
<1>2. \A j \in Keys : j # k => commits'[j] = commits[j]
  BY <1>1 DEF TakesCommit
<1>3. commits'[k] = commits[k] \cup {from}
  BY <1>1 DEF TakesCommit
<1>4. pc \in [Threads -> States] /\ Mutex /\ mu = None
  BY DEF IInv, Types, TakesCommit
<1>5. Cardinality(commits[k]) <= Cardinality(commits'[k]) /\ Cardinality(commits[k]) \in Nat
      /\ Cardinality(commits'[k]) \in Nat
      /\ (from \notin commits[k] => Cardinality(commits'[k]) = Cardinality(commits[k]) + 1)
  BY <1>1, <1>3, OneMore
<1>6. ASSUME NEW j \in Keys, Quorate(j) PROVE Quorate(j)'
  BY <1>1, <1>2, <1>5, <1>6 DEF Quorate
<1>7. \A u \in Threads : pc[u] # "execute"
  BY <1>4, NoneAssumption DEF Mutex
<1>8. \/ pc' = [pc EXCEPT ![t] = Ended(t)] /\ mu' = None
      \/ /\ from \notin commits[k] /\ Cardinality(commits'[k]) = Required
         /\ mu' = t /\ item' = item /\ pc' = [pc EXCEPT ![t] = "execute"]
  BY DEF TakesCommit
<1>9. CASE pc' = [pc EXCEPT ![t] = Ended(t)] /\ mu' = None
  BY <1>4, <1>6, <1>7, <1>9, NoneAssumption DEF Ended
<1>10. CASE /\ from \notin commits[k] /\ Cardinality(commits'[k]) = Required
            /\ mu' = t /\ item' = item /\ pc' = [pc EXCEPT ![t] = "execute"]
  BY <1>1, <1>4, <1>5, <1>6, <1>7, <1>10 DEF Quorate
<1> QED BY <1>8, <1>9, <1>10

LEMMA ExecutedOnceStep == ASSUME IInv, Work PROVE ExecutedOnce'
<1>0. ExecutedOnce /\ results \in Seq(Keys)
  BY DEF IInv, Types
<1>1. CASE UNCHANGED <<commits, results>> /\ NotCommit
  BY <1>0, <1>1, NoneStarted DEF ExecutedOnce, Quorate, Returned
<1>2. CASE TakeResult
  <2>1. \A u \in Threads : pc'[u] = "execute" => pc[u] = "execute" /\ Message(u)' = Message(u)
    BY <1>2, LoopFrame, ThreadsOfKeys DEF LoopStep, Message
  <2>2. commits' = commits
    BY <1>2 DEF TakeResult, consensus
  <2>3. /\ DOMAIN results' = 1..(Len(results) - 1) /\ DOMAIN results = 1..Len(results)
        /\ \A i \in DOMAIN results' : i + 1 \in DOMAIN results /\ results'[i] = results[i + 1]
    BY <1>0, <1>2 DEF TakeResult
  <2> QED BY <1>0, <2>1, <2>2, <2>3 DEF ExecutedOnce, Quorate, Returned
<1>3. ASSUME NEW t \in Threads, execute(t) PROVE ExecutedOnce'
  <2>1. PICK k \in Keys : Executes(t, k)
    BY <1>3, Executed
  <2>2. Quorate(k) /\ ~Returned(k)
    BY <1>0, <2>1 DEF Executes, ExecutedOnce
  <2>3. \A u \in Threads : pc'[u] # "execute"
    BY <2>1 DEF Executes, Ended, IInv, Types, Mutex
  <2>4. commits' = commits
    BY <1>3 DEF execute, consensus
  <2>5. /\ DOMAIN results' = 1..(Len(results) + 1) /\ DOMAIN results = 1..Len(results)
        /\ results'[Len(results) + 1] = k /\ Len(results) \in Nat
        /\ \A i \in DOMAIN results : results'[i] = results[i]
    BY <1>0, <2>1 DEF Executes
  <2>6. \A i \in DOMAIN results' : i \in DOMAIN results \/ i = Len(results) + 1
    BY <2>5
  <2> QED BY <1>0, <2>2, <2>3, <2>4, <2>5, <2>6 DEF ExecutedOnce, Quorate, Returned
<1>4. ASSUME NEW t \in Threads, HandleCommit(t) PROVE ExecutedOnce'
  <2>1. PICK k \in Keys, from \in Peers \cup {Self} : TakesCommit(t, k, from)
    BY <1>4, Committed
  <2>2. results' = results
    BY <1>4 DEF HandleCommit, channels
  <2>3. \A j \in Keys : Quorate(j) => Quorate(j)'
    BY <2>1, VotersKept
  <2>4. \A i \in DOMAIN results : results[i] \in Keys
    BY <1>0
  <2>5. ASSUME NEW u \in Threads, pc'[u] = "execute"
        PROVE  Message(u)'.key \in Keys /\ Quorate(Message(u).key)' /\ ~Returned(Message(u).key)'
    <3>1. u = t /\ item' = item /\ ~Quorate(k) /\ Quorate(k)'
      BY <2>1, <2>5, VotersKept
    <3>2. Message(u)' = Message(u) /\ Message(u).key = k
      BY <2>1, <3>1 DEF TakesCommit, Message
    <3>3. ~Returned(k)
      BY <1>0, <3>1 DEF ExecutedOnce, Returned
    <3> QED BY <2>2, <3>1, <3>2, <3>3 DEF Returned
  <2> QED BY <1>0, <2>2, <2>3, <2>4, <2>5 DEF ExecutedOnce
<1> QED BY <1>1, <1>2, <1>3, <1>4, Steps, Quiet DEF Handle, NotCommit

-----------------------------------------------------------------------------

LEMMA FinishedGrows ==
  ASSUME IInv,
         \/ NotCommit /\ UNCHANGED <<commits, results>>
         \/ \E t \in Threads : execute(t) \/ HandleCommit(t)
  PROVE  Finished \subseteq Finished'
<1>0. ExecutedOnce /\ results \in Seq(Keys)
  BY DEF IInv, Types
<1>1. CASE NotCommit /\ UNCHANGED <<commits, results>>
  BY <1>1, NoneStarted DEF Finished, Executing, Quorate, Returned
<1>2. ASSUME NEW t \in Threads, execute(t) PROVE Finished \subseteq Finished'
  <2>1. PICK k \in Keys : Executes(t, k)
    BY <1>2, Executed
  <2>2. \A u \in Threads : pc'[u] # "execute"
    BY <2>1 DEF Executes, Ended, IInv, Types, Mutex
  <2>3. commits' = commits
    BY <1>2 DEF execute, consensus
  <2>4. Executing(k)
    BY <2>1 DEF Executes, Executing
  <2>5. ASSUME NEW j \in Keys, j # k, ~Returned(j) PROVE ~Returned(j)'
    BY <1>0, <2>1, <2>5 DEF Executes, Returned
  <2> QED BY <2>2, <2>3, <2>4, <2>5 DEF Finished, Quorate, Executing
<1>3. ASSUME NEW t \in Threads, HandleCommit(t) PROVE Finished \subseteq Finished'
  <2>1. PICK k \in Keys, from \in Peers \cup {Self} : TakesCommit(t, k, from)
    BY <1>3, Committed
  <2>2. results' = results
    BY <1>3 DEF HandleCommit, channels
  <2>3. ASSUME NEW j \in Finished PROVE j \in Finished'
    <3>1. Quorate(j)' /\ ~Returned(j)'
      BY <2>1, <2>2, <2>3, VotersKept DEF Finished, Returned
    <3>2. SUFFICES ASSUME NEW u \in Threads, pc'[u] = "execute", Message(u)'.key = j
                   PROVE  FALSE
      BY <2>3, <3>1 DEF Finished, Executing
    <3>3. u = t /\ item' = item /\ ~Quorate(k)
      BY <2>1, <3>2, VotersKept
    <3>4. Message(u)' = Message(u) /\ Message(u).key = k
      BY <2>1, <3>3 DEF TakesCommit, Message
    <3> QED BY <2>3, <3>2, <3>3, <3>4 DEF Finished
  <2> QED BY <2>3
<1> QED BY <1>1, <1>2, <1>3

LEMMA QuietHandlers ==
  ASSUME NEW t \in Threads, HandlePreprepare(t) \/ HandlePrepare(t) \/ Send(t)
  PROVE  UNCHANGED <<commits, results>>
BY DEF HandlePreprepare, HandlePrepare, Send, consensus, channels

LEMMA FannedOutStep == ASSUME IInv, Work PROVE FannedOut'
<1>0. /\ pc \in [Threads -> States] /\ FannedOut /\ left \in Nat /\ shardMessages \in Nat
      /\ MaxFanout \in Nat /\ Fanout \in [Requests -> 0..MaxFanout]
  BY RequestsAssumption DEF IInv, Types
<1>1. /\ IsFiniteSet(Finished) /\ Cardinality(Finished) \in Nat
      /\ IsFiniteSet(Finished') /\ Cardinality(Finished') \in Nat
  <2>1. Finished \in SUBSET Keys /\ Finished' \in SUBSET Keys
    BY DEF Finished
  <2> QED BY <2>1, Numbers, FS_Subset, FS_CardinalityType
<1> DEFINE room == MaxFanout * Cardinality(Finished)
<1>2. ASSUME Finished \subseteq Finished', shardMessages' + left' <= shardMessages + left,
             shardMessages' \in Nat, left' \in Nat
      PROVE  shardMessages' + left' <= room'
  <2>1. Cardinality(Finished) <= Cardinality(Finished')
    BY <1>1, <1>2, FS_Subset
  <2>2. room <= room' /\ room \in Nat /\ room' \in Nat
    BY <1>0, <1>1, <2>1, Times
  <2>3. shardMessages + left <= room
    BY <1>0 DEF FannedOut
  <2> HIDE DEF room
  <2>4. shardMessages' + left' <= shardMessages + left /\ shardMessages' \in Nat /\ left' \in Nat
    BY <1>2
  <2>5. shardMessages' + left' <= room'
    BY <1>0, <2>2, <2>3, <2>4, Sums
  <2> QED BY <2>5
<1>3. CASE TakeResult
  <2> DEFINE k == Head(results)
  <2>1. /\ results \in Seq(Keys) /\ results # <<>> /\ k \in Keys /\ k = results[1]
        /\ 1 \in DOMAIN results
    BY <1>3 DEF TakeResult, IInv, Types
  <2>2. Returned(k) /\ Quorate(k)
    BY <2>1 DEF Returned, IInv, ExecutedOnce
  <2>3. log[k] \in Requests
    BY <2>1, <2>2, QuorateGivenOut
  <2>4. left' = Fanout[log[k]] /\ left = 0 /\ shardMessages' = shardMessages
        /\ pc'[Run] = IF left' = 0 THEN "select" ELSE "fanout"
    BY <1>0, <1>3, ThreadsOfKeys DEF TakeResult, Selected, FannedOut
  <2>5. NotCommit /\ commits' = commits
    BY <1>3 DEF TakeResult, NotCommit, LoopStep, consensus
  <2>6. \A j \in Keys : Executing(j)' => Executing(j)
    BY <2>5, NoneStarted DEF Executing
  <2>7. \A j \in Keys : Returned(j)' => Returned(j) /\ j # k
    <3>1. results' = Tail(results)
      BY <1>3 DEF TakeResult
    <3>2. /\ DOMAIN results = 1..Len(results) /\ DOMAIN results' = 1..(Len(results) - 1)
          /\ \A i \in DOMAIN results' : i + 1 \in DOMAIN results /\ i + 1 # 1
                                        /\ results'[i] = results[i + 1]
      BY <2>1, <3>1
    <3> QED BY <2>1, <3>2 DEF Returned, IInv, ExecutedOnce
  <2>8. ~Executing(k)
    BY <2>2 DEF Executing, IInv, ExecutedOnce
  <2>9. Finished \cup {k} \subseteq Finished' /\ k \notin Finished
    BY <2>1, <2>2, <2>5, <2>6, <2>7, <2>8 DEF Finished, Quorate
  <2>10. Cardinality(Finished) + 1 <= Cardinality(Finished')
    <3>1. Cardinality(Finished \cup {k}) = Cardinality(Finished) + 1
      BY <1>1, <2>9, FS_AddElement
    <3> QED BY <1>1, <2>9, <3>1, FS_Subset
  <2>11. room + MaxFanout <= room' /\ room \in Nat /\ room' \in Nat
    BY <1>0, <1>1, <2>10, Times
  <2>12. left' \in 0..MaxFanout
    BY <1>0, <2>3, <2>4
  <2>13. shardMessages + left <= room
    BY <1>0 DEF FannedOut
  <2> HIDE DEF room
  <2>14. shardMessages' + left' <= room'
    BY <1>0, <2>4, <2>11, <2>12, <2>13
  <2> QED BY <2>4, <2>12, <2>14, <1>0 DEF FannedOut, room
<1>4. CASE BroadcastToShard
  <2>1. /\ shardMessages' = shardMessages + 1 /\ left' = left - 1 /\ left >= 1
        /\ pc'[Run] = IF left = 1 THEN "select" ELSE "fanout"
    BY <1>0, <1>4, ThreadsOfKeys DEF BroadcastToShard, FannedOut
  <2>2. Finished \subseteq Finished'
    BY <1>4, FinishedGrows DEF BroadcastToShard, NotCommit, LoopStep, consensus
  <2>3. shardMessages' + left' <= room'
    BY <1>0, <1>2, <2>1, <2>2
  <2> QED BY <1>0, <2>1, <2>3 DEF FannedOut
<1>5. ASSUME Finished \subseteq Finished', pc[Run] # "fanout", pc'[Run] # "fanout", left' = left,
             shardMessages' \in Nat, shardMessages' <= shardMessages
      PROVE  FannedOut'
  <2>1. left' = left /\ shardMessages' \in Nat /\ shardMessages' <= shardMessages
    BY <1>5
  <2>2. left' \in Nat /\ shardMessages' + left' <= shardMessages + left
    BY <1>0, <2>1, Sums
  <2>3. shardMessages' + left' <= room'
    BY <1>2, <1>5, <2>2
  <2> QED BY <1>0, <1>5, <2>3 DEF FannedOut
<1>6. CASE LoopStep /\ ~TakeResult /\ ~BroadcastToShard
  <2>1. Finished \subseteq Finished'
    BY <1>6, FinishedGrows DEF LoopStep, NotCommit, TakeConsensus, TakeShard, TakeForward,
       TakeBroadcast, TakeShardBroadcast, Forward, consensus, channels
  <2>2. /\ pc[Run] # "fanout" /\ pc'[Run] # "fanout" /\ left' = left
        /\ shardMessages' \in Nat /\ shardMessages' <= shardMessages
    BY <1>0, <1>6, ThreadsOfKeys DEF LoopStep, TakeConsensus, TakeShard, TakeForward,
       TakeBroadcast, TakeShardBroadcast, Forward, Selected, channels
  <2> QED BY <1>5, <2>1, <2>2
<1>7. CASE Propose
  <2>1. Finished \subseteq Finished'
    BY <1>7, FinishedGrows DEF Propose, NotCommit, channels
  <2> QED BY <1>0, <1>5, <1>7, <2>1, ThreadsOfKeys DEF Propose, channels
<1>8. ASSUME NEW q \in Requests, ProposeFromMain(q) PROVE FannedOut'
  <2>1. Finished \subseteq Finished' /\ UNCHANGED <<pc, left, shardMessages>>
    BY <1>8, FinishedGrows DEF ProposeFromMain, NotCommit, consensus
  <2>2. shardMessages' + left' <= room'
    BY <1>0, <1>2, <2>1
  <2> QED BY <1>0, <2>1, <2>2 DEF FannedOut
<1>9. ASSUME NEW t \in Threads, Handle(t) \/ Send(t) PROVE FannedOut'
  <2>1. UNCHANGED <<left, shardMessages>> /\ (pc'[Run] = pc[Run] \/ (pc'[Run] # "fanout" /\ pc[Run] # "fanout"))
    BY <1>9, HandlerFrame
  <2>2. Finished \subseteq Finished'
    BY <1>9, FinishedGrows, QuietHandlers DEF Handle, NotCommit
  <2>3. shardMessages' + left' <= room'
    BY <1>0, <1>2, <2>1, <2>2
  <2> QED BY <1>0, <2>1, <2>3 DEF FannedOut
<1> QED BY <1>3, <1>4, <1>6, <1>7, <1>8, <1>9, Steps

-----------------------------------------------------------------------------
\* The keys given out and announced.

LEMMA Growing ==
  ASSUME IInv, Work
  PROVE  /\ Len(log) \in Nat /\ Len(log') \in Nat /\ Len(log) <= Len(log')
         /\ announced \subseteq announced'
         /\ ~TakeBroadcast => announced' = announced
         /\ ~Propose => log' = log
<1>1. Len(log) \in Nat
  BY DEF IInv, Types
<1>2. CASE LoopStep
  BY <1>1, <1>2 DEF LoopStep, TakeConsensus, TakeShard, TakeForward, TakeResult, TakeBroadcast,
     TakeShardBroadcast, Forward, BroadcastToShard, consensus, channels
<1>3. CASE Propose
  <2>1. Len(log') = Len(log) + 1
    BY <1>3 DEF Propose, IInv, Types, Places, LoopPlaces
  <2> QED BY <1>1, <1>3, <2>1 DEF Propose, channels
<1>4. CASE \E q \in Requests : ProposeFromMain(q)
  BY <1>1, <1>4 DEF ProposeFromMain, consensus
<1>5. CASE \E t \in Threads : Handle(t) \/ Send(t)
  BY <1>1, <1>5, HandlerFrame
<1> QED BY <1>2, <1>3, <1>4, <1>5, Steps

LEMMA StartedStep == ASSUME IInv, Work PROVE Started'
<1>0. /\ pc \in [Threads -> States] /\ Started /\ Len(log) \in Nat /\ Keys \subseteq Nat
      /\ Places /\ announced \subseteq Keys
  BY DEF IInv, Types, Keys
<1>1. CASE LoopStep
  <2>1. log' = log /\ (\A t \in Goroutines : pc'[t] = pc[t]) /\ pc'[Run] # "send"
    BY <1>1, LoopFrame DEF consensus
  <2>2. announced' \subseteq 1..Len(log')
    <3>1. CASE TakeBroadcast
      <4>1. broadcasts \in Seq(Broadcasts) /\ broadcasts # <<>> /\ Head(broadcasts) = broadcasts[1]
            /\ 1 \in DOMAIN broadcasts /\ broadcasts[1] \in Broadcasts
        BY <3>1 DEF TakeBroadcast, IInv, Types
      <4>2. broadcasts[1].key \in Keys /\ broadcasts[1].key <= Len(log)
        BY <4>1 DEF Broadcasts, IInv, Channel, Waiting
      <4>3. broadcasts[1].key \in 1..Len(log)
        BY <1>0, <4>2, Numbers DEF Keys
      <4> QED BY <1>0, <2>1, <3>1, <4>1, <4>3 DEF TakeBroadcast, Started
    <3>2. CASE ~TakeBroadcast
      BY <1>0, <2>1, <3>2, Growing DEF Started
    <3> QED BY <3>1, <3>2
  <2> QED BY <1>0, <2>1, <2>2, ThreadsOfKeys DEF Started
<1>2. CASE Propose
  <2>1. Len(log') = Len(log) + 1 /\ announced' = announced
    BY <1>0, <1>2 DEF Propose, IInv, Types, LoopPlaces, Places
  <2>2. \A t \in Goroutines : pc'[t] = pc[t]
    BY <1>0, <1>2, ThreadsOfKeys DEF Propose
  <2>3. Len(log') <= MaxRequests
    BY TypesStep DEF Types
  <2>4. Len(log') \in Keys
    BY <1>0, <2>1, <2>3, Numbers DEF Keys
  <2>5. announced' \subseteq 1..Len(log') /\ Len(log') \notin announced'
    BY <1>0, <2>1 DEF Started
  <2>6. \A k \in Keys : k > Len(log') => k > Len(log)
    BY <1>0, <2>1
  <2>7. pc[OwnPreprepare(Len(log'))] = "idle"
    BY <1>0, <2>1, <2>4, ThreadsOfKeys DEF Started
  <2> QED BY <1>0, <2>2, <2>4, <2>5, <2>6, <2>7, ThreadsOfKeys DEF Started
<1>3. CASE \E q \in Requests : ProposeFromMain(q)
  BY <1>0, <1>3 DEF ProposeFromMain, Started, consensus
<1>4. ASSUME NEW t \in Threads, HandlePreprepare(t) PROVE Started'
  <2>1. PICK k \in Keys : TakesPreprepare(t, k)
    BY <1>4, Preprepared
  <2>2. log' = log /\ announced' = announced
    BY <1>4, HandlerFrame DEF Handle
  <2>3. k <= Len(log) /\ ~(k > Len(log))
    BY <1>0, <2>1 DEF TakesPreprepare
  <2> QED BY <1>0, <2>1, <2>2, <2>3, ThreadsOfKeys DEF TakesPreprepare, Started
<1>5. ASSUME NEW t \in Threads, HandlePrepare(t) PROVE Started'
  <2>1. PICK k \in Keys, from \in Peers \cup {Self} : TakesPrepare(t, k, from)
    BY <1>5, Prepared
  <2>2. log' = log /\ announced' = announced
    BY <1>5, HandlerFrame DEF Handle
  <2>3. ~(k > Len(log))
    BY <1>0, <2>1 DEF TakesPrepare
  <2>4. \A u \in Goroutines : pc'[u] = pc[u] \/ (u.key = k /\ u # OwnPreprepare(k) /\ u # SendPrepare(k))
    BY <1>0, <2>1, ThreadsOfKeys DEF TakesPrepare
  <2>5. pc'[Run] = "send" => pc[Run] = "send"
    BY <1>0, <2>1, ThreadsOfKeys DEF TakesPrepare, Ended
  <2>6. \A j \in Keys : pc'[OwnPreprepare(j)] = pc[OwnPreprepare(j)]
                        /\ pc'[SendPrepare(j)] = pc[SendPrepare(j)]
    BY <2>4, ThreadsOfKeys
  <2> QED BY <1>0, <2>2, <2>3, <2>4, <2>5, <2>6, ThreadsOfKeys DEF Started
<1>6. ASSUME NEW t \in Threads, HandleCommit(t) \/ execute(t) PROVE Started'
  <2>1. PICK k \in Keys : /\ t = Run \/ t = OwnCommit(k)
                          /\ k <= Len(log)
                          /\ \E s \in {"select", "done", "execute"} : pc' = [pc EXCEPT ![t] = s]
    BY <1>6, Committed, Executed DEF TakesCommit, Executes, Ended
  <2>2. log' = log /\ announced' = announced
    BY <1>6, HandlerFrame DEF Handle
  <2>3. ~(k > Len(log))
    BY <1>0, <2>1
  <2> QED BY <1>0, <2>1, <2>2, <2>3, ThreadsOfKeys DEF Started
<1>7. ASSUME NEW t \in Threads, Send(t) PROVE Started'
  <2>1. log' = log /\ announced' = announced
    BY <1>7, HandlerFrame
  <2>2. CASE SendsPreprepare
    <3>1. Len(log) \in Keys /\ ~(Len(log) > Len(log))
      BY <1>0, <2>2 DEF SendsPreprepare
    <3> QED BY <1>0, <2>1, <2>2, <3>1, ThreadsOfKeys DEF SendsPreprepare, Started
  <2>3. ASSUME NEW k \in Keys, NEW type, Sends(t, k, type) PROVE Started'
    <3>1. ~(k > Len(log))
      BY <1>0, <2>3 DEF Sends
    <3> QED BY <1>0, <2>1, <2>3, <3>1, ThreadsOfKeys DEF Sends, Started
  <2> QED BY <1>7, <2>2, <2>3, Sent
<1> QED BY <1>1, <1>2, <1>3, <1>4, <1>5, <1>6, <1>7, Steps DEF Handle

LEMMA AnsweredStep == ASSUME IInv, Work PROVE Answered'
<1>0. /\ pc \in [Threads -> States] /\ Answered /\ Required \in Nat
      /\ prepares \in [Keys -> SUBSET (Peers \cup {Self})]
      /\ commits \in [Keys -> SUBSET (Peers \cup {Self})]
  BY NodesAssumption DEF IInv, Types
<1>1. announced \subseteq announced'
  BY Growing
<1>2. ASSUME UNCHANGED <<prepares, commits>>,
             \A k \in Keys : pc'[SendCommit(k)] # "idle" => pc[SendCommit(k)] # "idle"
      PROVE  Answered'
  BY <1>0, <1>1, <1>2 DEF Answered
<1>3. CASE LoopStep
  <2>1. \A k \in Keys : pc'[SendCommit(k)] = pc[SendCommit(k)]
    BY <1>3, LoopFrame, ThreadsOfKeys
  <2> QED BY <1>2, <1>3, <2>1, LoopFrame DEF consensus
<1>4. CASE Propose
  BY <1>0, <1>2, <1>4, ThreadsOfKeys DEF Propose
<1>5. CASE \E q \in Requests : ProposeFromMain(q)
  BY <1>0, <1>2, <1>5 DEF ProposeFromMain, consensus
<1>6. ASSUME NEW t \in Threads, HandlePreprepare(t) PROVE Answered'
  <2>1. PICK k \in Keys : TakesPreprepare(t, k)
    BY <1>6, Preprepared
  <2>2. \A j \in Keys : pc'[SendCommit(j)] = pc[SendCommit(j)]
    BY <1>0, <2>1, ThreadsOfKeys DEF TakesPreprepare
  <2> QED BY <1>2, <1>6, <2>2 DEF HandlePreprepare, consensus
<1>7. ASSUME NEW t \in Threads, HandlePrepare(t) PROVE Answered'
  <2>1. PICK k \in Keys, from \in Peers \cup {Self} : TakesPrepare(t, k, from)
    BY <1>7, Prepared
  <2>2. /\ commits' = commits /\ prepares'[k] = prepares[k] \cup {from}
        /\ \A j \in Keys : j # k => prepares'[j] = prepares[j]
    BY <1>0, <1>7, <2>1 DEF TakesPrepare, HandlePrepare
  <2>3. \A j \in Keys : ~(prepares'[j] \subseteq {Self}) => j \in announced'
    <3>1. from # Self => k \in announced
      BY <2>1, ThreadsOfKeys DEF TakesPrepare
    <3> QED BY <1>0, <1>1, <2>2, <3>1 DEF Answered
  <2>4. \A j \in Keys : Cardinality(prepares[j]) >= Required => Cardinality(prepares'[j]) >= Required
    <3>1. /\ Cardinality(prepares[k]) <= Cardinality(prepares'[k])
          /\ Cardinality(prepares[k]) \in Nat /\ Cardinality(prepares'[k]) \in Nat
      BY <1>0, <2>2, OneMore
    <3>2. Cardinality(prepares[k]) >= Required => Cardinality(prepares'[k]) >= Required
      BY <1>0, <3>1
    <3> QED BY <2>2, <3>2, Zenon
  <2>5. \A j \in Keys : pc'[SendCommit(j)] # "idle" =>
          pc[SendCommit(j)] # "idle" \/ (j = k /\ Cardinality(prepares'[k]) = Required)
    BY <1>0, <2>1, ThreadsOfKeys DEF TakesPrepare, Ended
  <2>6. Cardinality(prepares'[k]) = Required =>
          Cardinality(prepares'[k]) >= Required /\ k \in announced'
    BY <1>0, <2>3, NotAlone
  <2> QED BY <1>0, <1>1, <2>2, <2>3, <2>4, <2>5, <2>6 DEF Answered
<1>8. ASSUME NEW t \in Threads, HandleCommit(t) PROVE Answered'
  <2>1. PICK k \in Keys, from \in Peers \cup {Self} : TakesCommit(t, k, from)
    BY <1>8, Committed
  <2>2. /\ prepares' = prepares /\ commits'[k] = commits[k] \cup {from}
        /\ \A j \in Keys : j # k => commits'[j] = commits[j]
    BY <1>0, <1>8, <2>1 DEF TakesCommit, HandleCommit
  <2>3. from # Self => k \in announced
    BY <2>1, ThreadsOfKeys DEF TakesCommit
  <2>4. \A j \in Keys : pc'[SendCommit(j)] = pc[SendCommit(j)]
    BY <1>0, <2>1, ThreadsOfKeys DEF TakesCommit
  <2> QED BY <1>0, <1>1, <2>2, <2>3, <2>4 DEF Answered
<1>9. ASSUME NEW t \in Threads, execute(t) PROVE Answered'
  <2>1. \A j \in Keys : pc'[SendCommit(j)] = pc[SendCommit(j)]
    BY <1>0, <1>9, Executed, ThreadsOfKeys DEF Executes
  <2> QED BY <1>2, <1>9, <2>1 DEF execute, consensus
<1>10. ASSUME NEW t \in Threads, Send(t) PROVE Answered'
  <2>1. CASE SendsPreprepare
    <3>1. \A j \in Keys : pc'[SendCommit(j)] = pc[SendCommit(j)]
      BY <1>0, <2>1, ThreadsOfKeys DEF SendsPreprepare
    <3> QED BY <1>2, <1>10, <3>1 DEF Send, consensus
  <2>2. ASSUME NEW k \in Keys, NEW type, Sends(t, k, type) PROVE Answered'
    <3>1. \A j \in Keys : pc'[SendCommit(j)] # "idle" => pc[SendCommit(j)] # "idle"
      BY <1>0, <2>2, ThreadsOfKeys DEF Sends
    <3> QED BY <1>2, <1>10, <3>1 DEF Send, consensus
  <2> QED BY <1>10, <2>1, <2>2, Sent
<1> QED BY <1>3, <1>4, <1>5, <1>6, <1>7, <1>8, <1>9, <1>10, Steps DEF Handle

-----------------------------------------------------------------------------
\* The channel of broadcasts.

LEMMA Slots ==
  ASSUME NEW b \in Broadcasts, NEW c \in Broadcasts
  PROVE  /\ b.key \in Keys /\ b.type \in {"PREPREPARE", "PREPARE", "COMMIT"}
         /\ Slot(b) = Slot(c) <=> b.key = c.key /\ (b.type = "PREPARE" <=> c.type = "PREPARE")
BY DEF Broadcasts, Slot

\* A broadcast goes in behind the others.
LEMMA Appended ==
  ASSUME IInv, NEW b \in Broadcasts, broadcasts' = Append(broadcasts, b)
  PROVE  /\ (\A i \in DOMAIN broadcasts : Slot(broadcasts[i]) # Slot(b)) => Distinct'
         /\ \A i \in DOMAIN broadcasts' :
              (i \in DOMAIN broadcasts /\ broadcasts'[i] = broadcasts[i]) \/ broadcasts'[i] = b
<1>1. broadcasts \in Seq(Broadcasts) /\ Distinct
  BY DEF IInv, Types, Channel
<1>2. /\ DOMAIN broadcasts = 1..Len(broadcasts) /\ Len(broadcasts) \in Nat
      /\ DOMAIN broadcasts' = 1..(Len(broadcasts) + 1)
      /\ broadcasts'[Len(broadcasts) + 1] = b
      /\ \A i \in DOMAIN broadcasts : broadcasts'[i] = broadcasts[i]
  BY <1>1
<1>3. \A i \in DOMAIN broadcasts' : i \in DOMAIN broadcasts \/ i = Len(broadcasts) + 1
  BY <1>2
<1> QED BY <1>1, <1>2, <1>3 DEF Distinct, Slot

LEMMA ChannelStep == ASSUME IInv, Work PROVE Channel'
<1>0. /\ pc \in [Threads -> States] /\ Channel /\ Started /\ Answered
      /\ broadcasts \in Seq(Broadcasts) /\ Len(log) \in Nat /\ Keys \subseteq Nat
      /\ DOMAIN broadcasts = 1..Len(broadcasts)
  BY DEF IInv, Types, Keys
<1>1. \A i \in DOMAIN broadcasts : broadcasts[i] \in Broadcasts /\ broadcasts[i].key \in Keys
  BY <1>0, Slots
<1>2. ASSUME UNCHANGED <<broadcasts, announced, log>>, pc'[Run] = "send" => pc[Run] = "send",
             \A k \in Keys : /\ pc[SendPrepare(k)] = "done" => pc'[SendPrepare(k)] = "done"
                             /\ pc[SendCommit(k)] = "done" => pc'[SendCommit(k)] = "done"
      PROVE  Channel'
  BY <1>0, <1>1, <1>2 DEF Channel, Distinct, Waiting, Slot
<1>3. CASE LoopStep /\ ~TakeBroadcast
  <2>1. UNCHANGED <<broadcasts, announced, log>>
    BY <1>3 DEF LoopStep, TakeConsensus, TakeShard, TakeForward, TakeResult, TakeShardBroadcast,
       Forward, BroadcastToShard, consensus, channels
  <2> QED BY <1>2, <1>3, <2>1, LoopFrame, ThreadsOfKeys
<1>4. CASE TakeBroadcast
  <2>1. broadcasts # <<>> /\ broadcasts' = Tail(broadcasts) /\ log' = log
        /\ announced' \subseteq announced \cup {broadcasts[1].key}
        /\ (broadcasts[1].type # "PREPREPARE" => announced' = announced)
    BY <1>0, <1>4 DEF TakeBroadcast, consensus
  <2>2. pc'[Run] # "send" /\ \A t \in Goroutines : pc'[t] = pc[t]
    BY <1>4, LoopFrame DEF LoopStep
  <2>3. /\ 1 \in DOMAIN broadcasts
        /\ \A i \in DOMAIN broadcasts' : i + 1 \in DOMAIN broadcasts /\ i + 1 # 1
                                         /\ broadcasts'[i] = broadcasts[i + 1] /\ i \in Nat
    BY <1>0, <2>1
  <2>4. Distinct'
    BY <1>0, <2>3 DEF Channel, Distinct, Slot
  <2>5. ASSUME NEW i \in DOMAIN broadcasts', broadcasts'[i].type = "PREPREPARE"
        PROVE  broadcasts'[i].key \notin announced'
    <3>1. broadcasts[i + 1].key \notin announced
      BY <1>0, <2>3, <2>5 DEF Channel, Waiting
    <3>2. Slot(broadcasts[1]) # Slot(broadcasts[i + 1])
      BY <1>0, <2>3 DEF Channel, Distinct
    <3>3. broadcasts[1].type = "PREPREPARE" => broadcasts[1].key # broadcasts[i + 1].key
      BY <1>1, <2>3, <2>5, <3>2, Slots
    <3> QED BY <2>1, <2>3, <3>1, <3>3
  <2>6. ASSUME NEW i \in DOMAIN broadcasts'
        PROVE  LET b == broadcasts'[i] IN
               /\ b.key <= Len(log) /\ b.key \in Keys
               /\ b.type = "PREPARE" => pc'[SendPrepare(b.key)] = "done"
               /\ b.type = "COMMIT" => pc'[SendCommit(b.key)] = "done"
    <3> DEFINE c == broadcasts[i + 1]
    <3>1. c.key <= Len(log) /\ c.key \in Keys
          /\ (c.type = "PREPARE" => pc[SendPrepare(c.key)] = "done")
          /\ (c.type = "COMMIT" => pc[SendCommit(c.key)] = "done")
      BY <1>0, <1>1, <2>3 DEF Channel, Waiting
    <3>2. broadcasts'[i] = c
      BY <2>3
    <3> HIDE DEF c
    <3> QED BY <2>2, <3>1, <3>2, ThreadsOfKeys
  <2>7. Waiting'
    BY <2>1, <2>2, <2>5, <2>6 DEF Waiting
  <2> QED BY <2>4, <2>7 DEF Channel
<1>5. CASE Propose
  <2>1. Len(log') = Len(log) + 1 /\ UNCHANGED <<broadcasts, announced>>
    BY <1>0, <1>5 DEF Propose, IInv, Types, LoopPlaces, Places, channels
  <2>2. \A t \in Goroutines : pc'[t] = pc[t]
    BY <1>0, <1>5, ThreadsOfKeys DEF Propose
  <2>3. ASSUME NEW i \in DOMAIN broadcasts
        PROVE  broadcasts[i].key <= Len(log') /\ broadcasts[i].key # Len(log')
    <3>1. broadcasts[i].key \in Nat /\ broadcasts[i].key <= Len(log)
      BY <1>0, <1>1 DEF Channel, Waiting
    <3> QED BY <1>0, <2>1, <3>1
  <2>4. \A k \in Keys : pc'[SendPrepare(k)] = pc[SendPrepare(k)] /\ pc'[SendCommit(k)] = pc[SendCommit(k)]
    BY <2>2, ThreadsOfKeys
  <2>5. Waiting'
    BY <1>0, <1>1, <2>1, <2>3, <2>4 DEF Channel, Waiting
  <2>6. Distinct'
    BY <1>0, <2>1 DEF Channel, Distinct, Slot
  <2> QED BY <2>5, <2>6 DEF Channel
<1>6. CASE \E q \in Requests : ProposeFromMain(q)
  BY <1>2, <1>6 DEF ProposeFromMain, consensus
<1>7. ASSUME NEW t \in Threads, HandlePreprepare(t) PROVE Channel'
  <2>1. PICK k \in Keys : TakesPreprepare(t, k)
    BY <1>7, Preprepared
  <2>2. UNCHANGED <<broadcasts, announced, log>>
    BY <1>7 DEF HandlePreprepare, consensus, channels
  <2>3. pc[SendPrepare(k)] = "idle"
    BY <1>0, <2>1 DEF TakesPreprepare, Started
  <2> QED BY <1>0, <1>2, <2>1, <2>2, <2>3, ThreadsOfKeys DEF TakesPreprepare
<1>8. ASSUME NEW t \in Threads, HandlePrepare(t) PROVE Channel'
  <2>1. PICK k \in Keys, from \in Peers \cup {Self} : TakesPrepare(t, k, from)
    BY <1>8, Prepared
  <2>2. UNCHANGED <<broadcasts, announced, log>>
    BY <1>8 DEF HandlePrepare, channels
  <2>3. from \notin prepares[k] /\ Cardinality(prepares'[k]) = Required => pc[SendCommit(k)] = "idle"
    <3>1. prepares[k] \in SUBSET (Peers \cup {Self}) /\ prepares'[k] = prepares[k] \cup {from}
      BY <2>1 DEF TakesPrepare, IInv, Types
    <3>2. from \notin prepares[k] /\ Cardinality(prepares'[k]) = Required =>
            ~(Cardinality(prepares[k]) >= Required)
      BY <3>1, OneMore, NodesAssumption
    <3> QED BY <1>0, <3>2 DEF Answered
  <2>4. pc'[Run] = "send" => pc[Run] = "send"
    BY <1>0, <2>1, ThreadsOfKeys DEF TakesPrepare, Ended
  <2>5. ASSUME NEW j \in Keys
        PROVE  /\ pc[SendPrepare(j)] = "done" => pc'[SendPrepare(j)] = "done"
               /\ pc[SendCommit(j)] = "done" => pc'[SendCommit(j)] = "done"
    BY <1>0, <2>1, <2>3, ThreadsOfKeys DEF TakesPrepare, Ended
  <2> QED BY <1>2, <2>2, <2>4, <2>5
<1>9. ASSUME NEW t \in Threads, HandleCommit(t) \/ execute(t) PROVE Channel'
  <2>1. PICK k \in Keys : /\ t = Run \/ t = OwnCommit(k)
                          /\ \E s \in {"select", "done", "execute"} : pc' = [pc EXCEPT ![t] = s]
    BY <1>9, Committed, Executed DEF TakesCommit, Executes, Ended
  <2>2. UNCHANGED <<broadcasts, announced, log>>
    BY <1>9 DEF HandleCommit, execute, consensus, channels
  <2>3. pc'[Run] = "send" => pc[Run] = "send"
    BY <1>0, <2>1, ThreadsOfKeys
  <2>4. \A j \in Keys : pc'[SendPrepare(j)] = pc[SendPrepare(j)]
                        /\ pc'[SendCommit(j)] = pc[SendCommit(j)]
    BY <1>0, <2>1, ThreadsOfKeys
  <2> QED BY <1>2, <2>2, <2>3, <2>4
<1>10. ASSUME NEW t \in Threads, Send(t) PROVE Channel'
  <2>1. announced' = announced /\ log' = log
    BY <1>10, HandlerFrame
  <2>2. CASE SendsPreprepare
    <3> DEFINE b == [type |-> "PREPREPARE", key |-> Len(log)]
    <3>1. b \in Broadcasts /\ broadcasts' = Append(broadcasts, b) /\ b.key = Len(log)
          /\ b.type = "PREPREPARE"
      BY <2>2 DEF SendsPreprepare, Broadcasts
    <3> HIDE DEF b
    <3>2. \A i \in DOMAIN broadcasts : broadcasts[i].key # b.key /\ broadcasts[i].key <= Len(log)
      BY <1>0, <2>2, <3>1 DEF SendsPreprepare, Channel, Waiting
    <3>3. Distinct'
      BY <1>1, <3>1, <3>2, Appended, Slots
    <3>4. b.key \notin announced
      BY <1>0, <2>2, <3>1 DEF SendsPreprepare, Started
    <3>5. pc'[Run] # "send" /\ \A k \in Keys : pc'[SendPrepare(k)] = pc[SendPrepare(k)]
                                              /\ pc'[SendCommit(k)] = pc[SendCommit(k)]
      BY <1>0, <2>2, ThreadsOfKeys DEF SendsPreprepare
    <3>6. ASSUME NEW i \in DOMAIN broadcasts'
          PROVE  LET c == broadcasts'[i] IN
                 /\ c.key <= Len(log')
                 /\ c.type = "PREPREPARE" => c.key \notin announced'
                 /\ c.type = "PREPARE" => pc'[SendPrepare(c.key)] = "done"
                 /\ c.type = "COMMIT" => pc'[SendCommit(c.key)] = "done"
      <4>1. CASE i \in DOMAIN broadcasts /\ broadcasts'[i] = broadcasts[i]
        BY <1>0, <1>1, <2>1, <3>5, <4>1 DEF Channel, Waiting
      <4>2. CASE broadcasts'[i] = b
        BY <1>0, <2>1, <3>1, <3>4, <4>2
      <4> QED BY <3>1, <4>1, <4>2, Appended
    <3>7. Waiting'
      BY <3>5, <3>6 DEF Waiting
    <3> QED BY <3>3, <3>7 DEF Channel
  <2>3. ASSUME NEW k \in Keys, NEW type \in {"PREPARE", "COMMIT"}, Sends(t, k, type) PROVE Channel'
    <3> DEFINE b == [type |-> type, key |-> k]
    <3>1. b \in Broadcasts /\ broadcasts' = Append(broadcasts, b) /\ b.key = k /\ b.type = type
      BY <2>3 DEF Sends, Broadcasts
    <3> HIDE DEF b
    <3>2. /\ pc[t] = "send" /\ t = IF type = "PREPARE" THEN SendPrepare(k) ELSE SendCommit(k)
          /\ k <= Len(log)
      BY <2>3 DEF Sends
    <3>3. type = "COMMIT" => k \in announced
      BY <1>0, <3>2 DEF Answered
    <3>4. pc[Run] = "send" => k # Len(log)
      BY <1>0, <2>3, <3>2, <3>3 DEF Started
    <3>5. \A i \in DOMAIN broadcasts :
            broadcasts[i].key = k =>
              ~(broadcasts[i].type = "PREPARE" <=> type = "PREPARE")
      BY <1>0, <1>1, <2>3, <3>2, <3>3, Slots DEF Channel, Waiting
    <3>6. Distinct'
      BY <1>1, <3>1, <3>5, Appended, Slots
    <3>7. /\ pc'[Run] = pc[Run] /\ pc'[t] = "done"
          /\ \A j \in Keys : /\ pc[SendPrepare(j)] = "done" => pc'[SendPrepare(j)] = "done"
                             /\ pc[SendCommit(j)] = "done" => pc'[SendCommit(j)] = "done"
      BY <1>0, <2>3, ThreadsOfKeys DEF Sends
    <3>8. ASSUME NEW i \in DOMAIN broadcasts'
          PROVE  LET c == broadcasts'[i] IN
                 /\ c.key <= Len(log')
                 /\ pc'[Run] = "send" => c.key # Len(log')
                 /\ c.type = "PREPREPARE" => c.key \notin announced'
                 /\ c.type = "PREPARE" => pc'[SendPrepare(c.key)] = "done"
                 /\ c.type = "COMMIT" => pc'[SendCommit(c.key)] = "done"
      <4>1. CASE i \in DOMAIN broadcasts /\ broadcasts'[i] = broadcasts[i]
        BY <1>0, <1>1, <2>1, <3>7, <4>1 DEF Channel, Waiting
      <4>2. CASE broadcasts'[i] = b
        BY <2>1, <3>1, <3>2, <3>4, <3>7, <4>2
      <4> QED BY <3>1, <4>1, <4>2, Appended
    <3>9. Waiting'
      BY <3>8 DEF Waiting
    <3> QED BY <3>6, <3>9 DEF Channel
  <2> QED BY <1>10, <2>2, <2>3, Sent
<1> QED BY <1>3, <1>4, <1>5, <1>6, <1>7, <1>8, <1>9, <1>10, Steps DEF Handle

-----------------------------------------------------------------------------

LEMMA InitIInv == Init => IInv
<1> SUFFICES ASSUME Init PROVE IInv
  OBVIOUS
<1>1. /\ \A t \in Threads : pc[t] = (IF t = Run THEN "select" ELSE "idle")
      /\ pc \in [Threads -> States]
  BY DEF Init, States
<1>2. /\ pc[Run] = "select"
      /\ \A k \in Keys : /\ pc[OwnPreprepare(k)] = "idle" /\ pc[OwnPrepare(k)] = "idle"
                         /\ pc[OwnCommit(k)] = "idle" /\ pc[SendPrepare(k)] = "idle"
                         /\ pc[SendCommit(k)] = "idle"
  BY <1>1, ThreadsOfKeys
<1>3. Types
  BY <1>1, Numbers DEF Init, Types
<1>4. Places
  BY <1>2 DEF Places, KeyPlaces, LoopPlaces
<1>5. Mutex
  BY <1>1, <1>2 DEF Init, Mutex
<1>6. Requested
  BY <1>2, Numbers DEF Init, Requested, MaxRequests
<1>7. ExecutedOnce
  BY <1>1 DEF Init, ExecutedOnce
<1>8. FannedOut
  <2>1. MaxFanout * Cardinality(Finished) \in Nat
    BY Numbers, FinishedFinite
  <2> QED BY <1>2, <2>1 DEF Init, FannedOut
<1>9. Started
  BY <1>1, <1>2, ThreadsOfKeys DEF Init, Started
<1>10. Answered
  BY <1>2 DEF Init, Answered
<1>11. Channel
  BY DEF Init, Channel, Distinct, Waiting
<1> QED BY <1>3, <1>4, <1>5, <1>6, <1>7, <1>8, <1>9, <1>10, <1>11 DEF IInv

LEMMA WorkIInv == IInv /\ [Work]_vars => IInv'
<1> SUFFICES ASSUME IInv, [Work]_vars PROVE IInv'
  OBVIOUS
<1>1. CASE Work
  <2>1. Places'
    BY <1>1, KeyPlacesStep, LoopPlacesStep DEF Places
  <2> QED BY <1>1, <2>1, TypesStep, MutexStep, RequestedStep, ExecutedOnceStep, FannedOutStep,
             StartedStep, AnsweredStep, ChannelStep DEF IInv
<1>2. CASE UNCHANGED vars
  BY <1>2 DEF vars, consensus, channels, IInv, Types, Places, KeyPlaces, LoopPlaces, Mutex,
     Requested, ExecutedOnce, Quorate, Returned, Executing, Message, Finished, FannedOut,
     Started, Answered, Channel, Distinct, Waiting, Slot
<1> QED BY <1>1, <1>2

LEMMA IInvTypeOK == IInv => TypeOK
<1> SUFFICES ASSUME IInv PROVE TypeOK
  OBVIOUS
<1>1. results \in Seq(1..Len(log))
  <2>1. results \in Seq(Keys) /\ Keys \subseteq Nat \ {0} /\ Len(log) \in Nat
    BY DEF IInv, Types, Keys
  <2>2. ASSUME NEW i \in DOMAIN results PROVE results[i] \in 1..Len(log)
    <3>1. results[i] \in Keys /\ Quorate(results[i])
      BY <2>1 DEF IInv, ExecutedOnce
    <3>2. results[i] <= Len(log)
      BY <3>1, QuorateGivenOut
    <3>3. results[i] \in Nat \ {0}
      BY <2>1, <3>1
    <3> QED BY <2>1, <3>2, <3>3
  <2> QED BY <2>1, <2>2
<1>2. shardMessages \in 0..ChanelSize
  BY RoomForShardMessage, Numbers DEF IInv, Types
<1>3. announced \subseteq 1..Len(log)
  BY DEF IInv, Started
<1> QED BY <1>1, <1>2, <1>3, RoomForRequest, RoomForResult DEF TypeOK, IInv, Types, States

-----------------------------------------------------------------------------
\* A node works on until execute does not find the pre-prepare.

Dead == TypeOK /\ pc = [t \in Threads |-> "dead"]
Reachable == IInv \/ Dead

LEMMA Dies ==
  ASSUME IInv, NEW t \in Threads, Panic(t)
  PROVE  Dead'
<1>1. TypeOK
  BY IInvTypeOK
<1>2. /\ UNCHANGED <<pending, answered, forward, log, prepares, commits, mu, item, left,
                     shardMessages, broadcasts, announced, results>>
      /\ pc' = [u \in Threads |-> "dead"]
  BY DEF Panic, consensus, channels
<1> QED BY <1>1, <1>2 DEF Dead, TypeOK

LEMMA DeadStays == Dead /\ [Next]_vars => UNCHANGED vars
<1> SUFFICES ASSUME Dead, Next PROVE FALSE
  OBVIOUS
<1>1. \A t \in Threads : pc[t] = "dead"
  BY DEF Dead
<1> QED BY <1>1, ThreadsOfKeys DEF Next, Work, RunLoop, Handle, TakeConsensus, TakeShard,
           TakeForward, TakeResult, TakeBroadcast, TakeShardBroadcast, Selected, Forward,
           BroadcastToShard, Propose, ProposeFromMain, HandlePreprepare, HandlePrepare,
           HandleCommit, execute, Send, Panic

LEMMA NextReachable == Reachable /\ [Next]_vars => Reachable'
<1> SUFFICES ASSUME Reachable, [Next]_vars PROVE Reachable'
  OBVIOUS
<1>1. CASE Dead
  BY <1>1, DeadStays DEF Reachable, Dead, TypeOK, vars, consensus, channels
<1>2. CASE IInv /\ [Work]_vars
  BY <1>2, WorkIInv DEF Reachable
<1>3. CASE IInv /\ \E t \in Threads : Panic(t)
  BY <1>3, Dies DEF Reachable
<1> QED BY <1>1, <1>2, <1>3 DEF Next, Reachable

\* The counts behind the room in the channels hold until the node dies.
THEOREM Invariance == Spec => []Reachable
<1>1. Init => Reachable
  BY InitIInv DEF Reachable
<1> QED BY <1>1, NextReachable, PTL DEF Spec

\* The variables of the goroutines of a node keep their types, no channel of it
\* ever holds more than it has room for, and a result or an announced key is
\* that of a request that has been numbered: in every committee, the whole one
\* too, in which execute can be without the pre-prepare.
THEOREM TypeCorrect == Spec => []TypeOK
<1>1. Reachable => TypeOK
  BY IInvTypeOK DEF Reachable, Dead
<1> QED BY <1>1, Invariance, PTL

\* The Run loop of node.go is the only reader of the channels it writes to, and
\* it waits for a mutex that the goroutines of consensus hold while they send
\* into such a channel.  With RoomAssumption it never waits on itself: whatever
\* the number of requests and of replicas, whoever of them is heard, and in
\* whatever order the goroutines run, until the node dies.
THEOREM LoopNeverStuck == Spec => []NeverStuck
<1>1. Dead => NeverStuck
  BY ThreadsOfKeys DEF Dead, NeverStuck, Blocked
<1>2. Reachable => NeverStuck
  BY <1>1, CountsLeaveRoom DEF Reachable
<1> QED BY <1>2, Invariance, PTL

=============================================================================
