---------------------------- MODULE Linear_proofs ----------------------------
(***************************************************************************)
(* Proofs about Linear, for every set of shards and of shard requests:     *)
(* its types, and that requests are numbered only where they belong.       *)
(*                                                                         *)
(* What a primary files and sends is put together by one handler and acted *)
(* on by another shard, so IInv says of every shard message that it is     *)
(* addressed by what it carries, and of every channel what is in it.       *)
(***************************************************************************)
EXTENDS Linear, SequenceTheorems, TLAPS

Whole == [votes : Seq(Requests), commits : Seq(Requests), aborts : Seq(Requests)]

\* A shard message goes to the shard of the request it carries first.
Addressed(m) == m.shard = FindShard(First(m.request).target)

AtHome(s, seq) == \A i \in DOMAIN seq : FindShard(seq[i].target) = s

IInv ==
  /\ TypeOK
  /\ \A s \in Shards : AtHome(s, forward[s]) /\ AtHome(s, log[s])
  /\ \A s \in Shards : \A i \in DOMAIN outbox[s] : Addressed(outbox[s][i])
  /\ \A m \in net : Addressed(m) /\ m.shard \in Shards

-----------------------------------------------------------------------------

LEMMA PartsAreRequests ==
  ASSUME NEW x \in ShardRequests
  PROVE  x \in Whole /\ x.votes # <<>> /\ FindShard(Head(x.votes).target) \in Shards
BY RequestsAssumption DEF Whole

LEMMA FindShardByte == \A q \in Requests : FindShard(q.target) \in 0..255
<1>1. \A t \in 0..255 : (t - 65 + 1) % 256 \in 0..255
  OBVIOUS
<1> QED BY <1>1, RequestsAssumption DEF FindShard

LEMMA ExceptVotes ==
  ASSUME NEW r \in Whole, NEW t
  PROVE  [r EXCEPT !.votes = t] = [votes |-> t, commits |-> r.commits, aborts |-> r.aborts]
BY DEF Whole

\* A remainder is a record of requests that has one to come first.
LEMMA RemainderForm ==
  ASSUME NEW x \in ShardRequests, NEW r \in Remainders(x)
  PROVE  r \in Whole /\ First(r) \in Requests
<1>1. x \in Whole /\ x.votes # <<>>
  BY PartsAreRequests
<1>2. CASE \E i \in 1..Len(x.votes) : r = [x EXCEPT !.votes = SubSeq(@, i, Len(@))]
  <2>1. PICK i \in 1..Len(x.votes) : r = [x EXCEPT !.votes = SubSeq(@, i, Len(@))]
    BY <1>2
  <2> DEFINE v == SubSeq(x.votes, i, Len(x.votes))
  <2>2. v \in Seq(Requests) /\ Len(v) = Len(x.votes) - i + 1
    BY <1>1, SubSeqProperties DEF Whole
  <2>3. v # <<>> /\ Head(v) \in Requests
    <3>1. Len(v) # 0
      BY <1>1, <2>2 DEF Whole
    <3>2. v # <<>>
      BY <3>1, EmptySeq
    <3> QED BY <2>2, <3>2, HeadTailProperties
  <2>4. r = [votes |-> v, commits |-> x.commits, aborts |-> x.aborts]
    BY <1>1, <2>1 DEF Whole
  <2> QED BY <1>1, <2>2, <2>3, <2>4 DEF Whole, First
<1>3. CASE \E c \in ToSet(x.commits) : r = [votes |-> <<>>, commits |-> <<c>>, aborts |-> <<>>]
  <2>1. PICK c \in ToSet(x.commits) : r = [votes |-> <<>>, commits |-> <<c>>, aborts |-> <<>>]
    BY <1>3
  <2>2. c \in Requests
    BY <1>1 DEF Whole, ToSet
  <2> QED BY <2>1, <2>2 DEF Whole, First
<1> QED BY <1>2, <1>3 DEF Remainders

LEMMA ReducedForm ==
  ASSUME NEW r \in Reduced
  PROVE  r \in Whole /\ First(r) \in Requests /\ r # None
BY RemainderForm, RequestsAssumption DEF Reduced, Whole

\* The two forms of a remainder.
LEMMA SuffixReduced ==
  ASSUME NEW x \in ShardRequests, NEW i \in 1..Len(x.votes)
  PROVE  [x EXCEPT !.votes = SubSeq(@, i, Len(@))] \in Reduced
<1> DEFINE f(k) == [x EXCEPT !.votes = SubSeq(@, k, Len(@))]
<1>1. {f(k) : k \in 1..Len(x.votes)} \subseteq Remainders(x)
  BY DEF Remainders
<1> HIDE DEF f
<1>2. f(i) \in {f(k) : k \in 1..Len(x.votes)}
  OBVIOUS
<1>3. f(i) \in Reduced
  BY <1>1, <1>2 DEF Reduced
<1> QED BY <1>3 DEF f

LEMMA CommitReduced ==
  ASSUME NEW x \in ShardRequests, NEW c \in ToSet(x.commits)
  PROVE  [votes |-> <<>>, commits |-> <<c>>, aborts |-> <<>>] \in Reduced
<1> DEFINE f(d) == [votes |-> <<>>, commits |-> <<d>>, aborts |-> <<>>]
<1>1. {f(d) : d \in ToSet(x.commits)} \subseteq Remainders(x)
  BY DEF Remainders
<1> HIDE DEF f
<1>2. f(c) \in {f(d) : d \in ToSet(x.commits)}
  OBVIOUS
<1>3. f(c) \in Reduced
  BY <1>1, <1>2 DEF Reduced
<1> QED BY <1>3 DEF f

\* A whole shard request is a remainder of itself.
LEMMA WholeIsRemainder ==
  ASSUME NEW x \in ShardRequests
  PROVE  x \in Reduced
<1>1. x \in Whole /\ x.votes # <<>>
  BY PartsAreRequests
<1>2. Len(x.votes) \in Nat \ {0} /\ SubSeq(x.votes, 1, Len(x.votes)) = x.votes
  BY <1>1, EmptySeq, SubSeqFull DEF Whole
<1>3. x = [x EXCEPT !.votes = SubSeq(@, 1, Len(@))]
  BY <1>1, <1>2 DEF Whole
<1>4. 1 \in 1..Len(x.votes)
  BY <1>2
<1> QED BY <1>3, <1>4, SuffixReduced

\* What handleCommitVote sends are remainders, addressed by what they carry.
LEMMA CommitVoteSends ==
  ASSUME NEW r \in Reduced, r.votes # <<>>
  PROVE  /\ handleCommitVote(r) \in Seq(ShardMessages)
         /\ \A i \in DOMAIN handleCommitVote(r) : Addressed(handleCommitVote(r)[i])
<1>1. PICK x \in ShardRequests : r \in Remainders(x)
  BY DEF Reduced
<1>2. x \in Whole
  BY PartsAreRequests
<1>3. PICK j \in 1..Len(x.votes) : r = [x EXCEPT !.votes = SubSeq(@, j, Len(@))]
  BY <1>1 DEF Remainders
<1> DEFINE n == Len(x.votes)
           v == SubSeq(x.votes, j, n)
           rest == [r EXCEPT !.votes = Tail(@)]
<1>4. v \in Seq(Requests) /\ Len(v) = n - j + 1 /\ v # <<>>
  <2>1. n \in Nat /\ x.votes \in Seq(Requests)
    BY <1>2 DEF Whole
  <2>2. v \in Seq(Requests) /\ Len(v) = n - j + 1
    BY <2>1, SubSeqProperties
  <2>3. Len(v) # 0
    BY <2>1, <2>2
  <2> QED BY <2>1, <2>2, <2>3, EmptySeq
<1>5. r = [votes |-> v, commits |-> x.commits, aborts |-> x.aborts]
  BY <1>2, <1>3 DEF Whole
<1> HIDE DEF v
<1>6. rest = [votes |-> Tail(v), commits |-> x.commits, aborts |-> x.aborts]
  <2>1. r \in Whole /\ r.votes = v /\ r.commits = x.commits /\ r.aborts = x.aborts
    BY <1>5, ReducedForm
  <2>2. rest = [votes |-> Tail(r.votes), commits |-> r.commits, aborts |-> r.aborts]
    BY <2>1, ExceptVotes
  <2> QED BY <2>1, <2>2
<1>7. \A y \in Reduced : To(y) \in ShardMessages /\ Addressed(To(y))
  BY ReducedForm, FindShardByte DEF To, ShardMessages, Addressed
<1>8. CASE Tail(v) = <<>>
  <2> DEFINE one(i) == [votes |-> <<>>, commits |-> <<r.commits[i]>>, aborts |-> <<>>]
  <2>1. handleCommitVote(r) = [i \in DOMAIN r.commits |-> To(one(i))]
    BY <1>6, <1>8 DEF handleCommitVote
  <2>2. \A i \in DOMAIN r.commits : one(i) \in Reduced
    <3>1. \A c \in ToSet(x.commits) :
            [votes |-> <<>>, commits |-> <<c>>, aborts |-> <<>>] \in Reduced
      BY CommitReduced
    <3>2. \A i \in DOMAIN r.commits : r.commits[i] \in ToSet(x.commits)
      BY <1>5 DEF ToSet
    <3> QED BY <3>1, <3>2
  <2>3. r.commits \in Seq(Requests)
    BY <1>2, <1>5 DEF Whole
  <2>4. DOMAIN r.commits = 1..Len(r.commits) /\ Len(r.commits) \in Nat
    BY <2>3
  <2> HIDE DEF one
  <2> QED BY <1>7, <2>1, <2>2, <2>4
<1>9. CASE Tail(v) # <<>>
  <2>1. handleCommitVote(r) = <<To(rest)>>
    BY <1>6, <1>9 DEF handleCommitVote
  <2>2. Tail(v) = SubSeq(x.votes, j + 1, n) /\ j + 1 \in 1..n
    <3>1. n \in Nat /\ x.votes \in Seq(Requests)
      BY <1>2 DEF Whole
    <3>2. Len(v) # 1
      BY <1>4, <1>9, EmptySeq, HeadTailProperties
    <3>3. j \in 1..n /\ n \in j..n /\ j + 1 \in 1..n
      BY <1>4, <3>1, <3>2
    <3> QED BY <3>1, <3>3, HeadTailOfSubSeq DEF v
  <2>3. rest = [x EXCEPT !.votes = SubSeq(@, j + 1, Len(@))]
    BY <1>2, <1>6, <2>2 DEF Whole
  <2>4. rest \in Reduced
    BY <2>2, <2>3, SuffixReduced
  <2> HIDE DEF rest
  <2> QED BY <1>7, <2>1, <2>4
<1> QED BY <1>8, <1>9

-----------------------------------------------------------------------------
\* A channel of one primary grows by one value, or gives up its first.

LEMMA AppendAt ==
  ASSUME NEW S, NEW f \in [Shards -> Seq(S)], NEW s \in Shards, NEW e \in S
  PROVE  /\ [f EXCEPT ![s] = Append(@, e)] \in [Shards -> Seq(S)]
         /\ \A t \in Shards : \A i \in DOMAIN [f EXCEPT ![s] = Append(@, e)][t] :
              \/ t = s /\ [f EXCEPT ![s] = Append(@, e)][t][i] = e
              \/ i \in DOMAIN f[t] /\ [f EXCEPT ![s] = Append(@, e)][t][i] = f[t][i]
<1>1. Append(f[s], e) \in Seq(S)
  OBVIOUS
<1>2. \A i \in DOMAIN Append(f[s], e) :
        \/ Append(f[s], e)[i] = e
        \/ i \in DOMAIN f[s] /\ Append(f[s], e)[i] = f[s][i]
  <2>1. f[s] \in Seq(S)
    OBVIOUS
  <2>2. /\ Len(Append(f[s], e)) = Len(f[s]) + 1
        /\ \A i \in 1..Len(f[s]) : Append(f[s], e)[i] = f[s][i]
        /\ Append(f[s], e)[Len(f[s]) + 1] = e
    BY <2>1, AppendProperties
  <2>3. DOMAIN f[s] = 1..Len(f[s]) /\ DOMAIN Append(f[s], e) = 1..Len(f[s]) + 1
    BY <1>1, <2>1, <2>2
  <2> QED BY <2>1, <2>2, <2>3
<1> QED BY <1>1, <1>2

LEMMA TailAt ==
  ASSUME NEW S, NEW f \in [Shards -> Seq(S)], NEW s \in Shards, f[s] # <<>>
  PROVE  /\ Head(f[s]) \in S /\ 1 \in DOMAIN f[s] /\ Head(f[s]) = f[s][1]
         /\ [f EXCEPT ![s] = Tail(@)] \in [Shards -> Seq(S)]
         /\ \A t \in Shards : \A i \in DOMAIN [f EXCEPT ![s] = Tail(@)][t] :
              \E j \in DOMAIN f[t] : [f EXCEPT ![s] = Tail(@)][t][i] = f[t][j]
<1>1. Head(f[s]) \in S /\ Tail(f[s]) \in Seq(S) /\ Len(Tail(f[s])) = Len(f[s]) - 1
  BY HeadTailProperties
<1>2. Head(f[s]) = f[s][1] /\ 1 \in DOMAIN f[s]
  BY EmptySeq
<1>3. \A i \in DOMAIN Tail(f[s]) : i + 1 \in DOMAIN f[s] /\ Tail(f[s])[i] = f[s][i + 1]
  BY <1>1, HeadTailProperties
<1> QED BY <1>1, <1>2, <1>3

\* A shard request filed where its first request belongs.
LEMMA ProposeKeeps ==
  ASSUME IInv, NEW s \in Shards, NEW x \in Reduced, s = FindShard(First(x).target),
         ProposeAt(s, x)
  PROVE  /\ messages' \in [Shards -> [Requests -> Reduced \cup {None}]]
         /\ \A t \in Shards, q \in Requests :
              messages'[t][q] = None \/ q = First(messages'[t][q])
         /\ forward' \in [Shards -> Seq(Requests)]
         /\ \A t \in Shards : AtHome(t, forward'[t])
<1>1. First(x) \in Requests
  BY ReducedForm
<1>2. forward \in [Shards -> Seq(Requests)]
  BY DEF IInv, TypeOK
<1>3. forward' = [forward EXCEPT ![s] = Append(@, First(x))]
  BY DEF ProposeAt
<1>4. forward' \in [Shards -> Seq(Requests)] /\ \A t \in Shards : AtHome(t, forward'[t])
  BY <1>1, <1>2, <1>3, AppendAt DEF IInv, AtHome
<1>5. messages \in [Shards -> [Requests -> Reduced \cup {None}]]
  BY DEF IInv, TypeOK
<1>6. messages' = [messages EXCEPT ![s][First(x)] = x]
  BY DEF ProposeAt
<1>7. \A t \in Shards, q \in Requests :
        messages'[t][q] = IF t = s /\ q = First(x) THEN x ELSE messages[t][q]
  BY <1>1, <1>5, <1>6
<1>8. messages' \in [Shards -> [Requests -> Reduced \cup {None}]]
  BY <1>1, <1>5, <1>6
<1>9. \A t \in Shards, q \in Requests : messages'[t][q] = None \/ q = First(messages'[t][q])
  BY <1>7 DEF IInv, TypeOK
<1> QED BY <1>4, <1>8, <1>9

-----------------------------------------------------------------------------

LEMMA InitIInv == Init => IInv
<1> SUFFICES ASSUME Init PROVE IInv
  OBVIOUS
<1>1. TypeOK
  <2>1. <<>> \in Seq(Requests) /\ <<>> \in Seq(ShardMessages)
    OBVIOUS
  <2> QED BY <2>1 DEF Init, TypeOK
<1> QED BY <1>1 DEF Init, IInv, AtHome

LEMMA StepIInv == IInv /\ [Next]_vars => IInv'
<1> SUFFICES ASSUME IInv, [Next]_vars PROVE IInv'
  OBVIOUS
<1> USE DEF IInv
<1>1. ASSUME NEW x \in ShardRequests, Submit(x) PROVE IInv'
  <2> DEFINE s == FindShard(First(x).target)
  <2>1. First(x) = Head(x.votes) /\ s \in Shards /\ x \in Reduced
    BY PartsAreRequests, WholeIsRemainder DEF First
  <2>2. ProposeAt(s, x)
    BY <1>1 DEF Submit
  <2> HIDE DEF s
  <2>3. s = FindShard(First(x).target)
    BY DEF s
  <2>4. /\ messages' \in [Shards -> [Requests -> Reduced \cup {None}]]
        /\ \A t \in Shards, q \in Requests :
             messages'[t][q] = None \/ q = First(messages'[t][q])
        /\ forward' \in [Shards -> Seq(Requests)]
        /\ \A t \in Shards : AtHome(t, forward'[t])
    BY <2>1, <2>2, <2>3, ProposeKeeps
  <2> QED BY <1>1, <2>4 DEF Submit, TypeOK
<1>2. ASSUME NEW m \in net, HandleShardMessage(m) PROVE IInv'
  <2>1. m.shard \in Shards /\ m.request \in Reduced /\ m.shard = FindShard(First(m.request).target)
    BY DEF TypeOK, ShardMessages, Addressed
  <2>2. net' \subseteq net /\ heard' = heard \cup {m.shard}
    BY <1>2 DEF HandleShardMessage
  <2>3. CASE m.shard \in heard
    BY <1>2, <2>1, <2>2, <2>3 DEF HandleShardMessage, TypeOK
  <2>4. CASE m.shard \notin heard
    <3>1. ProposeAt(m.shard, m.request)
      BY <1>2, <2>4 DEF HandleShardMessage
    <3>2. /\ messages' \in [Shards -> [Requests -> Reduced \cup {None}]]
          /\ \A t \in Shards, q \in Requests :
               messages'[t][q] = None \/ q = First(messages'[t][q])
          /\ forward' \in [Shards -> Seq(Requests)]
          /\ \A t \in Shards : AtHome(t, forward'[t])
      BY <2>1, <3>1, ProposeKeeps
    <3> QED BY <1>2, <2>1, <2>2, <2>4, <3>2 DEF HandleShardMessage, TypeOK
  <2> QED BY <2>3, <2>4
<1>3. ASSUME NEW s \in Shards, Forward(s) PROVE IInv'
  <2>1. forward \in [Shards -> Seq(Requests)] /\ log \in [Shards -> Seq(Requests)]
    BY DEF TypeOK
  <2>2. forward' = [forward EXCEPT ![s] = Tail(@)] /\ log' = [log EXCEPT ![s] = Append(@, Head(forward[s]))]
    BY <1>3 DEF Forward
  <2>3. /\ Head(forward[s]) \in Requests /\ FindShard(Head(forward[s]).target) = s
        /\ forward' \in [Shards -> Seq(Requests)]
        /\ \A t \in Shards : \A i \in DOMAIN forward'[t] :
             \E j \in DOMAIN forward[t] : forward'[t][i] = forward[t][j]
    BY <1>3, <2>1, <2>2, TailAt DEF Forward, AtHome
  <2>4. /\ log' \in [Shards -> Seq(Requests)]
        /\ \A t \in Shards : \A i \in DOMAIN log'[t] :
             \/ t = s /\ log'[t][i] = Head(forward[s])
             \/ i \in DOMAIN log[t] /\ log'[t][i] = log[t][i]
    BY <2>1, <2>2, <2>3, AppendAt
  <2>5. \A t \in Shards : AtHome(t, forward'[t]) /\ AtHome(t, log'[t])
    <3>1. \A t \in Shards : AtHome(t, forward[t]) /\ AtHome(t, log[t])
      OBVIOUS
    <3>2. \A t \in Shards : AtHome(t, forward'[t])
      BY <2>3, <3>1 DEF AtHome
    <3>3. ASSUME NEW t \in Shards, NEW i \in DOMAIN log'[t] PROVE FindShard(log'[t][i].target) = t
      <4>1. CASE t = s /\ log'[t][i] = Head(forward[s])
        BY <2>3, <4>1
      <4>2. CASE i \in DOMAIN log[t] /\ log'[t][i] = log[t][i]
        BY <3>1, <4>2 DEF AtHome
      <4> QED BY <2>4, <4>1, <4>2
    <3> QED BY <3>2, <3>3 DEF AtHome
  <2>6. \A t \in Shards : DOMAIN log[t] \subseteq DOMAIN log'[t]
    BY <2>1, <2>2, <2>3, AppendProperties
  <2> QED BY <1>3, <2>3, <2>4, <2>5, <2>6 DEF Forward, TypeOK
<1>4. ASSUME NEW s \in Shards, NEW k \in DOMAIN log[s], Execute(s, k) PROVE IInv'
  <2>1. log \in [Shards -> Seq(Requests)] /\ results \in [Shards -> Seq(Requests)]
    BY DEF TypeOK
  <2>2. k \in Nat /\ log[s][k] \in Requests
    BY <2>1
  <2>3. results' \in [Shards -> Seq(Requests)]
    BY <1>4, <2>1, <2>2, AppendAt DEF Execute
  <2>4. executed' \in [Shards -> SUBSET Nat] /\ \A t \in Shards : executed'[t] \subseteq DOMAIN log[t]
    BY <1>4, <2>2 DEF Execute, TypeOK
  <2> QED BY <1>4, <2>3, <2>4 DEF Execute, TypeOK
<1>8. ASSUME NEW s \in Shards, NEW k \in DOMAIN log[s], Panic(s, k) PROVE IInv'
  BY <1>8 DEF Panic, TypeOK
<1>9. ASSUME NEW s \in Shards, NEW k \in DOMAIN log[s], Stall(s, k) PROVE IInv'
  <2>1. k \in Nat
    BY DEF TypeOK
  <2>2. /\ stalled' \in [Shards -> SUBSET Nat]
        /\ \A t \in Shards : stalled'[t] \subseteq DOMAIN log[t]
    BY <1>9, <2>1 DEF Stall, TypeOK
  <2> QED BY <1>9, <2>2 DEF Stall, TypeOK
<1>5. ASSUME NEW s \in Shards, HandleConsensusResult(s) PROVE IInv'
  <2> DEFINE x == messages[s][Head(results[s])]
  <2>1. results \in [Shards -> Seq(Requests)] /\ outbox \in [Shards -> Seq(ShardMessages)]
    BY DEF TypeOK
  <2>2. Head(results[s]) \in Requests /\ results' \in [Shards -> Seq(Requests)]
    BY <1>5, <2>1, TailAt DEF HandleConsensusResult
  <2>3. x \in Reduced \cup {None}
    BY <2>2 DEF TypeOK
  <2>4. outbox' = IF x = None \/ x.votes = <<>> THEN outbox
                  ELSE [outbox EXCEPT ![s] = @ \o handleCommitVote(x)]
    BY <1>5 DEF HandleConsensusResult
  <2> HIDE DEF x
  <2>5. /\ outbox' \in [Shards -> Seq(ShardMessages)]
        /\ \A t \in Shards : \A i \in DOMAIN outbox'[t] : Addressed(outbox'[t][i])
    <3>1. CASE x = None \/ x.votes = <<>>
      BY <2>1, <2>4, <3>1
    <3>2. CASE ~(x = None \/ x.votes = <<>>)
      <4> DEFINE h == handleCommitVote(x)
      <4>1. h \in Seq(ShardMessages) /\ \A i \in DOMAIN h : Addressed(h[i])
        BY <2>3, <3>2, CommitVoteSends
      <4> HIDE DEF h
      <4>2. outbox' = [outbox EXCEPT ![s] = @ \o h]
        BY <2>4, <3>2 DEF h
      <4>3. /\ outbox[s] \o h \in Seq(ShardMessages)
            /\ \A i \in DOMAIN (outbox[s] \o h) :
                 \/ i \in DOMAIN outbox[s] /\ (outbox[s] \o h)[i] = outbox[s][i]
                 \/ i - Len(outbox[s]) \in DOMAIN h /\ (outbox[s] \o h)[i] = h[i - Len(outbox[s])]
        BY <2>1, <4>1, ConcatProperties
      <4> QED BY <2>1, <4>1, <4>2, <4>3
    <3> QED BY <3>1, <3>2
  <2> QED BY <1>5, <2>2, <2>5, SMTT(20) DEF HandleConsensusResult, TypeOK
<1>6. ASSUME NEW s \in Shards, BroadcastToShard(s) PROVE IInv'
  <2> DEFINE m == Head(outbox[s])
  <2>1. outbox \in [Shards -> Seq(ShardMessages)] /\ outbox[s] # <<>>
    BY <1>6 DEF BroadcastToShard, TypeOK
  <2>2. outbox' = [outbox EXCEPT ![s] = Tail(@)]
    BY <1>6 DEF BroadcastToShard
  <2>3. /\ m \in ShardMessages /\ Addressed(m)
        /\ outbox' \in [Shards -> Seq(ShardMessages)]
        /\ \A t \in Shards : \A i \in DOMAIN outbox'[t] :
             \E j \in DOMAIN outbox[t] : outbox'[t][i] = outbox[t][j]
    <3>1. /\ m \in ShardMessages /\ 1 \in DOMAIN outbox[s] /\ m = outbox[s][1]
          /\ outbox' \in [Shards -> Seq(ShardMessages)]
          /\ \A t \in Shards : \A i \in DOMAIN outbox'[t] :
               \E j \in DOMAIN outbox[t] : outbox'[t][i] = outbox[t][j]
      BY <2>1, <2>2, TailAt
    <3>2. Addressed(m)
      BY <3>1
    <3> QED BY <3>1, <3>2
  <2>4. \A t \in Shards : \A i \in DOMAIN outbox'[t] : Addressed(outbox'[t][i])
    BY <2>3
  <2>5. /\ net' \subseteq net \cup {m} /\ lost' \subseteq lost \cup {m}
        /\ panicked' \subseteq panicked \cup {s}
        /\ m.shard \notin Shards => net' = net
    BY <1>6 DEF BroadcastToShard
  <2> HIDE DEF m
  <2> QED BY <1>6, <2>3, <2>4, <2>5, SMTT(20) DEF BroadcastToShard, TypeOK
<1>7. CASE UNCHANGED vars
  BY <1>7 DEF vars, TypeOK
<1> QED BY <1>1, <1>2, <1>3, <1>4, <1>5, <1>6, <1>7, <1>8, <1>9 DEF Next, Node

LEMMA IInvHolds == Spec => []IInv
BY InitIInv, StepIInv, PTL DEF Spec

-----------------------------------------------------------------------------

\* Whatever crosses the shards in whatever order, what a primary files, sends
\* and hands to consensus is typed, and filed under the request it has come to.
THEOREM TypeCorrect == Spec => []TypeOK
<1>1. IInv => TypeOK
  BY DEF IInv
<1> QED BY <1>1, IInvHolds, PTL

\* A request is passed to consensus and numbered only at the shard its account
\* belongs to, with any number of shard requests under way.
THEOREM NumberedAtHome == Spec => []HomeShard
<1>1. IInv => HomeShard
  BY DEF IInv, HomeShard, AtHome, ToSet
<1> QED BY <1>1, IInvHolds, PTL
=============================================================================
