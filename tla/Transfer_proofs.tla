--------------------------- MODULE Transfer_proofs ---------------------------
(***************************************************************************)
(* Proofs that Linear implements Transfer, for every set of shards and of  *)
(* shard requests: a shard request is voted on at one shard at a time, its *)
(* votes in order, each once, and its commits after them, each once.       *)
(*                                                                         *)
(* A shard request moves through the channels, the logs and the messages   *)
(* of several shards.  Once says that a request is in one of those places, *)
(* that what is under way has been proposed by a client, and how far the   *)
(* others of its shard request then are.                                   *)
(***************************************************************************)
EXTENDS Linear_proofs, FiniteSetTheorems

\* No value is in f twice, and the values that are.
OnceIn(f) ==
  \A s, t \in Shards : \A i \in DOMAIN f[s], j \in DOMAIN f[t] :
    f[s][i] = f[t][j] => s = t /\ i = j
Held(f) == UNION {ToSet(f[s]) : s \in Shards}

\* The requests that a message on the network is about, those that have been
\* sent on from anywhere, those executed, and those whose result is dealt with.
InNet == {First(m.request) : m \in net}
Begun == Held(forward) \cup Held(log) \cup Held(Carried) \cup InNet
Executed == UNION {{log[s][k] : k \in executed[s]} : s \in Shards}
Settled == Executed \ Held(results)

\* A request is at one place: a channel, a log or a message.
Unique ==
  /\ OnceIn(forward) /\ OnceIn(log) /\ OnceIn(results) /\ OnceIn(Carried)
  /\ \A m, n \in net : First(m.request) = First(n.request) => m = n
  /\ Held(forward) \cap (Held(log) \cup Held(Carried) \cup InNet) = {}
  /\ Held(log) \cap (Held(Carried) \cup InNet) = {}
  /\ Held(Carried) \cap InNet = {}
  /\ Held(results) \subseteq Executed

\* Only what a client proposed is under way.
Known == \A x \in ShardRequests : Parts(x) \cap Begun # {} => x \in submitted

\* The votes of a shard request begin one after the other, the commits last.
Ordered ==
  \A x \in ShardRequests :
    /\ \A j \in DOMAIN x.votes : \A i \in 1..(j - 1) :
         x.votes[j] \in Begun => x.votes[i] \in Settled
    /\ \A c \in ToSet(x.commits) : c \in Begun => ToSet(x.votes) \subseteq Settled

\* Votes and commits are all that is ever passed to consensus.
Leads == {First(r) : r \in Reduced}
Leading == Held(forward) \cup Held(log) \subseteq Leads
-----------------------------------------------------------------------------
\* Channels as the sets of what they hold.

LEMMA InHeld ==
  ASSUME NEW f
  PROVE  \A v : v \in Held(f) <=> \E s \in Shards : \E i \in DOMAIN f[s] : v = f[s][i]
BY DEF Held, ToSet

\* Distinct new values at the end of a channel.
LEMMA ConcatOnce ==
  ASSUME NEW S, NEW f \in [Shards -> Seq(S)], NEW s \in Shards, NEW h \in Seq(S),
         OnceIn(f), IsInjective(h), ToSet(h) \cap Held(f) = {},
         NEW g, g[s] = f[s] \o h, \A t \in Shards : t # s => g[t] = f[t]
  PROVE  OnceIn(g) /\ \A v : v \in Held(g) <=> v \in Held(f) \/ v \in ToSet(h)
<1> DEFINE n == Len(f[s])
<1>1. f[s] \in Seq(S) /\ n \in Nat /\ DOMAIN f[s] = 1..n /\ DOMAIN h = 1..Len(h) /\ Len(h) \in Nat
  OBVIOUS
<1>2. /\ DOMAIN g[s] = 1..(n + Len(h))
      /\ \A i \in DOMAIN g[s] : \/ i \in DOMAIN f[s] /\ g[s][i] = f[s][i]
                                \/ i - n \in DOMAIN h /\ i \notin DOMAIN f[s] /\ g[s][i] = h[i - n]
      /\ \A i \in DOMAIN f[s] : i \in DOMAIN g[s] /\ g[s][i] = f[s][i]
      /\ \A i \in DOMAIN h : n + i \in DOMAIN g[s] /\ g[s][n + i] = h[i]
  BY <1>1, ConcatProperties
<1> HIDE DEF n
<1>3. \A t \in Shards : \A i \in DOMAIN g[t] :
        \/ i \in DOMAIN f[t] /\ g[t][i] = f[t][i]
        \/ t = s /\ i - n \in DOMAIN h /\ i \in Int /\ g[t][i] = h[i - n]
  <2>1. \A i \in DOMAIN g[s] :
          \/ i \in DOMAIN f[s] /\ g[s][i] = f[s][i]
          \/ i - n \in DOMAIN h /\ i \in Int /\ g[s][i] = h[i - n]
    BY <1>1, <1>2
  <2>2. ASSUME NEW t \in Shards, t # s PROVE g[t] = f[t]
    BY <2>2
  <2> QED BY <2>1, <2>2
<1>4. \A v \in ToSet(h) : v \notin Held(f)
  OBVIOUS
<1>5. \A i \in DOMAIN h : h[i] \in ToSet(h)
  BY DEF ToSet
<1>6. \A t \in Shards : \A i \in DOMAIN f[t] : f[t][i] \in Held(f)
  BY InHeld
<1>7. OnceIn(g)
  <2> SUFFICES ASSUME NEW t \in Shards, NEW u \in Shards, NEW i \in DOMAIN g[t],
                      NEW j \in DOMAIN g[u], g[t][i] = g[u][j]
               PROVE  t = u /\ i = j
    BY DEF OnceIn
  <2>1. CASE i \in DOMAIN f[t] /\ g[t][i] = f[t][i] /\ j \in DOMAIN f[u] /\ g[u][j] = f[u][j]
    <3>1. f[t][i] = f[u][j]
      BY <2>1
    <3> QED BY <2>1, <3>1 DEF OnceIn
  <2>2. CASE /\ t = s /\ i - n \in DOMAIN h /\ g[t][i] = h[i - n]
             /\ u = s /\ j - n \in DOMAIN h /\ g[u][j] = h[j - n]
             /\ i \in Int /\ j \in Int
    <3>1. i - n = j - n
      BY <2>2 DEF IsInjective
    <3> QED BY <1>1, <2>2, <3>1
  <2> QED BY <1>3, <1>4, <1>5, <1>6, <2>1, <2>2
<1>8. ASSUME NEW v PROVE v \in Held(g) <=> v \in Held(f) \/ v \in ToSet(h)
  <2>1. ASSUME v \in Held(g) PROVE v \in Held(f) \/ v \in ToSet(h)
    <3>1. PICK t \in Shards : \E i \in DOMAIN g[t] : v = g[t][i]
      BY <2>1 DEF Held, ToSet
    <3> QED BY <1>3, <1>5, <1>6, <3>1
  <2>2. ASSUME v \in Held(f) PROVE v \in Held(g)
    <3>1. PICK t \in Shards : \E i \in DOMAIN f[t] : v = f[t][i]
      BY <2>2, InHeld
    <3>2. PICK i \in DOMAIN f[t] : v = f[t][i]
      BY <3>1
    <3>3. i \in DOMAIN g[t] /\ g[t][i] = v
      BY <1>2, <3>2
    <3> QED BY <3>3, InHeld
  <2>3. ASSUME v \in ToSet(h) PROVE v \in Held(g)
    <3>1. PICK i \in DOMAIN h : v = h[i]
      BY <2>3 DEF ToSet
    <3>2. n + i \in DOMAIN g[s] /\ g[s][n + i] = v
      BY <1>2, <3>1
    <3> QED BY <3>2, InHeld
  <2> QED BY <2>1, <2>2, <2>3
<1> QED BY <1>7, <1>8

\* One new value at the end of a channel.
LEMMA AppendOnce ==
  ASSUME NEW S, NEW f \in [Shards -> Seq(S)], NEW s \in Shards, NEW e \in S,
         OnceIn(f), e \notin Held(f), NEW g,
         g[s] = Append(f[s], e), \A t \in Shards : t # s => g[t] = f[t]
  PROVE  OnceIn(g) /\ \A v : v \in Held(g) <=> v \in Held(f) \/ v = e
<1> DEFINE h == <<e>>
<1>1. h \in Seq(S) /\ IsInjective(h)
  BY DEF IsInjective
<1>2. ToSet(h) = {e}
  BY DEF ToSet
<1>3. Append(f[s], e) = f[s] \o h
  BY AppendIsConcat
<1> HIDE DEF h
<1>4. g[s] = f[s] \o h
  BY <1>3
<1>5. ToSet(h) \cap Held(f) = {}
  BY <1>2
<1>6. OnceIn(g) /\ \A v : v \in Held(g) <=> v \in Held(f) \/ v \in ToSet(h)
  BY <1>1, <1>4, <1>5, ConcatOnce
<1> QED BY <1>2, <1>6

\* The first value of a channel taken.
LEMMA TailOnce ==
  ASSUME NEW S, NEW f \in [Shards -> Seq(S)], NEW s \in Shards, f[s] # <<>>,
         OnceIn(f), NEW g, g[s] = Tail(f[s]), \A t \in Shards : t # s => g[t] = f[t]
  PROVE  /\ OnceIn(g) /\ \A v : v \in Held(g) <=> v \in Held(f) /\ v # Head(f[s])
         /\ Head(f[s]) \in S /\ Head(f[s]) \in Held(f)
<1> DEFINE n == Len(f[s])
<1>1. f[s] \in Seq(S) /\ n \in Nat /\ DOMAIN f[s] = 1..n /\ n # 0
  BY EmptySeq
<1>2. Head(f[s]) = f[s][1] /\ Head(f[s]) \in S /\ 1 \in DOMAIN f[s]
  BY <1>1
<1>3. Head(f[s]) \in Held(f)
  BY <1>2, InHeld
<1>4. DOMAIN g[s] = 1..(n - 1) /\ \A i \in DOMAIN g[s] : i + 1 \in DOMAIN f[s] /\ g[s][i] = f[s][i + 1]
  BY <1>1, HeadTailProperties
<1> HIDE DEF n
<1>5. OnceIn(g)
  <2> SUFFICES ASSUME NEW t \in Shards, NEW u \in Shards, NEW i \in DOMAIN g[t],
                      NEW j \in DOMAIN g[u], g[t][i] = g[u][j]
               PROVE  t = u /\ i = j
    BY DEF OnceIn
  <2>1. CASE t = s /\ u = s
    <3>1. i + 1 = j + 1
      BY <1>4, <2>1 DEF OnceIn
    <3> QED BY <1>1, <1>4, <2>1, <3>1
  <2>2. CASE t = s /\ u # s
    <3>1. i + 1 \in DOMAIN f[s] /\ j \in DOMAIN f[u] /\ f[s][i + 1] = f[u][j]
      BY <1>4, <2>2
    <3> QED BY <2>2, <3>1 DEF OnceIn
  <2>3. CASE t # s /\ u = s
    <3>1. j + 1 \in DOMAIN f[s] /\ i \in DOMAIN f[t] /\ f[t][i] = f[s][j + 1]
      BY <1>4, <2>3
    <3> QED BY <2>3, <3>1 DEF OnceIn
  <2>4. CASE t # s /\ u # s
    BY <2>4 DEF OnceIn
  <2> QED BY <2>1, <2>2, <2>3, <2>4
<1>6. ASSUME NEW v PROVE v \in Held(g) <=> v \in Held(f) /\ v # Head(f[s])
  <2>1. ASSUME v \in Held(g) PROVE v \in Held(f) /\ v # Head(f[s])
    <3>1. PICK t \in Shards : \E i \in DOMAIN g[t] : v = g[t][i]
      BY <2>1 DEF Held, ToSet
    <3>2. PICK i \in DOMAIN g[t] : v = g[t][i]
      BY <3>1
    <3>3. CASE t = s
      <4>1. i + 1 \in DOMAIN f[s] /\ v = f[s][i + 1]
        BY <1>4, <3>2, <3>3
      <4>2. i \in 1..(n - 1)
        BY <1>4, <3>2, <3>3
      <4>3. i + 1 # 1
        BY <1>1, <4>2
      <4> QED BY <1>2, <4>1, <4>3, InHeld DEF OnceIn
    <3>4. CASE t # s
      <4>1. i \in DOMAIN f[t] /\ v = f[t][i]
        BY <3>2, <3>4
      <4> QED BY <1>2, <3>4, <4>1, InHeld DEF OnceIn
    <3> QED BY <3>3, <3>4
  <2>2. ASSUME v \in Held(f), v # Head(f[s]) PROVE v \in Held(g)
    <3>1. PICK t \in Shards : \E i \in DOMAIN f[t] : v = f[t][i]
      BY <2>2, InHeld
    <3>2. PICK i \in DOMAIN f[t] : v = f[t][i]
      BY <3>1
    <3>3. CASE t = s
      <4>1. i - 1 \in DOMAIN g[s] /\ g[s][i - 1] = v
        BY <1>1, <1>2, <1>4, <2>2, <3>2, <3>3
      <4> QED BY <4>1, InHeld
    <3>4. CASE t # s
      BY <3>2, <3>4, InHeld
    <3> QED BY <3>3, <3>4
  <2> QED BY <2>1, <2>2
<1> QED BY <1>2, <1>3, <1>5, <1>6

-----------------------------------------------------------------------------
\* What the requests of a shard request are to each other.

LEMMA PartsApart ==
  ASSUME NEW x \in ShardRequests, NEW y \in ShardRequests,
         NEW q, q \in Parts(x), q \in Parts(y)
  PROVE  x = y
BY DistinctAssumption

LEMMA InjectiveConcat ==
  ASSUME NEW S, NEW u \in Seq(S), NEW v \in Seq(S), IsInjective(u \o v)
  PROVE  /\ IsInjective(u) /\ IsInjective(v)
         /\ \A i \in DOMAIN u : \A k \in DOMAIN v : u[i] # v[k]
<1> DEFINE a == u \o v
           n == Len(u)
<1>1. n \in Nat /\ DOMAIN u = 1..n /\ DOMAIN v = 1..Len(v) /\ Len(v) \in Nat
  OBVIOUS
<1>2. DOMAIN a = 1..(n + Len(v)) /\ \A i \in DOMAIN a : a[i] = IF i <= n THEN u[i] ELSE v[i - n]
  BY ConcatProperties
<1>3. \A i, j \in DOMAIN a : a[i] = a[j] => i = j
  BY DEF IsInjective
<1> HIDE DEF a, n
<1>4. \A i \in DOMAIN u : i \in DOMAIN a /\ a[i] = u[i]
  BY <1>1, <1>2
<1>5. ASSUME NEW k \in DOMAIN v PROVE n + k \in DOMAIN a /\ a[n + k] = v[k]
  <2>1. k \in 1..Len(v) /\ n + k \in 1..(n + Len(v)) /\ ~(n + k <= n) /\ (n + k) - n = k
    BY <1>1
  <2>2. a[n + k] = v[(n + k) - n]
    BY <1>2, <2>1
  <2> QED BY <1>2, <2>1, <2>2
<1>6. \A i, j \in DOMAIN u : u[i] = u[j] => i = j
  BY <1>3, <1>4
<1>7. ASSUME NEW i \in DOMAIN v, NEW j \in DOMAIN v, v[i] = v[j] PROVE i = j
  <2>1. n + i = n + j
    BY <1>3, <1>5, <1>7
  <2> QED BY <1>1, <2>1
<1>8. ASSUME NEW i \in DOMAIN u, NEW k \in DOMAIN v, u[i] = v[k] PROVE FALSE
  <2>1. i = n + k
    BY <1>3, <1>4, <1>5, <1>8
  <2> QED BY <1>1, <2>1
<1> QED BY <1>6, <1>7, <1>8 DEF IsInjective

LEMMA VotesApart ==
  ASSUME NEW x \in ShardRequests
  PROVE  /\ \A i, j \in DOMAIN x.votes : x.votes[i] = x.votes[j] => i = j
         /\ \A i \in DOMAIN x.votes : \A k \in DOMAIN x.commits : x.votes[i] # x.commits[k]
         /\ IsInjective(x.commits)
<1> DEFINE a == x.votes \o x.commits
<1>1. x.votes \in Seq(Requests) /\ x.commits \in Seq(Requests) /\ x.aborts \in Seq(Requests)
  BY PartsAreRequests DEF Whole
<1>2. a \in Seq(Requests)
  BY <1>1, ConcatProperties
<1>3. IsInjective(a \o x.aborts)
  BY DistinctAssumption
<1>4. IsInjective(a)
  <2> HIDE DEF a
  <2> QED BY <1>1, <1>2, <1>3, InjectiveConcat
<1>5. /\ IsInjective(x.votes) /\ IsInjective(x.commits)
      /\ \A i \in DOMAIN x.votes : \A k \in DOMAIN x.commits : x.votes[i] # x.commits[k]
  BY <1>1, <1>4, InjectiveConcat
<1> QED BY <1>5 DEF IsInjective

LEMMA PartsForm ==
  ASSUME NEW x \in ShardRequests
  PROVE  /\ \A i \in DOMAIN x.votes : x.votes[i] \in Parts(x) /\ x.votes[i] \in Requests
         /\ \A i \in DOMAIN x.commits : x.commits[i] \in Parts(x) /\ x.commits[i] \in Requests
         /\ Parts(x) \subseteq Requests
<1>1. Parts(x) \subseteq Requests
  BY DEF Requests
<1> QED BY <1>1 DEF Parts, ToSet

\* A remainder with votes is the shard request from one of its votes on.
Suffix(x, j) ==
  [votes |-> SubSeq(x.votes, j, Len(x.votes)), commits |-> x.commits, aborts |-> x.aborts]

LEMMA SuffixIs ==
  ASSUME NEW x \in ShardRequests, NEW j
  PROVE  [x EXCEPT !.votes = SubSeq(@, j, Len(@))] = Suffix(x, j)
BY PartsAreRequests, ExceptVotes DEF Suffix

LEMMA SuffixForm ==
  ASSUME NEW x \in ShardRequests, NEW j \in 1..Len(x.votes)
  PROVE  /\ Suffix(x, j).votes # <<>>
         /\ First(Suffix(x, j)) = x.votes[j]
         /\ Tail(Suffix(x, j).votes) = SubSeq(x.votes, j + 1, Len(x.votes))
         /\ Tail(Suffix(x, j).votes) = <<>> <=> j = Len(x.votes)
<1> DEFINE n == Len(x.votes)
           v == SubSeq(x.votes, j, n)
<1>1. x \in Whole /\ x.votes \in Seq(Requests) /\ n \in Nat
  BY PartsAreRequests DEF Whole
<1>2. Suffix(x, j).votes = v
  BY DEF Suffix
<1>3. v \in Seq(Requests) /\ Len(v) = n - j + 1
  BY <1>1, SubSeqProperties
<1>4. v # <<>>
  <2>1. Len(v) # 0
    BY <1>1, <1>3
  <2> QED BY <2>1, EmptySeq
<1>5. Head(v) = x.votes[j] /\ Tail(v) = SubSeq(x.votes, j + 1, n)
  <2>1. n \in j..n
    BY <1>1
  <2> QED BY <1>1, <2>1, HeadTailOfSubSeq
<1> HIDE DEF v
<1>6. Tail(v) \in Seq(Requests) /\ Len(Tail(v)) = n - j
  BY <1>1, <1>3, <1>4, HeadTailProperties
<1>7. Tail(v) = <<>> <=> j = n
  <2> DEFINE u == Tail(v)
  <2>1. u \in Seq(Requests) /\ Len(u) = n - j
    BY <1>6
  <2> HIDE DEF u
  <2>2. u = <<>> <=> Len(u) = 0
    BY <2>1, EmptySeq
  <2>3. u = <<>> <=> j = n
    BY <1>1, <2>1, <2>2
  <2> QED BY <2>3 DEF u
<1> QED BY <1>2, <1>4, <1>5, <1>7 DEF First

\* A remainder has a vote or a commit to come first.
LEMMA FirstForm ==
  ASSUME NEW r \in Reduced
  PROVE  \E x \in ShardRequests :
           \/ /\ r.votes # <<>>
              /\ \E j \in DOMAIN x.votes : /\ First(r) = x.votes[j]
                                           /\ r = Suffix(x, j)
           \/ r.votes = <<>> /\ \E k \in DOMAIN x.commits : First(r) = x.commits[k]
<1>1. PICK x \in ShardRequests : r \in Remainders(x)
  BY DEF Reduced
<1>2. x \in Whole /\ DOMAIN x.votes = 1..Len(x.votes)
  BY PartsAreRequests DEF Whole
<1>3. CASE \E j \in 1..Len(x.votes) : r = [x EXCEPT !.votes = SubSeq(@, j, Len(@))]
  <2>1. PICK j \in 1..Len(x.votes) : r = Suffix(x, j)
    BY <1>3, SuffixIs
  <2>2. r.votes # <<>> /\ First(r) = x.votes[j] /\ j \in DOMAIN x.votes
    BY <1>2, <2>1, SuffixForm
  <2> QED BY <2>1, <2>2
<1>4. CASE \E c \in ToSet(x.commits) : r = [votes |-> <<>>, commits |-> <<c>>, aborts |-> <<>>]
  <2>1. PICK k \in DOMAIN x.commits :
          r = [votes |-> <<>>, commits |-> <<x.commits[k]>>, aborts |-> <<>>]
    BY <1>4 DEF ToSet
  <2> QED BY <2>1 DEF First
<1> QED BY <1>1, <1>3, <1>4 DEF Remainders

\* The requests that messages are about.
Firsts(h) == [i \in DOMAIN h |-> First(h[i].request)]

\* After a vote leaves the next one, after the last vote all commits.
LEMMA SentOn ==
  ASSUME NEW r \in Reduced, r.votes # <<>>
  PROVE  \E x \in ShardRequests : \E j \in DOMAIN x.votes :
           /\ First(r) = x.votes[j]
           /\ \/ /\ j + 1 \in DOMAIN x.votes
                 /\ Firsts(handleCommitVote(r)) = <<x.votes[j + 1]>>
              \/ /\ j = Len(x.votes)
                 /\ Firsts(handleCommitVote(r)) = x.commits
<1>1. PICK x \in ShardRequests : \E j \in DOMAIN x.votes :
        First(r) = x.votes[j] /\ r = Suffix(x, j)
  BY FirstForm
<1>2. PICK j \in DOMAIN x.votes :
        First(r) = x.votes[j] /\ r = Suffix(x, j)
  BY <1>1
<1> DEFINE n == Len(x.votes)
           rest == [r EXCEPT !.votes = Tail(@)]
<1>3. x \in Whole /\ x.votes \in Seq(Requests) /\ n \in Nat /\ DOMAIN x.votes = 1..n
  BY PartsAreRequests DEF Whole
<1>4. /\ r.commits = x.commits /\ Tail(r.votes) = SubSeq(x.votes, j + 1, n)
      /\ Tail(r.votes) = <<>> <=> j = n
  BY <1>2, <1>3, SuffixForm DEF Suffix
<1>5. rest = [votes |-> Tail(r.votes), commits |-> r.commits, aborts |-> r.aborts]
  BY ReducedForm, ExceptVotes
<1>6. CASE j = n
  <2>1. handleCommitVote(r) =
          [i \in DOMAIN r.commits |->
             To([votes |-> <<>>, commits |-> <<r.commits[i]>>, aborts |-> <<>>])]
    BY <1>4, <1>5, <1>6 DEF handleCommitVote
  <2>2. \A c : First([votes |-> <<>>, commits |-> <<c>>, aborts |-> <<>>]) = c
    BY DEF First
  <2>3. Firsts(handleCommitVote(r)) = [i \in DOMAIN r.commits |-> r.commits[i]]
    BY <2>1, <2>2 DEF Firsts, To
  <2>4. r.commits = [i \in DOMAIN r.commits |-> r.commits[i]]
    BY <1>3, <1>4 DEF Whole
  <2> QED BY <1>2, <1>4, <1>6, <2>3, <2>4
<1>7. CASE j # n
  <2>1. handleCommitVote(r) = <<To(rest)>>
    BY <1>4, <1>5, <1>7 DEF handleCommitVote
  <2>2. rest = Suffix(x, j + 1)
    BY <1>2, <1>4, <1>5 DEF Suffix
  <2>3. j + 1 \in 1..n
    BY <1>3, <1>7
  <2> HIDE DEF rest
  <2>4. First(rest) = x.votes[j + 1]
    BY <2>2, <2>3, SuffixForm
  <2>5. Firsts(handleCommitVote(r)) = <<x.votes[j + 1]>>
    BY <2>1, <2>4 DEF Firsts, To
  <2> QED BY <1>2, <1>3, <2>3, <2>5
<1> QED BY <1>6, <1>7

-----------------------------------------------------------------------------
\* An outbox by what its messages are about.

LEMMA FirstsOf ==
  ASSUME NEW h \in Seq(ShardMessages)
  PROVE  /\ Firsts(h) \in Seq(Requests) /\ Len(Firsts(h)) = Len(h)
         /\ \A i \in 1..Len(h) : Firsts(h)[i] = First(h[i].request)
<1>1. DOMAIN h = 1..Len(h) /\ Len(h) \in Nat
  OBVIOUS
<1>2. \A m \in ShardMessages : First(m.request) \in Requests
  BY ReducedForm DEF ShardMessages
<1>3. Firsts(h) \in [1..Len(h) -> Requests]
  BY <1>1, <1>2 DEF Firsts
<1>4. Firsts(h) \in Seq(Requests)
  BY <1>1, <1>3
<1>5. Len(Firsts(h)) = Len(h)
  BY <1>1, <1>3, <1>4
<1> QED BY <1>1, <1>4, <1>5 DEF Firsts

LEMMA FirstsTail ==
  ASSUME NEW h \in Seq(ShardMessages), h # <<>>
  PROVE  /\ Firsts(Tail(h)) = Tail(Firsts(h)) /\ Firsts(h) # <<>>
         /\ Head(Firsts(h)) = First(Head(h).request)
<1> DEFINE u == Firsts(h)
           v == Tail(h)
<1>1. Len(h) \in Nat /\ Len(h) # 0 /\ Head(h) = h[1]
  BY EmptySeq
<1>2. /\ v \in Seq(ShardMessages) /\ Len(v) = Len(h) - 1
      /\ \A i \in 1..Len(v) : v[i] = h[i + 1]
  BY HeadTailProperties
<1> HIDE DEF v
<1>3. u \in Seq(Requests) /\ Len(u) = Len(h) /\ \A i \in 1..Len(h) : u[i] = First(h[i].request)
  BY FirstsOf
<1>4. /\ Firsts(v) \in Seq(Requests) /\ Len(Firsts(v)) = Len(v)
      /\ \A i \in 1..Len(v) : Firsts(v)[i] = First(v[i].request)
  BY <1>2, FirstsOf
<1> HIDE DEF u
<1>5. u # <<>> /\ Head(u) = u[1]
  BY <1>1, <1>3, EmptySeq
<1>6. Tail(u) \in Seq(Requests) /\ Len(Tail(u)) = Len(u) - 1 /\ \A i \in 1..Len(Tail(u)) : Tail(u)[i] = u[i + 1]
  BY <1>3, <1>5, HeadTailProperties
<1>7. \A i \in 1..Len(Tail(u)) : Firsts(v)[i] = Tail(u)[i]
  <2> TAKE i \in 1..Len(Tail(u))
  <2>1. i \in 1..Len(v) /\ i + 1 \in 1..Len(h)
    BY <1>1, <1>2, <1>3, <1>6
  <2> QED BY <1>2, <1>3, <1>4, <1>6, <2>1
<1>8. Firsts(v) = Tail(u)
  BY <1>2, <1>3, <1>4, <1>6, <1>7, SeqEqual
<1>9. Head(u) = First(Head(h).request)
  BY <1>1, <1>3, <1>5
<1> QED BY <1>5, <1>8, <1>9 DEF u, v

LEMMA FirstsConcat ==
  ASSUME NEW h \in Seq(ShardMessages), NEW k \in Seq(ShardMessages)
  PROVE  Firsts(h \o k) = Firsts(h) \o Firsts(k)
<1> DEFINE u == h \o k
           v == Firsts(h) \o Firsts(k)
           n == Len(h)
<1>1. /\ u \in Seq(ShardMessages) /\ Len(u) = n + Len(k) /\ n \in Nat /\ Len(k) \in Nat
      /\ \A i \in 1..(n + Len(k)) : u[i] = IF i <= n THEN h[i] ELSE k[i - n]
  BY ConcatProperties
<1>2. /\ Firsts(h) \in Seq(Requests) /\ Len(Firsts(h)) = n
      /\ \A i \in 1..n : Firsts(h)[i] = First(h[i].request)
  BY FirstsOf
<1>3. /\ Firsts(k) \in Seq(Requests) /\ Len(Firsts(k)) = Len(k)
      /\ \A i \in 1..Len(k) : Firsts(k)[i] = First(k[i].request)
  BY FirstsOf
<1>4. /\ v \in Seq(Requests) /\ Len(v) = n + Len(k)
      /\ \A i \in 1..(n + Len(k)) : v[i] = IF i <= n THEN Firsts(h)[i] ELSE Firsts(k)[i - n]
  <2> DEFINE p == Firsts(h)
             q == Firsts(k)
  <2>1. p \in Seq(Requests) /\ q \in Seq(Requests) /\ Len(p) = n /\ Len(q) = Len(k)
    BY <1>2, <1>3
  <2> HIDE DEF p, q, n
  <2>2. /\ p \o q \in Seq(Requests) /\ Len(p \o q) = n + Len(k)
        /\ \A i \in 1..(n + Len(k)) : (p \o q)[i] = IF i <= n THEN p[i] ELSE q[i - n]
    <3>1. /\ p \o q \in Seq(Requests) /\ Len(p \o q) = Len(p) + Len(q)
          /\ \A i \in 1..(Len(p) + Len(q)) :
               (p \o q)[i] = IF i <= Len(p) THEN p[i] ELSE q[i - Len(p)]
      BY <2>1, ConcatProperties
    <3> QED BY <2>1, <3>1
  <2> QED BY <2>2 DEF p, q
<1> HIDE DEF u, v, n
<1>5. /\ Firsts(u) \in Seq(Requests) /\ Len(Firsts(u)) = Len(u)
      /\ \A i \in 1..Len(u) : Firsts(u)[i] = First(u[i].request)
  BY <1>1, FirstsOf
<1>6. ASSUME NEW i \in 1..Len(u) PROVE Firsts(u)[i] = v[i]
  <2>1. i \in 1..(n + Len(k)) /\ Firsts(u)[i] = First(u[i].request)
    BY <1>1, <1>5
  <2>2. CASE i <= n
    <3>1. i \in 1..n
      BY <1>1, <2>1, <2>2
    <3>2. u[i] = h[i] /\ v[i] = Firsts(h)[i]
      BY <1>1, <1>4, <2>1, <2>2
    <3> QED BY <1>2, <2>1, <3>1, <3>2
  <2>3. CASE ~(i <= n)
    <3>1. i - n \in 1..Len(k)
      BY <1>1, <2>1, <2>3
    <3>2. u[i] = k[i - n] /\ v[i] = Firsts(k)[i - n]
      BY <1>1, <1>4, <2>1, <2>3
    <3> QED BY <1>3, <2>1, <3>1, <3>2
  <2> QED BY <2>2, <2>3
<1>7. Firsts(u) = v
  BY <1>1, <1>4, <1>5, <1>6, SeqEqual
<1> QED BY <1>7 DEF u, v

LEMMA CarriedIs ==
  ASSUME TypeOK
  PROVE  /\ Carried \in [Shards -> Seq(Requests)]
         /\ \A s \in Shards : Carried[s] = Firsts(outbox[s])
<1>1. outbox \in [Shards -> Seq(ShardMessages)]
  BY DEF TypeOK
<1>2. Carried = [s \in Shards |-> Firsts(outbox[s])]
  BY DEF Carried, Firsts
<1>3. \A s \in Shards : Firsts(outbox[s]) \in Seq(Requests)
  BY <1>1, FirstsOf
<1> QED BY <1>2, <1>3

-----------------------------------------------------------------------------
\* How far the shard requests are, and where.

Once == IInv /\ Unique /\ Known /\ Ordered /\ Leading

LEMMA BegunIs ==
  \A v : v \in Begun <=> \/ v \in Held(forward) \/ v \in Held(log)
                         \/ v \in Held(Carried) \/ v \in InNet
BY DEF Begun

LEMMA SettledIs == \A v : v \in Settled <=> v \in Executed /\ v \notin Held(results)
BY DEF Settled

LEMMA ExecutedIs == \A v : v \in Executed <=> \E s \in Shards : \E k \in executed[s] : v = log[s][k]
BY DEF Executed

\* While nothing new begins, nothing gets out of order.
LEMMA NothingBegins ==
  ASSUME Known, Ordered, \A v : v \in Begun' => v \in Begun,
         \A v : v \in Settled => v \in Settled', submitted \subseteq submitted'
  PROVE  Known' /\ Ordered'
<1>1. Known'
  BY DEF Known
<1>2. ASSUME NEW x \in ShardRequests
      PROVE  /\ \A j \in DOMAIN x.votes : \A i \in 1..(j - 1) :
                  x.votes[j] \in Begun' => x.votes[i] \in Settled'
             /\ \A c \in ToSet(x.commits) : c \in Begun' => ToSet(x.votes) \subseteq Settled'
  BY DEF Ordered
<1> QED BY <1>1, <1>2 DEF Ordered

\* A step that leaves the logs, the results and what is executed alone.
LEMMA SameSettled ==
  ASSUME UNCHANGED <<log, executed, results>>
  PROVE  /\ \A v : v \in Settled' <=> v \in Settled
         /\ \A v : v \in Executed' <=> v \in Executed
<1>1. Executed' = Executed
  BY DEF Executed
<1>2. Held(results)' = Held(results)
  BY DEF Held
<1> QED BY <1>1, <1>2 DEF Settled

LEMMA FirstHeld ==
  ASSUME IInv, NEW r \in Reduced, NEW s \in Shards, ProposeAt(s, r), OnceIn(forward),
         First(r) \notin Held(forward)
  PROVE  OnceIn(forward') /\ \A v : v \in Held(forward') <=> v \in Held(forward) \/ v = First(r)
<1>1. First(r) \in Requests /\ forward \in [Shards -> Seq(Requests)]
  BY ReducedForm DEF IInv, TypeOK
<1>2. forward'[s] = Append(forward[s], First(r)) /\ \A t \in Shards : t # s => forward'[t] = forward[t]
  BY <1>1 DEF ProposeAt
<1> DEFINE q == First(r)
           g == forward'
<1>3. q \in Requests /\ q \notin Held(forward)
  BY <1>1
<1>4. g[s] = Append(forward[s], q) /\ \A t \in Shards : t # s => g[t] = forward[t]
  BY <1>2
<1> HIDE DEF q, g
<1>5. OnceIn(g) /\ \A v : v \in Held(g) <=> v \in Held(forward) \/ v = q
  BY <1>1, <1>3, <1>4, AppendOnce
<1> QED BY <1>5 DEF q, g

LEMMA SubmitOnce ==
  ASSUME Once, NEW x \in ShardRequests, Submit(x)
  PROVE  Unique' /\ Known' /\ Ordered' /\ Leading'
<1> DEFINE q == First(x)
           s == FindShard(q.target)
<1>1. q = x.votes[1] /\ 1 \in DOMAIN x.votes /\ s \in Shards /\ x \in Reduced
  <2>1. x.votes \in Seq(Requests) /\ x.votes # <<>> /\ FindShard(Head(x.votes).target) \in Shards
    BY PartsAreRequests DEF Whole
  <2>2. q = Head(x.votes)
    BY <2>1 DEF First
  <2>3. Head(x.votes) = x.votes[1] /\ 1 \in DOMAIN x.votes
    BY <2>1, EmptySeq
  <2> QED BY <2>1, <2>2, <2>3, WholeIsRemainder
<1>2. ProposeAt(s, x) /\ x \notin submitted /\ submitted' = submitted \cup {x}
  BY DEF Submit
<1>3. UNCHANGED <<log, executed, results, outbox, net>>
  BY DEF Submit
<1> HIDE DEF s
<1>4. q \in Parts(x)
  BY <1>1, PartsForm
<1>5. q \notin Begun
  BY <1>2, <1>4 DEF Once, Known
<1>6. OnceIn(forward') /\ \A v : v \in Held(forward') <=> v \in Held(forward) \/ v = q
  BY <1>1, <1>2, <1>5, BegunIs, FirstHeld DEF Once, Unique
<1>7. Carried' = Carried /\ InNet' = InNet
  BY <1>3 DEF Carried, InNet
<1>8. \A v : v \in Begun' <=> v \in Begun \/ v = q
  BY <1>3, <1>6, <1>7, BegunIs DEF Begun
<1> HIDE DEF q
<1>9. Unique'
  <2>1. q \notin Held(log) /\ q \notin Held(Carried) /\ q \notin InNet
    BY <1>5, BegunIs
  <2>2. Executed' = Executed
    BY <1>3 DEF Executed
  <2> QED BY <1>3, <1>6, <1>7, <2>1, <2>2 DEF Once, Unique
<1>10. Known'
  <2> SUFFICES ASSUME NEW y \in ShardRequests, NEW v \in Parts(y), v \in Begun'
               PROVE  y \in submitted'
    BY DEF Known
  <2>1. CASE v \in Begun
    BY <1>2, <2>1 DEF Once, Known
  <2>2. CASE v = q
    BY <1>2, <1>4, <2>2, PartsApart
  <2> QED BY <1>8, <2>1, <2>2
<1>11. ASSUME NEW y \in ShardRequests, NEW j \in DOMAIN y.votes, NEW i \in 1..(j - 1),
              y.votes[j] \in Begun'
       PROVE  y.votes[i] \in Settled'
  <2>1. CASE y.votes[j] \in Begun
    BY <1>3, <2>1, SameSettled DEF Once, Ordered
  <2>2. CASE y.votes[j] = q
    <3>1. y = x
      BY <1>4, <2>2, PartsForm, PartsApart
    <3>2. j = 1
      BY <1>1, <2>2, <3>1, VotesApart
    <3> QED BY <3>2
  <2> QED BY <1>8, <1>11, <2>1, <2>2
<1>12. ASSUME NEW y \in ShardRequests, NEW k \in DOMAIN y.commits, y.commits[k] \in Begun'
       PROVE  ToSet(y.votes) \subseteq Settled'
  <2>1. CASE y.commits[k] \in Begun
    <3>1. ToSet(y.votes) \subseteq Settled
      BY <2>1 DEF Once, Ordered, ToSet
    <3> QED BY <1>3, <3>1, SameSettled
  <2>2. CASE y.commits[k] = q
    <3>1. y = x
      BY <1>4, <2>2, PartsForm, PartsApart
    <3> QED BY <1>1, <2>2, <3>1, VotesApart
  <2> QED BY <1>8, <1>12, <2>1, <2>2
<1>13. Ordered'
  BY <1>11, <1>12 DEF Ordered, ToSet
<1>14. Leading'
  BY <1>1, <1>3, <1>6 DEF Once, Leading, Leads, q
<1> QED BY <1>9, <1>10, <1>13, <1>14

LEMMA HandleOnce ==
  ASSUME Once, NEW m \in net, HandleShardMessage(m)
  PROVE  Unique' /\ Known' /\ Ordered' /\ Leading'
<1> DEFINE q == First(m.request)
<1>1. m.shard \in Shards /\ m.request \in Reduced
  BY DEF Once, IInv, TypeOK, ShardMessages
<1>2. UNCHANGED <<submitted, log, executed, results, outbox>> /\ net' = net \ {m}
  BY DEF HandleShardMessage
<1>3. q \in InNet /\ q \in Leads
  BY <1>1 DEF InNet, Leads
<1>4. \A v : v \in InNet' <=> v \in InNet /\ v # q
  <2>1. \A n, l \in net : First(n.request) = First(l.request) => n = l
    BY DEF Once, Unique
  <2> QED BY <1>2, <2>1 DEF InNet
<1>5. Carried' = Carried
  BY <1>2 DEF Carried
<1>6. q \notin Held(forward) /\ q \notin Held(log) /\ q \notin Held(Carried)
  BY <1>3 DEF Once, Unique
<1>7. /\ OnceIn(forward')
      /\ \A v : v \in Held(forward) => v \in Held(forward')
      /\ \A v : v \in Held(forward') => v \in Held(forward) \/ v = q
  <2>1. CASE m.shard \in heard
    <3>1. forward' = forward
      BY <2>1 DEF HandleShardMessage
    <3> QED BY <3>1 DEF Once, Unique
  <2>2. CASE m.shard \notin heard
    <3>1. ProposeAt(m.shard, m.request)
      BY <2>2 DEF HandleShardMessage
    <3>2. OnceIn(forward)
      BY DEF Once, Unique
    <3>3. OnceIn(forward') /\ \A v : v \in Held(forward') <=> v \in Held(forward) \/ v = q
      BY <1>1, <1>6, <3>1, <3>2, FirstHeld DEF Once
    <3> QED BY <3>3
  <2> QED BY <2>1, <2>2
<1> HIDE DEF q
<1>8. Unique'
  <2>1. Executed' = Executed
    BY <1>2 DEF Executed
  <2>2. \A n, l \in net' : First(n.request) = First(l.request) => n = l
    BY <1>2 DEF Once, Unique
  <2> QED BY <1>2, <1>4, <1>5, <1>6, <1>7, <2>1, <2>2 DEF Once, Unique
<1>9. \A v : v \in Begun' => v \in Begun
  BY <1>2, <1>3, <1>4, <1>5, <1>7, BegunIs DEF Begun
<1>10. Known' /\ Ordered'
  BY <1>2, <1>9, SameSettled, NothingBegins DEF Once
<1>11. Leading'
  BY <1>2, <1>3, <1>7 DEF Once, Leading
<1> QED BY <1>8, <1>10, <1>11

\* Numbering a request executes nothing.
LEMMA ForwardExecutes ==
  ASSUME Once, NEW s \in Shards, Forward(s)
  PROVE  \A v : v \in Executed' <=> v \in Executed
<1> DEFINE q == Head(forward[s])
<1>1. /\ log \in [Shards -> Seq(Requests)] /\ forward \in [Shards -> Seq(Requests)]
      /\ forward[s] # <<>> /\ \A t \in Shards : executed[t] \subseteq DOMAIN log[t]
  BY DEF Once, IInv, TypeOK, Forward
<1>2. q \in Requests
  BY <1>1, HeadTailProperties
<1> HIDE DEF q
<1>3. log'[s] = Append(log[s], q) /\ \A t \in Shards : t # s => log'[t] = log[t]
  BY <1>1 DEF Forward, q
<1>4. ASSUME NEW k \in executed[s] PROVE log'[s][k] = log[s][k]
  <2>1. k \in 1..Len(log[s]) /\ log[s] \in Seq(Requests)
    BY <1>1
  <2> QED BY <1>2, <1>3, <2>1, AppendProperties
<1>5. \A t \in Shards : \A k \in executed[t] : log'[t][k] = log[t][k]
  BY <1>3, <1>4
<1>6. executed' = executed
  BY DEF Forward
<1> QED BY <1>5, <1>6 DEF Executed

LEMMA ForwardOnce ==
  ASSUME Once, NEW s \in Shards, Forward(s)
  PROVE  Unique' /\ Known' /\ Ordered' /\ Leading'
<1> DEFINE q == Head(forward[s])
<1>1. /\ forward \in [Shards -> Seq(Requests)] /\ log \in [Shards -> Seq(Requests)]
      /\ forward[s] # <<>> /\ \A t \in Shards : executed[t] \subseteq DOMAIN log[t]
  BY DEF Once, IInv, TypeOK, Forward
<1>2. UNCHANGED <<submitted, executed, results, outbox, net>>
  BY DEF Forward
<1>3. /\ OnceIn(forward') /\ \A v : v \in Held(forward') <=> v \in Held(forward) /\ v # q
      /\ q \in Requests /\ q \in Held(forward)
  <2> DEFINE g == forward'
  <2>1. g[s] = Tail(forward[s]) /\ \A t \in Shards : t # s => g[t] = forward[t]
    BY <1>1 DEF Forward
  <2>2. OnceIn(forward)
    BY DEF Once, Unique
  <2> HIDE DEF g
  <2>3. /\ OnceIn(g) /\ \A v : v \in Held(g) <=> v \in Held(forward) /\ v # q
        /\ q \in Requests /\ q \in Held(forward)
    BY <1>1, <2>1, <2>2, TailOnce
  <2> QED BY <2>3 DEF g
<1>4. log'[s] = Append(log[s], q) /\ \A t \in Shards : t # s => log'[t] = log[t]
  BY <1>1 DEF Forward
<1> HIDE DEF q
<1>5. q \notin Held(log) /\ q \notin Held(Carried) /\ q \notin InNet
  BY <1>3 DEF Once, Unique
<1>6. OnceIn(log') /\ \A v : v \in Held(log') <=> v \in Held(log) \/ v = q
  <2> DEFINE g == log'
  <2>1. g[s] = Append(log[s], q) /\ \A t \in Shards : t # s => g[t] = log[t]
    BY <1>4
  <2>2. OnceIn(log) /\ q \in Requests /\ q \notin Held(log)
    BY <1>3, <1>5 DEF Once, Unique
  <2> HIDE DEF g
  <2>3. OnceIn(g) /\ \A v : v \in Held(g) <=> v \in Held(log) \/ v = q
    BY <1>1, <2>1, <2>2, AppendOnce
  <2> QED BY <2>3 DEF g
<1>7. Carried' = Carried /\ InNet' = InNet
  BY <1>2 DEF Carried, InNet
<1>8. \A v : v \in Executed' <=> v \in Executed
  BY ForwardExecutes
<1>9. Unique'
  BY <1>2, <1>3, <1>5, <1>6, <1>7, <1>8 DEF Once, Unique
<1>10. \A v : v \in Begun' <=> v \in Begun
  BY <1>2, <1>3, <1>6, <1>7, BegunIs DEF Begun
<1>11. \A v : v \in Settled => v \in Settled'
  BY <1>2, <1>8, SettledIs DEF Settled
<1>12. Known' /\ Ordered'
  BY <1>2, <1>10, <1>11, NothingBegins DEF Once
<1>13. Leading'
  BY <1>3, <1>6 DEF Once, Leading
<1> QED BY <1>9, <1>12, <1>13

\* A position that is executed is executed for the first time.
LEMMA ExecuteFresh ==
  ASSUME Once, NEW s \in Shards, NEW k \in DOMAIN log[s], k \notin executed[s]
  PROVE  log[s][k] \notin Executed /\ log[s][k] \in Held(log) /\ log[s][k] \in Requests
<1>1. log \in [Shards -> Seq(Requests)] /\ \A t \in Shards : executed[t] \subseteq DOMAIN log[t]
  BY DEF Once, IInv, TypeOK
<1>2. \A t \in Shards : \A i \in executed[t] : log[t][i] # log[s][k]
  BY <1>1 DEF Once, Unique, OnceIn
<1>3. log[s][k] \notin Executed
  BY <1>2, ExecutedIs
<1> QED BY <1>1, <1>3, InHeld

LEMMA ExecutesOne ==
  ASSUME Once, NEW s \in Shards, NEW k \in DOMAIN log[s], Execute(s, k)
  PROVE  \A v : v \in Executed' <=> v \in Executed \/ v = log[s][k]
<1>1. executed'[s] = executed[s] \cup {k} /\ \A t \in Shards : t # s => executed'[t] = executed[t]
  BY DEF Once, IInv, TypeOK, Execute
<1>2. \A v : v \in Executed' <=> \E t \in Shards : \E i \in executed'[t] : v = log[t][i]
  <2>1. log' = log
    BY DEF Execute
  <2> QED BY <2>1 DEF Executed
<1>3. \A v : v \in Executed => v \in Executed'
  BY <1>1, <1>2, ExecutedIs
<1>4. log[s][k] \in Executed'
  BY <1>1, <1>2
<1>5. ASSUME NEW v, v \in Executed', v # log[s][k] PROVE v \in Executed
  <2>1. PICK t \in Shards : \E i \in executed'[t] : v = log[t][i]
    BY <1>2, <1>5
  <2>2. PICK i \in executed'[t] : v = log[t][i]
    BY <2>1
  <2>3. i \in executed[t]
    BY <1>1, <1>5, <2>2
  <2> QED BY <2>2, <2>3, ExecutedIs
<1> QED BY <1>3, <1>4, <1>5

LEMMA ExecuteOnce ==
  ASSUME Once, NEW s \in Shards, NEW k \in DOMAIN log[s], Execute(s, k)
  PROVE  Unique' /\ Known' /\ Ordered' /\ Leading'
<1> DEFINE q == log[s][k]
<1>1. /\ results \in [Shards -> Seq(Requests)] /\ executed \in [Shards -> SUBSET Nat]
      /\ k \notin executed[s]
  BY DEF Once, IInv, TypeOK, Execute, Numbered
<1>2. UNCHANGED <<submitted, forward, log, outbox, net>>
  BY DEF Execute
<1>3. q \notin Executed /\ q \in Held(log) /\ q \in Requests
  BY <1>1, ExecuteFresh
<1>4. q \notin Held(results)
  BY <1>3 DEF Once, Unique
<1>5. results'[s] = Append(results[s], q) /\ \A t \in Shards : t # s => results'[t] = results[t]
  BY <1>1 DEF Execute
<1>6. \A v : v \in Executed' <=> v \in Executed \/ v = q
  BY ExecutesOne
<1> HIDE DEF q
<1>7. OnceIn(results') /\ \A v : v \in Held(results') <=> v \in Held(results) \/ v = q
  <2> DEFINE g == results'
  <2>1. g[s] = Append(results[s], q) /\ \A t \in Shards : t # s => g[t] = results[t]
    BY <1>5
  <2>2. OnceIn(results)
    BY DEF Once, Unique
  <2> HIDE DEF g
  <2>3. OnceIn(g) /\ \A v : v \in Held(g) <=> v \in Held(results) \/ v = q
    BY <1>1, <1>3, <1>4, <2>1, <2>2, AppendOnce
  <2> QED BY <2>3 DEF g
<1>8. Carried' = Carried /\ InNet' = InNet
  BY <1>2 DEF Carried, InNet
<1>9. Unique'
  BY <1>2, <1>6, <1>7, <1>8 DEF Once, Unique
<1>10. \A v : v \in Begun' <=> v \in Begun
  BY <1>2, <1>8, BegunIs DEF Begun
<1>11. \A v : v \in Settled => v \in Settled'
  BY <1>3, <1>6, <1>7, SettledIs DEF Settled
<1>12. Known' /\ Ordered'
  BY <1>2, <1>10, <1>11, NothingBegins DEF Once
<1>13. Leading'
  BY <1>2 DEF Once, Leading
<1> QED BY <1>9, <1>12, <1>13

LEMMA ExecutedLogged ==
  ASSUME IInv
  PROVE  \A v : v \in Executed => v \in Held(log)
<1>1. \A t \in Shards : executed[t] \subseteq DOMAIN log[t]
  BY DEF IInv, TypeOK
<1> QED BY <1>1, ExecutedIs, InHeld

\* What a result sends on has not begun before.
LEMMA NextFresh ==
  ASSUME Once, NEW y \in ShardRequests, NEW j \in DOMAIN y.votes,
         y.votes[j] \in Held(results), NEW F,
         \/ j + 1 \in DOMAIN y.votes /\ F = <<y.votes[j + 1]>>
         \/ j = Len(y.votes) /\ F = y.commits
  PROVE  /\ F \in Seq(Requests) /\ IsInjective(F)
         /\ \A v \in ToSet(F) : v \in Parts(y) /\ v \notin Begun
<1>1. y.votes \in Seq(Requests) /\ y.commits \in Seq(Requests) /\ j \in Nat
  BY PartsAreRequests DEF Whole
<1>2. y.votes[j] \notin Settled
  BY SettledIs
<1>3. CASE j + 1 \in DOMAIN y.votes /\ F = <<y.votes[j + 1]>>
  <2>1. y.votes[j + 1] \notin Begun
    <3>1. j \in 1..((j + 1) - 1)
      BY <1>1
    <3> QED BY <1>2, <1>3, <3>1 DEF Once, Ordered
  <2>2. y.votes[j + 1] \in Parts(y) /\ y.votes[j + 1] \in Requests
    BY <1>3, PartsForm
  <2>3. F \in Seq(Requests) /\ IsInjective(F)
    BY <1>3, <2>2 DEF IsInjective
  <2>4. \A v \in ToSet(F) : v = y.votes[j + 1]
    BY <1>3 DEF ToSet
  <2> QED BY <2>1, <2>2, <2>3, <2>4
<1>4. CASE j = Len(y.votes) /\ F = y.commits
  <2>1. ASSUME NEW v \in ToSet(y.commits), v \in Begun PROVE FALSE
    <3>1. ToSet(y.votes) \subseteq Settled
      BY <2>1 DEF Once, Ordered
    <3>2. y.votes[j] \in ToSet(y.votes)
      BY DEF ToSet
    <3> QED BY <1>2, <3>1, <3>2
  <2>2. \A v \in ToSet(y.commits) : v \in Parts(y)
    BY DEF Parts
  <2> QED BY <1>1, <1>4, <2>1, <2>2, VotesApart
<1> QED BY <1>3, <1>4

LEMMA ResultOnce ==
  ASSUME Once, NEW s \in Shards, HandleConsensusResult(s)
  PROVE  Unique' /\ Known' /\ Ordered' /\ Leading'
<1> DEFINE q == Head(results[s])
           r == messages[s][q]
<1>1. /\ results \in [Shards -> Seq(Requests)] /\ results[s] # <<>>
      /\ outbox \in [Shards -> Seq(ShardMessages)]
  BY DEF Once, IInv, TypeOK, HandleConsensusResult
<1>2. UNCHANGED <<submitted, forward, log, executed, net>>
  BY DEF HandleConsensusResult
<1>3. /\ OnceIn(results') /\ \A v : v \in Held(results') <=> v \in Held(results) /\ v # q
      /\ q \in Requests /\ q \in Held(results)
  <2> DEFINE g == results'
  <2>1. g[s] = Tail(results[s]) /\ \A t \in Shards : t # s => g[t] = results[t]
    BY <1>1 DEF HandleConsensusResult
  <2>2. OnceIn(results)
    BY DEF Once, Unique
  <2> HIDE DEF g
  <2>3. /\ OnceIn(g) /\ \A v : v \in Held(g) <=> v \in Held(results) /\ v # q
        /\ q \in Requests /\ q \in Held(results)
    BY <1>1, <2>1, <2>2, TailOnce
  <2> QED BY <2>3 DEF g
<1>4. r \in Reduced \cup {None} /\ (r = None \/ q = First(r))
  BY <1>3 DEF Once, IInv, TypeOK
<1>5. outbox' = IF r = None \/ r.votes = <<>> THEN outbox
                ELSE [outbox EXCEPT ![s] = @ \o handleCommitVote(r)]
  BY DEF HandleConsensusResult
<1> HIDE DEF q, r
<1>6. Executed' = Executed /\ InNet' = InNet
  BY <1>2 DEF Executed, InNet
<1>7. q \in Executed /\ q \in Held(log) /\ q \in Begun
  <2>1. q \in Executed
    BY <1>3 DEF Once, Unique
  <2> QED BY <2>1, ExecutedLogged, BegunIs DEF Once
<1>8. \A v : v \in Settled' <=> v \in Settled \/ v = q
  BY <1>3, <1>6, <1>7, SettledIs DEF Settled
<1>9. Leading'
  BY <1>2 DEF Once, Leading
<1>10. CASE r = None \/ r.votes = <<>>
  <2>1. Carried' = Carried
    BY <1>5, <1>10 DEF Carried
  <2>2. Unique'
    BY <1>2, <1>3, <1>6, <2>1 DEF Once, Unique
  <2>3. \A v : v \in Begun' <=> v \in Begun
    BY <1>2, <1>6, <2>1, BegunIs DEF Begun
  <2>4. Known' /\ Ordered'
    BY <1>2, <1>8, <2>3, NothingBegins DEF Once
  <2> QED BY <1>9, <2>2, <2>4
<1>11. CASE ~(r = None \/ r.votes = <<>>)
  <2> DEFINE h == handleCommitVote(r)
             F == Firsts(h)
  <2>1. r \in Reduced /\ r.votes # <<>> /\ q = First(r)
    BY <1>4, <1>11
  <2>2. h \in Seq(ShardMessages)
    BY <2>1, CommitVoteSends
  <2>3. PICK y \in ShardRequests : \E j \in DOMAIN y.votes :
          /\ q = y.votes[j]
          /\ \/ j + 1 \in DOMAIN y.votes /\ F = <<y.votes[j + 1]>>
             \/ j = Len(y.votes) /\ F = y.commits
    BY <2>1, SentOn
  <2>4. PICK j \in DOMAIN y.votes :
          /\ q = y.votes[j]
          /\ \/ j + 1 \in DOMAIN y.votes /\ F = <<y.votes[j + 1]>>
             \/ j = Len(y.votes) /\ F = y.commits
    BY <2>3
  <2>5. outbox'[s] = outbox[s] \o h /\ \A t \in Shards : t # s => outbox'[t] = outbox[t]
    BY <1>1, <1>5, <1>11
  <2> HIDE DEF h
  <2>6. /\ F \in Seq(Requests) /\ IsInjective(F)
        /\ \A v \in ToSet(F) : v \in Parts(y) /\ v \notin Begun
    <3> HIDE DEF F
    <3> QED BY <1>3, <2>4, NextFresh
  <2>7. Carried'[s] = Carried[s] \o F /\ \A t \in Shards : t # s => Carried'[t] = Carried[t]
    <3>1. \A t \in Shards : Carried'[t] = Firsts(outbox'[t]) /\ Carried[t] = Firsts(outbox[t])
      BY DEF Carried, Firsts
    <3>2. Firsts(outbox[s] \o h) = Firsts(outbox[s]) \o F
      BY <1>1, <2>2, FirstsConcat
    <3> HIDE DEF F
    <3> QED BY <2>5, <3>1, <3>2
  <2> HIDE DEF F
  <2>8. OnceIn(Carried') /\ \A v : v \in Held(Carried') <=> v \in Held(Carried) \/ v \in ToSet(F)
    <3> DEFINE f == Carried
               g == Carried'
    <3>1. f \in [Shards -> Seq(Requests)] /\ OnceIn(f)
      BY CarriedIs DEF Once, IInv, Unique
    <3>2. g[s] = f[s] \o F /\ \A t \in Shards : t # s => g[t] = f[t]
      BY <2>7
    <3>3. ToSet(F) \cap Held(f) = {}
      BY <2>6, BegunIs
    <3> HIDE DEF f, g
    <3>4. OnceIn(g) /\ \A v : v \in Held(g) <=> v \in Held(f) \/ v \in ToSet(F)
      BY <2>6, <3>1, <3>2, <3>3, ConcatOnce, ZenonT(30)
    <3> QED BY <3>4 DEF f, g
  <2>9. \A v : v \in Begun' <=> v \in Begun \/ v \in ToSet(F)
    BY <1>2, <1>6, <2>8, BegunIs DEF Begun
  <2>10. \A v \in ToSet(F) : v \notin Held(forward) /\ v \notin Held(log) /\ v \notin InNet
    BY <2>6, BegunIs
  <2>11. Unique'
    BY <1>2, <1>3, <1>6, <2>8, <2>10 DEF Once, Unique
  <2>12. Known'
    <3> SUFFICES ASSUME NEW z \in ShardRequests, NEW v \in Parts(z), v \in Begun'
                 PROVE  z \in submitted
      BY <1>2 DEF Known
    <3>1. CASE v \in Begun
      BY <3>1 DEF Once, Known
    <3>2. CASE v \in ToSet(F)
      <4>1. z = y
        BY <2>6, <3>2, PartsApart
      <4>2. q \in Parts(y)
        BY <2>4, PartsForm
      <4> QED BY <1>7, <4>1, <4>2 DEF Once, Known
    <3> QED BY <2>9, <3>1, <3>2
  <2>13. ASSUME NEW z \in ShardRequests, NEW k \in DOMAIN z.votes, NEW i \in 1..(k - 1),
                z.votes[k] \in Begun'
         PROVE  z.votes[i] \in Settled'
    <3>1. CASE z.votes[k] \in Begun
      BY <1>8, <3>1 DEF Once, Ordered
    <3>2. CASE z.votes[k] \in ToSet(F)
      <4>1. z = y
        BY <2>6, <3>2, PartsForm, PartsApart
      <4>2. CASE j + 1 \in DOMAIN y.votes /\ F = <<y.votes[j + 1]>>
        <5>1. k = j + 1
          <6>1. y.votes[k] = y.votes[j + 1]
            BY <3>2, <4>1, <4>2 DEF ToSet
          <6> QED BY <4>1, <4>2, <6>1, VotesApart
        <5>2. j \in Nat
          BY PartsAreRequests DEF Whole
        <5>3. i = j \/ i \in 1..(j - 1)
          BY <5>1, <5>2
        <5>4. \A l \in 1..(j - 1) : y.votes[l] \in Settled
          BY <1>7, <2>4 DEF Once, Ordered
        <5> QED BY <1>8, <2>4, <4>1, <5>3, <5>4
      <4>3. CASE F = y.commits
        BY <3>2, <4>1, <4>3, VotesApart DEF ToSet
      <4> QED BY <2>4, <4>2, <4>3
    <3> QED BY <2>9, <2>13, <3>1, <3>2
  <2>14. ASSUME NEW z \in ShardRequests, NEW k \in DOMAIN z.commits, z.commits[k] \in Begun'
         PROVE  ToSet(z.votes) \subseteq Settled'
    <3>1. CASE z.commits[k] \in Begun
      <4>1. ToSet(z.votes) \subseteq Settled
        BY <3>1 DEF Once, Ordered, ToSet
      <4> QED BY <1>8, <4>1
    <3>2. CASE z.commits[k] \in ToSet(F)
      <4>1. z = y
        BY <2>6, <3>2, PartsForm, PartsApart
      <4>2. CASE j + 1 \in DOMAIN y.votes /\ F = <<y.votes[j + 1]>>
        <5>1. y.votes[j + 1] = y.commits[k]
          BY <3>2, <4>1, <4>2 DEF ToSet
        <5> QED BY <4>1, <4>2, <5>1, VotesApart
      <4>3. CASE j = Len(y.votes)
        <5>1. DOMAIN y.votes = 1..j
          BY <4>3, PartsAreRequests DEF Whole
        <5>2. ASSUME NEW i \in DOMAIN y.votes PROVE y.votes[i] \in Settled'
          <6>1. i = j \/ i \in 1..(j - 1)
            BY <5>1
          <6>2. \A l \in 1..(j - 1) : y.votes[l] \in Settled
            BY <1>7, <2>4 DEF Once, Ordered
          <6> QED BY <1>8, <2>4, <6>1, <6>2
        <5> QED BY <4>1, <5>2 DEF ToSet
      <4> QED BY <2>4, <4>2, <4>3
    <3> QED BY <2>9, <2>14, <3>1, <3>2
  <2>15. Ordered'
    BY <2>13, <2>14 DEF Ordered, ToSet
  <2> QED BY <1>9, <2>11, <2>12, <2>15
<1> QED BY <1>10, <1>11

LEMMA BroadcastOnce ==
  ASSUME Once, NEW s \in Shards, BroadcastToShard(s)
  PROVE  Unique' /\ Known' /\ Ordered' /\ Leading'
<1> DEFINE m == Head(outbox[s])
           q == First(m.request)
<1>1. outbox \in [Shards -> Seq(ShardMessages)] /\ outbox[s] # <<>>
  BY DEF Once, IInv, TypeOK, BroadcastToShard
<1>2. UNCHANGED <<submitted, forward, log, executed, results>>
  BY DEF BroadcastToShard
<1>3. outbox'[s] = Tail(outbox[s]) /\ \A t \in Shards : t # s => outbox'[t] = outbox[t]
  BY <1>1 DEF BroadcastToShard
<1>4. net' = net \/ net' = net \cup {m}
  BY DEF BroadcastToShard
<1>5. /\ Carried[s] # <<>> /\ Head(Carried[s]) = q /\ Carried'[s] = Tail(Carried[s])
      /\ \A t \in Shards : t # s => Carried'[t] = Carried[t]
  <2>1. \A t \in Shards : Carried'[t] = Firsts(outbox'[t]) /\ Carried[t] = Firsts(outbox[t])
    BY DEF Carried, Firsts
  <2>2. /\ Firsts(Tail(outbox[s])) = Tail(Firsts(outbox[s])) /\ Firsts(outbox[s]) # <<>>
        /\ Head(Firsts(outbox[s])) = q
    BY <1>1, FirstsTail
  <2> QED BY <1>3, <2>1, <2>2
<1>6. /\ OnceIn(Carried') /\ \A v : v \in Held(Carried') <=> v \in Held(Carried) /\ v # q
      /\ q \in Held(Carried)
  <2> DEFINE f == Carried
             g == Carried'
  <2>1. f \in [Shards -> Seq(Requests)] /\ OnceIn(f)
    BY CarriedIs DEF Once, IInv, Unique
  <2>2. /\ f[s] # <<>> /\ Head(f[s]) = q /\ g[s] = Tail(f[s])
        /\ \A t \in Shards : t # s => g[t] = f[t]
    BY <1>5
  <2> HIDE DEF f, g, q
  <2>3. f \in [Shards -> Seq(Requests)]
    BY <2>1
  <2>4. f[s] # <<>>
    BY <2>2
  <2>5. g[s] = Tail(f[s]) /\ \A t \in Shards : t # s => g[t] = f[t]
    BY <2>2
  <2>6. /\ OnceIn(g) /\ \A v : v \in Held(g) <=> v \in Held(f) /\ v # Head(f[s])
        /\ Head(f[s]) \in Requests /\ Head(f[s]) \in Held(f)
    BY <2>1, <2>3, <2>4, <2>5, TailOnce
  <2> QED BY <2>2, <2>6 DEF f, g
<1>7. q \notin Held(forward) /\ q \notin Held(log) /\ q \notin InNet
  BY <1>6 DEF Once, Unique
<1>8. \A v : v \in InNet' => v \in InNet \/ v = q
  BY <1>4 DEF InNet
<1>9. \A n, l \in net' : First(n.request) = First(l.request) => n = l
  <2>1. \A n, l \in net : First(n.request) = First(l.request) => n = l
    BY DEF Once, Unique
  <2>2. \A n \in net : First(n.request) # q
    BY <1>7 DEF InNet
  <2> QED BY <1>4, <2>1, <2>2
<1> HIDE DEF q
<1>10. Unique'
  <2>1. Executed' = Executed
    BY <1>2 DEF Executed
  <2> QED BY <1>2, <1>6, <1>7, <1>8, <1>9, <2>1 DEF Once, Unique
<1>11. \A v : v \in Begun' => v \in Begun
  BY <1>2, <1>6, <1>8, BegunIs DEF Begun
<1>12. Known' /\ Ordered'
  BY <1>2, <1>11, SameSettled, NothingBegins DEF Once
<1>13. Leading'
  BY <1>2 DEF Once, Leading
<1> QED BY <1>10, <1>12, <1>13

LEMMA InitOnce == Init => Once
<1> SUFFICES ASSUME Init PROVE Once
  OBVIOUS
<1>1. \A s \in Shards : /\ forward[s] = <<>> /\ log[s] = <<>> /\ results[s] = <<>>
                        /\ DOMAIN Carried[s] = {} /\ executed[s] = {}
  BY DEF Init, Carried
<1>2. /\ \A v : v \notin Held(forward) /\ v \notin Held(log) /\ v \notin Held(results)
      /\ \A v : v \notin Held(Carried) /\ v \notin Executed
  BY <1>1, InHeld, ExecutedIs
<1>3. net = {} /\ \A v : v \notin InNet
  BY DEF Init, InNet
<1>4. Unique
  BY <1>1, <1>2, <1>3 DEF Unique, OnceIn
<1>5. \A v : v \notin Begun
  BY <1>2, <1>3, BegunIs
<1>6. Known /\ Ordered
  BY <1>5 DEF Known, Ordered
<1>7. Leading
  BY <1>2 DEF Leading
<1> QED BY <1>4, <1>6, <1>7, InitIInv DEF Once

LEMMA StepOnce == Once /\ [Next]_vars => Once'
<1> SUFFICES ASSUME Once, [Next]_vars PROVE Once'
  OBVIOUS
<1>1. IInv'
  BY StepIInv DEF Once
<1>2. ASSUME NEW x \in ShardRequests, Submit(x) PROVE Once'
  BY <1>1, <1>2, SubmitOnce DEF Once
<1>3. ASSUME NEW m \in net, HandleShardMessage(m) PROVE Once'
  BY <1>1, <1>3, HandleOnce DEF Once
<1>4. ASSUME NEW s \in Shards, Forward(s) PROVE Once'
  BY <1>1, <1>4, ForwardOnce DEF Once
<1>5. ASSUME NEW s \in Shards, NEW k \in DOMAIN log[s], Execute(s, k) PROVE Once'
  BY <1>1, <1>5, ExecuteOnce DEF Once
<1>6. ASSUME NEW s \in Shards, HandleConsensusResult(s) PROVE Once'
  BY <1>1, <1>6, ResultOnce DEF Once
<1>7. ASSUME NEW s \in Shards, BroadcastToShard(s) PROVE Once'
  BY <1>1, <1>7, BroadcastOnce DEF Once
<1>8. CASE UNCHANGED <<submitted, messages, forward, log, executed, results, outbox, net>>
  <2>1. Carried' = Carried /\ InNet' = InNet /\ Executed' = Executed
    BY <1>8 DEF Carried, InNet, Executed
  <2>2. Unique' /\ Leading'
    BY <1>8, <2>1 DEF Once, Unique, Leading
  <2>3. \A v : v \in Begun' <=> v \in Begun
    BY <1>8, <2>1, BegunIs DEF Begun
  <2>4. Known' /\ Ordered'
    BY <1>8, <2>3, SameSettled, NothingBegins DEF Once
  <2> QED BY <1>1, <2>2, <2>4 DEF Once
<1>9. ASSUME NEW s \in Shards, NEW k \in DOMAIN log[s], Panic(s, k) \/ Stall(s, k) PROVE Once'
  BY <1>8, <1>9 DEF Panic, Stall
<1> QED BY <1>2, <1>3, <1>4, <1>5, <1>6, <1>7, <1>8, <1>9 DEF Next, Node, vars

LEMMA OnceHolds == Spec => []Once
BY InitOnce, StepOnce, PTL DEF Spec

-----------------------------------------------------------------------------
\* One vote at a time.

\* p is a place of v in the channels of kind k.
Place(k, f, p, v) == \E s \in Shards : \E i \in DOMAIN f[s] : p = <<k, <<s, i>>>> /\ v = f[s][i]

LEMMA VotesAtIs ==
  ASSUME NEW x, NEW f
  PROVE  \A p : p \in VotesAt(x, f) <=>
           \E s \in Shards : \E i \in DOMAIN f[s] : p = <<s, i>> /\ f[s][i] \in ToSet(x.votes)
BY DEF VotesAt

LEMMA PlaceOf ==
  ASSUME NEW x, NEW f, NEW k, NEW p, p \in {k} \X VotesAt(x, f)
  PROVE  \E v \in ToSet(x.votes) : v \in Held(f) /\ Place(k, f, p, v)
<1>1. PICK z \in VotesAt(x, f) : p = <<k, z>>
  OBVIOUS
<1>2. PICK s \in Shards : \E i \in DOMAIN f[s] : z = <<s, i>> /\ f[s][i] \in ToSet(x.votes)
  BY VotesAtIs
<1>3. PICK i \in DOMAIN f[s] : z = <<s, i>> /\ f[s][i] \in ToSet(x.votes)
  BY <1>2
<1>4. f[s][i] \in Held(f)
  BY InHeld
<1> QED BY <1>1, <1>3, <1>4 DEF Place

\* A vote under way has begun and is not settled.
LEMMA UnderWay ==
  ASSUME Once, NEW x \in ShardRequests, NEW p \in VotesUnderWay(x)
  PROVE  \E v \in ToSet(x.votes) :
           /\ v \in Begun /\ v \notin Settled
           /\ \/ Place("forward", forward, p, v)
              \/ Place("log", log, p, v) /\ v \notin Executed
              \/ Place("results", results, p, v)
              \/ Place("outbox", Carried, p, v)
              \/ \E m \in net : p = <<"net", m>> /\ v = First(m.request)
<1>1. \A v : v \in Settled => v \in Executed /\ v \in Held(log) /\ v \notin Held(results)
  BY SettledIs, ExecutedLogged DEF Once
<1>2. CASE p \in {"forward"} \X VotesAt(x, forward)
  <2>1. PICK v \in ToSet(x.votes) : v \in Held(forward) /\ Place("forward", forward, p, v)
    BY <1>2, PlaceOf
  <2>2. v \in Begun /\ v \notin Settled
    BY <1>1, <2>1, BegunIs DEF Once, Unique
  <2> QED BY <2>1, <2>2
<1>3. CASE p \in {"log"} \X {z \in VotesAt(x, log) : z[2] \notin executed[z[1]]}
  <2>1. PICK z \in VotesAt(x, log) : p = <<"log", z>> /\ z[2] \notin executed[z[1]]
    BY <1>3
  <2>2. PICK s \in Shards : \E i \in DOMAIN log[s] : z = <<s, i>> /\ log[s][i] \in ToSet(x.votes)
    BY VotesAtIs
  <2>3. PICK i \in DOMAIN log[s] : z = <<s, i>> /\ log[s][i] \in ToSet(x.votes)
    BY <2>2
  <2>4. i \notin executed[s]
    BY <2>1, <2>3
  <2>5. log[s][i] \in Held(log) /\ log[s][i] \notin Executed
    BY <2>4, ExecuteFresh
  <2>6. log[s][i] \in Begun /\ log[s][i] \notin Settled
    BY <1>1, <2>5, BegunIs
  <2> QED BY <2>1, <2>3, <2>5, <2>6 DEF Place
<1>4. CASE p \in {"results"} \X VotesAt(x, results)
  <2>1. PICK v \in ToSet(x.votes) : v \in Held(results) /\ Place("results", results, p, v)
    BY <1>4, PlaceOf
  <2>2. v \in Held(log)
    BY <2>1, ExecutedLogged DEF Once, Unique
  <2>3. v \in Begun /\ v \notin Settled
    BY <1>1, <2>1, <2>2, BegunIs
  <2> QED BY <2>1, <2>3
<1>5. CASE p \in {"outbox"} \X VotesAt(x, Carried)
  <2>1. PICK v \in ToSet(x.votes) : v \in Held(Carried) /\ Place("outbox", Carried, p, v)
    BY <1>5, PlaceOf
  <2>2. v \in Begun /\ v \notin Settled
    BY <1>1, <2>1, BegunIs DEF Once, Unique
  <2> QED BY <2>1, <2>2
<1>6. CASE p \in {"net"} \X {m \in net : First(m.request) \in ToSet(x.votes)}
  <2>1. PICK m \in net : p = <<"net", m>> /\ First(m.request) \in ToSet(x.votes)
    BY <1>6
  <2>2. First(m.request) \in InNet
    BY DEF InNet
  <2>3. First(m.request) \in Begun /\ First(m.request) \notin Settled
    BY <1>1, <2>2, BegunIs DEF Once, Unique
  <2> QED BY <2>1, <2>3
<1> QED BY <1>2, <1>3, <1>4, <1>5, <1>6 DEF VotesUnderWay

\* A shard request has only one vote under way.
LEMMA SameVote ==
  ASSUME Once, NEW x \in ShardRequests, NEW v \in ToSet(x.votes), NEW w \in ToSet(x.votes),
         v \in Begun, v \notin Settled, w \in Begun, w \notin Settled
  PROVE  v = w
<1>1. DOMAIN x.votes = 1..Len(x.votes) /\ Len(x.votes) \in Nat
  BY PartsAreRequests DEF Whole
<1>2. PICK i \in DOMAIN x.votes, j \in DOMAIN x.votes : v = x.votes[i] /\ w = x.votes[j]
  BY DEF ToSet
<1>3. ~(i < j)
  <2> SUFFICES ASSUME i < j PROVE FALSE
    OBVIOUS
  <2>1. i \in 1..(j - 1)
    BY <1>1
  <2> QED BY <1>2, <2>1 DEF Once, Ordered
<1>4. ~(j < i)
  <2> SUFFICES ASSUME j < i PROVE FALSE
    OBVIOUS
  <2>1. j \in 1..(i - 1)
    BY <1>1
  <2> QED BY <1>2, <2>1 DEF Once, Ordered
<1> QED BY <1>1, <1>2, <1>3, <1>4

LEMMA SamePlace ==
  ASSUME NEW k, NEW f, OnceIn(f), NEW p, NEW q, NEW v, Place(k, f, p, v), Place(k, f, q, v)
  PROVE  p = q
BY ZenonT(30) DEF Place, OnceIn

LEMMA PlaceHeld ==
  ASSUME NEW k, NEW f, NEW p, NEW v, Place(k, f, p, v)
  PROVE  v \in Held(f)
BY InHeld DEF Place

LEMMA OnceOneVote == Once => OneVoteAtATime
<1> SUFFICES ASSUME Once, NEW x \in ShardRequests,
                    NEW p \in VotesUnderWay(x), NEW q \in VotesUnderWay(x)
             PROVE  p = q
  BY DEF OneVoteAtATime
<1> DEFINE At(z, v) ==
      \/ Place("forward", forward, z, v)
      \/ Place("log", log, z, v) /\ v \notin Executed
      \/ Place("results", results, z, v)
      \/ Place("outbox", Carried, z, v)
      \/ \E m \in net : z = <<"net", m>> /\ v = First(m.request)
<1>1. PICK v \in ToSet(x.votes) : v \in Begun /\ v \notin Settled /\ At(p, v)
  BY UnderWay
<1>2. PICK w \in ToSet(x.votes) : w \in Begun /\ w \notin Settled /\ At(q, w)
  BY UnderWay
<1>3. v = w
  BY <1>1, <1>2, SameVote
<1>4. /\ \A z : Place("forward", forward, z, v) => v \in Held(forward)
      /\ \A z : Place("log", log, z, v) => v \in Held(log)
      /\ \A z : Place("results", results, z, v) => v \in Held(results)
      /\ \A z : Place("outbox", Carried, z, v) => v \in Held(Carried)
      /\ \A m \in net : v = First(m.request) => v \in InNet
  BY PlaceHeld DEF InNet
<1>5. v \in Held(results) => v \in Executed /\ v \in Held(log)
  BY ExecutedLogged DEF Once, Unique
<1>6. CASE v \in Held(forward)
  <2>1. Place("forward", forward, p, v) /\ Place("forward", forward, q, v)
    BY <1>1, <1>2, <1>3, <1>4, <1>5, <1>6 DEF Once, Unique
  <2> QED BY <2>1, SamePlace DEF Once, Unique
<1>7. CASE v \in Held(log) /\ v \notin Executed
  <2>1. Place("log", log, p, v) /\ Place("log", log, q, v)
    BY <1>1, <1>2, <1>3, <1>4, <1>5, <1>7 DEF Once, Unique
  <2> QED BY <2>1, SamePlace DEF Once, Unique
<1>8. CASE v \in Held(results)
  <2>1. Place("results", results, p, v) /\ Place("results", results, q, v)
    BY <1>1, <1>2, <1>3, <1>4, <1>5, <1>8 DEF Once, Unique
  <2> QED BY <2>1, SamePlace DEF Once, Unique
<1>9. CASE v \in Held(Carried)
  <2>1. Place("outbox", Carried, p, v) /\ Place("outbox", Carried, q, v)
    BY <1>1, <1>2, <1>3, <1>4, <1>5, <1>9 DEF Once, Unique
  <2>2. OnceIn(Carried)
    BY DEF Once, Unique
  <2> QED BY <2>1, <2>2, SamePlace
<1>10. CASE v \in InNet
  <2>1. /\ \E m \in net : p = <<"net", m>> /\ v = First(m.request)
        /\ \E m \in net : q = <<"net", m>> /\ v = First(m.request)
    BY <1>1, <1>2, <1>3, <1>4, <1>5, <1>10 DEF Once, Unique
  <2> QED BY <2>1 DEF Once, Unique
<1> QED BY <1>1, <1>4, <1>6, <1>7, <1>8, <1>9, <1>10

-----------------------------------------------------------------------------
\* Linear implements Transfer.

countBar == [q \in Requests |-> Cardinality(Positions(q))]

LEMMA PositionsIs ==
  \A q, z : z \in Positions(q) <=>
    \E s \in Shards : \E k \in executed[s] : z = <<s, k>> /\ log[s][k] = q
BY DEF Positions

\* A request is executed at one position, or at none.
LEMMA CountIs ==
  ASSUME Once, NEW q
  PROVE  Cardinality(Positions(q)) = IF q \in Executed THEN 1 ELSE 0
<1>1. \A t \in Shards : executed[t] \subseteq DOMAIN log[t]
  BY DEF Once, IInv, TypeOK
<1>2. CASE q \in Executed
  <2>1. PICK s \in Shards : \E k \in executed[s] : q = log[s][k]
    BY <1>2, ExecutedIs
  <2>2. PICK k \in executed[s] : q = log[s][k]
    BY <2>1
  <2>3. \A t \in Shards : \A i \in executed[t] : log[t][i] = q => t = s /\ i = k
    BY <1>1, <2>2 DEF Once, Unique, OnceIn
  <2>4. Positions(q) = {<<s, k>>}
    BY <2>2, <2>3, PositionsIs
  <2> QED BY <1>2, <2>4, FS_Singleton
<1>3. CASE q \notin Executed
  <2>1. Positions(q) = {}
    BY <1>3, ExecutedIs, PositionsIs
  <2> QED BY <1>3, <2>1, FS_EmptySet
<1> QED BY <1>2, <1>3

LEMMA CountBarIs == Once => countBar = [q \in Requests |-> IF q \in Executed THEN 1 ELSE 0]
BY CountIs DEF countBar

LEMMA TransferInit == Init => Abstract!Init
<1> SUFFICES ASSUME Init PROVE Abstract!Init
  OBVIOUS
<1>1. \A v : v \notin Executed
  BY ExecutedIs DEF Init
<1>2. countBar = [q \in Requests |-> 0]
  BY <1>1, InitOnce, CountBarIs
<1> QED BY <1>2 DEF Abstract!Init, countBar

LEMMA CountBarNext == Once' => countBar' = [q \in Requests |-> IF q \in Executed' THEN 1 ELSE 0]
<1>1. (Once => countBar = [q \in Requests |-> IF q \in Executed THEN 1 ELSE 0])'
  BY CountBarIs, PTL
<1> QED BY <1>1

\* While nothing is executed, the transfer does not move.
LEMMA TransferStands ==
  ASSUME Once, Once', \A v : v \in Executed' <=> v \in Executed
  PROVE  countBar' = countBar
BY CountBarIs, CountBarNext

\* What is executed comes when a transfer may execute it.
LEMMA TransferExecute ==
  ASSUME Once, Once', NEW s \in Shards, NEW k \in DOMAIN log[s], Execute(s, k)
  PROVE  Abstract!Next
<1> DEFINE q == log[s][k]
<1>1. k \notin executed[s]
  BY DEF Execute, Numbered
<1>2. q \notin Executed /\ q \in Held(log) /\ q \in Requests
  BY <1>1, ExecuteFresh
<1>3. q \in Begun /\ q \in Leads
  BY <1>2, BegunIs DEF Once, Leading
<1>4. \A v : v \in Executed' <=> v \in Executed \/ v = q
  BY ExecutesOne
<1> HIDE DEF q
<1>5. countBar[q] = 0 /\ countBar' = [countBar EXCEPT ![q] = 1]
  BY <1>2, <1>4, CountBarIs, CountBarNext
<1>6. Abstract!Execute(q)
  BY <1>5 DEF Abstract!Execute, countBar
<1>7. \A v \in Settled : v \in Requests => countBar[v] > 0
  BY SettledIs, CountBarIs
<1>8. PICK r \in Reduced : q = First(r)
  BY <1>3 DEF Leads
<1>9. PICK x \in ShardRequests : \/ \E j \in DOMAIN x.votes : q = x.votes[j]
                                 \/ \E j \in DOMAIN x.commits : q = x.commits[j]
  BY <1>8, FirstForm
<1>10. ASSUME NEW j \in DOMAIN x.votes, q = x.votes[j] PROVE Abstract!Next
  <2> DEFINE u == SubSeq(x.votes, 1, j - 1)
  <2>1. x.votes \in Seq(Requests) /\ DOMAIN x.votes = 1..Len(x.votes) /\ j \in 1..Len(x.votes)
    BY PartsAreRequests DEF Whole
  <2>2. \A i \in 1..(j - 1) : x.votes[i] \in Requests /\ countBar[x.votes[i]] > 0
    BY <1>3, <1>7, <1>10, <2>1 DEF Once, Ordered
  <2>3. u \in Seq(Requests) /\ Len(u) = j - 1 /\ \A i \in 1..(j - 1) : u[i] = x.votes[i]
    BY <2>1, SubSeqProperties
  <2> HIDE DEF u
  <2>4. \A i \in DOMAIN u : countBar[u[i]] > 0
    BY <2>1, <2>2, <2>3
  <2>5. Abstract!Vote(x, j)
    BY <1>6, <1>10, <2>4 DEF Abstract!Vote, Abstract!Done, countBar, u
  <2> QED BY <2>5 DEF Abstract!Next
<1>11. ASSUME NEW j \in DOMAIN x.commits, q = x.commits[j] PROVE Abstract!Next
  <2>1. ToSet(x.votes) \subseteq Settled
    BY <1>3, <1>11 DEF Once, Ordered, ToSet
  <2>2. \A i \in DOMAIN x.votes : countBar[x.votes[i]] > 0
    BY <1>7, <2>1, PartsForm DEF ToSet
  <2>3. Abstract!Commit(x, j)
    BY <1>6, <1>11, <2>2 DEF Abstract!Commit, Abstract!Done, countBar
  <2> QED BY <2>3 DEF Abstract!Next
<1> QED BY <1>9, <1>10, <1>11

LEMMA TransferNext == Once /\ Once' /\ [Next]_vars => [Abstract!Next]_countBar
<1> SUFFICES ASSUME Once, Once', [Next]_vars PROVE Abstract!Next \/ countBar' = countBar
  OBVIOUS
<1>1. UNCHANGED <<log, executed>> => countBar' = countBar
  BY TransferStands DEF Executed
<1>2. CASE UNCHANGED vars
  BY <1>1, <1>2 DEF vars
<1>3. ASSUME NEW x \in ShardRequests, Submit(x) PROVE countBar' = countBar
  BY <1>1, <1>3 DEF Submit
<1>4. ASSUME NEW m \in net, HandleShardMessage(m) PROVE countBar' = countBar
  BY <1>1, <1>4 DEF HandleShardMessage
<1>5. ASSUME NEW s \in Shards, Forward(s) PROVE countBar' = countBar
  BY <1>5, ForwardExecutes, TransferStands
<1>6. ASSUME NEW s \in Shards, HandleConsensusResult(s) PROVE countBar' = countBar
  BY <1>1, <1>6 DEF HandleConsensusResult
<1>7. ASSUME NEW s \in Shards, BroadcastToShard(s) PROVE countBar' = countBar
  BY <1>1, <1>7 DEF BroadcastToShard
<1>8. ASSUME NEW s \in Shards, NEW k \in DOMAIN log[s], Execute(s, k) PROVE Abstract!Next
  BY <1>8, TransferExecute
<1>9. ASSUME NEW s \in Shards, NEW k \in DOMAIN log[s], Panic(s, k) \/ Stall(s, k)
      PROVE  countBar' = countBar
  BY <1>1, <1>9 DEF Panic, Stall
<1> QED BY <1>2, <1>3, <1>4, <1>5, <1>6, <1>7, <1>8, <1>9 DEF Next, Node

-----------------------------------------------------------------------------

\* While a shard request is voted on it is in one channel, one consensus or one
\* message, with any number of others under way and any messages lost.
THEOREM OneVote == Spec => []OneVoteAtATime
BY OnceOneVote, OnceHolds, PTL

\* Every behaviour of the orchestration is one of a transfer: votes are executed
\* one after the other, each once, and commits after them, each once.
THEOREM ImplementsTransfer == Spec => TransferSpec
BY TransferInit, TransferNext, OnceHolds, PTL DEF Spec, Abstract!Spec, TransferSpec, countBar
=============================================================================
