---------------------------- MODULE PBFT_proofs ----------------------------
(***************************************************************************)
(* Proofs about PBFT for every committee, every set of links and every     *)
(* number of requests: its type, what stands behind an execution, that a   *)
(* key is executed once and alike, that PBFT implements ShardLog, and      *)
(* that the consensus on a key does not come to rest half way.             *)
(***************************************************************************)
EXTENDS PBFTDelivery, FiniteSetTheorems, SequenceTheorems, WellFoundedInduction, TLAPS

\* The messages of the three phases are told apart by their fields.
LEMMA MessagesDiffer ==
  /\ \A k1, k2, q1, q2 : Preprepare(k1, q1) = Preprepare(k2, q2) => k1 = k2 /\ q1 = q2
  /\ \A k1, k2, i1, i2 : Prepare(k1, i1) = Prepare(k2, i2) => k1 = k2 /\ i1 = i2
  /\ \A k1, k2, i1, i2 : Commit(k1, i1) = Commit(k2, i2) => k1 = k2 /\ i1 = i2
  /\ \A k1, k2, q, i : Preprepare(k1, q) # Prepare(k2, i)
  /\ \A k1, k2, q, i : Preprepare(k1, q) # Commit(k2, i)
  /\ \A k1, k2, i1, i2 : Prepare(k1, i1) # Commit(k2, i2)
BY DEF Preprepare, Prepare, Commit

\* What is built from a key, a request or a replica is a message.
LEMMA MessagesBuilt ==
  /\ \A k \in Keys, q \in Requests : Preprepare(k, q) \in Messages
  /\ \A k \in Keys, i \in Replicas : Prepare(k, i) \in Messages
  /\ \A k \in Keys, i \in Replicas : Commit(k, i) \in Messages
BY DEF Messages

\* A phase waits for at least one message.
LEMMA RequiredPositive == Required \in Nat /\ Required >= 1
BY CommitteeAssumption DEF Required, F

\* A request's effect is a change of balances.
LEMMA ApplyType ==
  ASSUME NEW db \in [Targets -> Int], NEW q \in Requests
  PROVE  Apply(db, q) \in [Targets -> Int]
<1>1. q.amount \in Int /\ q.target \in Targets
  BY RequestsAssumption DEF Targets
<1>2. CASE q.operation = "Add"
  BY <1>1, <1>2 DEF Apply
<1>3. CASE q.operation = "Sub"
  BY <1>1, <1>3 DEF Apply
<1>4. CASE q.operation # "Add" /\ q.operation # "Sub"
  BY <1>4 DEF Apply
<1>5. QED BY <1>2, <1>3, <1>4

-----------------------------------------------------------------------------

\* Every variable keeps its type.
LEMMA TypeInit == Init => TypeOK
BY BoundAssumption DEF Init, TypeOK, Keys, Targets

LEMMA TypeNext == TypeOK /\ [Next]_vars => TypeOK'
<1> SUFFICES ASSUME TypeOK, [Next]_vars PROVE TypeOK'
  OBVIOUS
<1>1. ASSUME NEW q \in Requests, Propose(q) PROVE TypeOK'
  <2>1. Sequence + 1 \in Keys
    BY <1>1, BoundAssumption DEF Propose, TypeOK, Keys
  <2>2. Sequence' \in 0..MaxSequence
    BY <1>1, BoundAssumption DEF Propose, TypeOK
  <2>3. msgs' \subseteq Messages
    BY <1>1, <2>1, MessagesBuilt DEF Propose, TypeOK
  <2> QED BY <1>1, <2>2, <2>3 DEF Propose, TypeOK, maps
<1>2. ASSUME NEW r \in Replicas, NEW k \in Keys, NEW q \in Requests,
             HandlePreprepare(r, k, q)
      PROVE  TypeOK'
  BY <1>2, MessagesBuilt DEF HandlePreprepare, TypeOK
<1>3. ASSUME NEW r \in Replicas, NEW k \in Keys, NEW i \in Replicas,
             HandlePrepare(r, k, i)
      PROVE  TypeOK'
  <2>1. msgs' \subseteq Messages
    BY <1>3, MessagesBuilt DEF HandlePrepare, HandlePrepareAt, TypeOK
  <2> QED BY <1>3, <2>1 DEF HandlePrepare, HandlePrepareAt, TypeOK
<1>4. ASSUME NEW r \in Replicas, NEW k \in Keys, NEW i \in Replicas,
             HandleCommit(r, k, i)
      PROVE  TypeOK'
  <2> DEFINE q == receivedPreprepares[r][k]
  <2>1. receivedCommits' \in [Replicas -> [Keys -> SUBSET Replicas]]
    BY <1>4 DEF HandleCommit, TypeOK
  <2>2. CASE UNCHANGED <<stateDB, forward, panicked>>
    BY <1>4, <2>1, <2>2 DEF HandleCommit, TypeOK
  <2>3. CASE execute(r, k) /\ q = None
    <3>1. panicked' = panicked \cup {r} /\ UNCHANGED <<stateDB, forward>>
      BY <2>3 DEF execute
    <3> QED BY <1>4, <2>1, <3>1 DEF HandleCommit, TypeOK
  <2>4. CASE execute(r, k) /\ q # None
    <3>1. q \in Requests
      BY <2>4 DEF TypeOK
    <3>2. Result(k, q) \in [sequence : Keys, request : Requests]
      BY <3>1 DEF Result
    <3>3. Append(forward[r], Result(k, q)) \in Seq([sequence : Keys, request : Requests])
      BY <3>2, AppendProperties DEF TypeOK
    <3>4. Apply(stateDB[r], q) \in [Targets -> Int]
      BY <3>1, ApplyType DEF TypeOK
    <3>5. /\ stateDB' \in [Replicas -> [Targets -> Int]]
          /\ forward' \in [Replicas -> Seq([sequence : Keys, request : Requests])]
          /\ panicked' = panicked
      BY <2>4, <3>3, <3>4 DEF execute, TypeOK
    <3> QED BY <1>4, <2>1, <3>5 DEF HandleCommit, TypeOK
  <2> QED BY <1>4, <2>2, <2>3, <2>4 DEF HandleCommit
<1>5. CASE UNCHANGED vars
  BY <1>5 DEF vars, maps, TypeOK
<1>6. QED BY <1>1, <1>2, <1>3, <1>4, <1>5 DEF Next, Handle

\* The type invariant of consensus: TypeOK in every reachable state.
THEOREM TypeCorrect == Spec => []TypeOK
<1> QED BY TypeInit, TypeNext, PTL DEF Spec

-----------------------------------------------------------------------------
(***************************************************************************)
(* The inductive invariant: a chain from a count in a map, through the     *)
(* messages counted, to what their senders had counted before they sent.   *)
(***************************************************************************)

\* The primary pre-prepares one request under each key it has handed out,
\* and what a replica holds under a key is that request.
PreprepareInv ==
  /\ \A k \in Keys, q \in Requests : Preprepare(k, q) \in msgs => k <= Sequence
  /\ \A k \in 1..Sequence : \E q \in Requests : Preprepare(k, q) \in msgs
  /\ \A k \in Keys, q1, q2 \in Requests :
       Preprepare(k, q1) \in msgs /\ Preprepare(k, q2) \in msgs => q1 = q2
  /\ \A r \in Replicas, k \in Keys :
       receivedPreprepares[r][k] # None =>
         Preprepare(k, receivedPreprepares[r][k]) \in msgs

\* A prepare is counted if it was sent, and sent if its sender accepted.
PrepareInv ==
  \A r \in Replicas, k \in Keys :
    /\ Prepare(k, r) \in msgs => receivedPreprepares[r][k] # None
    /\ \A i \in receivedPrepares[r][k] : Prepare(k, i) \in msgs

\* A commit is counted if it was sent, and sent if its sender had a quorum.
CommitInv ==
  \A r \in Replicas, k \in Keys :
    /\ Commit(k, r) \in msgs => Cardinality(receivedPrepares[r][k]) >= Required
    /\ \A i \in receivedCommits[r][k] : Commit(k, i) \in msgs

\* What was executed is what the replica accepted, after a quorum of commits.
ExecuteInv ==
  \A r \in Replicas : \A j \in DOMAIN forward[r] :
    LET k == forward[r][j].sequence IN
    /\ Cardinality(receivedCommits[r][k]) >= Required
    /\ receivedPreprepares[r][k] = forward[r][j].request

IInv == TypeOK /\ PreprepareInv /\ PrepareInv /\ CommitInv /\ ExecuteInv /\ ExecuteOnce

\* A set of replicas that gains one does not shrink.
LEMMA GrowingSet ==
  ASSUME NEW S \in SUBSET Replicas, NEW i \in Replicas
  PROVE  /\ Cardinality(S) \in Nat
         /\ Cardinality(S \cup {i}) \in Nat
         /\ Cardinality(S \cup {i}) >= Cardinality(S)
         /\ i \notin S => Cardinality(S \cup {i}) = Cardinality(S) + 1
<1>1. IsFiniteSet(S) /\ Cardinality(S) \in Nat
  BY ReplicasAssumption, FS_Subset, FS_CardinalityType
<1>2. Cardinality(S \cup {i}) = IF i \in S THEN Cardinality(S) ELSE Cardinality(S) + 1
  BY <1>1, FS_AddElement
<1> QED BY <1>1, <1>2

\* A result forwarded is that of a key and a request.
LEMMA ForwardType ==
  ASSUME TypeOK, NEW r \in Replicas, NEW j \in DOMAIN forward[r]
  PROVE  forward[r][j].sequence \in Keys /\ forward[r][j].request \in Requests
<1> DEFINE R == [sequence : Keys, request : Requests]
<1>1. forward[r] \in Seq(R)
  BY DEF TypeOK
<1>2. forward[r][j] \in R
  <2> HIDE DEF R
  <2>1. j \in 1..Len(forward[r])
    BY <1>1
  <2> QED BY <1>1, <2>1, ElementOfSeq
<1> QED BY <1>2

LEMMA InvInit == Init => IInv
<1> SUFFICES ASSUME Init PROVE IInv
  OBVIOUS
<1>1. TypeOK
  BY TypeInit
<1>2. PreprepareInv
  BY DEF Init, PreprepareInv
<1>3. PrepareInv /\ CommitInv
  BY DEF Init, PrepareInv, CommitInv
<1>4. ExecuteInv /\ ExecuteOnce
  BY DEF Init, ExecuteInv, ExecuteOnce
<1> QED BY <1>1, <1>2, <1>3, <1>4 DEF IInv

LEMMA InvPropose ==
  ASSUME IInv, TypeOK', NEW q \in Requests, Propose(q)
  PROVE  IInv'
<1> USE DEF IInv
<1>1. Sequence \in Nat /\ Sequence' = Sequence + 1
  BY DEF Propose, TypeOK
<1>2. \A k \in Keys, p \in Requests :
        Preprepare(k, p) \in msgs' <=> 
          Preprepare(k, p) \in msgs \/ (k = Sequence + 1 /\ p = q)
  BY MessagesDiffer DEF Propose
<1>3. PreprepareInv'
  <2>1. \A k \in Keys, p \in Requests : Preprepare(k, p) \in msgs' => k <= Sequence'
    BY <1>1, <1>2 DEF PreprepareInv, Keys
  <2>2. \A k \in 1..Sequence' : \E p \in Requests : Preprepare(k, p) \in msgs'
    BY <1>1 DEF PreprepareInv, Propose
  <2>3. \A k \in Keys, q1, q2 \in Requests :
          Preprepare(k, q1) \in msgs' /\ Preprepare(k, q2) \in msgs' => q1 = q2
    BY <1>1, <1>2 DEF PreprepareInv, Keys
  <2>4. receivedPreprepares' = receivedPreprepares /\ msgs \subseteq msgs'
    BY DEF Propose, maps
  <2> QED BY <2>1, <2>2, <2>3, <2>4 DEF PreprepareInv
<1>4. PrepareInv' /\ CommitInv'
  BY MessagesDiffer DEF Propose, maps, PrepareInv, CommitInv
<1>5. ExecuteInv' /\ ExecuteOnce'
  BY DEF Propose, maps, ExecuteInv, ExecuteOnce
<1> QED BY <1>3, <1>4, <1>5

LEMMA InvPreprepare ==
  ASSUME IInv, TypeOK', NEW r \in Replicas, NEW k \in Keys, NEW q \in Requests,
         HandlePreprepare(r, k, q)
  PROVE  IInv'
<1> USE DEF IInv
<1>1. /\ msgs' = msgs \cup {Prepare(k, r)}
      /\ \A s \in Replicas, l \in Keys :
           receivedPreprepares'[s][l] =
             IF s = r /\ l = k THEN q ELSE receivedPreprepares[s][l]
  BY DEF HandlePreprepare, TypeOK
<1>2. q # None
  BY RequestsAssumption
<1>3. PreprepareInv'
  <2>1. \A l \in Keys, p \in Requests :
          Preprepare(l, p) \in msgs' <=> Preprepare(l, p) \in msgs
    BY <1>1, MessagesDiffer
  <2>2. \A s \in Replicas, l \in Keys :
          receivedPreprepares'[s][l] # None =>
            Preprepare(l, receivedPreprepares'[s][l]) \in msgs'
    BY <1>1 DEF PreprepareInv, HandlePreprepare
  <2>3. Sequence' = Sequence /\ msgs \subseteq msgs'
    BY <1>1 DEF HandlePreprepare
  <2> QED BY <2>1, <2>2, <2>3 DEF PreprepareInv
<1>4. PrepareInv'
  BY <1>1, <1>2, MessagesDiffer DEF PrepareInv, HandlePreprepare
<1>5. CommitInv'
  BY <1>1, MessagesDiffer DEF CommitInv, HandlePreprepare
<1>6. ExecuteInv'
  <2> SUFFICES ASSUME NEW s \in Replicas, NEW j \in DOMAIN forward[s]
               PROVE  LET l == forward[s][j].sequence IN
                      /\ Cardinality(receivedCommits[s][l]) >= Required
                      /\ receivedPreprepares'[s][l] = forward[s][j].request
    BY DEF HandlePreprepare, ExecuteInv
  <2> DEFINE l == forward[s][j].sequence
  <2>1. l \in Keys /\ forward[s][j].request \in Requests
    BY ForwardType
  <2>2. /\ Cardinality(receivedCommits[s][l]) >= Required
        /\ receivedPreprepares[s][l] = forward[s][j].request
    BY DEF ExecuteInv
  <2>3. receivedPreprepares[s][l] # None
    BY <2>1, <2>2, RequestsAssumption
  <2>4. ~(s = r /\ l = k)
    BY <2>3 DEF HandlePreprepare
  <2> QED BY <1>1, <2>1, <2>2, <2>4
<1>7. ExecuteOnce'
  BY DEF HandlePreprepare, ExecuteOnce
<1> QED BY <1>3, <1>4, <1>5, <1>6, <1>7

LEMMA InvPrepare ==
  ASSUME IInv, TypeOK', NEW r \in Replicas, NEW k \in Keys, NEW i \in Replicas,
         HandlePrepare(r, k, i)
  PROVE  IInv'
<1> USE DEF IInv
<1> DEFINE now == receivedPrepares[r][k] \cup {i}
<1>1. /\ UNCHANGED <<Sequence, receivedPreprepares, receivedCommits, forward>>
      /\ Prepare(k, i) \in msgs
      /\ msgs' = IF Cardinality(now) = Required THEN msgs \cup {Commit(k, r)} ELSE msgs
      /\ \A s \in Replicas, l \in Keys :
           receivedPrepares'[s][l] = IF s = r /\ l = k THEN now ELSE receivedPrepares[s][l]
  BY DEF HandlePrepare, HandlePrepareAt, TypeOK
<1>2. /\ \A l \in Keys, p \in Requests : Preprepare(l, p) \in msgs' <=> Preprepare(l, p) \in msgs
      /\ \A l \in Keys, s \in Replicas : Prepare(l, s) \in msgs' <=> Prepare(l, s) \in msgs
      /\ \A l \in Keys, s \in Replicas :
           Commit(l, s) \in msgs' =>
             Commit(l, s) \in msgs \/ (l = k /\ s = r /\ Cardinality(now) = Required)
      /\ msgs \subseteq msgs'
  BY <1>1, MessagesDiffer
<1>3. PreprepareInv'
  BY <1>1, <1>2 DEF PreprepareInv, TypeOK
<1>4. PrepareInv'
  <2>1. ASSUME NEW s \in Replicas, NEW l \in Keys, NEW j \in receivedPrepares'[s][l]
        PROVE  Prepare(l, j) \in msgs'
    <3>1. CASE s = r /\ l = k /\ j = i
      BY <1>1, <1>2, <3>1
    <3>2. CASE j \in receivedPrepares[s][l]
      BY <1>2, <3>2 DEF PrepareInv
    <3> QED BY <1>1, <2>1, <3>1, <3>2
  <2>2. ASSUME NEW s \in Replicas, NEW l \in Keys, Prepare(l, s) \in msgs'
        PROVE  receivedPreprepares'[s][l] # None
    BY <1>1, <1>2, <2>2 DEF PrepareInv
  <2> QED BY <2>1, <2>2 DEF PrepareInv
<1>5. CommitInv'
  <2>1. receivedPrepares[r][k] \in SUBSET Replicas
    BY DEF TypeOK
  <2>2. /\ Cardinality(now) \in Nat
        /\ Cardinality(receivedPrepares[r][k]) \in Nat
        /\ Cardinality(now) >= Cardinality(receivedPrepares[r][k])
    BY <2>1, GrowingSet
  <2>3. ASSUME NEW s \in Replicas, NEW l \in Keys, Commit(l, s) \in msgs'
        PROVE  Cardinality(receivedPrepares'[s][l]) >= Required
    <3>0. Commit(l, s) \in msgs \/ (l = k /\ s = r /\ Cardinality(now) = Required)
      BY <1>2, <2>3
    <3>1. CASE s = r /\ l = k
      <4>1. CASE Commit(k, r) \in msgs
        <5>1. Cardinality(receivedPrepares[r][k]) >= Required
          BY <4>1 DEF CommitInv
        <5>2. Cardinality(now) >= Required
          BY <2>2, <5>1, RequiredPositive
        <5> QED BY <1>1, <3>1, <5>2
      <4>2. CASE Cardinality(now) = Required
        <5>1. Cardinality(now) >= Required
          BY <4>2, RequiredPositive
        <5> QED BY <1>1, <3>1, <5>1
      <4> QED BY <3>0, <3>1, <4>1, <4>2
    <3>2. CASE ~(s = r /\ l = k)
      <4>1. Commit(l, s) \in msgs
        BY <3>0, <3>2
      <4> QED BY <1>1, <3>2, <4>1 DEF CommitInv
    <3> QED BY <3>1, <3>2
  <2> QED BY <1>1, <1>2, <2>3 DEF CommitInv
<1>6. ExecuteInv' /\ ExecuteOnce'
  BY <1>1 DEF ExecuteInv, ExecuteOnce
<1> QED BY <1>3, <1>4, <1>5, <1>6

\* Append adds its element behind the others.
LEMMA AppendedAt ==
  ASSUME NEW S, NEW s \in Seq(S), NEW e \in S
  PROVE  /\ DOMAIN Append(s, e) = DOMAIN s \cup {Len(s) + 1}
         /\ Len(s) + 1 \notin DOMAIN s
         /\ Append(s, e)[Len(s) + 1] = e
         /\ \A j \in DOMAIN s : Append(s, e)[j] = s[j]
OBVIOUS

LEMMA InvCommit ==
  ASSUME IInv, TypeOK', NEW r \in Replicas, NEW k \in Keys, NEW i \in Replicas,
         HandleCommit(r, k, i)
  PROVE  IInv'
<1> USE DEF IInv
<1> DEFINE now == receivedCommits[r][k] \cup {i}
           q == receivedPreprepares[r][k]
<1>1. /\ UNCHANGED <<Sequence, msgs, receivedPreprepares, receivedPrepares>>
      /\ Commit(k, i) \in msgs
      /\ i \notin receivedCommits[r][k]
      /\ \A s \in Replicas, l \in Keys :
           receivedCommits'[s][l] = IF s = r /\ l = k THEN now ELSE receivedCommits[s][l]
  BY DEF HandleCommit, TypeOK
<1>2. PreprepareInv' /\ PrepareInv'
  BY <1>1 DEF PreprepareInv, PrepareInv
<1>3. CommitInv'
  BY <1>1 DEF CommitInv
<1>4. receivedCommits[r][k] \in SUBSET Replicas
  BY DEF TypeOK
<1>5. /\ Cardinality(now) \in Nat
      /\ Cardinality(receivedCommits[r][k]) \in Nat
      /\ Cardinality(now) = Cardinality(receivedCommits[r][k]) + 1
  BY <1>1, <1>4, GrowingSet
<1>6. \A s \in Replicas : \A j \in DOMAIN forward[s] :
        /\ forward[s][j].sequence \in Keys
        /\ Cardinality(receivedCommits'[s][forward[s][j].sequence]) >= Required
        /\ receivedPreprepares'[s][forward[s][j].sequence] = forward[s][j].request
  <2> SUFFICES ASSUME NEW s \in Replicas, NEW j \in DOMAIN forward[s]
               PROVE  LET l == forward[s][j].sequence IN
                      /\ l \in Keys
                      /\ Cardinality(receivedCommits'[s][l]) >= Required
                      /\ receivedPreprepares'[s][l] = forward[s][j].request
    OBVIOUS
  <2> DEFINE l == forward[s][j].sequence
  <2>1. l \in Keys
    BY ForwardType
  <2>2. /\ Cardinality(receivedCommits[s][l]) >= Required
        /\ receivedPreprepares[s][l] = forward[s][j].request
    BY DEF ExecuteInv
  <2>3. CASE s = r /\ l = k
    <3>1. Cardinality(now) >= Required
      BY <1>5, <2>2, <2>3, RequiredPositive
    <3> QED BY <1>1, <2>1, <2>2, <2>3, <3>1
  <2>4. CASE ~(s = r /\ l = k)
    BY <1>1, <2>1, <2>2, <2>4
  <2> QED BY <2>3, <2>4
<1>7. CASE UNCHANGED forward
  BY <1>2, <1>3, <1>6, <1>7 DEF ExecuteInv, ExecuteOnce
<1>8. CASE Cardinality(now) = Required /\ execute(r, k) /\ q # None
  <2>1. q \in Requests /\ Result(k, q) \in [sequence : Keys, request : Requests]
    BY <1>8 DEF TypeOK, Result
  <2>2. /\ forward' = [forward EXCEPT ![r] = Append(@, Result(k, q))]
        /\ forward[r] \in Seq([sequence : Keys, request : Requests])
    BY <1>8 DEF execute, TypeOK
  <2> DEFINE n == Len(forward[r]) + 1
  <2>3. /\ DOMAIN forward'[r] = DOMAIN forward[r] \cup {n}
        /\ n \notin DOMAIN forward[r]
        /\ forward'[r][n] = Result(k, q)
        /\ \A j \in DOMAIN forward[r] : forward'[r][j] = forward[r][j]
        /\ \A s \in Replicas \ {r} : forward'[s] = forward[s]
    <3>1. forward'[r] = Append(forward[r], Result(k, q))
      BY <2>2 DEF TypeOK
    <3>2. \A s \in Replicas \ {r} : forward'[s] = forward[s]
      BY <2>2 DEF TypeOK
    <3> QED BY <2>1, <2>2, <3>1, <3>2, AppendedAt
  <2>4. \A j \in DOMAIN forward[r] : forward[r][j].sequence # k
    BY <1>5, <1>8, RequiredPositive DEF ExecuteInv
  <2>5. ExecuteInv'
    <3>1. /\ Cardinality(receivedCommits'[r][k]) >= Required
          /\ receivedPreprepares'[r][k] = q
      BY <1>1, <1>8, RequiredPositive
    <3>2. Result(k, q).sequence = k /\ Result(k, q).request = q
      BY DEF Result
    <3>3. ASSUME NEW s \in Replicas, NEW j \in DOMAIN forward'[s]
          PROVE  /\ Cardinality(receivedCommits'[s][forward'[s][j].sequence]) >= Required
                 /\ receivedPreprepares'[s][forward'[s][j].sequence] = forward'[s][j].request
      <4>1. CASE s = r /\ j = n
        BY <2>3, <3>1, <3>2, <4>1
      <4>2. CASE s # r \/ j # n
        BY <1>6, <2>3, <3>3, <4>2
      <4> QED BY <4>1, <4>2
    <3> QED BY <3>3 DEF ExecuteInv
  <2>6. ExecuteOnce'
    <3>1. \A j \in DOMAIN forward[r] : forward'[r][j].sequence # forward'[r][n].sequence
      BY <2>3, <2>4 DEF Result
    <3>2. ASSUME NEW j1 \in DOMAIN forward'[r], NEW j2 \in DOMAIN forward'[r],
                 forward'[r][j1].sequence = forward'[r][j2].sequence
          PROVE  j1 = j2
      BY <2>3, <3>1, <3>2 DEF ExecuteOnce
    <3> QED BY <2>3, <3>2 DEF ExecuteOnce
  <2> QED BY <1>2, <1>3, <2>5, <2>6
<1>9. QED
  BY <1>7, <1>8 DEF HandleCommit, execute

LEMMA InvNext == IInv /\ [Next]_vars => IInv'
<1> SUFFICES ASSUME IInv, [Next]_vars PROVE IInv'
  OBVIOUS
<1>1. TypeOK'
  BY TypeNext DEF IInv
<1>2. CASE UNCHANGED vars
  BY <1>1, <1>2 DEF vars, maps, IInv, PreprepareInv, PrepareInv, CommitInv, ExecuteInv,
                    ExecuteOnce
<1>3. CASE Next
  BY <1>1, <1>3, InvPropose, InvPreprepare, InvPrepare, InvCommit DEF Next, Handle
<1> QED BY <1>2, <1>3

\* The inductive invariant holds in every reachable state.
LEMMA InvCorrect == Spec => []IInv
<1> QED BY InvInit, InvNext, PTL DEF Spec

-----------------------------------------------------------------------------

\* A commit in flight means that a quorum has accepted its key.
LEMMA CommitBacked ==
  ASSUME IInv, NEW k \in Keys, NEW i \in Replicas, Commit(k, i) \in msgs
  PROVE  /\ IsFiniteSet(Accepted(k))
         /\ Cardinality(Accepted(k)) \in Nat
         /\ Cardinality(Accepted(k)) >= Required
<1>1. receivedPrepares[i][k] \subseteq Accepted(k)
  BY DEF IInv, TypeOK, PrepareInv, Accepted
<1>2. IsFiniteSet(Accepted(k))
  BY ReplicasAssumption, FS_Subset DEF Accepted
<1>3. /\ Cardinality(receivedPrepares[i][k]) \in Nat
      /\ Cardinality(Accepted(k)) \in Nat
      /\ Cardinality(receivedPrepares[i][k]) <= Cardinality(Accepted(k))
  BY <1>1, <1>2, FS_Subset, FS_CardinalityType
<1>4. Cardinality(receivedPrepares[i][k]) >= Required
  BY DEF IInv, CommitInv
<1> QED BY <1>2, <1>3, <1>4, RequiredPositive

\* A quorum of commits at a replica is one of commits sent.
LEMMA QuorumBacked ==
  ASSUME IInv, NEW r \in Replicas, NEW k \in Keys,
         Cardinality(receivedCommits[r][k]) >= Required
  PROVE  /\ Cardinality({i \in Replicas : Commit(k, i) \in msgs}) >= Required
         /\ \E i \in Replicas : Commit(k, i) \in msgs
<1> DEFINE got == receivedCommits[r][k]
           sent == {i \in Replicas : Commit(k, i) \in msgs}
<1>1. got \subseteq sent
  BY DEF IInv, TypeOK, CommitInv
<1>2. IsFiniteSet(sent)
  BY ReplicasAssumption, FS_Subset
<1>3. /\ Cardinality(got) \in Nat
      /\ Cardinality(sent) \in Nat
      /\ Cardinality(got) <= Cardinality(sent)
  BY <1>1, <1>2, FS_Subset, FS_CardinalityType
<1>4. Cardinality(sent) >= Required
  BY <1>3, RequiredPositive
<1>5. sent # {}
  BY <1>4, RequiredPositive, FS_EmptySet
<1> QED BY <1>4, <1>5

LEMMA QuorumStep == IInv => QuorumBehindExecution
<1> SUFFICES ASSUME IInv, NEW r \in Replicas, NEW k \in Keys,
                    k \in Executed(r) \/ DiedOn(r, k)
             PROVE  /\ Cardinality({i \in Replicas : Commit(k, i) \in msgs}) >= Required
                    /\ Cardinality(Accepted(k)) >= Required
  BY DEF QuorumBehindExecution
<1>1. Cardinality(receivedCommits[r][k]) >= Required
  BY DEF IInv, ExecuteInv, Executed, DiedOn
<1> QED BY <1>1, QuorumBacked, CommitBacked

\* No execution without a quorum of commits and one of acceptances, however
\* early HandlePrepare and HandleCommit count what they get.
THEOREM ExecutionBacked == Spec => []QuorumBehindExecution
<1> QED BY InvCorrect, QuorumStep, PTL

\* The equality test of HandleCommit lets a key through once per replica.
THEOREM ExecutedOnce == Spec => []ExecuteOnce
<1>1. IInv => ExecuteOnce
  BY DEF IInv
<1> QED BY <1>1, InvCorrect, PTL

\* Replicas that execute a key execute the same request.
THEOREM ReplicasAgree == Spec => []Agreement
<1>1. IInv => Agreement
  <2> SUFFICES ASSUME IInv, NEW r1 \in Replicas, NEW r2 \in Replicas,
                      NEW i \in DOMAIN forward[r1], NEW j \in DOMAIN forward[r2],
                      forward[r1][i].sequence = forward[r2][j].sequence
               PROVE  forward[r1][i].request = forward[r2][j].request
    BY DEF Agreement
  <2> DEFINE k == forward[r1][i].sequence
  <2>1. /\ k \in Keys
        /\ forward[r1][i].request \in Requests
        /\ forward[r2][j].request \in Requests
    BY ForwardType DEF IInv
  <2>2. /\ receivedPreprepares[r1][k] = forward[r1][i].request
        /\ receivedPreprepares[r2][k] = forward[r2][j].request
    BY DEF IInv, ExecuteInv
  <2>3. /\ Preprepare(k, forward[r1][i].request) \in msgs
        /\ Preprepare(k, forward[r2][j].request) \in msgs
    BY <2>1, <2>2, RequestsAssumption DEF IInv, PreprepareInv
  <2> QED BY <2>1, <2>3 DEF IInv, PreprepareInv
<1> QED BY <1>1, InvCorrect, PTL

\* The replicas that die of a key had not accepted it, and a quorum had.
THEOREM DeathsBounded == Spec => []FewDieOnAKey
<1>1. IInv => FewDieOnAKey
  <2> SUFFICES ASSUME IInv, NEW k \in Keys,
                      {r \in Replicas : DiedOn(r, k)} # {}
               PROVE  Cardinality({r \in Replicas : DiedOn(r, k)}) + Required
                        <= Cardinality(Replicas)
    BY DEF FewDieOnAKey
  <2> DEFINE dead == {r \in Replicas : DiedOn(r, k)}
  <2>1. /\ IsFiniteSet(Accepted(k))
        /\ Cardinality(Accepted(k)) \in Nat
        /\ Cardinality(Accepted(k)) >= Required
    BY QuorumBacked, CommitBacked DEF DiedOn
  <2>2. IsFiniteSet(dead) /\ Cardinality(dead) \in Nat
    BY ReplicasAssumption, FS_Subset, FS_CardinalityType
  <2>3. dead \cap Accepted(k) = {}
    BY DEF DiedOn, Accepted
  <2>4. dead \cup Accepted(k) \subseteq Replicas
    BY DEF Accepted
  <2>5. /\ Cardinality(dead \cup Accepted(k)) \in Nat
        /\ Cardinality(Replicas) \in Nat
        /\ Cardinality(dead \cup Accepted(k)) <= Cardinality(Replicas)
    BY <2>4, ReplicasAssumption, FS_Subset, FS_CardinalityType
  <2>6. Cardinality(dead \cup Accepted(k))
          = Cardinality(dead) + Cardinality(Accepted(k)) - Cardinality(dead \cap Accepted(k))
    <3> HIDE DEF dead
    <3> QED BY <2>1, <2>2, FS_Union
  <2>7. Cardinality(dead \cap Accepted(k)) = 0
    BY <2>3, FS_EmptySet
  <2> QED BY <2>1, <2>2, <2>5, <2>6, <2>7, RequiredPositive
<1> QED BY <1>1, InvCorrect, PTL

-----------------------------------------------------------------------------
(***************************************************************************)
(* PBFT implements ShardLog: a pre-prepare orders, its acceptance accepts, *)
(* a quorum of commits executes or stops, the rest stutters.               *)
(***************************************************************************)
logBar == [k \in 1..Sequence |-> RequestAt(k)]
acceptedBar == [r \in Replicas |-> {k \in Keys : receivedPreprepares[r][k] # None}]
executedBar == [r \in Replicas |-> [i \in DOMAIN forward[r] |-> forward[r][i].sequence]]

LEMMA LogInit == Init => Log!Init
<1> SUFFICES ASSUME Init PROVE Log!Init
  OBVIOUS
<1>1. logBar = <<>>
  BY DEF Init, logBar
<1>2. acceptedBar = [r \in Replicas |-> {}]
  BY DEF Init, acceptedBar
<1>3. executedBar = [r \in Replicas |-> <<>>]
  BY DEF Init, executedBar
<1> QED BY <1>1, <1>2, <1>3 DEF Log!Init, Init, logBar, acceptedBar, executedBar

\* The request under a number is the only one pre-prepared.
LEMMA RequestAtUnique ==
  ASSUME PreprepareInv, NEW k \in Keys, NEW q \in Requests, Preprepare(k, q) \in msgs
  PROVE  RequestAt(k) = q
BY DEF PreprepareInv, RequestAt

LEMMA LogPropose ==
  ASSUME IInv, IInv', NEW q \in Requests, Propose(q)
  PROVE  Log!Order(q)
<1>1. /\ Sequence \in Nat /\ Sequence' = Sequence + 1
      /\ 1..Sequence' = 1..Sequence \cup {Sequence'}
      /\ 1..Sequence' \subseteq Keys
  BY BoundAssumption DEF Propose, IInv, TypeOK, Keys
<1>2. \A k \in 1..Sequence : RequestAt(k)' = RequestAt(k)
  <2> TAKE k \in 1..Sequence
  <2>1. PICK p \in Requests : Preprepare(k, p) \in msgs
    BY DEF IInv, PreprepareInv
  <2>2. Preprepare(k, p) \in msgs'
    BY <2>1 DEF Propose
  <2>3. RequestAt(k) = p
    BY <1>1, <2>1, RequestAtUnique DEF IInv
  <2>4. RequestAt(k)' = p
    BY <1>1, <2>2 DEF IInv, PreprepareInv, RequestAt
  <2> QED BY <2>3, <2>4
<1>3. (RequestAt(Sequence))' = q
  <2>1. Preprepare(Sequence', q) \in msgs' /\ Sequence' \in Keys
    BY <1>1 DEF Propose
  <2> QED BY <2>1 DEF IInv, PreprepareInv, RequestAt
<1>4. logBar' = Append(logBar, q)
  BY <1>1, <1>2, <1>3 DEF logBar
<1> QED BY <1>4 DEF Log!Order, Propose, maps, logBar

LEMMA LogUnchanged ==
  ASSUME UNCHANGED Sequence, IInv,
         \A k \in Keys, q \in Requests : Preprepare(k, q) \in msgs' <=> Preprepare(k, q) \in msgs
  PROVE  logBar' = logBar
<1>1. \A k \in Keys : RequestAt(k)' = RequestAt(k)
  BY DEF RequestAt
<1>2. 1..Sequence \subseteq Keys
  BY BoundAssumption DEF IInv, TypeOK, Keys
<1> QED BY <1>1, <1>2 DEF logBar

LEMMA LogPreprepare ==
  ASSUME IInv, IInv', NEW r \in Replicas, NEW k \in Keys, NEW q \in Requests,
         HandlePreprepare(r, k, q)
  PROVE  Log!Accept(r, k) /\ k \in 1..Len(logBar)
<1>1. logBar' = logBar
  <2>1. \A l \in Keys, p \in Requests :
          Preprepare(l, p) \in msgs' <=> Preprepare(l, p) \in msgs
    BY MessagesDiffer DEF HandlePreprepare
  <2> QED BY <2>1, LogUnchanged DEF HandlePreprepare
<1>2. k \in 1..Len(logBar)
  BY BoundAssumption DEF IInv, TypeOK, PreprepareInv, HandlePreprepare, logBar, Keys
<1>3. q # None
  BY RequestsAssumption
<1>4. \A s \in Replicas, l \in Keys :
        receivedPreprepares'[s][l] =
          IF s = r /\ l = k THEN q ELSE receivedPreprepares[s][l]
  BY DEF HandlePreprepare, IInv, TypeOK
<1>5. acceptedBar' = [acceptedBar EXCEPT ![r] = @ \cup {k}]
  <2>1. \A s \in Replicas :
          acceptedBar'[s] = IF s = r THEN acceptedBar[s] \cup {k} ELSE acceptedBar[s]
    BY <1>3, <1>4 DEF acceptedBar
  <2> QED BY <2>1 DEF acceptedBar
<1>6. k \notin acceptedBar[r]
  BY DEF acceptedBar, HandlePreprepare
<1> QED
  BY <1>1, <1>2, <1>5, <1>6
  DEF Log!Accept, HandlePreprepare, Hears, logBar, acceptedBar, executedBar

LEMMA LogPrepare ==
  ASSUME IInv, IInv', NEW r \in Replicas, NEW k \in Keys, NEW i \in Replicas,
         HandlePrepare(r, k, i)
  PROVE  UNCHANGED Log!vars
<1>1. \A l \in Keys, p \in Requests :
        Preprepare(l, p) \in msgs' <=> Preprepare(l, p) \in msgs
  BY MessagesDiffer DEF HandlePrepare, HandlePrepareAt
<1>2. logBar' = logBar
  BY <1>1, LogUnchanged DEF HandlePrepare, HandlePrepareAt
<1> QED
  BY <1>2 DEF Log!vars, HandlePrepare, HandlePrepareAt, logBar

LEMMA LogCommit ==
  ASSUME IInv, IInv', NEW r \in Replicas, NEW k \in Keys, NEW i \in Replicas,
         HandleCommit(r, k, i)
  PROVE  Log!Next \/ UNCHANGED Log!vars
<1> DEFINE now == receivedCommits[r][k] \cup {i}
           q == receivedPreprepares[r][k]
<1>1. /\ UNCHANGED <<Sequence, msgs, receivedPreprepares>>
      /\ r \notin panicked
      /\ Commit(k, i) \in msgs
  BY DEF HandleCommit, Hears
<1>2. logBar' = logBar
  BY <1>1, LogUnchanged
<1>3. acceptedBar' = acceptedBar
  BY <1>1 DEF acceptedBar
<1>4. Log!Decided(k)
  <2>1. Accepted(k) \in Quorums
    BY <1>1, CommitBacked DEF Accepted, Quorums
  <2>2. \A s \in Accepted(k) : k \in acceptedBar[s]
    BY DEF acceptedBar, Accepted
  <2> QED BY <2>1, <2>2 DEF Log!Decided, acceptedBar
<1>5. k \in 1..Len(logBar)
  <2>1. Accepted(k) # {}
    BY <1>1, CommitBacked, RequiredPositive, FS_EmptySet
  <2>2. PICK s \in Replicas : receivedPreprepares[s][k] # None
    BY <2>1 DEF Accepted
  <2>3. receivedPreprepares[s][k] \in Requests
    BY <2>2 DEF IInv, TypeOK
  <2>4. k <= Sequence
    BY <2>2, <2>3 DEF IInv, PreprepareInv
  <2> QED BY <2>4, BoundAssumption DEF IInv, TypeOK, logBar, Keys
<1>6. CASE UNCHANGED <<forward, panicked>>
  BY <1>2, <1>3, <1>6 DEF Log!vars, logBar, acceptedBar, executedBar
<1>7. CASE Cardinality(now) = Required /\ execute(r, k) /\ q = None
  <2>1. k \notin acceptedBar[r]
    BY <1>7 DEF acceptedBar
  <2>2. executedBar' = executedBar /\ panicked' = panicked \cup {r}
    BY <1>7 DEF execute, executedBar
  <2>3. Log!Stop(r, k)
    BY <1>1, <1>2, <1>3, <1>4, <2>1, <2>2
    DEF Log!Stop, logBar, acceptedBar, executedBar
  <2> QED BY <1>5, <2>3 DEF Log!Next, logBar
<1>8. CASE Cardinality(now) = Required /\ execute(r, k) /\ q # None
  <2>1. k \in acceptedBar[r]
    BY <1>8 DEF acceptedBar
  <2>2. k \notin Log!Elements(executedBar[r])
    <3>1. /\ i \notin receivedCommits[r][k]
          /\ receivedCommits[r][k] \in SUBSET Replicas
      BY DEF HandleCommit, IInv, TypeOK
    <3>2. Cardinality(receivedCommits[r][k]) < Required
      BY <1>8, <3>1, GrowingSet, RequiredPositive
    <3>3. Cardinality(receivedCommits[r][k]) \in Nat
      BY <3>1, GrowingSet
    <3>4. \A j \in DOMAIN forward[r] : forward[r][j].sequence # k
      BY <3>2, <3>3, RequiredPositive DEF IInv, ExecuteInv
    <3> QED BY <3>4 DEF Log!Elements, executedBar
  <2>3. forward' = [forward EXCEPT ![r] = Append(@, Result(k, q))] /\ panicked' = panicked
    BY <1>8 DEF execute
  <2>4. executedBar' = [executedBar EXCEPT ![r] = Append(@, k)]
    <3>0. q \in Requests
      BY <1>8 DEF IInv, TypeOK
    <3>1. /\ forward[r] \in Seq([sequence : Keys, request : Requests])
          /\ Result(k, q) \in [sequence : Keys, request : Requests]
          /\ Result(k, q).sequence = k
      <4>1. Result(k, q) \in [sequence : Keys, request : Requests]
        BY <3>0 DEF Result
      <4>2. forward[r] \in Seq([sequence : Keys, request : Requests])
        BY DEF IInv, TypeOK
      <4> QED BY <4>1, <4>2 DEF Result
    <3>2. /\ forward'[r] = Append(forward[r], Result(k, q))
          /\ \A s \in Replicas \ {r} : forward'[s] = forward[s]
      BY <2>3 DEF IInv, TypeOK
    <3> DEFINE seqs == [j \in DOMAIN forward[r] |-> forward[r][j].sequence]
    <3>3. [j \in DOMAIN forward'[r] |-> forward'[r][j].sequence] = Append(seqs, k)
      BY <3>1, <3>2
    <3>4. \A s \in Replicas :
            executedBar'[s] = IF s = r THEN Append(executedBar[s], k) ELSE executedBar[s]
      BY <3>2, <3>3 DEF executedBar
    <3> QED BY <3>4 DEF executedBar
  <2>5. Log!Execute(r, k)
    BY <1>1, <1>2, <1>3, <1>4, <2>1, <2>2, <2>3, <2>4
    DEF Log!Execute, logBar, acceptedBar, executedBar
  <2> QED BY <1>5, <2>5 DEF Log!Next, logBar
<1> QED BY <1>6, <1>7, <1>8 DEF HandleCommit, execute

LEMMA LogNext == IInv /\ IInv' /\ [Next]_vars => [Log!Next]_(Log!vars)
<1> SUFFICES ASSUME IInv, IInv', [Next]_vars PROVE [Log!Next]_(Log!vars)
  OBVIOUS
<1>1. CASE UNCHANGED vars
  BY <1>1 DEF vars, maps, Log!vars, RequestAt
<1>2. ASSUME NEW q \in Requests, Propose(q) PROVE Log!Next
  BY <1>2, LogPropose DEF Log!Next
<1>3. ASSUME NEW r \in Replicas, NEW k \in Keys, NEW q \in Requests, HandlePreprepare(r, k, q)
      PROVE  Log!Next
  BY <1>3, LogPreprepare DEF Log!Next, logBar
<1> QED BY <1>1, <1>2, <1>3, LogPrepare, LogCommit DEF Next, Handle

\* Every behaviour of consensus is one of the abstract log.
THEOREM ImplementsLog == Spec => LogSpec
<1> QED BY LogInit, LogNext, InvCorrect, PTL DEF Spec, Log!Spec, LogSpec


-----------------------------------------------------------------------------
(***************************************************************************)
(* Convergence: a balance is a sum over the keys executed, in the order of *)
(* the keys, whatever the order in which they were executed.               *)
(***************************************************************************)

\* What a request does to the balance of a target.
Effect(q, t) == Apply([u \in Targets |-> 0], q)[t]

LEMMA ApplyAdds ==
  ASSUME NEW db \in [Targets -> Int], NEW q \in Requests, NEW t \in Targets
  PROVE  Effect(q, t) \in Int /\ Apply(db, q)[t] = db[t] + Effect(q, t)
<1>1. q.amount \in Int /\ q.target \in Targets
  BY RequestsAssumption DEF Targets
<1>2. CASE q.operation = "Add"
  BY <1>1, <1>2 DEF Apply, Effect
<1>3. CASE q.operation = "Sub"
  BY <1>1, <1>3 DEF Apply, Effect
<1>4. CASE q.operation # "Add" /\ q.operation # "Sub"
  BY <1>1, <1>4 DEF Apply, Effect
<1> QED BY <1>2, <1>3, <1>4

\* g[j] is the part of the balance of t that the keys up to j make.
SumsUp(g, r, t) ==
  /\ g[0] = 0
  /\ \A j \in Keys :
       g[j] = g[j - 1] + (IF j \in Executed(r) THEN Effect(receivedPreprepares[r][j], t) ELSE 0)
  /\ stateDB[r][t] = g[MaxSequence]

Ledger ==
  \A r \in Replicas, t \in Targets : \E g \in [0..MaxSequence -> Int] : SumsUp(g, r, t)

LEMMA ExecutedAccepted ==
  ASSUME IInv, NEW r \in Replicas, NEW k \in Executed(r)
  PROVE  /\ k \in Keys /\ receivedPreprepares[r][k] \in Requests
         /\ Preprepare(k, receivedPreprepares[r][k]) \in msgs
         /\ Cardinality(receivedCommits[r][k]) >= Required
<1>1. PICK j \in DOMAIN forward[r] : k = forward[r][j].sequence
  BY DEF Executed
<1>2. k \in Keys /\ forward[r][j].request \in Requests
  BY <1>1, ForwardType DEF IInv
<1>3. /\ receivedPreprepares[r][k] = forward[r][j].request
      /\ Cardinality(receivedCommits[r][k]) >= Required
  BY <1>1 DEF IInv, ExecuteInv
<1> QED BY <1>2, <1>3, RequestsAssumption DEF IInv, PreprepareInv

LEMMA LedgerInit == Init => Ledger
<1> SUFFICES ASSUME Init, NEW r \in Replicas, NEW t \in Targets
             PROVE  \E g \in [0..MaxSequence -> Int] : SumsUp(g, r, t)
  BY DEF Ledger
<1> DEFINE g == [j \in 0..MaxSequence |-> 0]
<1>1. Executed(r) = {} /\ stateDB[r][t] = 0
  BY DEF Init, Executed
<1>2. g \in [0..MaxSequence -> Int] /\ SumsUp(g, r, t)
  BY <1>1, BoundAssumption DEF SumsUp, Keys
<1> QED BY <1>2

\* A step that executes nothing at r leaves its sums.
LEMMA LedgerKept ==
  ASSUME NEW r \in Replicas, NEW t \in Targets, NEW g, SumsUp(g, r, t),
         Executed(r)' = Executed(r), stateDB'[r] = stateDB[r],
         \A j \in Executed(r) : receivedPreprepares'[r][j] = receivedPreprepares[r][j]
  PROVE  SumsUp(g, r, t)'
BY DEF SumsUp

LEMMA LedgerExecute ==
  ASSUME IInv, NEW r \in Replicas, NEW t \in Targets,
         NEW g \in [0..MaxSequence -> Int], SumsUp(g, r, t),
         NEW k \in Keys, k \notin Executed(r), receivedPreprepares[r][k] \in Requests,
         receivedPreprepares' = receivedPreprepares,
         \A j : j \in Executed(r)' <=> j \in Executed(r) \/ j = k,
         stateDB'[r] = Apply(stateDB[r], receivedPreprepares[r][k])
  PROVE  \E f \in [0..MaxSequence -> Int] : SumsUp(f, r, t)'
<1> DEFINE q == receivedPreprepares[r][k]
           db == stateDB[r]
<1>0. MaxSequence \in Nat /\ k \in Nat /\ k >= 1 /\ k <= MaxSequence
  BY BoundAssumption DEF Keys
<1>q. q \in Requests /\ db \in [Targets -> Int] /\ stateDB'[r] = Apply(db, q)
  BY DEF IInv, TypeOK
<1> HIDE DEF q, db
<1>d. PICK d \in Int : d = Effect(q, t) /\ Apply(db, q)[t] = db[t] + d
  BY <1>q, ApplyAdds
<1>1. d = Effect(receivedPreprepares[r][k], t) /\ stateDB'[r][t] = stateDB[r][t] + d
  BY <1>q, <1>d DEF q, db
<1>f. PICK f \in [0..MaxSequence -> Int] :
        \A j \in 0..MaxSequence : f[j] = IF j >= k THEN g[j] + d ELSE g[j]
  <2> DEFINE h == [j \in 0..MaxSequence |-> IF j >= k THEN g[j] + d ELSE g[j]]
  <2>1. h \in [0..MaxSequence -> Int]
    BY <1>0
  <2> QED BY <2>1
<1>3. f[0] = 0 /\ stateDB'[r][t] = f[MaxSequence]
  BY <1>0, <1>1, <1>f DEF SumsUp
<1>4. ASSUME NEW j \in Keys
      PROVE  f[j] = f[j - 1]
                      + (IF j \in Executed(r)' THEN Effect(receivedPreprepares'[r][j], t) ELSE 0)
  <2> DEFINE e == IF j \in Executed(r) THEN Effect(receivedPreprepares[r][j], t) ELSE 0
  <2>1. j \in 0..MaxSequence /\ j - 1 \in 0..MaxSequence /\ g[j] \in Int /\ g[j - 1] \in Int
    BY <1>0 DEF Keys
  <2>2. g[j] = g[j - 1] + e
    BY DEF SumsUp
  <2>3. e \in Int
    <3>1. CASE j \in Executed(r)
      <4> DEFINE p == receivedPreprepares[r][j]
      <4>1. p \in Requests
        BY <3>1, ExecutedAccepted
      <4> HIDE DEF p
      <4>2. Effect(p, t) \in Int
        BY <1>q, <4>1, ApplyAdds
      <4> QED BY <3>1, <4>2 DEF p
    <3>2. CASE j \notin Executed(r)
      BY <3>2
    <3> QED BY <3>1, <3>2
  <2> HIDE DEF e
  <2>4. CASE j < k
    <3>1. f[j] = g[j] /\ f[j - 1] = g[j - 1]
      BY <1>0, <1>f, <2>1, <2>4
    <3> QED BY <1>0, <2>2, <2>4, <3>1 DEF e
  <2>5. CASE j = k
    <3>1. f[j] = g[j] + d /\ f[j - 1] = g[j - 1] /\ e = 0
      BY <1>0, <1>f, <2>1, <2>5 DEF e
    <3> QED BY <1>1, <2>1, <2>2, <2>5, <3>1
  <2>6. CASE j > k
    <3>1. f[j] = g[j] + d /\ f[j - 1] = g[j - 1] + d
      BY <1>0, <1>f, <2>1, <2>6
    <3>2. f[j] = f[j - 1] + e
      BY <1>1, <2>1, <2>2, <2>3, <3>1
    <3> QED BY <1>0, <2>6, <3>2 DEF e
  <2> QED BY <1>0, <2>1, <2>4, <2>5, <2>6
<1>5. SumsUp(f, r, t)'
  BY <1>3, <1>4 DEF SumsUp
<1> QED BY <1>5

LEMMA LedgerNext == IInv /\ Ledger /\ [Next]_vars => Ledger'
<1> SUFFICES ASSUME IInv, Ledger, [Next]_vars, NEW r \in Replicas, NEW t \in Targets
             PROVE  \E g \in [0..MaxSequence -> Int] : SumsUp(g, r, t)'
  BY DEF Ledger
<1>1. PICK g \in [0..MaxSequence -> Int] : SumsUp(g, r, t)
  BY DEF Ledger
<1>2. ASSUME UNCHANGED <<stateDB, forward, receivedPreprepares>>
      PROVE  \E f \in [0..MaxSequence -> Int] : SumsUp(f, r, t)'
  BY <1>1, <1>2, LedgerKept DEF Executed
<1>3. ASSUME NEW s \in Replicas, NEW k \in Keys, NEW q \in Requests, HandlePreprepare(s, k, q)
      PROVE  \E f \in [0..MaxSequence -> Int] : SumsUp(f, r, t)'
  <2>1. UNCHANGED <<stateDB, forward>> /\ receivedPreprepares[s][k] = None
    BY <1>3 DEF HandlePreprepare
  <2>2. \A j \in Executed(r) : j \in Keys /\ receivedPreprepares[r][j] # None
    BY ExecutedAccepted, RequestsAssumption
  <2>3. \A j \in Executed(r) : receivedPreprepares'[r][j] = receivedPreprepares[r][j]
    BY <1>3, <2>1, <2>2 DEF HandlePreprepare, IInv, TypeOK
  <2> QED BY <1>1, <2>1, <2>3, LedgerKept DEF Executed
<1>4. ASSUME NEW s \in Replicas, NEW k \in Keys, NEW i \in Replicas, HandleCommit(s, k, i)
      PROVE  \E f \in [0..MaxSequence -> Int] : SumsUp(f, r, t)'
  <2> DEFINE q == receivedPreprepares[s][k]
             now == receivedCommits[s][k] \cup {i}
  <2>1. UNCHANGED receivedPreprepares /\ i \notin receivedCommits[s][k]
    BY <1>4 DEF HandleCommit
  <2>2. CASE UNCHANGED <<stateDB, forward>>
    BY <1>2, <2>1, <2>2
  <2>3. CASE /\ Cardinality(now) = Required
             /\ q # None
             /\ stateDB' = [stateDB EXCEPT ![s] = Apply(@, q)]
             /\ forward' = [forward EXCEPT ![s] = Append(@, Result(k, q))]
    <3>1. q \in Requests /\ Result(k, q) \in [sequence : Keys, request : Requests]
      BY <2>3 DEF IInv, TypeOK, Result
    <3>2. k \notin Executed(s)
      <4>1. receivedCommits[s][k] \in SUBSET Replicas
        BY DEF IInv, TypeOK
      <4>2. /\ Cardinality(now) = Cardinality(receivedCommits[s][k]) + 1
            /\ Cardinality(receivedCommits[s][k]) \in Nat
        BY <2>1, <4>1, GrowingSet
      <4>3. ~(Cardinality(receivedCommits[s][k]) >= Required)
        BY <2>3, <4>2, RequiredPositive
      <4> QED BY <4>3, ExecutedAccepted
    <3>3. /\ \A u \in Replicas : u # s => stateDB'[u] = stateDB[u] /\ forward'[u] = forward[u]
          /\ stateDB'[s] = Apply(stateDB[s], q)
          /\ forward'[s] = Append(forward[s], Result(k, q))
      BY <2>3 DEF IInv, TypeOK
    <3>4. CASE r # s
      BY <1>1, <2>1, <3>3, <3>4, LedgerKept DEF Executed
    <3>5. CASE r = s
      <4>1. forward[r] \in Seq([sequence : Keys, request : Requests])
        BY DEF IInv, TypeOK
      <4>2. /\ DOMAIN forward'[r] = DOMAIN forward[r] \cup {Len(forward[r]) + 1}
            /\ forward'[r][Len(forward[r]) + 1] = Result(k, q)
            /\ \A j \in DOMAIN forward[r] : forward'[r][j] = forward[r][j]
            /\ Len(forward[r]) + 1 \notin DOMAIN forward[r]
        BY <3>1, <3>3, <3>5, <4>1, AppendedAt
      <4>3. \A j : j \in Executed(r)' <=> j \in Executed(r) \/ j = k
        <5>1. Result(k, q).sequence = k
          BY DEF Result
        <5>2. \A j : j \in Executed(r)' <=> \E h \in DOMAIN forward'[r] : j = forward'[r][h].sequence
          BY DEF Executed
        <5>3. \A j : j \in Executed(r) <=> \E h \in DOMAIN forward[r] : j = forward[r][h].sequence
          BY DEF Executed
        <5> QED BY <4>2, <5>1, <5>2, <5>3
      <4>4. k \notin Executed(r) /\ receivedPreprepares[r][k] \in Requests
            /\ stateDB'[r] = Apply(stateDB[r], receivedPreprepares[r][k])
        BY <3>1, <3>2, <3>3, <3>5
      <4> QED BY <1>1, <2>1, <4>3, <4>4, LedgerExecute
    <3> QED BY <3>4, <3>5
  <2> QED BY <1>4, <2>2, <2>3 DEF HandleCommit, execute
<1>5. CASE UNCHANGED vars
  BY <1>2, <1>5 DEF vars, maps
<1>6. ASSUME NEW q \in Requests, Propose(q)
      PROVE  \E f \in [0..MaxSequence -> Int] : SumsUp(f, r, t)'
  BY <1>2, <1>6 DEF Propose, maps
<1>7. ASSUME NEW s \in Replicas, NEW k \in Keys, NEW i \in Replicas, HandlePrepare(s, k, i)
      PROVE  \E f \in [0..MaxSequence -> Int] : SumsUp(f, r, t)'
  BY <1>2, <1>7 DEF HandlePrepare, HandlePrepareAt
<1> QED BY <1>3, <1>4, <1>5, <1>6, <1>7 DEF Next, Handle

\* Equal sums: there is no first key up to which they differ.
LEMMA SumsAgree ==
  ASSUME IInv, Ledger, NEW r1 \in Replicas, NEW r2 \in Replicas, NEW t \in Targets,
         \A k : k \in Executed(r1) <=> k \in Executed(r2)
  PROVE  stateDB[r1][t] = stateDB[r2][t]
<1>g. PICK g \in [0..MaxSequence -> Int] : SumsUp(g, r1, t)
  BY DEF Ledger
<1>f. PICK f \in [0..MaxSequence -> Int] : SumsUp(f, r2, t)
  BY DEF Ledger
<1>0. MaxSequence \in Nat
  BY BoundAssumption
<1>1. \A k \in Executed(r1) : receivedPreprepares[r1][k] = receivedPreprepares[r2][k]
  BY ExecutedAccepted DEF IInv, PreprepareInv
<1> DEFINE D == {j \in 0..MaxSequence : g[j] # f[j]}
<1>2. SUFFICES ASSUME D # {} PROVE FALSE
  BY <1>0, <1>f, <1>g DEF SumsUp
<1>3. \E m \in D : \A y \in D : ~(y < m)
  <2>1. D \in SUBSET Nat
    BY <1>0
  <2> HIDE DEF D
  <2>2. \E m \in D : \A y \in D : ~(<<y, m>> \in OpToRel(<, Nat))
    BY <1>2, <2>1, NatLessThanWellFounded, WFMin
  <2>3. PICK m \in D : \A y \in D : ~(<<y, m>> \in OpToRel(<, Nat))
    BY <2>2
  <2>4. \A y \in D : ~(y < m)
    BY <2>1, <2>3 DEF OpToRel
  <2> QED BY <2>4
<1>4. PICK m \in D : \A y \in D : ~(y < m)
  BY <1>3
<1>5. m # 0
  BY <1>4, <1>f, <1>g DEF SumsUp
<1>6. m \in Keys /\ m - 1 \in 0..MaxSequence /\ m - 1 < m
  BY <1>0, <1>4, <1>5 DEF Keys
<1>7. g[m - 1] = f[m - 1]
  BY <1>4, <1>6
<1>8. g[m] = f[m]
  BY <1>1, <1>6, <1>7, <1>f, <1>g DEF SumsUp
<1> QED BY <1>4, <1>8

\* Replicas that have executed the same keys hold the same balances, in whatever
\* order the commits of the keys came to HandleCommit.
THEOREM BalancesConverge == Spec => []Convergence
<1>1. IInv /\ Ledger => Convergence
  <2> SUFFICES ASSUME IInv, Ledger, NEW r1 \in Replicas, NEW r2 \in Replicas,
                      Executed(r1) = Executed(r2)
               PROVE  stateDB[r1] = stateDB[r2]
    BY DEF Convergence
  <2>0. \A k : k \in Executed(r1) <=> k \in Executed(r2)
    OBVIOUS
  <2>1. \A t \in Targets : stateDB[r1][t] = stateDB[r2][t]
    BY <2>0, SumsAgree
  <2> QED BY <2>1 DEF IInv, TypeOK
<1> QED BY <1>1, LedgerInit, LedgerNext, InvCorrect, PTL DEF Spec

-----------------------------------------------------------------------------
(***************************************************************************)
(* Consensus at rest.  Each step of a replica is answered: an acceptance   *)
(* by its prepare, a quorum of prepares by its commit, a quorum of commits *)
(* by an execution or by its death.                                        *)
(***************************************************************************)

Answered ==
  \A r \in Replicas, k \in Keys :
    /\ receivedPreprepares[r][k] # None => Prepare(k, r) \in msgs
    /\ Cardinality(receivedPrepares[r][k]) >= Required => Commit(k, r) \in msgs
    /\ Cardinality(receivedCommits[r][k]) >= Required => k \in Executed(r) \/ r \in panicked

LEMMA AnsweredInit == Init => Answered
<1> SUFFICES ASSUME Init PROVE Answered
  OBVIOUS
<1>1. Cardinality({}) = 0
  BY FS_EmptySet
<1> QED BY <1>1, RequiredPositive DEF Init, Answered

\* What a replica has counted to the required number after one more.
LEMMA CountedUp ==
  ASSUME NEW S \in SUBSET Replicas, NEW i \in Replicas, i \notin S,
         Cardinality(S \cup {i}) >= Required
  PROVE  Cardinality(S \cup {i}) = Required \/ Cardinality(S) >= Required
<1>1. Cardinality(S) \in Nat /\ Cardinality(S \cup {i}) = Cardinality(S) + 1
  BY GrowingSet
<1> QED BY <1>1, RequiredPositive

LEMMA AnsweredNext == IInv /\ Answered /\ [Next]_vars => Answered'
<1> SUFFICES ASSUME IInv, Answered, [Next]_vars PROVE Answered'
  OBVIOUS
<1> USE DEF IInv
<1>1. ASSUME NEW q \in Requests, Propose(q) PROVE Answered'
  BY <1>1 DEF Propose, maps, Answered, Executed
<1>2. ASSUME NEW r \in Replicas, NEW k \in Keys, NEW q \in Requests,
             HandlePreprepare(r, k, q)
      PROVE  Answered'
  <2>1. /\ msgs' = msgs \cup {Prepare(k, r)}
        /\ UNCHANGED <<receivedPrepares, receivedCommits, forward, panicked>>
        /\ \A s \in Replicas, l \in Keys :
             receivedPreprepares'[s][l] =
               IF s = r /\ l = k THEN q ELSE receivedPreprepares[s][l]
    BY <1>2 DEF HandlePreprepare, TypeOK
  <2>2. ASSUME NEW s \in Replicas, NEW l \in Keys, receivedPreprepares'[s][l] # None
        PROVE  Prepare(l, s) \in msgs'
    <3>1. CASE s = r /\ l = k
      BY <2>1, <3>1
    <3>2. CASE ~(s = r /\ l = k)
      BY <2>1, <2>2, <3>2 DEF Answered
    <3> QED BY <3>1, <3>2
  <2>3. ASSUME NEW s \in Replicas, NEW l \in Keys
        PROVE  /\ Cardinality(receivedPrepares'[s][l]) >= Required => Commit(l, s) \in msgs'
               /\ Cardinality(receivedCommits'[s][l]) >= Required =>
                    l \in Executed(s)' \/ s \in panicked'
    <3>1. Executed(s)' = Executed(s)
      BY <2>1 DEF Executed
    <3> QED BY <2>1, <3>1 DEF Answered
  <2> QED BY <2>1, <2>2, <2>3 DEF Answered
<1>3. ASSUME NEW r \in Replicas, NEW k \in Keys, NEW i \in Replicas,
             HandlePrepare(r, k, i)
      PROVE  Answered'
  <2> DEFINE now == receivedPrepares[r][k] \cup {i}
  <2>1. /\ UNCHANGED <<receivedPreprepares, receivedCommits, forward, panicked>>
        /\ i \notin receivedPrepares[r][k]
        /\ msgs' = IF Cardinality(now) = Required THEN msgs \cup {Commit(k, r)} ELSE msgs
        /\ \A s \in Replicas, l \in Keys :
             receivedPrepares'[s][l] = IF s = r /\ l = k THEN now ELSE receivedPrepares[s][l]
    BY <1>3 DEF HandlePrepare, HandlePrepareAt, TypeOK
  <2>2. receivedPrepares[r][k] \in SUBSET Replicas
    BY DEF TypeOK
  <2>3. ASSUME NEW s \in Replicas, NEW l \in Keys,
               Cardinality(receivedPrepares'[s][l]) >= Required
        PROVE  Commit(l, s) \in msgs'
    <3>1. CASE s = r /\ l = k
      <4>1. Cardinality(now) = Required \/ Cardinality(receivedPrepares[r][k]) >= Required
        BY <2>1, <2>2, <2>3, <3>1, CountedUp
      <4> QED BY <2>1, <3>1, <4>1 DEF Answered
    <3>2. CASE ~(s = r /\ l = k)
      BY <2>1, <2>3, <3>2 DEF Answered
    <3> QED BY <3>1, <3>2
  <2>4. \A s \in Replicas : Executed(s)' = Executed(s)
    BY <2>1 DEF Executed
  <2> QED BY <2>1, <2>3, <2>4 DEF Answered
<1>4. ASSUME NEW r \in Replicas, NEW k \in Keys, NEW i \in Replicas,
             HandleCommit(r, k, i)
      PROVE  Answered'
  <2> DEFINE now == receivedCommits[r][k] \cup {i}
             q == receivedPreprepares[r][k]
  <2>1. /\ UNCHANGED <<msgs, receivedPreprepares, receivedPrepares>>
        /\ i \notin receivedCommits[r][k]
        /\ \A s \in Replicas, l \in Keys :
             receivedCommits'[s][l] = IF s = r /\ l = k THEN now ELSE receivedCommits[s][l]
    BY <1>4 DEF HandleCommit, TypeOK
  <2>2. receivedCommits[r][k] \in SUBSET Replicas
    BY DEF TypeOK
  <2>3. /\ \A s \in Replicas, l \in Keys : l \in Executed(s) => l \in Executed(s)'
        /\ panicked \subseteq panicked'
        /\ Cardinality(now) = Required => k \in Executed(r)' \/ r \in panicked'
    <3>1. CASE execute(r, k) /\ q = None
      <4>1. forward' = forward /\ panicked' = panicked \cup {r}
        BY <3>1 DEF execute
      <4> QED BY <4>1 DEF Executed
    <3>2. CASE execute(r, k) /\ q # None
      <4>1. q \in Requests
        BY <3>2 DEF TypeOK
      <4>2. /\ panicked' = panicked
            /\ \A s \in Replicas :
                 forward'[s] = IF s = r THEN Append(forward[r], Result(k, q)) ELSE forward[s]
        BY <3>2 DEF execute, TypeOK
      <4>3. /\ DOMAIN Append(forward[r], Result(k, q)) = DOMAIN forward[r] \cup {Len(forward[r]) + 1}
            /\ Append(forward[r], Result(k, q))[Len(forward[r]) + 1] = Result(k, q)
            /\ \A j \in DOMAIN forward[r] :
                 Append(forward[r], Result(k, q))[j] = forward[r][j]
        <5>1. Result(k, q) \in [sequence : Keys, request : Requests]
          BY <4>1 DEF Result
        <5> QED BY <5>1, AppendedAt DEF TypeOK
      <4>4. k \in Executed(r)'
        <5>1. Len(forward[r]) + 1 \in DOMAIN forward'[r]
          BY <4>2, <4>3
        <5>2. forward'[r][Len(forward[r]) + 1] = Result(k, q)
          BY <4>2, <4>3
        <5>3. Result(k, q).sequence = k
          BY DEF Result
        <5> QED BY <5>1, <5>2, <5>3 DEF Executed
      <4>5. \A s \in Replicas, l \in Keys : l \in Executed(s) => l \in Executed(s)'
        BY <4>2, <4>3 DEF Executed
      <4> QED BY <4>2, <4>4, <4>5
    <3>3. CASE Cardinality(now) # Required /\ UNCHANGED <<stateDB, forward, panicked>>
      BY <3>3 DEF Executed
    <3> QED BY <1>4, <3>1, <3>2, <3>3 DEF HandleCommit
  <2>4. ASSUME NEW s \in Replicas, NEW l \in Keys,
               Cardinality(receivedCommits'[s][l]) >= Required
        PROVE  l \in Executed(s)' \/ s \in panicked'
    <3>1. CASE s = r /\ l = k
      <4>1. Cardinality(now) = Required \/ Cardinality(receivedCommits[r][k]) >= Required
        BY <2>1, <2>2, <2>4, <3>1, CountedUp
      <4> QED BY <2>3, <3>1, <4>1 DEF Answered
    <3>2. CASE ~(s = r /\ l = k)
      <4>1. Cardinality(receivedCommits[s][l]) >= Required
        BY <2>1, <2>4, <3>2
      <4> QED BY <2>3, <4>1 DEF Answered
    <3> QED BY <3>1, <3>2
  <2> QED BY <2>1, <2>4 DEF Answered
<1>5. CASE UNCHANGED vars
  BY <1>5 DEF vars, maps, Answered, Executed
<1>6. QED BY <1>1, <1>2, <1>3, <1>4, <1>5 DEF Next, Handle

\* What Sender and Handled say of the three kinds of messages.
LEMMA SentAndHandled ==
  ASSUME NEW r \in Replicas, NEW k \in Keys
  PROVE  /\ \A q \in Requests :
              /\ Sender(Preprepare(k, q)) = Primary
              /\ Handled(r, Preprepare(k, q)) <=> receivedPreprepares[r][k] # None
         /\ \A i \in Replicas :
              /\ Sender(Prepare(k, i)) = i
              /\ Handled(r, Prepare(k, i)) <=> i \in receivedPrepares[r][k]
              /\ Sender(Commit(k, i)) = i
              /\ Handled(r, Commit(k, i)) <=> i \in receivedCommits[r][k]
BY DEF Sender, Handled, Preprepare, Prepare, Commit

\* At rest the prepares and commits of a replica that is not impaired have been
\* counted by every replica that lives.
LEMMA HeardByAll ==
  ASSUME NEW k \in Keys, NEW g \in Replicas \ Impaired(k),
         NEW r \in Replicas \ panicked, Waiting(r) = {}
  PROVE  /\ Prepare(k, g) \in msgs => g \in receivedPrepares[r][k]
         /\ Commit(k, g) \in msgs => g \in receivedCommits[r][k]
<1>1. /\ g \notin {Sender(m) : m \in Confused(k)}
      /\ \A s \in Replicas \ {g} : <<g, s>> \in Links
  BY DEF Impaired
<1>2. Hears(r, g)
  BY <1>1 DEF Hears
<1>3. /\ Sender(Prepare(k, g)) = g /\ Sender(Commit(k, g)) = g
      /\ Prepare(k, g).sequence = k /\ Commit(k, g).sequence = k
  BY SentAndHandled DEF Prepare, Commit
<1>4. Prepare(k, g) \notin UNION same /\ Commit(k, g) \notin UNION same
  BY <1>1, <1>3 DEF Confused
<1>5. ~Ignores(r, Prepare(k, g)) /\ ~Ignores(r, Commit(k, g))
  BY <1>4 DEF Ignores
<1> QED BY <1>2, <1>3, <1>5, SentAndHandled DEF Waiting

\* At rest a replica that is not impaired has accepted the key.
LEMMA AcceptedByAll ==
  ASSUME IInv, NEW k \in 1..Sequence, NEW g \in Replicas \ Impaired(k), Waiting(g) = {}
  PROVE  receivedPreprepares[g][k] # None
<1>0. k \in Keys
  BY BoundAssumption DEF IInv, TypeOK, Keys
<1>1. /\ g \notin panicked
      /\ g # Primary => <<Primary, g>> \in Links
      /\ \A m \in Confused(k) : m.type # "PREPREPARE"
  BY DEF Impaired
<1>2. PICK q \in Requests : Preprepare(k, q) \in msgs
  BY DEF IInv, PreprepareInv
<1>3. Sender(Preprepare(k, q)) = Primary
  BY <1>0, SentAndHandled
<1>4. Hears(g, Sender(Preprepare(k, q)))
  BY <1>1, <1>3 DEF Hears
<1>5. Preprepare(k, q) \notin UNION same
  BY <1>1 DEF Confused, Preprepare
<1>6. ~Ignores(g, Preprepare(k, q))
  BY <1>5 DEF Ignores
<1>7. Handled(g, Preprepare(k, q))
  BY <1>2, <1>4, <1>6 DEF Waiting
<1> QED BY <1>0, <1>7, SentAndHandled

LEMMA RestStep == IInv /\ Answered => SettledAtRest
<1> SUFFICES ASSUME IInv, Answered,
                    \A r \in Replicas : Waiting(r) = {},
                    NEW k \in 1..Sequence, ~TooFew(k),
                    NEW r \in Replicas, r \notin panicked
             PROVE  k \in Executed(r)
  BY DEF SettledAtRest, Settled
<1> DEFINE G == Replicas \ Impaired(k)
<1>0. k \in Keys
  BY BoundAssumption DEF IInv, TypeOK, Keys
<1>1. Cardinality(G) \in Nat /\ Cardinality(G) >= Required
  <2>1. Cardinality(G) \in Nat
    BY ReplicasAssumption, FS_Subset, FS_CardinalityType
  <2> QED BY <2>1, RequiredPositive DEF TooFew
<1>2. ASSUME NEW S \in SUBSET Replicas, G \subseteq S
      PROVE  Cardinality(S) >= Required
  <2>1. IsFiniteSet(S)
    BY ReplicasAssumption, FS_Subset
  <2>2. Cardinality(S) \in Nat /\ Cardinality(G) <= Cardinality(S)
    BY <1>2, <2>1, FS_Subset, FS_CardinalityType
  <2> QED BY <1>1, <2>2, RequiredPositive
<1>3. ASSUME NEW g \in G PROVE Prepare(k, g) \in msgs
  <2>1. receivedPreprepares[g][k] # None
    BY AcceptedByAll
  <2> QED BY <1>0, <2>1 DEF Answered
<1>4. ASSUME NEW s \in Replicas \ panicked PROVE Commit(k, s) \in msgs
  <2>1. G \subseteq receivedPrepares[s][k]
    BY <1>0, <1>3, HeardByAll
  <2>2. receivedPrepares[s][k] \in SUBSET Replicas
    BY <1>0 DEF IInv, TypeOK
  <2>3. Cardinality(receivedPrepares[s][k]) >= Required
    BY <1>2, <2>1, <2>2
  <2> QED BY <1>0, <2>3 DEF Answered
<1>5. G \cap panicked = {}
  BY DEF Impaired
<1>6. G \subseteq receivedCommits[r][k]
  BY <1>0, <1>4, <1>5, HeardByAll
<1>7. Cardinality(receivedCommits[r][k]) >= Required
  <2>1. receivedCommits[r][k] \in SUBSET Replicas
    BY <1>0 DEF IInv, TypeOK
  <2> QED BY <1>2, <1>6, <2>1
<1> QED BY <1>0, <1>7 DEF Answered

\* A replica that receives runs a handler of PBFT, and nothing else.
LEMMA DeliveredNext == TypeOK /\ NextDelivered => Next
<1> SUFFICES ASSUME TypeOK, NextDelivered PROVE Next
  OBVIOUS
<1>1. CASE Number
  BY <1>1 DEF Number, Next
<1>2. ASSUME NEW r \in Replicas, Deliver(r) PROVE Next
  <2>1. PICK m \in msgs : Receive(r, m)
    BY <1>2 DEF Deliver, Waiting
  <2>2. m \in Messages
    BY DEF TypeOK
  <2>3. ASSUME NEW k \in Keys, NEW q \in Requests, m = Preprepare(k, q) PROVE Handle(r)
    <3>1. m.type = "PREPREPARE" /\ m.sequence = k /\ m.request = q
      BY <2>3 DEF Preprepare
    <3> QED BY <2>1, <3>1 DEF Receive, Handle
  <2>4. ASSUME NEW k \in Keys, NEW i \in Replicas, m = Prepare(k, i) PROVE Handle(r)
    <3>1. m.type = "PREPARE" /\ m.sequence = k /\ m.id = i
      BY <2>4 DEF Prepare
    <3> QED BY <2>1, <3>1 DEF Receive, Handle
  <2>5. ASSUME NEW k \in Keys, NEW i \in Replicas, m = Commit(k, i) PROVE Handle(r)
    <3>1. m.type = "COMMIT" /\ m.sequence = k /\ m.id = i
      BY <2>5 DEF Commit
    <3> QED BY <2>1, <3>1 DEF Receive, Handle
  <2> QED BY <2>2, <2>3, <2>4, <2>5 DEF Messages, Next
<1> QED BY <1>1, <1>2 DEF NextDelivered

\* At rest every key is settled unless fewer than a quorum are left for it: in
\* every committee, over every set of links, whichever messages share an id and
\* in whatever order they reach their handlers.
THEOREM SettledWhenAtRest == DeliveredSpec => []SettledAtRest
<1>1. InitDelivered => IInv /\ Answered
  BY InvInit, AnsweredInit DEF InitDelivered
<1>2. IInv /\ Answered /\ [NextDelivered]_<<vars, same>> => IInv' /\ Answered'
  BY InvNext, AnsweredNext, DeliveredNext DEF IInv
<1>3. IInv /\ Answered => SettledAtRest
  BY RestStep
<1> QED BY <1>1, <1>2, <1>3, PTL DEF DeliveredSpec
=============================================================================
