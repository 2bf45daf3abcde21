-------------------------------- MODULE PBFT --------------------------------
(***************************************************************************)
(* The consensus of one shard: the PBFT struct of consensus/pbft.go at     *)
(* every replica, and the messages between them.                           *)
(*                                                                         *)
(* A handler runs under the replica's mutex from entry to return, so it is *)
(* one action.  What it hands to `go n.Broadcast` or `go n.HandleX` runs   *)
(* later, on its own goroutine: the message joins msgs, and a later action *)
(* of its sender or of a replica it reaches handles it.  Messages arrive   *)
(* in any order (each copy travels on a goroutine and a connection of its  *)
(* own), any number of times (the network floods) or never.                *)
(*                                                                         *)
(* No code assigns View after NewPBFT, so it is 0 everywhere, the view     *)
(* tests of the handlers never reject, and the key "view-sequence" of the  *)
(* maps is the sequence.  The signature tests accept every message that a  *)
(* handler built.  Timestamps, keys and the text of messages are left out. *)
(***************************************************************************)
EXTENDS Integers, FiniteSets, Sequences

CONSTANTS
  Replicas,      \* the replicas of the shard
  Primary,       \* the one replica SetToPrimary was called on
  CommitteeNum,  \* the committee size (NewPBFT sets 4)
  Requests,      \* client requests: [operation, target, amount]
  Links,         \* <<s, r>>: what s broadcasts can reach r
  MaxSequence,   \* bound on the sequences the primary hands out
  None           \* no entry under a key

ASSUME ReplicasAssumption == IsFiniteSet(Replicas) /\ Primary \in Replicas
ASSUME CommitteeAssumption == CommitteeNum \in Nat \ {0}
ASSUME RequestsAssumption ==
  /\ None \notin Requests
  /\ \A q \in Requests : q.amount \in Int
ASSUME BoundAssumption == MaxSequence \in Nat

Keys == 1..MaxSequence
Targets == {q.target : q \in Requests}

\* f, the Byzantine replicas the committee is sized for, and the messages a
\* phase waits for.
F == (CommitteeNum - 1) \div 3
Required == 2 * F + 1

VARIABLES
  Sequence,             \* the primary's sequence counter
  msgs,                 \* every message broadcast so far
  receivedPreprepares,  \* per replica: the request accepted under a key
  receivedPrepares,     \* per replica and key: who sent a prepare
  receivedCommits,      \* per replica and key: who sent a commit
  stateDB,              \* per replica: the balance of every target
  forward,              \* per replica: results sent to the orchestration,
                        \*   each with the key it was executed under
  panicked              \* replicas whose process died in execute

maps == <<receivedPreprepares, receivedPrepares, receivedCommits>>
vars == <<Sequence, msgs, maps, stateDB, forward, panicked>>

-----------------------------------------------------------------------------

Preprepare(k, q) == [type |-> "PREPREPARE", sequence |-> k, request |-> q]
Prepare(k, i) == [type |-> "PREPARE", sequence |-> k, id |-> i]
Commit(k, i) == [type |-> "COMMIT", sequence |-> k, id |-> i]

Messages ==
  {Preprepare(k, q) : k \in Keys, q \in Requests}
    \cup {Prepare(k, i) : k \in Keys, i \in Replicas}
    \cup {Commit(k, i) : k \in Keys, i \in Replicas}

\* A live replica r gets what s sent: over a link, or its own message, which
\* a goroutine of the handler that built it passes to the next handler.
Hears(r, s) == r \notin panicked /\ (s = r \/ <<s, r>> \in Links)

Result(k, q) == [sequence |-> k, request |-> q]

\* The keys a replica has executed.
Executed(r) == {forward[r][i].sequence : i \in DOMAIN forward[r]}

Init ==
  /\ Sequence = 0
  /\ msgs = {}
  /\ receivedPreprepares = [r \in Replicas |-> [k \in Keys |-> None]]
  /\ receivedPrepares = [r \in Replicas |-> [k \in Keys |-> {}]]
  /\ receivedCommits = [r \in Replicas |-> [k \in Keys |-> {}]]
  /\ stateDB = [r \in Replicas |-> [t \in Targets |-> 0]]
  /\ forward = [r \in Replicas |-> <<>>]
  /\ panicked = {}

-----------------------------------------------------------------------------

\* Faulty: the number is taken before the increment.
ProposeBeforeIncrement(q) ==
  /\ Primary \notin panicked
  /\ Sequence < MaxSequence
  /\ Sequence' = Sequence + 1
  /\ msgs' = msgs \cup {Preprepare(Sequence, q)}
  /\ UNCHANGED <<maps, stateDB, forward, panicked>>

\* Faulty: the increment is forgotten.
ProposeNoIncrement(q) ==
  /\ Primary \notin panicked
  /\ Sequence < MaxSequence
  /\ msgs' = msgs \cup {Preprepare(Sequence + 1, q)}
  /\ UNCHANGED <<Sequence, maps, stateDB, forward, panicked>>

\* The primary numbers a request and pre-prepares it.
Propose(q) ==
  /\ Primary \notin panicked
  /\ Sequence < MaxSequence
  /\ Sequence' = Sequence + 1
  /\ msgs' = msgs \cup {Preprepare(Sequence + 1, q)}
  /\ UNCHANGED <<maps, stateDB, forward, panicked>>

\* The first pre-prepare under a key is kept and answered with a prepare.
HandlePreprepare(r, k, q) ==
  /\ Hears(r, Primary)
  /\ Preprepare(k, q) \in msgs
  /\ receivedPreprepares[r][k] = None
  /\ receivedPreprepares' = [receivedPreprepares EXCEPT ![r][k] = q]
  /\ msgs' = msgs \cup {Prepare(k, r)}
  /\ UNCHANGED <<Sequence, receivedPrepares, receivedCommits, stateDB, forward, panicked>>

\* A prepare counts once per sender, and the n-th sends the commit; others are
\* only stored.  Nothing asks whether r itself has the pre-prepare.
HandlePrepareAt(r, k, i, n) ==
  /\ Hears(r, i)
  /\ Prepare(k, i) \in msgs
  /\ i \notin receivedPrepares[r][k]
  /\ receivedPrepares' = [receivedPrepares EXCEPT ![r][k] = @ \cup {i}]
  /\ msgs' = IF Cardinality(receivedPrepares[r][k] \cup {i}) = n
               THEN msgs \cup {Commit(k, r)}
               ELSE msgs
  /\ UNCHANGED <<Sequence, receivedPreprepares, receivedCommits, stateDB, forward, panicked>>

\* Faulty: one prepare too few, or one too many.
HandlePrepareEarly(r, k, i) == HandlePrepareAt(r, k, i, Required - 1)
HandlePrepareLate(r, k, i) == HandlePrepareAt(r, k, i, Required + 1)

HandlePrepare(r, k, i) == HandlePrepareAt(r, k, i, Required)

\* Faulty: a request sets the balance.
Overwrite(db, q) == [db EXCEPT ![q.target] = q.amount]

\* The effect of a request; an operation that is neither Add nor Sub has none.
Apply(db, q) ==
  CASE q.operation = "Add" -> [db EXCEPT ![q.target] = @ + q.amount]
    [] q.operation = "Sub" -> [db EXCEPT ![q.target] = @ - q.amount]
    [] OTHER -> db

\* The process dies when the key has no pre-prepare.
execute(r, k) ==
  LET q == receivedPreprepares[r][k] IN
  IF q = None
    THEN /\ panicked' = panicked \cup {r}
         /\ UNCHANGED <<stateDB, forward>>
    ELSE /\ stateDB' = [stateDB EXCEPT ![r] = Apply(@, q)]
         /\ forward' = [forward EXCEPT ![r] = Append(@, Result(k, q))]
         /\ UNCHANGED panicked

\* Faulty: every commit from the required number on executes.
HandleCommitAtLeast(r, k, i) ==
  /\ Hears(r, i)
  /\ Commit(k, i) \in msgs
  /\ i \notin receivedCommits[r][k]
  /\ receivedCommits' = [receivedCommits EXCEPT ![r][k] = @ \cup {i}]
  /\ IF Cardinality(receivedCommits[r][k] \cup {i}) >= Required
       THEN execute(r, k)
       ELSE UNCHANGED <<stateDB, forward, panicked>>
  /\ UNCHANGED <<Sequence, msgs, receivedPreprepares, receivedPrepares>>

\* Faulty: without the pre-prepare the quorum does nothing, and it is not looked
\* at again when the pre-prepare comes.
HandleCommitPassedOver(r, k, i) ==
  /\ Hears(r, i)
  /\ Commit(k, i) \in msgs
  /\ i \notin receivedCommits[r][k]
  /\ receivedCommits' = [receivedCommits EXCEPT ![r][k] = @ \cup {i}]
  /\ IF /\ Cardinality(receivedCommits[r][k] \cup {i}) = Required
        /\ receivedPreprepares[r][k] # None
       THEN execute(r, k)
       ELSE UNCHANGED <<stateDB, forward, panicked>>
  /\ UNCHANGED <<Sequence, msgs, receivedPreprepares, receivedPrepares>>

\* A commit counts once per sender; the required number executes the key.
HandleCommit(r, k, i) ==
  /\ Hears(r, i)
  /\ Commit(k, i) \in msgs
  /\ i \notin receivedCommits[r][k]
  /\ receivedCommits' = [receivedCommits EXCEPT ![r][k] = @ \cup {i}]
  /\ IF Cardinality(receivedCommits[r][k] \cup {i}) = Required
       THEN execute(r, k)
       ELSE UNCHANGED <<stateDB, forward, panicked>>
  /\ UNCHANGED <<Sequence, msgs, receivedPreprepares, receivedPrepares>>

Handle(r) ==
  \E k \in Keys :
    \/ \E q \in Requests : HandlePreprepare(r, k, q)
    \/ \E i \in Replicas : HandlePrepare(r, k, i) \/ HandleCommit(r, k, i)

Next ==
  \/ \E q \in Requests : Propose(q)
  \/ \E r \in Replicas : Handle(r)

Spec == Init /\ [][Next]_vars

-----------------------------------------------------------------------------

\* Types: what a replica keeps under a key are requests and senders of the
\* shard, and a balance is a number after any order of executions.
TypeOK ==
  /\ Sequence \in 0..MaxSequence
  /\ msgs \subseteq Messages
  /\ receivedPreprepares \in [Replicas -> [Keys -> Requests \cup {None}]]
  /\ receivedPrepares \in [Replicas -> [Keys -> SUBSET Replicas]]
  /\ receivedCommits \in [Replicas -> [Keys -> SUBSET Replicas]]
  /\ stateDB \in [Replicas -> [Targets -> Int]]
  /\ forward \in [Replicas -> Seq([sequence : Keys, request : Requests])]
  /\ panicked \subseteq Replicas

\* The replicas that hold the pre-prepare of a key.
Accepted(k) == {r \in Replicas : receivedPreprepares[r][k] # None}

\* r died executing k.
DiedOn(r, k) ==
  /\ r \in panicked
  /\ receivedPreprepares[r][k] = None
  /\ Cardinality(receivedCommits[r][k]) >= Required

\* Execution rests on two quorums.  Whatever the order of arrival, a replica
\* runs execute for a key (and executes it or dies of it) only when the
\* required number of replicas has sent a commit for it, and the required
\* number has accepted its pre-prepare: the counts in HandlePrepare and
\* HandleCommit, of messages the replica may have got out of order, stand for
\* acceptances at other replicas.
QuorumBehindExecution ==
  \A r \in Replicas, k \in Keys :
    k \in Executed(r) \/ DiedOn(r, k) =>
      /\ Cardinality({i \in Replicas : Commit(k, i) \in msgs}) >= Required
      /\ Cardinality(Accepted(k)) >= Required

\* No key is executed twice at one replica, although its commits keep
\* arriving after the quorum: the equality test in HandleCommit fires once.
ExecuteOnce ==
  \A r \in Replicas : \A i, j \in DOMAIN forward[r] :
    forward[r][i].sequence = forward[r][j].sequence => i = j

\* Two replicas that execute the same key execute the same request, although
\* prepares and commits are counted by key alone and never compared.
Agreement ==
  \A r1, r2 \in Replicas :
    \A i \in DOMAIN forward[r1], j \in DOMAIN forward[r2] :
      forward[r1][i].sequence = forward[r2][j].sequence =>
        forward[r1][i].request = forward[r2][j].request

\* Replicas execute keys as their commits arrive, not in sequence order; still
\* two that have executed the same keys hold the same balances.
Convergence ==
  \A r1, r2 \in Replicas :
    Executed(r1) = Executed(r2) => stateDB[r1] = stateDB[r2]

\* The commits of one key kill only replicas outside a quorum: with
\* 3 F + 1 replicas, no more than F of them.
FewDieOnAKey ==
  \A k \in Keys :
    LET dead == {r \in Replicas : DiedOn(r, k)} IN
    dead # {} => Cardinality(dead) + Required <= Cardinality(Replicas)

\* The check at the head of execute: the key that reaches it has a
\* pre-prepare.
NoPanic == panicked = {}

\* Consensus is an implementation of the abstract log: a position is accepted
\* at a replica when the replica holds its pre-prepare.
Quorums == {Q \in SUBSET Replicas : Cardinality(Q) >= Required}

RequestAt(k) == CHOOSE q \in Requests : Preprepare(k, q) \in msgs

Log == INSTANCE ShardLog WITH
         log <- [k \in 1..Sequence |-> RequestAt(k)],
         accepted <- [r \in Replicas |-> {k \in Keys : receivedPreprepares[r][k] # None}],
         executed <- [r \in Replicas |-> [i \in DOMAIN forward[r] |-> forward[r][i].sequence]],
         stopped <- panicked

LogSpec == Log!Spec
=============================================================================
