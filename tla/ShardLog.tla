------------------------------ MODULE ShardLog ------------------------------
(***************************************************************************)
(* What a shard promises the orchestration layer, whatever consensus does  *)
(* inside: requests are put in one log; every replica executes a position  *)
(* of the log at most once, holding its request, and only when a quorum of *)
(* replicas has accepted it.  Positions may be executed in any order.  A   *)
(* replica may stop for good when it finds a position decided that it has  *)
(* not accepted itself.                                                    *)
(***************************************************************************)
EXTENDS Naturals, Sequences

CONSTANTS
  Replicas,   \* the replicas of the shard
  Requests,   \* the requests clients send
  Quorums     \* the sets of replicas whose acceptance decides a position

VARIABLES
  log,        \* the requests, in the order they were given numbers
  accepted,   \* the positions each replica has accepted
  executed,   \* the positions each replica has executed, oldest first
  stopped     \* the replicas that have stopped

vars == <<log, accepted, executed, stopped>>

Elements(s) == {s[i] : i \in DOMAIN s}

\* A position is decided when every replica of a quorum has accepted it.
Decided(k) == \E Q \in Quorums : \A r \in Q : k \in accepted[r]

Init ==
  /\ log = <<>>
  /\ accepted = [r \in Replicas |-> {}]
  /\ executed = [r \in Replicas |-> <<>>]
  /\ stopped = {}

\* A request gets the next position of the log.
Order(q) ==
  /\ log' = Append(log, q)
  /\ UNCHANGED <<accepted, executed, stopped>>

Accept(r, k) ==
  /\ r \notin stopped
  /\ k \notin accepted[r]
  /\ accepted' = [accepted EXCEPT ![r] = @ \cup {k}]
  /\ UNCHANGED <<log, executed, stopped>>

Execute(r, k) ==
  /\ r \notin stopped
  /\ k \in accepted[r]
  /\ k \notin Elements(executed[r])
  /\ Decided(k)
  /\ executed' = [executed EXCEPT ![r] = Append(@, k)]
  /\ UNCHANGED <<log, accepted, stopped>>

Stop(r, k) ==
  /\ r \notin stopped
  /\ k \notin accepted[r]
  /\ Decided(k)
  /\ stopped' = stopped \cup {r}
  /\ UNCHANGED <<log, accepted, executed>>

Next ==
  \/ \E q \in Requests : Order(q)
  \/ \E r \in Replicas, k \in 1..Len(log) :
       Accept(r, k) \/ Execute(r, k) \/ Stop(r, k)

Spec == Init /\ [][Next]_vars
=============================================================================
