------------------------------ MODULE Transfer ------------------------------
(***************************************************************************)
(* What the orchestration promises a client: the votes of a shard request  *)
(* are executed one after the other, each once; its commits are executed   *)
(* each once, and only when every vote has been.  Nothing else is          *)
(* executed.  A shard request may stop half way.                           *)
(***************************************************************************)
EXTENDS Naturals, Sequences

CONSTANTS
  Requests,        \* the parts shard requests are made of
  ShardRequests    \* [votes, commits]: sequences of requests

VARIABLES
  count    \* how often each request has been executed

Done(s) == \A i \in DOMAIN s : count[s[i]] > 0

Execute(q) ==
  /\ count[q] = 0
  /\ count' = [count EXCEPT ![q] = 1]

Vote(x, i) ==
  /\ Done(SubSeq(x.votes, 1, i - 1))
  /\ Execute(x.votes[i])

Commit(x, i) ==
  /\ Done(x.votes)
  /\ Execute(x.commits[i])

Init == count = [q \in Requests |-> 0]

Next ==
  \E x \in ShardRequests :
    \/ \E i \in DOMAIN x.votes : Vote(x, i)
    \/ \E i \in DOMAIN x.commits : Commit(x, i)

Spec == Init /\ [][Next]_count
=============================================================================
