--------------------------- MODULE MCPBFTDelivery ---------------------------
(* The instance of PBFTDelivery: the committee of main.go, with one request. *)
EXTENDS PBFTDelivery

CONSTANTS a, b, c, d

OneRequest == {[operation |-> "Sub", target |-> "Ana", amount |-> 4]}

AllLinks == Replicas \X Replicas

\* The prepare and the commit of a replica have the same MessageID.
Twins(r) == {{Prepare(1, r), Commit(1, r)}}
OneTwins == {{}} \cup {Twins(r) : r \in Replicas}

\* Phase by phase; in a phase a replica's messages one after the other.
Phases == <<"PREPREPARE", "PREPARE", "COMMIT">>
Committee == <<a, b, c, d>>
At(s, e) == CHOOSE n \in DOMAIN s : s[n] = e
InPhases ==
  [<<r, m>> \in Replicas \X Messages |->
     16 * At(Phases, m.type) + 4 * At(Committee, Sender(m)) + At(Committee, r)]
=============================================================================
