------------------------------- MODULE MCFlood -------------------------------
(* Instances of Flood: shards 1 and 2, who knows whom, and messages.       *)
EXTENDS Flood

CONSTANTS p, x, y, z, boot1, boot2

Consensus(n, s, i, k) ==
  [sender |-> n, dataType |-> "consensus", targetShard |-> s, number |-> i, kind |-> k]
ToShard(n, s, k) ==
  [sender |-> n, dataType |-> "shard", targetShard |-> s, number |-> "", kind |-> k]

\* Shard 1 is p and its bootstrap node; shard 2 is x, y, z and theirs.
Shard == [n \in Nodes |-> IF n \in {p, boot1} THEN 1 ELSE 2]

\* Every join was complete.
Mesh == [n \in Nodes |-> Members(ShardNum[n]) \ {n}]

\* z joined last, and failed at x, after the bootstrap node and y: x has not
\* heard of z, which hears from x over y or over the bootstrap node.
Kite == [Mesh EXCEPT ![x] = @ \ {z}]

\* A prepare and a commit that were numbered alike.
Twins(n) == {Consensus(n, 2, "x-0", "PREPARE"), Consensus(n, 2, "x-0", "COMMIT")}
Single == {Consensus(x, 2, "x-0", "PREPARE")}
Orchestrated == {ToShard(p, 2, "vote"), ToShard(p, 2, "commit")}
Mixed ==
  Orchestrated \cup Twins(x) \cup {ToShard(x, 2, "vote"), Consensus(p, 1, "p-0", "PREPARE")}

\* Calls that may fail.
NoCall == {}
FromX == {<<x, y>>}
=============================================================================
