------------------------------ MODULE MCNodeLoop ------------------------------
(* Instances of NodeLoop: two requests at the primary of main.go's shards. *)
EXTENDS NodeLoop, TLC

CONSTANTS p, b, c, d, vote, commit

\* A vote, after which the next shard gets a message, and a commit.
Executed == [q \in Requests |-> IF q = vote THEN 1 ELSE 0]

\* The whole committee is there for the first key; one replica has died before
\* the second.
OneDies == [k \in Keys |-> IF k = 1 THEN Peers ELSE Peers \ {d}]
Permuted == Permutations(Peers \ {d})
=============================================================================
