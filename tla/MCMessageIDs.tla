----------------------------- MODULE MCMessageIDs -----------------------------
(* The instance of NodeLoop with numbers.                                  *)
EXTENDS MessageIDs

CONSTANTS p, b, c, vote, commit

\* A vote, after which the next shard gets a message, and a commit.
Executed == [q \in Requests |-> IF q = vote THEN 1 ELSE 0]

\* Nobody has died.
Everybody == [k \in Keys |-> Peers]
=============================================================================
