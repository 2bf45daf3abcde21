\* The shard request of main.go, another over two of its shards, and one that names
\* an account of no shard.
SPECIFICATION FairSpec
CONSTANTS
  Shards = {1, 2, 3}
  ShardRequests <- Crossing
  None = None
INVARIANTS
  TypeOK
  HomeShard
  OneVoteAtATime
PROPERTIES
  TransferSpec
  EventuallyCommitted
CHECK_DEADLOCK FALSE
