\* Consensus in both shards, two messages of x under one id; p sends two shard
\* messages to shard 2 meanwhile, and x joins its own shard again.
SPECIFICATION Spec
CONSTANTS
  None = None
  p = p
  x = x
  y = y
  z = z
  boot1 = boot1
  boot2 = boot2
  Nodes = {p, boot1, x, boot2}
  Runners = {p, x}
  Stoppable = {}
  Lossy <- NoCall
  ShardNum <- Shard
  Messages <- Mixed
  Contacts <- Mesh
  InitialTTL = 1
  ChanelSize = 1
  Backlog = 0
INVARIANTS
  ShardsApart
  TablesThere
  PutOnce
  MarksBacked
CHECK_DEADLOCK FALSE
