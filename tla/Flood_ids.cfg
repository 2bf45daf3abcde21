\* p of shard 1 sends two shard messages to shard 2.
SPECIFICATION Spec
CONSTANTS
  None = None
  p = p
  x = x
  y = y
  z = z
  boot1 = boot1
  boot2 = boot2
  Nodes = {p, boot1, x, y, boot2}
  Runners = {p, x, y}
  Stoppable = {}
  Lossy <- NoCall
  ShardNum <- Shard
  Messages <- Orchestrated
  Contacts <- Mesh
  InitialTTL = 1
  ChanelSize = 1
  Backlog = 0
INVARIANTS
  SeenMeansReceived
CHECK_DEADLOCK FALSE
