\* One message of x in shard 2, where all know each other.
SPECIFICATION Spec
CONSTANTS
  None = None
  p = p
  x = x
  y = y
  z = z
  boot1 = boot1
  boot2 = boot2
  Nodes = {x, y, boot2}
  Runners = {x, y}
  Stoppable = {}
  Lossy <- NoCall
  ShardNum <- Shard
  Messages <- Single
  Contacts <- Mesh
  InitialTTL = 2
  ChanelSize = 1
  Backlog = 0
INVARIANTS
  NotOwnMessage
CHECK_DEADLOCK FALSE
