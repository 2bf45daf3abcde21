\* A message of x, who has not heard of z; channels are full from before, and the
\* bootstrap node's is closed under its handlers.
SPECIFICATION FairSpec
CONSTANTS
  None = None
  p = p
  x = x
  y = y
  z = z
  boot1 = boot1
  boot2 = boot2
  Nodes = {x, y, z, boot2}
  Runners = {x, y, z}
  Stoppable = {boot2}
  Lossy <- FromX
  ShardNum <- Shard
  Messages <- Single
  Contacts <- Kite
  InitialTTL = 2
  ChanelSize = 1
  Backlog = 1
INVARIANTS
  TypeOK
  NoneLeftOut
PROPERTY
  EveryoneHears
CHECK_DEADLOCK FALSE
