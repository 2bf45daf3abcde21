\* Two requests: all replicas answer the first, one has died before the second.  A
\* channel holds just as much as RoomAssumption asks.
SPECIFICATION Spec
CONSTANTS
  None = None
  p = p
  b = b
  c = c
  d = d
  vote = vote
  commit = commit
  Self = p
  Peers = {b, c, d}
  Heard <- OneDies
  Required = 3
  Requests = {vote, commit}
  FromMain = {vote}
  Fanout <- Executed
  MaxFanout = 1
  ChanelSize = 3
INVARIANTS
  TypeOK
  NeverStuck
  AnsweredAtRest
CHECK_DEADLOCK FALSE
SYMMETRY Permuted
