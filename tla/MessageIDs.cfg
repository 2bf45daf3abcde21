\* The two requests of NodeLoop.cfg, with one replica of the committee down.
SPECIFICATION SpecNumbered
CONSTANTS
  None = None
  p = p
  b = b
  c = c
  vote = vote
  commit = commit
  Self = p
  Peers = {b, c}
  Heard <- Everybody
  Required = 3
  Requests = {vote, commit}
  FromMain = {vote}
  Fanout <- Executed
  MaxFanout = 1
  ChanelSize = 3
INVARIANTS
  UniqueIDs
CHECK_DEADLOCK FALSE
