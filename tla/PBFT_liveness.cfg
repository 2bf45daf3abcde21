\* The four replicas of main.go, everyone hears everyone, and d hears them in
\* every order.
SPECIFICATION FairSpec
CONSTANTS
  None = None
  a = a
  b = b
  c = c
  d = d
  Replicas = {a, b, c, d}
  Primary = a
  CommitteeNum = 4
  Requests <- OneRequest
  Links <- AllLinks
  MaxSequence = 1
  Coincidences <- OneTwins
  Orderly = {a, b, c}
  Place <- InPhases
INVARIANT
  SettledAtRest
PROPERTY
  EventuallyExecuted
CHECK_DEADLOCK FALSE
