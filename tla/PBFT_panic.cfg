\* Four replicas as in main.go; nobody hears d, which hears everyone.
SPECIFICATION Spec
CONSTANTS
  Replicas = {a, b, c, d}
  Primary = a
  CommitteeNum = 4
  Requests <- OneRequest
  Links <- LaggingLinks
  Laggard = d
  MaxSequence = 1
  None = None
SYMMETRY Backups
INVARIANTS
  NoPanic
CHECK_DEADLOCK FALSE
