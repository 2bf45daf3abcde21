\* A quorum of one, so that two keys are in flight in every order; the two
\* requests give another balance in another order if they overwrite.
SPECIFICATION Spec
CONSTANTS
  Replicas = {a, b}
  Primary = a
  CommitteeNum = 2
  Requests <- TwoRequests
  Links <- LaggingLinks
  Laggard = None
  MaxSequence = 2
  None = None
INVARIANTS
  ExecuteOnce
  Agreement
  Convergence
CHECK_DEADLOCK FALSE
