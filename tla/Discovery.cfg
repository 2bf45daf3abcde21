\* A bootstrap node and z, which has joined; two joins of x, y or z, at once or
\* one after the other, and a call that fails or is given up.
SPECIFICATION Spec
CONSTANTS
  boot = boot
  x = x
  y = y
  z = z
  Nodes = {boot, x, y, z}
  Bootstrap = boot
  ID <- Identifiers
  IDLength = 3
  K = 15
  ALPHA = 1
  Iterations = 3
  RandomTargets = 0
  Targets <- RandomIDs
  Earlier = {z}
  MaxJoins = 2
  MaxFaults = 1
  None = None
INVARIANTS
  TypeOK
  BootstrapKnowsAll
  Acquainted
CHECK_DEADLOCK FALSE
