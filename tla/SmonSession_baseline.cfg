SPECIFICATION Spec
CONSTANTS
  Modes <- AllModes
  Pid = {p1}
  Connection = {c1}
  MaxStarts = 1
  MaxBytes = 1
  InUse <- MCInUse
  PodOf <- MCPodOf
INVARIANT SinceBaseline
\* A session ends.
CHECK_DEADLOCK FALSE
