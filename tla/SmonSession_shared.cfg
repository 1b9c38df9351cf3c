SPECIFICATION Spec
CONSTANTS
  Modes <- OneAnswer
  Pid = {p1, p2}
  Connection = {c1}
  MaxStarts = 2
  MaxBytes = 1
  InUse <- MCInUse
  PodOf <- MCPodOf
INVARIANT SharedNotGuessed
\* A session ends.
CHECK_DEADLOCK FALSE
