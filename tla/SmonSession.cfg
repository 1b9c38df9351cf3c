SPECIFICATION Spec
CONSTANTS
  Modes <- AllModes
  Pid = {p1, p2}
  Connection = {c1}
  MaxStarts = 2
  MaxBytes = 1
  InUse <- MCInUse
  PodOf <- MCPodOf
INVARIANTS TypeOK BytesAreOwn CollectorKept
PROPERTIES ChildReplaced SessionEnds
\* A session ends.
CHECK_DEADLOCK FALSE
