SPECIFICATION Spec
CONSTANTS
  Process = {p1}
  Container = {c1}
  NetNS = {}
  FlowKey = {f1, f2}
  Size = {2}
  Unit = 2
  DropModulus = 2
  MaxPackets = 2
  MaxDrops = 0
  MaxCuts = 2
INVARIANT CoverageAlways
\* Run returns for good.
CHECK_DEADLOCK FALSE
