SPECIFICATION Spec
CONSTANTS
  Process = {p1, p2}
  Container = {c1}
  NetNS = {}
  FlowKey = {f1, f2}
  Size = {1}
  Unit = 2
  DropModulus = 2
  MaxPackets = 3
  MaxDrops = 0
  MaxCuts = 2
SYMMETRY Symmetry
INVARIANTS TypeOK BreakdownFits CoverageOfOneSource
\* Run returns for good.
CHECK_DEADLOCK FALSE
