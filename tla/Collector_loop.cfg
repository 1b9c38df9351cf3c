SPECIFICATION Spec
CONSTANTS
  Process = {}
  Container = {}
  NetNS = {}
  FlowKey = {}
  Size = {1}
  Unit = 2
  DropModulus = 2
  MaxPackets = 2
  MaxDrops = 3
  MaxCuts = 3
INVARIANTS EachPacketOnce DropsReportedOnce
PROPERTY SnapshotEveryInterval
\* Run returns for good.
CHECK_DEADLOCK FALSE
