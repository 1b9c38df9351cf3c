SPECIFICATION Spec
CONSTANTS
  NKeys = 2
  CPU = {c1, c2}
  PacketLen = {1, 2}
  MaxEntries = 2
  MaxAttempts = 1
  MaxPackets = 4
INVARIANTS TypeOK Accounting NoOvercount ExactWhileKept
PROPERTIES ReadReturns EventuallyDelivered
\* A closed collector stops for good.
CHECK_DEADLOCK FALSE
