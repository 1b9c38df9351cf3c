SPECIFICATION Spec
CONSTANTS
  Address = {"us", "peer", "mapped us"}
  LocalIPs = {"us"}
  OurMAC = "card"
  Unmap <- MCUnmap
  Frames <- MCFrames
INVARIANTS TypeOK ReadsInBounds PortsRight SameFlow
