SPECIFICATION Spec
CONSTANTS
  Pid = {1, 2}
  NetNS = {n1, n2}
  Host = n1
  Cgroup = {c1, c2}
  Socket = {s1, s2}
  NKeys = 1
  MaxEvents = 1
SYMMETRY NameSymmetry
INVARIANTS TypeOK NamesHolder SharedSocketUnknown ReusedPortUnknown SoleOwnerFound
\* The scan ends.
CHECK_DEADLOCK FALSE
