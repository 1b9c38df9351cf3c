SPECIFICATION Spec
CONSTANTS
  Pid = {1, 2}
  NetNS = {n1, n2}
  Host = n1
  Cgroup = {c1}
  Socket = {s1}
  NKeys = 2
  MaxEvents = 1
SYMMETRY NameSymmetry
INVARIANT NeverGuesses
\* The scan ends.
CHECK_DEADLOCK FALSE
