SPECIFICATION Spec
CONSTANT Pid = {p1, p2}
SYMMETRY PidSymmetry
INVARIANTS TypeOK OneCollector
