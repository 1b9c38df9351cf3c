SPECIFICATION Spec
CONSTANT Pid = {p1, p2}
INVARIANT AllProcessesListed
