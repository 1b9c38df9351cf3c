SPECIFICATION Spec
CONSTANT Pid = {p1}
PROPERTIES CrashRetried NoneLeftBehind StaleAdmitted
