SPECIFICATION Spec
CHECK_DEADLOCK FALSE
CONSTANT Threads = {s, t}
PROPERTY EnterReturns
