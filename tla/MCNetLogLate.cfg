SPECIFICATION Spec
CONSTANT Logs = {1, 2}
INVARIANT LatePromisesAreSettled
CHECK_DEADLOCK FALSE
