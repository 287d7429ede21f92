SPECIFICATION Spec
CONSTANT MaxHops = 2
INVARIANT PreflightsAreNotRedirected
CHECK_DEADLOCK FALSE
