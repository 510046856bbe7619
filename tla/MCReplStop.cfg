SPECIFICATION Spec
CONSTANT MaxCommands = 3
INVARIANT StopEndsPolling
