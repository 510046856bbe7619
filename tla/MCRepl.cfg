SPECIFICATION Spec
CONSTANT MaxCommands = 5
INVARIANTS JoinedWhenItMatters FlagTellsTheThread
PROPERTY CommandsEnd
