SPECIFICATION Spec
CONSTANTS
    MaxRevs = 3
    MaxFaults = 1
CHECK_DEADLOCK FALSE
INVARIANTS TypeOK LoadedIsOwn NeverUndoesOwn
