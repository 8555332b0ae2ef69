SPECIFICATION Spec
CONSTANTS
    Docs = {d1}
    Clients = {}
    Texts = {t1, t2}
    Labels = {g}
    None = None
    MaxWrites = 2
    MaxFaults = 0
CHECK_DEADLOCK FALSE
INVARIANTS GoneIsGone
