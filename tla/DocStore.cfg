SPECIFICATION FairSpec
CONSTANTS
    Docs = {d1}
    Clients = {c1}
    Texts = {t1, t2}
    Labels = {tag}
    None = None
    MaxWrites = 2
    MaxFaults = 1
CHECK_DEADLOCK FALSE
INVARIANTS TypeOK KeptIsKept BehindOnlyIfLate ListNeverBehind CopyIsRow
PROPERTIES CopiesCatchUp
