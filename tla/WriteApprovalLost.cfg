SPECIFICATION Spec
CONSTANTS
    Skis = {s1}
    s1 = s1
    c1 = c1
    c2 = c2
    MsgCounters = {1, 2}
    MaxGeneration = 1
    Writes <- OneConnection
    Callbacks = {c1, c2}
    Early = {c1, c2}
    NoWrite = NoWrite
INVARIANTS
    FullApprovalSettles
CHECK_DEADLOCK FALSE
