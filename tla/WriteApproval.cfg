SPECIFICATION FairSpec
CONSTANTS
    Skis = {s1}
    s1 = s1
    c1 = c1
    c2 = c2
    MsgCounters = {1, 2}
    MaxGeneration = 2
    Writes <- OneConnection
    Callbacks = {c1, c2}
    Early = {c1}
    NoWrite = NoWrite
INVARIANTS
    TypeOK
    
PROPERTIES
    EveryWriteSettled
CHECK_DEADLOCK FALSE
