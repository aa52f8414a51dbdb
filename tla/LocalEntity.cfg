SPECIFICATION Spec
CONSTANTS
    Callers = {c1, c2}
    Workloads <- Parts
    Targets = {t1, t2}
    NoTarget = NoTarget
    MaxCalls = 3
    MaxTicks = 2
    MaxGeneration = 2
INVARIANTS
    TypeOK
    OneHeartbeat
    
    
PROPERTIES
    StoppedHeartbeatEnds
CHECK_DEADLOCK FALSE
