SPECIFICATION Spec
CONSTANTS
    Devices = {d1, d2}
    Entities = {e1}
    Servers = {f1}
    MaxGeneration = 2
    NoEntity = NoEntity
    NoServer = NoServer
    NoConnection = NoConnection
SYMMETRY LinkSymmetry
INVARIANTS
    TypeOK
    NothingLeftBehind
PROPERTIES
    SubscriptionsSurviveOthers
CHECK_DEADLOCK FALSE
