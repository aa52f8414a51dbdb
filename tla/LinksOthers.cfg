SPECIFICATION Spec
CONSTANTS
    Devices = {d1, d2}
    Entities = {e1}
    Servers = {f1}
    MaxGeneration = 1
    NoEntity = NoEntity
    NoServer = NoServer
    NoConnection = NoConnection
SYMMETRY LinkSymmetry
PROPERTIES
    BindingsSurviveOthers
CHECK_DEADLOCK FALSE
