\* Three calls and one ordinary sender: the counter wraps after 3.
SPECIFICATION Spec
CONSTANTS
    Ops = {o1, o2, o3}
    Readers = {}
    Closers = {}
    Senders = {s1}
    Peers = {p1, p2}
    p1 = p1
    p2 = p2
    NoOp = NoOp
    NoAddress = NoAddress
    Requests <- OneRequest
    Incoming <- BadAnswers
    Capacity = 2
    TombstoneCapacity = 1
    MaxCounter = 3
SYMMETRY Symmetric
INVARIANTS
    KeysUnique
    CapacityBound
CHECK_DEADLOCK FALSE
