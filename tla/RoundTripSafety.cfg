\* Two calls, one reader and one Close, no ordinary sends.
SPECIFICATION Spec
CONSTANTS
    Ops = {o1, o2}
    Readers = {r1}
    Closers = {c1}
    Senders = {}
    Peers = {p1, p2}
    p1 = p1
    p2 = p2
    NoOp = NoOp
    NoAddress = NoAddress
    Requests <- ThreeRequests
    Incoming <- Answers
    Capacity = 2
    TombstoneCapacity = 1
    MaxCounter = 2
SYMMETRY Symmetric
INVARIANTS
    TypeOK
    OneHolder
    PendingOrRetired
    NothingPendingAfterClose
    ResponseMatchesRequest
    DispositionIsEvidence
CHECK_DEADLOCK FALSE
