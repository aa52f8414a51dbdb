\* Two calls, one reader and one Close, under fairness.
SPECIFICATION FairSpec
CONSTANTS
    Ops = {o1, o2}
    Readers = {r1}
    Closers = {c1}
    Senders = {}
    Peers = {p1, p2}
    p1 = p1
    p2 = p2
    NoOp = NoOp
    NoAddress = NoAddress
    Requests <- OneRequest
    Incoming <- OneAnswer
    Capacity = 2
    TombstoneCapacity = 1
    MaxCounter = 2
PROPERTIES
    ImplementsService
    CancelledCallReturns
    ClosedCallsReturn
CHECK_DEADLOCK FALSE
