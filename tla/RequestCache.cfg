\* Two callers, two contents, one reader; the cache holds two at most.
SPECIFICATION Spec
CONSTANTS
    Callers = {c1, c2}
    Readers = {r1}
    Contents = {x, y}
    NoContent = NoContent
    CacheLimit = 1
    MaxCounter = 4
SYMMETRY CallerSymmetry
INVARIANTS
    TypeOK
    SuppressionJustified
PROPERTIES
    ClosedCacheOnlyShrinks
    SuppressedUntilAnswered
CHECK_DEADLOCK FALSE
