\* Two calls of Publish, a core and an application handler that come and go.
SPECIFICATION FairSpec
CONSTANTS
    Events = {e1, e2}
    Core = {d}
    Apps = {a}
    MaxItems = 2
    NoEvent = NoEvent
    NoItem = NoItem
INVARIANTS
    TypeOK
    HandledInOrder
    OneCallAtATime
    CoreBeforeApplication
PROPERTIES
    EveryCaptureHandled
    UnsubscribedLeaves
CHECK_DEADLOCK FALSE
