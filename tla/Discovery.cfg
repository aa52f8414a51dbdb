SPECIFICATION Spec
CONSTANTS
    Entities = {e1, e2}
    NoEntity = NoEntity
    Callers = {c1, c2}
    Styles = {"partial", "full"}
    MaxCalls = 3
    MaxReads = 1
SYMMETRY Symmetric
INVARIANTS
    NodeTypeOK
    EntitiesFollow
    UseCasesFollow
    UseCasesHaveEntity
CHECK_DEADLOCK FALSE
