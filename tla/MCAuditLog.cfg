\* Runs end (all writers dead, or the bound on rows reached), so the system may stop.
CONSTANTS
    r1 = r1
    r2 = r2
    Runs = {r1, r2}
    EventTypes = {"run.started", "run.failed"}
    Torn = Torn
    NoEvent = NoEvent
    MaxRows = 4
SYMMETRY RunSymmetry
SPECIFICATION Spec
INVARIANTS
    TypeOK
    ChainLinked
    JsonlFollowsTable
    VerificationTells
PROPERTY ImplementsTrail
CHECK_DEADLOCK FALSE
