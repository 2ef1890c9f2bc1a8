CONSTANTS
    c1 = c1
    c2 = c2
    Callers = {c1, c2}
    SafetyMargin = 1
    Life = 2
    CodeLife = 1
    MaxTime = 3
    MaxIssued = 2
    MaxFailures = 1
SPECIFICATION Spec
INVARIANTS
    TypeOK
    RefreshTokenKept
    LogoutHolds
PROPERTIES
    CallsEnd
CHECK_DEADLOCK FALSE
