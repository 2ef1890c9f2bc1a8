CONSTANTS
    ann = ann
    r1 = r1
    r2 = r2
    Users = {ann}
    Nobody = Nobody
    \* a matter on hold is treated as a resolved one
    Statuses = {"new", "in_progress", "resolved"}
    Requests = {r1, r2}
    SessionTime = 0
    Threshold = 1
    Limit = 1
    MaxSessions = 1
    MaxRequests = 2
    MaxMatters = 2
    MaxTime = 1
    MaxFailures = 1
SPECIFICATION Spec
INVARIANTS
    TypeOK
    StatusIsTold
    NudgesDeserved
PROPERTIES
    EndedSessionsStayEnded
    SilenceEnds
