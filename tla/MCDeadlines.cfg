CONSTANTS
    m1 = m1
    Matters = {m1}
    Windows = {0, 1}
    Missed = Missed
    Periods = {1}
    MaxDay = 2
    MaxDeadlines = 2
    MaxAborts = 1
SPECIFICATION Spec
INVARIANTS
    TypeOK
    AlertsAndMissesTold
PROPERTY OverdueSettles
