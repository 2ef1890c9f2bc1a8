CONSTANTS
    q1 = q1
    q2 = q2
    ann = ann
    ben = ben
    Model = Model
    Executions = {q1, q2}
    Clients = {ann, ben}
    Limit = 2
    MaxAge = 0
    Suggestions <- MCSuggestions
    MaxDrafts = 2
    MaxCommands = 2
    MaxTime = 1
    MaxFailures = 1
SPECIFICATION Spec
INVARIANTS
    TypeOK
    DraftsTell
PROPERTY PendingEnds
\* The runs have ended and the commands are over, or a bound is reached.
CHECK_DEADLOCK FALSE
