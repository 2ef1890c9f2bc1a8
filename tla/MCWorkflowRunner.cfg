\* A run ends (returned, raised or dead), and a reviewer may never answer.
CONSTANTS
    r1 = r1
    csv = csv
    ghost = ghost
    e1 = e1
    e2 = e2
    Runs = {r1}
    Playbooks <- AllPlaybooks
    Connectors = {csv}
    Entries = {e1, e2}
    Suggestions <- MCSuggestions
    Keys <- MCKeys
    Raw = Raw
    Unset = Unset
    None = None
SPECIFICATION Spec
INVARIANTS
    TypeOK
    EffectsAudited
    DecisionsCount
    StepsBuildOnAuditedSteps
    OutcomeIsTold
PROPERTY RunSettles
CHECK_DEADLOCK FALSE
