CONSTANTS
    r1 = r1
    r2 = r2
    l1 = l1
    l2 = l2
    m1 = m1
    w1 = w1
    w2 = w2
    UNASSIGNED = UNASSIGNED
    Runs = {r1, r2}
    Learners = {l1, l2}
    Matters = {m1}
    Durations = {6}
    Narratives <- Said
    MaxItems = 2
SPECIFICATION LearningSpec
SYMMETRY Interchangeable
INVARIANTS
    LearningTypeOK
    LearnedRulesStand
CHECK_DEADLOCK FALSE
