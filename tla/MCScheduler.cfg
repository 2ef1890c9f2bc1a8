CONSTANTS
    Ids = {a, b}
    MaxObjects = 2
    MaxTasks = 2
    MaxLoops = 3
    MaxFailures = 1
SPECIFICATION SchedulerSpec
INVARIANTS
    SchedulerTypeOK
    LoopsMatchJobs
    AnswersSurvive
PROPERTY LoopsServe
