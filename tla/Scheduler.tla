------------------------------ MODULE Scheduler -------------------------------
(***************************************************************************)
(* PlaybookScheduler (matteros/daemon/scheduler.py): the job table, the    *)
(* asyncio tasks that execute the jobs, and jobs.json, over the life of    *)
(* several processes.                                                      *)
(*                                                                         *)
(* Everything runs on one event loop: what a task does between two awaits  *)
(* is one step, and a cancelled task runs nothing more.  add_job,          *)
(* remove_job and run_once are called at any time (run_once for changed    *)
(* files), start and stop by the one who owns the scheduler, in turn.      *)
(*                                                                         *)
(* A job is an object: adding a job under an id in use makes another one.  *)
(* Its attributes (playbook, interval, last and next run, last error) are  *)
(* left out, and so is what an execution leaves behind besides them: the   *)
(* rows of its run, and the drafts made of its suggestions in the step     *)
(* that records its end, whose failures are swallowed.  The scheduler      *)
(* reads none of it.                                                       *)
(***************************************************************************)
EXTENDS Integers, FiniteSets

CONSTANTS
    Ids,            \* job ids
    MaxObjects,     \* bound on the job objects of an id in use at a time
    MaxTasks,       \* bound on the loops of an id in existence at a time
    MaxLoops,       \* bound on all of them
    MaxFailures     \* bound on crashes and on files that cannot be written or read

ASSUME BoundsAssumption ==
    {MaxObjects, MaxTasks, MaxLoops} \subseteq Nat \ {0} /\ MaxFailures \in Nat

Objects == 1..MaxObjects
Tasks == 1..MaxTasks
None == 0

VARIABLES
    running,    \* self._running
    stopping,   \* stop() is awaiting the tasks
    resized,    \* self._tasks lost a key since stop() began
    jobs,       \* self._jobs: the object listed under an id, or None
    tasks,      \* self._tasks: the task registered under an id, or None
    task,       \* the asyncio tasks of _job_loop
    once,       \* a run_once is executing (bound: one at a time)
    disk,       \* the ids listed in jobs.json
    failures,
    answered,   \* history: what the last add_job or remove_job of an id answered
    replaced,   \* history: the loops whose entry add_job overwrote
    unstarted   \* history: ids whose last add_job raised before making a loop

memory == <<running, stopping, resized, jobs, tasks, task, once>>
answers == <<answered, replaced, unstarted>>
schedulerVars == <<memory, disk, failures, answers>>

Task == [job : Objects, pc : {"new", "asleep", "executing", "ended", "died"}]

SchedulerTypeOK ==
    /\ {running, stopping, resized, once} \subseteq BOOLEAN
    /\ jobs \in [Ids -> Objects \cup {None}]
    /\ tasks \in [Ids -> Tasks \cup {None}]
    /\ task \in [Ids -> [Tasks -> Task]]
    /\ disk \subseteq Ids
    /\ failures \in 0..MaxFailures
    /\ answered \in [Ids -> {"listed", "unlisted", "unknown"}]
    /\ replaced \subseteq Ids \X Tasks
    /\ unstarted \subseteq Ids
-----------------------------------------------------------------------------
Live == {"new", "asleep", "executing"}

IsLive(i, n) == task[i][n].pc \in Live

Blank == [job |-> 1, pc |-> "ended"]

(* An object nobody refers to and a task that ended unregistered are gone. *)
Gone(i, n) == ~ IsLive(i, n) /\ n # tasks[i]

FreeObjects(i) ==
    {o \in Objects : o # jobs[i] /\ \A n \in Tasks : IsLive(i, n) => task[i][n].job # o}
FreeTasks(i) == {n \in Tasks : Gone(i, n)}

Room(count) == Cardinality({e \in Ids \X Tasks : ~ Gone(e[1], e[2])}) + count <= MaxLoops

Least(S) == CHOOSE x \in S : \A y \in S : x <= y

(* Mutation: the ids of the tasks are written.                             *)
RegisteredTasks(listed) ==
    {i \in Ids : tasks[i] # None} \cup (IF running THEN {"__expiration__"} ELSE {})

(* _persist_jobs writes the whole table and replaces the file in one step. *)
Listed(listed) == {i \in Ids : listed[i] # None}

CanFail == failures < MaxFailures /\ failures' = failures + 1

NewLoop(o) == [job |-> o, pc |-> "new"]

SchedulerInit ==
    /\ running = FALSE /\ stopping = FALSE /\ resized = FALSE /\ once = FALSE
    /\ jobs = [i \in Ids |-> None]
    /\ tasks = [i \in Ids |-> None]
    /\ task = [i \in Ids |-> [n \in Tasks |-> Blank]]
    /\ disk = {}
    /\ failures = 0
    /\ answered = [i \in Ids |-> "unlisted"] /\ replaced = {} /\ unstarted = {}
-----------------------------------------------------------------------------
(***************************************************************************)
(* The job table                                                           *)
(***************************************************************************)
PutJob(i) ==
    LET o == Least(FreeObjects(i)) IN
    /\ FreeObjects(i) # {}
    /\ jobs' = [jobs EXCEPT ![i] = o]

AddJob(i) ==
    /\ PutJob(i)
    /\ disk' = Listed(jobs')
    /\ answered' = [answered EXCEPT ![i] = "listed"]
    /\ unstarted' = unstarted \ {i}
    /\ IF running
       THEN LET n == Least(FreeTasks(i)) IN
            /\ FreeTasks(i) # {} /\ Room(1)
            /\ task' = [task EXCEPT ![i][n] = NewLoop(jobs'[i])]
            /\ tasks' = [tasks EXCEPT ![i] = n]
            /\ replaced' = IF tasks[i] # None /\ IsLive(i, tasks[i])
                           THEN (replaced \ {<<i, n>>}) \cup {<<i, tasks[i]>>}
                           ELSE replaced \ {<<i, n>>}
       ELSE UNCHANGED <<task, tasks, replaced>>
    /\ UNCHANGED <<running, stopping, resized, once, failures>>

(* The file cannot be written: add_job raises with the job in the table.   *)
AddJobRaises(i) ==
    /\ CanFail
    /\ PutJob(i)
    /\ answered' = [answered EXCEPT ![i] = "unknown"]
    /\ unstarted' = unstarted \cup {i}
    /\ UNCHANGED <<running, stopping, resized, tasks, task, once, disk, replaced>>

TakeJob(i) ==
    /\ jobs' = [jobs EXCEPT ![i] = None]
    /\ tasks' = [tasks EXCEPT ![i] = None]
    /\ task' = IF tasks[i] # None /\ IsLive(i, tasks[i])
               THEN [task EXCEPT ![i][tasks[i]] = Blank] ELSE task
    /\ resized' = (stopping /\ (resized \/ tasks[i] # None))
    /\ unstarted' = unstarted \ {i}
    /\ UNCHANGED <<running, stopping, once, replaced>>

(* Mutation: the table is saved before the job is taken out.               *)
RemoveJobAfterSaving(i) ==
    /\ TakeJob(i)
    /\ disk' = Listed(jobs)
    /\ answered' = [answered EXCEPT ![i] = "unlisted"]
    /\ UNCHANGED failures

RemoveJob(i) ==
    /\ TakeJob(i)
    /\ disk' = Listed(jobs')
    /\ answered' = [answered EXCEPT ![i] = "unlisted"]
    /\ UNCHANGED failures

RemoveJobRaises(i) ==
    /\ CanFail
    /\ TakeJob(i)
    /\ answered' = [answered EXCEPT ![i] = "unknown"]
    /\ UNCHANGED disk
-----------------------------------------------------------------------------
(***************************************************************************)
(* The tasks                                                               *)
(***************************************************************************)
(* Mutation: self._running is not looked at.                               *)
LoopForever == "asleep"

(* What follows the start of a loop and an execution in it.                *)
LoopTop == IF running THEN "asleep" ELSE "ended"

GoTo(i, n, to) ==
    task' = [task EXCEPT ![i][n] = IF to = "ended" THEN Blank ELSE [@ EXCEPT !.pc = to]]

table == <<running, stopping, resized, jobs, tasks, once>>

(* A loop starts: next_run is set and saved, if the scheduler runs.        *)
LoopStarts(i, n) ==
    /\ task[i][n].pc = "new"
    /\ GoTo(i, n, LoopTop)
    /\ disk' = IF running THEN Listed(jobs) ELSE disk
    /\ UNCHANGED <<table, failures, answers>>

(* The sleep is over; self._running is not looked at again.                *)
LoopExecutes(i, n) ==
    /\ task[i][n].pc = "asleep"
    /\ GoTo(i, n, "executing")
    /\ UNCHANGED <<table, disk, failures, answers>>

(* The execution ends: the run in the executor returns or raises, or could *)
(* not be prepared.  Either is recorded and the table saved, once more if  *)
(* the first attempt raised; a loop then sets next_run and saves again.    *)
RunEnds(i, n) ==
    /\ task[i][n].pc = "executing"
    /\ disk' = Listed(jobs)
    /\ GoTo(i, n, LoopTop)
    /\ UNCHANGED <<table, failures, answers>>

(* The file cannot be written in the exception handler: the exception      *)
(* leaves the task.                                                        *)
ErrorUnsaved(i, n) ==
    /\ CanFail
    /\ task[i][n].pc = "executing"
    /\ GoTo(i, n, "died")
    /\ UNCHANGED <<table, disk, answers>>

(* The file cannot be written at the top of the loop, which the exception  *)
(* leaves.                                                                 *)
LoopDies(i, n) ==
    /\ CanFail
    /\ running
    /\ \/ task[i][n].pc = "new" /\ UNCHANGED disk
       \/ task[i][n].pc = "executing" /\ disk' = Listed(jobs)
    /\ GoTo(i, n, "died")
    /\ UNCHANGED <<table, answers>>

(* run_once, for a file that changed, say; it ends the way an execution in *)
(* a loop does, and cannot be cancelled.                                   *)
RunOnce(i) ==
    /\ jobs[i] # None /\ ~ once
    /\ once' = TRUE
    /\ UNCHANGED <<running, stopping, resized, jobs, tasks, task, disk, failures, answers>>

RunOnceEnds ==
    /\ once /\ once' = FALSE
    /\ \/ disk' = Listed(jobs) /\ UNCHANGED failures
       \/ CanFail /\ UNCHANGED disk
    /\ UNCHANGED <<running, stopping, resized, jobs, tasks, task, answers>>
-----------------------------------------------------------------------------
(***************************************************************************)
(* start, stop and the process                                             *)
(***************************************************************************)
Start ==
    /\ ~ running /\ ~ stopping
    /\ \A i \in Listed(jobs) : FreeTasks(i) # {}
    /\ Room(Cardinality(Listed(jobs)))
    /\ running' = TRUE
    /\ tasks' = [i \in Ids |-> IF jobs[i] = None THEN tasks[i] ELSE Least(FreeTasks(i))]
    /\ task' = [i \in Ids |-> IF jobs[i] = None THEN task[i]
                              ELSE [task[i] EXCEPT ![tasks'[i]] = NewLoop(jobs[i])]]
    /\ replaced' = replaced \ {<<i, tasks'[i]>> : i \in Ids}
    /\ unstarted' = {}
    /\ UNCHANGED <<stopping, resized, jobs, once, disk, failures, answered>>

(* Mutation: only the tasks that wait are cancelled.                       *)
StopOnlySleepers ==
    /\ running
    /\ running' = FALSE /\ stopping' = TRUE /\ resized' = FALSE
    /\ task' = [i \in Ids |-> IF tasks[i] # None /\ task[i][tasks[i]].pc \in {"new", "asleep"}
                              THEN [task[i] EXCEPT ![tasks[i]] = Blank] ELSE task[i]]
    /\ UNCHANGED <<jobs, tasks, once, disk, failures, answers>>

Stop ==
    /\ running
    /\ running' = FALSE /\ stopping' = TRUE /\ resized' = FALSE
    /\ task' = [i \in Ids |-> IF tasks[i] # None /\ IsLive(i, tasks[i])
                              THEN [task[i] EXCEPT ![tasks[i]] = Blank] ELSE task[i]]
    /\ UNCHANGED <<jobs, tasks, once, disk, failures, answers>>

SomeTaskDied == \E i \in Ids : tasks[i] # None /\ task[i][tasks[i]].pc = "died"

(* All tasks have been awaited: they are forgotten and the table is saved. *)
StopReturns ==
    /\ stopping /\ ~ resized /\ ~ SomeTaskDied
    /\ stopping' = FALSE
    /\ tasks' = [i \in Ids |-> None]
    /\ disk' = Listed(jobs)
    /\ UNCHANGED <<running, resized, jobs, task, once, failures, answers>>

StopUnsaved ==
    /\ CanFail
    /\ stopping /\ ~ resized /\ ~ SomeTaskDied
    /\ stopping' = FALSE
    /\ tasks' = [i \in Ids |-> None]
    /\ UNCHANGED <<running, resized, jobs, task, once, disk, answers>>

(* Awaiting a task that died raises what it died of, and a dictionary that *)
(* lost a key cannot be iterated further.                                  *)
StopRaises ==
    /\ stopping /\ (resized \/ SomeTaskDied)
    /\ stopping' = FALSE /\ resized' = FALSE
    /\ UNCHANGED <<running, jobs, tasks, task, once, disk, failures, answers>>

(* The process ends and another one loads what the file lists.             *)
NewProcess(listed) ==
    /\ running' = FALSE /\ stopping' = FALSE /\ resized' = FALSE /\ once' = FALSE
    /\ jobs' = [i \in Ids |-> IF i \in listed THEN 1 ELSE None]
    /\ tasks' = [i \in Ids |-> None]
    /\ task' = [i \in Ids |-> [n \in Tasks |-> Blank]]
    /\ replaced' = {} /\ unstarted' = {}
    /\ UNCHANGED disk

Restart ==
    /\ ~ running /\ ~ stopping
    /\ NewProcess(disk)
    /\ UNCHANGED <<failures, answered>>

CrashAndRestart ==
    /\ CanFail
    /\ NewProcess(disk)
    /\ UNCHANGED answered

(* The file cannot be read: a warning, and no jobs.                        *)
RestartUnreadable ==
    /\ CanFail
    /\ ~ running /\ ~ stopping
    /\ NewProcess({})
    /\ answered' = [i \in Ids |-> "unknown"]

Step(i, n) == LoopStarts(i, n) \/ LoopExecutes(i, n) \/ RunEnds(i, n)

SchedulerNext ==
    \/ \E i \in Ids : AddJob(i) \/ AddJobRaises(i) \/ RemoveJob(i) \/ RemoveJobRaises(i) \/ RunOnce(i)
    \/ \E i \in Ids, n \in Tasks :
           Step(i, n) \/ ErrorUnsaved(i, n) \/ LoopDies(i, n)
    \/ RunOnceEnds \/ Start \/ Stop \/ StopReturns \/ StopUnsaved \/ StopRaises
    \/ Restart \/ CrashAndRestart \/ RestartUnreadable

(* The event loop runs every task that is ready, sleeps end, and a run     *)
(* ends: its calls have timeouts.                                          *)
Fairness ==
    /\ \A i \in Ids, n \in Tasks : WF_schedulerVars(Step(i, n))
    /\ WF_schedulerVars(StopReturns) /\ WF_schedulerVars(StopRaises)

SchedulerSpec == SchedulerInit /\ [][SchedulerNext]_schedulerVars /\ Fairness
-----------------------------------------------------------------------------
(* While the scheduler runs, the task registered for a listed job is a     *)
(* loop over that very job, alive unless jobs.json could not be written;   *)
(* the exception is a job whose add_job raised.                            *)
ListedJobsHaveTheirLoop ==
    running => \A i \in Ids : jobs[i] # None /\ i \notin unstarted =>
        /\ tasks[i] # None
        /\ LET t == task[i][tasks[i]] IN
           /\ t.job = jobs[i]
           /\ t.pc \in Live \/ (t.pc = "died" /\ failures > 0)

(* Whatever loop is alive while nothing is registered for it, or while the *)
(* scheduler is stopped, is one whose entry add_job overwrote.             *)
LoopsAccountedFor ==
    \A i \in Ids, n \in Tasks : IsLive(i, n) /\ <<i, n>> \notin replaced =>
        /\ running /\ tasks[i] = n
        /\ jobs[i] = task[i][n].job \/ i \in unstarted

(* Jobs and loops are in step: no job without its loop, no loop besides.   *)
LoopsMatchJobs == ListedJobsHaveTheirLoop /\ LoopsAccountedFor

(* "Jobs are persisted to {home}/daemon/jobs.json so they survive          *)
(* restarts" (the class): whatever happened since, the file lists a job    *)
(* that add_job answered for, and not one that remove_job answered for.    *)
AnswersSurvive ==
    \A i \in Ids : /\ answered[i] = "listed" => i \in disk
                   /\ answered[i] = "unlisted" => i \notin disk

(* A job with a live loop is executed, if it stays and the scheduler runs. *)
JobsExecuted ==
    \A i \in Ids, n \in Tasks :
        tasks[i] = n /\ IsLive(i, n) ~>
            \/ task[i][n].pc = "executing" \/ tasks[i] # n \/ ~ running
            \/ task[i][n].pc = "died"

(* stop ends, and once it has no loop goes on for ever, overwritten ones   *)
(* included.                                                               *)
StopSettles ==
    stopping ~> running \/ (~ stopping /\ \A i \in Ids, n \in Tasks : ~ IsLive(i, n))

(* What has been asked of the scheduler happens.                           *)
LoopsServe == JobsExecuted /\ StopSettles
=============================================================================
