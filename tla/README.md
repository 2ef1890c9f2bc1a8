# A verification project for matteros

matteros is a local-first workflow runner for law firms: playbooks collect activity, let a
model propose time entries, ask a person and write the result out, under a policy and with
an audit log; around it there is an automation engine (deadlines, intake from Jira and
Slack, stale matters), a scheduler daemon, a drafts queue, a web application and a CLI.
All state is in one SQLite database, one JSONL file and a few JSON files, and most of what
can go wrong lies between two of their transactions.

The TLA+ modules here are translated from the Python source. TLC checks them on small
instances; TLAPS proves every safety property that TLC checks, and the refinement, for every
value of the constants. `PROJECT.json` lists components, runs, mutants, the lines each
definition stands for, findings, hazards and theorems.

- [The system](#the-system)
- [Modules](#modules)
- [Runs, bounds and fairness](#runs-bounds-and-fairness)
- [Proofs](#proofs)
- [Disagreements found](#disagreements-found)
- [Not modelled](#not-modelled)
- [Plan](#plan)

To repeat: `tlc -workers 2 -config MCAuditLog.cfg MCAuditLog` (and so on for each `.cfg`),
`tlapm AuditLogProofs.tla` (and so on for each `...Proofs.tla`; the longest takes about four
minutes).

## The system

| Component | State it keeps | Operations | What makes it correct |
|---|---|---|---|
| Audit log (`core/audit.py`, `core/store.py`) | `audit_events` rows, `events.jsonl` | `append`, `verify_run` | rows of a run hash-chained; the file never says what the table does not; verification accepts exactly complete copies |
| Workflow runner (`core/runner.py`, `core/policy.py`) | `runs`, `steps`, `approvals` rows, the context of a run | `run`, one executor per step type | no effect outside without policy, audit and approval; tables and trail tell one story, failures included |
| Deadline alerts (`automation/deadlines.py`, `state.py`, `matters/store.py`) | `deadlines`, `activities`, `automation_state` | `check_deadlines`, `create_`, `complete_`, `mark_deadline_missed` | an alert per deadline and window, none suppressed unrecorded; missed deadlines told; recurring ones continue |
| Intake (`automation/intake.py`) | matters, contacts, links, activities, two poll cursors | `handle_jira_intake`, `handle_slack_intake` | each issue or message one matter, complete, none passed over |
| Automation engine (`automation/engine.py`) | none | `run_once` | one handler's exception does not stop the next |
| Stale detection (`automation/stale.py`) | activities | `detect_stale_matters` | a silent matter is nudged, and only such a one, not again and again |
| Scheduler (`daemon/scheduler.py`) | job table, task table, asyncio tasks, `jobs.json` | `add_job`, `remove_job`, `run_once`, `start`, `stop`, the job loops | a listed job is executed by one loop; stop ends all; what was answered survives a restart |
| Daemon process, watcher (`daemon/process.py`, `watcher.py`, the `daemon` commands of `cli.py`) | PID file, process ids, modification times, pending changes | `start`, `stop`, polling, debouncing | the PID file names the daemon and nothing else; no change lost |
| Drafts and feedback (`drafts/manager.py`, `learning/feedback.py`) | `drafts`, `feedback_log` | create, approve, reject, edit, expire | a run's suggestions are its drafts; the log explains every decision; what nobody decided expires |
| Pattern learning (`learning/patterns.py`) | `patterns` | `learn`, `apply_patterns` | a rule stands on what a reviewer approved; one per kind and matter |
| Matter store and access rules (`matters/store.py`, `matters/auth.py`) | matters, contacts, relationships, notes | create, update, link, list | visibility follows the privileged flag |
| Web application, sessions, users, run service (`web/`, `team/`) | `sessions`, `users`, threads of runs | login, logout, pages, `trigger_run` | an ended session does not come back; the activities tell a matter's status |
| LLM adapter (`llm/adapter.py`) | none | `run` with retries | only allowed providers; retries bounded |
| Token managers (`connectors/ms_graph_auth.py`, `google_auth.py`) | token cache files | `get_access_token`, refresh, device-code login, logout | the newest refresh token is kept; a logout holds; a login ends |
| Connectors, plugins (`connectors/`) | none | read, write | a manifest's mode is respected |
| Migrations (`core/migrations/`, `_init_db` of `core/store.py`) | the schema, `schema_version`, roles of users | `apply_pending` | a recorded version is wholly there; one of several starts gets through |
| Event bus, configuration, onboarding, skills, reports, CLI, TUI | subscriptions, YAML files | | sequential or presentation |

**How they interact.** The CLI, the web run service (a thread per run) and the scheduler
(an executor thread per run) call `WorkflowRunner.run`; the runner calls `AuditLogger.append`
for every event, the connectors and the LLM adapter. The automation engine calls its
handlers one after the other; they share the matter store with the web pages and the CLI.
The scheduler turns the suggestions of a run into drafts, which the CLI reviews. There are
no messages between processes: they meet in SQLite (a connection and a transaction per
call) and in files (the PID file, `jobs.json`, the token caches), so an interleaving here is
one of store calls and file accesses, and of signals.

**What is hard.** A run, a handler or a pass makes many small transactions and can be cut
off between any two (an exception or a death); another actor works on the same rows in
between; lists are read once and used for long; cursors and dedup keys decide what is
looked at again; error handlers write to the same store whose failure they handle; asyncio
tasks are registered, overwritten and cancelled across awaits. `PROJECT.json` lists these
as 40 hazards at the lines where they bite, with the properties about them or the reason
there is none yet.

## Modules

| Module | Models | Extends / uses |
|---|---|---|
| `AuditTrail` | what the audit log promises: a list of events per run that only grows, by one event of one run at a time | |
| `AuditLog` | `AuditLogger.append` and `verify_run` | refines `AuditTrail` |
| `AuditLogProofs` | theorems about `AuditLog` | `AuditLog` |
| `WorkflowRunner` | `WorkflowRunner.run` with policy, store and executors | records in an `AuditTrail` |
| `WorkflowRunnerProofs` | theorems about `WorkflowRunner` | `WorkflowRunner` |
| `Deadlines` | `check_deadlines` and the deadline operations of the matter store | |
| `DeadlinesProofs` | theorems about `Deadlines` | `Deadlines` |
| `Intake` | the two intake handlers under `run_once` | |
| `IntakeProofs` | theorems about `Intake` | `Intake` |
| `Scheduler` | `PlaybookScheduler` over several processes | |
| `Drafts` | `DraftManager` and `FeedbackTracker` under the scheduler and the CLI commands | |
| `Learning` | `PatternEngine`, `learn`, the LLM and approve steps where they meet it | |
| `FeedbackProofs` | theorems about `Drafts` and about `Learning` | both |
| `Web` | the web application: sessions, users, the handlers that write | |
| `StaleMatters` | `detect_stale_matters` beside the web application | composed with `Web` (EXTENDS) |
| `StaleMattersProofs` | theorems about both, as they run together | `StaleMatters` |
| `Daemon` | `daemon start` and `stop`, the PID file, signals, `ActivityWatcher` | |
| `Migrations` | `SQLiteStore._init_db` and `apply_pending` with the six upgrades | |
| `DaemonProofs` | theorems about `Daemon`, about `Scheduler` and about `Migrations` | the three |
| `Tokens` | `MicrosoftGraphTokenManager`, `GoogleTokenManager`, `auth login` and `logout` | |
| `TokensProofs` | theorems about `Tokens` | `Tokens` |
| `MC...` | constants and symmetry of the runs | each its module |

`AuditTrail` is where the two core modules meet: `AuditLog` implements it, `WorkflowRunner`
uses it in the place of the calls of `append`. The composition is by contract: an append of
the runner records one event and returns, records it and raises (the row is in, the line
failed), or raises and records nothing, which are the outcomes `AuditLog` has for a call.

Where one module of proofs is about several components, these are not composed: each has its
variables, its specification and its theorems, and the definitions that every module has are
named for the component (`SchedulerInit`, `LearningSpec`, `MigrationsTypeOK`).

A definition whose comment begins with "Mutation" is a plausible bug in the one that follows
it; no specification uses it. `PROJECT.json` pairs each with a property that finds it.

**AuditLog.** State: `db` (rows of `audit_events`, position = seq), `jsonl` with `tailOpen`
(the last line has no newline), and per run `pc` and `held` (where its writer is in `append`
and the event it is building). Actions: `BuildEvent` (`get_last_audit_hash`, a connection of
its own), `InsertAuditEvent` / `InsertRaises`, `WriteLine` / `WriteRaises` (nothing, a torn
line or all but the newline reaches the file), `Crash`. A run has a single writer, runs
interleave freely. A SHA-256 value is what it was computed from, so hashes never collide;
payload and redaction are part of the opaque event type. A run's rows are listed by their
places in the table (`Places`, `Nth`). `VerifyDb`, `VerifyJsonl` and
`VerifyBoth` return the reason `verify_run` reports.

**WorkflowRunner.** State: per run the three tables, the trail, what was `written` outside,
the `context`, and the control point `pc`, the loop index `item` and the `output` of the
executor. One action per store call, append, connector, model and reviewer call, each of
which returns or raises, with the two nested exception handlers, and `Crash` anywhere.
Values are lists of entries or `Raw`. The reviewer decides item by item, may edit an entry,
may raise or never answer. The properties compare a list with what a table or the trail says
at certain positions (`Tells(story, log, at)`): the n-th member of the story is what the log
says at the n-th of the positions, and there are no others.

**Deadlines.** State: the clock in days, the rows, the count of activities per deadline and
kind of alert, the dedup keys, and the pass (`pc`, the list it read, its `now`, the alert it
makes). Actions of a pass: `StartPass`, `Examine`, `MarkMissed`, `AddActivity`, `SetKey`,
`EndPass`, `ParseRaises`, `Abort`; of people and time: `CreateDeadline`, `CompleteDeadline`,
`Tick`. A due date is the rank of its text, because the query sorts texts: a text that is no
date is before or after all dates. How rows of the same due date follow each other is left
open by the query, and by `PendingByDue`. `aborts`, `unkeyed` and `unheard` are history.

**Intake.** State: the clock (one tick per outside event), when each item was `touched`, the
tables, the two cursors, the handler (`source`, `pc`, `todo`, `latest`). `Read` is the
query: the `Newest` matching items up to the limit, the newest first; `SkipItem`,
`CreateMatter`, `EnsureContact`, `LinkContact`, `StoreText` the store calls in the order of
each handler (`Stages`); `SetCursor` its end. `HandlerRaises` ends one handler, `Crash`
both, `ContactSwallowed` is the `except` in `_ensure_contact`. `cut`, `late` and `partial`
are history.

**Scheduler.** State: `running`, `stopping`, the job table, the task table, every asyncio
task that exists (also one that no entry leads to), `disk`. What a task does between two
awaits is one step. `stop` is two steps, the cancellation and its end, because it awaits the
tasks; `remove_job` in between changes the dictionary it iterates (`resized`). Writing
`jobs.json` can fail in every operation, and each has an action for what is left then. An
add under an id in use makes another job object. `answered`, `replaced` and `unstarted` are
history.

**Drafts.** State: `drafts` (rows, position = id), `feedback` (the pairs of draft and action in
`feedback_log`), per execution of a job `run` and `suggested`, and per terminal where its
command is (`pc`), the ids it goes through (`todo`), the entries it `read` of them, the
`action` it records next and the option `auto`. Actions of the scheduler: `RunReturns`,
`CreateDraft`, `CreateRaises`, `RunAbandoned` (the loop is cancelled while the run goes on in
its thread) and `Expire`, one UPDATE; of a terminal: `DraftsApprove`, `DraftsReject`, `Review`,
then per draft `AutoApprove` or `Answer`, `UpdateEntry`, `UpdateStatus` and `RecordFeedback`,
each a transaction, and `CommandDies`. Of an entry the model keeps whether its confidence
reaches the threshold and who wrote it last. The drafts of a run are the places of its rows
(`Made`); a command lists the `Newest` of those `Waiting`, the newest first. `cut`, `unlogged`
and `halfEdited` are history. A status is written `WHERE id = ?` alone, so decisions of two
terminals, or a decision and an expiry, overwrite each other; that a draft leaves `pending`
only once is therefore not a property of this code, and no property here says it.
`UndecidedUntouched` and `StatusExplained` say what the order of the calls does ensure.

**Web and StaleMatters.** State of `Web`: the clock, the rows of users (`accounts`), sessions,
`matters` and `activities`, and per request under way `pc`, its `session`, and between the two
store calls of `update_status` the `subject` and the `wanted` status. `Arrive` is the
middleware with a valid session, `RefuseExpired` with an expired one; then `Logout`,
`CreateMatterSubmit`, `PostComment`, or `UpdateMatter` and `RecordStatus`, any of which can raise
(`UserMissing` under the foreign key, `RequestRaises`); `WebDies` takes all requests.
`LoopFree` is the event loop: a handler has no await between its store calls, so requests
meet between middleware and handler only, while other processes (`CreateUser`, `DeleteUser`,
`MatterArrives`, the engine) come in anywhere. `StaleMatters` adds the pass: `ListNew`,
`ListInProgress`, then `SkipRecent`, or `FindStale` and `Nudge`, and `PassEnds` by an
exception. `ended`, `unlogged`, `overtaken` and `unseen` are history, as are `created` of a
matter and the status of an activity that is no status change. A nudge is measured from what
was heard before it (`HeardBefore`): the previous activity, or, where it is the first one, the
creation of the matter, while the code goes by `updated_at` of the row it listed earlier.

**Daemon.** State: `pidFile`, what runs under each process id (`proc`: a child before and
after it wrote its PID, a daemon that prepares, serves, stops or closes, another program), where
each start and stop command is, the files' `mtime`, and per daemon the watcher's `known` and
`pending`. `StartReads`, `Fork` and the two halves of `write_pid` are separate steps, because
nothing locks the file; so are the stop command's reading of it (`StopReads`), the second one
of `is_running` (`StopReadsAgain`), the check of what that one found (`StopFindsRunning`,
`StopRefused`), and the signal to what the first one found. A SIGTERM before the handlers are
there ends the process (`SignalEndsProcess`). After `Prepare`, while `run_until_complete` starts
scheduler and watcher, its `loop.stop` waits for `run_forever` (`SignalStopsLoop`, `Serve`) or is
consumed by the call that runs, and lost (`SignalIgnored`). `SignalEndsCleanup` is the second
SIGTERM: `loop.stop` ends a `run_until_complete` of the `finally` block, which raises, so
`remove_pid` is not reached. `OtherProgramStarts` reuses an id. `told`, `raced` and `unclean`
are history.

**Tokens.** State: `cache` (the file, whether it is torn, its refresh token and expiry), per
caller `pc` and what it has `held` in memory, which writers are `attached` to the file that is
under the name (a logout unlinks it, an open writer goes on), and the number of the refresh
token `issued` last. Opening the file empties it (`Answered`), `WriteCache` fills it. The
server answers with a refresh token or none, refuses, or its answer is lost. `excused` is
history: from calls that overlap, a lost answer or a death to the next Microsoft answer to a
call that is alone, which has to set the file right. An answer without a refresh token erases
the one in the cache; `RefreshTokenKept` says so (`omitted`) rather than that it does not.

**Learning.** State: per run the suggestions `shown`, the table of `approvals`, the `patterns`
in their order, per learn command its `queue`, the `rules` to store and the one `found` with the
row it will write. `Suggest` applies the rules (`AssignMatter`, `PreferNarrative`), `Decide`
records one decision, `LearnFromApprovals` computes `MatterRules`, `NarrativeRules` and
`RejectionRules`, `FindRow` and `WriteRow` are the two transactions of `_store_pattern`.

**Migrations.** State: `db` (tables and columns, recorded versions, users' roles), `work` and
`lock` (the one write transaction), per process the version whose migration it applies (`at`, 0
being the base schema) and the `line` of it that is next. A migration is its upgrade's sequence
of statements and the row of its version, and sqlite3's rules decide which are one transaction:
CREATE and ALTER take effect at once unless an UPDATE or INSERT has begun one; `executescript`
commits. `CheckColumn` and `AddColumn` are two steps, `AddColumnRaises` and
`InsertVersionRaises` what the slower process meets, `LockTimesOut` the end of its patience.
`cut` and `was` are history.

## Runs, bounds and fairness

| Run | Checks | Bounds |
|---|---|---|
| `audit_log` | `ChainLinked`, `JsonlFollowsTable`, `VerificationTells`, refinement `ImplementsTrail` | 2 symmetric runs, 2 event types, 4 rows |
| `workflow` | `EffectsAudited`, `DecisionsCount`, `StepsBuildOnAuditedSteps`, `OutcomeIsTold`, liveness `RunSettles` | 1 run, 7 playbooks, all options, 2 entries, lists of 0 to 2 |
| `deadlines` | `AlertsAndMissesTold`, liveness `OverdueSettles` | 1 matter, windows {0,1}, period 1, days 0 to 2, 2 deadlines, 1 aborted pass |
| `intake` | `ItemsAccounted`, liveness `EventuallyTracked` | 2 issues, 2 messages (one of a bot), limits 1, 4 moments, 1 failure |
| `scheduler` | `LoopsMatchJobs`, `AnswersSurvive`, liveness `LoopsServe` | 2 ids, 2 objects and 2 loops per id, 3 loops in all, 1 failure |
| `drafts` | `DraftsTell`, liveness `PendingEnds` | 2 executions with 0 or 2 suggestions, 2 terminals, 2 commands, 2 drafts, list limit 2, 1 failure, drafts old after 1 tick |
| `stale_matters` | `StatusIsTold`, `NudgesDeserved`, `EndedSessionsStayEnded`, liveness `SilenceEnds` | 1 user, 1 session, 2 requests, 2 matters, lists of 1, threshold 1 tick, sessions of less than 1, 1 failure |
| `daemon` | `PidFileTells`, `ChangesAccounted` | 3 process ids, 1 start and 1 stop command at a time, 1 watcher at a time, 1 file, times 0 and 1, 1 kill |
| `tokens` | `RefreshTokenKept`, `LogoutHolds`, liveness `CallsEnd` | 2 callers, either provider, margin 1, token life 2, code life 1, 4 moments, 2 refresh tokens, 1 failure |
| `learning` | `LearnedRulesStand` | 2 runs of up to 2 suggestions, 2 learn commands, 1 matter, 2 narratives of 2 words |
| `migrations` | `UpgradesAreWhole` | 3 processes, 1 user, from a new file or any version |
| `intake_jira_lost` | `JiraNothingLost`, a documented promise the code does not keep | as `intake` |

Several of these are conjunctions of parts that are named and commented in the module:
`VerificationTells` of `VerifyBothExact` and `LossReported`; `DecisionsCount` of
`EffectsApproved` and `ApprovalsFollowed`; `OutcomeIsTold` of `ReturnedRunIsComplete` and
`FailureIsTold`; `AlertsAndMissesTold` of `AlertsAccounted`, `WidestWindowFirst` and
`MissedIsTold`; `ItemsAccounted` of `OneMatterPerItem`, `MattersWhole` and
`NothingPassedOver`; `LoopsMatchJobs` of `ListedJobsHaveTheirLoop` and `LoopsAccountedFor`;
`LoopsServe` of `JobsExecuted` and `StopSettles`; `DraftsTell` of `DraftsOfRuns`,
`StatusExplained` and `UndecidedUntouched`; `PidFileTells` of `DaemonIsNamed` and
`NameIsDaemon`; `LearnedRulesStand` of `RulesBorneOut` and `OneRowPerRule`;
`UpgradesAreWhole` of `VersionsTell` and `SomeoneGetsThrough`.

Every passing run also checks the module's type invariant (`TypeOK`, or `SchedulerTypeOK`,
`LearningTypeOK`, `MigrationsTypeOK`).

**Why the bounds are enough.**
- *AuditLog*: two runs put foreign rows and lines between those of a run; four rows let one
  run have three events, so a line can be lost at the start, in the middle and at the end,
  while the other has one. The run is safety only, and its chain properties are proved for
  every bound.
- *WorkflowRunner*: runs share no state of the model (each has its own rows and trail), so
  one is enough; what they share, the table and the file, is the subject of `AuditLog`. The
  playbooks are the bundled shape, two approve steps in a row, an approve step without
  input, a write where policy forbids it, an operation the manifest does not list, a
  connector that is not there, and an apply step without an approve step. Two entries make
  a decided prefix differ from the whole.
- *Deadlines*: two windows with `DueWindows` of two members; a deadline that sorts before
  another; a recurring one with its successor; a creation on each day; one abort at each
  point of a pass. A second matter would add nothing: matters are only copied.
- *Intake*: a query of limit 1 over two issues is cut; one issue has text and reporter, the
  other neither; an author occurs in both sources, so `create_contact` meets an existing
  email; four moments allow post, poll, update, poll.
- *Scheduler*: two loops of an id are a loop and the one that replaced it; a second id shows
  that saving the table for one job does not disturb the other.
- *Drafts*: two commands meet on one draft at every pair of their steps, in two terminals or
  one after the other; a review goes through two drafts while the other terminal or the
  expiry changes the second; a run of two suggestions can be cut after its first draft. A
  draft has one creation time and is old or not, so two moments are enough.
- *StaleMatters*: two requests are a logout beside another, or two changes of one status; two
  matters are one behind the other in a list of one, or one of each list, or one that moves
  between the lists. A session created in one tick is expired in the next, in which a matter
  touched in the first is stale. A matter on hold is for all of this code what a resolved
  one is, so the run has three statuses.
- *Daemon*: three ids are two daemons that race and a third process, or a daemon and another
  program that reuses an id. Two starts race as a child that was forked and a command: a start
  that has forked is a process. A stop meets any of them at each of its steps. One watcher at
  a time and one file are enough, as watchers share nothing but the files and `_poll_loop`
  treats files independently; two times are absent and present or, from a start with the file
  there, older and newer. The theorems have none of these bounds.
- *Tokens*: two callers refresh at once, or one logs out of the other's login; the clock lets
  a token be issued, become stale within the margin, and be refreshed before the bound.
- *Learning*: two runs let a rule be learned from the first and applied in the second, learned
  again and applied to its own effect; two narratives have a common first word, or one word
  twice. With one matter, a suggestion has it or none.
- *Migrations*: a third process comes after two that fail on each other. The schema is the
  real one, not a smaller one.

`CHECK_DEADLOCK FALSE` is set where the system may stop: in `AuditLog` all writers may have
died or the bound is reached; in `WorkflowRunner` the run has ended;
in `Drafts` the runs have ended and
the commands are over, or the bound on drafts or time is reached; in `Tokens` the clock has
reached its bound; in `Learning` the runs are over and the commands have been given.

**Fairness.**
- `WorkflowRunner`: WF of `Proceed(r)`. `run()` is a plain sequence of calls that return or
  raise, connectors and providers being called with timeouts. None of `CreateRun`
  (nobody must start a run), `DecideItem` (nobody must answer) or `Crash`. Hence the
  exception in `RunSettles` for a prompt that is never answered.
- `Deadlines`, `Intake`: WF of the steps of a pass or handler, which includes starting the
  next: the design document has the engine polled for ever. None of people, the clock,
  failures or crashes.
- `Scheduler`: WF of the steps of each task (the event loop runs a ready task, a sleep ends,
  a run in the executor ends) and of the end of `stop`. None of its callers.
- `Drafts`: WF of `Tick` (time goes by) and of `Expire` (the daemon's hourly loop goes on
  after an exception). None of the terminals: nobody has to review or to answer a prompt.
- `StaleMatters`: WF of `Tick` and of the steps of a pass, which includes starting the next,
  as for `Deadlines`. None of the web application, its users, failures or deaths.
- `Tokens`: WF of `Tick`, of the answer to a refresh (a request has a timeout, and an answer
  that is lost ends the call too), of `LoginTimesOut` and of `WriteCache`. None of
  `LoginAnswered`: nobody has to authorize a code.
- `AuditLog`, `Daemon`, `Learning` and `Migrations` state no liveness: whether a writer or a
  command goes on is its caller's business, and a start or a stop may be killed.

**What the liveness properties mean.** `RunSettles`: a row is not left `running` unless the
store or the log failed, the process died or a person never answered. `OverdueSettles`: an
overdue deadline is settled unless a pending one with an unparsable date sorts before it,
which the code does let block it. `EventuallyTracked`: an item gets its matter unless it was
beyond a query's limit, or is an issue updated while the handler worked. `JobsExecuted`: a
live registered loop comes to execute. `StopSettles`: after stop even an overwritten loop
ends, at the latest when its sleep is over. `PendingEnds`: a draft that nobody decides
expires, commands that hold a stale list notwithstanding. `CallsEnd`: a login that nobody
authorizes ends with its code, however often the server says `slow_down`. `SilenceEnds`: an active
matter is heard of again, by a nudge if by nobody, unless newer matters fill the list.

## Proofs

Eight modules hold theorems about all the components that have a run; none reaches a recursive
operator. For each component one lemma or step per action shows `Init => IInv` and
`IInv /\ [Next]_vars => IInv'` of an inductive invariant, and the theorems follow from
`Spec => []IInv` (`Invariance`, or `SchedulerInvariance`, `MigrationsInvariance`,
`DraftsInvariance`, `LearningInvariance`); TLC checked every such invariant on the component's
run first. Type correctness is proved of every component too (`TypeCorrect`,
`DraftsTypeCorrect` and so on). The assumptions are the named ones of the modelled components:
bounds are natural numbers, the values that stand for "none" are no members of the sets beside
them, narratives are sequences of words. No set of runs, ids, callers, requests, files,
processes, users or windows has to be finite, except the items of `Intake`, whose newest the
query counts.

| Theorem | States |
|---|---|
| `AuditLogProofs`: `ChainAlwaysLinked`, `FileFollowsTable`, `VerificationAlwaysTells` | `[]ChainLinked`, `[]JsonlFollowsTable`, `[]VerificationTells` |
| `AuditLogProofs`: `TableImplementsTrail` | `Spec => ImplementsTrail`, the refinement |
| `WorkflowRunnerProofs`: `EffectsAlwaysAudited`, `StepsAlwaysBuildOnAudited`, `OutcomeAlwaysTold`, `DecisionsAlwaysCount` | `[]EffectsAudited`, `[]StepsBuildOnAuditedSteps`, `[]OutcomeIsTold`, `[]DecisionsCount` |
| `DaemonProofs`: `PidFileAlwaysTells`, `NoChangeIsLost` | `[]PidFileTells`, `[]ChangesAccounted` |
| `DaemonProofs`: `JobsAndLoopsInStep`, `AnswersAlwaysSurvive` | `[]LoopsMatchJobs`, `[]AnswersSurvive` |
| `DaemonProofs`: `UpgradesAlwaysWhole` | `[]UpgradesAreWhole` |
| `FeedbackProofs`: `DraftsAlwaysTell` | `[]DraftsTell` |
| `FeedbackProofs`: `RulesAlwaysStand` | `[]LearnedRulesStand` |
| `TokensProofs`: `RefreshTokenIsKept`, `LogoutAlwaysHolds` | `[]RefreshTokenKept`, `[]LogoutHolds` |
| `StaleMattersProofs`: `StatusAlwaysTold`, `NudgesAlwaysDeserved`, `SessionsStayEnded` | `[]StatusIsTold`, `[]NudgesDeserved`, the action property `EndedSessionsStayEnded` |
| `DeadlinesProofs`: `AlertsAndMissesAlwaysTold` | `[]AlertsAndMissesTold` |
| `IntakeProofs`: `ItemsAlwaysAccounted` | `[]ItemsAccounted` |

**AuditLogProofs**, from `ConstantsAssumption`. `ChainLinked` alone is not inductive: an
insert uses a hash that was read in an earlier step. `IInv` adds `HeldChained` (what a writer
holds before its insert still continues its run's chain, as only that writer appends to the
run), `SeqIsPosition`, and `HeldNewest` (what it holds before its line is written is a row
of its run, newer than all the run's lines), which makes the file's order inductive. This is
the place where "a run has one writer" is used. The refinement needs nothing of `IInv` but
types: an insert adds the greatest place, which `Nth` enumerates last (`NthOfMore`), so the
trail of the run grows at its end and the others stay. `VerificationTells` is no invariant to
be strengthened but a consequence of `IInv`: a hash holds its whole history, so the hash of the
n-th event of a chain has length n (`LengthOfHash`) and lines that are linked can only be the
run's first rows (`LinkedLinesArePrefix`); the seqs on which the sources then differ are those
of the rows past them (`ComparePrefix`).

**WorkflowRunnerProofs**, from `PlaybooksAssumption` (steps non-empty with distinct ids, as
`PlaybookDefinition` validates) and `ValuesAssumption`. `IInv` is `TypeOK` and, for every
run, `Control(r)`: what each control point may rely on. A point past an append is reached
only if the append returned, so its event is in the trail (`Announced`, `Audited`), and a
trail forgets nothing. Two further invariants of the same shape stand on it, each with a lemma
that a step of one run leaves those of the others alone:
- `Outcome(r)` says which story the run's and its steps' events tell at each control point,
  as long as no store or audit call of the run raised; `OutcomeIsTold` speaks of ended runs
  only, and the story of a run that ends is the one it told a step before and one event.
- `Decided(r)` follows the decisions on their way: `DecisionsTold` from the table to the trail,
  `OutputApproved` to what an approve step puts out, `ContextApproved` to the context, where a
  name keeps its meaning until a later step takes it, and `WrittenApproved` to what an apply
  step writes. All four are needed, as they are steps of different handlers.

**DaemonProofs, the daemon**, from `ConstantsAssumption`. `SoleDaemon`: a daemon that did not
race is named, is alone, and is what every start command under way has read, so all of them are
refused and nobody truncates the file or removes it. For the watcher, `WindowHoldsTheRest`: a
file outside the window was called back with what the last poll found, or later.

**DaemonProofs, the scheduler**, from `BoundsAssumption`. A live loop is the registered one of its
id and serves the listed job, or `add_job` overwrote its entry; such a loop is registered
nowhere (`ReplacedUnregistered`), so nothing that is done to a registered task touches it. The
file is only written from the table, and what was answered describes the table
(`AnswersListed`). `StartsAfterStop` is what the owner, not the scheduler, ensures.

**DaemonProofs, the migrations**, from `NoOneAssumption`, for any number of processes and users
and the real schema. `VersionsTell` is about `db`, which changes at a commit: what is committed
must be followed while it is being made. `Executed` does so for a process (the objects of the
lines before its own are there for it to see, and after an update it holds the transaction),
`HolderOf` says what the holder of it does not meet, as nobody else writes meanwhile: the
column it has found missing, and, unless it began with an update, the row of its version; and
`RolesAtWork` follows the roles line by line: in the midst of an upgrade a user has a role of
the old version that no update before this line replaces, or one of the new. That the replaced
roles are all the roles of the old version, and none of the new, is a fact about the code's
lists (`Statements`, `RolesFollow`), proved once for all upgrades. For `SomeoneGetsThrough`,
`Undoomed`: a process raises only because another has executed the same statement first, and
that one is ahead and does not raise for it; so some process at work is not doomed until the
last version is recorded, unless one died or gave up (`Survivor`).

**TokensProofs**, from `BoundsAssumption`. While nothing excuses a loss, one call is under way
at most (`OneCall`), and who is alone when Microsoft answers ends the excuse; the file is empty
while it is open, and its writer holds the newest token (`OpenIsTorn`); a Google manager has the
newest token or none (`ManagersCurrent`). After a logout no writer is attached to the file, and
who still waits for an answer began before it (`QuietAfterLogout`).

**StaleMattersProofs**, from `WebAssumption` and `StaleAssumption`; the theorems about `Web` are
proved of the composition, so the pass is among the things that may interfere. `OneRecords`: one
request at most is between the two store calls of `update_status`, and until it is through the
row holds what it wants to tell of (`RequestsKnow`). `EndedGone`: a session that ended has no
row. `RowsStand`: a matter on the list of the pass is active, or something was told of it
since the pass began, which makes it recent, or its status changed untold; `LookStands` says
the same of the look at the one to be nudged, and that what it saw is older than the threshold.
For a matter without activities that is the date in the listed row: `RowsDated` has it not
before the matter's creation, from `Dated`, the same of the row in the table, which keeps its
creation while its date and the clock go on.

**DeadlinesProofs**, from `WindowsAssumption` and `BoundsAssumption`. The list of a pass was true
when it was read; what stays true of it whatever people do meanwhile is `ListedOnce` and
`NotMissedYet` (no miss is recorded of a deadline that the pass has not come to, as only the
pass marks one missed). `AlertStands`: the alert under way is not keyed, and every wider window
is.

**IntakeProofs**, from `ItemsAssumption` and `LimitsAssumption`. `StageStands`: what the
handler's place in an item says of matter, contact, link and text. `JiraOwes` and `SlackOwes`:
an item that exists has its matter, is on the list, was beyond the limit, or came after the
query; a Jira issue of the last kind is lost to the cursor (`late`), a Slack message is newer
than all the list holds, and the cursor does not reach it.

**FeedbackProofs, the drafts**, from `BoundsAssumption` and `EntriesAssumption`. `RowsTell` is
`StatusExplained` and `UndecidedUntouched` row by row, and it is inductive only with
`CommandsInProgress`: a command may have read an entry that another has edited since, but the
confidence, by which it decides, is the suggestion's and stays, and who goes on to decide after
an edit has written it. `RunsInProgress` counts the rows of a run against its suggestions: a
row is added at the end, so the rank of every other row of the run stays (`CreateDraftStep`).

**FeedbackProofs, the rules**, from `SuggestionsAssumption` and `NarrativesAssumption`. A rule is
computed in one transaction, its row looked up in the next and written in a third, and
decisions are recorded meanwhile. `LearnersBorneOut`: what bore it out when it was computed still
does, as decisions are only added and a count only grows, so `RulesBorneOut` survives the write.
That what the analyses compute is borne out at all is `LongestCommonPrefix` being a prefix of
all the narratives (`CommonPrefix`) and the words counted occurring twice. `ItemsBounded` makes
the decisions of a run finite, without which their number means nothing. `FoundRows` and
`LearnersApart` are for `OneRowPerRule`: rows keep type and matter, and until two learn at once
nobody inserts between a look-up and its write.

**What the proofs changed.** A case distinction of `verify_run` and one of the cache writer had
alternatives that were both true, which TLC resolves by order and the logic does not; they are
nested conditions now, as in the code. The order of deadlines with one due date was fixed in
the model and is open in the query. `NudgesDeserved` failed for a third request on one matter,
which the run's two do not reach: what it says of the status now excepts every change that is
not told yet. Lists that the database sorts, and selections from a log, are stated by what they are
(the functions that ascend, the positions with their ranks), as the library's sorting and
selecting operators are choices or recursions that the provers cannot look into. For the same
reason a process of `Migrations` has its place in the statements instead of the sequence of
those left, the drafts of a run are a set of places, and the entries and rules of `Learning`
are members of record sets. `VersionsTell` now also says that the tables of the base schema are
there, which the proof needs and no property had said.

**Only model-checked**: the liveness properties (`RunSettles`, `OverdueSettles`,
`EventuallyTracked`, `LoopsServe`, `PendingEnds`, `SilenceEnds`, `CallsEnd`) and with them
ENABLED, which are beyond the prover. What a recursive definition computes for every input is
too, which is why the modules have no recursive operator.

## Disagreements found

The first has a run of its own. The others show in the passing runs, in the exceptions their
properties have to make; each exception is needed, TLC refutes the property without it.

| Module | Code | Promise |
|---|---|---|
| `Intake` (`intake_jira_lost`) | the Jira cursor is the time the handler ends, so an issue filed since its query is not returned again (`automation/intake.py:93`) | "updated since that timestamp" (the automation design document, line 71) |
| `AuditLog`, in `VerifyBothExact` | one torn line in `events.jsonl` fails the verification of every run (`core/audit.py:288`) | "Verification is run-scoped" (`docs/audit-schema.md:19`) |
| `WorkflowRunner`, `Gated` in `EffectsApproved` | `--approve` allows the write of any apply step, whether or not an approve step came before (`core/policy.py:42`) | "Human-in-the-loop approval before external side effects" (`docs/policy-model.md:16`) |
| `Deadlines`, no property | `mark_deadline_missed` overwrites a deadline completed since the pass read its list (`matters/store.py:377`) | `test_skips_completed_deadlines` (`tests/test_automation_deadlines.py:105`) |
| `Scheduler`, `replaced` in `LoopsAccountedFor` | `add_job` under an id in use leaves the old loop uncancelled (`daemon/scheduler.py:80`) | "Gracefully cancel all job loops." (`daemon/scheduler.py:116`) |
| `Daemon`, `unclean` in `NameIsDaemon` | a second `daemon stop` during the clean-up skips `remove_pid` (`cli.py:1054`) | the `finally` block removes the PID file (`cli.py:1059`) |
| `Daemon`, `raced` in `DaemonIsNamed` | two starts at once both go on, and the first to stop removes the other's file (`daemon/process.py:58`) | "Raise RuntimeError if a daemon is already running" (`ensure_not_running`) |
| `Learning`, `together` in `OneRowPerRule` | two commands that learn at once insert two rows (`learning/patterns.py:311`) | "Dedup: update existing pattern with same type + matter_id" (`learning/patterns.py:310`) |

Two kinds of rules can never be learned: the runner stores no entry with a rejection
(`core/runner.py:424`), and an entry it stores with an approval has no
`original_duration_minutes`. So `RejectionRules` and `Corrections` stay empty in a behaviour,
and `RulesBorneOut` says of every stored rule that it is of one of the other two kinds.

One more needs no model: `matteros team init` creates the administrator with the role `dev`
(`cli.py:1154`), which `create_user` refuses (`team/users.py:75`), so the command, whose help
says "create users table, admin account", always ends in an exception; `team add-user` does
with its default role `attorney`. `Web` has users made with a role that is accepted.

## Not modelled

- Alert texts, the access rules of `matters/auth.py`, which nothing calls, the LLM adapter's
  retries and the web run service: planned, below.
- `daemon status` and `logs`, which only read, and `DaemonRunner` (`daemon/runner.py`), which
  no command uses.
- Connectors, LLM providers, plugin discovery, configuration, skills, reports: input and
  output or sequential computation without state that other parts depend on. The runner has
  their answers and exceptions as nondeterministic choices.
- CLI and TUI, templates and routing: presentation; the commands that change state do so
  through the components above.
- In modelled parts: the payload of audit events and its redaction, the text of activities
  and Slack messages, calendar arithmetic, the displayed attributes of a job, the
  text of a draft's entry and the amounts in it, HTTP and the content of tokens, the spelling
  of narratives, the columns of tables that no upgrade touches. Two engines polling at once
  are left out of `Intake`, as nothing in the repository starts a second one.

## Plan

1. Done: `AuditTrail`, `AuditLog`, `WorkflowRunner`, `Deadlines`, `Intake`, `Scheduler`,
   `Drafts`, `Web` with `StaleMatters`, `Daemon`, `Tokens`, `Learning`, `Migrations` and their
   runs; theorems for every invariant and action property that is checked, and the refinement.
2. The access rules of matters as pure operators beside `Web`; the web run service, whose
   `trigger_run` answers with an id that is not the run's; the LLM adapter's retry loop; two
   engines polling at once in `Intake`; calendar arithmetic (29 February) compared with a
   reference.
3. Theorems about what item 2 adds, each with the invariant it needs. Of what there is, only
   liveness has no theorem.
