--------------------------- MODULE WorkflowRunner ---------------------------
(***************************************************************************)
(* Execution of a playbook: matteros/core/runner.py over the runs, steps   *)
(* and approvals tables of matteros/core/store.py, the policy checks of    *)
(* matteros/core/policy.py and the audit trail (AuditTrail, which AuditLog *)
(* implements).                                                            *)
(*                                                                         *)
(* Every store call and every audit append is a step of its own: each is a *)
(* transaction other processes see, each can raise, and the process can    *)
(* die between any two.  An append that raises may have recorded its event *)
(* (the row is in SQLite, the JSONL write failed).  What connectors, the   *)
(* model and the reviewer answer is any value or an exception.             *)
(*                                                                         *)
(* Time entries are opaque; Raw stands for any other step output           *)
(* (activities, clusters, a plan, a connector's response).                 *)
(***************************************************************************)
EXTENDS Integers, SequencesExt

CONSTANTS
    Runs,           \* run ids
    Playbooks,      \* [connectors : SUBSET Connectors, steps : sequence of Step]
    Connectors,     \* ids of the registered connectors
    Entries,        \* time entries
    Suggestions,    \* entry lists a model may answer with
    Keys,           \* step ids and output keys: the names in a run's context
    Raw,            \* an output that is no list of time entries
    Unset,          \* a name the context does not have
    None            \* a run without a playbook, an event without a decision

StepType == {"collect", "transform", "llm", "approve", "apply"}

(* mode: what the connector's manifest says of the step's operation; out:  *)
(* the step's output key, its id if it has none.                           *)
Step == [id : Keys, type : StepType, mode : {"read", "write", "unknown"},
         source : Keys, out : Keys]

Options == [dry_run : BOOLEAN, approve_mode : BOOLEAN, handler : BOOLEAN]

EventTypes == {"run.started", "run.completed", "run.failed",
               "step.started", "step.completed", "step.failed",
               "llm.output.validated", "approval.skipped_dry_run", "approval.recorded"}

(* The code compares with "approve"; any other string rejects.             *)
Decisions == {"approve", "reject"}

(* step 0: an event of the run; item and decision: approval.recorded only. *)
Events == [type : EventTypes, step : Nat, item : Nat, decision : Decisions \cup {None}]

(* PlaybookDefinition.validate_steps: at least one step, ids are unique.   *)
ASSUME PlaybooksAssumption ==
    \A p \in Playbooks :
        /\ p.steps \in Seq(Step) /\ p.steps # <<>>
        /\ \A i, j \in DOMAIN p.steps : p.steps[i].id = p.steps[j].id => i = j

ASSUME ValuesAssumption ==
    /\ Suggestions \subseteq Seq(Entries)
    /\ Raw \notin Seq(Entries)
    /\ Unset \notin Seq(Entries) \cup {Raw}
    /\ None \notin Playbooks

Values == Seq(Entries) \cup {Raw}

Approval == [step : Nat, item : Nat, decision : Decisions, entry : Entries \cup {None}]
Effect == [step : Nat, payload : Values]

VARIABLES
    playbook,   \* playbook[r], options[r]: what run r was called with
    options,
    runRow,     \* runs.status
    stepRows,   \* steps.status of the run's rows, in insertion order
    approvals,  \* the run's approvals rows, in insertion order
    trail,      \* the run's audit events (AuditTrail)
    written,    \* what Connector.write did outside: [step, payload], oldest first
    context,    \* context[r]: name -> value
    pc,         \* what run() does next
    item,       \* loop index of _execute_approve, 0-based as in the code
    output,     \* the value the current executor is about to return
    faulted     \* history: a store or audit call of the run raised, or it died

called == <<playbook, options>>
tables == <<runRow, stepRows, approvals>>
locals == <<context, item, output>>
vars == <<playbook, options, runRow, stepRows, approvals, trail, written, context,
          pc, item, output, faulted>>

Trail == INSTANCE AuditTrail

TypeOK ==
    /\ playbook \in [Runs -> Playbooks \cup {None}]
    /\ options \in [Runs -> Options]
    /\ runRow \in [Runs -> {"none", "running", "completed", "failed"}]
    /\ stepRows \in [Runs -> Seq({"running", "completed", "failed"})]
    /\ approvals \in [Runs -> Seq(Approval)]
    /\ Trail!TrailTypeOK
    /\ written \in [Runs -> Seq(Effect)]
    /\ context \in [Runs -> [Keys -> Values \cup {Unset}]]
    /\ pc \in [Runs -> {"idle", "created", "loop", "step_inserted", "execute", "validated",
                        "approve", "decided", "return", "step_stored", "step_fail",
                        "step_failed", "run_stored", "run_fail", "run_failed",
                        "returned", "raised", "dead"}]
    /\ item \in [Runs -> Nat]
    /\ output \in [Runs -> Values]
    /\ faulted \in [Runs -> BOOLEAN]

Init ==
    /\ playbook = [r \in Runs |-> None]
    /\ options = [r \in Runs |-> [dry_run |-> FALSE, approve_mode |-> FALSE, handler |-> FALSE]]
    /\ runRow = [r \in Runs |-> "none"]
    /\ stepRows = [r \in Runs |-> <<>>]
    /\ approvals = [r \in Runs |-> <<>>]
    /\ Trail!TrailInit
    /\ written = [r \in Runs |-> <<>>]
    /\ context = [r \in Runs |-> [k \in Keys |-> Unset]]
    /\ pc = [r \in Runs |-> "idle"]
    /\ item = [r \in Runs |-> 0]
    /\ output = [r \in Runs |-> Raw]
    /\ faulted = [r \in Runs |-> FALSE]
-----------------------------------------------------------------------------
Steps(r) == playbook[r].steps
At(r) == Len(stepRows[r])           \* the current step is the last one inserted
Current(r) == Steps(r)[At(r)]

(* context.get(source, [])                                                 *)
Source(r) == LET v == context[r][Current(r).source] IN IF v = Unset THEN <<>> ELSE v

Event(type, step) == [type |-> type, step |-> step, item |-> 0, decision |-> None]

Goto(r, label) == pc' = [pc EXCEPT ![r] = label]

(* A store call raises: nothing is committed.                              *)
Raises(r, label) ==
    /\ Goto(r, label)
    /\ faulted' = [faulted EXCEPT ![r] = TRUE]

(* runner._audit_and_emit: the event is recorded and the call returns, or  *)
(* it raises, with or without the event recorded.                          *)
AuditAndEmit(r, event, next, handler) ==
    \/ Trail!Record(r, event) /\ Goto(r, next) /\ UNCHANGED faulted
    \/ Trail!Record(r, event) /\ Raises(r, handler)
    \/ UNCHANGED trail /\ Raises(r, handler)

SetLastStep(r, status) == stepRows' = [stepRows EXCEPT ![r][At(r)] = status]
-----------------------------------------------------------------------------
(***************************************************************************)
(* WorkflowRunner.run                                                      *)
(***************************************************************************)

(* policy.ensure_declared_connectors, before there is a run row.           *)
DeclaresAvailableConnectors(p) == p.connectors \subseteq Connectors

(* The policy check and create_run; either may raise, and then no row and  *)
(* no event is left.                                                       *)
CreateRun(r) ==
    /\ pc[r] = "idle"
    /\ \E p \in Playbooks, o \in Options :
        /\ playbook' = [playbook EXCEPT ![r] = p]
        /\ options' = [options EXCEPT ![r] = o]
        /\ \/ /\ DeclaresAvailableConnectors(p)
              /\ runRow' = [runRow EXCEPT ![r] = "running"]
              /\ Goto(r, "created")
              /\ UNCHANGED faulted
           \/ DeclaresAvailableConnectors(p) /\ Raises(r, "raised") /\ UNCHANGED runRow
           \/ ~ DeclaresAvailableConnectors(p) /\ Goto(r, "raised") /\ UNCHANGED <<runRow, faulted>>
    /\ UNCHANGED <<stepRows, approvals, trail, written, locals>>

(* Outside the try block: an append that raises leaves run() at once.      *)
RecordRunStarted(r) ==
    /\ pc[r] = "created"
    /\ AuditAndEmit(r, Event("run.started", 0), "loop", "raised")
    /\ UNCHANGED <<called, tables, written, locals>>

(* All steps are done: finish_run(COMPLETED).                              *)
FinishRun(r) ==
    /\ pc[r] = "loop"
    /\ At(r) = Len(Steps(r))
    /\ \/ /\ runRow' = [runRow EXCEPT ![r] = "completed"]
          /\ Goto(r, "run_stored")
          /\ UNCHANGED faulted
       \/ Raises(r, "run_fail") /\ UNCHANGED runRow
    /\ UNCHANGED <<called, stepRows, approvals, trail, written, locals>>

RecordRunCompleted(r) ==
    /\ pc[r] = "run_stored"
    /\ AuditAndEmit(r, Event("run.completed", 0), "returned", "run_fail")
    /\ UNCHANGED <<called, tables, written, locals>>

(* Mutation: run() re-raises without settling the row.                     *)
FailRunWithoutRow(r) ==
    /\ pc[r] = "run_fail"
    /\ Goto(r, "run_failed")
    /\ UNCHANGED <<called, tables, trail, written, locals, faulted>>

(* The except block of run(): finish_run(FAILED), also over a row that     *)
(* says completed.                                                         *)
FailRun(r) ==
    /\ pc[r] = "run_fail"
    /\ \/ /\ runRow' = [runRow EXCEPT ![r] = "failed"]
          /\ Goto(r, "run_failed")
          /\ UNCHANGED faulted
       \/ Raises(r, "raised") /\ UNCHANGED runRow
    /\ UNCHANGED <<called, stepRows, approvals, trail, written, locals>>

RecordRunFailed(r) ==
    /\ pc[r] = "run_failed"
    /\ AuditAndEmit(r, Event("run.failed", 0), "raised", "raised")
    /\ UNCHANGED <<called, tables, written, locals>>
-----------------------------------------------------------------------------
(***************************************************************************)
(* WorkflowRunner._run_step                                                *)
(***************************************************************************)
StartStep(r) ==
    /\ pc[r] = "loop"
    /\ At(r) < Len(Steps(r))
    /\ \/ /\ stepRows' = [stepRows EXCEPT ![r] = Append(@, "running")]
          /\ Goto(r, "step_inserted")
          /\ UNCHANGED faulted
       \/ Raises(r, "run_fail") /\ UNCHANGED stepRows
    /\ UNCHANGED <<called, runRow, approvals, trail, written, locals>>

(* Mutation: a failed audit of a step's start is logged and ignored.       *)
RecordStepStartedBestEffort(r) ==
    /\ pc[r] = "step_inserted"
    /\ AuditAndEmit(r, Event("step.started", At(r)), "execute", "execute")
    /\ UNCHANGED <<called, tables, written, locals>>

(* Outside the try block of _run_step: the row stays "running".            *)
RecordStepStarted(r) ==
    /\ pc[r] = "step_inserted"
    /\ AuditAndEmit(r, Event("step.started", At(r)), "execute", "run_fail")
    /\ UNCHANGED <<called, tables, written, locals>>

(* The output is in the context before finish_step, so it stays there if   *)
(* finish_step or the append after it raises.                              *)
FinishStep(r) ==
    /\ pc[r] = "return"
    /\ context' = [context EXCEPT ![r][Current(r).out] = output[r],
                                  ![r][Current(r).id] = output[r]]
    /\ \/ /\ SetLastStep(r, "completed")
          /\ Goto(r, "step_stored")
          /\ UNCHANGED faulted
       \/ Raises(r, "step_fail") /\ UNCHANGED stepRows
    /\ UNCHANGED <<called, runRow, approvals, trail, written, item, output>>

(* Mutation: a failed audit of a step's end is logged and ignored.         *)
RecordStepCompletedBestEffort(r) ==
    /\ pc[r] = "step_stored"
    /\ AuditAndEmit(r, Event("step.completed", At(r)), "loop", "loop")
    /\ UNCHANGED <<called, tables, written, locals>>

RecordStepCompleted(r) ==
    /\ pc[r] = "step_stored"
    /\ AuditAndEmit(r, Event("step.completed", At(r)), "loop", "step_fail")
    /\ UNCHANGED <<called, tables, written, locals>>

(* The except block of _run_step, also over a row that says completed.     *)
FailStep(r) ==
    /\ pc[r] = "step_fail"
    /\ \/ /\ SetLastStep(r, "failed")
          /\ Goto(r, "step_failed")
          /\ UNCHANGED faulted
       \/ Raises(r, "run_fail") /\ UNCHANGED stepRows
    /\ UNCHANGED <<called, runRow, approvals, trail, written, locals>>

(* Mutation: _run_step returns a failed StepResult instead of raising.     *)
RecordStepFailedAndGoOn(r) ==
    /\ pc[r] = "step_failed"
    /\ AuditAndEmit(r, Event("step.failed", At(r)), "loop", "run_fail")
    /\ UNCHANGED <<called, tables, written, locals>>

RecordStepFailed(r) ==
    /\ pc[r] = "step_failed"
    /\ AuditAndEmit(r, Event("step.failed", At(r)), "run_fail", "run_fail")
    /\ UNCHANGED <<called, tables, written, locals>>
-----------------------------------------------------------------------------
(***************************************************************************)
(* The step handlers                                                       *)
(***************************************************************************)
Executing(r, type) == pc[r] = "execute" /\ Current(r).type = type

Return(r, value) ==
    /\ output' = [output EXCEPT ![r] = value]
    /\ Goto(r, "return")

(* The handler raises: a connector or provider error, a policy error, an   *)
(* unknown connector or function, a value of the wrong shape.              *)
HandlerRaises(r) ==
    /\ Goto(r, "step_fail")
    /\ UNCHANGED output

(* policy.validate_operation                                               *)
OperationAllowed(step, o) ==
    /\ step.mode # "unknown"
    /\ step.mode = "write" => step.type = "apply" /\ (o.dry_run \/ o.approve_mode)

ExecuteCollect(r) ==
    /\ Executing(r, "collect")
    /\ \/ OperationAllowed(Current(r), options[r]) /\ Return(r, Raw)
       \/ HandlerRaises(r)
    /\ UNCHANGED <<called, tables, trail, written, context, item, faulted>>

ExecuteTransform(r) ==
    /\ Executing(r, "transform")
    /\ Return(r, Raw) \/ HandlerRaises(r)
    /\ UNCHANGED <<called, tables, trail, written, context, item, faulted>>

(* The model's answer, validated: entries, or anything for another task.   *)
ExecuteLlm(r) ==
    /\ Executing(r, "llm")
    /\ \/ \E answer \in Suggestions \cup {Raw} :
             /\ output' = [output EXCEPT ![r] = answer]
             /\ Goto(r, "validated")
       \/ HandlerRaises(r)
    /\ UNCHANGED <<called, tables, trail, written, context, item, faulted>>

RecordLlmValidated(r) ==
    /\ pc[r] = "validated"
    /\ AuditAndEmit(r, Event("llm.output.validated", At(r)), "return", "step_fail")
    /\ UNCHANGED <<called, tables, written, locals>>

(* A dry run passes every suggestion on and records that nobody was asked. *)
ExecuteApproveDryRun(r) ==
    /\ Executing(r, "approve")
    /\ Source(r) # Raw
    /\ options[r].dry_run
    /\ output' = [output EXCEPT ![r] = Source(r)]
    /\ AuditAndEmit(r, Event("approval.skipped_dry_run", At(r)), "return", "step_fail")
    /\ UNCHANGED <<called, tables, written, context, item>>

(* No list of entries to approve, no --approve or no handler.              *)
ExecuteApproveRaises(r) ==
    /\ Executing(r, "approve")
    /\ \/ Source(r) = Raw
       \/ ~ options[r].dry_run /\ ~ (options[r].approve_mode /\ options[r].handler)
    /\ HandlerRaises(r)
    /\ UNCHANGED <<called, tables, trail, written, context, item, faulted>>

ExecuteApprove(r) ==
    /\ Executing(r, "approve")
    /\ Source(r) # Raw
    /\ ~ options[r].dry_run /\ options[r].approve_mode /\ options[r].handler
    /\ output' = [output EXCEPT ![r] = <<>>]
    /\ item' = [item EXCEPT ![r] = 0]
    /\ Goto(r, "approve")
    /\ UNCHANGED <<called, tables, trail, written, context, faulted>>

(* The reviewer decides on the next item, perhaps editing it, and the      *)
(* decision is inserted.                                                   *)
DecideItem(r) ==
    /\ pc[r] = "approve"
    /\ item[r] < Len(Source(r))
    /\ \/ \E decision \in Decisions, entry \in Entries :
             /\ approvals' = [approvals EXCEPT ![r] = Append(@,
                    [step |-> At(r), item |-> item[r], decision |-> decision,
                     entry |-> IF decision = "approve" THEN entry ELSE None])]
             /\ Goto(r, "decided")
             /\ UNCHANGED faulted
       \/ Raises(r, "step_fail") /\ UNCHANGED approvals
       \/ Goto(r, "step_fail") /\ UNCHANGED <<approvals, faulted>>
    /\ UNCHANGED <<called, runRow, stepRows, trail, written, locals>>

(* Mutation: every decided entry joins the output, also a rejected one.    *)
RecordApprovalOfAll(r) ==
    LET row == Last(approvals[r]) IN
    /\ pc[r] = "decided"
    /\ AuditAndEmit(r, [Event("approval.recorded", At(r)) EXCEPT
                           !.item = row.item, !.decision = row.decision],
                    "approve", "step_fail")
    /\ item' = [item EXCEPT ![r] = @ + 1]
    /\ output' = [output EXCEPT ![r] = Append(@, row.entry)]
    /\ UNCHANGED <<called, tables, written, context>>

(* Mutation: the suggestion joins the output, not the reviewer's edit.     *)
RecordApprovalOfSuggestion(r) ==
    LET row == Last(approvals[r]) IN
    /\ pc[r] = "decided"
    /\ AuditAndEmit(r, [Event("approval.recorded", At(r)) EXCEPT
                           !.item = row.item, !.decision = row.decision],
                    "approve", "step_fail")
    /\ item' = [item EXCEPT ![r] = @ + 1]
    /\ output' = IF row.decision = "approve"
                     THEN [output EXCEPT ![r] = Append(@, Source(r)[item[r] + 1])]
                     ELSE output
    /\ UNCHANGED <<called, tables, written, context>>

(* The decision is recorded; an approved entry joins the output.           *)
RecordApproval(r) ==
    LET row == Last(approvals[r]) IN
    /\ pc[r] = "decided"
    /\ AuditAndEmit(r, [Event("approval.recorded", At(r)) EXCEPT
                           !.item = row.item, !.decision = row.decision],
                    "approve", "step_fail")
    /\ item' = [item EXCEPT ![r] = @ + 1]
    /\ output' = IF row.decision = "approve"
                     THEN [output EXCEPT ![r] = Append(@, row.entry)]
                     ELSE output
    /\ UNCHANGED <<called, tables, written, context>>

FinishApprove(r) ==
    /\ pc[r] = "approve"
    /\ item[r] = Len(Source(r))
    /\ Goto(r, "return")
    /\ UNCHANGED <<called, tables, trail, written, locals, faulted>>

(* Not allowed, or a dry run: the connector is not called.                 *)
ExecuteApplyDryRun(r) ==
    /\ Executing(r, "apply")
    /\ \/ OperationAllowed(Current(r), options[r]) /\ options[r].dry_run /\ Return(r, Raw)
       \/ HandlerRaises(r)
    /\ UNCHANGED <<called, tables, trail, written, context, item, faulted>>

(* connector.write: it answers, or raises after the outside world changed. *)
(* A connector refuses an operation its manifest lists as a read one.      *)
ExecuteApply(r) ==
    /\ Executing(r, "apply")
    /\ OperationAllowed(Current(r), options[r])
    /\ ~ options[r].dry_run
    /\ Current(r).mode = "write"
    /\ written' = [written EXCEPT ![r] = Append(@, [step |-> At(r), payload |-> Source(r)])]
    /\ Return(r, Raw) \/ HandlerRaises(r)
    /\ UNCHANGED <<called, tables, trail, context, item, faulted>>
-----------------------------------------------------------------------------
Crash(r) ==
    /\ pc[r] \notin {"idle", "returned", "raised", "dead"}
    /\ Raises(r, "dead")
    /\ UNCHANGED <<called, tables, trail, written, locals>>

(* What run() does by itself once called; DecideItem waits for a person.   *)
Proceed(r) ==
    \/ RecordRunStarted(r)     \/ FinishRun(r)
    \/ RecordRunCompleted(r)   \/ FailRun(r)
    \/ RecordRunFailed(r)      \/ StartStep(r)
    \/ RecordStepStarted(r)    \/ FinishStep(r)
    \/ RecordStepCompleted(r)  \/ FailStep(r)
    \/ RecordStepFailed(r)     \/ ExecuteCollect(r)
    \/ ExecuteTransform(r)     \/ ExecuteLlm(r)
    \/ RecordLlmValidated(r)   \/ ExecuteApproveDryRun(r)
    \/ ExecuteApproveRaises(r) \/ ExecuteApprove(r)
    \/ RecordApproval(r)       \/ FinishApprove(r)
    \/ ExecuteApplyDryRun(r)   \/ ExecuteApply(r)

Next == \E r \in Runs : CreateRun(r) \/ Proceed(r) \/ DecideItem(r) \/ Crash(r)

(* run() is a plain sequence of calls that return or raise (connectors and *)
(* providers are called with timeouts), so a run that was called goes on;  *)
(* nobody has to start a run or to answer an approval prompt.              *)
Spec == Init /\ [][Next]_vars /\ \A r \in Runs : WF_vars(Proceed(r))
-----------------------------------------------------------------------------
(***************************************************************************)
(* Properties                                                              *)
(***************************************************************************)
Recorded(r, type, step) ==
    \E i \in DOMAIN trail[r] : trail[r][i].type = type /\ trail[r][i].step = step

(* The step whose output a step reads: the last one before it that writes  *)
(* the name.                                                               *)
Producers(p, s) ==
    {t \in 1..(s - 1) : p.steps[s].source \in {p.steps[t].id, p.steps[t].out}}

(* The newest of them, if there is one.                                    *)
LastProducer(p, s) == {t \in Producers(p, s) : \A u \in Producers(p, s) : u <= t}

(* What the bundled playbooks do: every apply step applies what an approve *)
(* step put out.                                                           *)
Gated(p) ==
    \A s \in DOMAIN p.steps : p.steps[s].type = "apply" =>
        \E t \in LastProducer(p, s) : p.steps[t].type = "approve"

(* The story is what the log says at these positions, in their order.      *)
Tells(story, log, at) ==
    /\ Len(story) = Cardinality(at)
    /\ \A k \in at : story[Cardinality({j \in at : j <= k})] = log[k]

DecisionsAt(r, s) == {i \in DOMAIN approvals[r] : approvals[r][i].step = s}

ApprovedAt(r, s) == {i \in DecisionsAt(r, s) : approvals[r][i].decision = "approve"}

DecidedEntries(r) == [i \in DOMAIN approvals[r] |-> approvals[r][i].entry]

ApprovalEvent(row) == [type |-> "approval.recorded", step |-> row.step,
                       item |-> row.item, decision |-> row.decision]

(* The events of a run that are of these types: their positions.           *)
EventsOf(r, types) == {i \in DOMAIN trail[r] : trail[r][i].type \in types}

(* Whatever the playbook, nothing outside changes unless the run was       *)
(* started with --approve and without --dry-run, the step is an apply step *)
(* and its operation a declared write, and the trail already names the run *)
(* and the step that did it, although any append may fail                  *)
(* (policy.validate_operation, runner._execute_apply).                     *)
EffectsAudited ==
    \A r \in Runs : \A i \in DOMAIN written[r] :
        LET s == written[r][i].step IN
        /\ ~ options[r].dry_run /\ options[r].approve_mode
        /\ s \in DOMAIN Steps(r) /\ Steps(r)[s].type = "apply" /\ Steps(r)[s].mode = "write"
        /\ Recorded(r, "run.started", 0) /\ Recorded(r, "step.started", s)

(* In a gated playbook what leaves the system is what the reviewer said:   *)
(* the entries approved at the approve step, as edited, in their order and *)
(* no other, and every decision of that step is in the trail before the    *)
(* first of them leaves (runner._execute_approve, _execute_apply).         *)
EffectsApproved ==
    \A r \in Runs : \A i \in DOMAIN written[r] : Gated(playbook[r]) =>
        \A s \in LastProducer(playbook[r], written[r][i].step) :
            /\ written[r][i].payload # Raw
            /\ Tells(written[r][i].payload, DecidedEntries(r), ApprovedAt(r, s))
            /\ \A k \in DecisionsAt(r, s) : ApprovalEvent(approvals[r][k]) \in Range(trail[r])

(* Approval rows and approval events tell one story: the events are the    *)
(* rows in order, and only the newest row may lack its event (the append   *)
(* is due, failed or the process died); then nothing is decided any more.  *)
ApprovalsFollowed ==
    \A r \in Runs : \E told \in {Len(approvals[r]) - 1, Len(approvals[r])} :
        Tells([i \in 1..told |-> ApprovalEvent(approvals[r][i])],
              trail[r], EventsOf(r, {"approval.recorded"}))

(* What the reviewer decided is what is recorded and what leaves.          *)
DecisionsCount == EffectsApproved /\ ApprovalsFollowed

(* A step begins only on the outputs of steps that are completed in the    *)
(* table and in the trail: of all step rows only the newest is running or  *)
(* failed, and every older one has its two events (runner.run's loop).     *)
StepsBuildOnAuditedSteps ==
    \A r \in Runs : \A s \in 1..(At(r) - 1) :
        /\ stepRows[r][s] = "completed"
        /\ Recorded(r, "step.started", s)
        /\ Recorded(r, "step.completed", s)

Lifecycle == {"run.started", "run.completed", "run.failed",
              "step.started", "step.completed", "step.failed"}

(* The trail tells this of the run and its steps, and nothing else.        *)
Says(r, story) == Tells(story, trail[r], EventsOf(r, Lifecycle))

(* The first 2n+1 lifecycle events of a run without a failure.             *)
Story(n) ==
    [i \in 1..(2 * n + 1) |->
        IF i = 1 THEN Event("run.started", 0)
                 ELSE Event(IF i % 2 = 0 THEN "step.started" ELSE "step.completed", i \div 2)]

(* A run whose caller got a summary is completed, with all its steps, in   *)
(* the tables and in the trail, which tells every step once, in order and  *)
(* nothing of a failure; a completed row never has a step that is not.     *)
ReturnedRunIsComplete ==
    \A r \in Runs :
        /\ runRow[r] = "completed" =>
               /\ At(r) = Len(Steps(r))
               /\ Range(stepRows[r]) = {"completed"}
        /\ pc[r] = "returned" =>
               /\ runRow[r] = "completed"
               /\ Says(r, Append(Story(At(r)), Event("run.completed", 0)))

(* A run that failed for a reason of its own (a policy refusal, a          *)
(* connector, the model, the reviewer) and not because the store or the    *)
(* log did, is told as such: its last step and its row are failed, and the *)
(* trail ends with step.failed and run.failed after the steps before it.   *)
FailureIsTold ==
    \A r \in Runs : pc[r] = "raised" /\ ~ faulted[r] /\ runRow[r] # "none" =>
        LET n == At(r) IN
        /\ runRow[r] = "failed"
        /\ stepRows[r] = Append([s \in 1..(n - 1) |-> "completed"], "failed")
        /\ Says(r, Story(n - 1) \o <<Event("step.started", n),
                                     Event("step.failed", n), Event("run.failed", 0)>>)

(* However run() ends, tables and trail tell how.                          *)
OutcomeIsTold == ReturnedRunIsComplete /\ FailureIsTold

(* A run that has its row ends with that row completed or failed, unless   *)
(* the store or the log failed, the process died or the reviewer never     *)
(* answers.                                                                *)
RunSettles ==
    \A r \in Runs :
        \/ pc[r] = "created" ~> runRow[r] \in {"completed", "failed"} \/ faulted[r]
        \/ <>[](pc[r] = "approve")
=============================================================================
