------------------------ MODULE WorkflowRunnerProofs ------------------------
(***************************************************************************)
(* Theorems about WorkflowRunner, for any runs, playbooks, connectors and  *)
(* values.                                                                 *)
(*                                                                         *)
(* The argument: what run() may rely on at each point of its control flow  *)
(* (Control) is kept by every call it makes, whether the call returns or   *)
(* raises: a point past an append is only reached when the append          *)
(* returned, so the event is in the trail, and a trail forgets nothing.    *)
(*                                                                         *)
(* On it stand two more invariants of the same shape. Outcome says what    *)
(* the run's and the steps' events in the trail tell at each point, up to  *)
(* the run's end or its failure. Decided follows the reviewer's decisions: *)
(* from the table of approvals to the trail, to the output of the approve  *)
(* step, to the context, and to what an apply step writes outside.         *)
(***************************************************************************)
EXTENDS WorkflowRunner, FiniteSetTheorems, SequenceTheorems, TLAPS

Labels == {"idle", "created", "loop", "step_inserted", "execute", "validated",
           "approve", "decided", "return", "step_stored", "step_fail",
           "step_failed", "run_stored", "run_fail", "run_failed",
           "returned", "raised", "dead"}

(* Inside _run_step, its row inserted.                                     *)
MidStep == {"step_inserted", "execute", "validated", "approve", "decided",
            "return", "step_stored", "step_fail", "step_failed"}

(* Past the append of step.started.                                        *)
Announced == {"execute", "validated", "approve", "decided", "return", "step_stored"}

(* The first n steps are completed in the table and in the trail.          *)
Audited(r, n) ==
    \A s \in 1..n :
        /\ stepRows[r][s] = "completed"
        /\ Recorded(r, "step.started", s)
        /\ Recorded(r, "step.completed", s)

EffectAudited(r, s) ==
    /\ ~ options[r].dry_run /\ options[r].approve_mode
    /\ s \in DOMAIN Steps(r) /\ Steps(r)[s].type = "apply" /\ Steps(r)[s].mode = "write"
    /\ Recorded(r, "run.started", 0) /\ Recorded(r, "step.started", s)

Control(r) ==
    /\ pc[r] = "idle" => written[r] = <<>>
    /\ pc[r] \in {"idle", "created"} => stepRows[r] = <<>>
    /\ pc[r] # "idle" => playbook[r] \in Playbooks /\ At(r) <= Len(Steps(r))
    /\ pc[r] \in {"loop"} \cup MidStep => Recorded(r, "run.started", 0)
    /\ pc[r] \in MidStep => At(r) >= 1
    /\ pc[r] \in Announced => Recorded(r, "step.started", At(r))
    /\ pc[r] = "step_stored" => stepRows[r][At(r)] = "completed"
    /\ pc[r] = "loop" => Audited(r, At(r))
    /\ Audited(r, At(r) - 1)
    /\ \A i \in DOMAIN written[r] : EffectAudited(r, written[r][i].step)
    /\ pc[r] \in {"approve", "decided"} => output[r] \in Seq(Entries)
    /\ \A i \in DOMAIN approvals[r] :
          approvals[r][i].decision = "approve" => approvals[r][i].entry \in Entries
    /\ pc[r] = "decided" => approvals[r] # <<>>

IInv == TypeOK /\ \A r \in Runs : Control(r)
-----------------------------------------------------------------------------
LEMMA InitIInv == Init => IInv
<1> SUFFICES ASSUME Init PROVE IInv
    OBVIOUS
<1>1. TypeOK
    BY DEF Init, TypeOK, Options, Values, Trail!TrailInit, Trail!TrailTypeOK
<1>2. \A r \in Runs : Control(r)
    BY DEF Init, Control, MidStep, Announced, Audited, At, EffectAudited
<1> QED
    BY <1>1, <1>2 DEF IInv

(* A step of one run leaves what holds of another as it is.                *)
LEMMA Frame ==
    ASSUME NEW q \in Runs, Control(q),
           playbook'[q] = playbook[q], options'[q] = options[q],
           stepRows'[q] = stepRows[q], approvals'[q] = approvals[q],
           trail'[q] = trail[q], written'[q] = written[q],
           pc'[q] = pc[q], output'[q] = output[q]
    PROVE  Control(q)'
<1>1. /\ At(q)' = At(q) /\ Steps(q)' = Steps(q)
      /\ \A type, s : Recorded(q, type, s)' = Recorded(q, type, s)
    BY DEF At, Steps, Recorded
<1>2. \A n : Audited(q, n)' = Audited(q, n)
    BY <1>1 DEF Audited
<1>3. \A s : EffectAudited(q, s)' = EffectAudited(q, s)
    BY <1>1 DEF EffectAudited
<1>4. Audited(q, At(q))' = Audited(q, At(q)) /\ Audited(q, At(q) - 1)' = Audited(q, At(q) - 1)
    BY <1>1, <1>2
<1>5. \A i \in DOMAIN written[q] :
          EffectAudited(q, written[q][i].step)' = EffectAudited(q, written[q][i].step)
    BY <1>3
<1> QED
    BY <1>1, <1>4, <1>5 DEF Control

(* An append that returned recorded its event; one that raised took the    *)
(* run to its handler; nothing that was recorded is lost.                  *)
LEMMA AuditAndEmitEffect ==
    ASSUME TypeOK, NEW r \in Runs, NEW event \in Events,
           NEW next \in Labels, NEW handler \in Labels,
           AuditAndEmit(r, event, next, handler)
    PROVE  /\ trail' \in [Runs -> Seq(Events)]
           /\ pc' \in [Runs -> Labels]
           /\ faulted' \in [Runs -> BOOLEAN]
           /\ \A q \in Runs : q # r => trail'[q] = trail[q] /\ pc'[q] = pc[q]
           /\ \A type \in EventTypes, s \in Nat : Recorded(r, type, s) => Recorded(r, type, s)'
           /\ \/ pc'[r] = next /\ Recorded(r, event.type, event.step)'
              \/ pc'[r] = handler
<1>0. trail \in [Runs -> Seq(Events)] /\ pc \in [Runs -> Labels] /\ faulted \in [Runs -> BOOLEAN]
    BY DEF TypeOK, Trail!TrailTypeOK, Labels
<1>1. pc' \in [Runs -> Labels] /\ faulted' \in [Runs -> BOOLEAN]
    BY <1>0 DEF AuditAndEmit, Raises, Goto
<1>2. \A q \in Runs : q # r => pc'[q] = pc[q]
    BY <1>0 DEF AuditAndEmit, Raises, Goto
<1>3. \/ Trail!Record(r, event) /\ pc'[r] \in {next, handler}
      \/ UNCHANGED trail /\ pc'[r] = handler
    BY <1>0 DEF AuditAndEmit, Raises, Goto
<1>4. CASE UNCHANGED trail /\ pc'[r] = handler
    BY <1>0, <1>1, <1>2, <1>4 DEF Recorded
<1>5. CASE Trail!Record(r, event) /\ pc'[r] \in {next, handler}
    <2>1. trail' = [trail EXCEPT ![r] = Append(trail[r], event)]
        BY <1>5 DEF Trail!Record
    <2>2. trail[r] \in Seq(Events)
        BY <1>0
    <2>3. /\ Append(trail[r], event) \in Seq(Events)
          /\ Len(Append(trail[r], event)) = Len(trail[r]) + 1
          /\ \A i \in 1..Len(trail[r]) : Append(trail[r], event)[i] = trail[r][i]
          /\ Append(trail[r], event)[Len(trail[r]) + 1] = event
        BY <2>2, AppendProperties
    <2>4. trail' \in [Runs -> Seq(Events)] /\ trail'[r] = Append(trail[r], event)
        BY <1>0, <2>1, <2>3
    <2>5. \A q \in Runs : q # r => trail'[q] = trail[q]
        BY <1>0, <2>1
    <2>6. \A type \in EventTypes, s \in Nat : Recorded(r, type, s) => Recorded(r, type, s)'
        BY <2>2, <2>3, <2>4 DEF Recorded
    <2>7. Recorded(r, event.type, event.step)'
        BY <2>2, <2>3, <2>4 DEF Recorded
    <2> QED
        BY <1>1, <1>2, <1>5, <2>4, <2>5, <2>6, <2>7
<1> QED
    BY <1>3, <1>4, <1>5

(* The current step of a run that is in one.                               *)
LEMMA CurrentStep ==
    ASSUME IInv, NEW r \in Runs, pc[r] \in MidStep
    PROVE  /\ playbook[r] \in Playbooks
           /\ Steps(r) \in Seq(Step)
           /\ At(r) \in 1..Len(Steps(r))
           /\ Current(r) \in Step
           /\ stepRows[r] \in Seq({"running", "completed", "failed"})
<1>1. Control(r) /\ TypeOK
    BY DEF IInv
<1>2. playbook[r] \in Playbooks /\ At(r) <= Len(Steps(r)) /\ At(r) >= 1
    BY <1>1 DEF Control, MidStep
<1>3. Steps(r) \in Seq(Step)
    BY <1>2, PlaybooksAssumption DEF Steps
<1>4. stepRows[r] \in Seq({"running", "completed", "failed"})
    BY <1>1 DEF TypeOK
<1>5. At(r) \in 1..Len(Steps(r))
    BY <1>2, <1>3, <1>4 DEF At
<1> QED
    BY <1>2, <1>3, <1>4, <1>5 DEF Current

(* context.get(source, []) is a value.                                     *)
LEMMA SourceType ==
    ASSUME IInv, NEW r \in Runs, pc[r] \in MidStep
    PROVE  Source(r) \in Values
<1>1. Current(r) \in Step
    BY CurrentStep
<1>2. Current(r).source \in Keys
    BY <1>1 DEF Step
<1>3. context \in [Runs -> [Keys -> Values \cup {Unset}]]
    BY DEF IInv, TypeOK
<1>4. context[r][Current(r).source] \in Values \cup {Unset}
    BY <1>2, <1>3
<1>5. <<>> \in Values
    BY DEF Values
<1> QED
    BY <1>4, <1>5 DEF Source
-----------------------------------------------------------------------------
(* Runs share nothing: a step of run r keeps the invariant if it keeps the *)
(* types and what holds of r.                                              *)
SameRun(q) ==
    /\ playbook'[q] = playbook[q] /\ options'[q] = options[q]
    /\ stepRows'[q] = stepRows[q] /\ approvals'[q] = approvals[q]
    /\ trail'[q] = trail[q] /\ written'[q] = written[q]
    /\ pc'[q] = pc[q] /\ output'[q] = output[q]

LEMMA OneRun ==
    ASSUME IInv, NEW r \in Runs, TypeOK', Control(r)',
           \A q \in Runs \ {r} : SameRun(q)
    PROVE  IInv'
<1>1. \A q \in Runs \ {r} : Control(q)'
    BY Frame DEF IInv, SameRun
<1> QED
    BY <1>1 DEF IInv

(* What is audited stays audited while the trail keeps its events and the  *)
(* rows of those steps stay.                                               *)
TrailKept(r) ==
    \A type \in EventTypes, s \in Nat : Recorded(r, type, s) => Recorded(r, type, s)'

LEMMA TrailUnchanged ==
    ASSUME NEW r \in Runs, UNCHANGED trail
    PROVE  TrailKept(r)
BY DEF TrailKept, Recorded

LEMMA AuditedStays ==
    ASSUME NEW r \in Runs, TrailKept(r), NEW n \in Int, Audited(r, n),
           \A s \in 1..n : stepRows'[r][s] = stepRows[r][s]
    PROVE  Audited(r, n)'
BY DEF Audited, TrailKept, EventTypes

LEMMA EffectsStay ==
    ASSUME IInv, NEW r \in Runs, TrailKept(r),
           playbook'[r] = playbook[r], options'[r] = options[r], written'[r] = written[r]
    PROVE  (\A i \in DOMAIN written[r] : EffectAudited(r, written[r][i].step))'
<1>1. Steps(r)' = Steps(r)
    BY DEF Steps
<1>2. \A s \in Nat : EffectAudited(r, s) => EffectAudited(r, s)'
    <2>1. \A s \in Nat : Recorded(r, "step.started", s) => Recorded(r, "step.started", s)'
        BY DEF EventTypes, TrailKept
    <2>2. Recorded(r, "run.started", 0) => Recorded(r, "run.started", 0)'
        BY DEF EventTypes, TrailKept
    <2> QED
        BY <1>1, <2>1, <2>2 DEF EffectAudited
<1>3. \A i \in DOMAIN written[r] : written[r][i].step \in Nat
    <2>1. \A i \in DOMAIN written[r] : written[r][i] \in Effect
        BY DEF IInv, TypeOK
    <2>2. \A e \in Effect : e.step \in Nat
        BY DEF Effect
    <2> QED
        BY <2>1, <2>2
<1>4. \A i \in DOMAIN written[r] : EffectAudited(r, written[r][i].step)
    BY DEF IInv, Control
<1> QED
    BY <1>2, <1>3, <1>4

(* A step that leaves the run's tables and effects alone keeps the part of *)
(* Control that does not depend on the program counter.                    *)
LEMMA TablesStay ==
    ASSUME IInv, NEW r \in Runs, TrailKept(r), UNCHANGED <<called, stepRows, approvals, written>>
    PROVE  /\ At(r)' = At(r) /\ Steps(r)' = Steps(r) /\ At(r) \in Nat
           /\ Audited(r, At(r) - 1)'
           /\ Audited(r, At(r)) => Audited(r, At(r))'
           /\ (\A i \in DOMAIN written[r] : EffectAudited(r, written[r][i].step))'
           /\ \A i \in DOMAIN approvals'[r] :
                 approvals'[r][i].decision = "approve" => approvals'[r][i].entry \in Entries
<1>1. At(r)' = At(r) /\ Steps(r)' = Steps(r)
    BY DEF At, Steps, called
<1>2. At(r) \in Nat
    BY DEF IInv, TypeOK, At
<1>3. Audited(r, At(r) - 1)
    BY DEF IInv, Control
<1>4. \A n \in Int : Audited(r, n) => Audited(r, n)'
    BY AuditedStays
<1>5. Audited(r, At(r) - 1)'
    BY <1>1, <1>2, <1>3, <1>4
<1>6. Audited(r, At(r)) => Audited(r, At(r))'
    BY <1>1, <1>2, <1>4
<1>7. (\A i \in DOMAIN written[r] : EffectAudited(r, written[r][i].step))'
    BY EffectsStay DEF called
<1> QED
    BY <1>1, <1>2, <1>5, <1>6, <1>7 DEF IInv, Control

(* An append keeps the types and the other runs.                           *)
LEMMA AppendKeeps ==
    ASSUME IInv, NEW r \in Runs, NEW event \in Events,
           NEW next \in Labels, NEW handler \in Labels,
           AuditAndEmit(r, event, next, handler),
           UNCHANGED <<called, tables, written, context>>,
           item' \in [Runs -> Nat], output' \in [Runs -> Values],
           \A q \in Runs \ {r} : output'[q] = output[q]
    PROVE  /\ TypeOK'
           /\ \A q \in Runs \ {r} : SameRun(q)
           /\ \/ pc'[r] = next /\ Recorded(r, event.type, event.step)'
              \/ pc'[r] = handler
           /\ TrailKept(r)
<1>0. TypeOK
    BY DEF IInv
<1>1. /\ trail' \in [Runs -> Seq(Events)]
      /\ pc' \in [Runs -> Labels]
      /\ faulted' \in [Runs -> BOOLEAN]
      /\ \A q \in Runs : q # r => trail'[q] = trail[q] /\ pc'[q] = pc[q]
      /\ TrailKept(r)
      /\ \/ pc'[r] = next /\ Recorded(r, event.type, event.step)'
         \/ pc'[r] = handler
    BY <1>0, AuditAndEmitEffect DEF TrailKept
<1>2. TypeOK'
    BY <1>0, <1>1 DEF TypeOK, Trail!TrailTypeOK, Labels, called, tables
<1>3. \A q \in Runs \ {r} : SameRun(q)
    BY <1>1 DEF SameRun, called, tables
<1> QED
    BY <1>1, <1>2, <1>3

LEMMA LocalsTyped ==
    ASSUME IInv, UNCHANGED locals
    PROVE  item' \in [Runs -> Nat] /\ output' \in [Runs -> Values] /\ output' = output
BY DEF IInv, TypeOK, locals

LEMMA EventType ==
    ASSUME NEW type \in EventTypes, NEW s \in Nat
    PROVE  Event(type, s) \in Events /\ Event(type, s).type = type /\ Event(type, s).step = s
BY DEF Event, Events
-----------------------------------------------------------------------------
(* The seven appends that do nothing else.                                 *)
LEMMA RecordRunStartedStep ==
    ASSUME IInv, NEW r \in Runs, RecordRunStarted(r)
    PROVE  IInv'
<1>0. 0 \in Nat
    BY DEF IInv, TypeOK, At
<1>1. "run.started" \in EventTypes
    BY DEF EventTypes
<1>2. pc[r] = "created" /\ UNCHANGED <<called, tables, written, locals>>
    BY DEF RecordRunStarted
<1>3. AuditAndEmit(r, Event("run.started", 0), "loop", "raised")
    BY DEF RecordRunStarted
<1>4. /\ TypeOK'
      /\ \A q \in Runs \ {r} : SameRun(q)
      /\ \/ pc'[r] = "loop" /\ Recorded(r, "run.started", 0)'
         \/ pc'[r] = "raised"
      /\ TrailKept(r)
    <2> DEFINE event == Event("run.started", 0)
    <2>1. event \in Events /\ event.type = "run.started" /\ event.step = 0
        BY <1>0, <1>1, EventType
    <2>2. AuditAndEmit(r, event, "loop", "raised") /\ "loop" \in Labels /\ "raised" \in Labels
        BY <1>3 DEF Labels
    <2> HIDE DEF event
    <2>3. /\ UNCHANGED <<called, tables, written, context, item, output>>
          /\ item' \in [Runs -> Nat] /\ output' \in [Runs -> Values]
        BY <1>2, LocalsTyped DEF locals
    <2>4. /\ TypeOK' /\ (\A q \in Runs \ {r} : SameRun(q)) /\ TrailKept(r)
          /\ \/ pc'[r] = "loop" /\ Recorded(r, event.type, event.step)'
             \/ pc'[r] = "raised"
        BY <2>1, <2>2, <2>3, AppendKeeps
    <2> QED
        BY <2>1, <2>4
<1>5. Audited(r, At(r))
    <2>1. stepRows[r] = <<>>
        BY <1>2 DEF IInv, Control
    <2> QED
        BY <2>1 DEF Audited, At
<1>6. Control(r)'
    BY <1>2, <1>4, <1>5, TablesStay, LocalsTyped
       DEF IInv, Control, MidStep, Announced, TrailKept, EventTypes, called, tables
<1> QED
    BY <1>4, <1>6, OneRun

LEMMA RecordRunCompletedStep ==
    ASSUME IInv, NEW r \in Runs, RecordRunCompleted(r)
    PROVE  IInv'
<1>0. 0 \in Nat
    BY DEF IInv, TypeOK, At
<1>1. "run.completed" \in EventTypes
    BY DEF EventTypes
<1>2. pc[r] = "run_stored" /\ UNCHANGED <<called, tables, written, locals>>
    BY DEF RecordRunCompleted
<1>3. AuditAndEmit(r, Event("run.completed", 0), "returned", "run_fail")
    BY DEF RecordRunCompleted
<1>4. /\ TypeOK'
      /\ \A q \in Runs \ {r} : SameRun(q)
      /\ \/ pc'[r] = "returned" /\ Recorded(r, "run.completed", 0)'
         \/ pc'[r] = "run_fail"
      /\ TrailKept(r)
    <2> DEFINE event == Event("run.completed", 0)
    <2>1. event \in Events /\ event.type = "run.completed" /\ event.step = 0
        BY <1>0, <1>1, EventType
    <2>2. AuditAndEmit(r, event, "returned", "run_fail") /\ "returned" \in Labels /\ "run_fail" \in Labels
        BY <1>3 DEF Labels
    <2> HIDE DEF event
    <2>3. /\ UNCHANGED <<called, tables, written, context, item, output>>
          /\ item' \in [Runs -> Nat] /\ output' \in [Runs -> Values]
        BY <1>2, LocalsTyped DEF locals
    <2>4. /\ TypeOK' /\ (\A q \in Runs \ {r} : SameRun(q)) /\ TrailKept(r)
          /\ \/ pc'[r] = "returned" /\ Recorded(r, event.type, event.step)'
             \/ pc'[r] = "run_fail"
        BY <2>1, <2>2, <2>3, AppendKeeps
    <2> QED
        BY <2>1, <2>4
<1>5. Control(r)'
    BY <1>2, <1>4, TablesStay, LocalsTyped
       DEF IInv, Control, MidStep, Announced, TrailKept, EventTypes, called, tables
<1> QED
    BY <1>4, <1>5, OneRun

LEMMA RecordRunFailedStep ==
    ASSUME IInv, NEW r \in Runs, RecordRunFailed(r)
    PROVE  IInv'
<1>0. 0 \in Nat
    BY DEF IInv, TypeOK, At
<1>1. "run.failed" \in EventTypes
    BY DEF EventTypes
<1>2. pc[r] = "run_failed" /\ UNCHANGED <<called, tables, written, locals>>
    BY DEF RecordRunFailed
<1>3. AuditAndEmit(r, Event("run.failed", 0), "raised", "raised")
    BY DEF RecordRunFailed
<1>4. /\ TypeOK'
      /\ \A q \in Runs \ {r} : SameRun(q)
      /\ \/ pc'[r] = "raised" /\ Recorded(r, "run.failed", 0)'
         \/ pc'[r] = "raised"
      /\ TrailKept(r)
    <2> DEFINE event == Event("run.failed", 0)
    <2>1. event \in Events /\ event.type = "run.failed" /\ event.step = 0
        BY <1>0, <1>1, EventType
    <2>2. AuditAndEmit(r, event, "raised", "raised") /\ "raised" \in Labels /\ "raised" \in Labels
        BY <1>3 DEF Labels
    <2> HIDE DEF event
    <2>3. /\ UNCHANGED <<called, tables, written, context, item, output>>
          /\ item' \in [Runs -> Nat] /\ output' \in [Runs -> Values]
        BY <1>2, LocalsTyped DEF locals
    <2>4. /\ TypeOK' /\ (\A q \in Runs \ {r} : SameRun(q)) /\ TrailKept(r)
          /\ \/ pc'[r] = "raised" /\ Recorded(r, event.type, event.step)'
             \/ pc'[r] = "raised"
        BY <2>1, <2>2, <2>3, AppendKeeps
    <2> QED
        BY <2>1, <2>4
<1>5. Control(r)'
    BY <1>2, <1>4, TablesStay, LocalsTyped
       DEF IInv, Control, MidStep, Announced, TrailKept, EventTypes, called, tables
<1> QED
    BY <1>4, <1>5, OneRun

LEMMA RecordStepStartedStep ==
    ASSUME IInv, NEW r \in Runs, RecordStepStarted(r)
    PROVE  IInv'
<1>0. At(r) \in Nat
    BY DEF IInv, TypeOK, At
<1>1. "step.started" \in EventTypes
    BY DEF EventTypes
<1>2. pc[r] = "step_inserted" /\ UNCHANGED <<called, tables, written, locals>>
    BY DEF RecordStepStarted
<1>3. AuditAndEmit(r, Event("step.started", At(r)), "execute", "run_fail")
    BY DEF RecordStepStarted
<1>4. /\ TypeOK'
      /\ \A q \in Runs \ {r} : SameRun(q)
      /\ \/ pc'[r] = "execute" /\ Recorded(r, "step.started", At(r))'
         \/ pc'[r] = "run_fail"
      /\ TrailKept(r)
    <2> PICK event \in Events : /\ event = Event("step.started", At(r))
                              /\ event.type = "step.started" /\ event.step = At(r)
        BY <1>0, <1>1, EventType
    <2>2. AuditAndEmit(r, event, "execute", "run_fail") /\ "execute" \in Labels /\ "run_fail" \in Labels
        BY <1>3 DEF Labels
    <2>3. /\ UNCHANGED <<called, tables, written, context, item, output>>
          /\ item' \in [Runs -> Nat] /\ output' \in [Runs -> Values]
        BY <1>2, LocalsTyped DEF locals
    <2>4. /\ TypeOK' /\ (\A q \in Runs \ {r} : SameRun(q)) /\ TrailKept(r)
          /\ \/ pc'[r] = "execute" /\ Recorded(r, event.type, event.step)'
             \/ pc'[r] = "run_fail"
        BY <2>2, <2>3, AppendKeeps
    <2>5. At(r)' = At(r) /\ Steps(r)' = Steps(r)
        BY <1>2 DEF called, tables, At, Steps
    <2> QED
        BY <2>4, <2>5
<1>5. Control(r)'
    BY <1>2, <1>4, TablesStay, LocalsTyped
       DEF IInv, Control, MidStep, Announced, TrailKept, EventTypes, called, tables
<1> QED
    BY <1>4, <1>5, OneRun

LEMMA RecordStepCompletedStep ==
    ASSUME IInv, NEW r \in Runs, RecordStepCompleted(r)
    PROVE  IInv'
<1>0. At(r) \in Nat
    BY DEF IInv, TypeOK, At
<1>1. "step.completed" \in EventTypes
    BY DEF EventTypes
<1>2. pc[r] = "step_stored" /\ UNCHANGED <<called, tables, written, locals>>
    BY DEF RecordStepCompleted
<1>3. AuditAndEmit(r, Event("step.completed", At(r)), "loop", "step_fail")
    BY DEF RecordStepCompleted
<1>4. /\ TypeOK'
      /\ \A q \in Runs \ {r} : SameRun(q)
      /\ \/ pc'[r] = "loop" /\ Recorded(r, "step.completed", At(r))'
         \/ pc'[r] = "step_fail"
      /\ TrailKept(r)
    <2> PICK event \in Events : /\ event = Event("step.completed", At(r))
                              /\ event.type = "step.completed" /\ event.step = At(r)
        BY <1>0, <1>1, EventType
    <2>2. AuditAndEmit(r, event, "loop", "step_fail") /\ "loop" \in Labels /\ "step_fail" \in Labels
        BY <1>3 DEF Labels
    <2>3. /\ UNCHANGED <<called, tables, written, context, item, output>>
          /\ item' \in [Runs -> Nat] /\ output' \in [Runs -> Values]
        BY <1>2, LocalsTyped DEF locals
    <2>4. /\ TypeOK' /\ (\A q \in Runs \ {r} : SameRun(q)) /\ TrailKept(r)
          /\ \/ pc'[r] = "loop" /\ Recorded(r, event.type, event.step)'
             \/ pc'[r] = "step_fail"
        BY <2>2, <2>3, AppendKeeps
    <2>5. At(r)' = At(r) /\ Steps(r)' = Steps(r)
        BY <1>2 DEF called, tables, At, Steps
    <2> QED
        BY <2>4, <2>5
<1>5. pc'[r] = "loop" => Audited(r, At(r))'
    <2>1. Audited(r, At(r) - 1)' /\ At(r)' = At(r) /\ At(r) \in Nat
        BY <1>2, <1>4, TablesStay DEF called, tables
    <2>2. stepRows'[r][At(r)] = "completed" /\ Recorded(r, "step.started", At(r))
        BY <1>2 DEF IInv, Control, Announced, tables
    <2>3. Recorded(r, "step.started", At(r))'
        BY <1>4, <2>1, <2>2 DEF TrailKept, EventTypes
    <2>4. \A s \in 1..At(r) : s \in 1..(At(r) - 1) \/ s = At(r)
        BY <2>1
    <2> QED
        BY <1>4, <2>1, <2>2, <2>3, <2>4 DEF Audited
<1>6. Control(r)'
    BY <1>2, <1>4, <1>5, TablesStay, LocalsTyped
       DEF IInv, Control, MidStep, Announced, TrailKept, EventTypes, called, tables
<1> QED
    BY <1>4, <1>6, OneRun

LEMMA RecordStepFailedStep ==
    ASSUME IInv, NEW r \in Runs, RecordStepFailed(r)
    PROVE  IInv'
<1>0. At(r) \in Nat
    BY DEF IInv, TypeOK, At
<1>1. "step.failed" \in EventTypes
    BY DEF EventTypes
<1>2. pc[r] = "step_failed" /\ UNCHANGED <<called, tables, written, locals>>
    BY DEF RecordStepFailed
<1>3. AuditAndEmit(r, Event("step.failed", At(r)), "run_fail", "run_fail")
    BY DEF RecordStepFailed
<1>4. /\ TypeOK'
      /\ \A q \in Runs \ {r} : SameRun(q)
      /\ \/ pc'[r] = "run_fail" /\ Recorded(r, "step.failed", At(r))'
         \/ pc'[r] = "run_fail"
      /\ TrailKept(r)
    <2> PICK event \in Events : /\ event = Event("step.failed", At(r))
                              /\ event.type = "step.failed" /\ event.step = At(r)
        BY <1>0, <1>1, EventType
    <2>2. AuditAndEmit(r, event, "run_fail", "run_fail") /\ "run_fail" \in Labels /\ "run_fail" \in Labels
        BY <1>3 DEF Labels
    <2>3. /\ UNCHANGED <<called, tables, written, context, item, output>>
          /\ item' \in [Runs -> Nat] /\ output' \in [Runs -> Values]
        BY <1>2, LocalsTyped DEF locals
    <2>4. /\ TypeOK' /\ (\A q \in Runs \ {r} : SameRun(q)) /\ TrailKept(r)
          /\ \/ pc'[r] = "run_fail" /\ Recorded(r, event.type, event.step)'
             \/ pc'[r] = "run_fail"
        BY <2>2, <2>3, AppendKeeps
    <2>5. At(r)' = At(r) /\ Steps(r)' = Steps(r)
        BY <1>2 DEF called, tables, At, Steps
    <2> QED
        BY <2>4, <2>5
<1>5. Control(r)'
    BY <1>2, <1>4, TablesStay, LocalsTyped
       DEF IInv, Control, MidStep, Announced, TrailKept, EventTypes, called, tables
<1> QED
    BY <1>4, <1>5, OneRun

LEMMA RecordLlmValidatedStep ==
    ASSUME IInv, NEW r \in Runs, RecordLlmValidated(r)
    PROVE  IInv'
<1>0. At(r) \in Nat
    BY DEF IInv, TypeOK, At
<1>1. "llm.output.validated" \in EventTypes
    BY DEF EventTypes
<1>2. pc[r] = "validated" /\ UNCHANGED <<called, tables, written, locals>>
    BY DEF RecordLlmValidated
<1>3. AuditAndEmit(r, Event("llm.output.validated", At(r)), "return", "step_fail")
    BY DEF RecordLlmValidated
<1>4. /\ TypeOK'
      /\ \A q \in Runs \ {r} : SameRun(q)
      /\ \/ pc'[r] = "return" /\ Recorded(r, "llm.output.validated", At(r))'
         \/ pc'[r] = "step_fail"
      /\ TrailKept(r)
    <2> PICK event \in Events : /\ event = Event("llm.output.validated", At(r))
                              /\ event.type = "llm.output.validated" /\ event.step = At(r)
        BY <1>0, <1>1, EventType
    <2>2. AuditAndEmit(r, event, "return", "step_fail") /\ "return" \in Labels /\ "step_fail" \in Labels
        BY <1>3 DEF Labels
    <2>3. /\ UNCHANGED <<called, tables, written, context, item, output>>
          /\ item' \in [Runs -> Nat] /\ output' \in [Runs -> Values]
        BY <1>2, LocalsTyped DEF locals
    <2>4. /\ TypeOK' /\ (\A q \in Runs \ {r} : SameRun(q)) /\ TrailKept(r)
          /\ \/ pc'[r] = "return" /\ Recorded(r, event.type, event.step)'
             \/ pc'[r] = "step_fail"
        BY <2>2, <2>3, AppendKeeps
    <2>5. At(r)' = At(r) /\ Steps(r)' = Steps(r)
        BY <1>2 DEF called, tables, At, Steps
    <2> QED
        BY <2>4, <2>5
<1>5. Control(r)'
    BY <1>2, <1>4, TablesStay, LocalsTyped
       DEF IInv, Control, MidStep, Announced, TrailKept, EventTypes, called, tables
<1> QED
    BY <1>4, <1>5, OneRun
-----------------------------------------------------------------------------
(* Steps without an event or an effect that leave the rows of the run's    *)
(* steps alone.                                                            *)
LEMMA QuietKeeps ==
    ASSUME IInv, NEW r \in Runs, NEW next \in Labels,
           Goto(r, next),
           faulted' = faulted \/ faulted' = [faulted EXCEPT ![r] = TRUE],
           UNCHANGED <<called, stepRows, approvals, trail, written, context>>,
           runRow' \in [Runs -> {"none", "running", "completed", "failed"}],
           item' \in [Runs -> Nat], output' \in [Runs -> Values],
           \A q \in Runs \ {r} : output'[q] = output[q]
    PROVE  /\ TypeOK'
           /\ \A q \in Runs \ {r} : SameRun(q)
           /\ pc'[r] = next
           /\ TrailKept(r)
<1>0. TypeOK
    BY DEF IInv
<1>1. pc' \in [Runs -> Labels] /\ pc'[r] = next /\ \A q \in Runs \ {r} : pc'[q] = pc[q]
    BY <1>0 DEF TypeOK, Goto, Labels
<1>2. faulted' \in [Runs -> BOOLEAN]
    BY <1>0 DEF TypeOK
<1>3. TypeOK'
    BY <1>0, <1>1, <1>2 DEF TypeOK, Trail!TrailTypeOK, Labels, called
<1>4. \A q \in Runs \ {r} : SameRun(q)
    BY <1>1 DEF SameRun, called
<1> QED
    BY <1>1, <1>3, <1>4, TrailUnchanged

LEMMA FinishRunStep ==
    ASSUME IInv, NEW r \in Runs, FinishRun(r)
    PROVE  IInv'
<1>1. PICK next \in {"run_stored", "run_fail"} :
          /\ Goto(r, next)
          /\ faulted' = faulted \/ faulted' = [faulted EXCEPT ![r] = TRUE]
          /\ runRow' = runRow \/ runRow' = [runRow EXCEPT ![r] = "completed"]
    BY DEF FinishRun, Raises
<1>2. pc[r] = "loop" /\ UNCHANGED <<called, stepRows, approvals, trail, written, locals>>
    BY DEF FinishRun
<1>3. runRow' \in [Runs -> {"none", "running", "completed", "failed"}]
    BY <1>1 DEF IInv, TypeOK
<1>4. TypeOK' /\ (\A q \in Runs \ {r} : SameRun(q)) /\ pc'[r] = next /\ TrailKept(r)
    BY <1>1, <1>2, <1>3, QuietKeeps, LocalsTyped DEF locals, Labels
<1>5. Control(r)'
    BY <1>2, <1>4, TablesStay DEF IInv, Control, MidStep, Announced, called
<1> QED
    BY <1>4, <1>5, OneRun

LEMMA FailRunStep ==
    ASSUME IInv, NEW r \in Runs, FailRun(r)
    PROVE  IInv'
<1>1. PICK next \in {"run_failed", "raised"} :
          /\ Goto(r, next)
          /\ faulted' = faulted \/ faulted' = [faulted EXCEPT ![r] = TRUE]
          /\ runRow' = runRow \/ runRow' = [runRow EXCEPT ![r] = "failed"]
    BY DEF FailRun, Raises
<1>2. pc[r] = "run_fail" /\ UNCHANGED <<called, stepRows, approvals, trail, written, locals>>
    BY DEF FailRun
<1>3. runRow' \in [Runs -> {"none", "running", "completed", "failed"}]
    BY <1>1 DEF IInv, TypeOK
<1>4. TypeOK' /\ (\A q \in Runs \ {r} : SameRun(q)) /\ pc'[r] = next /\ TrailKept(r)
    BY <1>1, <1>2, <1>3, QuietKeeps, LocalsTyped DEF locals, Labels
<1>5. Control(r)'
    BY <1>2, <1>4, TablesStay DEF IInv, Control, MidStep, Announced, called
<1> QED
    BY <1>4, <1>5, OneRun

LEMMA CrashStep ==
    ASSUME IInv, NEW r \in Runs, Crash(r)
    PROVE  IInv'
<1>1. /\ pc[r] # "idle"
      /\ Goto(r, "dead") /\ faulted' = [faulted EXCEPT ![r] = TRUE]
      /\ UNCHANGED <<called, tables, trail, written, locals>>
    BY DEF Crash, Raises
<1>2. runRow' \in [Runs -> {"none", "running", "completed", "failed"}]
    BY <1>1 DEF IInv, TypeOK, tables
<1>3. TypeOK' /\ (\A q \in Runs \ {r} : SameRun(q)) /\ pc'[r] = "dead" /\ TrailKept(r)
    BY <1>1, <1>2, QuietKeeps, LocalsTyped DEF locals, tables, Labels
<1>4. Control(r)'
    BY <1>1, <1>3, TablesStay DEF IInv, Control, MidStep, Announced, called, tables
<1> QED
    BY <1>3, <1>4, OneRun

(* The handlers that only compute: what they return is a value.            *)
LEMMA HandlerStep ==
    ASSUME IInv, NEW r \in Runs, NEW next \in {"return", "validated", "approve", "step_fail"},
           pc[r] \in {"execute", "approve"}, Goto(r, next),
           UNCHANGED <<called, tables, trail, written, context, faulted>>,
           item' \in [Runs -> Nat], output' \in [Runs -> Values],
           \A q \in Runs \ {r} : output'[q] = output[q],
           next = "approve" => output'[r] \in Seq(Entries)
    PROVE  IInv'
<1>1. runRow' \in [Runs -> {"none", "running", "completed", "failed"}]
    BY DEF IInv, TypeOK, tables
<1>2. TypeOK' /\ (\A q \in Runs \ {r} : SameRun(q)) /\ pc'[r] = next /\ TrailKept(r)
    BY <1>1, QuietKeeps DEF tables, Labels
<1>3. Control(r)'
    <2>1. pc[r] \in MidStep /\ pc[r] \in Announced
        BY DEF MidStep, Announced
    <2>2. /\ Recorded(r, "run.started", 0)' /\ At(r) >= 1
          /\ Recorded(r, "step.started", At(r))' /\ At(r) <= Len(Steps(r))
          /\ playbook[r] \in Playbooks
        BY <1>2, <2>1, TablesStay DEF IInv, Control, TrailKept, EventTypes, tables
    <2> QED
        BY <1>2, <2>2, TablesStay DEF Control, MidStep, Announced, called, tables
<1> QED
    BY <1>2, <1>3, OneRun

(* What Return and HandlerRaises do to the locals.                         *)
LEMMA ReturnTyped ==
    ASSUME IInv, NEW r \in Runs, NEW value \in Values,
           Return(r, value) \/ HandlerRaises(r), UNCHANGED item
    PROVE  /\ \E next \in {"return", "step_fail"} : Goto(r, next)
           /\ item' \in [Runs -> Nat] /\ output' \in [Runs -> Values]
           /\ \A q \in Runs \ {r} : output'[q] = output[q]
<1>1. output \in [Runs -> Values] /\ item' \in [Runs -> Nat]
    BY DEF IInv, TypeOK
<1>2. output' = output \/ output' = [output EXCEPT ![r] = value]
    BY DEF Return, HandlerRaises
<1>3. \E next \in {"return", "step_fail"} : Goto(r, next)
    BY DEF Return, HandlerRaises
<1> QED
    BY <1>1, <1>2, <1>3

LEMMA RawValue == Raw \in Values
BY DEF Values

LEMMA ExecuteCollectStep ==
    ASSUME IInv, NEW r \in Runs, ExecuteCollect(r)
    PROVE  IInv'
BY HandlerStep, ReturnTyped, RawValue DEF ExecuteCollect, Executing

LEMMA ExecuteTransformStep ==
    ASSUME IInv, NEW r \in Runs, ExecuteTransform(r)
    PROVE  IInv'
BY HandlerStep, ReturnTyped, RawValue DEF ExecuteTransform, Executing

LEMMA ExecuteApproveRaisesStep ==
    ASSUME IInv, NEW r \in Runs, ExecuteApproveRaises(r)
    PROVE  IInv'
BY HandlerStep, ReturnTyped, RawValue DEF ExecuteApproveRaises, Executing

LEMMA ExecuteApplyDryRunStep ==
    ASSUME IInv, NEW r \in Runs, ExecuteApplyDryRun(r)
    PROVE  IInv'
BY HandlerStep, ReturnTyped, RawValue DEF ExecuteApplyDryRun, Executing

LEMMA ExecuteLlmStep ==
    ASSUME IInv, NEW r \in Runs, ExecuteLlm(r)
    PROVE  IInv'
<1>1. CASE HandlerRaises(r)
    BY <1>1, HandlerStep, ReturnTyped, RawValue DEF ExecuteLlm, Executing
<1>2. CASE \E answer \in Suggestions \cup {Raw} :
               output' = [output EXCEPT ![r] = answer] /\ Goto(r, "validated")
    <2>1. PICK answer \in Suggestions \cup {Raw} :
              output' = [output EXCEPT ![r] = answer] /\ Goto(r, "validated")
        BY <1>2
    <2>2. answer \in Values
        BY ValuesAssumption DEF Values
    <2>3. /\ output' \in [Runs -> Values] /\ item' \in [Runs -> Nat]
          /\ \A q \in Runs \ {r} : output'[q] = output[q]
        BY <2>1, <2>2 DEF IInv, TypeOK, ExecuteLlm
    <2> QED
        BY <2>1, <2>3, HandlerStep DEF ExecuteLlm, Executing
<1> QED
    BY <1>1, <1>2 DEF ExecuteLlm

LEMMA ExecuteApproveStep ==
    ASSUME IInv, NEW r \in Runs, ExecuteApprove(r)
    PROVE  IInv'
<1>1. /\ output' = [output EXCEPT ![r] = <<>>] /\ item' = [item EXCEPT ![r] = 0]
      /\ Goto(r, "approve") /\ pc[r] = "execute"
      /\ UNCHANGED <<called, tables, trail, written, context, faulted>>
    BY DEF ExecuteApprove, Executing
<1>2. <<>> \in Values /\ <<>> \in Seq(Entries)
    BY DEF Values
<1>3. /\ output' \in [Runs -> Values] /\ item' \in [Runs -> Nat] /\ output'[r] = <<>>
      /\ \A q \in Runs \ {r} : output'[q] = output[q]
    BY <1>1, <1>2 DEF IInv, TypeOK
<1> QED
    BY <1>1, <1>2, <1>3, HandlerStep

LEMMA FinishApproveStep ==
    ASSUME IInv, NEW r \in Runs, FinishApprove(r)
    PROVE  IInv'
BY HandlerStep, LocalsTyped DEF FinishApprove, locals
-----------------------------------------------------------------------------
(* The appends of the approve handler.                                     *)
LEMMA ExecuteApproveDryRunStep ==
    ASSUME IInv, NEW r \in Runs, ExecuteApproveDryRun(r)
    PROVE  IInv'
<1>1. /\ pc[r] = "execute" /\ UNCHANGED <<called, tables, written, context, item>>
      /\ output' = [output EXCEPT ![r] = Source(r)]
      /\ AuditAndEmit(r, Event("approval.skipped_dry_run", At(r)), "return", "step_fail")
    BY DEF ExecuteApproveDryRun, Executing
<1>2. Source(r) \in Values
    BY <1>1, SourceType DEF MidStep
<1>3. /\ output' \in [Runs -> Values] /\ item' \in [Runs -> Nat]
      /\ \A q \in Runs \ {r} : output'[q] = output[q]
    BY <1>1, <1>2 DEF IInv, TypeOK
<1>4. Event("approval.skipped_dry_run", At(r)) \in Events
    BY EventType DEF EventTypes, IInv, TypeOK, At
<1>5. /\ TypeOK'
      /\ \A q \in Runs \ {r} : SameRun(q)
      /\ pc'[r] \in {"return", "step_fail"}
      /\ TrailKept(r)
    BY <1>1, <1>3, <1>4, AppendKeeps DEF Labels
<1>6. Control(r)'
    BY <1>1, <1>5, TablesStay
       DEF IInv, Control, MidStep, Announced, TrailKept, EventTypes, called, tables
<1> QED
    BY <1>5, <1>6, OneRun

LEMMA RecordApprovalStep ==
    ASSUME IInv, NEW r \in Runs, RecordApproval(r)
    PROVE  IInv'
<1> DEFINE row == Last(approvals[r])
           event == [Event("approval.recorded", At(r)) EXCEPT
                        !.item = row.item, !.decision = row.decision]
<1>1. /\ pc[r] = "decided" /\ UNCHANGED <<called, tables, written, context>>
      /\ AuditAndEmit(r, event, "approve", "step_fail")
      /\ item' = [item EXCEPT ![r] = @ + 1]
      /\ output' = IF row.decision = "approve"
                       THEN [output EXCEPT ![r] = Append(@, row.entry)]
                       ELSE output
    BY DEF RecordApproval
<1>2. /\ approvals[r] \in Seq(Approval) /\ Len(approvals[r]) \in DOMAIN approvals[r]
      /\ output[r] \in Seq(Entries) /\ At(r) \in Nat
      /\ row.decision = "approve" => row.entry \in Entries
    <2>1. approvals[r] \in Seq(Approval) /\ approvals[r] # <<>>
        BY <1>1 DEF IInv, TypeOK, Control
    <2>2. Len(approvals[r]) \in DOMAIN approvals[r]
        BY <2>1, EmptySeq
    <2>3. output[r] \in Seq(Entries) /\ At(r) \in Nat
        BY <1>1 DEF IInv, Control, TypeOK, At
    <2> QED
        BY <2>1, <2>2, <2>3 DEF IInv, Control, Last
<1>3. row \in Approval
    BY <1>2 DEF Last
<1>4. event \in Events
    BY <1>2, <1>3 DEF Approval, Events, Event, EventTypes
<1>5. /\ item' \in [Runs -> Nat] /\ output' \in [Runs -> Values] /\ output'[r] \in Seq(Entries)
      /\ \A q \in Runs \ {r} : output'[q] = output[q]
    <2>1. row.decision = "approve" => Append(output[r], row.entry) \in Seq(Entries)
        BY <1>2, AppendProperties
    <2> HIDE DEF row
    <2> QED
        BY <1>1, <1>2, <2>1 DEF IInv, TypeOK, Values
<1> HIDE DEF event
<1>6. /\ TypeOK'
      /\ \A q \in Runs \ {r} : SameRun(q)
      /\ pc'[r] \in {"approve", "step_fail"}
      /\ TrailKept(r)
    BY <1>1, <1>4, <1>5, AppendKeeps DEF Labels
<1>7. Control(r)'
    BY <1>1, <1>5, <1>6, TablesStay
       DEF IInv, Control, MidStep, Announced, TrailKept, EventTypes, called, tables
<1> QED
    BY <1>6, <1>7, OneRun
-----------------------------------------------------------------------------
(* The steps that change the rows of the run or what is outside.           *)
LEMMA CreateRunStep ==
    ASSUME IInv, NEW r \in Runs, CreateRun(r)
    PROVE  IInv'
<1>1. PICK p \in Playbooks, o \in Options, next \in {"created", "raised"} :
          /\ playbook' = [playbook EXCEPT ![r] = p] /\ options' = [options EXCEPT ![r] = o]
          /\ runRow' = runRow \/ runRow' = [runRow EXCEPT ![r] = "running"]
          /\ faulted' = faulted \/ faulted' = [faulted EXCEPT ![r] = TRUE]
          /\ Goto(r, next)
    BY DEF CreateRun, Raises
<1>2. pc[r] = "idle" /\ UNCHANGED <<stepRows, approvals, trail, written, locals>>
    BY DEF CreateRun
<1>3. /\ runRow' \in [Runs -> {"none", "running", "completed", "failed"}]
      /\ faulted' \in [Runs -> BOOLEAN] /\ pc' \in [Runs -> Labels] /\ pc'[r] = next
      /\ playbook' \in [Runs -> Playbooks \cup {None}] /\ options' \in [Runs -> Options]
    BY <1>1 DEF IInv, TypeOK, Goto, Labels
<1>4. TypeOK'
    BY <1>2, <1>3 DEF IInv, TypeOK, Trail!TrailTypeOK, Labels, locals
<1>5. \A q \in Runs \ {r} : SameRun(q)
    BY <1>1, <1>2 DEF IInv, TypeOK, SameRun, Goto, locals
<1>6. stepRows'[r] = <<>> /\ written'[r] = <<>>
    BY <1>2 DEF IInv, Control
<1>7. At(r)' <= Len(Steps(r))' /\ playbook'[r] \in Playbooks
    <2>1. playbook'[r] = p
        BY <1>1 DEF IInv, TypeOK
    <2>2. Len(p.steps) \in Nat
        BY PlaybooksAssumption
    <2> QED
        BY <1>6, <2>1, <2>2 DEF At, Steps
<1>8. Audited(r, At(r) - 1)'
    BY <1>6 DEF Audited, At
<1>9. Control(r)'
    BY <1>1, <1>2, <1>3, <1>6, <1>7, <1>8 DEF IInv, Control, MidStep, Announced
<1> QED
    BY <1>4, <1>5, <1>9, OneRun

(* A store call that changes the rows of the run's steps: what Control     *)
(* says of effects and approvals stays.                                    *)
LEMMA StoreKeeps ==
    ASSUME IInv, NEW r \in Runs, NEW next \in Labels, Goto(r, next),
           faulted' = faulted \/ faulted' = [faulted EXCEPT ![r] = TRUE],
           UNCHANGED <<called, runRow, trail, written, item, output>>,
           stepRows' \in [Runs -> Seq({"running", "completed", "failed"})],
           approvals' \in [Runs -> Seq(Approval)],
           context' \in [Runs -> [Keys -> Values \cup {Unset}]],
           \A q \in Runs \ {r} : stepRows'[q] = stepRows[q] /\ approvals'[q] = approvals[q]
    PROVE  /\ TypeOK'
           /\ \A q \in Runs \ {r} : SameRun(q)
           /\ pc'[r] = next
           /\ Steps(r)' = Steps(r)
           /\ \A type, s : Recorded(r, type, s)' = Recorded(r, type, s)
           /\ (\A i \in DOMAIN written[r] : EffectAudited(r, written[r][i].step))'
<1>0. TypeOK
    BY DEF IInv
<1>1. pc' \in [Runs -> Labels] /\ pc'[r] = next /\ \A q \in Runs \ {r} : pc'[q] = pc[q]
    BY <1>0 DEF TypeOK, Goto, Labels
<1>2. faulted' \in [Runs -> BOOLEAN]
    BY <1>0 DEF TypeOK
<1>3. TypeOK'
    BY <1>0, <1>1, <1>2 DEF TypeOK, Trail!TrailTypeOK, Labels, called
<1>4. \A q \in Runs \ {r} : SameRun(q)
    BY <1>1 DEF SameRun, called
<1>5. (\A i \in DOMAIN written[r] : EffectAudited(r, written[r][i].step))'
    BY EffectsStay, TrailUnchanged DEF called
<1>6. Steps(r)' = Steps(r) /\ \A type, s : Recorded(r, type, s)' = Recorded(r, type, s)
    BY DEF Steps, Recorded, called
<1> QED
    BY <1>1, <1>3, <1>4, <1>5, <1>6

LEMMA StartStepStep ==
    ASSUME IInv, NEW r \in Runs, StartStep(r)
    PROVE  IInv'
<1>1. /\ pc[r] = "loop" /\ At(r) < Len(Steps(r))
      /\ UNCHANGED <<called, runRow, approvals, trail, written, locals>>
    BY DEF StartStep
<1>2. PICK next \in {"step_inserted", "run_fail"} :
          /\ Goto(r, next)
          /\ faulted' = faulted \/ faulted' = [faulted EXCEPT ![r] = TRUE]
          /\ \/ stepRows' = [stepRows EXCEPT ![r] = Append(@, "running")]
             \/ stepRows' = stepRows /\ next = "run_fail"
    BY <1>1 DEF StartStep, Raises
<1> DEFINE old == stepRows[r]
           States == {"running", "completed", "failed"}
<1>3. stepRows \in [Runs -> Seq(States)] /\ old \in Seq(States) /\ At(r) \in Nat
    BY DEF IInv, TypeOK, At
<1>4. /\ Append(old, "running") \in Seq(States)
      /\ Len(Append(old, "running")) = At(r) + 1
      /\ \A s \in 1..At(r) : Append(old, "running")[s] = old[s]
    BY <1>3, AppendProperties DEF At
<1>5. /\ stepRows' \in [Runs -> Seq(States)]
      /\ \/ stepRows'[r] = old /\ next = "run_fail"
         \/ stepRows'[r] = Append(old, "running")
      /\ \A q \in Runs \ {r} : stepRows'[q] = stepRows[q]
    BY <1>2, <1>3, <1>4
<1>6. /\ \/ At(r)' = At(r) /\ next = "run_fail"
         \/ At(r)' = At(r) + 1
      /\ \A s \in 1..At(r) : stepRows'[r][s] = stepRows[r][s]
    BY <1>4, <1>5 DEF At
<1>7. approvals' \in [Runs -> Seq(Approval)] /\ context' \in [Runs -> [Keys -> Values \cup {Unset}]]
    BY <1>1 DEF IInv, TypeOK, locals
<1>8. /\ TypeOK' /\ (\A q \in Runs \ {r} : SameRun(q)) /\ pc'[r] = next /\ Steps(r)' = Steps(r)
      /\ \A type, s : Recorded(r, type, s)' = Recorded(r, type, s)
      /\ (\A i \in DOMAIN written[r] : EffectAudited(r, written[r][i].step))'
    BY <1>1, <1>2, <1>5, <1>7, StoreKeeps DEF locals, Labels
<1>9. \A s \in 1..At(r) :
          /\ stepRows'[r][s] = "completed"
          /\ Recorded(r, "step.started", s)' /\ Recorded(r, "step.completed", s)'
    <2>1. Audited(r, At(r))
        BY <1>1 DEF IInv, Control
    <2> QED
        BY <1>6, <1>8, <2>1 DEF Audited
<1>10. Audited(r, At(r) - 1)'
    <2>1. \A s \in 1..(At(r)' - 1) : s \in 1..At(r)
        BY <1>3, <1>6
    <2> QED
        BY <1>9, <2>1 DEF Audited
<1>11. Control(r)'
    BY <1>1, <1>3, <1>6, <1>8, <1>10 DEF IInv, Control, MidStep, Announced, called
<1> QED
    BY <1>8, <1>11, OneRun

(* finish_step rewrites the newest row only.                               *)
LEMMA SetLastStepEffect ==
    ASSUME IInv, NEW r \in Runs, pc[r] \in MidStep,
           NEW status \in {"running", "completed", "failed"},
           SetLastStep(r, status) \/ UNCHANGED stepRows
    PROVE  /\ stepRows' \in [Runs -> Seq({"running", "completed", "failed"})]
           /\ \A q \in Runs \ {r} : stepRows'[q] = stepRows[q]
           /\ At(r)' = At(r) /\ At(r) \in Nat
           /\ \A s \in 1..(At(r) - 1) : stepRows'[r][s] = stepRows[r][s]
           /\ SetLastStep(r, status) => stepRows'[r][At(r)] = status
<1> DEFINE States == {"running", "completed", "failed"}
           new == [stepRows[r] EXCEPT ![At(r)] = status]
<1>1. /\ stepRows \in [Runs -> Seq(States)] /\ stepRows[r] \in Seq(States)
      /\ At(r) \in 1..Len(stepRows[r]) /\ At(r) = Len(stepRows[r])
    BY CurrentStep DEF IInv, TypeOK, At
<1>2. CASE UNCHANGED stepRows /\ ~ SetLastStep(r, status)
    BY <1>1, <1>2 DEF At
<1>3. CASE SetLastStep(r, status)
    <2>1. stepRows' = [stepRows EXCEPT ![r] = new]
        BY <1>3 DEF SetLastStep
    <2>2. new \in Seq(States) /\ Len(new) = Len(stepRows[r]) /\ new[At(r)] = status
          /\ \A s \in 1..(At(r) - 1) : new[s] = stepRows[r][s]
        BY <1>1, ExceptSeq
    <2> HIDE DEF new
    <2>3. stepRows'[r] = new /\ stepRows' \in [Runs -> Seq(States)]
          /\ \A q \in Runs \ {r} : stepRows'[q] = stepRows[q]
        BY <1>1, <2>1, <2>2
    <2> QED
        BY <1>1, <2>2, <2>3 DEF At
<1> QED
    BY <1>2, <1>3

(* After finish_step: what the steps before the current one showed, and    *)
(* where the run is in its playbook, stays.                                *)
LEMMA SettledStepKeeps ==
    ASSUME IInv, NEW r \in Runs, pc[r] \in MidStep,
           NEW status \in {"running", "completed", "failed"},
           SetLastStep(r, status) \/ UNCHANGED stepRows,
           NEW next \in Labels, Goto(r, next),
           faulted' = faulted \/ faulted' = [faulted EXCEPT ![r] = TRUE],
           UNCHANGED <<called, runRow, approvals, trail, written, item, output>>,
           context' \in [Runs -> [Keys -> Values \cup {Unset}]],
           next \notin {"idle", "created", "loop", "approve", "decided"},
           next \in Announced => pc[r] \in Announced,
           next = "step_stored" => SetLastStep(r, "completed") /\ status = "completed"
    PROVE  IInv'
<1>1. /\ stepRows' \in [Runs -> Seq({"running", "completed", "failed"})]
      /\ \A q \in Runs \ {r} : stepRows'[q] = stepRows[q]
      /\ At(r)' = At(r) /\ At(r) \in Nat
      /\ \A s \in 1..(At(r) - 1) : stepRows'[r][s] = stepRows[r][s]
      /\ next = "step_stored" => stepRows'[r][At(r)] = "completed"
    BY SetLastStepEffect
<1>2. approvals' \in [Runs -> Seq(Approval)]
    BY DEF IInv, TypeOK
<1>3. /\ TypeOK' /\ (\A q \in Runs \ {r} : SameRun(q)) /\ pc'[r] = next /\ Steps(r)' = Steps(r)
      /\ \A type, s : Recorded(r, type, s)' = Recorded(r, type, s)
      /\ (\A i \in DOMAIN written[r] : EffectAudited(r, written[r][i].step))'
    BY <1>1, <1>2, StoreKeeps
<1>4. Audited(r, At(r) - 1)'
    BY <1>1, <1>3 DEF IInv, Control, Audited
<1>5. Control(r) /\ pc[r] # "idle" /\ pc[r] # "created"
    BY DEF IInv, MidStep
<1>6. /\ playbook'[r] \in Playbooks /\ (At(r) <= Len(Steps(r)))' /\ Recorded(r, "run.started", 0)'
      /\ At(r)' >= 1 /\ next \in Announced => Recorded(r, "step.started", At(r))'
    BY <1>1, <1>3, <1>5 DEF Control, called
<1>7. Control(r)'
    BY <1>1, <1>3, <1>4, <1>5, <1>6 DEF Control, MidStep
<1> QED
    BY <1>3, <1>7, OneRun

LEMMA FinishStepStep ==
    ASSUME IInv, NEW r \in Runs, FinishStep(r)
    PROVE  IInv'
<1>1. /\ pc[r] = "return" /\ UNCHANGED <<called, runRow, approvals, trail, written, item, output>>
      /\ context' = [context EXCEPT ![r][Current(r).out] = output[r],
                                    ![r][Current(r).id] = output[r]]
    BY DEF FinishStep
<1>2. context' \in [Runs -> [Keys -> Values \cup {Unset}]]
    BY <1>1 DEF IInv, TypeOK
<1>3. CASE SetLastStep(r, "completed") /\ Goto(r, "step_stored") /\ UNCHANGED faulted
    BY <1>1, <1>2, <1>3, SettledStepKeeps DEF MidStep, Announced, Labels
<1>4. CASE Raises(r, "step_fail") /\ UNCHANGED stepRows
    BY <1>1, <1>2, <1>4, SettledStepKeeps DEF MidStep, Announced, Labels, Raises
<1> QED
    BY <1>3, <1>4 DEF FinishStep

LEMMA FailStepStep ==
    ASSUME IInv, NEW r \in Runs, FailStep(r)
    PROVE  IInv'
<1>1. pc[r] = "step_fail" /\ UNCHANGED <<called, runRow, approvals, trail, written, locals>>
    BY DEF FailStep
<1>2. context' \in [Runs -> [Keys -> Values \cup {Unset}]]
    BY <1>1 DEF IInv, TypeOK, locals
<1>3. CASE SetLastStep(r, "failed") /\ Goto(r, "step_failed") /\ UNCHANGED faulted
    BY <1>1, <1>2, <1>3, SettledStepKeeps DEF MidStep, Announced, Labels, locals
<1>4. CASE Raises(r, "run_fail") /\ UNCHANGED stepRows
    BY <1>1, <1>2, <1>4, SettledStepKeeps DEF MidStep, Announced, Labels, Raises, locals
<1> QED
    BY <1>3, <1>4 DEF FailStep

LEMMA DecideItemStep ==
    ASSUME IInv, NEW r \in Runs, DecideItem(r)
    PROVE  IInv'
<1>1. pc[r] = "approve" /\ UNCHANGED <<called, runRow, stepRows, trail, written, locals>>
    BY DEF DecideItem
<1>2. PICK next \in {"decided", "step_fail"} :
          /\ Goto(r, next)
          /\ faulted' = faulted \/ faulted' = [faulted EXCEPT ![r] = TRUE]
          /\ \/ approvals' = approvals /\ next = "step_fail"
             \/ \E decision \in Decisions, entry \in Entries :
                    approvals' = [approvals EXCEPT ![r] = Append(@,
                        [step |-> At(r), item |-> item[r], decision |-> decision,
                         entry |-> IF decision = "approve" THEN entry ELSE None])]
    BY <1>1 DEF DecideItem, Raises
<1>3. /\ approvals \in [Runs -> Seq(Approval)] /\ approvals[r] \in Seq(Approval)
      /\ item[r] \in Nat /\ At(r) \in Nat
      /\ \A i \in DOMAIN approvals[r] :
            approvals[r][i].decision = "approve" => approvals[r][i].entry \in Entries
    BY DEF IInv, TypeOK, Control, At
<1>4. /\ approvals' \in [Runs -> Seq(Approval)]
      /\ \A q \in Runs \ {r} : approvals'[q] = approvals[q]
      /\ \A i \in DOMAIN approvals'[r] :
            approvals'[r][i].decision = "approve" => approvals'[r][i].entry \in Entries
      /\ next = "decided" => approvals'[r] # <<>>
    <2>1. CASE approvals' = approvals /\ next = "step_fail"
        BY <1>3, <2>1
    <2>2. CASE \E decision \in Decisions, entry \in Entries :
                   approvals' = [approvals EXCEPT ![r] = Append(@,
                       [step |-> At(r), item |-> item[r], decision |-> decision,
                        entry |-> IF decision = "approve" THEN entry ELSE None])]
        <3>1. PICK decision \in Decisions, entry \in Entries :
                   approvals' = [approvals EXCEPT ![r] = Append(@,
                       [step |-> At(r), item |-> item[r], decision |-> decision,
                        entry |-> IF decision = "approve" THEN entry ELSE None])]
            BY <2>2
        <3> DEFINE row == [step |-> At(r), item |-> item[r], decision |-> decision,
                           entry |-> IF decision = "approve" THEN entry ELSE None]
        <3>2. row \in Approval /\ (row.decision = "approve" => row.entry \in Entries)
            BY <1>3 DEF Approval
        <3>3. approvals' = [approvals EXCEPT ![r] = Append(approvals[r], row)]
            BY <3>1
        <3> HIDE DEF row
        <3>4. /\ Append(approvals[r], row) \in Seq(Approval)
              /\ Len(Append(approvals[r], row)) = Len(approvals[r]) + 1
              /\ \A i \in 1..Len(approvals[r]) : Append(approvals[r], row)[i] = approvals[r][i]
              /\ Append(approvals[r], row)[Len(approvals[r]) + 1] = row
            BY <1>3, <3>2, AppendProperties
        <3>5. /\ approvals' \in [Runs -> Seq(Approval)]
              /\ approvals'[r] = Append(approvals[r], row)
              /\ \A q \in Runs \ {r} : approvals'[q] = approvals[q]
            BY <1>3, <3>3, <3>4
        <3> QED
            BY <1>3, <3>2, <3>4, <3>5
    <2> QED
        BY <1>2, <2>1, <2>2
<1>5. /\ stepRows' \in [Runs -> Seq({"running", "completed", "failed"})]
      /\ context' \in [Runs -> [Keys -> Values \cup {Unset}]]
    BY <1>1 DEF IInv, TypeOK, locals
<1>6. /\ TypeOK' /\ (\A q \in Runs \ {r} : SameRun(q)) /\ pc'[r] = next /\ Steps(r)' = Steps(r)
      /\ \A type, s : Recorded(r, type, s)' = Recorded(r, type, s)
      /\ (\A i \in DOMAIN written[r] : EffectAudited(r, written[r][i].step))'
    BY <1>1, <1>2, <1>4, <1>5, StoreKeeps DEF locals, Labels
<1>7. At(r)' = At(r) /\ Audited(r, At(r) - 1)' /\ output'[r] \in Seq(Entries)
    BY <1>1, <1>6 DEF IInv, Control, Audited, At, locals
<1>8. Control(r)'
    BY <1>1, <1>2, <1>4, <1>6, <1>7 DEF IInv, Control, MidStep, Announced, called
<1> QED
    BY <1>6, <1>8, OneRun

(* The effect is one of a write operation of an announced apply step.      *)
LEMMA ExecuteApplyStep ==
    ASSUME IInv, NEW r \in Runs, ExecuteApply(r)
    PROVE  IInv'
<1> DEFINE effect == [step |-> At(r), payload |-> Source(r)]
<1>1. /\ pc[r] = "execute" /\ Current(r).type = "apply" /\ Current(r).mode = "write"
      /\ OperationAllowed(Current(r), options[r]) /\ ~ options[r].dry_run
      /\ written' = [written EXCEPT ![r] = Append(written[r], effect)]
      /\ Return(r, Raw) \/ HandlerRaises(r)
      /\ UNCHANGED <<called, tables, trail, context, item, faulted>>
    BY DEF ExecuteApply, Executing
<1>2. /\ Source(r) \in Values /\ At(r) \in 1..Len(Steps(r)) /\ Steps(r) \in Seq(Step)
      /\ playbook[r] \in Playbooks
    BY <1>1, SourceType, CurrentStep DEF MidStep
<1>3. effect \in Effect /\ effect.step = At(r)
    BY <1>2 DEF Effect
<1>4. TypeOK /\ written[r] \in Seq(Effect)
    BY DEF IInv, TypeOK
<1> HIDE DEF effect
<1>5. /\ Append(written[r], effect) \in Seq(Effect)
      /\ Len(Append(written[r], effect)) = Len(written[r]) + 1
      /\ \A i \in 1..Len(written[r]) : Append(written[r], effect)[i] = written[r][i]
      /\ Append(written[r], effect)[Len(written[r]) + 1] = effect
    BY <1>3, <1>4, AppendProperties
<1>6. written' \in [Runs -> Seq(Effect)] /\ written'[r] = Append(written[r], effect)
      /\ \A q \in Runs \ {r} : written'[q] = written[q]
    BY <1>1, <1>4, <1>5 DEF TypeOK
<1>7. PICK next \in {"return", "step_fail"} : Goto(r, next)
    BY <1>1 DEF Return, HandlerRaises
<1>8. /\ pc' \in [Runs -> Labels] /\ pc'[r] = next
      /\ \A q \in Runs \ {r} : pc'[q] = pc[q]
    BY <1>4, <1>7 DEF TypeOK, Goto, Labels
<1>9. /\ output' \in [Runs -> Values] /\ \A q \in Runs \ {r} : output'[q] = output[q]
    BY <1>1, RawValue, ReturnTyped
<1>10. TypeOK'
    BY <1>1, <1>4, <1>6, <1>8, <1>9 DEF TypeOK, Trail!TrailTypeOK, Labels, called, tables
<1>11. \A q \in Runs \ {r} : SameRun(q)
    BY <1>1, <1>6, <1>8, <1>9 DEF SameRun, called, tables
<1>12. EffectAudited(r, At(r))
    <2>1. options[r].approve_mode
        BY <1>1 DEF OperationAllowed
    <2>2. Recorded(r, "run.started", 0) /\ Recorded(r, "step.started", At(r))
        BY <1>1 DEF IInv, Control, MidStep, Announced
    <2> QED
        BY <1>1, <1>2, <2>1, <2>2 DEF EffectAudited, Current
<1>13. (\A i \in DOMAIN written[r] : EffectAudited(r, written[r][i].step))'
    <2>1. \A s : EffectAudited(r, s)' = EffectAudited(r, s)
        BY <1>1 DEF EffectAudited, Steps, Recorded, called
    <2>2. \A i \in DOMAIN written[r] : EffectAudited(r, written[r][i].step)
        BY DEF IInv, Control
    <2> QED
        BY <1>3, <1>4, <1>5, <1>6, <1>12, <2>1, <2>2
<1>14. /\ At(r)' = At(r) /\ Steps(r)' = Steps(r)
       /\ \A type, s : Recorded(r, type, s)' = Recorded(r, type, s)
       /\ Audited(r, At(r) - 1)'
    BY <1>1 DEF IInv, Control, Audited, At, Steps, Recorded, called, tables
<1>15. Control(r)'
    BY <1>1, <1>7, <1>8, <1>13, <1>14 DEF IInv, Control, MidStep, Announced, called, tables
<1> QED
    BY <1>10, <1>11, <1>15, OneRun
-----------------------------------------------------------------------------
LEMMA StutterStep ==
    ASSUME IInv, UNCHANGED vars
    PROVE  IInv'
<1>1. TypeOK'
    BY DEF IInv, TypeOK, Trail!TrailTypeOK, vars
<1>2. \A q \in Runs : SameRun(q)
    BY DEF SameRun, vars
<1>3. \A q \in Runs : Control(q)'
    BY <1>2, Frame DEF IInv, SameRun
<1> QED
    BY <1>1, <1>3 DEF IInv

(* What run() relies on holds at every point of every run.                 *)
THEOREM Invariance == Spec => []IInv
<1>1. ASSUME IInv, [Next]_vars
      PROVE  IInv'
    <2>1. CASE UNCHANGED vars
        BY <1>1, <2>1, StutterStep
    <2>2. ASSUME NEW r \in Runs, Proceed(r)
          PROVE  IInv'
        BY <1>1, <2>2, RecordRunStartedStep, RecordRunCompletedStep, RecordRunFailedStep,
           RecordStepStartedStep, RecordStepCompletedStep, RecordStepFailedStep,
           RecordLlmValidatedStep, FinishRunStep, FailRunStep, StartStepStep, FinishStepStep,
           FailStepStep, ExecuteCollectStep, ExecuteTransformStep, ExecuteLlmStep,
           ExecuteApproveDryRunStep, ExecuteApproveRaisesStep, ExecuteApproveStep,
           RecordApprovalStep, FinishApproveStep, ExecuteApplyDryRunStep, ExecuteApplyStep
           DEF Proceed
    <2>3. ASSUME NEW r \in Runs, CreateRun(r) \/ DecideItem(r) \/ Crash(r)
          PROVE  IInv'
        BY <1>1, <2>3, CreateRunStep, DecideItemStep, CrashStep
    <2> QED
        BY <1>1, <2>1, <2>2, <2>3 DEF Next
<1> QED
    BY <1>1, InitIInv, PTL DEF Spec

(* The variables keep their types: in particular an approve step only ever *)
(* appends approved entries to a list of entries.                          *)
THEOREM TypeCorrect == Spec => []TypeOK
<1>1. IInv => TypeOK
    BY DEF IInv
<1> QED
    BY <1>1, Invariance, PTL

(* Nothing changes outside but by a write operation of an apply step that  *)
(* the trail has announced, in a run with --approve and without --dry-run, *)
(* for every playbook and whichever calls raise (policy.py, runner.py).    *)
THEOREM EffectsAlwaysAudited == Spec => []EffectsAudited
<1>1. IInv => EffectsAudited
    BY DEF IInv, Control, EffectsAudited, EffectAudited
<1> QED
    BY <1>1, Invariance, PTL

(* A step is only started on steps completed in the table and in the       *)
(* trail (runner.run, runner._run_step).                                   *)
THEOREM StepsAlwaysBuildOnAudited == Spec => []StepsBuildOnAuditedSteps
<1>1. IInv => StepsBuildOnAuditedSteps
    BY DEF IInv, Control, Audited, StepsBuildOnAuditedSteps
<1> QED
    BY <1>1, Invariance, PTL
-----------------------------------------------------------------------------
(***************************************************************************)
(* Tells: what a log says at some positions, when the log grows.           *)
(***************************************************************************)
Upto(at, k) == {j \in at : j <= k}

LEMMA TellsKept ==
    ASSUME NEW story, NEW log, NEW longer, NEW at,
           \A k \in at : longer[k] = log[k], Tells(story, log, at)
    PROVE  Tells(story, longer, at)
BY DEF Tells

(* One more position, after all the others, adds what the log says there.  *)
LEMMA TellsMore ==
    ASSUME NEW n \in Nat, NEW at \in SUBSET (1..n), NEW log, NEW longer,
           \A k \in at : longer[k] = log[k],
           NEW X, NEW story \in Seq(X), NEW e \in X, longer[n + 1] = e,
           Tells(story, log, at)
    PROVE  Tells(Append(story, e), longer, at \cup {n + 1})
<1> DEFINE more == at \cup {n + 1}
<1>1. /\ IsFiniteSet(at) /\ n + 1 \notin at /\ n + 1 \in Nat
      /\ \A k \in at : k \in Nat /\ k < n + 1
    <2>1. IsFiniteSet(1..n)
        BY FS_Interval
    <2>2. IsFiniteSet(at)
        BY <2>1, FS_Subset
    <2>3. ASSUME NEW k \in at PROVE k \in Nat /\ k <= n
        <3>1. k \in 1..n
            OBVIOUS
        <3> QED
            BY <3>1
    <2> QED
        BY <2>2, <2>3
<1>2. Cardinality(more) = Cardinality(at) + 1 /\ Cardinality(at) \in Nat
    BY <1>1, FS_AddElement, FS_CardinalityType
<1>3. Len(story) = Cardinality(at) /\ \A k \in at : story[Cardinality(Upto(at, k))] = log[k]
    BY DEF Tells, Upto
<1>4. /\ Len(Append(story, e)) = Len(story) + 1
      /\ \A i \in 1..Len(story) : Append(story, e)[i] = story[i]
      /\ Append(story, e)[Len(story) + 1] = e
    BY AppendProperties
<1>5. ASSUME NEW k \in at
      PROVE  Append(story, e)[Cardinality(Upto(more, k))] = longer[k]
    <2>1. Upto(more, k) = Upto(at, k)
        <3>1. ~ (n + 1 <= k)
            BY <1>1
        <3> QED
            BY <3>1 DEF Upto
    <2>2. k \in Upto(at, k) /\ Upto(at, k) \in SUBSET at
        BY <1>1 DEF Upto
    <2>3. Cardinality(Upto(at, k)) \in 1..Cardinality(at)
        <3>1. /\ IsFiniteSet(Upto(at, k)) /\ Cardinality(Upto(at, k)) <= Cardinality(at)
              /\ Cardinality(Upto(at, k)) \in Nat
            BY <1>1, <2>2, FS_Subset, FS_CardinalityType
        <3>2. Cardinality(Upto(at, k)) # 0
            BY <2>2, <3>1, FS_EmptySet
        <3> QED
            BY <1>2, <3>1, <3>2
    <2> QED
        BY <1>3, <1>4, <2>1, <2>3
<1>6. Upto(more, n + 1) = more
    <2>1. \A j \in more : j <= n + 1
        BY <1>1
    <2> HIDE DEF more
    <2> QED
        BY <2>1 DEF Upto
<1>7. \A k \in more : Append(story, e)[Cardinality(Upto(more, k))] = longer[k]
    <2>1. Append(story, e)[Cardinality(Upto(more, n + 1))] = longer[n + 1]
        BY <1>2, <1>3, <1>4, <1>6
    <2> QED
        BY <1>5, <2>1
<1> HIDE DEF more
<1> QED
    BY <1>2, <1>3, <1>4, <1>7 DEF Tells, Upto, more

-----------------------------------------------------------------------------
(***************************************************************************)
(* The invariant behind OutcomeIsTold.  OutcomeIsTold speaks of runs that  *)
(* have ended; Outcome says at each control point which story the trail    *)
(* tells by then.                                                          *)
(***************************************************************************)
(* The labels a run gets to only by an exception: nothing is decided then. *)
Failing == {"step_fail", "step_failed", "run_fail", "run_failed", "raised", "dead"}

(* What the trail says once step n has begun, and once it has failed.      *)
Opening(n) == Append(Story(n - 1), Event("step.started", n))

Broken(n) == Append(Opening(n), Event("step.failed", n))

(* The newest step is failed, and the trail says so.                       *)
StepBroke(r) ==
    At(r) >= 1 /\ stepRows[r][At(r)] = "failed"

(* What the trail says of a run's progress at each control point, as long  *)
(* as no store or audit call of the run raised.                            *)
Outcome(r) ==
    /\ pc[r] = "idle" => runRow[r] = "none"
    /\ pc[r] \in {"created", "loop"} \cup MidStep => runRow[r] = "running"
    /\ pc[r] \in {"run_stored", "returned"} => runRow[r] = "completed"
    /\ faulted[r] => pc[r] \in Failing
    /\ pc[r] \in {"idle", "created"} => Says(r, <<>>)
    /\ pc[r] \in {"loop", "run_stored"} => Says(r, Story(At(r)))
    /\ pc[r] = "returned" => Says(r, Append(Story(At(r)), Event("run.completed", 0)))
    /\ pc[r] = "step_inserted" => Says(r, Story(At(r) - 1))
    /\ pc[r] \in Announced => Says(r, Opening(At(r)))
    /\ ~ faulted[r] /\ pc[r] \in {"step_fail", "step_failed"} => Says(r, Opening(At(r)))
    /\ pc[r] = "step_failed" => stepRows[r][At(r)] = "failed"
    /\ ~ faulted[r] /\ pc[r] \in {"run_fail", "run_failed"} =>
           StepBroke(r) /\ Says(r, Broken(At(r)))
    /\ ~ faulted[r] /\ pc[r] = "run_failed" => runRow[r] = "failed"
    /\ ~ faulted[r] /\ pc[r] = "raised" /\ runRow[r] # "none" =>
           /\ StepBroke(r) /\ runRow[r] = "failed"
           /\ Says(r, Append(Broken(At(r)), Event("run.failed", 0)))
    /\ runRow[r] = "completed" =>
           At(r) = Len(Steps(r)) /\ \A s \in 1..At(r) : stepRows[r][s] = "completed"

(* The stories a run tells of its steps are lists of events.               *)
LEMMA StoryType ==
    ASSUME NEW n \in Nat
    PROVE  /\ Story(n) \in Seq(Events) /\ Len(Story(n)) = 2 * n + 1
           /\ Event("run.started", 0) \in Events /\ Event("run.completed", 0) \in Events
           /\ Event("run.failed", 0) \in Events
           /\ \A type \in {"step.started", "step.completed", "step.failed"} :
                  Event(type, n) \in Events
<1>1. \A type \in EventTypes, s \in Nat : Event(type, s) \in Events
    BY EventType
<1>2. \A i \in 1..(2 * n + 1) : i \div 2 \in Nat
    OBVIOUS
<1>3. \A i \in 1..(2 * n + 1) : Story(n)[i] \in Events
    BY <1>1, <1>2 DEF Story, EventTypes
<1>4. Story(n) \in [1..(2 * n + 1) -> Events]
    BY <1>3 DEF Story
<1>5. Story(n) \in Seq(Events) /\ Len(Story(n)) = 2 * n + 1
    <2>1. 2 * n + 1 \in Nat
        OBVIOUS
    <2> HIDE DEF Story
    <2> QED
        BY <1>4, <2>1
<1> QED
    BY <1>1, <1>5 DEF EventTypes

LEMMA LifecycleEvent ==
    ASSUME NEW type \in Lifecycle, NEW s \in Nat
    PROVE  Event(type, s) \in Events /\ Event(type, s).type \in Lifecycle
<1>1. type \in EventTypes
    BY DEF Lifecycle, EventTypes
<1> QED
    BY <1>1, EventType

LEMMA StoryBegins == Story(0) = Append(<<>>, Event("run.started", 0))
<1>1. Story(0) = [i \in 1..1 |-> Event("run.started", 0)]
    BY DEF Story
<1>2. Append(<<>>, Event("run.started", 0)) = <<Event("run.started", 0)>>
    OBVIOUS
<1> QED
    BY <1>1, <1>2

LEMMA StoryGoesOn ==
    ASSUME NEW n \in Nat, n >= 1
    PROVE  /\ Opening(n) \in Seq(Events) /\ Broken(n) \in Seq(Events)
           /\ Append(Opening(n), Event("step.completed", n)) = Story(n)
<1>1. /\ n - 1 \in Nat /\ Story(n - 1) \in Seq(Events) /\ Len(Story(n - 1)) = 2 * n - 1
      /\ Story(n) \in Seq(Events) /\ Len(Story(n)) = 2 * n + 1
      /\ \A type \in {"step.started", "step.completed", "step.failed"} :
                  Event(type, n) \in Events
    <2>1. n - 1 \in Nat /\ 2 * (n - 1) + 1 = 2 * n - 1
        OBVIOUS
    <2>2. Story(n - 1) \in Seq(Events) /\ Len(Story(n - 1)) = 2 * (n - 1) + 1
        BY <2>1, StoryType
    <2> QED
        BY <2>1, <2>2, StoryType
<1>2. /\ Opening(n) \in Seq(Events) /\ Len(Opening(n)) = 2 * n
      /\ \A i \in 1..(2 * n - 1) : Opening(n)[i] = Story(n - 1)[i]
      /\ Opening(n)[2 * n] = Event("step.started", n)
    BY <1>1, AppendProperties DEF Opening
<1>3. Broken(n) \in Seq(Events)
    BY <1>1, <1>2, AppendProperties DEF Broken
<1> DEFINE all == Append(Opening(n), Event("step.completed", n))
<1>4. /\ all \in Seq(Events) /\ Len(all) = 2 * n + 1
      /\ \A i \in 1..(2 * n) : all[i] = Opening(n)[i]
      /\ all[2 * n + 1] = Event("step.completed", n)
    <2>1. Event("step.completed", n) \in Events
        BY <1>1
    <2>2. /\ all \in Seq(Events) /\ Len(all) = Len(Opening(n)) + 1
          /\ \A i \in 1..Len(Opening(n)) : all[i] = Opening(n)[i]
          /\ all[Len(Opening(n)) + 1] = Event("step.completed", n)
        BY <1>2, <2>1, AppendProperties
    <2> QED
        BY <1>2, <2>2
<1> HIDE DEF all
<1>5. \A i \in 1..(2 * n + 1) : all[i] = Story(n)[i]
    <2>1. ASSUME NEW i \in 1..(2 * n - 1) PROVE Story(n)[i] = Story(n - 1)[i]
        BY <2>1 DEF Story
    <2>2. Story(n)[2 * n] = Event("step.started", n)
        <3>1. (2 * n) % 2 = 0 /\ (2 * n) \div 2 = n /\ 2 * n # 1 /\ 2 * n \in 1..(2 * n + 1)
            OBVIOUS
        <3> QED
            BY <3>1 DEF Story
    <2>3. Story(n)[2 * n + 1] = Event("step.completed", n)
        <3>1. /\ (2 * n + 1) % 2 = 1 /\ (2 * n + 1) \div 2 = n /\ 2 * n + 1 # 1
              /\ 2 * n + 1 \in 1..(2 * n + 1)
            OBVIOUS
        <3> QED
            BY <3>1 DEF Story
    <2>4. ASSUME NEW i \in 1..(2 * n + 1)
          PROVE  i \in 1..(2 * n - 1) \/ i = 2 * n \/ i = 2 * n + 1
        OBVIOUS
    <2> QED
        BY <1>2, <1>4, <2>1, <2>2, <2>3, <2>4
<1>6. all = Story(n)
    BY <1>1, <1>4, <1>5, SeqEqual
<1> QED
    BY <1>2, <1>3, <1>6 DEF all
-----------------------------------------------------------------------------
(***************************************************************************)
(* A step of one run leaves every other run as it is.                      *)
(***************************************************************************)
Same(q) ==
    /\ SameRun(q)
    /\ runRow'[q] = runRow[q] /\ context'[q] = context[q]
    /\ item'[q] = item[q] /\ faulted'[q] = faulted[q]

Moves(r) == CreateRun(r) \/ Proceed(r) \/ DecideItem(r) \/ Crash(r)

LEMMA AppendOfOne ==
    ASSUME TypeOK, NEW r \in Runs, NEW q \in Runs \ {r}, NEW event, NEW next, NEW handler,
           AuditAndEmit(r, event, next, handler)
    PROVE  trail'[q] = trail[q] /\ pc'[q] = pc[q] /\ faulted'[q] = faulted[q]
BY DEF AuditAndEmit, Raises, Goto, Trail!Record, TypeOK, Trail!TrailTypeOK

LEMMA OthersStay ==
    ASSUME TypeOK, NEW r \in Runs, NEW q \in Runs \ {r}, Moves(r)
    PROVE  Same(q)
<1>1. CASE \/ RecordRunStarted(r) \/ RecordRunCompleted(r) \/ RecordRunFailed(r)
           \/ RecordStepStarted(r) \/ RecordStepCompleted(r) \/ RecordStepFailed(r)
           \/ RecordLlmValidated(r)
    <2>1. trail'[q] = trail[q] /\ pc'[q] = pc[q] /\ faulted'[q] = faulted[q]
        BY <1>1, AppendOfOne
           DEF RecordRunStarted, RecordRunCompleted, RecordRunFailed, RecordStepStarted,
               RecordStepCompleted, RecordStepFailed, RecordLlmValidated
    <2>2. UNCHANGED <<called, tables, written, locals>>
        BY <1>1 DEF RecordRunStarted, RecordRunCompleted, RecordRunFailed, RecordStepStarted,
                    RecordStepCompleted, RecordStepFailed, RecordLlmValidated
    <2> QED
        BY <2>1, <2>2 DEF Same, SameRun, called, tables, locals
<1>2. CASE ExecuteApproveDryRun(r) \/ RecordApproval(r)
    <2>1. trail'[q] = trail[q] /\ pc'[q] = pc[q] /\ faulted'[q] = faulted[q]
        BY <1>2, AppendOfOne DEF ExecuteApproveDryRun, RecordApproval
    <2>2. /\ UNCHANGED <<called, tables, written, context>>
          /\ item'[q] = item[q] /\ output'[q] = output[q]
        BY <1>2 DEF ExecuteApproveDryRun, RecordApproval, TypeOK
    <2> QED
        BY <2>1, <2>2 DEF Same, SameRun, called, tables
<1>3. CASE \/ ExecuteCollect(r) \/ ExecuteTransform(r) \/ ExecuteLlm(r) \/ ExecuteApproveRaises(r)
           \/ ExecuteApprove(r) \/ FinishApprove(r) \/ ExecuteApplyDryRun(r) \/ ExecuteApply(r)
    <2>1. pc'[q] = pc[q] /\ output'[q] = output[q] /\ item'[q] = item[q]
        BY <1>3 DEF ExecuteCollect, ExecuteTransform, ExecuteLlm, ExecuteApproveRaises,
                    ExecuteApprove, FinishApprove, ExecuteApplyDryRun, ExecuteApply, Return,
                    HandlerRaises, Goto, TypeOK, locals
    <2>2. /\ UNCHANGED <<called, tables, trail, context, faulted>> /\ written'[q] = written[q]
        BY <1>3 DEF ExecuteCollect, ExecuteTransform, ExecuteLlm, ExecuteApproveRaises,
                    ExecuteApprove, FinishApprove, ExecuteApplyDryRun, ExecuteApply, TypeOK, locals
    <2> QED
        BY <2>1, <2>2 DEF Same, SameRun, called, tables
<1>4. CASE FinishRun(r) \/ FailRun(r) \/ StartStep(r) \/ FailStep(r) \/ Crash(r)
    <2>1. /\ pc'[q] = pc[q] /\ faulted'[q] = faulted[q]
          /\ runRow'[q] = runRow[q] /\ stepRows'[q] = stepRows[q]
        BY <1>4 DEF FinishRun, FailRun, StartStep, FailStep, Crash, Raises, Goto, SetLastStep,
                    tables, TypeOK
    <2>2. UNCHANGED <<called, approvals, trail, written, locals>>
        BY <1>4 DEF FinishRun, FailRun, StartStep, FailStep, Crash, tables
    <2> QED
        BY <2>1, <2>2 DEF Same, SameRun, called, locals
<1>5. CASE FinishStep(r)
    <2>1. /\ pc'[q] = pc[q] /\ faulted'[q] = faulted[q]
          /\ context'[q] = context[q] /\ stepRows'[q] = stepRows[q]
        BY <1>5 DEF FinishStep, Raises, Goto, SetLastStep, TypeOK
    <2> QED
        BY <1>5, <2>1 DEF FinishStep, Same, SameRun, called
<1>6. CASE DecideItem(r)
    <2>1. /\ pc'[q] = pc[q] /\ faulted'[q] = faulted[q] /\ approvals'[q] = approvals[q]
        BY <1>6 DEF DecideItem, Raises, Goto, TypeOK
    <2> QED
        BY <1>6, <2>1 DEF DecideItem, Same, SameRun, called, locals
<1>7. CASE CreateRun(r)
    <2>1. /\ pc'[q] = pc[q] /\ faulted'[q] = faulted[q] /\ runRow'[q] = runRow[q]
          /\ playbook'[q] = playbook[q] /\ options'[q] = options[q]
        BY <1>7 DEF CreateRun, Raises, Goto, TypeOK
    <2> QED
        BY <1>7, <2>1 DEF CreateRun, Same, SameRun, locals
<1> QED
    BY <1>1, <1>2, <1>3, <1>4, <1>5, <1>6, <1>7 DEF Moves, Proceed
-----------------------------------------------------------------------------
(***************************************************************************)
(* What the trail says when an event is recorded.                          *)
(***************************************************************************)
Grows(r, event) == trail'[r] = Append(trail[r], event)

LEMMA AppendOutcome ==
    ASSUME TypeOK, NEW r \in Runs, NEW event, NEW next, NEW handler,
           AuditAndEmit(r, event, next, handler)
    PROVE  \/ pc'[r] = next /\ faulted'[r] = faulted[r] /\ Grows(r, event)
           \/ /\ pc'[r] = handler /\ faulted'[r] = TRUE
              /\ Grows(r, event) \/ trail'[r] = trail[r]
BY DEF AuditAndEmit, Raises, Goto, Trail!Record, Grows, TypeOK, Trail!TrailTypeOK

SaysOf(r, types, story) == Tells(story, trail[r], EventsOf(r, types))

LEMMA SaysMore ==
    ASSUME NEW r \in Runs, trail[r] \in Seq(Events), NEW event \in Events, Grows(r, event),
           NEW types, event.type \in types, NEW story \in Seq(Events), SaysOf(r, types, story)
    PROVE  Tells(Append(story, event), trail'[r], EventsOf(r, types)')
<1> DEFINE n == Len(trail[r])
           at == EventsOf(r, types)
<1>1. /\ n \in Nat /\ Len(trail'[r]) = n + 1 /\ DOMAIN trail'[r] = 1..(n + 1)
      /\ DOMAIN trail[r] = 1..n
      /\ \A k \in 1..n : trail'[r][k] = trail[r][k]
      /\ trail'[r][n + 1] = event
    BY AppendProperties DEF Grows
<1>2. at \in SUBSET (1..n) /\ \A k \in at : trail'[r][k] = trail[r][k]
    BY <1>1 DEF EventsOf
<1>3. EventsOf(r, types)' = at \cup {n + 1}
    <2>1. \A k \in 1..(n + 1) : k \in 1..n \/ k = n + 1
        BY <1>1
    <2>2. 1..n \subseteq 1..(n + 1) /\ n + 1 \in 1..(n + 1)
        BY <1>1
    <2> QED
        BY <1>1, <2>1, <2>2 DEF EventsOf
<1>4. Tells(story, trail[r], at)
    BY DEF SaysOf
<1> HIDE DEF at, n
<1>5. Tells(Append(story, event), trail'[r], at \cup {n + 1})
    BY <1>1, <1>2, <1>4, TellsMore
<1> QED
    BY <1>3, <1>5

LEMMA SaysNoMore ==
    ASSUME NEW r \in Runs, trail[r] \in Seq(Events), NEW event \in Events, NEW types,
           (Grows(r, event) /\ event.type \notin types) \/ trail'[r] = trail[r],
           NEW story, SaysOf(r, types, story)
    PROVE  Tells(story, trail'[r], EventsOf(r, types)')
<1> DEFINE n == Len(trail[r])
           at == EventsOf(r, types)
<1>1. CASE trail'[r] = trail[r]
    BY <1>1 DEF SaysOf, EventsOf
<1>2. CASE Grows(r, event) /\ event.type \notin types
    <2>1. /\ n \in Nat /\ Len(trail'[r]) = n + 1 /\ DOMAIN trail'[r] = 1..(n + 1)
          /\ DOMAIN trail[r] = 1..n
          /\ \A k \in 1..n : trail'[r][k] = trail[r][k]
          /\ trail'[r][n + 1] = event
        BY <1>2, AppendProperties DEF Grows
    <2>2. \A k \in at : trail'[r][k] = trail[r][k]
        BY <2>1 DEF EventsOf
    <2>3. EventsOf(r, types)' = at
        <3>1. \A k \in 1..(n + 1) : k \in 1..n \/ k = n + 1
            BY <2>1
        <3>2. 1..n \subseteq 1..(n + 1)
            BY <2>1
        <3> QED
            BY <1>2, <2>1, <3>1, <3>2 DEF EventsOf
    <2>4. Tells(story, trail[r], at)
        BY DEF SaysOf
    <2> HIDE DEF at, n
    <2>5. Tells(story, trail'[r], at)
        BY <2>2, <2>4, TellsKept
    <2> QED
        BY <2>3, <2>5
<1> QED
    BY <1>1, <1>2
-----------------------------------------------------------------------------
(***************************************************************************)
(* What the trail tells of a run, whichever step the run makes.            *)
(***************************************************************************)
OInv == IInv /\ \A r \in Runs : Outcome(r)

LEMMA SaysKept ==
    ASSUME NEW r \in Runs, trail'[r] = trail[r]
    PROVE  \A story : Says(r, story)' = Says(r, story)
BY DEF Says, EventsOf

LEMMA OutcomeFrame ==
    ASSUME NEW q \in Runs, Same(q), Outcome(q)
    PROVE  Outcome(q)'
<1>1. At(q)' = At(q) /\ Steps(q)' = Steps(q) /\ StepBroke(q)' = StepBroke(q)
    BY DEF Same, SameRun, At, Steps, StepBroke
<1>2. \A story : Says(q, story)' = Says(q, story)
    BY SaysKept DEF Same, SameRun
<1>3. /\ pc'[q] = pc[q] /\ runRow'[q] = runRow[q] /\ stepRows'[q] = stepRows[q]
      /\ faulted'[q] = faulted[q]
    BY DEF Same, SameRun
<1> QED
    BY <1>1, <1>2, <1>3 DEF Outcome

(* Once a call of the run raised, little is left to tell.                  *)
LEMMA FaultedOutcome ==
    ASSUME NEW r \in Runs, pc'[r] \in Failing, faulted'[r] = TRUE,
           pc'[r] = "step_failed" => (stepRows[r][At(r)] = "failed")',
           pc'[r] \in {"step_fail", "step_failed"} => runRow'[r] = "running",
           runRow'[r] = "completed" =>
               (At(r) = Len(Steps(r)) /\ \A s \in 1..At(r) : stepRows[r][s] = "completed")'
    PROVE  Outcome(r)'
<1>1. pc'[r] \notin {"idle", "created", "loop", "run_stored", "returned", "step_inserted"}
    BY DEF Failing
<1>2. pc'[r] \notin Announced
    BY DEF Failing, Announced
<1>3. pc'[r] \in MidStep => pc'[r] \in {"step_fail", "step_failed"}
    BY <1>1, <1>2 DEF MidStep, Failing
<1> QED
    BY <1>1, <1>2, <1>3 DEF Outcome

(* A call that raises away from _run_step's own store calls.               *)
LEMMA CallRaised ==
    ASSUME NEW r \in Runs, Outcome(r), pc'[r] \in Failing \ {"step_failed"}, faulted'[r] = TRUE,
           pc'[r] = "step_fail" => pc[r] \in MidStep,
           playbook'[r] = playbook[r], stepRows'[r] = stepRows[r], runRow'[r] = runRow[r]
    PROVE  Outcome(r)'
<1>1. At(r)' = At(r) /\ Steps(r)' = Steps(r)
    BY DEF At, Steps
<1>2. pc'[r] \in {"step_fail", "step_failed"} => runRow'[r] = "running"
    BY DEF Outcome
<1>3. runRow'[r] = "completed" =>
          (At(r) = Len(Steps(r)) /\ \A s \in 1..At(r) : stepRows[r][s] = "completed")'
    BY <1>1 DEF Outcome
<1> QED
    BY <1>2, <1>3, FaultedOutcome

(* Between step.started and the end of the step the trail tells nothing    *)
(* more of the run's progress.                                             *)
LEMMA InsideStep ==
    ASSUME NEW r \in Runs, Outcome(r), pc[r] \in Announced,
           pc'[r] \in Announced \cup {"step_fail"},
           faulted'[r] = TRUE => pc'[r] = "step_fail",
           faulted'[r] \in BOOLEAN, runRow'[r] = runRow[r], At(r)' = At(r),
           \A story : Says(r, story) => Says(r, story)'
    PROVE  Outcome(r)'
<1>1. runRow'[r] = "running" /\ Says(r, Opening(At(r)))
    BY DEF Outcome, Announced, MidStep
<1>2. Says(r, Opening(At(r)))'
    BY <1>1
<1>3. pc'[r] \notin {"idle", "created", "loop", "run_stored", "returned", "step_inserted",
                     "step_failed", "run_fail", "run_failed", "raised"}
    BY DEF Announced
<1>4. faulted'[r] => pc'[r] \in Failing
    BY DEF Failing
<1> QED
    BY <1>1, <1>2, <1>3, <1>4 DEF Outcome

LEMMA TellsOn ==
    ASSUME IInv, NEW r \in Runs, NEW story \in Seq(Events), Says(r, story),
           NEW event \in Events, event.type \in Lifecycle, NEW next, NEW handler,
           AuditAndEmit(r, event, next, handler)
    PROVE  \/ pc'[r] = next /\ faulted'[r] = faulted[r] /\ Says(r, Append(story, event))'
           \/ pc'[r] = handler /\ faulted'[r] = TRUE
<1>1. TypeOK /\ trail[r] \in Seq(Events)
    BY DEF IInv, TypeOK, Trail!TrailTypeOK
<1>2. ASSUME Grows(r, event) PROVE Says(r, Append(story, event))'
    <2>1. SaysOf(r, Lifecycle, story)
        BY DEF Says, SaysOf
    <2>2. Tells(Append(story, event), trail'[r], EventsOf(r, Lifecycle)')
        BY <1>1, <1>2, <2>1, SaysMore
    <2> QED
        BY <2>2 DEF Says
<1> QED
    BY <1>1, <1>2, AppendOutcome

LEMMA TellsNothing ==
    ASSUME IInv, NEW r \in Runs, NEW event \in Events, event.type \notin Lifecycle,
           NEW next, NEW handler, AuditAndEmit(r, event, next, handler)
    PROVE  /\ \A story : Says(r, story) => Says(r, story)'
           /\ \/ pc'[r] = next /\ faulted'[r] = faulted[r]
              \/ pc'[r] = handler /\ faulted'[r] = TRUE
<1>1. TypeOK /\ trail[r] \in Seq(Events)
    BY DEF IInv, TypeOK, Trail!TrailTypeOK
<1>2. /\ Grows(r, event) \/ trail'[r] = trail[r]
      /\ \/ pc'[r] = next /\ faulted'[r] = faulted[r]
         \/ pc'[r] = handler /\ faulted'[r] = TRUE
    BY <1>1, AppendOutcome
<1>3. ASSUME NEW story, Says(r, story) PROVE Says(r, story)'
    <2>1. SaysOf(r, Lifecycle, story)
        BY <1>3 DEF Says, SaysOf
    <2>2. Tells(story, trail'[r], EventsOf(r, Lifecycle)')
        BY <1>1, <1>2, <2>1, SaysNoMore
    <2> QED
        BY <2>2 DEF Says
<1> QED
    BY <1>2, <1>3
-----------------------------------------------------------------------------
LEMMA HandlersOutcome ==
    ASSUME IInv, NEW r \in Runs, Outcome(r),
           \/ ExecuteCollect(r) \/ ExecuteTransform(r) \/ ExecuteLlm(r) \/ ExecuteApproveRaises(r)
           \/ ExecuteApprove(r) \/ FinishApprove(r) \/ ExecuteApplyDryRun(r) \/ ExecuteApply(r)
    PROVE  Outcome(r)'
<1>1. /\ pc[r] \in {"execute", "approve"}
      /\ UNCHANGED <<called, tables, trail, faulted>>
      /\ \E next \in {"return", "validated", "approve", "step_fail"} : Goto(r, next)
    BY DEF ExecuteCollect, ExecuteTransform, ExecuteLlm, ExecuteApproveRaises, ExecuteApprove,
           FinishApprove, ExecuteApplyDryRun, ExecuteApply, Executing, Return, HandlerRaises,
           locals
<1>2. pc'[r] \in {"return", "validated", "approve", "step_fail"}
    BY <1>1 DEF Goto, IInv, TypeOK
<1>3. faulted'[r] = FALSE
    BY <1>1 DEF Outcome, Failing, IInv, TypeOK
<1>4. \A story : Says(r, story) => Says(r, story)'
    BY <1>1, SaysKept
<1>5. At(r)' = At(r) /\ runRow'[r] = runRow[r]
    BY <1>1 DEF At, tables
<1> QED
    BY <1>1, <1>2, <1>3, <1>4, <1>5, InsideStep DEF Announced

LEMMA DecideItemOutcome ==
    ASSUME IInv, NEW r \in Runs, Outcome(r), DecideItem(r)
    PROVE  Outcome(r)'
<1>1. pc[r] = "approve" /\ UNCHANGED <<runRow, stepRows, trail>>
    BY DEF DecideItem
<1>2. faulted[r] = FALSE
    BY <1>1 DEF Outcome, Failing, IInv, TypeOK
<1>3. /\ pc'[r] \in {"decided", "step_fail"}
      /\ faulted'[r] \in BOOLEAN /\ (faulted'[r] = TRUE => pc'[r] = "step_fail")
    BY <1>2 DEF DecideItem, Raises, Goto, IInv, TypeOK
<1>4. \A story : Says(r, story) => Says(r, story)'
    BY <1>1, SaysKept
<1>5. At(r)' = At(r) /\ runRow'[r] = runRow[r]
    BY <1>1 DEF At
<1> QED
    BY <1>1, <1>3, <1>4, <1>5, InsideStep DEF Announced

LEMMA OtherEventsOutcome ==
    ASSUME IInv, NEW r \in Runs, Outcome(r),
           RecordLlmValidated(r) \/ ExecuteApproveDryRun(r) \/ RecordApproval(r)
    PROVE  Outcome(r)'
<1> DEFINE decided == [Event("approval.recorded", At(r)) EXCEPT
                          !.item = Last(approvals[r]).item, !.decision = Last(approvals[r]).decision]
<1>1. /\ pc[r] \in {"validated", "execute", "decided"} /\ UNCHANGED <<called, tables>>
      /\ \E next \in {"return", "approve"} :
            \/ AuditAndEmit(r, Event("llm.output.validated", At(r)), next, "step_fail")
            \/ AuditAndEmit(r, Event("approval.skipped_dry_run", At(r)), next, "step_fail")
            \/ pc[r] = "decided" /\ AuditAndEmit(r, decided, next, "step_fail")
    BY DEF RecordLlmValidated, ExecuteApproveDryRun, RecordApproval, Executing
<1>2. PICK next \in {"return", "approve"}, event \in Events :
          event.type \notin Lifecycle /\ AuditAndEmit(r, event, next, "step_fail")
    <2>1. At(r) \in Nat
        BY DEF IInv, TypeOK, At
    <2>2. \A type \in {"llm.output.validated", "approval.skipped_dry_run"} :
              Event(type, At(r)) \in Events /\ Event(type, At(r)).type = type
        BY <2>1, EventType DEF EventTypes
    <2>3. pc[r] = "decided" => decided \in Events /\ decided.type = "approval.recorded"
        <3>1. ASSUME pc[r] = "decided" PROVE Last(approvals[r]) \in Approval
            <4>1. approvals[r] \in Seq(Approval) /\ approvals[r] # <<>>
                BY <3>1 DEF IInv, TypeOK, Control
            <4>2. Len(approvals[r]) \in DOMAIN approvals[r]
                BY <4>1, EmptySeq
            <4> QED
                BY <4>1, <4>2 DEF Last
        <3> QED
            BY <2>1, <3>1 DEF Approval, Events, Event, EventTypes
    <2> HIDE DEF decided
    <2> QED
        BY <1>1, <2>2, <2>3 DEF Lifecycle
<1>3. /\ \A story : Says(r, story) => Says(r, story)'
      /\ \/ pc'[r] = next /\ faulted'[r] = faulted[r]
         \/ pc'[r] = "step_fail" /\ faulted'[r] = TRUE
    BY <1>2, TellsNothing
<1>4. faulted[r] = FALSE
    BY <1>1 DEF Outcome, Failing, IInv, TypeOK
<1>5. At(r)' = At(r) /\ runRow'[r] = runRow[r]
    BY <1>1 DEF At, tables
<1> QED
    BY <1>1, <1>3, <1>4, <1>5, InsideStep DEF Announced

LEMMA FinishStepOutcome ==
    ASSUME IInv, NEW r \in Runs, Outcome(r), FinishStep(r)
    PROVE  Outcome(r)'
<1>1. pc[r] = "return" /\ UNCHANGED <<runRow, trail>>
    BY DEF FinishStep
<1>2. faulted[r] = FALSE
    BY <1>1 DEF Outcome, Failing, IInv, TypeOK
<1>3. /\ pc'[r] \in {"step_stored", "step_fail"}
      /\ faulted'[r] \in BOOLEAN /\ (faulted'[r] = TRUE => pc'[r] = "step_fail")
    BY <1>2 DEF FinishStep, Raises, Goto, IInv, TypeOK
<1>4. \A story : Says(r, story) => Says(r, story)'
    BY <1>1, SaysKept
<1>5. At(r)' = At(r) /\ runRow'[r] = runRow[r]
    <2>1. SetLastStep(r, "completed") \/ UNCHANGED stepRows
        BY DEF FinishStep
    <2> QED
        BY <1>1, <2>1, SetLastStepEffect DEF MidStep
<1> QED
    BY <1>1, <1>3, <1>4, <1>5, InsideStep DEF Announced
-----------------------------------------------------------------------------
LEMMA CreateRunOutcome ==
    ASSUME IInv, NEW r \in Runs, Outcome(r), CreateRun(r)
    PROVE  Outcome(r)'
<1>1. /\ pc[r] = "idle" /\ UNCHANGED <<stepRows, trail>>
      /\ runRow[r] = "none" /\ Says(r, <<>>) /\ faulted[r] = FALSE
    BY DEF CreateRun, Outcome, Failing, IInv, TypeOK
<1>2. Says(r, <<>>)'
    BY <1>1, SaysKept
<1>3. \/ pc'[r] = "created" /\ runRow'[r] = "running" /\ faulted'[r] = FALSE
      \/ pc'[r] = "raised" /\ runRow'[r] = "none"
    BY <1>1 DEF CreateRun, Raises, Goto, IInv, TypeOK
<1> QED
    BY <1>2, <1>3 DEF Outcome, MidStep, Announced, Failing

LEMMA RecordRunStartedOutcome ==
    ASSUME IInv, NEW r \in Runs, Outcome(r), RecordRunStarted(r)
    PROVE  Outcome(r)'
<1>1. /\ pc[r] = "created" /\ UNCHANGED <<called, tables>>
      /\ AuditAndEmit(r, Event("run.started", 0), "loop", "raised")
    BY DEF RecordRunStarted
<1>2. /\ Says(r, <<>>) /\ runRow[r] = "running" /\ faulted[r] = FALSE /\ At(r) = 0
    BY <1>1 DEF Outcome, Failing, IInv, TypeOK, Control, At
<1>3. /\ Event("run.started", 0) \in Events /\ Event("run.started", 0).type \in Lifecycle
      /\ <<>> \in Seq(Events)
    <2>1. "run.started" \in Lifecycle /\ 0 \in Nat
        BY DEF Lifecycle
    <2> QED
        BY <2>1, LifecycleEvent
<1>4. At(r)' = At(r) /\ runRow'[r] = runRow[r] /\ stepRows'[r] = stepRows[r] /\ playbook'[r] = playbook[r]
    BY <1>1 DEF At, called, tables
<1>5. \/ pc'[r] = "loop" /\ faulted'[r] = faulted[r] /\ Says(r, Append(<<>>, Event("run.started", 0)))'
      \/ pc'[r] = "raised" /\ faulted'[r] = TRUE
    BY <1>1, <1>2, <1>3, TellsOn
<1>6. CASE pc'[r] = "raised" /\ faulted'[r] = TRUE
    BY <1>4, <1>6, CallRaised DEF Failing
<1>7. CASE pc'[r] = "loop" /\ faulted'[r] = faulted[r] /\ Says(r, Append(<<>>, Event("run.started", 0)))'
    <2>1. Says(r, Story(0))'
        BY <1>7, StoryBegins
    <2>2. Says(r, Story(At(r)))'
        BY <1>2, <1>4, <2>1
    <2> QED
        BY <1>2, <1>4, <1>7, <2>2 DEF Outcome, MidStep, Announced
<1> QED
    BY <1>5, <1>6, <1>7

LEMMA FinishRunOutcome ==
    ASSUME IInv, NEW r \in Runs, Outcome(r), FinishRun(r)
    PROVE  Outcome(r)'
<1>1. /\ pc[r] = "loop" /\ UNCHANGED <<called, stepRows, trail>> /\ At(r) = Len(Steps(r))
    BY DEF FinishRun
<1>2. /\ Says(r, Story(At(r))) /\ faulted[r] = FALSE
      /\ \A s \in 1..At(r) : stepRows[r][s] = "completed"
    BY <1>1 DEF Outcome, Failing, IInv, TypeOK, Control, Audited
<1>3. At(r)' = At(r) /\ Steps(r)' = Steps(r) /\ stepRows'[r] = stepRows[r] /\ playbook'[r] = playbook[r]
    BY <1>1 DEF At, Steps, called
<1>4. Says(r, Story(At(r)))'
    BY <1>1, <1>2, <1>3, SaysKept
<1>5. \/ pc'[r] = "run_stored" /\ runRow'[r] = "completed" /\ faulted'[r] = FALSE
      \/ pc'[r] = "run_fail" /\ runRow'[r] = runRow[r] /\ faulted'[r] = TRUE
    BY <1>2 DEF FinishRun, Raises, Goto, IInv, TypeOK
<1>6. CASE pc'[r] = "run_fail" /\ runRow'[r] = runRow[r] /\ faulted'[r] = TRUE
    BY <1>3, <1>6, CallRaised DEF Failing
<1>7. CASE pc'[r] = "run_stored" /\ runRow'[r] = "completed" /\ faulted'[r] = FALSE
    BY <1>1, <1>2, <1>3, <1>4, <1>7 DEF Outcome, MidStep, Announced
<1> QED
    BY <1>5, <1>6, <1>7

LEMMA RecordRunCompletedOutcome ==
    ASSUME IInv, NEW r \in Runs, Outcome(r), RecordRunCompleted(r)
    PROVE  Outcome(r)'
<1>1. /\ pc[r] = "run_stored" /\ UNCHANGED <<called, tables>>
      /\ AuditAndEmit(r, Event("run.completed", 0), "returned", "run_fail")
    BY DEF RecordRunCompleted
<1> PICK n \in Nat : n = At(r)
    BY DEF IInv, TypeOK, At
<1>2. /\ Says(r, Story(n)) /\ runRow[r] = "completed" /\ faulted[r] = FALSE
      /\ n = Len(Steps(r)) /\ \A s \in 1..n : stepRows[r][s] = "completed"
    BY <1>1 DEF Outcome, Failing, IInv, TypeOK
<1>3. /\ Event("run.completed", 0) \in Events /\ Event("run.completed", 0).type \in Lifecycle
      /\ Story(n) \in Seq(Events)
    <2>1. "run.completed" \in Lifecycle /\ 0 \in Nat
        BY DEF Lifecycle
    <2>2. Story(n) \in Seq(Events)
        BY StoryType
    <2> QED
        BY <2>1, <2>2, LifecycleEvent
<1>4. /\ At(r)' = n /\ Steps(r)' = Steps(r) /\ runRow'[r] = runRow[r]
      /\ stepRows'[r] = stepRows[r] /\ playbook'[r] = playbook[r]
    BY <1>1 DEF At, Steps, called, tables
<1>5. \/ /\ pc'[r] = "returned" /\ faulted'[r] = faulted[r]
         /\ Says(r, Append(Story(n), Event("run.completed", 0)))'
      \/ pc'[r] = "run_fail" /\ faulted'[r] = TRUE
    BY <1>1, <1>2, <1>3, TellsOn
<1>6. CASE pc'[r] = "run_fail" /\ faulted'[r] = TRUE
    BY <1>4, <1>6, CallRaised DEF Failing
<1>7. CASE /\ pc'[r] = "returned" /\ faulted'[r] = faulted[r]
           /\ Says(r, Append(Story(n), Event("run.completed", 0)))'
    BY <1>2, <1>4, <1>7 DEF Outcome, MidStep, Announced
<1> QED
    BY <1>5, <1>6, <1>7

LEMMA FailRunOutcome ==
    ASSUME IInv, NEW r \in Runs, Outcome(r), FailRun(r)
    PROVE  Outcome(r)'
<1>1. pc[r] = "run_fail" /\ UNCHANGED <<called, stepRows, trail>>
    BY DEF FailRun
<1>2. /\ At(r)' = At(r) /\ Steps(r)' = Steps(r) /\ stepRows'[r] = stepRows[r]
      /\ playbook'[r] = playbook[r] /\ StepBroke(r)' = StepBroke(r)
    BY <1>1 DEF At, Steps, StepBroke, called
<1>3. \/ pc'[r] = "run_failed" /\ runRow'[r] = "failed" /\ faulted'[r] = faulted[r]
      \/ pc'[r] = "raised" /\ runRow'[r] = runRow[r] /\ faulted'[r] = TRUE
    BY <1>1 DEF FailRun, Raises, Goto, IInv, TypeOK
<1>4. CASE pc'[r] = "raised" /\ runRow'[r] = runRow[r] /\ faulted'[r] = TRUE
    BY <1>2, <1>4, CallRaised DEF Failing
<1>5. CASE pc'[r] = "run_failed" /\ runRow'[r] = "failed" /\ faulted'[r] = faulted[r]
    <2>1. ~ faulted[r] => StepBroke(r)' /\ Says(r, Broken(At(r)))'
        BY <1>1, <1>2, SaysKept DEF Outcome
    <2> QED
        BY <1>5, <2>1 DEF Outcome, MidStep, Announced, Failing
<1> QED
    BY <1>3, <1>4, <1>5

LEMMA RecordRunFailedOutcome ==
    ASSUME IInv, NEW r \in Runs, Outcome(r), RecordRunFailed(r)
    PROVE  Outcome(r)'
<1>1. /\ pc[r] = "run_failed" /\ UNCHANGED <<called, tables>>
      /\ AuditAndEmit(r, Event("run.failed", 0), "raised", "raised")
    BY DEF RecordRunFailed
<1> PICK n \in Nat : n = At(r)
    BY DEF IInv, TypeOK, At
<1>2. /\ At(r)' = n /\ Steps(r)' = Steps(r) /\ runRow'[r] = runRow[r]
      /\ stepRows'[r] = stepRows[r] /\ playbook'[r] = playbook[r] /\ StepBroke(r)' = StepBroke(r)
    BY <1>1 DEF At, Steps, StepBroke, called, tables
<1>3. pc'[r] = "raised" /\ faulted'[r] \in BOOLEAN /\ (faulted'[r] = TRUE \/ faulted'[r] = faulted[r])
    <2>1. TypeOK
        BY DEF IInv
    <2> QED
        BY <1>1, <2>1, AppendOutcome DEF TypeOK
<1>4. CASE faulted'[r] = TRUE
    BY <1>2, <1>3, <1>4, CallRaised DEF Failing
<1>5. CASE faulted'[r] = FALSE
    <2>1. /\ StepBroke(r) /\ Says(r, Broken(n)) /\ runRow[r] = "failed"
        BY <1>1, <1>3, <1>5 DEF Outcome
    <2>2. Broken(n) \in Seq(Events)
        <3>1. n >= 1
            BY <2>1 DEF StepBroke
        <3> QED
            BY <3>1, StoryGoesOn
    <2>3. Event("run.failed", 0) \in Events /\ Event("run.failed", 0).type \in Lifecycle
        <3>1. "run.failed" \in Lifecycle /\ 0 \in Nat
            BY DEF Lifecycle
        <3> QED
            BY <3>1, LifecycleEvent
    <2>4. Says(r, Append(Broken(n), Event("run.failed", 0)))'
        BY <1>1, <1>5, <2>1, <2>2, <2>3, TellsOn
    <2> QED
        BY <1>2, <1>3, <1>5, <2>1, <2>4 DEF Outcome, MidStep, Announced, Failing
<1> QED
    BY <1>3, <1>4, <1>5

LEMMA StartStepOutcome ==
    ASSUME IInv, NEW r \in Runs, Outcome(r), StartStep(r)
    PROVE  Outcome(r)'
<1>1. pc[r] = "loop" /\ UNCHANGED <<called, runRow, trail>>
    BY DEF StartStep
<1> PICK n \in Nat : n = At(r)
    BY DEF IInv, TypeOK, At
<1>2. Says(r, Story(n)) /\ runRow[r] = "running" /\ faulted[r] = FALSE
    BY <1>1 DEF Outcome, Failing, IInv, TypeOK
<1>3. \/ pc'[r] = "step_inserted" /\ faulted'[r] = FALSE /\ At(r)' = n + 1
      \/ pc'[r] = "run_fail" /\ faulted'[r] = TRUE /\ stepRows'[r] = stepRows[r]
    <2>1. stepRows[r] \in Seq({"running", "completed", "failed"})
        BY DEF IInv, TypeOK
    <2>2. Len(Append(stepRows[r], "running")) = n + 1
        BY <2>1, AppendProperties DEF At
    <2> QED
        BY <1>2, <2>2 DEF StartStep, Raises, Goto, IInv, TypeOK, At
<1>4. CASE pc'[r] = "run_fail" /\ faulted'[r] = TRUE /\ stepRows'[r] = stepRows[r]
    BY <1>1, <1>4, CallRaised DEF Failing, called
<1>5. CASE pc'[r] = "step_inserted" /\ faulted'[r] = FALSE /\ At(r)' = n + 1
    <2>1. Says(r, Story(n))' /\ At(r)' - 1 = n
        BY <1>1, <1>2, <1>5, SaysKept
    <2>2. Says(r, Story(At(r) - 1))'
        BY <2>1
    <2> QED
        BY <1>1, <1>2, <1>5, <2>2 DEF Outcome, MidStep, Announced
<1> QED
    BY <1>3, <1>4, <1>5

LEMMA RecordStepStartedOutcome ==
    ASSUME IInv, NEW r \in Runs, Outcome(r), RecordStepStarted(r)
    PROVE  Outcome(r)'
<1>1. /\ pc[r] = "step_inserted" /\ UNCHANGED <<called, tables>>
      /\ AuditAndEmit(r, Event("step.started", At(r)), "execute", "run_fail")
    BY DEF RecordStepStarted
<1>0. At(r) \in Nat /\ At(r) >= 1
    BY <1>1, CurrentStep DEF MidStep
<1> PICK n \in Nat : n = At(r) /\ n >= 1
    BY <1>0
<1>2. Says(r, Story(n - 1)) /\ runRow[r] = "running" /\ faulted[r] = FALSE
    BY <1>1 DEF Outcome, Failing, IInv, TypeOK, MidStep
<1>3. /\ Event("step.started", n) \in Events /\ Event("step.started", n).type \in Lifecycle
      /\ Story(n - 1) \in Seq(Events)
    <2>1. n - 1 \in Nat /\ "step.started" \in Lifecycle
        BY DEF Lifecycle
    <2>2. Story(n - 1) \in Seq(Events)
        BY <2>1, StoryType
    <2> QED
        BY <2>1, <2>2, LifecycleEvent
<1>4. /\ At(r)' = n /\ runRow'[r] = runRow[r]
      /\ stepRows'[r] = stepRows[r] /\ playbook'[r] = playbook[r]
    BY <1>1 DEF At, called, tables
<1>5. \/ pc'[r] = "execute" /\ faulted'[r] = faulted[r] /\ Says(r, Opening(n))'
      \/ pc'[r] = "run_fail" /\ faulted'[r] = TRUE
    <2>1. AuditAndEmit(r, Event("step.started", n), "execute", "run_fail")
        BY <1>1
    <2> QED
        BY <2>1, <1>2, <1>3, TellsOn DEF Opening
<1>6. CASE pc'[r] = "run_fail" /\ faulted'[r] = TRUE
    BY <1>4, <1>6, CallRaised DEF Failing
<1>7. CASE pc'[r] = "execute" /\ faulted'[r] = faulted[r] /\ Says(r, Opening(n))'
    BY <1>2, <1>4, <1>7 DEF Outcome, MidStep, Announced
<1> QED
    BY <1>5, <1>6, <1>7

LEMMA RecordStepCompletedOutcome ==
    ASSUME IInv, NEW r \in Runs, Outcome(r), RecordStepCompleted(r)
    PROVE  Outcome(r)'
<1>1. /\ pc[r] = "step_stored" /\ UNCHANGED <<called, tables>>
      /\ AuditAndEmit(r, Event("step.completed", At(r)), "loop", "step_fail")
    BY DEF RecordStepCompleted
<1>0. At(r) \in Nat /\ At(r) >= 1
    BY <1>1, CurrentStep DEF MidStep
<1> PICK n \in Nat : n = At(r) /\ n >= 1
    BY <1>0
<1>2. Says(r, Opening(n)) /\ runRow[r] = "running" /\ faulted[r] = FALSE
    BY <1>1 DEF Outcome, Failing, IInv, TypeOK, MidStep, Announced
<1>3. /\ Event("step.completed", n) \in Events /\ Event("step.completed", n).type \in Lifecycle
      /\ Opening(n) \in Seq(Events)
    <2>1. "step.completed" \in Lifecycle
        BY DEF Lifecycle
    <2> QED
        BY <2>1, LifecycleEvent, StoryGoesOn
<1>4. /\ At(r)' = n /\ runRow'[r] = runRow[r]
      /\ stepRows'[r] = stepRows[r] /\ playbook'[r] = playbook[r]
    BY <1>1 DEF At, called, tables
<1>5. \/ pc'[r] = "loop" /\ faulted'[r] = faulted[r] /\ Says(r, Story(n))'
      \/ pc'[r] = "step_fail" /\ faulted'[r] = TRUE
    <2>1. AuditAndEmit(r, Event("step.completed", n), "loop", "step_fail")
        BY <1>1
    <2>2. Append(Opening(n), Event("step.completed", n)) = Story(n)
        BY StoryGoesOn
    <2> QED
        BY <2>1, <2>2, <1>2, <1>3, TellsOn
<1>6. CASE pc'[r] = "step_fail" /\ faulted'[r] = TRUE
    BY <1>1, <1>4, <1>6, CallRaised DEF Failing, MidStep
<1>7. CASE pc'[r] = "loop" /\ faulted'[r] = faulted[r] /\ Says(r, Story(n))'
    BY <1>2, <1>4, <1>7 DEF Outcome, MidStep, Announced
<1> QED
    BY <1>5, <1>6, <1>7

LEMMA FailStepOutcome ==
    ASSUME IInv, NEW r \in Runs, Outcome(r), FailStep(r)
    PROVE  Outcome(r)'
<1>1. pc[r] = "step_fail" /\ UNCHANGED <<called, runRow, trail>>
    BY DEF FailStep
<1>0. At(r) \in Nat /\ At(r) >= 1
    BY <1>1, CurrentStep DEF MidStep
<1> PICK n \in Nat : n = At(r) /\ n >= 1
    BY <1>0
<1>2. runRow[r] = "running" /\ (~ faulted[r] => Says(r, Opening(n)))
    BY <1>1 DEF Outcome, MidStep
<1>3. \/ pc'[r] = "step_failed" /\ faulted'[r] = faulted[r] /\ SetLastStep(r, "failed")
      \/ pc'[r] = "run_fail" /\ faulted'[r] = TRUE /\ UNCHANGED stepRows
    BY DEF FailStep, Raises, Goto, IInv, TypeOK
<1>4. CASE pc'[r] = "run_fail" /\ faulted'[r] = TRUE /\ UNCHANGED stepRows
    BY <1>1, <1>4, CallRaised DEF Failing, called
<1>5. CASE pc'[r] = "step_failed" /\ faulted'[r] = faulted[r] /\ SetLastStep(r, "failed")
    <2>1. At(r)' = n /\ stepRows'[r][n] = "failed"
        BY <1>1, <1>5, SetLastStepEffect DEF MidStep
    <2>2. ~ faulted[r] => Says(r, Opening(n))'
        BY <1>1, <1>2, SaysKept
    <2> QED
        BY <1>1, <1>2, <1>5, <2>1, <2>2 DEF Outcome, MidStep, Announced, Failing
<1> QED
    BY <1>3, <1>4, <1>5

LEMMA RecordStepFailedOutcome ==
    ASSUME IInv, NEW r \in Runs, Outcome(r), RecordStepFailed(r)
    PROVE  Outcome(r)'
<1>1. /\ pc[r] = "step_failed" /\ UNCHANGED <<called, tables>>
      /\ AuditAndEmit(r, Event("step.failed", At(r)), "run_fail", "run_fail")
    BY DEF RecordStepFailed
<1>0. At(r) \in Nat /\ At(r) >= 1
    BY <1>1, CurrentStep DEF MidStep
<1> PICK n \in Nat : n = At(r) /\ n >= 1
    BY <1>0
<1>2. runRow[r] = "running" /\ stepRows[r][n] = "failed"
    BY <1>1 DEF Outcome, MidStep
<1>3. /\ At(r)' = n /\ runRow'[r] = runRow[r]
      /\ stepRows'[r] = stepRows[r] /\ playbook'[r] = playbook[r]
    BY <1>1 DEF At, called, tables
<1>4. /\ pc'[r] = "run_fail" /\ faulted'[r] \in BOOLEAN
      /\ faulted'[r] = TRUE \/ faulted'[r] = faulted[r]
    <2>1. TypeOK
        BY DEF IInv
    <2> QED
        BY <1>1, <2>1, AppendOutcome DEF TypeOK
<1>5. CASE faulted'[r] = TRUE
    BY <1>3, <1>4, <1>5, CallRaised DEF Failing
<1>6. CASE faulted'[r] = FALSE
    <2>1. Says(r, Opening(n))
        BY <1>1, <1>4, <1>6 DEF Outcome
    <2>2. /\ Event("step.failed", n) \in Events /\ Event("step.failed", n).type \in Lifecycle
          /\ Opening(n) \in Seq(Events)
        <3>1. "step.failed" \in Lifecycle
            BY DEF Lifecycle
        <3> QED
            BY <3>1, LifecycleEvent, StoryGoesOn
    <2>3. AuditAndEmit(r, Event("step.failed", n), "run_fail", "run_fail")
        BY <1>1
    <2>4. Says(r, Broken(n))'
        BY <1>6, <2>1, <2>2, <2>3, TellsOn DEF Broken
    <2>5. StepBroke(r)'
        BY <1>2, <1>3 DEF StepBroke
    <2> QED
        BY <1>2, <1>3, <1>4, <1>6, <2>4, <2>5 DEF Outcome, MidStep, Announced, Failing
<1> QED
    BY <1>4, <1>5, <1>6

LEMMA CrashOutcome ==
    ASSUME IInv, NEW r \in Runs, Outcome(r), Crash(r)
    PROVE  Outcome(r)'
<1>1. pc'[r] = "dead" /\ faulted'[r] = TRUE /\ UNCHANGED <<called, tables>>
    BY DEF Crash, Raises, Goto, IInv, TypeOK
<1> QED
    BY <1>1, CallRaised DEF Failing, called, tables
-----------------------------------------------------------------------------
LEMMA InitOutcome == Init => \A r \in Runs : Outcome(r)
<1> SUFFICES ASSUME Init, NEW r \in Runs PROVE Outcome(r)
    OBVIOUS
<1>1. /\ pc[r] = "idle" /\ runRow[r] = "none" /\ faulted[r] = FALSE /\ trail[r] = <<>>
    BY DEF Init, Trail!TrailInit
<1>2. EventsOf(r, Lifecycle) = {}
    BY <1>1 DEF EventsOf
<1>3. Cardinality({}) = 0
    BY FS_EmptySet
<1>4. Says(r, <<>>)
    BY <1>2, <1>3 DEF Says, Tells
<1> QED
    BY <1>1, <1>4 DEF Outcome, MidStep, Announced, Failing

LEMMA NextOutcome ==
    ASSUME OInv, [Next]_vars
    PROVE  (\A r \in Runs : Outcome(r))'
<1>1. CASE UNCHANGED vars
    <2> SUFFICES ASSUME NEW q \in Runs PROVE Outcome(q)'
        OBVIOUS
    <2>1. Same(q)
        BY <1>1 DEF vars, Same, SameRun
    <2> QED
        BY <2>1, OutcomeFrame DEF OInv
<1>2. CASE Next
    <2> PICK r \in Runs : Moves(r)
        BY <1>2 DEF Next, Moves
    <2>1. IInv /\ TypeOK /\ Outcome(r)
        BY DEF OInv, IInv
    <2>2. \A q \in Runs \ {r} : Outcome(q)'
        BY <2>1, OthersStay, OutcomeFrame DEF OInv
    <2>3. Outcome(r)'
        <3>1. CASE CreateRun(r) \/ DecideItem(r) \/ Crash(r)
            BY <2>1, <3>1, CreateRunOutcome, DecideItemOutcome, CrashOutcome
        <3>2. CASE \/ RecordRunStarted(r) \/ FinishRun(r) \/ RecordRunCompleted(r)
                   \/ FailRun(r) \/ RecordRunFailed(r)
            BY <2>1, <3>2, RecordRunStartedOutcome, FinishRunOutcome, RecordRunCompletedOutcome,
               FailRunOutcome, RecordRunFailedOutcome
        <3>3. CASE \/ StartStep(r) \/ RecordStepStarted(r) \/ FinishStep(r)
                   \/ RecordStepCompleted(r) \/ FailStep(r) \/ RecordStepFailed(r)
            BY <2>1, <3>3, StartStepOutcome, RecordStepStartedOutcome, FinishStepOutcome,
               RecordStepCompletedOutcome, FailStepOutcome, RecordStepFailedOutcome
        <3>4. CASE RecordLlmValidated(r) \/ ExecuteApproveDryRun(r) \/ RecordApproval(r)
            BY <2>1, <3>4, OtherEventsOutcome
        <3>5. CASE \/ ExecuteCollect(r) \/ ExecuteTransform(r) \/ ExecuteLlm(r)
                   \/ ExecuteApproveRaises(r) \/ ExecuteApprove(r) \/ FinishApprove(r)
                   \/ ExecuteApplyDryRun(r) \/ ExecuteApply(r)
            BY <2>1, <3>5, HandlersOutcome
        <3> QED
            BY <3>1, <3>2, <3>3, <3>4, <3>5 DEF Moves, Proceed
    <2> QED
        BY <2>2, <2>3
<1> QED
    BY <1>1, <1>2

LEMMA AppendThree ==
    ASSUME NEW X, NEW first \in Seq(X), NEW a \in X, NEW b \in X, NEW c \in X
    PROVE  Append(Append(Append(first, a), b), c) = first \o <<a, b, c>>
<1> DEFINE one == Append(first, a)
           two == Append(one, b)
           three == Append(two, c)
           all == first \o <<a, b, c>>
           n == Len(first)
<1>1. n \in Nat /\ <<a, b, c>> \in Seq(X) /\ Len(<<a, b, c>>) = 3
    OBVIOUS
<1>2. /\ one \in Seq(X) /\ Len(one) = n + 1 /\ one[n + 1] = a
      /\ \A i \in 1..n : one[i] = first[i]
    BY AppendProperties
<1> HIDE DEF one
<1>3. /\ two \in Seq(X) /\ Len(two) = n + 2 /\ two[n + 2] = b
      /\ \A i \in 1..(n + 1) : two[i] = one[i]
    <2>1. /\ two \in Seq(X) /\ Len(two) = Len(one) + 1 /\ two[Len(one) + 1] = b
          /\ \A i \in 1..Len(one) : two[i] = one[i]
        BY <1>2, AppendProperties
    <2> HIDE DEF two, n
    <2> QED
        BY <1>1, <1>2, <2>1
<1> HIDE DEF two
<1>4. /\ three \in Seq(X) /\ Len(three) = n + 3 /\ three[n + 3] = c
      /\ \A i \in 1..(n + 2) : three[i] = two[i]
    <2>1. /\ three \in Seq(X) /\ Len(three) = Len(two) + 1 /\ three[Len(two) + 1] = c
          /\ \A i \in 1..Len(two) : three[i] = two[i]
        BY <1>3, AppendProperties
    <2> HIDE DEF three, n
    <2> QED
        BY <1>1, <1>3, <2>1
<1> HIDE DEF three
<1>5. /\ all \in Seq(X) /\ Len(all) = n + 3
      /\ \A i \in 1..n : all[i] = first[i]
      /\ all[n + 1] = a /\ all[n + 2] = b /\ all[n + 3] = c
    BY <1>1, ConcatProperties
<1> HIDE DEF all, n
<1>6. \A i \in 1..(n + 3) : i \in 1..n \/ i = n + 1 \/ i = n + 2 \/ i = n + 3
    BY <1>1
<1>7. /\ \A i \in 1..n : three[i] = first[i]
      /\ three[n + 1] = a /\ three[n + 2] = b
    BY <1>1, <1>2, <1>3, <1>4
<1>8. \A i \in 1..(n + 3) : three[i] = all[i]
    BY <1>4, <1>5, <1>6, <1>7
<1>9. three = all
    BY <1>4, <1>5, <1>8, SeqEqual
<1> QED
    BY <1>9 DEF one, two, three, all

(* Whatever store or log call fails: a run whose caller got a summary is   *)
(* completed, with its whole story, and a run that failed for a reason of  *)
(* its own is told as failed (runner.run, _run_step).                      *)
LEMMA OutcomeTells == OInv => OutcomeIsTold
<1> SUFFICES ASSUME OInv PROVE OutcomeIsTold
    OBVIOUS
<1>1. ReturnedRunIsComplete
    <2> SUFFICES ASSUME NEW r \in Runs
                 PROVE  /\ runRow[r] = "completed" =>
                               At(r) = Len(Steps(r)) /\ Range(stepRows[r]) = {"completed"}
                        /\ pc[r] = "returned" =>
                               /\ runRow[r] = "completed"
                               /\ Says(r, Append(Story(At(r)), Event("run.completed", 0)))
        BY DEF ReturnedRunIsComplete
    <2>1. IInv /\ Outcome(r)
        BY DEF OInv
    <2>2. ASSUME runRow[r] = "completed"
          PROVE  At(r) = Len(Steps(r)) /\ Range(stepRows[r]) = {"completed"}
        <3>1. At(r) = Len(Steps(r)) /\ \A s \in 1..At(r) : stepRows[r][s] = "completed"
            BY <2>1, <2>2 DEF Outcome
        <3>2. pc[r] # "idle"
            BY <2>1, <2>2 DEF Outcome
        <3>3. playbook[r] \in Playbooks
            BY <2>1, <3>2 DEF IInv, Control
        <3>4. Steps(r) \in Seq(Step) /\ Steps(r) # <<>>
            BY <3>3, PlaybooksAssumption DEF Steps
        <3>5. DOMAIN stepRows[r] = 1..At(r) /\ At(r) >= 1
            BY <2>1, <3>1, <3>4 DEF IInv, TypeOK, At
        <3>6. 1 \in DOMAIN stepRows[r]
            BY <3>5
        <3> QED
            BY <3>1, <3>5, <3>6 DEF Range
    <2> QED
        BY <2>1, <2>2 DEF Outcome
<1>2. FailureIsTold
    <2> SUFFICES ASSUME NEW r \in Runs, pc[r] = "raised", ~ faulted[r], runRow[r] # "none"
                 PROVE  LET n == At(r) IN
                        /\ runRow[r] = "failed"
                        /\ stepRows[r] = Append([s \in 1..(n - 1) |-> "completed"], "failed")
                        /\ Says(r, Story(n - 1) \o <<Event("step.started", n),
                                     Event("step.failed", n), Event("run.failed", 0)>>)
        BY DEF FailureIsTold
    <2>1. IInv /\ Outcome(r)
        BY DEF OInv
    <2> PICK n \in Nat : n = At(r)
        BY <2>1 DEF IInv, TypeOK, At
    <2>2. /\ n >= 1 /\ stepRows[r][n] = "failed" /\ runRow[r] = "failed"
          /\ Says(r, Append(Broken(n), Event("run.failed", 0)))
        BY <2>1 DEF Outcome, StepBroke
    <2>3. stepRows[r] = Append([s \in 1..(n - 1) |-> "completed"], "failed")
        <3> DEFINE done == [s \in 1..(n - 1) |-> "completed"]
        <3>1. n - 1 \in Nat /\ done \in Seq({"running", "completed", "failed"}) /\ Len(done) = n - 1
            BY <2>2
        <3>2. /\ Append(done, "failed") \in Seq({"running", "completed", "failed"})
              /\ Len(Append(done, "failed")) = n
              /\ \A s \in 1..(n - 1) : Append(done, "failed")[s] = "completed"
              /\ Append(done, "failed")[n] = "failed"
            BY <3>1, AppendProperties
        <3>3. /\ stepRows[r] \in Seq({"running", "completed", "failed"}) /\ Len(stepRows[r]) = n
              /\ \A s \in 1..(n - 1) : stepRows[r][s] = "completed"
            BY <2>1 DEF IInv, TypeOK, At, Control, Audited
        <3> HIDE DEF done
        <3>4. \A s \in 1..n : stepRows[r][s] = Append(done, "failed")[s]
            <4>1. \A s \in 1..n : s \in 1..(n - 1) \/ s = n
                OBVIOUS
            <4> QED
                BY <2>2, <3>2, <3>3, <4>1
        <3>5. stepRows[r] = Append(done, "failed")
            BY <3>2, <3>3, <3>4, SeqEqual
        <3> QED
            BY <3>5 DEF done
    <2>4. Append(Broken(n), Event("run.failed", 0)) =
              Story(n - 1) \o <<Event("step.started", n), Event("step.failed", n), Event("run.failed", 0)>>
        <3>1. /\ n - 1 \in Nat /\ Story(n - 1) \in Seq(Events)
              /\ Event("step.started", n) \in Events /\ Event("step.failed", n) \in Events
              /\ Event("run.failed", 0) \in Events
            <4>1. n - 1 \in Nat
                BY <2>2
            <4>2. Story(n - 1) \in Seq(Events)
                BY <4>1, StoryType
            <4>3. \A type \in EventTypes, s \in Nat : Event(type, s) \in Events
                BY EventType
            <4> QED
                BY <4>1, <4>2, <4>3 DEF EventTypes
        <3> PICK first \in Seq(Events) : first = Story(n - 1)
            BY <3>1
        <3> PICK a \in Events, b \in Events, c \in Events :
                 a = Event("step.started", n) /\ b = Event("step.failed", n) /\ c = Event("run.failed", 0)
            BY <3>1
        <3>2. Append(Append(Append(first, a), b), c) = first \o <<a, b, c>>
            BY AppendThree
        <3> QED
            BY <3>2 DEF Broken, Opening
    <2> QED
        BY <2>2, <2>3, <2>4
<1> QED
    BY <1>1, <1>2 DEF OutcomeIsTold

(* However run() ends, tables and trail tell how.                          *)
THEOREM OutcomeAlwaysTold == Spec => []OutcomeIsTold
<1> DEFINE Outcomes == \A r \in Runs : Outcome(r)
<1>1. Init => Outcomes
    BY InitOutcome
<1>2. IInv /\ Outcomes /\ [Next]_vars => Outcomes'
    BY NextOutcome DEF OInv
<1>3. IInv /\ Outcomes => OutcomeIsTold
    BY OutcomeTells DEF OInv
<1> QED
    BY <1>1, <1>2, <1>3, Invariance, PTL DEF Spec
-----------------------------------------------------------------------------
(***************************************************************************)
(* The invariant behind DecisionsCount.  What leaves at an apply step was  *)
(* let through at an approve step before it, so Decided follows it there:  *)
(* from the decisions into the output, from the output into the context,   *)
(* where it keeps its meaning until another step takes the name.           *)
(***************************************************************************)
(* The first n decisions of a run are in its trail, and no other.          *)
Told(r, n) ==
    Tells([i \in 1..n |-> ApprovalEvent(approvals[r][i])],
          trail[r], EventsOf(r, {"approval.recorded"}))

Heard(r, i) == ApprovalEvent(approvals[r][i]) \in Range(trail[r])

(* The decisions are of steps that have begun, and the trail has them all, *)
(* but for the newest while its append is due or once it raised.           *)
DecisionsTold(r) ==
    /\ pc[r] \in {"idle", "created"} => approvals[r] = <<>>
    /\ \A i \in DOMAIN approvals[r] : approvals[r][i].step <= At(r)
    /\ pc[r] \in {"step_inserted", "execute"} =>
           \A i \in DOMAIN approvals[r] : approvals[r][i].step < At(r)
    /\ pc[r] = "decided" => Told(r, Len(approvals[r]) - 1)
    /\ pc[r] \notin Failing \cup {"decided"} => Told(r, Len(approvals[r]))
    /\ Told(r, Len(approvals[r]) - 1) \/ Told(r, Len(approvals[r]))
    /\ pc[r] \notin Failing =>
           \A i \in DOMAIN approvals[r] : Heard(r, i) \/ (pc[r] = "decided" /\ i = Len(approvals[r]))

(* This value is what the reviewer let through at step s.                  *)
LetThrough(r, value, s) ==
    value \in Seq(Entries) /\ Tells(value, DecidedEntries(r), ApprovedAt(r, s))

(* An approve step returns what the reviewer let through so far.           *)
OutputApproved(r) ==
    /\ pc[r] \in {"approve", "decided"} => Current(r).type = "approve" /\ ~ options[r].dry_run
    /\ pc[r] = "validated" => Current(r).type = "llm"
    /\ pc[r] = "approve" => LetThrough(r, output[r], At(r))
    /\ pc[r] = "decided" =>
           /\ approvals[r] # <<>> /\ Last(approvals[r]).step = At(r)
           /\ Tells(output[r], DecidedEntries(r), ApprovedAt(r, At(r)) \ {Len(approvals[r])})
    /\ pc[r] = "return" /\ Current(r).type = "approve" /\ ~ options[r].dry_run =>
           LetThrough(r, output[r], At(r))

(* The steps whose output is in the context.                               *)
Done(r) == IF pc[r] \in {"loop", "step_stored"} THEN At(r) ELSE At(r) - 1

Names(r, t) == {Steps(r)[t].id, Steps(r)[t].out}

(* What an approve step let through is what its names mean, until a later  *)
(* step takes one of them.                                                 *)
ContextKept(r, n) ==
    \A t \in 1..n : Steps(r)[t].type = "approve" =>
        \A k \in Names(r, t) :
            (\A u \in (t + 1)..n : k \notin Names(r, u)) => LetThrough(r, context[r][k], t)

ContextApproved(r) ==
    pc[r] \in {"loop", "step_inserted"} \cup Announced /\ ~ options[r].dry_run =>
        ContextKept(r, Done(r))

EffectApproved(r, effect) ==
    Gated(playbook[r]) =>
        \A s \in LastProducer(playbook[r], effect.step) :
            /\ effect.payload # Raw
            /\ Tells(effect.payload, DecidedEntries(r), ApprovedAt(r, s))
            /\ \A k \in DecisionsAt(r, s) : Heard(r, k)

WrittenApproved(r) ==
    \A i \in DOMAIN written[r] :
        written[r][i].step <= At(r) /\ EffectApproved(r, written[r][i])

(* What the reviewer decided is recorded, and what goes on is what passed. *)
Decided(r) ==
    DecisionsTold(r) /\ OutputApproved(r) /\ ContextApproved(r) /\ WrittenApproved(r)

DInv == IInv /\ \A r \in Runs : Decided(r)

LEMMA SameDecisions ==
    ASSUME NEW r \in Runs, approvals'[r] = approvals[r]
    PROVE  /\ DecidedEntries(r)' = DecidedEntries(r)
           /\ \A s : DecisionsAt(r, s)' = DecisionsAt(r, s) /\ ApprovedAt(r, s)' = ApprovedAt(r, s)
           /\ \A value, s : LetThrough(r, value, s)' = LetThrough(r, value, s)
<1>1. DecidedEntries(r)' = DecidedEntries(r)
    BY DEF DecidedEntries
<1>2. \A s : DecisionsAt(r, s)' = DecisionsAt(r, s)
    BY DEF DecisionsAt
<1>3. \A s : ApprovedAt(r, s)' = ApprovedAt(r, s)
    BY <1>2 DEF ApprovedAt
<1> QED
    BY <1>1, <1>2, <1>3 DEF LetThrough

Remembers(r) == \A e : e \in Range(trail[r]) => e \in Range(trail'[r])

(* The trail tells the same decisions, and may tell other things.          *)
TrailMore(r) == Remembers(r) /\ \A n \in Int : Told(r, n) => Told(r, n)'

LEMMA NoMoreTrail ==
    ASSUME NEW r \in Runs, approvals'[r] = approvals[r], trail'[r] = trail[r]
    PROVE  TrailMore(r)
BY DEF TrailMore, Remembers, Told, EventsOf, Range

LEMMA LongerTrail ==
    ASSUME NEW r \in Runs, trail[r] \in Seq(Events), NEW event \in Events,
           Grows(r, event) \/ trail'[r] = trail[r]
    PROVE  Remembers(r)
<1>1. CASE trail'[r] = trail[r]
    BY <1>1 DEF Remembers
<1>2. CASE Grows(r, event)
    <2>1. /\ DOMAIN trail[r] \subseteq DOMAIN trail'[r]
          /\ \A k \in DOMAIN trail[r] : trail'[r][k] = trail[r][k]
        BY <1>2, AppendProperties DEF Grows
    <2> QED
        BY <2>1 DEF Range, Remembers
<1> QED
    BY <1>1, <1>2

LEMMA OtherTrail ==
    ASSUME IInv, NEW r \in Runs, approvals'[r] = approvals[r],
           NEW event \in Events, event.type # "approval.recorded",
           NEW next, NEW handler, AuditAndEmit(r, event, next, handler)
    PROVE  TrailMore(r) /\ pc'[r] \in {next, handler}
<1>1. TypeOK /\ trail[r] \in Seq(Events)
    BY DEF IInv, TypeOK, Trail!TrailTypeOK
<1>2. (Grows(r, event) \/ trail'[r] = trail[r]) /\ pc'[r] \in {next, handler}
    BY <1>1, AppendOutcome
<1>3. ASSUME NEW n \in Int, Told(r, n) PROVE Told(r, n)'
    <2> DEFINE story == [i \in 1..n |-> ApprovalEvent(approvals[r][i])]
    <2>1. SaysOf(r, {"approval.recorded"}, story)
        BY <1>3 DEF Told, SaysOf
    <2>2. story' = story
        OBVIOUS
    <2> PICK told : told = story
        OBVIOUS
    <2>3. Tells(told, trail'[r], EventsOf(r, {"approval.recorded"})')
        BY <1>1, <1>2, <2>1, SaysNoMore
    <2> QED
        BY <2>2, <2>3 DEF Told
<1> QED
    BY <1>1, <1>2, <1>3, LongerTrail DEF TrailMore

LEMMA EffectStays ==
    ASSUME NEW r \in Runs, playbook'[r] = playbook[r], approvals'[r] = approvals[r], Remembers(r),
           NEW effect, EffectApproved(r, effect)
    PROVE  EffectApproved(r, effect)'
<1>1. \A k : Heard(r, k) => Heard(r, k)'
    BY DEF Heard, Remembers
<1>2. DecidedEntries(r)' = DecidedEntries(r)
    BY SameDecisions
<1>3. \A s : DecisionsAt(r, s)' = DecisionsAt(r, s) /\ ApprovedAt(r, s)' = ApprovedAt(r, s)
    BY SameDecisions
<1> QED
    BY <1>1, <1>2, <1>3 DEF EffectApproved

LEMMA WrittenStays ==
    ASSUME IInv, NEW r \in Runs, WrittenApproved(r), At(r)' \in Nat, At(r)' >= At(r),
           playbook'[r] = playbook[r], approvals'[r] = approvals[r], written'[r] = written[r],
           Remembers(r)
    PROVE  WrittenApproved(r)'
<1> SUFFICES ASSUME NEW i \in DOMAIN written[r]
             PROVE  written[r][i].step <= At(r)' /\ EffectApproved(r, written[r][i])'
    BY DEF WrittenApproved
<1> PICK effect \in Effect : effect = written[r][i]
    BY DEF IInv, TypeOK
<1>1. effect.step \in Nat /\ effect.step <= At(r) /\ EffectApproved(r, effect) /\ At(r) \in Nat
    BY DEF WrittenApproved, Effect, IInv, TypeOK, At
<1>2. EffectApproved(r, effect)'
    BY <1>1, EffectStays
<1>3. written[r][i]' = effect
    OBVIOUS
<1> QED
    BY <1>1, <1>2, <1>3

LEMMA DecisionSteps ==
    ASSUME IInv, NEW r \in Runs
    PROVE  /\ \A i \in DOMAIN approvals[r] : approvals[r][i] \in Approval /\ approvals[r][i].step \in Nat
           /\ Len(approvals[r]) \in Nat /\ DOMAIN approvals[r] = 1..Len(approvals[r])
           /\ At(r) \in Nat
<1>1. approvals[r] \in Seq(Approval) /\ At(r) \in Nat
    BY DEF IInv, TypeOK, At
<1>2. \A row \in Approval : row.step \in Nat
    BY DEF Approval
<1>3. /\ Len(approvals[r]) \in Nat /\ DOMAIN approvals[r] = 1..Len(approvals[r])
      /\ \A i \in DOMAIN approvals[r] : approvals[r][i] \in Approval
    BY <1>1
<1> QED
    BY <1>1, <1>2, <1>3

LEMMA DecisionsStay ==
    ASSUME IInv, NEW r \in Runs, DecisionsTold(r), approvals'[r] = approvals[r], TrailMore(r),
           \/ pc'[r] \in Failing /\ At(r)' = At(r)
           \/ /\ pc[r] \notin Failing \cup {"decided"}
              /\ pc'[r] \notin Failing \cup {"decided", "idle", "created"}
              /\ \/ /\ At(r)' = At(r) /\ pc'[r] # "step_inserted"
                    /\ pc'[r] = "execute" => pc[r] = "step_inserted"
                 \/ At(r)' = At(r) + 1 /\ pc'[r] = "step_inserted"
    PROVE  DecisionsTold(r)'
<1>1. /\ At(r) \in Nat /\ Len(approvals[r]) \in Nat
      /\ \A i \in DOMAIN approvals[r] : approvals[r][i].step \in Nat
    BY DecisionSteps
<1>2. \A n \in Int : Told(r, n) => Told(r, n)'
    BY DEF TrailMore
<1>3. CASE pc'[r] \in Failing /\ At(r)' = At(r)
    <2>1. Told(r, Len(approvals[r]) - 1)' \/ Told(r, Len(approvals[r]))'
        <3>1. Len(approvals[r]) \in Int /\ Len(approvals[r]) - 1 \in Int
            BY <1>1
        <3> QED
            BY <1>2, <3>1 DEF DecisionsTold
    <2> QED
        BY <1>3, <2>1 DEF DecisionsTold, Failing
<1>4. CASE pc'[r] \notin Failing
    <2>1. Told(r, Len(approvals[r]))'
        BY <1>1, <1>2, <1>4 DEF DecisionsTold
    <2>2. \A i \in DOMAIN approvals[r] : Heard(r, i)'
        BY <1>4 DEF DecisionsTold, TrailMore, Remembers, Heard
    <2>3. \A i \in DOMAIN approvals[r] :
              /\ approvals[r][i].step <= At(r)'
              /\ pc'[r] \in {"step_inserted", "execute"} => approvals[r][i].step < At(r)'
        BY <1>1, <1>4 DEF DecisionsTold
    <2> QED
        BY <1>4, <2>1, <2>2, <2>3 DEF DecisionsTold
<1> QED
    BY <1>3, <1>4

(* What the run was called with, decided and wrote is as it was.           *)
Quiet(r) ==
    /\ playbook'[r] = playbook[r] /\ options'[r] = options[r]
    /\ approvals'[r] = approvals[r] /\ written'[r] = written[r]
    /\ TrailMore(r)

(* Once a call raised, nothing is decided or written any more.             *)
LEMMA FailingDecided ==
    ASSUME IInv, NEW r \in Runs, Decided(r), Quiet(r), At(r)' = At(r), pc'[r] \in Failing
    PROVE  Decided(r)'
<1>1. DecisionsTold(r) /\ WrittenApproved(r) /\ At(r) \in Nat
    BY DecisionSteps DEF Decided
<1>2. DecisionsTold(r)'
    BY <1>1, DecisionsStay DEF Quiet
<1>3. OutputApproved(r)' /\ ContextApproved(r)'
    BY DEF OutputApproved, ContextApproved, Failing, Announced
<1>4. WrittenApproved(r)'
    BY <1>1, WrittenStays DEF Quiet, TrailMore
<1> QED
    BY <1>2, <1>3, <1>4 DEF Decided

LEMMA ContextStays ==
    ASSUME NEW r \in Runs, NEW n \in Int, ContextKept(r, n), playbook'[r] = playbook[r],
           approvals'[r] = approvals[r], context'[r] = context[r]
    PROVE  ContextKept(r, n)'
<1>1. Steps(r)' = Steps(r) /\ \A t : Names(r, t)' = Names(r, t)
    BY DEF Steps, Names
<1>2. \A value, s : LetThrough(r, value, s)' = LetThrough(r, value, s)
    BY SameDecisions
<1> QED
    BY <1>1, <1>2 DEF ContextKept

(* A step forward that decides, writes and learns nothing.                 *)
LEMMA ForwardDecided ==
    ASSUME IInv, NEW r \in Runs, Decided(r), Quiet(r), context'[r] = context[r],
           pc[r] \notin Failing \cup {"decided"},
           pc'[r] \notin Failing \cup {"decided", "idle", "created"},
           \/ At(r)' = At(r) /\ pc'[r] # "step_inserted" /\ (pc'[r] = "execute" => pc[r] = "step_inserted")
           \/ At(r)' = At(r) + 1 /\ pc'[r] = "step_inserted",
           pc'[r] \in {"loop", "step_inserted"} \cup Announced =>
               \/ pc[r] \in {"loop", "step_inserted"} \cup Announced /\ Done(r)' = Done(r)
               \/ Done(r)' = 0,
           OutputApproved(r)'
    PROVE  Decided(r)'
<1>1. /\ DecisionsTold(r) /\ WrittenApproved(r) /\ ContextApproved(r)
      /\ At(r) \in Nat /\ At(r)' \in Nat /\ At(r)' >= At(r)
    BY DecisionSteps DEF Decided
<1>2. DecisionsTold(r)'
    BY <1>1, DecisionsStay DEF Quiet
<1>3. ContextApproved(r)'
    <2> SUFFICES ASSUME pc'[r] \in {"loop", "step_inserted"} \cup Announced, ~ options'[r].dry_run
                 PROVE  ContextKept(r, Done(r))'
        BY DEF ContextApproved
    <2>1. CASE pc[r] \in {"loop", "step_inserted"} \cup Announced /\ Done(r)' = Done(r)
        <3> PICK n \in Int : n = Done(r)
            BY <1>1 DEF Done
        <3>1. ContextKept(r, n)
            BY <1>1, <2>1 DEF ContextApproved, Quiet
        <3>2. ContextKept(r, n)'
            BY <3>1, ContextStays DEF Quiet
        <3> QED
            BY <2>1, <3>2
    <2>2. CASE Done(r)' = 0
        BY <2>2 DEF ContextKept
    <2> QED
        BY <2>1, <2>2
<1>4. WrittenApproved(r)'
    BY <1>1, WrittenStays DEF Quiet, TrailMore
<1> QED
    BY <1>2, <1>3, <1>4 DEF Decided

LEMMA DecidedFrame ==
    ASSUME NEW q \in Runs, Same(q), Decided(q)
    PROVE  Decided(q)'
<1>1. /\ playbook'[q] = playbook[q] /\ options'[q] = options[q] /\ stepRows'[q] = stepRows[q]
      /\ approvals'[q] = approvals[q] /\ trail'[q] = trail[q] /\ written'[q] = written[q]
      /\ pc'[q] = pc[q] /\ output'[q] = output[q] /\ context'[q] = context[q]
    BY DEF Same, SameRun
<1>2. At(q)' = At(q) /\ Steps(q)' = Steps(q) /\ Current(q)' = Current(q)
    BY <1>1 DEF At, Steps, Current
<1>3. /\ DecidedEntries(q)' = DecidedEntries(q)
      /\ \A s : DecisionsAt(q, s)' = DecisionsAt(q, s) /\ ApprovedAt(q, s)' = ApprovedAt(q, s)
      /\ \A value, s : LetThrough(q, value, s)' = LetThrough(q, value, s)
    BY <1>1, SameDecisions
<1>4. /\ \A n : Told(q, n)' = Told(q, n)
      /\ \A i : Heard(q, i)' = Heard(q, i)
    BY <1>1 DEF Told, Heard, EventsOf
<1>5. Done(q)' = Done(q) /\ \A t : Names(q, t)' = Names(q, t)
    BY <1>1, <1>2 DEF Done, Names
<1>6. DecisionsTold(q)'
    BY <1>1, <1>2, <1>4 DEF Decided, DecisionsTold
<1>7. OutputApproved(q)'
    <2>1. ApprovedAt(q, At(q))' = ApprovedAt(q, At(q))
        BY <1>2, <1>3
    <2>2. LetThrough(q, output[q], At(q))' = LetThrough(q, output[q], At(q))
        BY <1>1, <1>2, <1>3
    <2> QED
        BY <1>1, <1>2, <1>3, <2>1, <2>2 DEF Decided, OutputApproved
<1>8. \A n : ContextKept(q, n)' = ContextKept(q, n)
    BY <1>1, <1>2, <1>3, <1>5 DEF ContextKept
<1>9. ContextApproved(q)'
    BY <1>1, <1>5, <1>8 DEF Decided, ContextApproved
<1>10. \A effect : EffectApproved(q, effect)' = EffectApproved(q, effect)
    BY <1>1, <1>3, <1>4 DEF EffectApproved
<1>11. WrittenApproved(q)'
    BY <1>1, <1>2, <1>10 DEF Decided, WrittenApproved
<1> QED
    BY <1>6, <1>7, <1>9, <1>11 DEF Decided
-----------------------------------------------------------------------------
LEMMA RunAppendsDecided ==
    ASSUME IInv, NEW r \in Runs, Decided(r),
           \/ RecordRunStarted(r) \/ RecordRunCompleted(r) \/ RecordRunFailed(r)
           \/ RecordStepStarted(r) \/ RecordStepCompleted(r) \/ RecordStepFailed(r)
           \/ RecordLlmValidated(r) \/ ExecuteApproveDryRun(r)
    PROVE  Decided(r)'
<1>1. UNCHANGED <<called, tables, written, context>>
    BY DEF RecordRunStarted, RecordRunCompleted, RecordRunFailed, RecordStepStarted,
           RecordStepCompleted, RecordStepFailed, RecordLlmValidated, ExecuteApproveDryRun, locals
<1>2. \E type \in EventTypes \ {"approval.recorded"}, s \in {0, At(r)}, next \in Labels, handler \in Failing :
          /\ AuditAndEmit(r, Event(type, s), next, handler)
          /\ \/ next \in Failing
             \/ pc[r] = "created" /\ next = "loop"
             \/ pc[r] = "run_stored" /\ next = "returned"
             \/ pc[r] = "step_inserted" /\ next = "execute"
             \/ pc[r] = "step_stored" /\ next = "loop"
             \/ pc[r] = "validated" /\ next = "return"
             \/ pc[r] = "execute" /\ next = "return" /\ options[r].dry_run
    <2>1. CASE RecordRunStarted(r)
        BY <2>1 DEF RecordRunStarted, EventTypes, Failing, Labels
    <2>2. CASE RecordRunCompleted(r)
        BY <2>2 DEF RecordRunCompleted, EventTypes, Failing, Labels
    <2>3. CASE RecordRunFailed(r)
        BY <2>3 DEF RecordRunFailed, EventTypes, Failing, Labels
    <2>4. CASE RecordStepStarted(r)
        BY <2>4 DEF RecordStepStarted, EventTypes, Failing, Labels
    <2>5. CASE RecordStepCompleted(r)
        BY <2>5 DEF RecordStepCompleted, EventTypes, Failing, Labels
    <2>6. CASE RecordStepFailed(r)
        BY <2>6 DEF RecordStepFailed, EventTypes, Failing, Labels
    <2>7. CASE RecordLlmValidated(r)
        BY <2>7 DEF RecordLlmValidated, EventTypes, Failing, Labels
    <2>8. CASE ExecuteApproveDryRun(r)
        BY <2>8 DEF ExecuteApproveDryRun, Executing, EventTypes, Failing, Labels
    <2> QED
        BY <2>1, <2>2, <2>3, <2>4, <2>5, <2>6, <2>7, <2>8
<1>3. PICK event \in Events, next \in Labels, handler \in Failing :
          /\ event.type # "approval.recorded" /\ AuditAndEmit(r, event, next, handler)
          /\ \/ next \in Failing
             \/ pc[r] = "created" /\ next = "loop"
             \/ pc[r] = "run_stored" /\ next = "returned"
             \/ pc[r] = "step_inserted" /\ next = "execute"
             \/ pc[r] = "step_stored" /\ next = "loop"
             \/ pc[r] = "validated" /\ next = "return"
             \/ pc[r] = "execute" /\ next = "return" /\ options[r].dry_run
    <2>1. \A type \in EventTypes, s \in {0, At(r)} :
              Event(type, s) \in Events /\ Event(type, s).type = type
        BY DecisionSteps, EventType
    <2> QED
        BY <1>2, <2>1
<1>4. TrailMore(r) /\ pc'[r] \in {next, handler}
    BY <1>1, <1>3, OtherTrail DEF tables
<1>5. Quiet(r) /\ context'[r] = context[r] /\ At(r)' = At(r) /\ Current(r)' = Current(r)
    BY <1>1, <1>4 DEF Quiet, At, Current, Steps, called, tables
<1>6. CASE pc'[r] \in Failing
    BY <1>5, <1>6, FailingDecided
<1>7. CASE pc'[r] \notin Failing
    <2>1. pc'[r] = next
        BY <1>3, <1>4, <1>7
    <2>2. OutputApproved(r)'
        <3>1. pc[r] = "validated" => Current(r).type = "llm"
            BY DEF Decided, OutputApproved
        <3> QED
            BY <1>3, <1>5, <1>7, <2>1, <3>1 DEF OutputApproved, Quiet
    <2>3. pc[r] = "created" => Done(r)' = 0
        BY <1>3, <1>5, <1>7, <2>1 DEF Done, IInv, Control, At
    <2>4. pc[r] # "created" /\ pc[r] # "run_stored" => Done(r)' = Done(r)
        BY <1>3, <1>5, <1>7, <2>1 DEF Done
    <2> QED
        BY <1>3, <1>5, <1>7, <2>1, <2>2, <2>3, <2>4, ForwardDecided DEF Failing, Announced
<1> QED
    BY <1>6, <1>7

(* ExecuteApprove starts from no entry, and nothing is decided yet at its  *)
(* step; the other handlers return nothing a reviewer was asked about.     *)
LEMMA HandlersDecided ==
    ASSUME IInv, NEW r \in Runs, Decided(r),
           \/ ExecuteCollect(r) \/ ExecuteTransform(r) \/ ExecuteLlm(r) \/ ExecuteApproveRaises(r)
           \/ ExecuteApprove(r) \/ FinishApprove(r) \/ ExecuteApplyDryRun(r)
    PROVE  Decided(r)'
<1>1. UNCHANGED <<called, tables, trail, written, context>>
    BY DEF ExecuteCollect, ExecuteTransform, ExecuteLlm, ExecuteApproveRaises, ExecuteApprove,
           FinishApprove, ExecuteApplyDryRun, locals
<1>2. /\ Quiet(r) /\ context'[r] = context[r]
      /\ At(r)' = At(r) /\ Current(r)' = Current(r) /\ TypeOK
    BY <1>1, NoMoreTrail DEF Quiet, At, Current, Steps, called, tables, IInv
<1>3. CASE pc'[r] \in Failing
    BY <1>2, <1>3, FailingDecided
<1>4. CASE pc'[r] \notin Failing
    <2>1. \/ /\ pc[r] = "execute" /\ pc'[r] \in {"return", "validated"}
             /\ Current(r).type \in {"collect", "transform", "llm", "apply"}
             /\ pc'[r] = "validated" => Current(r).type = "llm"
          \/ pc[r] = "execute" /\ pc'[r] = "approve" /\ ExecuteApprove(r)
          \/ pc[r] = "approve" /\ pc'[r] = "return" /\ FinishApprove(r)
        <3>1. \A label : Goto(r, label) => pc'[r] = label
            BY <1>2 DEF Goto, TypeOK
        <3> QED
            BY <1>4, <3>1 DEF ExecuteCollect, ExecuteTransform, ExecuteLlm, ExecuteApproveRaises,
               ExecuteApprove, FinishApprove, ExecuteApplyDryRun, Executing, Return,
               HandlerRaises, Failing
    <2>2. OutputApproved(r)'
        <3>1. CASE ExecuteApprove(r) /\ pc[r] = "execute" /\ pc'[r] = "approve"
            <4>1. output'[r] = <<>> /\ Current(r).type = "approve" /\ ~ options[r].dry_run
                BY <1>2, <3>1 DEF ExecuteApprove, Executing, TypeOK
            <4>2. ApprovedAt(r, At(r)) = {}
                <5>1. \A i \in DOMAIN approvals[r] : approvals[r][i].step \in Nat /\ approvals[r][i].step < At(r)
                    BY <3>1, DecisionSteps DEF Decided, DecisionsTold
                <5>2. At(r) \in Nat
                    BY DecisionSteps
                <5> QED
                    BY <5>1, <5>2 DEF ApprovedAt, DecisionsAt
            <4>3. LetThrough(r, <<>>, At(r))
                BY <4>2, FS_EmptySet DEF LetThrough, Tells
            <4>4. LetThrough(r, output[r], At(r))'
                BY <1>2, <4>1, <4>3, SameDecisions DEF Quiet
            <4> QED
                BY <1>2, <3>1, <4>1, <4>4 DEF OutputApproved, Quiet
        <3>2. CASE FinishApprove(r) /\ pc[r] = "approve" /\ pc'[r] = "return"
            <4>1. output' = output
                BY <3>2 DEF FinishApprove, locals
            <4>2. LetThrough(r, output[r], At(r))
                BY <3>2 DEF Decided, OutputApproved
            <4>3. LetThrough(r, output[r], At(r))'
                BY <1>2, <4>1, <4>2, SameDecisions DEF Quiet
            <4> QED
                BY <3>2, <4>3 DEF OutputApproved
        <3>3. CASE /\ pc[r] = "execute" /\ pc'[r] \in {"return", "validated"}
                   /\ Current(r).type \in {"collect", "transform", "llm", "apply"}
                   /\ pc'[r] = "validated" => Current(r).type = "llm"
            BY <1>2, <3>3 DEF OutputApproved
        <3> QED
            BY <2>1, <3>1, <3>2, <3>3
    <2>3. Done(r)' = Done(r)
        BY <1>2, <2>1 DEF Done
    <2> QED
        BY <1>2, <2>1, <2>2, <2>3, ForwardDecided DEF Failing, Announced
<1> QED
    BY <1>3, <1>4

LEMMA StoresDecided ==
    ASSUME IInv, NEW r \in Runs, Decided(r),
           FinishRun(r) \/ FailRun(r) \/ StartStep(r) \/ FailStep(r) \/ Crash(r)
    PROVE  Decided(r)'
<1>1. UNCHANGED <<called, approvals, trail, written, context>>
    BY DEF FinishRun, FailRun, StartStep, FailStep, Crash, tables, locals
<1>2. Quiet(r) /\ context'[r] = context[r] /\ TypeOK
    BY <1>1, NoMoreTrail DEF Quiet, called, IInv
<1>3. \/ pc'[r] \in Failing /\ At(r)' = At(r)
      \/ pc[r] = "loop" /\ pc'[r] = "run_stored" /\ At(r)' = At(r)
      \/ pc[r] = "loop" /\ pc'[r] = "step_inserted" /\ At(r)' = At(r) + 1
    <2>1. \A label : Goto(r, label) => pc'[r] = label
        BY <1>2 DEF Goto, TypeOK
    <2>2. CASE FinishRun(r) \/ FailRun(r) \/ Crash(r)
        BY <2>1, <2>2 DEF FinishRun, FailRun, Crash, Raises, At, tables, Failing
    <2>3. CASE FailStep(r)
        <3>1. pc[r] \in MidStep /\ (SetLastStep(r, "failed") \/ UNCHANGED stepRows)
            BY <2>3 DEF FailStep, MidStep
        <3>2. At(r)' = At(r)
            BY <3>1, SetLastStepEffect
        <3> QED
            BY <2>1, <2>3, <3>2 DEF FailStep, Raises, Failing
    <2>4. CASE StartStep(r)
        <3>1. stepRows[r] \in Seq({"running", "completed", "failed"})
            BY <1>2 DEF TypeOK
        <3>2. Len(Append(stepRows[r], "running")) = At(r) + 1
            BY <3>1, AppendProperties DEF At
        <3>3. pc[r] = "loop"
            BY <2>4 DEF StartStep
        <3>4. CASE stepRows' = [stepRows EXCEPT ![r] = Append(@, "running")] /\ Goto(r, "step_inserted")
            <4>1. stepRows'[r] = Append(stepRows[r], "running")
                BY <1>2, <3>4 DEF TypeOK
            <4> QED
                BY <2>1, <3>2, <3>3, <3>4, <4>1 DEF At
        <3>5. CASE Raises(r, "run_fail") /\ UNCHANGED stepRows
            BY <2>1, <3>5 DEF Raises, At, Failing
        <3> QED
            BY <2>4, <3>4, <3>5 DEF StartStep
    <2> QED
        BY <2>2, <2>3, <2>4
<1>4. CASE pc'[r] \in Failing /\ At(r)' = At(r)
    BY <1>2, <1>4, FailingDecided
<1>5. CASE pc[r] = "loop" /\ pc'[r] = "run_stored" /\ At(r)' = At(r)
    BY <1>2, <1>5, ForwardDecided DEF Failing, Announced, OutputApproved
<1>6. CASE pc[r] = "loop" /\ pc'[r] = "step_inserted" /\ At(r)' = At(r) + 1
    <2>1. Done(r)' = Done(r)
        BY <1>6, DecisionSteps DEF Done
    <2> QED
        BY <1>2, <1>6, <2>1, ForwardDecided DEF Failing, Announced, OutputApproved
<1> QED
    BY <1>3, <1>4, <1>5, <1>6

LEMMA CreateRunDecided ==
    ASSUME IInv, NEW r \in Runs, Decided(r), CreateRun(r)
    PROVE  Decided(r)'
<1>1. /\ pc[r] = "idle" /\ UNCHANGED <<stepRows, approvals, trail, written>>
      /\ pc'[r] \in {"created", "raised"}
    BY DEF CreateRun, Raises, Goto, IInv, TypeOK
<1>2. approvals[r] = <<>> /\ written[r] = <<>> /\ Told(r, Len(approvals[r]))
    BY <1>1 DEF IInv, Control, Decided, DecisionsTold, Failing
<1>3. TrailMore(r)
    BY <1>1, NoMoreTrail
<1>4. Told(r, Len(approvals[r]))'
    BY <1>1, <1>2, <1>3, DecisionSteps DEF TrailMore
<1>5. DecisionsTold(r)'
    BY <1>1, <1>2, <1>4 DEF DecisionsTold, Failing
<1>6. OutputApproved(r)' /\ ContextApproved(r)' /\ WrittenApproved(r)'
    BY <1>1, <1>2 DEF OutputApproved, ContextApproved, WrittenApproved, Announced
<1> QED
    BY <1>5, <1>6 DEF Decided
-----------------------------------------------------------------------------
(* The output of a step gets its two names.                                *)
LEMMA FinishStepDecided ==
    ASSUME IInv, NEW r \in Runs, Decided(r), FinishStep(r)
    PROVE  Decided(r)'
<1>1. /\ pc[r] = "return" /\ UNCHANGED <<called, runRow, approvals, trail, written, item, output>>
      /\ context' = [context EXCEPT ![r][Current(r).out] = output[r],
                                    ![r][Current(r).id] = output[r]]
      /\ SetLastStep(r, "completed") \/ UNCHANGED stepRows
      /\ pc'[r] \in {"step_stored", "step_fail"}
    BY DEF FinishStep, Raises, Goto, IInv, TypeOK
<1>2. At(r)' = At(r) /\ Current(r)' = Current(r) /\ Steps(r)' = Steps(r)
    BY <1>1, SetLastStepEffect DEF MidStep, Current, Steps, called
<1>3. Quiet(r)
    BY <1>1, NoMoreTrail DEF Quiet, called
<1>4. CASE pc'[r] = "step_fail"
    BY <1>2, <1>3, <1>4, FailingDecided DEF Failing
<1>5. CASE pc'[r] = "step_stored"
    <2> PICK n \in Nat : n = At(r) /\ n >= 1
        BY <1>1, CurrentStep DEF MidStep
    <2>1. DecisionsTold(r)' /\ OutputApproved(r)' /\ WrittenApproved(r)'
        <3>1. DecisionsTold(r)'
            BY <1>1, <1>2, <1>3, <1>5, DecisionsStay DEF Quiet, Decided, Failing
        <3>2. OutputApproved(r)'
            BY <1>5 DEF OutputApproved
        <3>3. WrittenApproved(r)'
            BY <1>2, <1>3, WrittenStays DEF Quiet, TrailMore, Decided
        <3> QED
            BY <3>1, <3>2, <3>3
    <2>2. /\ n \in 1..Len(Steps(r)) /\ Steps(r) \in Seq(Step)
          /\ \A t \in 1..n : Names(r, t) \subseteq Keys
          /\ Names(r, n) = {Current(r).id, Current(r).out}
        <3>1. n \in 1..Len(Steps(r)) /\ Steps(r) \in Seq(Step)
            BY <1>1, CurrentStep DEF MidStep
        <3>2. \A t \in 1..n : Steps(r)[t] \in Step
            BY <3>1
        <3>3. \A step \in Step : step.id \in Keys /\ step.out \in Keys
            BY DEF Step
        <3> QED
            BY <3>1, <3>2, <3>3 DEF Names, Current
    <2>3. \A k \in Keys : context'[r][k] = IF k \in Names(r, n) THEN output[r] ELSE context[r][k]
        <3>1. context \in [Runs -> [Keys -> Values \cup {Unset}]]
            BY DEF IInv, TypeOK
        <3> QED
            BY <1>1, <2>2, <3>1
    <2>4. ASSUME ~ options[r].dry_run PROVE ContextKept(r, n)'
        <3> SUFFICES ASSUME NEW t \in 1..n, Steps(r)[t].type = "approve", NEW k \in Names(r, t),
                            \A u \in (t + 1)..n : k \notin Names(r, u)
                     PROVE  LetThrough(r, context'[r][k], t)
            <4>1. \A t : Names(r, t)' = Names(r, t)
                BY <1>2 DEF Names
            <4>2. \A value, s : LetThrough(r, value, s)' = LetThrough(r, value, s)
                BY <1>3, SameDecisions DEF Quiet
            <4> QED
                BY <1>2, <4>1, <4>2 DEF ContextKept
        <3>1. k \in Keys
            BY <2>2
        <3>2. CASE t = n
            <4>1. LetThrough(r, output[r], n)
                BY <1>1, <2>4, <3>2 DEF Decided, OutputApproved, Current
            <4> QED
                BY <2>3, <3>1, <3>2, <4>1
        <3>3. CASE t # n
            <4>1. t \in 1..(n - 1) /\ n \in (t + 1)..n
                BY <3>3
            <4>2. \A u \in (t + 1)..(n - 1) : u \in (t + 1)..n
                OBVIOUS
            <4>3. ContextKept(r, n - 1)
                BY <1>1, <2>4 DEF Decided, ContextApproved, Done, Announced
            <4>4. LetThrough(r, context[r][k], t)
                BY <4>1, <4>2, <4>3 DEF ContextKept
            <4>5. k \notin Names(r, n)
                BY <4>1
            <4> QED
                BY <2>3, <3>1, <4>4, <4>5
        <3> QED
            BY <3>2, <3>3
    <2>5. ContextApproved(r)'
        <3>1. Done(r)' = n
            BY <1>2, <1>5 DEF Done
        <3>2. ~ options'[r].dry_run => ContextKept(r, n)'
            BY <1>3, <2>4 DEF Quiet
        <3> QED
            BY <3>1, <3>2 DEF ContextApproved
    <2> QED
        BY <2>1, <2>5 DEF Decided
<1> QED
    BY <1>1, <1>4, <1>5

(* One more decision, at the current step: the others are as they were.    *)
LEMMA MoreDecisions ==
    ASSUME IInv, NEW r \in Runs, NEW row \in Approval,
           approvals'[r] = Append(approvals[r], row)
    PROVE  LET n == Len(approvals[r]) IN
           /\ n \in Nat /\ Len(approvals'[r]) = n + 1 /\ DOMAIN approvals'[r] = 1..(n + 1)
           /\ DOMAIN approvals[r] = 1..n
           /\ approvals'[r][n + 1] = row
           /\ \A i \in 1..n : approvals'[r][i] = approvals[r][i]
           /\ \A i \in 1..n : DecidedEntries(r)'[i] = DecidedEntries(r)[i]
           /\ \A s : s # row.step =>
                  DecisionsAt(r, s)' = DecisionsAt(r, s) /\ ApprovedAt(r, s)' = ApprovedAt(r, s)
           /\ \A s : ApprovedAt(r, s)' \ {n + 1} = ApprovedAt(r, s)
           /\ \A s : ApprovedAt(r, s) \subseteq 1..n
           /\ \A value, s : s # row.step /\ LetThrough(r, value, s) => LetThrough(r, value, s)'
<1> DEFINE n == Len(approvals[r])
<1>1. approvals[r] \in Seq(Approval)
    BY DEF IInv, TypeOK
<1>2. /\ n \in Nat /\ Len(approvals'[r]) = n + 1
      /\ DOMAIN approvals'[r] = 1..(n + 1) /\ DOMAIN approvals[r] = 1..n
      /\ approvals'[r][n + 1] = row
      /\ \A i \in 1..n : approvals'[r][i] = approvals[r][i]
    BY <1>1, AppendProperties
<1> HIDE DEF n
<1>3. /\ \A i \in 1..(n + 1) : i \in 1..n \/ i = n + 1
      /\ 1..n \subseteq 1..(n + 1) /\ n + 1 \notin 1..n /\ n + 1 \in 1..(n + 1)
    BY <1>2
<1>4. \A i \in 1..n : DecidedEntries(r)'[i] = DecidedEntries(r)[i]
    BY <1>2, <1>3 DEF DecidedEntries
<1>5. \A s : s # row.step => DecisionsAt(r, s)' = DecisionsAt(r, s)
    BY <1>2, <1>3 DEF DecisionsAt
<1>6. \A s : DecisionsAt(r, s)' \ {n + 1} = DecisionsAt(r, s) /\ DecisionsAt(r, s) \subseteq 1..n
    BY <1>2, <1>3 DEF DecisionsAt
<1>7. \A s : ApprovedAt(r, s)' \ {n + 1} = ApprovedAt(r, s) /\ ApprovedAt(r, s) \subseteq 1..n
    BY <1>2, <1>3, <1>6 DEF ApprovedAt
<1>8. \A s : s # row.step => ApprovedAt(r, s)' = ApprovedAt(r, s)
    BY <1>2, <1>3, <1>5, <1>6 DEF ApprovedAt
<1>9. ASSUME NEW value, NEW s, s # row.step, LetThrough(r, value, s)
      PROVE  LetThrough(r, value, s)'
    <2> PICK before, after : before = DecidedEntries(r) /\ after = DecidedEntries(r)'
        OBVIOUS
    <2> PICK at : at = ApprovedAt(r, s)
        OBVIOUS
    <2>1. Tells(value, before, at) /\ \A k \in at : after[k] = before[k]
        BY <1>4, <1>7, <1>9 DEF LetThrough
    <2>2. Tells(value, after, at)
        BY <2>1, TellsKept
    <2> QED
        BY <1>8, <1>9, <2>2 DEF LetThrough
<1> QED
    BY <1>2, <1>4, <1>5, <1>7, <1>8, <1>9 DEF n

LEMMA DecideItemDecided ==
    ASSUME IInv, NEW r \in Runs, Decided(r), DecideItem(r)
    PROVE  Decided(r)'
<1>1. /\ pc[r] = "approve" /\ UNCHANGED <<called, runRow, stepRows, trail, written, locals>>
      /\ item[r] \in Nat /\ TypeOK
    BY DEF DecideItem, IInv, TypeOK
<1>2. At(r)' = At(r) /\ Current(r)' = Current(r) /\ At(r) \in Nat
    BY <1>1 DEF At, Current, Steps, called, TypeOK
<1>3. \/ pc'[r] = "step_fail" /\ approvals'[r] = approvals[r]
      \/ /\ pc'[r] = "decided"
         /\ \E row \in Approval : row.step = At(r) /\ approvals'[r] = Append(approvals[r], row)
    <2>1. \A label : Goto(r, label) => pc'[r] = label
        BY <1>1 DEF Goto, TypeOK
    <2>2. CASE pc'[r] = "step_fail" /\ approvals' = approvals
        BY <2>2
    <2>3. CASE \E decision \in Decisions, entry \in Entries :
                 /\ approvals' = [approvals EXCEPT ![r] = Append(@,
                        [step |-> At(r), item |-> item[r], decision |-> decision,
                         entry |-> IF decision = "approve" THEN entry ELSE None])]
                 /\ Goto(r, "decided")
        <3> PICK decision \in Decisions, entry \in Entries :
                 /\ approvals' = [approvals EXCEPT ![r] = Append(@,
                        [step |-> At(r), item |-> item[r], decision |-> decision,
                         entry |-> IF decision = "approve" THEN entry ELSE None])]
                 /\ Goto(r, "decided")
            BY <2>3
        <3> DEFINE row == [step |-> At(r), item |-> item[r], decision |-> decision,
                           entry |-> IF decision = "approve" THEN entry ELSE None]
        <3>1. row \in Approval /\ row.step = At(r)
            BY <1>1, <1>2 DEF Approval
        <3>2. approvals' = [approvals EXCEPT ![r] = Append(approvals[r], row)]
            OBVIOUS
        <3> HIDE DEF row
        <3>3. approvals'[r] = Append(approvals[r], row)
            BY <1>1, <3>2 DEF TypeOK
        <3> QED
            BY <2>1, <3>1, <3>3
    <2> QED
        BY <2>1, <2>2, <2>3 DEF DecideItem, Raises
<1>4. CASE pc'[r] = "step_fail" /\ approvals'[r] = approvals[r]
    <2>1. Quiet(r)
        BY <1>1, <1>4, NoMoreTrail DEF Quiet, called
    <2> QED
        BY <1>2, <1>4, <2>1, FailingDecided DEF Failing
<1>5. CASE /\ pc'[r] = "decided"
           /\ \E row \in Approval : row.step = At(r) /\ approvals'[r] = Append(approvals[r], row)
    <2> PICK row \in Approval : row.step = At(r) /\ approvals'[r] = Append(approvals[r], row)
        BY <1>5
    <2> PICK n \in Nat : n = Len(approvals[r])
        BY DecisionSteps
    <2>1. /\ Len(approvals'[r]) = n + 1 /\ DOMAIN approvals'[r] = 1..(n + 1)
          /\ DOMAIN approvals[r] = 1..n
          /\ approvals'[r][n + 1] = row
          /\ \A i \in 1..n : approvals'[r][i] = approvals[r][i]
          /\ \A i \in 1..n : DecidedEntries(r)'[i] = DecidedEntries(r)[i]
          /\ \A s : s # row.step =>
                 DecisionsAt(r, s)' = DecisionsAt(r, s) /\ ApprovedAt(r, s)' = ApprovedAt(r, s)
          /\ \A s : ApprovedAt(r, s)' \ {n + 1} = ApprovedAt(r, s)
          /\ \A s : ApprovedAt(r, s) \subseteq 1..n
          /\ \A value, s : s # row.step /\ LetThrough(r, value, s) => LetThrough(r, value, s)'
        BY MoreDecisions
    <2>2. DecisionsTold(r) /\ OutputApproved(r) /\ ContextApproved(r) /\ WrittenApproved(r)
        BY DEF Decided
    <2>3. \A i \in 1..(n + 1) : i \in 1..n \/ i = n + 1
        OBVIOUS
    <2>4. \A i \in 1..n : Heard(r, i) => Heard(r, i)'
        BY <1>1, <2>1 DEF Heard
    <2>5. DecisionsTold(r)'
        <3>1. Told(r, n)
            BY <1>1, <2>2 DEF DecisionsTold, Failing
        <3>2. Told(r, n)'
            <4>1. [i \in 1..n |-> ApprovalEvent(approvals'[r][i])] =
                      [i \in 1..n |-> ApprovalEvent(approvals[r][i])]
                BY <2>1
            <4> QED
                BY <1>1, <3>1, <4>1 DEF Told, EventsOf
        <3>3. \A i \in 1..(n + 1) : approvals'[r][i].step <= At(r)
            BY <1>2, <2>1, <2>2, <2>3 DEF DecisionsTold
        <3>4. \A i \in 1..n : Heard(r, i)'
            BY <1>1, <2>1, <2>2, <2>4 DEF DecisionsTold, Failing
        <3>5. Len(approvals'[r]) - 1 = n
            BY <2>1
        <3>6. Told(r, Len(approvals[r]) - 1)'
            BY <3>2, <3>5
        <3> QED
            BY <1>2, <1>5, <2>1, <2>3, <3>3, <3>4, <3>6 DEF DecisionsTold
    <2>6. OutputApproved(r)'
        <3>1. /\ Current(r).type = "approve" /\ ~ options[r].dry_run
              /\ Tells(output[r], DecidedEntries(r), ApprovedAt(r, At(r)))
            BY <1>1, <2>2 DEF OutputApproved, LetThrough
        <3> PICK before, after : before = DecidedEntries(r) /\ after = DecidedEntries(r)'
            OBVIOUS
        <3> PICK at : at = ApprovedAt(r, At(r))
            OBVIOUS
        <3>2. Tells(output[r], after, at)
            <4>1. \A k \in at : after[k] = before[k]
                BY <2>1
            <4>2. Tells(output[r], before, at)
                BY <3>1
            <4> QED
                BY <4>1, <4>2, TellsKept
        <3>3. approvals'[r] # <<>> /\ Last(approvals'[r]).step = At(r)
            <4>1. Len(<<>>) = 0 /\ n + 1 # 0
                OBVIOUS
            <4>2. Last(approvals'[r]) = row
                BY <2>1 DEF Last
            <4> QED
                BY <2>1, <4>1, <4>2
        <3>4. ApprovedAt(r, At(r))' \ {Len(approvals'[r])} = at
            BY <1>2, <2>1
        <3>5. output'[r] = output[r] /\ options'[r] = options[r]
            BY <1>1 DEF locals, called
        <3> QED
            BY <1>2, <1>5, <3>1, <3>2, <3>3, <3>4, <3>5 DEF OutputApproved
    <2>7. ContextApproved(r)'
        <3> PICK m \in Int : m = Done(r) /\ m = At(r) - 1
            BY <1>1, <1>2 DEF Done
        <3>1. Done(r)' = m
            BY <1>2, <1>5 DEF Done
        <3>2. ~ options[r].dry_run => ContextKept(r, m)
            BY <1>1, <2>2 DEF ContextApproved, Announced
        <3>3. Steps(r)' = Steps(r) /\ context'[r] = context[r] /\ \A t : Names(r, t)' = Names(r, t)
            BY <1>1 DEF Steps, Names, called, locals
        <3>4. \A t \in 1..m : t # row.step
            BY <1>2
        <3>5. ContextKept(r, m) => ContextKept(r, m)'
            BY <2>1, <3>3, <3>4 DEF ContextKept
        <3> QED
            BY <1>1, <3>1, <3>2, <3>5 DEF ContextApproved, called
    <2>8. WrittenApproved(r)'
        <3> SUFFICES ASSUME NEW i \in DOMAIN written[r]
                     PROVE  written[r][i].step <= At(r)' /\ EffectApproved(r, written[r][i])'
            BY <1>1 DEF WrittenApproved
        <3> PICK effect \in Effect : effect = written[r][i]
            BY <1>1 DEF TypeOK
        <3>1. effect.step \in Nat /\ effect.step <= At(r) /\ EffectApproved(r, effect)
            BY <2>2 DEF WrittenApproved, Effect
        <3>2. ASSUME NEW s \in LastProducer(playbook[r], effect.step)
              PROVE  s # row.step /\ \A k \in DecisionsAt(r, s) : k \in 1..n
            <4>1. s \in 1..(effect.step - 1)
                BY DEF LastProducer, Producers
            <4>2. s # row.step
                BY <1>2, <3>1, <4>1
            <4> QED
                BY <2>1, <4>2 DEF DecisionsAt
        <3>3. EffectApproved(r, effect)'
            <4> SUFFICES ASSUME Gated(playbook[r]), NEW s \in LastProducer(playbook[r], effect.step)
                         PROVE  /\ effect.payload # Raw
                                /\ Tells(effect.payload, DecidedEntries(r)', ApprovedAt(r, s)')
                                /\ \A k \in DecisionsAt(r, s)' : Heard(r, k)'
                BY <1>1 DEF EffectApproved, called
            <4>1. /\ effect.payload # Raw
                  /\ Tells(effect.payload, DecidedEntries(r), ApprovedAt(r, s))
                  /\ \A k \in DecisionsAt(r, s) : Heard(r, k)
                BY <3>1 DEF EffectApproved
            <4>2. DecisionsAt(r, s)' = DecisionsAt(r, s) /\ ApprovedAt(r, s)' = ApprovedAt(r, s)
                BY <2>1, <3>2
            <4> PICK before, after : before = DecidedEntries(r) /\ after = DecidedEntries(r)'
                OBVIOUS
            <4> PICK at : at = ApprovedAt(r, s)
                OBVIOUS
            <4>3. Tells(effect.payload, after, at)
                <5>1. \A k \in at : after[k] = before[k]
                    BY <2>1
                <5>2. Tells(effect.payload, before, at)
                    BY <4>1
                <5> QED
                    BY <5>1, <5>2, TellsKept
            <4> QED
                BY <2>4, <3>2, <4>1, <4>2, <4>3
        <3>4. written[r][i]' = effect
            BY <1>1
        <3> QED
            BY <1>2, <3>1, <3>3, <3>4
    <2> QED
        BY <2>5, <2>6, <2>7, <2>8 DEF Decided
<1> QED
    BY <1>3, <1>4, <1>5

LEMMA ApprovalEventOf ==
    ASSUME NEW s, NEW i, NEW d
    PROVE  [Event("approval.recorded", s) EXCEPT !.item = i, !.decision = d] =
               [type |-> "approval.recorded", step |-> s, item |-> i, decision |-> d]
<1> DEFINE first == [Event("approval.recorded", s) EXCEPT !.item = i]
<1>1. [Event("approval.recorded", s) EXCEPT !.item = i, !.decision = d]
          = [first EXCEPT !.decision = d]
    OBVIOUS
<1>2. first = [type |-> "approval.recorded", step |-> s, item |-> i, decision |-> None]
    BY DEF Event
<1>3. [[type |-> "approval.recorded", step |-> s, item |-> i, decision |-> None] EXCEPT !.decision = d]
          = [type |-> "approval.recorded", step |-> s, item |-> i, decision |-> d]
    OBVIOUS
<1> QED
    BY <1>1, <1>2, <1>3

LEMMA ApprovalEventType ==
    ASSUME NEW row \in Approval
    PROVE  ApprovalEvent(row) \in Events /\ ApprovalEvent(row).type = "approval.recorded"
<1>1. row.step \in Nat /\ row.item \in Nat /\ row.decision \in Decisions
    BY DEF Approval
<1> QED
    BY <1>1 DEF ApprovalEvent, Events, EventTypes

(* The decision joins the trail, and an approved entry the output.         *)
LEMMA RecordApprovalDecided ==
    ASSUME IInv, NEW r \in Runs, Decided(r), RecordApproval(r)
    PROVE  Decided(r)'
<1>1. /\ pc[r] = "decided" /\ UNCHANGED <<called, tables, written, context>> /\ TypeOK
      /\ trail[r] \in Seq(Events) /\ approvals[r] \in Seq(Approval) /\ approvals[r] # <<>>
      /\ output[r] \in Seq(Entries)
    BY DEF RecordApproval, IInv, TypeOK, Trail!TrailTypeOK, Control
<1> PICK n \in Nat : n + 1 = Len(approvals[r]) /\ n + 1 \in DOMAIN approvals[r]
    <2>1. Len(approvals[r]) \in DOMAIN approvals[r] /\ Len(approvals[r]) \in Nat
        BY <1>1, EmptySeq
    <2>2. Len(approvals[r]) - 1 \in Nat /\ (Len(approvals[r]) - 1) + 1 = Len(approvals[r])
        BY <1>1, <2>1
    <2> QED
        BY <2>1, <2>2
<1> PICK row \in Approval : row = approvals[r][n + 1] /\ row = Last(approvals[r])
    BY <1>1 DEF Last
<1>2. /\ DecisionsTold(r) /\ OutputApproved(r) /\ ContextApproved(r) /\ WrittenApproved(r)
      /\ At(r) \in Nat /\ At(r)' = At(r) /\ Current(r)' = Current(r)
    BY <1>1, DecisionSteps DEF Decided, At, Current, Steps, called, tables
<1>3. row.step = At(r) /\ (row.decision = "approve" => row.entry \in Entries)
    BY <1>1, <1>2 DEF OutputApproved, IInv, Control
<1> PICK event \in Events : event = ApprovalEvent(row) /\ event.type = "approval.recorded"
    BY ApprovalEventType
<1>4. /\ AuditAndEmit(r, event, "approve", "step_fail")
      /\ output' = IF row.decision = "approve"
                       THEN [output EXCEPT ![r] = Append(@, row.entry)]
                       ELSE output
    <2>1. [Event("approval.recorded", At(r)) EXCEPT !.item = row.item, !.decision = row.decision]
              = ApprovalEvent(row)
        <3>1. ApprovalEvent(row) = [type |-> "approval.recorded", step |-> At(r),
                                    item |-> row.item, decision |-> row.decision]
            BY <1>3 DEF ApprovalEvent
        <3> QED
            BY <3>1, ApprovalEventOf
    <2> QED
        BY <2>1 DEF RecordApproval
<1>5. /\ Grows(r, event) \/ trail'[r] = trail[r]
      /\ pc'[r] = "approve" => Grows(r, event)
      /\ pc'[r] \in {"approve", "step_fail"}
    <2>0. r \in Runs /\ TypeOK /\ AuditAndEmit(r, event, "approve", "step_fail")
        BY <1>1, <1>4
    <2>1. \/ pc'[r] = "approve" /\ faulted'[r] = faulted[r] /\ Grows(r, event)
          \/ /\ pc'[r] = "step_fail" /\ faulted'[r] = TRUE
             /\ Grows(r, event) \/ trail'[r] = trail[r]
        BY ONLY <2>0, AppendOutcome
    <2> QED
        BY <2>1
<1>6. Remembers(r)
    BY <1>1, <1>5, LongerTrail
<1>7. WrittenApproved(r)'
    BY <1>1, <1>2, <1>6, WrittenStays DEF called, tables
<1>8. approvals'[r] = approvals[r] /\ Len(approvals[r]) = n + 1 /\ Len(approvals[r]) - 1 = n
    BY <1>1 DEF tables
<1>9. Told(r, n)
    BY <1>1, <1>2, <1>8 DEF DecisionsTold
<1>10. Grows(r, event) => Told(r, n + 1)'
    <2> SUFFICES ASSUME Grows(r, event) PROVE Told(r, n + 1)'
        OBVIOUS
    <2> DEFINE story == [i \in 1..n |-> ApprovalEvent(approvals[r][i])]
               more == [i \in 1..(n + 1) |-> ApprovalEvent(approvals[r][i])]
    <2>1. \A i \in 1..(n + 1) : approvals[r][i] \in Approval
        BY <1>1, <1>8
    <2>2. \A one \in Approval : ApprovalEvent(one) \in Events
        BY ApprovalEventType
    <2>3. /\ story \in Seq(Events) /\ Len(story) = n
          /\ more \in Seq(Events) /\ Len(more) = n + 1
          /\ \A i \in 1..n : more[i] = story[i]
          /\ more[n + 1] = event
        <3>1. \A i \in 1..(n + 1) : ApprovalEvent(approvals[r][i]) \in Events
            BY <2>1, <2>2
        <3>2. \A i \in 1..n : i \in 1..(n + 1)
            OBVIOUS
        <3>3. story \in [1..n -> Events] /\ more \in [1..(n + 1) -> Events]
            BY <3>1, <3>2
        <3>4. n \in Nat /\ n + 1 \in Nat /\ n + 1 \in 1..(n + 1)
            OBVIOUS
        <3>5. (\A i \in 1..n : more[i] = story[i]) /\ more[n + 1] = event
            BY <3>2, <3>4
        <3> HIDE DEF story, more
        <3> QED
            BY <3>3, <3>4, <3>5
    <2>4. SaysOf(r, {"approval.recorded"}, story)
        BY <1>9 DEF Told, SaysOf
    <2> PICK told \in Seq(Events) : told = story
        BY <2>3
    <2> PICK all \in Seq(Events) : all = more
        BY <2>3
    <2> HIDE DEF story, more
    <2>5. Append(told, event) = all
        <3>1. /\ Append(told, event) \in Seq(Events) /\ Len(Append(told, event)) = n + 1
              /\ \A i \in 1..n : Append(told, event)[i] = told[i]
              /\ Append(told, event)[n + 1] = event
            BY <2>3, AppendProperties
        <3>2. \A i \in 1..(n + 1) : i \in 1..n \/ i = n + 1
            OBVIOUS
        <3>3. \A i \in 1..(n + 1) : Append(told, event)[i] = all[i]
            BY <2>3, <3>1, <3>2
        <3> QED
            BY <2>3, <3>1, <3>3, SeqEqual
    <2>6. Tells(Append(told, event), trail'[r], EventsOf(r, {"approval.recorded"})')
        BY <1>1, <2>4, SaysMore
    <2>7. more' = more
        BY <1>8 DEF more
    <2> QED
        BY <2>5, <2>6, <2>7 DEF Told, more
<1>11. trail'[r] = trail[r] => Told(r, n)'
    BY <1>8, <1>9 DEF Told, EventsOf
<1>12. \A i \in DOMAIN approvals[r] : approvals[r][i].step <= At(r)'
    BY <1>2 DEF DecisionsTold
<1>13. CASE pc'[r] = "step_fail"
    <2>1. Told(r, n)' \/ Told(r, n + 1)'
        BY <1>5, <1>10, <1>11
    <2>2. Told(r, Len(approvals[r]) - 1)' \/ Told(r, Len(approvals[r]))'
        BY <1>8, <2>1
    <2>3. DecisionsTold(r)'
        BY <1>8, <1>12, <1>13, <2>2 DEF DecisionsTold, Failing
    <2>4. OutputApproved(r)' /\ ContextApproved(r)'
        BY <1>13 DEF OutputApproved, ContextApproved, Announced
    <2> QED
        BY <1>7, <2>3, <2>4 DEF Decided
<1>14. CASE pc'[r] = "approve"
    <2>1. Grows(r, event) /\ Told(r, n + 1)'
        BY <1>5, <1>10, <1>14
    <2>2. \A i \in DOMAIN approvals[r] : Heard(r, i)'
        <3>1. event \in Range(trail'[r])
            <4>1. Len(trail[r]) + 1 \in DOMAIN trail'[r] /\ trail'[r][Len(trail[r]) + 1] = event
                BY <1>1, <2>1, AppendProperties DEF Grows
            <4> QED
                BY <4>1 DEF Range
        <3>2. Heard(r, n + 1)'
            BY <1>8, <3>1 DEF Heard
        <3>3. \A i \in DOMAIN approvals[r] : i # n + 1 => Heard(r, i)
            BY <1>1, <1>2, <1>8 DEF DecisionsTold, Failing
        <3>4. \A i : Heard(r, i) => Heard(r, i)'
            BY <1>6, <1>8 DEF Heard, Remembers
        <3> QED
            BY <3>2, <3>3, <3>4
    <2>3. DecisionsTold(r)'
        <3>1. Told(r, Len(approvals[r]))'
            BY <1>8, <2>1
        <3> QED
            BY <1>8, <1>12, <1>14, <2>2, <3>1 DEF DecisionsTold, Failing
    <2>4. OutputApproved(r)'
        <3> PICK all, at : all = DecidedEntries(r) /\ at = ApprovedAt(r, At(r)) \ {n + 1}
            OBVIOUS
        <3>1. /\ Tells(output[r], all, at) /\ at \in SUBSET (1..n)
              /\ all[n + 1] = row.entry
              /\ Current(r).type = "approve" /\ ~ options[r].dry_run
            <4>1. at \in SUBSET (1..n)
                <5>1. \A i \in ApprovedAt(r, At(r)) : i \in 1..(n + 1)
                    BY <1>1, <1>8 DEF ApprovedAt, DecisionsAt
                <5>2. \A i \in 1..(n + 1) : i # n + 1 => i \in 1..n
                    OBVIOUS
                <5> QED
                    BY <5>1, <5>2
            <4>2. all[n + 1] = row.entry
                BY DEF DecidedEntries
            <4> QED
                BY <1>1, <1>2, <1>8, <4>1, <4>2 DEF OutputApproved
        <3>2. LetThrough(r, output'[r], At(r))
            <4>1. CASE row.decision = "approve"
                <5>1. output'[r] = Append(output[r], row.entry)
                    BY <1>1, <1>4, <4>1 DEF TypeOK
                <5>2. Append(output[r], row.entry) \in Seq(Entries)
                    BY <1>1, <1>3, <4>1, AppendProperties
                <5>3. Tells(Append(output[r], row.entry), all, at \cup {n + 1})
                    BY <1>1, <1>3, <3>1, <4>1, TellsMore
                <5>4. n + 1 \in ApprovedAt(r, At(r))
                    BY <1>3, <4>1 DEF ApprovedAt, DecisionsAt
                <5>5. at \cup {n + 1} = ApprovedAt(r, At(r))
                    BY <5>4
                <5> QED
                    BY <5>1, <5>2, <5>3, <5>5 DEF LetThrough
            <4>2. CASE row.decision # "approve"
                <5>1. output'[r] = output[r]
                    BY <1>4, <4>2
                <5>2. n + 1 \notin ApprovedAt(r, At(r))
                    BY <4>2 DEF ApprovedAt
                <5>3. at = ApprovedAt(r, At(r))
                    BY <5>2
                <5> QED
                    BY <1>1, <3>1, <5>1, <5>3 DEF LetThrough
            <4> QED
                BY <4>1, <4>2
        <3>3. LetThrough(r, output[r], At(r))'
            BY <1>2, <1>8, <3>2, SameDecisions
        <3> QED
            BY <1>1, <1>2, <1>14, <3>1, <3>3 DEF OutputApproved, called
    <2>5. ContextApproved(r)'
        <3> PICK m \in Int : m = Done(r) /\ m = At(r) - 1
            BY <1>1, <1>2 DEF Done
        <3>1. Done(r)' = m
            BY <1>2, <1>14 DEF Done
        <3>2. ~ options[r].dry_run => ContextKept(r, m)
            BY <1>1, <1>2 DEF ContextApproved, Announced
        <3>3. ContextKept(r, m) => ContextKept(r, m)'
            BY <1>1, <1>8, ContextStays DEF called
        <3> QED
            BY <1>1, <3>1, <3>2, <3>3 DEF ContextApproved, called
    <2> QED
        BY <1>7, <2>3, <2>4, <2>5 DEF Decided
<1> QED
    BY <1>5, <1>13, <1>14

(* In a gated playbook, what an apply step reads is what its approve step  *)
(* let through.                                                            *)
LEMMA SourceApproved ==
    ASSUME IInv, NEW r \in Runs, Decided(r), pc[r] = "execute", Current(r).type = "apply",
           ~ options[r].dry_run
    PROVE  EffectApproved(r, [step |-> At(r), payload |-> Source(r)])
<1> PICK n \in Nat : n = At(r) /\ n \in 1..Len(Steps(r))
    BY CurrentStep DEF MidStep
<1> DEFINE k == Current(r).source
<1> SUFFICES ASSUME Gated(playbook[r]), NEW s \in LastProducer(playbook[r], n)
             PROVE  /\ Source(r) # Raw
                    /\ Tells(Source(r), DecidedEntries(r), ApprovedAt(r, s))
                    /\ \A d \in DecisionsAt(r, s) : Heard(r, d)
    BY DEF EffectApproved
<1>1. /\ Steps(r) \in Seq(Step) /\ n \in DOMAIN playbook[r].steps
      /\ playbook[r].steps[n] = Current(r) /\ Steps(r) = playbook[r].steps
    BY CurrentStep DEF MidStep, Steps, Current
<1>2. playbook[r].steps[s].type = "approve"
    <2>1. PICK t \in LastProducer(playbook[r], n) : playbook[r].steps[t].type = "approve"
        BY <1>1 DEF Gated
    <2>2. /\ s \in 1..(n - 1) /\ t \in 1..(n - 1)
          /\ s \in Producers(playbook[r], n) /\ t \in Producers(playbook[r], n)
          /\ s <= t /\ t <= s
        BY <2>1 DEF LastProducer, Producers
    <2>3. s = t
        BY <2>2
    <2> QED
        BY <2>1, <2>3
<1>3. /\ s \in 1..(n - 1) /\ k \in Names(r, s)
      /\ \A u \in (s + 1)..(n - 1) : k \notin Names(r, u)
    <2>1. /\ s \in 1..(n - 1) /\ k \in Names(r, s)
          /\ \A u \in Producers(playbook[r], n) : u <= s
        BY <1>1 DEF LastProducer, Producers, Names
    <2>2. ASSUME NEW u \in (s + 1)..(n - 1) PROVE k \notin Names(r, u)
        <3>1. u \in 1..(n - 1) /\ ~ (u <= s)
            BY <2>1
        <3>2. u \notin Producers(playbook[r], n)
            BY <2>1, <3>1
        <3> QED
            BY <1>1, <3>1, <3>2 DEF Producers, Names
    <2> QED
        BY <2>1, <2>2
<1>4. ContextKept(r, n - 1)
    <2>1. pc[r] \in Announced /\ Done(r) = n - 1
        BY DEF Announced, Done
    <2> QED
        BY <2>1 DEF Decided, ContextApproved
<1>5. LetThrough(r, context[r][k], s)
    BY <1>1, <1>2, <1>3, <1>4 DEF ContextKept
<1>6. Source(r) = context[r][k] /\ Source(r) # Raw
    BY <1>5, ValuesAssumption DEF LetThrough, Source
<1>7. \A d \in DOMAIN approvals[r] : Heard(r, d)
    BY DEF Decided, DecisionsTold, Failing
<1> QED
    BY <1>5, <1>6, <1>7 DEF LetThrough, DecisionsAt

LEMMA ExecuteApplyDecided ==
    ASSUME IInv, NEW r \in Runs, Decided(r), ExecuteApply(r)
    PROVE  Decided(r)'
<1> PICK effect : effect = [step |-> At(r), payload |-> Source(r)]
    OBVIOUS
<1>1. /\ pc[r] = "execute" /\ Current(r).type = "apply" /\ ~ options[r].dry_run
      /\ UNCHANGED <<called, tables, trail, context>>
      /\ written' = [written EXCEPT ![r] = Append(written[r], effect)]
      /\ pc'[r] \in {"return", "step_fail"}
    BY DEF ExecuteApply, Executing, Return, HandlerRaises, Goto, IInv, TypeOK
<1>2. /\ At(r)' = At(r) /\ Current(r)' = Current(r) /\ At(r) \in Nat
      /\ approvals'[r] = approvals[r] /\ trail'[r] = trail[r]
    BY <1>1, DecisionSteps DEF At, Current, Steps, called, tables
<1>3. TrailMore(r) /\ Remembers(r)
    BY <1>2, NoMoreTrail DEF TrailMore
<1>4. DecisionsTold(r)'
    BY <1>1, <1>2, <1>3, DecisionsStay DEF Decided, Failing
<1>5. OutputApproved(r)'
    BY <1>1, <1>2 DEF OutputApproved
<1>6. ContextApproved(r)'
    <2> PICK m \in Int : m = Done(r)
        BY <1>1, <1>2 DEF Done
    <2>1. pc'[r] = "return" => Done(r)' = m
        BY <1>1, <1>2 DEF Done
    <2>2. ContextKept(r, m)
        BY <1>1 DEF Decided, ContextApproved, Announced
    <2>3. ContextKept(r, m)'
        BY <1>1, <1>2, <2>2, ContextStays DEF called
    <2> QED
        BY <1>1, <2>1, <2>3 DEF ContextApproved, Announced
<1>7. WrittenApproved(r)'
    <2>1. /\ written[r] \in Seq(Effect) /\ effect \in Effect
        <3>1. Source(r) \in Values
            BY <1>1, SourceType DEF MidStep
        <3> QED
            BY <1>2, <3>1 DEF Effect, IInv, TypeOK
    <2>2. written'[r] = Append(written[r], effect)
        BY <1>1 DEF IInv, TypeOK
    <2>3. /\ Len(written[r]) \in Nat /\ DOMAIN written'[r] = 1..(Len(written[r]) + 1)
          /\ DOMAIN written[r] = 1..Len(written[r])
          /\ \A i \in 1..Len(written[r]) : written'[r][i] = written[r][i]
          /\ written'[r][Len(written[r]) + 1] = effect
        BY <2>1, <2>2, AppendProperties
    <2>4. ASSUME NEW one \in Effect, EffectApproved(r, one), one.step <= At(r)
          PROVE  one.step <= At(r)' /\ EffectApproved(r, one)'
        BY <1>1, <1>2, <1>3, <2>4, EffectStays DEF called
    <2>5. EffectApproved(r, effect) /\ effect.step = At(r)
        BY <1>1, SourceApproved
    <2>6. effect.step <= At(r)' /\ EffectApproved(r, effect)'
        BY <1>2, <2>1, <2>4, <2>5
    <2>7. ASSUME NEW i \in 1..Len(written[r])
          PROVE  (written[r][i].step <= At(r) /\ EffectApproved(r, written[r][i]))'
        <3> PICK one \in Effect : one = written[r][i]
            BY <2>1
        <3>1. EffectApproved(r, one) /\ one.step <= At(r)
            BY <2>3 DEF Decided, WrittenApproved
        <3>2. one.step <= At(r)' /\ EffectApproved(r, one)'
            BY <2>4, <3>1
        <3>3. written'[r][i] = one
            BY <2>3
        <3> QED
            BY <3>2, <3>3
    <2>8. \A i \in 1..(Len(written[r]) + 1) : i \in 1..Len(written[r]) \/ i = Len(written[r]) + 1
        BY <2>3
    <2>9. ASSUME NEW i \in DOMAIN written'[r]
          PROVE  (written[r][i].step <= At(r) /\ EffectApproved(r, written[r][i]))'
        BY <2>3, <2>6, <2>7, <2>8
    <2> QED
        BY <2>9 DEF WrittenApproved
<1> QED
    BY <1>4, <1>5, <1>6, <1>7 DEF Decided
-----------------------------------------------------------------------------
LEMMA InitDecided == Init => \A r \in Runs : Decided(r)
<1> SUFFICES ASSUME Init, NEW r \in Runs PROVE Decided(r)
    OBVIOUS
<1>1. /\ pc[r] = "idle" /\ approvals[r] = <<>> /\ trail[r] = <<>> /\ written[r] = <<>>
    BY DEF Init, Trail!TrailInit
<1>2. Told(r, 0)
    <2>1. EventsOf(r, {"approval.recorded"}) = {}
        BY <1>1 DEF EventsOf
    <2>2. Cardinality({}) = 0
        BY FS_EmptySet
    <2>3. Len([i \in 1..0 |-> ApprovalEvent(approvals[r][i])]) = 0
        OBVIOUS
    <2> QED
        BY <2>1, <2>2, <2>3 DEF Told, Tells
<1>3. Len(approvals[r]) = 0 /\ Told(r, Len(approvals[r]))
    BY <1>1, <1>2
<1> QED
    BY <1>1, <1>3
       DEF Decided, DecisionsTold, OutputApproved, ContextApproved, WrittenApproved, Announced

LEMMA NextDecided ==
    ASSUME DInv, [Next]_vars
    PROVE  (\A r \in Runs : Decided(r))'
<1>1. CASE UNCHANGED vars
    <2> SUFFICES ASSUME NEW q \in Runs PROVE Decided(q)'
        OBVIOUS
    <2>1. Same(q)
        BY <1>1 DEF vars, Same, SameRun
    <2> QED
        BY <2>1, DecidedFrame DEF DInv
<1>2. CASE Next
    <2> PICK r \in Runs : Moves(r)
        BY <1>2 DEF Next, Moves
    <2>1. IInv /\ TypeOK /\ Decided(r)
        BY DEF DInv, IInv
    <2>2. \A q \in Runs \ {r} : Decided(q)'
        BY <2>1, OthersStay, DecidedFrame DEF DInv
    <2>3. Decided(r)'
        <3>1. CASE CreateRun(r) \/ DecideItem(r) \/ RecordApproval(r) \/ FinishStep(r) \/ ExecuteApply(r)
            BY <2>1, <3>1, CreateRunDecided, DecideItemDecided, RecordApprovalDecided,
               FinishStepDecided, ExecuteApplyDecided
        <3>2. CASE \/ RecordRunStarted(r) \/ RecordRunCompleted(r) \/ RecordRunFailed(r)
                   \/ RecordStepStarted(r) \/ RecordStepCompleted(r) \/ RecordStepFailed(r)
                   \/ RecordLlmValidated(r) \/ ExecuteApproveDryRun(r)
            BY <2>1, <3>2, RunAppendsDecided
        <3>3. CASE FinishRun(r) \/ FailRun(r) \/ StartStep(r) \/ FailStep(r) \/ Crash(r)
            BY <2>1, <3>3, StoresDecided
        <3>4. CASE \/ ExecuteCollect(r) \/ ExecuteTransform(r) \/ ExecuteLlm(r)
                   \/ ExecuteApproveRaises(r) \/ ExecuteApprove(r) \/ FinishApprove(r)
                   \/ ExecuteApplyDryRun(r)
            BY <2>1, <3>4, HandlersDecided
        <3> QED
            BY <3>1, <3>2, <3>3, <3>4 DEF Moves, Proceed
    <2> QED
        BY <2>2, <2>3
<1> QED
    BY <1>1, <1>2

LEMMA DecidedCounts == DInv => DecisionsCount
<1> SUFFICES ASSUME DInv PROVE DecisionsCount
    OBVIOUS
<1>1. EffectsApproved
    <2> SUFFICES ASSUME NEW r \in Runs, NEW i \in DOMAIN written[r], Gated(playbook[r]),
                        NEW s \in LastProducer(playbook[r], written[r][i].step)
                 PROVE  /\ written[r][i].payload # Raw
                        /\ Tells(written[r][i].payload, DecidedEntries(r), ApprovedAt(r, s))
                        /\ \A k \in DecisionsAt(r, s) :
                               ApprovalEvent(approvals[r][k]) \in Range(trail[r])
        BY DEF EffectsApproved
    <2>1. EffectApproved(r, written[r][i])
        BY DEF DInv, Decided, WrittenApproved
    <2> QED
        BY <2>1 DEF EffectApproved, Heard
<1>2. ApprovalsFollowed
    BY DEF DInv, Decided, DecisionsTold, Told, ApprovalsFollowed
<1> QED
    BY <1>1, <1>2 DEF DecisionsCount

(* Whatever the playbook, the reviewer answers and whichever call raises:  *)
(* in a gated playbook only what was approved leaves, as edited and in its *)
(* order, its decisions audited first; and the trail tells the decisions   *)
(* as the table has them (runner._execute_approve, _execute_apply).        *)
THEOREM DecisionsAlwaysCount == Spec => []DecisionsCount
<1> DEFINE AllDecided == \A r \in Runs : Decided(r)
<1>1. Init => AllDecided
    BY InitDecided
<1>2. IInv /\ AllDecided /\ [Next]_vars => AllDecided'
    BY NextDecided DEF DInv
<1>3. IInv /\ AllDecided => DecisionsCount
    BY DecidedCounts DEF DInv
<1> QED
    BY <1>1, <1>2, <1>3, Invariance, PTL DEF Spec
=============================================================================
