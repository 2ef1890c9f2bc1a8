-------------------------- MODULE MCWorkflowRunner --------------------------
(* WorkflowRunner on one run (runs share nothing the model has) and a few  *)
(* playbooks: the shape of playbooks/daily_time_capture.yml, two approve   *)
(* steps in a row, an approve step that finds nothing under its source     *)
(* name, and playbooks the policy must stop.                               *)
EXTENDS WorkflowRunner

CONSTANTS csv, ghost, e1, e2

MCSuggestions == {<<>>, <<e1>>, <<e1, e2>>}

StepOf(id, type, mode, source, out) ==
    [id |-> id, type |-> type, mode |-> mode, source |-> source, out |-> out]

Collect == StepOf("activities", "collect", "read", "done", "activities")
Transform == StepOf("clusters", "transform", "read", "activities", "clusters")
Llm == StepOf("draft", "llm", "read", "clusters", "suggestions")
Approve == StepOf("approval", "approve", "read", "suggestions", "approved")
Apply == StepOf("done", "apply", "write", "approved", "done")

Playbook(steps) == [connectors |-> {csv}, steps |-> steps]

Daily == Playbook(<<Collect, Transform, Llm, Approve, Apply>>)

Twice == Playbook(<<Llm, Approve, StepOf("second", "approve", "read", "approved", "second"),
                    StepOf("done", "apply", "write", "second", "done")>>)

NothingToApprove == Playbook(<<Approve, Apply>>)

WriteInCollect == Playbook(<<Llm, StepOf("activities", "collect", "write", "done", "activities"),
                             Approve, Apply>>)

UnknownOperation == Playbook(<<Llm, Approve, StepOf("done", "apply", "unknown", "approved", "done")>>)

Unavailable == [connectors |-> {csv, ghost}, steps |-> <<Collect>>]

(* The model's suggestions go straight to the connector.                   *)
Ungated == Playbook(<<Llm, StepOf("done", "apply", "write", "suggestions", "done")>>)

MCKeys == {"activities", "clusters", "draft", "suggestions", "approval", "approved", "second", "done"}

GatedPlaybooks == {Daily, Twice, NothingToApprove, WriteInCollect, UnknownOperation, Unavailable}
AllPlaybooks == GatedPlaybooks \cup {Ungated}
=============================================================================
