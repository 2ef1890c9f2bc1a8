----------------------------- MODULE AuditTrail -----------------------------
(***************************************************************************)
(* What the audit log of MatterOS promises, without its storage.           *)
(*                                                                         *)
(* Every workflow run has a trail: the sequence of the audit events that   *)
(* were recorded for it.  A trail only ever grows, at its end, by one      *)
(* event, and recording an event of one run leaves the trails of the other *)
(* runs alone ("Audit events are append-only and hash-linked",             *)
(* docs/policy-model.md).                                                  *)
(*                                                                         *)
(* AuditLog (the SQLite table and the JSONL file) implements this module;  *)
(* WorkflowRunner records its events through it.                           *)
(***************************************************************************)
EXTENDS Sequences

CONSTANTS
    Runs,       \* run ids (uuid4, one per call of WorkflowRunner.run)
    Events      \* what one audit event says: its type and the step it names

VARIABLE
    trail       \* trail[r]: the events recorded for run r, oldest first

TrailTypeOK == trail \in [Runs -> Seq(Events)]

TrailInit == trail = [r \in Runs |-> <<>>]

(* AuditLogger.append as its caller sees it once the SQLite row is there.  *)
Record(r, e) == trail' = [trail EXCEPT ![r] = Append(@, e)]

TrailNext == \E r \in Runs, e \in Events : Record(r, e)

TrailSpec == TrailInit /\ [][TrailNext]_trail
=============================================================================
