----------------------------- MODULE MCAuditLog -----------------------------
(* AuditLog on a small instance: two concurrent runs, so that rows and     *)
(* lines of one run fall between those of the other, and enough rows for a *)
(* gap in the middle of a run's lines.  The runs are interchangeable.      *)
EXTENDS AuditLog, TLC

RunSymmetry == Permutations(Runs)
=============================================================================
