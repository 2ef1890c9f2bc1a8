---------------------------- MODULE MCDeadlines ----------------------------
(* Deadlines on one matter with two deadlines, two windows, three days and *)
(* one pass that ends early: enough for a deadline created inside both     *)
(* windows, one that sorts before another, and a repeated alert.           *)
EXTENDS Deadlines
=============================================================================
