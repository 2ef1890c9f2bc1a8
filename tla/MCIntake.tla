------------------------------ MODULE MCIntake ------------------------------
(* Intake with two issues, one of them without description and reporter,   *)
(* and two messages, one of a bot; the same person reports the other issue *)
(* and writes the other message.  Limits are low enough for either query   *)
(* to be cut.                                                              *)
EXTENDS Intake, TLC

CONSTANTS i1, i2, m1, bot, ann, ben

MCAuthor == (i1 :> ann) @@ (i2 :> NoEmail) @@ (m1 :> ann) @@ (bot :> ben)
=============================================================================
