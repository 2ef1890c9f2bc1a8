------------------------------ MODULE MCDrafts --------------------------------
(* Drafts with two terminals and two executions of a job, one of which may *)
(* make two drafts.                                                        *)
EXTENDS Drafts

CONSTANTS q1, q2, ann, ben

MCSuggestions == {<<>>, <<TRUE, FALSE>>}
=============================================================================
