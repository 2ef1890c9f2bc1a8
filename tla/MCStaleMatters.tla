---------------------------- MODULE MCStaleMatters ----------------------------
(* Stale detection and the web application with one user.                  *)
EXTENDS StaleMatters

CONSTANTS ann, r1, r2
=============================================================================
