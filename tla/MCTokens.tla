------------------------------- MODULE MCTokens --------------------------------
(***************************************************************************)
(* Two callers; an access token lives for two ticks, one of which is the   *)
(* margin, and a device code for one.                                      *)
(***************************************************************************)
EXTENDS Tokens
===============================================================================
