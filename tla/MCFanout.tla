------------------------------- MODULE MCFanout -------------------------------
(***************************************************************************)
(* Constants of the Fanout run.                                             *)
(***************************************************************************)
EXTENDS FanoutProps
=============================================================================
