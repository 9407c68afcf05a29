----------------------------- MODULE MCLifecycle -----------------------------
(***************************************************************************)
(* Constants of the Lifecycle run.                                          *)
(***************************************************************************)
EXTENDS LifecycleProps

CONSTANTS u1, u2, u3
=============================================================================
