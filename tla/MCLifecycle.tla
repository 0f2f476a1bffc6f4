---------------------------- MODULE MCLifecycle ----------------------------
(***************************************************************************)
(* A small instance of Lifecycle: every loop enabled.                      *)
(***************************************************************************)
EXTENDS Lifecycle

AllLoops == Loops
=============================================================================
