----------------------------- MODULE MCActivation -----------------------------
(***************************************************************************)
(* Activation for TLC.  Two calls let one settle while the other runs when *)
(* the stop comes; three cleanups show order, and a failure between two    *)
(* successes.  No symmetry: the run checks liveness.                       *)
(***************************************************************************)
EXTENDS Activation
===============================================================================
