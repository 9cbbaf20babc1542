---------------------------- MODULE MCLocalProvider ----------------------------
(***************************************************************************)
(* LocalProvider for TLC: two listeners, one of whose calls is nested in a *)
(* notification of the other, and a call that meets two generations.       *)
(***************************************************************************)
EXTENDS LocalProvider, TLC

AnyListener == Permutations(Listeners)
===============================================================================
