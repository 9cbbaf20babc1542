---------------------------- MODULE MCRemoteCatalog ----------------------------
(***************************************************************************)
(* RemoteCatalog for TLC: two incarnations on one native context, enough   *)
(* for a call made to the first to arrive at the second; changes enough to *)
(* invalidate a read more than once; one failed query.                     *)
(***************************************************************************)
EXTENDS RemoteCatalog
===============================================================================
