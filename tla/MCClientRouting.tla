---------------------------- MODULE MCClientRouting ----------------------------
(***************************************************************************)
(* ClientRouting for TLC: connections to two providers and attachments     *)
(* enough for one of them to be detached and attached again, which is how  *)
(* a new incarnation replaces it.  The realms are sets of providers.       *)
(***************************************************************************)
EXTENDS ClientRouting

MCConnections == {"a", "b"}
MCProviders == {"A", "B"}
MCProviderOf == [connection \in MCConnections |-> IF connection = "b" THEN "B" ELSE "A"]
MCDirectives == {<<{"A", "B"}>>, <<{"A"}, {"B"}>>}

(* One operation is made, a call or a broadcast.  They share no state but  *)
(* what both only read.                                                    *)
OneOperation ==
  (\E c \in Calls : call[c].phase # "idle") => (\A b \in Casts : cast[b].phase = "idle")

MCNext == Next /\ OneOperation'
MCSpec == Init /\ [][MCNext]_vars /\ WF_vars(Continuation)
===============================================================================
