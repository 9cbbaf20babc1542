------------------------------ MODULE MCAdmission ------------------------------
(***************************************************************************)
(* Admission for TLC.  x offers p; x2 replaces what it can with p that     *)
(* requires q, and z2, which offers q, does so too: both may be given the  *)
(* same handle.  z is a service that wants p as well, with a plugin that   *)
(* offers q requiring p: that and x2 each fit without the other, and       *)
(* together they are a cycle.                                              *)
(***************************************************************************)
EXTENDS Admission

MCKey == {"p", "q", "a", "X", "Y", "Z"}
Offers(kind, key, service, needs, actions) ==
  [kind |-> kind, installation |-> key, services |-> {service},
   requires |-> [k \in MCKey |-> needs], actions |-> actions]
Service(key, service, needs) == Offers("service", key, service, needs, {})
Plugin(key, service, needs, actions) == Offers("plugin", key, service, needs, actions)

MCRequests == {"x", "x2", "z", "z2"}
MCReplaces == {"x2", "z2"}
MCComposition ==
  [x |-> <<Service("X", "p", {})>>,
   x2 |-> <<Service("X", "p", {"q"})>>,
   z |-> <<Service("Z", "p", {}), Plugin("Y", "q", {"p"}, {"a"})>>,
   z2 |-> <<Service("Z", "q", {})>>]
===============================================================================
