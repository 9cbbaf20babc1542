-------------------------------- MODULE Registry --------------------------------
(***************************************************************************)
(* What the admission of a provider promises of the keys its installations *)
(* ask for, with none of its queues, batches and validators:               *)
(*                                                                         *)
(*   - what is admitted is new, finds all its keys free and gets them all  *)
(*     in one step, while the provider is open;                            *)
(*   - it keeps them all until it is released, and loses them in one step; *)
(*   - only what is released is replaced, once, in the step that admits    *)
(*     what replaces it.                                                   *)
(*                                                                         *)
(* Admission is shown to implement this module.                            *)
(***************************************************************************)
CONSTANTS Key, Nobody,
          Asks(_)     \* the keys that an installation asks for

VARIABLES owner,      \* of each key
          holding,    \* the installations admitted and not released
          released,
          succession, \* pairs of one released and what has replaced it
          open

vars == <<owner, holding, released, succession, open>>

Init ==
  /\ owner = [k \in Key |-> Nobody]
  /\ holding = {} /\ released = {} /\ succession = {}
  /\ open = TRUE

(* Those admitted in this step get what they ask for. *)
Admit ==
  LET new == holding' \ holding
  IN /\ open
     /\ holding \subseteq holding' /\ new \cap released = {}
     /\ \A h \in new : \A k \in Asks(h) : owner[k] = Nobody /\ owner'[k] = h
     /\ DOMAIN owner' = Key
     /\ \A k \in Key : owner'[k] # owner[k] => \E h \in new : k \in Asks(h)
     /\ UNCHANGED <<released, open>>

Start == Admit /\ UNCHANGED succession

Replace(h) ==
  /\ h \in released
  /\ \A pair \in succession : pair[1] # h
  /\ succession' = succession \cup {<<h, holding' \ holding>>}
  /\ Admit

Release(h) ==
  /\ h \in holding
  /\ holding' = holding \ {h}
  /\ released' = released \cup {h}
  /\ owner' = [k \in Key |-> IF owner[k] = h THEN Nobody ELSE owner[k]]
  /\ UNCHANGED <<succession, open>>

Close ==
  /\ open
  /\ open' = FALSE
  /\ UNCHANGED <<owner, holding, released, succession>>

Next ==
  \/ Start \/ Close
  \/ \E h \in holding : Release(h)
  \/ \E h \in released : Replace(h)

Spec == Init /\ [][Next]_vars
===============================================================================
