------------------------------ MODULE Generation ------------------------------
(***************************************************************************)
(* What one activation generation promises its owner, with none of the     *)
(* promises, microtasks or status codes of the implementation:             *)
(*                                                                         *)
(*   - user callbacks (setup and dispatched work) begin only while the     *)
(*     generation is open;                                                 *)
(*   - closing is final, and teardown starts only once nothing runs;       *)
(*   - what was acquired is released in reverse order, each thing once,    *)
(*     and a failed release does not stop the others;                      *)
(*   - a generation ends "released", or "retained" if a release failed.    *)
(*                                                                         *)
(* packages/runtime/src/activation.ts states it in one line: "One          *)
(* generation owns setup, dispatched work, and exactly one terminal        *)
(* cleanup attempt."  Activation.tla is shown to implement this module.    *)
(***************************************************************************)
EXTENDS Naturals, Sequences

CONSTANTS Task,      \* user callbacks: the setup and every piece of work
          Cleanup    \* things that can be acquired

VARIABLES phase,     \* open -> closing -> draining -> released | retained
          running,   \* callbacks that are executing
          held,      \* acquired and not yet released, oldest first
          faulted    \* some release has failed

vars == <<phase, running, held, faulted>>

Init ==
  /\ phase = "open"
  /\ running = {}
  /\ held = <<>>
  /\ faulted = FALSE

Begin(t) ==
  /\ phase = "open"
  /\ t \notin running
  /\ running' = running \cup {t}
  /\ UNCHANGED <<phase, held, faulted>>

End(t) ==
  /\ t \in running
  /\ running' = running \ {t}
  /\ UNCHANGED <<phase, held, faulted>>

Acquire(c) ==
  /\ phase \in {"open", "closing"}
  /\ held' = Append(held, c)
  /\ UNCHANGED <<phase, running, faulted>>

Close ==
  /\ phase = "open"
  /\ phase' = "closing"
  /\ UNCHANGED <<running, held, faulted>>

Drain ==
  /\ phase = "closing"
  /\ running = {}
  /\ phase' = "draining"
  /\ UNCHANGED <<running, held, faulted>>

Release ==
  /\ phase = "draining"
  /\ held # <<>>
  /\ held' = SubSeq(held, 1, Len(held) - 1)
  /\ faulted' \in {faulted, TRUE}
  /\ UNCHANGED <<phase, running>>

Finish ==
  /\ phase = "draining"
  /\ held = <<>>
  /\ phase' = IF faulted THEN "retained" ELSE "released"
  /\ UNCHANGED <<running, held, faulted>>

Next ==
  \/ \E t \in Task : Begin(t) \/ End(t)
  \/ \E c \in Cleanup : Acquire(c)
  \/ Close
  \/ Drain
  \/ Release
  \/ Finish

Spec == Init /\ [][Next]_vars
===============================================================================
