------------------------------- MODULE Invocation -------------------------------
(***************************************************************************)
(* Local calls of a provider: packages/runtime/src/invocation.ts,          *)
(* validation.ts and provider-bindings.ts, over the statuses that          *)
(* ProviderLifecycle gives a service and an action that requires it.       *)
(*                                                                         *)
(* A call goes through a binding or invokeAction() to Activation's run(),  *)
(* whose work is invokeLocalOperation().  Values and schemas are left out: *)
(* a validation passes, or has issues or throws, which comes to the same.  *)
(* Each action is one synchronous segment.                                 *)
(***************************************************************************)
EXTENDS Naturals

CONSTANTS
  Calls,            \* calls, each made once
  MaxGeneration     \* bound on the generations of a contribution

ASSUME InvocationAssumption == MaxGeneration \in Nat

Contribution == {"service", "action"}      \* the action requires the service

VARIABLES
  status,        \* idle needs a handle call to start again, gone is released
  generation,    \* of a contribution's last activation
  call

invocationVars == <<status, generation, call>>

Status == {"idle", "waiting", "starting", "active", "stopping", "blocked", "gone"}
Phase == {"idle", "queued", "validating", "handling", "checking", "returning", "settled"}
Outcome == {"none", "value", "unavailable-capability", "invalid-input", "operation-failed",
            "own-error", "invalid-return", "cancelled", "abort-reason"}

(* gaveUp: the phase in which the caller aborted.  used: the generation of *)
(* the service an action's handler was given.  ran, threw: history.        *)
Unmade == [phase |-> "idle", target |-> "service", generation |-> 0, gaveUp |-> "idle",
           used |-> 0, ran |-> FALSE, threw |-> FALSE, outcome |-> "none"]

InvocationTypeOK ==
  /\ status \in [Contribution -> Status]
  /\ generation \in [Contribution -> 0 .. MaxGeneration]
  /\ call \in [Calls -> [phase : Phase, target : Contribution, generation : 0 .. MaxGeneration,
                         gaveUp : Phase, used : 0 .. MaxGeneration, ran : BOOLEAN,
                         threw : BOOLEAN, outcome : Outcome]]
  /\ \A k \in Calls :
       call[k].phase = "settled" => call[k].outcome \notin {"none", "abort-reason"}

InvocationInit ==
  /\ status = [c \in Contribution |-> "waiting"]
  /\ generation = [c \in Contribution |-> 0]
  /\ call = [k \in Calls |-> Unmade]

Unsettled(k) == call[k].phase \notin {"idle", "settled"}

-------------------------------------------------------------------------------
(* The lifecycle, as ProviderLifecycle establishes it. *)

Requires(c) == {d \in Contribution : c = "action" /\ d = "service"}
Dependents(c) == {d \in Contribution : c \in Requires(d)}

Starts(c) ==
  /\ status[c] = "waiting"
  /\ \A d \in Requires(c) : status[d] = "active"
  /\ generation[c] < MaxGeneration
  /\ status' = [status EXCEPT ![c] = "starting"]
  /\ generation' = [generation EXCEPT ![c] = @ + 1]
  /\ UNCHANGED call

StartEnds(c) ==
  /\ status[c] = "starting"
  /\ status' \in {[status EXCEPT ![c] = s] : s \in {"active", "idle"}}
  /\ UNCHANGED <<generation, call>>

(* stop(): the status, and then the abort.  The stops of the dependents    *)
(* begin in a microtask after it.                                          *)
Stops(c) ==
  /\ status[c] \in {"starting", "active"}
  /\ status' = [status EXCEPT ![c] = "stopping"]
  /\ UNCHANGED <<generation, call>>

Quiet(c) == \A k \in Calls : Unsettled(k) => call[k].target # c

(* Mutation: nobody waits for the dependents. *)
ReleasedAlone(c) == Quiet(c)

(* The activation's stop() waits for the setup and for dispatched work,    *)
(* and is not called before those of the dependents have ended.            *)
Released(c) ==
  /\ Quiet(c)
  /\ \A d \in Dependents(c) : status[d] \notin {"starting", "active", "stopping"}

(* A failed cleanup, or one of a dependent's, blocks. *)
StopEnds(c, s) ==
  /\ status[c] = "stopping"
  /\ Released(c)
  /\ (\E d \in Dependents(c) : status[d] = "blocked") => s = "blocked"
  /\ status' = [status EXCEPT ![c] = s]
  /\ UNCHANGED <<generation, call>>

-------------------------------------------------------------------------------
(* The call. *)

(* The activation's signal: aborted by stop(), and never reset.            *)
Fenced(k) ==
  status[call[k].target] # "active" \/ generation[call[k].target] # call[k].generation

(* AbortSignal.any of the activation's and the caller's.                   *)
Cancelled(k) == Fenced(k) \/ call[k].gaveUp # "idle"

Settle(k, outcome) ==
  call' = [call EXCEPT ![k] = [Unmade EXCEPT !.phase = "settled", !.outcome = outcome]]
Advance(k, phase) == call' = [call EXCEPT ![k].phase = phase]
Finish(k, outcome) == call' = [call EXCEPT ![k].phase = "returning", ![k].outcome = outcome]
FinishUncancelled(k, outcome) == Finish(k, IF Cancelled(k) THEN "cancelled" ELSE outcome)

(* invokeOwned: a retained binding follows the contribution, not the       *)
(* generation it was resolved in.                                          *)
Invoke(k, c) ==
  /\ call[k].phase = "idle"
  /\ IF status[c] = "active"
     THEN call' = [call EXCEPT ![k].phase = "queued", ![k].target = c,
                               ![k].generation = generation[c]]
     ELSE Settle(k, "unavailable-capability")
  /\ UNCHANGED <<status, generation>>

(* Activation.run's segment, and invokeLocalOperation up to the validation.*)
BeginWork(k) ==
  /\ call[k].phase = "queued"
  /\ IF Fenced(k) THEN Finish(k, "abort-reason")
     ELSE IF Cancelled(k) THEN Finish(k, "cancelled")
     ELSE Advance(k, "validating")
  /\ UNCHANGED <<status, generation>>

InvalidInput(k) ==
  /\ call[k].phase = "validating"
  /\ Finish(k, "invalid-input")
  /\ UNCHANGED <<status, generation>>

(* The services of an action are resolved when its handler is called; one  *)
(* that is stopping already is unavailable, which is the call's outcome.   *)
Bindable(k) == \A d \in Requires(call[k].target) : status[d] = "active"

Handle(k) ==
  call' = [call EXCEPT ![k].phase = "handling", ![k].ran = TRUE,
                       ![k].used = IF Requires(call[k].target) = {} THEN 0 ELSE generation["service"]]

ValidInput(k) ==
  /\ call[k].phase = "validating"
  /\ IF Cancelled(k) THEN Finish(k, "cancelled")
     ELSE IF Bindable(k) THEN Handle(k)
     ELSE Finish(k, "unavailable-capability")
  /\ UNCHANGED <<status, generation>>

HandlerReturns(k) ==
  /\ call[k].phase = "handling"
  /\ IF Cancelled(k) THEN Finish(k, "cancelled") ELSE Advance(k, "checking")
  /\ UNCHANGED <<status, generation>>

(* Mutation: what the handler threw wins over the cancellation. *)
BlameHandler(k, outcome) == outcome
BlameCaller(k, outcome) == IF Cancelled(k) THEN "cancelled" ELSE outcome

(* An error of the operation's own is passed on, any other is wrapped.     *)
HandlerThrows(k) ==
  /\ call[k].phase = "handling"
  /\ \E outcome \in {"own-error", "operation-failed"} :
       call' = [call EXCEPT ![k].phase = "returning", ![k].threw = TRUE,
                            ![k].outcome = BlameCaller(k, outcome)]
  /\ UNCHANGED <<status, generation>>

OutputChecked(k) ==
  /\ call[k].phase = "checking"
  /\ Finish(k, "invalid-return") \/ FinishUncancelled(k, "value")
  /\ UNCHANGED <<status, generation>>

(* completeWork: whatever the work came to, the fence decides; invokeOwned *)
(* turns the reason of the abort into an error by the status of now.       *)
Fence(k) ==
  IF Fenced(k) THEN IF status[call[k].target] = "active" THEN "operation-failed" ELSE "cancelled"
  ELSE call[k].outcome

Return(k) ==
  /\ call[k].phase = "returning"
  /\ Settle(k, Fence(k))
  /\ UNCHANGED <<status, generation>>

GiveUp(k) ==
  /\ Unsettled(k)
  /\ call[k].gaveUp = "idle"
  /\ call' = [call EXCEPT ![k].gaveUp = call[k].phase]
  /\ UNCHANGED <<status, generation>>

Proceed(k) ==
  \/ BeginWork(k)
  \/ InvalidInput(k) \/ ValidInput(k)
  \/ HandlerReturns(k) \/ HandlerThrows(k)
  \/ OutputChecked(k)
  \/ Return(k)

-------------------------------------------------------------------------------
(* Properties. *)

(* An action's handler holds its service until it returns: the generation  *)
(* it was given is not released, nor followed by another, in the meantime, *)
(* although the two are stopped by different promises.                     *)
ServiceOutlivesUse ==
  \A k \in Calls : call[k].phase = "handling" /\ call[k].used # 0 =>
    /\ generation["service"] = call[k].used
    /\ status["service"] \in {"active", "stopping"}

(* Who is blamed.  A call that ends after its generation was fenced is     *)
(* `cancelled`, whatever it came to; one whose caller gave up is, too,     *)
(* unless the validation it had begun failed or it was already over.       *)
(* Nobody else is.  An input or a dependency at fault means that the       *)
(* handler was never called, a handler at fault that it threw.             *)
Excuses(phase) ==
  CASE phase = "validating" -> {"cancelled", "invalid-input"}
    [] phase = "checking" -> {"cancelled", "invalid-return"}
    [] OTHER -> {"cancelled"}

Blamed(k) == \* of a call that settles, in the state it settles from
  LET outcome == call'[k].outcome
  IN /\ call[k].phase # "idle" /\ Fenced(k) => outcome = "cancelled"
     /\ call[k].gaveUp \in {"queued", "validating", "handling", "checking"} =>
          outcome \in Excuses(call[k].gaveUp)
     /\ outcome = "cancelled" => Cancelled(k)
     /\ outcome \in {"invalid-input", "unavailable-capability"} => ~call[k].ran
     /\ outcome \in {"operation-failed", "own-error"} <=>
          call[k].threw /\ outcome # "cancelled"
     /\ outcome = "value" => call[k].ran /\ ~call[k].threw

BlameIsRight ==
  [][\A k \in Calls :
       call[k].phase # "settled" /\ call'[k].phase = "settled" => Blamed(k)]_invocationVars
===============================================================================
