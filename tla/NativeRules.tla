------------------------------- MODULE NativeRules -------------------------------
(***************************************************************************)
(* Header rules of the browser that contributions own:                     *)
(* examples/webext/src/header-contribution.ts.  Redirects and the packaged *)
(* script follow the same protocol.                                        *)
(*                                                                         *)
(* Two contributions are controlled from a page, one native rule each; two *)
(* fixtures ask the browser for what it must refuse, and are disposed at   *)
(* once.  The browser makes an update at some moment before it answers,    *)
(* all of it or, when it refuses it, none.  Every installation here has    *)
(* one contribution; `waiting` is left out, the next refresh starts it.    *)
(* Each action is one synchronous segment.                                 *)
(***************************************************************************)
EXTENDS Naturals, FiniteSets

VARIABLES
  rules,        \* the ids of the session rules of the browser
  orphaned,     \* the ids that a worker left behind that was terminated
  owned         \* the contributions

ruleVars == <<rules, orphaned, owned>>

Controlled == {"lower", "higher"}
Fixture == {"duplicate", "invalid"}
RuleId(n) == CASE n = "lower" -> 1101 [] n \in {"higher", "duplicate"} -> 1102 [] OTHER -> 0

(* given: install() has returned the handle.  phase: where the setup or    *)
(* the cleanup is; `none` before the browser made the update.              *)
Contributed == [
  status : {"gone", "starting", "active", "failed", "disabled", "stopping", "cleanup-blocked"},
  phase : {"none", "added", "refused", "done", "cleaning", "removed", "stuck"},
  enabled : BOOLEAN, disposing : BOOLEAN, failed : BOOLEAN, given : BOOLEAN]

Gone == [status |-> "gone", phase |-> "none", enabled |-> FALSE, disposing |-> FALSE,
         failed |-> FALSE, given |-> FALSE]

RulesInit == rules = {} /\ orphaned = {} /\ owned = [n \in Controlled \cup Fixture |-> Gone]

Own(n, contribution) == owned' = [owned EXCEPT ![n] = contribution]

-------------------------------------------------------------------------------
(* The controls.  An id that is not released is refused by the control or  *)
(* by the admission, without effect.                                       *)

Install(n) ==
  /\ owned[n].status = "gone"
  /\ Own(n, [Gone EXCEPT !.status = "starting", !.enabled = TRUE])
  /\ UNCHANGED rules

Returned(n) ==
  /\ ~owned[n].given /\ owned[n].status \notin {"gone", "starting", "stopping"}
  /\ Own(n, [owned[n] EXCEPT !.given = TRUE])
  /\ UNCHANGED rules

Live(n) == owned[n].given /\ ~owned[n].disposing /\ owned[n].status # "gone"

(* settleStoppedStatus, with the release of what is disposed and the next  *)
(* start of what is enabled.                                               *)
Stopped(contribution) ==
  IF contribution.disposing THEN Gone
  ELSE [contribution EXCEPT !.phase = "none",
          !.status = IF ~contribution.enabled THEN "disabled"
                     ELSE IF contribution.failed THEN "failed" ELSE "starting"]

(* stop() of the provider's reconciliation. *)
Stop(contribution) ==
  CASE contribution.status = "starting" -> [contribution EXCEPT !.status = "stopping"]
    [] contribution.status = "active" -> [contribution EXCEPT !.status = "stopping", !.phase = "cleaning"]
    [] contribution.status \in {"failed", "disabled"} -> Stopped(contribution)
    [] OTHER -> contribution

Control(n) ==
  /\ Live(n)
  /\ \/ /\ n \in Controlled
        /\ \/ Own(n, Stop([owned[n] EXCEPT !.enabled = FALSE]))
           \/ Own(n, IF owned[n].status = "disabled" THEN Stopped([owned[n] EXCEPT !.enabled = TRUE])
                     ELSE [owned[n] EXCEPT !.enabled = TRUE])
     \/ Own(n, Stop([owned[n] EXCEPT !.enabled = FALSE, !.disposing = TRUE]))
  /\ UNCHANGED rules

-------------------------------------------------------------------------------
(* setup() and the cleanup it registers. *)

Added(n) ==
  /\ owned[n].phase = "none" /\ owned[n].status \in {"starting", "stopping"}
  /\ IF RuleId(n) \in rules \/ n = "invalid"
     THEN Own(n, [owned[n] EXCEPT !.phase = "refused"]) /\ UNCHANGED rules
     ELSE Own(n, [owned[n] EXCEPT !.phase = "added"]) /\ rules' = rules \cup {RuleId(n)}

(* Mutation: the cleanup is registered before the update. *)
RegisteredFirst(n) == TRUE
Registered(n) == owned[n].phase = "added"

(* The answer: a setup that failed, or that was stopped, is cleaned up.    *)
SetupEnds(n) ==
  /\ owned[n].phase \in {"added", "refused"}
  /\ LET active == owned[n].phase = "added" /\ owned[n].status = "starting"
     IN Own(n, IF active THEN [owned[n] EXCEPT !.status = "active", !.phase = "done"]
               ELSE [owned[n] EXCEPT !.phase = IF Registered(n) THEN "cleaning" ELSE "removed"])
  /\ UNCHANGED rules

(* The browser may fail to remove, and has then removed nothing. *)
RuleRemoved(n) ==
  /\ owned[n].phase = "cleaning"
  /\ \/ Own(n, [owned[n] EXCEPT !.phase = "removed"]) /\ rules' = rules \ {RuleId(n)}
     \/ Own(n, [owned[n] EXCEPT !.phase = "stuck"]) /\ UNCHANGED rules

(* completeStart after a failure, and completeStop: also one that came     *)
(* before the setup was called.                                            *)
ContributionEnds(n) ==
  /\ \/ owned[n].phase \in {"removed", "stuck"} /\ owned[n].status \in {"starting", "stopping"}
     \/ owned[n].phase = "none" /\ owned[n].status = "stopping"
  /\ LET failing == [owned[n] EXCEPT !.failed = @ \/ owned[n].status = "starting"]
     IN Own(n, IF owned[n].phase = "stuck" THEN [failing EXCEPT !.status = "cleanup-blocked"]
               ELSE Stopped(failing))
  /\ UNCHANGED rules

(* "A worker termination cannot be treated as proof that JavaScript        *)
(* cleanup callbacks ran": session rules outlive the worker, which starts  *)
(* again with nothing installed.                                           *)
Terminated ==
  /\ owned' = [n \in DOMAIN owned |-> Gone]
  /\ orphaned' = rules
  /\ UNCHANGED rules

RulesNext ==
  \/ /\ \E n \in DOMAIN owned :
          \/ Install(n) \/ Returned(n) \/ Control(n)
          \/ Added(n) \/ SetupEnds(n) \/ RuleRemoved(n) \/ ContributionEnds(n)
     /\ UNCHANGED orphaned
  \/ Terminated

RulesSpec == RulesInit /\ [][RulesNext]_ruleVars

-------------------------------------------------------------------------------
(* Properties. *)

Holds(n) == owned[n].phase \in {"added", "done", "cleaning", "stuck"}

(* "Native validation must reject the entire update, including its         *)
(* requested removal": a rule of the browser that no terminated worker     *)
(* left belongs to exactly one contribution, whatever was refused, and     *)
(* however controls, setups and cleanups interleave; an active             *)
(* contribution has its rule, and one that was released left none behind.  *)
RulesOwned ==
  /\ owned \in [Controlled \cup Fixture -> Contributed]
  /\ rules \ orphaned = {RuleId(n) : n \in {o \in DOMAIN owned : Holds(o)}}
  /\ \A n, o \in DOMAIN owned : n # o /\ Holds(n) /\ Holds(o) => RuleId(n) # RuleId(o)
  /\ \A n \in DOMAIN owned : owned[n].status = "active" => owned[n].phase = "done"
===============================================================================
