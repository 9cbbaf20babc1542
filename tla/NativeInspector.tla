----------------------------- MODULE NativeInspector -----------------------------
(***************************************************************************)
(* The marker script of the response inspector: marker(), reset() and the  *)
(* cleanup of examples/webext/src/inspector.ts.                            *)
(*                                                                         *)
(* The browser handles the updates of its scripts in the order in which    *)
(* they were asked for, and answers in that order; it may fail any of      *)
(* them.  The state shared with the pages outlives the generations of the  *)
(* service, of which one follows the other as Activation establishes.      *)
(* Reading, configuring and the filter of responses are left out.  Each    *)
(* action is one task with its microtasks.                                 *)
(***************************************************************************)
EXTENDS Naturals, Sequences

CONSTANT InspectorCalls

VARIABLES
  script,        \* the browser has the marker script
  orphan,        \* it is one that a terminated worker left behind
  asked,         \* updates of the scripts, asked for and not answered
  service,       \* the generation of the service
  registered,    \* what it believes of the script
  marker,        \* what the shared state says of it
  inspection     \* the calls, each made again and again

inspectorVars == <<script, orphan, asked, service, registered, marker, inspection>>

InspectorInit ==
  /\ script = FALSE /\ orphan = FALSE /\ registered = FALSE /\ marker = FALSE
  /\ asked = <<>> /\ service = "none"
  /\ inspection = [c \in InspectorCalls |-> "idle"]

Cleanup == "cleanup"                   \* who asks, if not a call

ASSUME InspectorAssumption == Cleanup \notin InspectorCalls

InspectorTypeOK ==
  /\ {script, orphan, registered, marker} \subseteq BOOLEAN
  /\ \A i \in DOMAIN asked :
       asked[i] \in [by : InspectorCalls \cup {Cleanup}, update : {"register", "unregister"},
                     result : {"none", "ok", "refused"}]
  /\ service \in {"none", "active", "stopping", "cleaning", "cleanup-blocked"}
  /\ inspection \in [InspectorCalls -> {"idle", "selecting", "updating"}]

Ask(by, update) == asked' = Append(asked, [by |-> by, update |-> update, result |-> "none"])
Phase(c, phase) == inspection' = [inspection EXCEPT ![c] = phase]

-------------------------------------------------------------------------------
(* The calls. *)

Marker(c) ==
  /\ service = "active" /\ inspection[c] = "idle"
  /\ Phase(c, "selecting")
  /\ UNCHANGED <<script, orphan, asked, service, registered, marker>>

(* The fixture's tab was found, or not; then the script is registered if   *)
(* it is not.                                                              *)
Selected(c) ==
  /\ inspection[c] = "selecting"
  /\ \/ Phase(c, "idle") /\ UNCHANGED <<asked, marker>>
     \/ /\ service = "active"
        /\ IF registered
           THEN marker' = TRUE /\ Phase(c, "idle") /\ UNCHANGED asked
           ELSE Ask(c, "register") /\ Phase(c, "updating") /\ UNCHANGED marker
  /\ UNCHANGED <<script, orphan, service, registered>>

Reset(c) ==
  /\ service = "active" /\ inspection[c] = "idle"
  /\ IF registered
     THEN Ask(c, "unregister") /\ Phase(c, "updating") /\ UNCHANGED marker
     ELSE marker' = FALSE /\ UNCHANGED <<asked, inspection>>
  /\ UNCHANGED <<script, orphan, service, registered>>

-------------------------------------------------------------------------------
(* The browser: an id is registered once, and unregistered only if it is.  *)

Update(i) ==
  /\ asked[i].result = "none"
  /\ \A j \in 1 .. i - 1 : asked[j].result # "none"
  /\ LET register == asked[i].update = "register"
     IN \/ /\ script # register
           /\ script' = register
           /\ asked' = [asked EXCEPT ![i].result = "ok"]
        \/ asked' = [asked EXCEPT ![i].result = "refused"] /\ UNCHANGED script
  /\ UNCHANGED <<orphan, service, registered, marker, inspection>>

(* Mutation: a cancelled call drops the answer it waited for. *)
RecordsUnlessStopping(answer) == answer.result = "ok" /\ (answer.by = Cleanup \/ service = "active")
Records(answer) == answer.result = "ok"

(* What follows the await of an update.  The abort is not looked at before *)
(* the result is recorded.                                                 *)
Answer ==
  /\ asked # <<>> /\ Head(asked).result # "none"
  /\ asked' = Tail(asked)
  /\ IF Records(Head(asked))
     THEN /\ registered' = (Head(asked).update = "register")
          /\ marker' = (Head(asked).update = "register")
     ELSE UNCHANGED <<registered, marker>>
  /\ IF Head(asked).by = Cleanup
     THEN /\ service' = IF Head(asked).result = "ok" THEN "none" ELSE "cleanup-blocked"
          /\ UNCHANGED inspection
     ELSE Phase(Head(asked).by, "idle") /\ UNCHANGED service
  /\ UNCHANGED <<script, orphan>>

-------------------------------------------------------------------------------
(* The service's generations, and the end of the worker. *)

ServiceStarts ==
  /\ service = "none"
  /\ service' = "active"
  /\ registered' = FALSE
  /\ UNCHANGED <<script, orphan, asked, marker, inspection>>

ServiceStops ==
  /\ service = "active"
  /\ service' = "stopping"
  /\ UNCHANGED <<script, orphan, asked, registered, marker, inspection>>

(* The cleanup runs when the dispatched calls have ended. *)
CleansUp ==
  /\ service = "stopping"
  /\ \A c \in InspectorCalls : inspection[c] = "idle"
  /\ IF registered
     THEN service' = "cleaning" /\ Ask(Cleanup, "unregister")
     ELSE service' = "none" /\ UNCHANGED asked
  /\ UNCHANGED <<script, orphan, registered, marker, inspection>>

(* The script outlives the worker; its shared state does not. *)
WorkerEnds ==
  /\ asked' = <<>> /\ service' = "none" /\ registered' = FALSE /\ marker' = FALSE
  /\ inspection' = [c \in InspectorCalls |-> "idle"]
  /\ orphan' = script
  /\ UNCHANGED script

InspectorNext ==
  \/ \E c \in InspectorCalls : Marker(c) \/ Selected(c) \/ Reset(c)
  \/ \E i \in DOMAIN asked : Update(i)
  \/ Answer \/ ServiceStarts \/ ServiceStops \/ CleansUp \/ WorkerEnds

InspectorSpec == InspectorInit /\ [][InspectorNext]_inspectorVars

-------------------------------------------------------------------------------
(* Properties. *)

(* When nothing is under way, what the service believes and what the pages *)
(* are shown is what the browser has, however calls overlapped and         *)
(* whichever updates it refused; so a service whose cleanup succeeded left *)
(* no script of its own behind.                                            *)
MarkerIsTrue ==
  /\ InspectorTypeOK
  /\ asked = <<>> => registered = (script /\ ~orphan) /\ marker = registered
===============================================================================
