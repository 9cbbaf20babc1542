------------------------------ MODULE Activation ------------------------------
(***************************************************************************)
(* One activation generation of the provider runtime                       *)
(* (packages/runtime/src/activation.ts and scope.ts): its setup, the work  *)
(* dispatched through run(), cancellation, and the one terminal cleanup.   *)
(*                                                                         *)
(* JavaScript runs one synchronous segment at a time, so an action is a    *)
(* segment: a public call up to its return, or a continuation from one     *)
(* await to the next.  Queued segments run in any order here; the          *)
(* microtask queue's order is one of them.  Setup, work and cleanups are   *)
(* user code that takes any time, and resolves or rejects.  An abort       *)
(* listener that calls back runs inside a cancel; at that point the status *)
(* has left "active" and the stop is already published, so its effect is   *)
(* that of the same call made right after.                                 *)
(***************************************************************************)
EXTENDS Naturals, Sequences, SequencesExt

CONSTANTS Work,      \* dispatched calls; each is run at most once (a bound)
          Cleanup,   \* onDispose callbacks; each registered at most once (a bound)
          Setup      \* the setup callback

ASSUME SetupAssumption == Setup \notin Work

Task == Work \cup {Setup}

VARIABLES
  status,                 \* ActivationController.status
  aborted,                \* the scope's AbortSignal
  cancellationRequested,
  failedSetup,
  task,                   \* setupPromise and the work promises
  starter,                \* where completeSetup is, then what start() settled with
  pendingWork,
  outcome,                \* what run() settled with for its caller
  stop,                   \* stopPromise: where completeStop is
  awaited,                \* promises completeStop collected
  cleanups,               \* the scope's stack, last registered on top
  disposal,               \* the scope's disposalPromise
  failures,               \* cleanups that rejected
  registered,             \* history: every accepted registration, in order
  attempted               \* history: every cleanup called, in order

userVars == <<task, starter, pendingWork, outcome>>
controlVars == <<status, aborted, cancellationRequested, failedSetup, stop, awaited>>
scopeVars == <<cleanups, disposal, failures, registered, attempted>>
vars == <<userVars, controlVars, scopeVars>>

Settled(t) == task[t] \in {"resolved", "rejected"}

TypeOK ==
  /\ status \in {"idle", "starting", "active", "stopping", "stopped", "failed", "cleanup-blocked"}
  /\ aborted \in BOOLEAN
  /\ cancellationRequested \in BOOLEAN
  /\ failedSetup \in BOOLEAN
  /\ task \in [Task -> {"none", "queued", "running", "resolved", "rejected"}]
  /\ starter \in {"none", "awaitSetup", "awaitStop", "value", "error"}
  /\ pendingWork \in SUBSET Work
  /\ outcome \in [Work -> {"none", "value", "error"}]
  /\ stop \in {"none", "queued", "settling", "disposing", "resolved", "rejected"}
  /\ awaited \in SUBSET Task
  /\ cleanups \in Seq(Cleanup)
  /\ disposal \in {"none", "queued", "cleaning", "resolved", "rejected"}
  /\ failures \in SUBSET Cleanup
  /\ registered \in Seq(Cleanup)
  /\ attempted \in Seq(Cleanup)

Init ==
  /\ status = "idle"
  /\ aborted = FALSE
  /\ cancellationRequested = FALSE
  /\ failedSetup = FALSE
  /\ task = [t \in Task |-> "none"]
  /\ starter = "none"
  /\ pendingWork = {}
  /\ outcome = [w \in Work |-> "none"]
  /\ stop = "none"
  /\ awaited = {}
  /\ cleanups = <<>>
  /\ disposal = "none"
  /\ failures = {}
  /\ registered = <<>>
  /\ attempted = <<>>

-------------------------------------------------------------------------------
(* The public calls. *)

(* start(): accepted once; a later call only rejects its own promise. *)
Start ==
  /\ status = "idle"
  /\ status' = "starting"
  /\ task' = [task EXCEPT ![Setup] = "queued"]
  /\ starter' = "awaitSetup"
  /\ UNCHANGED <<aborted, cancellationRequested, failedSetup, stop, awaited,
                 pendingWork, outcome, scopeVars>>

(* run(): activeValue is defined exactly while the status is "active" or a *)
(* stop is under way, so the status decides.                               *)
Accepting == status = "active"

RunAccepted(w) ==
  /\ task[w] = "none" /\ outcome[w] = "none"
  /\ Accepting
  /\ task' = [task EXCEPT ![w] = "queued"]
  /\ pendingWork' = pendingWork \cup {w}
  /\ UNCHANGED <<starter, outcome, controlVars, scopeVars>>

RunRejected(w) ==
  /\ task[w] = "none" /\ outcome[w] = "none"
  /\ ~Accepting
  /\ outcome' = [outcome EXCEPT ![w] = "error"]
  /\ UNCHANGED <<task, starter, pendingWork, controlVars, scopeVars>>

(* cancel(): fence new work and abort, without starting teardown. *)
Cancel ==
  /\ cancellationRequested' = TRUE
  /\ status' = IF status \in {"idle", "starting", "active"} THEN "stopping" ELSE status
  /\ aborted' = TRUE
  /\ UNCHANGED <<failedSetup, stop, awaited, userVars, scopeVars>>

(* The effect of a stop() call on the controller: the first one cancels    *)
(* and queues completeStop, later ones return the same promise.            *)
StopEffect ==
  IF stop = "none"
  THEN /\ status' = "stopping"
       /\ stop' = "queued"
       /\ cancellationRequested' = TRUE
       /\ aborted' = TRUE
  ELSE UNCHANGED <<status, stop, cancellationRequested, aborted>>

Stop ==
  /\ StopEffect
  /\ UNCHANGED <<failedSetup, awaited, userVars, scopeVars>>

(* scope.onDispose(): the scope exists for user code once setup has begun; *)
(* after disposal starts a registration throws and changes nothing.        *)
RegistrableAlways == TRUE       \* mutation: no fence behind disposalPromise
Registrable == disposal = "none"

OnDispose(c) ==
  /\ task[Setup] \notin {"none", "queued"} /\ c \notin Range(registered)
  /\ Registrable
  /\ cleanups' = Append(cleanups, c)
  /\ registered' = Append(registered, c)
  /\ UNCHANGED <<disposal, failures, attempted, userVars, controlVars>>

-------------------------------------------------------------------------------
(* Setup and work callbacks. *)

(* Mutation: the queued segment forgets the signal. *)
BeginUnchecked(t) ==
  /\ task[t] = "queued"
  /\ task' = [task EXCEPT ![t] = "running"]
  /\ UNCHANGED <<starter, pendingWork, outcome, controlVars, scopeVars>>

(* The queued segment checks the signal, then calls the user's callback. *)
Begin(t) ==
  /\ task[t] = "queued"
  /\ task' = [task EXCEPT ![t] = IF aborted THEN "rejected" ELSE "running"]
  /\ UNCHANGED <<starter, pendingWork, outcome, controlVars, scopeVars>>

Settle(t) ==
  /\ task[t] = "running"
  /\ \E result \in {"resolved", "rejected"} : task' = [task EXCEPT ![t] = result]
  /\ UNCHANGED <<starter, pendingWork, outcome, controlVars, scopeVars>>

(* completeSetup after its await resolved: a value that arrives after the  *)
(* abort is discarded.                                                     *)
SetupResolved ==
  /\ starter = "awaitSetup"
  /\ task[Setup] = "resolved"
  /\ IF aborted
     THEN starter' = "error" /\ UNCHANGED status
     ELSE starter' = "value" /\ status' = "active"
  /\ UNCHANGED <<task, pendingWork, outcome, aborted, cancellationRequested,
                 failedSetup, stop, awaited, scopeVars>>

(* Mutation: a cancel() without a stop() is not looked at. *)
OwnFailureUnlessStopped == stop = "none"
(* A failure is the setup's own only if nobody had cancelled. *)
OwnFailure == ~cancellationRequested /\ stop = "none"

(* completeSetup after its await rejected: the generation stops. *)
SetupRejected ==
  /\ starter = "awaitSetup"
  /\ task[Setup] = "rejected"
  /\ failedSetup' = OwnFailure
  /\ StopEffect
  /\ starter' = "awaitStop"
  /\ UNCHANGED <<task, pendingWork, outcome, awaited, scopeVars>>

StopSettled == stop \in {"resolved", "rejected"}

(* completeSetup after it awaited the stop: it rethrows the setup failure. *)
SetupAwaitedStop == StopSettled
SetupFailureThrown ==
  /\ starter = "awaitStop"
  /\ SetupAwaitedStop
  /\ starter' = "error"
  /\ UNCHANGED <<task, pendingWork, outcome, controlVars, scopeVars>>

(* Mutation: work that settles after the abort is never answered. *)
CompleteWorkUnlessAborted(w) ==
  /\ w \in pendingWork
  /\ Settled(w) /\ ~aborted
  /\ outcome' = [outcome EXCEPT ![w] = IF task[w] = "rejected" THEN "error" ELSE "value"]
  /\ pendingWork' = pendingWork \ {w}
  /\ UNCHANGED <<task, starter, controlVars, scopeVars>>

CompleteWork(w) ==
  /\ w \in pendingWork
  /\ Settled(w)
  /\ outcome' = [outcome EXCEPT ![w] =
                   IF aborted \/ task[w] = "rejected" THEN "error" ELSE "value"]
  /\ pendingWork' = pendingWork \ {w}
  /\ UNCHANGED <<task, starter, controlVars, scopeVars>>

-------------------------------------------------------------------------------
(* completeStop, and the scope's disposal under it. *)

CollectedWork == pendingWork       \* mutation: the setup is not waited for
Collected == pendingWork \cup (IF task[Setup] = "none" THEN {} ELSE {Setup})

BeginStop ==
  /\ stop = "queued"
  /\ awaited' = Collected
  /\ stop' = "settling"
  /\ UNCHANGED <<status, aborted, cancellationRequested, failedSetup, userVars, scopeVars>>

(* Mutation: waiting for start()'s promise, which itself waits for the stop. *)
StarterSettled == starter \in {"none", "value", "error"}
AllSettled == \A t \in awaited : Settled(t)

(* Promise.allSettled is done: dispose() fences registration. *)
BeginDisposal ==
  /\ stop = "settling"
  /\ AllSettled
  /\ stop' = "disposing"
  /\ disposal' = "queued"
  /\ aborted' = TRUE
  /\ UNCHANGED <<status, cancellationRequested, failedSetup, awaited, userVars,
                 cleanups, failures, registered, attempted>>

(* Mutations: cleanups in registration order; the first failure ends the loop. *)
OldestCleanup(failed) ==
  IF cleanups = <<>>
  THEN /\ disposal' = IF failed = {} THEN "resolved" ELSE "rejected"
       /\ UNCHANGED <<cleanups, attempted>>
  ELSE /\ disposal' = "cleaning"
       /\ attempted' = Append(attempted, Head(cleanups))
       /\ cleanups' = Tail(cleanups)

NextCleanupUnlessFailed(failed) ==
  IF cleanups = <<>> \/ failed # {}
  THEN /\ disposal' = IF failed = {} THEN "resolved" ELSE "rejected"
       /\ UNCHANGED <<cleanups, attempted>>
  ELSE /\ disposal' = "cleaning"
       /\ attempted' = Append(attempted, Last(cleanups))
       /\ cleanups' = Front(cleanups)

(* The loop of disposeCleanups: pop the next cleanup and call it, or end   *)
(* with the failures collected so far.                                     *)
NextCleanup(failed) ==
  IF cleanups = <<>>
  THEN /\ disposal' = IF failed = {} THEN "resolved" ELSE "rejected"
       /\ UNCHANGED <<cleanups, attempted>>
  ELSE /\ disposal' = "cleaning"
       /\ attempted' = Append(attempted, Last(cleanups))
       /\ cleanups' = Front(cleanups)

FirstCleanup ==
  /\ disposal = "queued"
  /\ NextCleanup(failures)
  /\ UNCHANGED <<failures, registered, userVars, controlVars>>

CleanupResolved ==
  /\ disposal = "cleaning"
  /\ NextCleanup(failures)
  /\ UNCHANGED <<failures, registered, userVars, controlVars>>

CleanupRejected ==
  /\ disposal = "cleaning"
  /\ failures' = failures \cup {Last(attempted)}
  /\ NextCleanup(failures')
  /\ UNCHANGED <<registered, userVars, controlVars>>

StoppedStatus == IF failedSetup THEN "failed" ELSE "stopped"

FinishStop ==
  /\ stop = "disposing"
  /\ \/ /\ disposal = "rejected"
        /\ status' = "cleanup-blocked"
        /\ stop' = "rejected"
     \/ /\ disposal = "resolved"
        /\ status' = StoppedStatus
        /\ stop' = "resolved"
  /\ UNCHANGED <<aborted, cancellationRequested, failedSetup, awaited, userVars, scopeVars>>

-------------------------------------------------------------------------------
(* Calls come from outside at any time; the rest runs by itself. *)
Call ==
  \/ Start
  \/ \E w \in Work : RunAccepted(w) \/ RunRejected(w)
  \/ Cancel
  \/ Stop
  \/ \E c \in Cleanup : OnDispose(c)

Internal ==
  \/ \E t \in Task : Begin(t) \/ Settle(t)
  \/ SetupResolved
  \/ SetupRejected
  \/ SetupFailureThrown
  \/ \E w \in Work : CompleteWork(w)
  \/ BeginStop
  \/ BeginDisposal
  \/ FirstCleanup
  \/ CleanupResolved
  \/ CleanupRejected
  \/ FinishStop

Next == Call \/ Internal

Spec == Init /\ [][Next]_vars

(* The event loop runs every queued segment, and user callbacks settle.    *)
(* Internal steps are finite in number, so one weak fairness is enough.    *)
FairSpec == Spec /\ WF_vars(Internal)

-------------------------------------------------------------------------------
(* Properties. *)

(* Teardown never overlaps user code: once the scope starts disposing,     *)
(* setup and every dispatched callback have settled and none is queued.    *)
QuiescentCleanup ==
  disposal # "none" => \A t \in Task : task[t] \in {"none", "resolved", "rejected"}

(* Cleanups run in reverse order of registration, each at most once, and a *)
(* disposal that ended has tried every one, whichever of them rejected:    *)
(* what is left on the stack and what was tried, reversed, is exactly what *)
(* was registered.                                                         *)
CleanupOrder ==
  /\ registered = cleanups \o Reverse(attempted)
  /\ disposal \in {"resolved", "rejected"} => cleanups = <<>>

(* A terminal status tells the truth about the generation: it is final     *)
(* only after every registered cleanup was tried, "cleanup-blocked" exactly *)
(* when one rejected, and "failed" only for a setup that rejected and whose *)
(* starter was told so.  (Whose failure it was: FailureIsAttributed.)      *)
TerminalStatus ==
  status \in {"stopped", "failed", "cleanup-blocked"} =>
    /\ Range(attempted) = Range(registered)
    /\ status = "cleanup-blocked" <=> failures # {}
    /\ status = "failed" => task[Setup] = "rejected" /\ starter \in {"awaitStop", "error"}

(* A caller of start() that sees the setup's rejection finds the cleanup   *)
(* attempt finished, so it can read its outcome from snapshot().           *)
FailureSeenAfterCleanup ==
  starter = "error" /\ task[Setup] = "rejected" =>
    status \in {"stopped", "failed", "cleanup-blocked"}

(* After the abort no user callback begins and no caller of start() or     *)
(* run() receives a value.                                                 *)
AbortIsAFence ==
  [][aborted => /\ \A t \in Task : task'[t] = "running" => task[t] = "running"
                /\ \A w \in Work : outcome'[w] = "value" => outcome[w] = "value"
                /\ starter' = "value" => starter = "value"]_vars

(* Whoever cancels a generation whose setup is still awaited is never told *)
(* that the setup failed: however it settles after that, and however the   *)
(* stop goes, the status ends as stopped or cleanup-blocked.               *)
FailureIsAttributed ==
  [](cancellationRequested /\ starter = "awaitSetup" => [](status # "failed"))

(* A generation is never reopened: a terminal status is final whatever is  *)
(* called later, and nothing is accepted after a cancellation.             *)
NeverReopened ==
  [][/\ status \in {"stopped", "failed", "cleanup-blocked"} => status' = status
     /\ cancellationRequested => status' \notin {"idle", "starting", "active"}
     /\ cancellationRequested => pendingWork' \subseteq pendingWork]_vars

(* Every stop() settles, every start() settles and every accepted run()    *)
(* settles, provided user code does.                                       *)
CallsSettle ==
  /\ stop = "queued" ~> stop \in {"resolved", "rejected"}
  /\ starter = "awaitSetup" ~> starter \in {"value", "error"}
  /\ \A w \in Work : w \in pendingWork ~> outcome[w] # "none"

(* The generation seen by its owner. *)
Phase ==
  CASE stop = "resolved" -> "released"
    [] stop = "rejected" -> "retained"
    [] stop = "disposing" /\ disposal # "queued" -> "draining"
    [] aborted /\ disposal \in {"none", "queued"} -> "closing"
    [] OTHER -> "open"

Owner == INSTANCE Generation WITH
  phase <- Phase,
  running <- {t \in Task : task[t] = "running"},
  held <- IF disposal = "cleaning" THEN Append(cleanups, Last(attempted)) ELSE cleanups,
  faulted <- failures # {}

(* The controller implements the one-line promise above its constructor:   *)
(* "One generation owns setup, dispatched work, and exactly one terminal   *)
(* cleanup attempt."                                                       *)
ImplementsGeneration == Owner!Spec
===============================================================================
