--------------------------- MODULE ProviderLifecycle ---------------------------
(***************************************************************************)
(* The provider's contributions and installations: reconciliation of       *)
(* dependencies, ordered stops, and the installation handle                *)
(* (packages/runtime/src/provider-reconciliation.ts,                       *)
(* provider-activation.ts, provider-installations.ts).                     *)
(*                                                                         *)
(* As in Activation, an action is one synchronous segment.  A generation's *)
(* activation is used through what Activation establishes: stop() tears    *)
(* down once the setup has settled, and a rejected setup stops itself      *)
(* before start() rejects.  Generations are numbered as the code numbers   *)
(* them.  Continuations that the code queues in a fixed order keep that    *)
(* order; the rest interleave freely, which includes snapshot listeners    *)
(* that call a handle right after the segment that notified them.  Where   *)
(* completeStart notifies them before it has written the status, its       *)
(* segment is cut in two ("report" below).                                 *)
(***************************************************************************)
EXTENDS Naturals, FiniteSets, Sequences, SequencesExt

CONSTANTS
  Installation,
  Contribution,
  Parts,         \* installation -> sequence of its contributions
  Capability,
  Provides,      \* contribution -> set of at most one capability
  Requires,      \* contribution -> set of capabilities
  MaxCalls,      \* bound on enable, disable and retry calls
  Disposable,    \* bound: the installations somebody disposes
  OpenWindows    \* which of the races below are left open

(* "observation": after a generation stopped, completeStart has not yet    *)
(*   observed it while the contribution is already free to start again.    *)
(* "reaction": completeStart has left a contribution cleanup-blocked, and  *)
(*   its start promise is not yet cleared from the contribution.           *)
(* "report": a listener or the report sink that is told of a failed setup  *)
(*   calls a handle, while the status still says starting.                 *)
Window == {"observation", "reaction", "report"}

ASSUME LifecycleAssumption ==
  /\ Parts \in [Installation -> Seq(Contribution)]
  /\ \A c \in Contribution : \E i \in Installation :
       \A j \in Installation : c \in Range(Parts[j]) <=> j = i
  /\ Provides \in [Contribution -> SUBSET Capability]
  /\ Requires \in [Contribution -> SUBSET Capability]
  /\ \A i \in Installation : \A c, d \in Range(Parts[i]) :
       c # d => Provides[c] \cap Provides[d] = {}        \* a reservation has a key once
  /\ MaxCalls \in Nat
  /\ Disposable \subseteq Installation
  /\ OpenWindows \subseteq Window

VARIABLES
  installation,   \* OwnedInstallation by name
  installed,      \* environment.installations, in insertion order
  contribution,   \* OwnedContribution by name
  run,            \* contribution -> the activations and transitions of its generations
  settling,       \* a settle() is about to refresh
  calls

vars == <<installation, installed, contribution, run, settling, calls>>

(* The promises stop() returns and the transition field holds. *)
Promise == [kind : {"none", "start", "stop", "resolved", "rejected"},
            of : Contribution, generation : Nat]
Resolved(c) == [kind |-> "resolved", of |-> c, generation |-> 0]
Rejected(c) == [kind |-> "rejected", of |-> c, generation |-> 0]
Transition(kind, c, g) == [kind |-> kind, of |-> c, generation |-> g]
Nothing(c) == Transition("none", c, 0)

(* One generation.  start: completeStart, and the activation it starts;    *)
(* stop: completeStop of the reconciliation with the promises it awaits,   *)
(* and the activation it stops; setup, aborted and teardown: its own       *)
(* activation.  Both continuations take the activation from the            *)
(* contribution when they get to it; 0 is none.                            *)
Unused == [start |-> "none", starts |-> 0, setup |-> "none", aborted |-> FALSE,
           teardown |-> "none", stop |-> "none", stops |-> 0, awaited |-> {}]

TypeOK ==
  /\ installation \in [Installation ->
       [enabled : BOOLEAN, disposing : BOOLEAN, disposed : BOOLEAN,
        disposal : {"none", "queued", "stopping", "resolved", "rejected"},
        awaited : SUBSET Promise]]
  /\ installed \in Seq(Installation)
  /\ contribution \in [Contribution ->
       [status : {"waiting", "starting", "active", "stopping", "disabled",
                  "failed", "disposed", "cleanup-blocked"},
        reason : BOOLEAN,                     \* whether it is recorded why it waits
        failed : BOOLEAN,
        generation : Nat,
        activation : Nat,
        transition : Promise]]
  /\ run \in [Contribution -> Seq(
       [start : {"none", "queued", "awaiting", "reporting", "settled", "done"},
        starts : Nat,
        setup : {"none", "running", "resolved", "rejected"},
        aborted : BOOLEAN,
        teardown : {"none", "pending", "resolved", "rejected"},
        stop : {"none", "queued", "dependents", "activation",
                "resolved", "rejected", "done", "blocked"},
        stops : Nat,
        awaited : SUBSET Promise])]
  /\ settling \in BOOLEAN
  /\ calls \in 0 .. MaxCalls

Init ==
  /\ installation = [i \in Installation |->
       [enabled |-> TRUE, disposing |-> FALSE, disposed |-> FALSE,
        disposal |-> "none", awaited |-> {}]]
  /\ installed = <<>>
  /\ contribution = [c \in Contribution |->
       [status |-> "waiting", reason |-> FALSE, failed |-> FALSE,
        generation |-> 0, activation |-> 0, transition |-> Nothing(c)]]
  /\ run = [c \in Contribution |-> <<>>]
  /\ settling = FALSE
  /\ calls = 0

-------------------------------------------------------------------------------
(* Lookups. *)

PartsOf(i) == Range(Parts[i])
Owner(c) == CHOOSE i \in Installation : c \in PartsOf(i)

(* stop(), startContribution() and refresh() are called from many segments: *)
(* they, and the lookups they use, work on a state s.                      *)
Here == [installation |-> installation, installed |-> installed,
         contribution |-> contribution, run |-> run]

Become(s) ==
  /\ installation' = s.installation
  /\ installed' = s.installed
  /\ contribution' = s.contribution
  /\ run' = s.run

Changed(s, c, own, generations) ==
  [s EXCEPT !.contribution[c] = own, !.run[c] = generations]
ChangedInstallation(s, i, own) == [s EXCEPT !.installation[i] = own]

(* installations.delete() *)
Deleted(is, i) == RemoveAt(is, CHOOSE n \in DOMAIN is : is[n] = i)

AllContributions(s) == FlattenSeq([n \in DOMAIN s.installed |-> Parts[s.installed[n]]])
InstalledContributions(s) == UNION {PartsOf(i) : i \in Range(s.installed)}

Active(s, c) == s.contribution[c].status = "active"

FindService(s, p) ==
  {c \in InstalledContributions(s) : p \in Provides[c] /\ ~s.installation[Owner(c)].disposed}

Eligible(s, c) == \A p \in Requires[c] : \E d \in FindService(s, p) : Active(s, d)

DependentContributions(s, c) ==
  {d \in InstalledContributions(s) :
     d # c /\ Requires[d] \cap Provides[c] # {} /\ ~s.installation[Owner(d)].disposed}

(* A completeStart is inside its report of a failed setup: until it is     *)
(* back, whoever is told calls handles and no other segment runs.          *)
Reporting == \E c \in Contribution : \E g \in DOMAIN run[c] : run[c][g].start = "reporting"

Live(i) == i \in Range(installed) /\ ~installation[i].disposing /\ ~installation[i].disposed

-------------------------------------------------------------------------------

(* Mutation: the activation's own word for the contribution's status. *)
StoppedStatus(s, c) == "stopped"

SettledStatus(s, c) ==
  LET i == s.installation[Owner(c)] IN
  IF i.disposing \/ i.disposed THEN "disposed"
  ELSE IF ~i.enabled THEN "disabled"
  ELSE IF s.contribution[c].failed THEN "failed"
  ELSE "waiting"

FencedStopping(own) == own.status = "stopping"   \* mutation: no cleanup barrier
Fenced(own) == own.status \in {"stopping", "cleanup-blocked"}
(* Mutation: a setup under way counts as nothing to stop. *)
IdleOrStarting(own) == own.activation = 0 \/ own.status # "active"
Idle(own) == own.activation = 0 \/ own.status \in {"waiting", "disabled", "failed", "disposed"}

(* stop(): a fenced contribution is left alone, an idle one settles, and   *)
(* any other is stopping from now on, its activation cancelled at once.    *)
StopOne(s, c) ==
  LET own == s.contribution[c] IN
  IF Fenced(own) THEN s
  ELSE IF Idle(own) THEN Changed(s, c, [own EXCEPT !.status = SettledStatus(s, c)], s.run[c])
  ELSE Changed(s, c,
         [own EXCEPT !.status = "stopping", !.transition = Transition("stop", c, own.activation)],
         [s.run[c] EXCEPT ![own.activation] = [@ EXCEPT !.aborted = TRUE, !.stop = "queued"]])

(* The stops of several contributions do not depend on each other. *)
StopAll(s, cs) ==
  [s EXCEPT
     !.contribution = [c \in Contribution |-> (IF c \in cs THEN StopOne(s, c) ELSE s).contribution[c]],
     !.run = [c \in Contribution |-> (IF c \in cs THEN StopOne(s, c) ELSE s).run[c]]]

(* What stop() returns, read after the call: the transition under way, a   *)
(* rejection for a blocked contribution without one, or a resolved promise. *)
StopPromise(s, c) ==
  LET own == s.contribution[c] IN
  IF ~Fenced(own) THEN Resolved(c)
  ELSE IF own.transition.kind = "none" THEN Rejected(c)
  ELSE own.transition

StartContribution(s, c) ==
  LET own == s.contribution[c]
      g == own.generation + 1
  IN Changed(s, c,
       [own EXCEPT !.activation = g, !.generation = g, !.status = "starting",
                   !.reason = FALSE, !.transition = Transition("start", c, g)],
       Append(s.run[c], [Unused EXCEPT !.start = "queued"]))

(* Whatever the status was: after a report it may be a failed one that a   *)
(* retry has cleared.                                                      *)
UpdateWaitingReason(s, c) ==
  LET own == s.contribution[c] IN
  IF own.reason THEN s
  ELSE Changed(s, c, [own EXCEPT !.reason = TRUE, !.status = "waiting"], s.run[c])

ReconcileContribution(s, c) ==
  LET i == s.installation[Owner(c)]
      own == s.contribution[c]
  IN IF i.disposing \/ i.disposed \/ ~i.enabled \/ Fenced(own) \/ own.failed THEN s
     ELSE IF ~Eligible(s, c)
     THEN IF own.status \in {"active", "starting"} THEN StopOne(s, c)
          ELSE UpdateWaitingReason(s, c)
     ELSE IF own.status = "waiting" THEN StartContribution(s, c) ELSE s

(* One pass over the contributions in installation order: a stop makes the *)
(* dependents that come later in the pass ineligible, an earlier one waits *)
(* for its provider's completeStop.                                        *)
Refresh(s) ==
  LET cs == AllContributions(s)
      after[n \in 0 .. Len(cs)] == IF n = 0 THEN s ELSE ReconcileContribution(after[n - 1], cs[n])
  IN after[Len(cs)]
RefreshFrom(s) == Become(Refresh(s))

-------------------------------------------------------------------------------
(* The provider and the installation handles. *)

(* A published admission: no live installation offers the same capability  *)
(* (AdmissionRegistry keeps it so).  publish() is followed by settle().     *)
Install(i) ==
  /\ ~Reporting
  /\ i \notin Range(installed) /\ ~installation[i].disposed
  /\ \A c \in PartsOf(i), d \in InstalledContributions(Here) : Provides[c] \cap Provides[d] = {}
  /\ installed' = Append(installed, i)
  /\ settling' = TRUE
  /\ UNCHANGED <<installation, contribution, run, calls>>

Settle ==
  /\ ~Reporting
  /\ settling
  /\ settling' = FALSE
  /\ RefreshFrom(Here)
  /\ UNCHANGED calls

Call(i) ==
  /\ Live(i)
  /\ calls < MaxCalls
  /\ calls' = calls + 1

Enable(i) ==
  /\ Call(i)
  /\ RefreshFrom([ChangedInstallation(Here, i, [installation[i] EXCEPT !.enabled = TRUE]) EXCEPT
       !.contribution = [c \in Contribution |->
          IF c \in PartsOf(i) /\ contribution[c].status = "disabled"
          THEN [contribution[c] EXCEPT !.status =
                  IF contribution[c].failed THEN "failed" ELSE "waiting"]
          ELSE contribution[c]]])
  /\ UNCHANGED settling

Disable(i) ==
  /\ Call(i)
  /\ Become(StopAll(ChangedInstallation(Here, i, [installation[i] EXCEPT !.enabled = FALSE]),
                    PartsOf(i)))
  /\ UNCHANGED settling

(* Mutation: retry does not refuse a blocked contribution. *)
RetryBlocked(i, c) ==
  /\ Call(i)
  /\ c \in PartsOf(i)
  /\ RefreshFrom([Here EXCEPT !.contribution[c].failed = FALSE,
                              !.contribution[c].activation = 0,
                              !.contribution[c].status = "waiting"])
  /\ UNCHANGED settling

Retry(i, c) ==
  /\ Call(i)
  /\ c \in PartsOf(i)
  /\ contribution[c].status # "cleanup-blocked"
  /\ RefreshFrom(IF contribution[c].failed
                 THEN Changed(Here, c,
                        [contribution[c] EXCEPT
                           !.failed = FALSE,
                           !.activation = 0,
                           !.status = IF installation[i].enabled THEN "waiting" ELSE "disabled"],
                        run[c])
                 ELSE Here)
  /\ UNCHANGED settling

Dispose(i) ==
  /\ i \in Disposable \cap Range(installed)
  /\ installation[i].disposal = "none"
  /\ Become(StopAll(ChangedInstallation(Here, i, [installation[i] EXCEPT !.disposing = TRUE,
                                                                        !.enabled = FALSE,
                                                                        !.disposal = "queued"]),
                    PartsOf(i)))
  /\ UNCHANGED <<settling, calls>>

(* completeDisposal: stop every part again and wait for all. *)
BeginDisposal(i) ==
  /\ ~Reporting
  /\ installation[i].disposal = "queued"
  /\ LET s == StopAll(Here, PartsOf(i)) IN
     Become(ChangedInstallation(s, i,
              [s.installation[i] EXCEPT !.disposal = "stopping",
                                        !.awaited = {StopPromise(s, c) : c \in PartsOf(i)}]))
  /\ UNCHANGED <<settling, calls>>

(* A completeStart rejects only when it finds no activation. *)
RejectedNow(p) ==
  LET r == run[p.of][p.generation] IN
  \/ p.kind = "rejected"
  \/ p.kind = "stop" /\ r.stop \in {"rejected", "blocked"}
  \/ p.kind = "start" /\ r.start \in {"settled", "done"} /\ r.starts = 0
ResolvedNow(p) ==
  LET r == run[p.of][p.generation] IN
  \/ p.kind = "resolved"
  \/ p.kind = "stop" /\ r.stop \in {"resolved", "done"}
  \/ p.kind = "start" /\ r.start \in {"settled", "done"} /\ r.starts # 0
AllSettled(ps) == \A p \in ps : RejectedNow(p) \/ ResolvedNow(p)
Overlooked(ps) == FALSE            \* mutation: outcomes are not inspected
SomeRejected(ps) == \E p \in ps : RejectedNow(p)

(* The end of a disposal: the name and the capabilities are free again. *)
Released(i) ==
  [ChangedInstallation(Here, i, [installation[i] EXCEPT !.disposal = "resolved",
                                                        !.disposed = TRUE,
                                                        !.disposing = FALSE])
     EXCEPT !.installed = Deleted(@, i)]

(* Mutation: disposal does not wait for the stops. *)
FinishDisposalAtOnce(i) ==
  /\ installation[i].disposal = "stopping"
  /\ RefreshFrom(Released(i))
  /\ UNCHANGED <<settling, calls>>

FinishDisposal(i) ==
  /\ ~Reporting
  /\ installation[i].disposal = "stopping"
  /\ AllSettled(installation[i].awaited)
  /\ IF SomeRejected(installation[i].awaited)
     THEN /\ installation' = [installation EXCEPT ![i].disposal = "rejected"]
          /\ UNCHANGED <<installed, contribution, run>>
     ELSE RefreshFrom(Released(i))
  /\ UNCHANGED <<settling, calls>>

-------------------------------------------------------------------------------
(* Starting one generation. *)

(* Generation g of c, with completeStart at a point and its activation.    *)
StartAt(c, g, a, point) == [run[c] EXCEPT ![g] = [@ EXCEPT !.start = point, !.starts = a]]

(* The tail of completeStart: its promise settles, and a reaction clears   *)
(* the transition field and refreshes.                                     *)
ClearStart(s, c, g) ==
  Changed(s, c,
    [s.contribution[c] EXCEPT !.transition = IF @ = Transition("start", c, g) THEN Nothing(c) ELSE @],
    [s.run[c] EXCEPT ![g].start = "done"])

EndStart(c, g, a, own) ==
  LET s == Changed(Here, c, own, StartAt(c, g, a, "settled")) IN
  IF run[c][a].teardown = "rejected" /\ "reaction" \notin OpenWindows
  THEN RefreshFrom(ClearStart(s, c, g))
  ELSE Become(s)

FailedStatus(c, a) == IF run[c][a].teardown = "rejected" THEN "cleanup-blocked" ELSE "failed"

(* The catch of completeStart for activation a.  The status it judges by   *)
(* is the contribution's, whichever generation set it; the diagnostic it   *)
(* reports before it writes the new one lets others act in between.        *)
Catch(c, g, a) ==
  \/ /\ contribution[c].status # "starting"
     /\ EndStart(c, g, a, contribution[c])
  \/ /\ contribution[c].status = "starting" /\ "report" \notin OpenWindows
     /\ EndStart(c, g, a, [contribution[c] EXCEPT !.failed = TRUE, !.status = FailedStatus(c, a)])
  \/ /\ contribution[c].status = "starting" /\ "report" \in OpenWindows
     /\ Become(Changed(Here, c, [contribution[c] EXCEPT !.failed = TRUE],
                              StartAt(c, g, a, "reporting")))

(* completeStart: an activation cancelled or started meanwhile refuses.    *)
BeginStart(c, g) ==
  LET a == contribution[c].activation IN
  /\ ~Reporting
  /\ run[c][g].start = "queued"
  /\ \/ /\ a = 0                            \* 'Missing activation'
        /\ Become(Changed(Here, c, contribution[c], StartAt(c, g, 0, "settled")))
     \/ /\ a # 0 /\ (run[c][a].aborted \/ run[c][a].setup # "none")
        /\ Catch(c, g, a)
     \/ /\ a # 0 /\ ~run[c][a].aborted /\ run[c][a].setup = "none"
        /\ Become(Changed(Here, c, contribution[c],
                         [StartAt(c, g, a, "awaiting") EXCEPT ![a].setup = "running"]))
  /\ UNCHANGED <<settling, calls>>

TornDown(teardown) == IF teardown = "none" THEN "pending" ELSE teardown

(* The setup callback settles; a rejected one makes the activation stop.   *)
SetupSettles(c, g) ==
  /\ ~Reporting
  /\ run[c][g].setup = "running"
  /\ \/ run' = [run EXCEPT ![c][g].setup = "resolved"]
     \/ run' = [run EXCEPT ![c][g] = [@ EXCEPT !.setup = "rejected",
                                              !.aborted = TRUE,
                                              !.teardown = TornDown(run[c][g].teardown)]]
  /\ UNCHANGED <<installation, installed, contribution, settling, calls>>

(* The activation's stop() ends: its cleanups ran, some perhaps in vain. *)
Teardown(c, g) ==
  /\ ~Reporting
  /\ run[c][g].teardown = "pending"
  /\ run[c][g].setup # "running"
  /\ \E result \in {"resolved", "rejected"} : run' = [run EXCEPT ![c][g].teardown = result]
  /\ UNCHANGED <<installation, installed, contribution, settling, calls>>

StartSucceeds(c, g) ==
  LET a == run[c][g].starts IN
  /\ ~Reporting
  /\ run[c][g].start = "awaiting"
  /\ run[c][a].setup = "resolved" /\ ~run[c][a].aborted
  /\ Become(Changed(Here, c,
              [contribution[c] EXCEPT !.status = IF @ = "starting" THEN "active" ELSE @],
              [run[c] EXCEPT ![g].start = "settled"]))
  /\ UNCHANGED <<settling, calls>>

(* start() rejected: a discarded late value rejects at once, a rejected    *)
(* setup after the activation stopped.                                     *)
StartRejected(c, g) ==
  LET a == run[c][g].starts IN
  /\ run[c][g].start = "awaiting"
  /\ \/ run[c][a].setup = "resolved" /\ run[c][a].aborted
     \/ run[c][a].setup = "rejected" /\ run[c][a].teardown \in {"resolved", "rejected"}

StartFails(c, g) ==
  /\ ~Reporting
  /\ StartRejected(c, g)
  /\ Catch(c, g, run[c][g].starts)
  /\ UNCHANGED <<settling, calls>>

(* The report returns, and the new status replaces whatever the calls made *)
(* of the old one meanwhile.                                               *)
FailureReported(c, g) ==
  LET a == run[c][g].starts IN
  /\ run[c][g].start = "reporting"
  /\ EndStart(c, g, a, [contribution[c] EXCEPT !.status = FailedStatus(c, a)])
  /\ UNCHANGED <<settling, calls>>

(* Mutation: the reaction clears the transition and does not refresh. *)
StartReactionOnly(c, g) ==
  /\ ~Reporting
  /\ run[c][g].start = "settled"
  /\ Become(ClearStart(Here, c, g))
  /\ UNCHANGED <<settling, calls>>

StartReaction(c, g) ==
  /\ ~Reporting
  /\ run[c][g].start = "settled"
  /\ RefreshFrom(ClearStart(Here, c, g))
  /\ UNCHANGED <<settling, calls>>

-------------------------------------------------------------------------------
(* Stopping one generation: its dependents first, then its activation. *)

BeginStop(c, g) ==
  /\ ~Reporting
  /\ run[c][g].stop = "queued"
  /\ run[c][g].start # "queued"          \* queued earlier, runs earlier
  /\ LET dependents == DependentContributions(Here, c)
         s == StopAll(Here, dependents)
     IN Become(Changed(s, c, s.contribution[c],
                 [s.run[c] EXCEPT ![g] =
                    [@ EXCEPT !.stop = "dependents",
                              !.awaited = {StopPromise(s, d) : d \in dependents}]]))
  /\ UNCHANGED <<settling, calls>>

Blocked(c, g) ==
  Become(Changed(Here, c, [contribution[c] EXCEPT !.status = "cleanup-blocked"],
                          [run[c] EXCEPT ![g].stop = "rejected"]))

StopActivation(c, g, a) ==
  LET rs == [run[c] EXCEPT ![g] = [@ EXCEPT !.stop = "activation", !.stops = a]] IN
  IF a = 0 THEN rs
  ELSE [rs EXCEPT ![a] = [@ EXCEPT !.aborted = TRUE, !.teardown = TornDown(run[c][a].teardown)]]

DependentsStopped(c, g) ==
  /\ ~Reporting
  /\ run[c][g].stop = "dependents"
  /\ AllSettled(run[c][g].awaited)
  /\ IF SomeRejected(run[c][g].awaited)
     THEN Blocked(c, g)
     ELSE Become(Changed(Here, c, contribution[c], StopActivation(c, g, contribution[c].activation)))
  /\ UNCHANGED <<settling, calls>>

(* Mutation: a rejected activation stop is not caught. *)
ActivationStoppedUncaught(c, g) ==
  /\ ~Reporting
  /\ run[c][g].stop = "activation"
  /\ run[c][g].teardown = "resolved"
  /\ contribution' = [contribution EXCEPT ![c].activation = 0,
                                          ![c].status = SettledStatus(Here, c)]
  /\ run' = [run EXCEPT ![c][g].stop = "resolved"]
  /\ UNCHANGED <<installation, installed, settling, calls>>

Awaits(c, h, a) == run[c][h].start = "awaiting" /\ run[c][h].starts = a

(* A late value is discarded well before the teardown behind it ends.  The *)
(* other rejection and this continuation wait for the same promise.        *)
ObservedInTime(c, a) ==
  \A h \in DOMAIN run[c] :
    Awaits(c, h, a) => run[c][a].setup = "rejected" /\ "observation" \in OpenWindows

ActivationStopped(c, g) ==
  LET a == run[c][g].stops IN
  /\ ~Reporting
  /\ run[c][g].stop = "activation"
  /\ ObservedInTime(c, a)
  /\ \/ /\ a # 0 /\ run[c][a].teardown = "rejected"
        /\ Blocked(c, g)
     \/ /\ a # 0 => run[c][a].teardown = "resolved"
        /\ Become(Changed(Here, c,
                    [contribution[c] EXCEPT !.activation = 0, !.status = SettledStatus(Here, c)],
                    [run[c] EXCEPT ![g].stop = "resolved"]))
  /\ UNCHANGED <<settling, calls>>

(* Reactions on the transition: both refresh, a rejected one stays in the  *)
(* field as the barrier.                                                   *)
StopReaction(c, g) ==
  /\ ~Reporting
  /\ \A h \in DOMAIN run[c] : ~Awaits(c, h, run[c][g].stops)   \* their continuations are queued earlier
  /\ \/ /\ run[c][g].stop = "resolved"
        /\ RefreshFrom(Changed(Here, c,
             [contribution[c] EXCEPT
                !.transition = IF @ = Transition("stop", c, g) THEN Nothing(c) ELSE @],
             [run[c] EXCEPT ![g].stop = "done"]))
     \/ /\ run[c][g].stop = "rejected"
        /\ RefreshFrom(Changed(Here, c, contribution[c], [run[c] EXCEPT ![g].stop = "blocked"]))
  /\ UNCHANGED <<settling, calls>>

-------------------------------------------------------------------------------
HandleCall ==
  \E i \in Installation :
    \/ Install(i)
    \/ Enable(i)
    \/ Disable(i)
    \/ Dispose(i)
    \/ \E c \in Contribution : Retry(i, c)

Internal ==
  \/ Settle
  \/ \E i \in Installation : BeginDisposal(i) \/ FinishDisposal(i)
  \/ \E c \in Contribution : \E g \in DOMAIN run[c] :
       \/ BeginStart(c, g)
       \/ SetupSettles(c, g)
       \/ Teardown(c, g)
       \/ StartSucceeds(c, g)
       \/ StartFails(c, g)
       \/ FailureReported(c, g)
       \/ StartReaction(c, g)
       \/ BeginStop(c, g)
       \/ DependentsStopped(c, g)
       \/ ActivationStopped(c, g)
       \/ StopReaction(c, g)

Next == HandleCall \/ Internal

Spec == Init /\ [][Next]_vars

(* The event loop runs every continuation and user callbacks settle.       *)
FairSpec == Spec /\ WF_vars(Internal)

-------------------------------------------------------------------------------
(* Properties. *)

(* What a generation acquired may still be held: its setup began and its   *)
(* cleanup has not succeeded.                                              *)
Holding(c, g) == run[c][g].setup # "none" /\ run[c][g].teardown # "resolved"

(* Successor setup requires completed cleanup: a contribution never has    *)
(* two generations holding resources, one of them forgotten.               *)
OneGeneration ==
  \A c \in Contribution : \A g, h \in DOMAIN run[c] : Holding(c, g) /\ Holding(c, h) => g = h

(* A status that says nothing is held is right: an idle contribution holds *)
(* nothing, and in particular a disposed installation released everything. *)
IdleHoldsNothing ==
  \A c \in Contribution :
    contribution[c].status \in {"waiting", "failed", "disabled", "disposed"} =>
      \A g \in DOMAIN run[c] : ~Holding(c, g)

(* A successor's setup waits for its predecessor's cleanup: two            *)
(* contributions that provide the same capability never both hold.         *)
SuccessorWaits ==
  \A c, d \in Contribution :
    c # d /\ Provides[c] \cap Provides[d] # {} =>
      ~\E g \in DOMAIN run[c], h \in DOMAIN run[d] : Holding(c, g) /\ Holding(d, h)

(* Failed cleanup blocks the ownership chain: while a contribution is      *)
(* blocked, its installation is not disposed, so its name and capability   *)
(* stay reserved and no successor is admitted.                             *)
BlockedKeepsReservation ==
  \A i \in Installation : installation[i].disposed =>
    \A c \in PartsOf(i) : contribution[c].status = "disposed"

(* A provider's resources outlive their users: when the teardown of a      *)
(* generation begins, no contribution that requires what it provides still *)
(* holds anything.                                                         *)
DependentsFirst ==
  [][\A c \in Contribution : \A g \in DOMAIN run[c] :
       run[c][g].teardown = "none" /\ run'[c][g].teardown # "none" =>
         \A d \in DependentContributions(Here, c) :
           \A h \in DOMAIN run[d] : ~Holding(d, h)]_vars

(* Neither retry nor enable nor a refresh releases a blocked contribution, *)
(* and nothing starts in it again.                                         *)
BlockedIsFinal ==
  [][\A c \in Contribution : contribution[c].status = "cleanup-blocked" =>
       /\ contribution'[c].status = "cleanup-blocked"
       /\ contribution'[c].generation = contribution[c].generation]_vars

(* When every continuation has run, reconciliation has caught up: nothing  *)
(* is in between, what is active is enabled and has its services, and      *)
(* what waits in an enabled installation lacks one.  A refresh that was    *)
(* needed and not made would show here.                                    *)
Quiet ==
  /\ ~settling
  /\ \A i \in Installation : installation[i].disposal \in {"none", "resolved", "rejected"}
  /\ \A c \in Contribution : \A g \in DOMAIN run[c] :
       /\ run[c][g].start \in {"none", "done"}
       /\ run[c][g].stop \in {"none", "done", "blocked"}

CaughtUp ==
  Quiet => \A c \in InstalledContributions(Here) :
    LET own == contribution[c]
        i == installation[Owner(c)]
    IN /\ own.status \notin {"starting", "stopping"}
       /\ own.status = "active" => i.enabled /\ Eligible(Here, c)
       /\ own.status = "waiting" => ~Eligible(Here, c)
       /\ own.status = "disabled" => ~i.enabled

(* Everything that was begun ends, provided user code settles: a stop in   *)
(* any contribution stopped or blocked, and an installation's dispose(),   *)
(* which waits for all of them, resolved or rejected.                      *)
StopsSettle ==
  /\ \A c \in Contribution :
       []<>(contribution[c].status # "stopping")
  /\ \A i \in Installation :
       []<>(installation[i].disposal \in {"none", "resolved", "rejected"})
===============================================================================
