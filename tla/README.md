# A verification of the contribution runtime

TLA+ models, model checking and proofs of the core of this repository: the
provider runtime that owns contributions (`packages/runtime`), the client that
routes calls to providers (`packages/client`), the adapter that shows a provider
to a remote client (`packages/devframe`), and the parts of the examples that keep
state of their own (`examples/webext`, `vite-hosts`, `json-render`).

Each module is translated from the source; `PROJECT.json` maps every definition
to its lines.  Paths below are relative to `src/packages/`, but for those that
begin with `examples/`.

## The system

| Component | State it keeps | Operations | Hard about it |
| --- | --- | --- | --- |
| Activation (`runtime/activation.ts`, `scope.ts`) | status, abort signal, promises of setup and dispatched work, the cleanup stack | `start`, `run`, `cancel`, `stop`, `onDispose`, `snapshot` | calls that arrive while setup, work or cleanups are in flight; who failed; what a late value may do |
| Provider lifecycle (`provider-reconciliation.ts`, `provider-activation.ts`, `provider-installations.ts`) | installations, their contributions with status, generation, activation and current transition | `install`, `enable`, `disable`, `retry`, `dispose`, and `refresh`, which follows every change | ordered stops along dependencies, whose promises wait for each other; continuations of an old generation meeting a new one |
| Admission (`admission.ts`, `provider-admission-*.ts`, `provider-controller.ts`, `provider-preflight.ts`) | owners of keys, the one pending replacement, two promise queues, handles, provider status | `startup`, `install`, `replace`, `dispose` | validators and cleanups awaited between a check and its use; a provider disposed in between |
| Bindings and invocation (`provider-bindings.ts`, `invocation.ts`, `validation.ts`) | the signals of the caller and of the generation | resolve a service, invoke an operation or action | cancellation and teardown between validation, handler and validation; who is to blame |
| Local catalog and status (`provider-catalog.ts`, `provider-status.ts`) | status, listeners | `snapshot`, `subscribe`, `notify`, `dispose` | listeners that subscribe, unsubscribe and call handles from inside a notification |
| Client routing (`client/src`) | attachments with their catalog subscription, `disposed` | `attach`, `detach`, `dispose`, `invoke`, `resolve`, `broadcast` | selection before an await and dispatch after it; listeners called inside `attach` |
| Devframe exposure (`devframe/provider.ts`, `exposure*.ts`) | one provider for each native context, its incarnation | `install`, `dispose`, catalog and call procedures | a successor under the same names |
| Remote catalog and connection (`devframe/client/*.ts`) | snapshot, pinned identity, revision, pending read | reads, invalidations, calls, `dispose` | answers and invalidations in any order, failed reads |
| Core declarations, provider facade, server wrappers, Port channel | none, or one subscription | constructors, forwarding | – |
| Extension page (`examples/webext/src/panel.ts`, `servers.ts`) | the map of mounted views, a startup, the attached servers | index updates, replacing a renderer, connecting, closing | a mount waits for the disposal of the one before, and is removed while it waits |
| JSON renderer page (`examples/json-render/browser/main.ts`) | what it owns, the chain of mounts, the renderer chosen | publication, mount, unmount, choice, disposal | a native get fills the cache that an eviction empties |
| Native contributions (`examples/webext/src/header-contribution.ts`, `inspector.ts`, …) | rules and scripts of the browser | install, controls, marker and reset | the browser refuses an update; overlapping calls; the worker ends |
| Production publication (`examples/vite-hosts/src/production-*.ts`) | a lock, a status file, directories | watch, build, publish, close, preview | a publisher is killed between any two of its steps |
| Vite host (`examples/vite-hosts/src/lifetime.ts`) | one lifetime for each server | prepare, listen, close | a restart has two servers for a while |

They interact by calls and by callbacks.  The controller admits a definition
and publishes an installation; `refresh` starts and stops its contributions,
each generation of which is an activation.  Every status change notifies
listeners, among them the local catalog.  An exposure subscribes to that
catalog and broadcasts a payload-free invalidation; a remote catalog answers
with a query.  Local and remote connections are attached to a client, which
reads their catalogs to choose one for each call.

The packages are single-threaded JavaScript and persist nothing, so that there is
no recovery from crashes in them.  Concurrency is what may run at an `await`, and
what a listener or a callback of the user does from within a call.  The examples add
what outlives a process: directories that a build watcher and a preview share, and
the rules and scripts that a browser keeps when it ends the extension's worker.

### What makes each component correct

* **Activation**: teardown never overlaps user code; every cleanup is tried,
  last first; a status tells the truth and a terminal one is final; after the
  abort nothing begins and nobody gets a value; all callers are answered.
* **Lifecycle**: one generation of a contribution at a time; dependents stop
  before what they depend on; an idle or disposed contribution holds nothing; a
  failed cleanup blocks the chain and its reservations; once everything has run,
  the statuses are what the dependencies call for; disposals settle.
* **Admission**: a key has one owner until it is cleaned up; no cycles, also
  after a pending replacement; an installation has at most one successor, also
  when several calls have its handle; a disposed provider owns nothing; a
  replacement does not hold up unrelated startups.
* **Invocation**: a handler's services outlive its use of them; a call that settles
  is blamed on who was at fault; nobody gets a value of a generation that has ended.
* **Local catalog**: every change is announced to everybody subscribed, also in
  nested notifications.
* **Client routing**: a call reaches only an entry attached and available at
  that very moment, and one that the policy allows; no value after a detach, a
  cancellation or the disposal; broadcasts are complete or do not start.
* **Remote catalog**: what is shown is what is exposed, up to invalidations on
  their way; one incarnation for each connection; every wait ends.
* **Pages**: what is shown belongs to an entry that stands and is drawn by what the
  user chose; a closed page holds nothing, wherever it was.
* **Publication**: a browser is only ever sent to a whole build.
* **Vite host**: never two providers at a time.
* **Native contributions**: what the browser has is what the contributions own and
  what the pages are told.

## Modules

| Module | What it models |
| --- | --- |
| `Generation` | what an activation promises its owner: open, closing, draining, then released or retained |
| `Activation` | the activation controller and its scope; implements `Generation` |
| `ActivationProofs` | its invariants and action properties, proved, and that it implements `Generation` |
| `ProviderLifecycle` | reconciliation, starts, stops and installation handles |
| `ProviderLifecycleProofs` | its type correctness and safety properties, proved |
| `Registry` | what admission promises of keys: given and taken at once, and handed on to one successor |
| `Admission` | the registry of keys, the replacement transaction, the controller's queues and disposal; implements `Registry` |
| `AdmissionProofs` | its invariants, proved, and that it implements `Registry` |
| `ClientRouting` | the registry of attachments, selection, dispatch, broadcast |
| `ClientRoutingProofs` | its safety properties, proved |
| `RemoteCatalog` | an exposed provider with the registration of its procedures, the transport and one remote connection |
| `RemoteCatalogProofs` | its safety properties, proved |
| `Invocation` | calls of a service and of an action that requires it, while both are started and stopped |
| `LocalCatalog` | the listeners of a provider and the stack of notifications under way |
| `LocalProvider` | composes the two: every change of a status is announced, and listeners call back |
| `LocalProviderProofs` | the safety properties of the three, proved |
| `MountedViews` | the mounts of an extension page, each after the one it replaces |
| `ExtensionPage` | extends it with the page's startup, its servers, the replacement of a renderer and the closing |
| `RendererPage` | the JSON renderer's page: startup, chain of mounts, publication, choice, disposal |
| `PageProofs` | the invariants of the two pages, proved |
| `NativeInspector` | the inspector's marker script: calls, cleanup, and a browser that answers in order |
| `NativeRules` | header rules under their controls, with fixtures that the browser must refuse |
| `ProductionPublication` | publishers and a preview that share a directory |
| `HostLifetime` | the provider of a Vite server and of those that replace it |
| `ExampleProofs` | the invariants of the last four, proved |
| `MC*` | instances for TLC; `MCExamples` composes the modules of the examples |

Common to all: **an action is one synchronous segment**, from a public call or
the resumption of an `await` to the next `await` or the return.  Microtasks that
the code queues interleave in any order, unless the order the queue imposes is
needed, in which case it is a guard with a comment.  User code (setups, work,
cleanups, validators, routing callbacks) is a segment that begins and, later,
one that resolves or rejects.  A listener that calls back from inside a segment
is an action right after it, where that is equivalent, and an action inside it
where it is not (`attaching` in `ClientRouting`, `Reporting` in `ProviderLifecycle`).

`NativeInspector` and `RendererPage` are coarser: an action there is one task with
all its microtasks, since nothing but the browser's or the host's answers may come in
between.  `ProductionPublication` is finer: one operation on the file system.

Definitions marked "Mutation" are never used by a specification: each is a
plausible error in the definition that follows it, kept to show that a property
would notice.

### Activation

`task` stands for the promises of the setup and of the work, from "queued" (the
promise is created and its segment will check the signal) through "running" to
"resolved" or "rejected".  `starter` and `stop` say where `completeSetup` and
`completeStop` are; `awaited` is what `completeStop` passed to
`Promise.allSettled`.  `cleanups` is the scope's stack; `registered` and
`attempted` are history variables.

### ProviderLifecycle

An activation is used through what `Activation` establishes: its `stop()` tears
down once the setup has settled, and a setup that rejects stops itself before
`start()` rejects.  `run[c][g]` is one generation: where `completeStart` (`start`)
and `completeStop` (`stop`) are, whether the setup ran, and the `teardown`.  The two
take the activation from the contribution when they get to it, which `starts` and
`stops` remember: after a retry at the wrong moment it is another generation's.
A contribution's `transition` is a reference to the promise of one of the two,
and `awaited` are such references, evaluated when they are needed; this is what
lets waiting on the wrong promise go wrong as it would in the code.
The pure transformers `StopOne`, `StartContribution` and `ReconcileContribution` change
a state `Here`.  `Refresh` applies the last of them in installation order, by a
recursive function; the stops of several contributions are one step (`StopAll`), as
none of them reads what another writes.  Generations are a sequence for each
contribution, to which a start appends one.

FIFO order of microtasks is kept by three guards: `BeginStop` (a start queued
earlier runs earlier), `StopReaction`, and `ObservedInTime`.

`completeStart` reports a failed setup before it writes the new status.  The report
calls the sink and the listeners, who find the status still `starting`: a `retry()`
from there starts another generation, whose status the continuation overwrites when
the report returns.  `StartFails` and `FailureReported` are the two halves, and nothing
but calls of handles comes in between (`Reporting`).  A failed status that such a retry
has cleared is turned to `waiting` by the next refresh that finds a requirement
missing and no reason recorded (`UpdateWaitingReason`).

`OpenWindows` names the three races which the code really has and which break what
its documents promise (see Findings): "observation", an old start that is observed
after the next generation began; "reaction", a blocked contribution whose start
promise is still in the field; and "report".  All three are open in `lifecycle_live`,
whose properties hold all the same.  `lifecycle_turn` has none of them, since each
would lead to the same defects again; the theorems say of each property which of the
races it needs closed.

### Admission

A reservation is the request and the definition it came from, with the services
it got: in relaxed mode it may have got fewer than it asked for.  `owners` is
total, `Free` being no owner.  `Prepare` is what the loop of `prepareBatch` comes to: a
definition selects the services that neither an owner nor an earlier definition of
the batch has (whatever an earlier one asked for is taken by then, by it or by
another), and claims its remaining keys or is in conflict.
`mutations` and `turns` are the promise queues `mutation` and `replacements`,
whose heads run.  Cycle detection is stated as what the depth-first search
decides: every set of registered services has one that needs no other of it.
What a reserved installation does with its setups is `ProviderLifecycle`'s
matter; here it is live, disposing, blocked or released.

`Registry` forgets the queues, the batches and the transaction: it knows who owns
which key, who holds and who has been released, and by whom a released installation
has been succeeded.  The mapping takes a replace call for a succession once it has
published (`Replaced`); until then, nothing of it is visible, since `Commit` gives
the keys to the successors in one step.

### ClientRouting

A selector is the set of providers it matches; a policy is a sequence of
selectors or a callback.  `status` is what each connection's catalog says of the
one contract that is called.  The segment of a call up to its first await is
one action (`Begin`), and so is the dispatch after it; in between other calls,
detachments and catalog changes happen.

### RemoteCatalog

The host (`startProvider`, with the registration of one method after another, which
may fail midway and leaves unavailable methods behind, `publish`, `clear`), the
client's `RemoteCatalog` and its `RemoteConnection`, with a transport that answers a query from the host's
state at some moment in between, or fails it, and that delivers events and
answers in any order.

### LocalProvider

`Invocation` takes the statuses of one service and one action as `ProviderLifecycle`
establishes them with its races closed, and follows a call through its phases; `gaveUp` is the phase in
which the caller aborted, `used` the generation of the service an action's handler
was given.  `LocalCatalog` has the stack: a frame is a loop over listeners or, in
`dispose`, over installations, with the copy of what is left to do.  A snapshot is
taken when a listener is called, so that a listener is either `behind` the last
change or not.  Each step of `LocalProvider` is one of `Invocation`'s together
with the notification the code makes of it; user code on the stack (`Reentrant`) may
call handles and operations, and continuations run when the stack is empty.

### The examples

`MountedViews` numbers the mounts of each key; `previous` is what a mount waits for,
`current` what is in the page's map.  `ExtensionPage` has one variable for each thing
that waits: the startup, a replacement, and the `attach()` of each server, with what
it `held`.  The browser's operations are atomic and answered in order; how a loss of
the connection shows is external and can happen at any moment.

`ProductionPublication` gives a process a program counter for every operation on the
shared directory.  `Killed` ends it anywhere; the lock it leaves is deleted by
somebody, whom the documents ask to look first: no publisher is alive then.  The
watcher reports nothing, and nothing is written, after it has been closed.

`HostLifetime` takes from Vite that a restart creates the new server, closes the old
one and lets the new one listen when the closing hooks have resolved.

In `RendererPage` the chain of mounts and evictions is a sequence, of which the head
runs; `asked` is the publication whose state a pending get will return.
`NativeInspector` has the queue of updates asked of the browser.  `NativeRules` has two
contributions with controls, and two fixtures whose rule must be refused; redirects
and the packaged script follow the same protocol.  A worker may be terminated in both;
what it leaves in the browser stays until the session ends (`orphan`, `orphaned`).

These six share nothing (`MountedViews` is part of `ExtensionPage`), so that
`MCExamples` explores their behaviours side by side instead of multiplied: `example` names the one a behaviour is of.  For the
same reason the page's background and its servers, which only have the closing in
common, take turns.

## Runs

All passing runs are exhaustive and take from seconds to two minutes.

| Run | Instance | States | Shows |
| --- | --- | --- | --- |
| `activation` | 2 calls, 3 cleanups | 31,381 | `QuiescentCleanup`, `CleanupOrder`, `TerminalStatus`: what the teardown of a generation comes to; `FailureIsAttributed`: a cancelled setup is not reported as failed; `AbortIsAFence`, `CallsSettle`; `ImplementsGeneration` |
| `lifecycle_turn` | a service succeeded by another under a plugin, 1 handle call, the races closed | 558,705 | `SuccessorWaits`, `OneGeneration`, `IdleHoldsNothing`, `BlockedKeepsReservation`, `DependentsFirst`, `BlockedIsFinal` |
| `lifecycle_live` | a service and its user, the service disposed, 1 handle call, all three races open | 57,164 | `StopsSettle`: stops and disposals end; `CaughtUp`: once all has run, statuses are what the dependencies call for; `TypeOK` |
| `lifecycle_stale_start`, `lifecycle_late_barrier`, `lifecycle_retry_in_report` | one contribution, one race open | | findings 1, 2 and 3 |
| `admission` | 2 startups, 2 replacements over 6 keys, strict and relaxed | 117,578 | `OneOwner`, `AcyclicNowAndThen`, `DisposedIsEmpty`; `ImplementsRegistry`: keys change hands at once, and nothing is replaced twice; `StartsSettle`: a replacement holds up no startup |
| `client_routing` | 1 call or 1 broadcast, 3 attachments of 2 connections, 1 catalog change | 724,601 | `NeverRerouted` (bound calls, and the choice without a callback), `NoLateValue`, `SubscriptionsOwned`, `BroadcastIsComplete`, `CallsSettle` |
| `remote_catalog` | 1 call, 2 incarnations, 2 changes, 1 failed message | 274,943 | `SnapshotIsTrue` (what is shown is the host's, and in the end all of it is shown), `OneIncarnation`, `DisposedIsFinal`, `WaitsSettle` |
| `remote_catalog_lost` | the same | | finding 4 |
| `local_provider` | 1 call, 2 generations, 2 listeners, 3 nested notifications | 2,804,564 | `CatalogIsCurrent`, `ServiceOutlivesUse`, `BlameIsRight` |
| `examples` | 2 views with 3 and 1 mounts, 2 servers; 2 publishers, 3 attempts; 3 Vite servers; 4 views, 3 publications; 3 inspector calls; 4 rules | 1,090,386 | `OneViewPerEntry`, `PageFollows`, `PublishedIsWhole`, `OneHostProvider`, `ViewIsCurrent`, `MarkerIsTrue`, `RulesOwned` |

Type correctness is part of `CatalogIsCurrent`, `SnapshotIsTrue`, `SubscriptionsOwned`
and of the examples' invariants, and `TypeOK` where it is not; of `Activation` and of
`Admission` it is proved.

Why these bounds are enough.  A generation sees its calls independently; two of
them let one be queued or settled while the other runs, and three cleanups let
one fail between two that succeed.  Ordered stops are checked on a service and its
user, with the service changing hands; a contribution that is both, in the middle of a
chain, is left to the proofs, which are for any graph.  Generations need no bound: only the
first start, a recovery of dependencies and a handle call begin one.  The definitions
of `MCAdmission` were chosen so that two of them are only together a cycle, that they
contend for a service, that a relaxed replacement can be skipped, and that both
replacements may be given the same handle, whose installation they find live, being
disposed, or replaced by the other.  It replaces services only; the proofs have no
such limit.  Two connections to two providers and
three attachments let a provider be detached and return.  `OneOperation`, a
condition on the steps of `client_routing`, lets a behaviour make either the call or
the broadcast: neither writes what the other reads.  Two incarnations let
a call and a read made for one meet the other.  Two generations of a service and a
stack of three let a listener's call be nested in a notification that a nested
call of another has interrupted, and a call meet the generation after its own.
Three mounts of a view have one that is both a successor and a predecessor; three
attempts and two publishers let one be killed with a complete build behind it and
another go on; three servers are one that replaces a replacement; four views and
three publications let a withdrawal meet a mount, an eviction and a change of the
renderer; three calls leave one behind an update that
registers and one that unregisters.

`CHECK_DEADLOCK FALSE` is given where the system may legitimately come to rest:
calls are made a bounded number of times, a provider, a client or a page ends
disposed.

### Fairness

* `Activation`, `ProviderLifecycle`: weak fairness of the internal steps.  The
  event loop runs every queued continuation, and user code is assumed to settle;
  a setup that never settles stops a disposal in the code too.  One condition
  covers all internal steps, since there are finitely many between two calls.
  User code that awaits the stop of its own installation is excluded: it waits
  for itself, and nothing in the code prevents it.
* `Admission`: validators return and the setups that a startup waits for settle.
  Nothing is assumed of cleanups, which is the point of `StartsSettle`.  The
  condition is stated on states ("nobody runs at the head forever"); as the
  steps concerned are never disabled by others, it says what weak fairness of
  them would.
* `ClientRouting`: connections answer; a routing callback need not.
* `RemoteCatalog`: the transport delivers what it accepted, or the loss shows as
  a disconnection, which is `Dispose`.
* `LocalProvider` and the examples: none.  Their properties are invariants and
  action properties: `ViewIsCurrent` says of the page's controls in every state which
  of them can be used, rather than that one eventually can.

## Findings

1. `lifecycle_stale_start`: the completion of an old start decides by the
   contribution's status alone (`runtime/src/provider-activation.ts:114`).  If it
   resumes after the generation has been stopped, settled and started again, it
   marks the new generation failed; a `retry()` then starts a third beside it.
   `GLOSSARY.md:66` has one live generation.
2. `lifecycle_late_barrier`: when setup and cleanup both fail, `stop()` returns the
   start's promise, which resolves, until the promise reaction clears it
   (`provider-activation.ts:138`); a disposal begun by a listener in that window
   releases the installation over a blocked cleanup, against
   `runtime/README.md:20`.
3. `lifecycle_retry_in_report`: a failed setup is reported before the status says so
   (`provider-activation.ts:116`).  A listener's `retry()` from within the report passes
   the check for a blocked cleanup and starts a generation over one that failed,
   against the message of that very check (`provider-installations.ts:153`) and
   `docs/planning/012-portable-view-declaration.md:105`.
4. `remote_catalog_lost`: an invalidation that shares a pending read is lost if
   that read fails (`devframe/src/client/catalog.ts:100`), against
   `devframe/README.md:39` and `server/README.md:143`.

## Proofs

### Activation

For every set of calls and cleanups, TLAPS proves of `Activation`:

* `TypeCorrect`: `TypeOK`;
* `CleanupIsQuiescent`: `QuiescentCleanup`;
* `CleanupsInReverse`, `StatusTellsTheTruth`, `FailureAfterCleanup`:
  `CleanupOrder`, `TerminalStatus`, `FailureSeenAfterCleanup`;
* `Fenced`, `StaysClosed`: the action properties `AbortIsAFence`, `NeverReopened`;
* `Attributed`: `FailureIsAttributed`, that a generation cancelled while its setup was
  awaited never ends as failed, which the status alone does not say (`TerminalStatus`);
* `Implements`: the refinement `ImplementsGeneration`.

The only assumption is `SetupAssumption`: the setup is not one of the calls.

None of the invariants is inductive.  The argument is in two stages.

`QuiescenceInv` says why nothing runs when the scope is disposed.  A stop is
published together with the abort, and an abort leaves no status behind that
accepts work (`StopFences`); whatever has been dispatched and has not settled is
in `pendingWork`, or is the setup (`DispatchTracked`); so what `completeStop`
collects is all there is, now and later (`StopCollected`), and the disposal comes
after it (`DisposalLast`).

`TeardownInv` adds what the teardown leaves.  `Stacked`: the stack followed by
the reversed attempts is what was registered.  A registration extends it only
before the first attempt, and popping moves one cleanup from one side to the
other (`PopPush`, from the lemmas on `Reverse`).  `StatusOfStop`: a status is
terminal because the stop ended as the disposal did.  `FailureObserved`: who is
said to have failed did.  The remaining theorems follow from it, state by state
or step by step.

For the refinement, `PhaseOf` reads the phase off the controller's state under
`TeardownInv`, and `StepMaps` has a case for each action: most do not change what
the owner sees; the first abort is `Close`, `FirstCleanup` is `Drain`, the end of
each cleanup `Release`, and `FinishStop` `Finish`.

### Provider lifecycle

For any installations, contributions, capabilities and dependencies, and any number
of calls, of `ProviderLifecycle`:

* `LifecycleTypeOK`: `TypeOK`, whichever races are open;
* `BlockedStaysBlocked`: `BlockedIsFinal`, unless "report" is among `OpenWindows`;
* `IdleContributionsHoldNothing`: `IdleHoldsNothing`, and `OneGenerationHolds`:
  `OneGeneration`, unless "observation" or "report" is;
* `BlockedPartsKeepReservation`: `BlockedKeepsReservation`, `SuccessorsWait`:
  `SuccessorWaits`, `DependentsStopFirst`: `DependentsFirst`, and
  `ReconciliationCatchesUp`: `CaughtUp`, when `OpenWindows` is empty.

`LifecycleAssumption` says that each contribution is a part of one installation, that
the parts of an installation provide different capabilities, and what the bounds are.
The hypotheses on `OpenWindows` are what findings 1 to 3 come to: their runs show for
each race a property that it breaks, and a theorem may assume more races closed than
its property needs (`CaughtUp` holds in `lifecycle_live` with all of them open).  What
the theorems say is that no other interleaving of the segments that the module has
breaks a property.

The invariant `Sound` is about a state and not about variables, since `refresh` is
called from most segments and is itself a composition of steps: each action leads to
an intermediate state that is `Sound`, and `RefreshSound` and `StopAllSound` take it
from there.  `PartOK` says, by the status of a contribution, where its last generation
is, and that all earlier ones have `Finished`; `GenerationOK` says how `start`, `setup`,
`teardown` and `stop` of one generation go together.  `Moves` lists what a continuation
may do to a part, and `MovesSound` shows once that this keeps the invariant.
`Fencing`, which needs "report" closed and no more, is enough for `BlockedIsFinal`.  With
"report" open, only `State`, the types of a state, is kept.  `Placement`
has what is in use belong to an installed installation, of which no two provide the
same.  `DisposalOK` is why a disposal that resolves has stopped every part: for each
part that is not disposed, it `awaited` the stop of its last generation or a rejection.

Two properties relate a contribution to those it depends on.  For `DependentsFirst`
the invariant has `Served`: for whatever a contribution in use requires, somebody else
`Serves` it, which is active, or stopping and not past the wait for this one, with the
promise of its stop among those `awaited`.  `Continues` says when a step leaves a part
served and serving, and `ServedSteps` that the invariant then stays; a contribution is
`Alone` when its wait is over (`AloneUnlessServing`), and no other step begins a
teardown (`Spared`).  For `CaughtUp` the invariant has `Orderly`, that the status of an
idle contribution is what `stop()` would settle on, and `Ready`: when a waiting
contribution is eligible, a `settle()` or a reaction that refreshes is still to come.
A step is `Calm` when it makes nothing wait or eligible and uses up no reaction; every
other step refreshes, or leaves a reaction or a `settle()` to come.  `RefreshSound` shows
that a pass leaves nothing waiting in vain: each part of the pass is `Calm`, so that
what comes later in it makes nothing eligible that came before.

`refresh` is a recursive function over the sequence of contributions that
`FlattenSeq` gives.  `Upwards` is the induction they need, from the well-foundedness of
the natural numbers (`Least`) and without an operator parameter; `Flattened` says what
`FlattenSeq` returns, and `RefreshPasses` that `Refresh` is the end of a pass within
any set of states closed under `ReconcileContribution`.

### Admission

For every set of keys and requests and every composition, TLAPS proves of
`Admission`:

* `OneOwnerAlways`: `OneOwner`;
* `DisposedOwnsNothing`: `DisposedIsEmpty`;
* `NeverACycle`: `AcyclicNowAndThen`;
* `AdmissionImplements`: the refinement `ImplementsRegistry`;
* `AdmissionTypeCorrect`: `TypeOK`.

`AdmissionAssumption` says what a composition is, that a replace call names one
definition, that no request is `Nobody`, and that keys of services and of
actions or installations differ, as `contractKey` and `reserveInstallationAndActions`
tag them.

`OneOwner` is not inductive: `Commit` overwrites owners with what was reserved
long before.  `OwnershipInv` adds why that takes nothing from anybody.  Of a
replacement that has begun (`ReplacementInv`), every key of a successor is locked,
and free or the current installation's (`SuccessorsReserved`); a startup in the
meantime finds those that are free locked, so that it cannot claim them
(`ReserveStep`), and by the time of the commit the current installation is
released and owns nothing.  `StateInv` says that a request publishes once, so that
what it reserves is new.  `Prepared` is the lemma on a batch: it owns what it
claimed, all of which was free, which rests on the claims of its definitions being
disjoint (`ClaimsDisjoint`).  `DisposalInv` is what makes the provider's disposal
complete: it waits for all there is, and nothing is published after it began.

`AcyclicNowAndThen` is inductive beside it.  A graph that keeps some services of an
acyclic one is acyclic (`SubgraphAcyclic`), so that releases do no harm to either
graph; a startup has checked both; and what a replacement leads to when it
begins is contained in the graph that its preflight checked
(`BeginReplacementAcyclic`, which needs `Prepared`).  For `TypeOK`, `QueueInv` says where
each request is in the two promise queues: only the head of the mutations has its
payload validated, only the first of the replacements has got beyond the wait.

For the refinement, `Gives` is what a startup (`ReserveGives`) and a commit
(`CommitGives`) have in common: the batch finds its keys free and gets all of them,
and nobody else gets any.  The commit needs `OwnershipInv` for it, as it looks at
no key any more.  `SuccessionInv` is why no installation is replaced twice: whatever has
been replaced is released; a replacement begins with one that is live, since the
handle is looked at once more after the validators; and while it goes on no other
does.  Requests that are `Quiet` leave the succession as it is, so that each of the
other steps is a stutter (`QuietMaps`), one of its own for the end of a cleanup
(`InstallationStopsMaps`) or for the provider's disposal.

### Remote catalog

For any number of calls, incarnations, changes and failures (`RemoteAssumption`: the
three bounds are numbers), of `RemoteCatalog`:

* `ShownIsTrue`: `SnapshotIsTrue`;
* `PinnedToOneIncarnation`: `OneIncarnation`;
* `NothingAfterDispose`: `DisposedIsFinal`.

`CatalogInv` adds to `SnapshotIsTrue` what makes it last.  `AnswerIsTrue`: with no
invalidation under way, the answer to a query of the current revision is what the
host exposes; an answer that was overtaken by an invalidation is of an older
revision, and is read again.  `ReadInv` ties a pending read to one query.
`IdentityInv` says that the identity is pinned when the startup succeeds, and that
whatever has been shown or sent since is for it.  `AbortInv`: all waits of a disposed
connection have been rejected.  `EventsCounted` bounds the events under way by what
the host has sent, so that none of the model's bounds is ever the reason that an
invalidation is missing.

### Client routing

For any connections, providers, calls, broadcasts and selection directives, of
`ClientRouting`:

* `RegistryOwnsItsSubscriptions`: `SubscriptionsOwned`;
* `NoRecipientDisappears`: `BroadcastIsComplete`;
* `CallsAreNeverRerouted`: `NeverRerouted`;
* `NothingArrivesLate`: `NoLateValue`.

`RoutingAssumption` says that each connection has a provider and that a directive is
a sequence of selectors with at least one, which is what `selection.ts` accepts.

`RegistryInv` is the registry while a listener runs inside `attach()`: the
attachment under way has a subscription and is not yet held, whether the listener
has detached it or not.  `CallInv` says which phases have a target, and that it is
one of the candidates; `CastInv` that the recipients of a broadcast are what its
selection matched when it began, each run or rejected.  That a choice without a
callback is unambiguous (`ChooseIsUnambiguous`) needs the first selector that matches;
`Least` gets it from the well-foundedness of proper inclusion among finite sets,
since no induction over a predicate can be used.

### The local provider

For any calls, generations and listeners, however deep notifications nest, of
`LocalProvider` and thereby of `Invocation` and `LocalCatalog`:

* `HandlersKeepTheirService`: `ServiceOutlivesUse`;
* `TheRightOneIsBlamed`: `BlameIsRight`;
* `EverybodyIsTold`: `CatalogIsCurrent`.  It exempts the states of an open provider with
  an `enable()` pending: that change is announced when the call has settled, and
  until then a subscriber may be behind, whatever the stack.

`InvocationAssumption` has a number of generations; `CatalogAssumption` at least one
frame of notifications, and that `Nobody` is no listener.

`InvocationInv` says of each call under way that its target is up or stopping, in
the generation the call began with (`Held`): only the end of a stop releases it, and
that waits for the calls.  An action's handler also holds the service, whose stop
waits for that of the action.  `Undecided` and `Decided` are what is known of a call
before and after its end is settled on, from which `BlameIsRight` is read off.
`CatalogInv` says who calls the listeners that are behind: a loop on the stack whose
copy has them all, or a disposal that has its notification still to make
(`Answered`).  A listener that unsubscribes, is called or starts another notification
leaves one such loop, whatever frames are above it.

### The examples

* `HostsTakeTurns`: `OneHostProvider`, for any number of restarts (`HostAssumption`);
* `OnlyWholeBuildsAreShown`: `PublishedIsWhole`, for any publishers and number of
  attempts (`PublicationAssumption`);
* `RulesHaveTheirOwners`: `RulesOwned`, which has no constants;
* `InspectorKnowsItsScript`: `MarkerIsTrue`, for any calls (`InspectorAssumption`: none of
  them is the cleanup).

`HostInv`: whoever listens, or has begun to be disposed, has seen every server before
it resolve its disposal, so that the turns need no induction over servers.
`PublicationInv` follows one publisher: from the build on, staging is the build it
began, then the copy is, and nobody else is alive to change either.
`RulesInv` says of each contribution by its phase whether it has its rule.  In
`InspectorInv` the queue of updates is the key: `Queue` says that the browser made
the first of them, `Waiting` which calls each is for, and `Belief` that the last one it
made says what it has, and that the service knows when there is none.

Of the pages, for any entries, servers and numbers of mounts (`MountAssumption`: the
bounds are numbers; `PageAssumption`: the inspector is one of the entries), and for
the renderer any number of mounts and publications (`RendererAssumption`: the first
publication is numbered 1):

* `PageKeepsOneView`: `OneViewPerEntry`;
* `PageFollowsIndex`: `PageFollows`;
* `RendererViewIsCurrent`: `ViewIsCurrent`;
* `PageInvariant`, `RendererInvariant`: the inductive invariants they are read off.

`PageInv` follows the mounts of each key as a sequence (`Linked`).  A mount has been
told to end unless it is the one in the map, and has begun only if all before it are
over (`InTurn`): it waits for the last, which has waited for those before.  Hence no
two draw at once, and the entry's cached state is there as long as one that draws or
has drawn is not told to end, and no longer than one that will evict it
(`CacheOwned`).  `PageFollows` also needs that
`replace()` waits for the very mount it has taken out, whatever the index does
meanwhile.

`RendererInv` is about the chain (`Chained`): only its head has begun, and the one mount
that is not over is at its end.  Whatever publication is cached, was asked for or is
shown is the present one, or an eviction is behind it in the chain, or the document is
closed (`Stands`); `Stage` ties the page's controls to where it is.

### What is only model-checked

Liveness (`CallsSettle`, `StartsSettle`, `StopsSettle`, `WaitsSettle`), which is out of
the prover's reach.  Every invariant, action property and refinement of a passing run
is proved.

`TypeOK`, `FailureSeenAfterCleanup` and `NeverReopened` of
`Activation` and `TypeOK` of `Admission` are proved and not among the runs' properties.

## Not modelled

* Constructors and shape checks of declarations (`core`, parts of
  `provider-admission-validation.ts`): pure, one declaration at a time.
* The provider facade and the server packages: overloads and forwarding.
* Diagnostics: wording, severity and the reporting sink.
* Schema conversion in `devframe/exposure.ts`; the wrapping of arguments and causes in
  remote calls.
* Native authentication and transports.
* `examples/debugger`, whose sessions and recovery are third-party packages';
  `examples/contribution` and `examples/server-contexts`, which declare what the
  runtime runs and drive it.
* `examples/webext`: `server-views.ts`, whose mounts follow the protocol of `panel.ts`
  (it refers to action names that it does not import); the response filters, which the
  browser runs by itself; the inspector's reading and configuring; the probe
  button that gets the counter's state outside a mount.
* Build scripts, patches to third-party packages, documents and the scripts that
  record evidence of browser experiments: no part of the running system.  They are
  most of the repository's lines.

Where a module simplifies what its properties do not tell apart:

* In `Invocation`, a start that fails leaves nothing behind (`StartEnds`), although its
  cleanup may fail too, and a stop that is blocked by a dependent ends when its own
  calls have (`StopEnds`), although the code gives up without waiting for them.
  `ProviderLifecycle` has both.
* `LocalProvider`'s `Disable` is of a contribution that starts or is active; one that
  waits or failed changes its status and is announced in the same way.
* `ClientRouting` has no `attach()` inside the `subscribe()` of another: the two
  commute.
* `RendererPage` changes the publication and the page's index in one step.  A view
  whose `dispose` throws is not modelled.

Some hazards have no property.  User code that awaits its own handle's `disable()` or
`dispose()` inside a setup or a cleanup waits for itself, and nothing in the code
prevents it.  A replacement waits for its successor's setups inside the queue of
replacements, so that one setup that never settles holds up the next replacement, by
design.  A broadcast that fails is only logged, with nothing to check but that the
host refuses calls made on the old snapshot (`OneIncarnation`).  A rule that a
terminated worker left behind keeps its id taken until the session ends.

## Plan

The packages were modelled in the order of what the rest relies on (activation,
lifecycle, remote catalog, client routing, admission, the local provider), then the
examples.  What is left:

1. *Compose.*  An abstract provider (open, its contracts active or not, disposed)
   that `ProviderLifecycle` implements and that `RemoteCatalog` and
   `ClientRouting` use.
2. *Abstract.*  A page of views, each after the one before, that `MountedViews` and
   `RendererPage` both implement.
