----------------------------- MODULE RemoteCatalog -----------------------------
(***************************************************************************)
(* A provider exposed over native RPC and one remote connection to it:     *)
(* packages/devframe/src/provider.ts and exposure.ts on the host,          *)
(* client/catalog.ts, catalog-events.ts and connection.ts in the client.   *)
(*                                                                         *)
(* The catalog is reduced to one exposed contract that is active or not.   *)
(* The native transport is external: it answers a query from the state the *)
(* host has at some moment in between, or fails it; it delivers            *)
(* invalidations and answers in any order, each in a task of its own, so   *)
(* the few microtasks between a read's publication and the clearing of     *)
(* `pending` belong to the action that publishes.                          *)
(***************************************************************************)
EXTENDS Naturals, FiniteSets

CONSTANTS
  Calls,            \* calls a user makes through the connection
  MaxIncarnation,   \* bound: providers installed one after the other
  MaxChanges,       \* bound on contribution changes
  MaxFailures       \* bound on queries and calls the transport fails

ASSUME RemoteAssumption ==
  /\ MaxIncarnation \in Nat /\ MaxChanges \in Nat /\ MaxFailures \in Nat

Incarnation == 1 .. MaxIncarnation
MaxEvents == MaxChanges + 2 * MaxIncarnation

VARIABLES
  host,          \* startProvider: none, starting, open, disposing, blocked
  incarnation,   \* of the last provider installed in this native context
  registration,  \* of the exposure's native methods: none, done, failed
  exposed,       \* exposure.current: its incarnation, 0 for none
  active,        \* the exposed contract's status in the provider's catalog
  changes,
  events,        \* catalogChanged events under way to the client
  query,         \* the catalog query: none, sent, answered, failed
  answer,        \* the snapshot the query was answered with
  failures,
  phase,         \* createRpcProviderConnection: idle, starting, ready, rejected
  current,       \* RemoteCatalog.current
  identity,      \* RemoteCatalog.identity: the pinned incarnation, 0 for none
  revision,
  read,          \* the revision the read under way has captured, or NoRead
  aborted,       \* RemoteCatalog.signal
  lastRead,      \* history: the revision captured by the last query sent
  lastFailed,    \* history: the last read to end rejected
  call           \* the calls, on their way and for their callers

hostVars == <<host, incarnation, registration, exposed, active, changes>>
catalogVars == <<phase, current, identity, revision, read, aborted, lastRead, lastFailed>>
netVars == <<events, query, answer, failures>>
vars == <<hostVars, netVars, catalogVars, call>>

Unknown == [incarnation |-> 0, active |-> FALSE]      \* no snapshot: undefined
Snapshot == {Unknown} \cup [incarnation : Incarnation, active : BOOLEAN]
NoRead == MaxEvents + 1
Idle == [message |-> "none", to |-> 0, by |-> 0, outcome |-> "none"]

TypeOK ==
  /\ host \in {"none", "starting", "open", "disposing", "blocked"}
  /\ incarnation \in 0 .. MaxIncarnation
  /\ registration \in {"none", "done", "failed"}
  /\ exposed \in {0, incarnation}
  /\ active \in BOOLEAN
  /\ changes \in 0 .. MaxChanges
  /\ events \in 0 .. MaxEvents
  /\ query \in {"none", "sent", "answered", "failed"}
  /\ answer \in Snapshot /\ (query # "answered" => answer = Unknown)
  /\ failures \in 0 .. MaxFailures
  /\ phase \in {"idle", "starting", "ready", "rejected"}
  /\ current \in Snapshot
  /\ identity \in IF phase = "ready" THEN Incarnation ELSE 0 .. MaxIncarnation
  /\ revision \in 0 .. MaxEvents
  /\ read \in 0 .. NoRead
  /\ aborted \in BOOLEAN
  /\ lastRead \in 0 .. MaxEvents
  /\ lastFailed \in BOOLEAN
  /\ call \in [Calls -> [message : {"none", "sent", "executed", "refused"},
                         to : 0 .. MaxIncarnation, by : 0 .. MaxIncarnation,
                         outcome : {"none", "value", "error"}]]

Init ==
  /\ host = "none" /\ incarnation = 0 /\ registration = "none" /\ exposed = 0 /\ active = FALSE /\ changes = 0
  /\ events = 0 /\ query = "none" /\ answer = Unknown /\ failures = 0
  /\ phase = "idle" /\ current = Unknown /\ identity = 0 /\ revision = 0
  /\ read = NoRead /\ aborted = FALSE /\ lastRead = 0 /\ lastFailed = FALSE
  /\ call = [c \in Calls |-> Idle]

-------------------------------------------------------------------------------
(* The host. *)

(* The catalog handler's answer. *)
HostSnapshot ==
  IF exposed = 0 THEN Unknown ELSE [incarnation |-> exposed, active |-> active]

Notify == events' = events + 1

(* prepareExposure: the native methods are registered once for a context,  *)
(* and refused from then on if that failed half way.  A name that is taken *)
(* is found before anything is registered; the contracts of a later        *)
(* provider may not differ from the first one's.                           *)
Prepared == registration # "failed" /\ registration' = "done"
Unprepared == registration' \in IF registration = "none" THEN {"none", "failed"} ELSE {registration}

(* install(): one provider per native context, with a new incarnation; a   *)
(* startup without an exposure is rejected, and has nothing to clear.      *)
Install ==
  /\ host = "none"
  /\ incarnation < MaxIncarnation
  /\ \/ Prepared /\ host' = "starting"
     \/ Unprepared /\ host' = "disposing"
  /\ incarnation' = incarnation + 1
  /\ UNCHANGED <<exposed, active, changes, netVars, catalogVars, call>>

(* startProvider after the startup: publish() subscribes to the provider's *)
(* catalog, which notifies at once.                                        *)
StartupSucceeds ==
  /\ host = "starting"
  /\ host' = "open"
  /\ exposed' = incarnation
  /\ active' \in BOOLEAN
  /\ Notify
  /\ UNCHANGED <<incarnation, registration, changes, query, answer, failures, catalogVars, call>>

(* clear(): nothing is exposed any more, and the clients are told. *)
Clear ==
  /\ exposed' = 0
  /\ Notify

(* The handle's dispose(), or rejectStartup: release() follows. *)
DisposeProvider ==
  /\ host \in {"starting", "open"}
  /\ host' = "disposing"
  /\ Clear
  /\ UNCHANGED <<incarnation, registration, active, changes, query, answer, failures, catalogVars, call>>

Release ==
  /\ host = "disposing"
  /\ host' \in {"none", "blocked"}
  /\ UNCHANGED <<incarnation, registration, exposed, active, changes, netVars, catalogVars, call>>

(* The provider's lifecycle changes the contract's status and notifies. *)
ContributionChanges ==
  /\ exposed # 0
  /\ changes < MaxChanges
  /\ changes' = changes + 1
  /\ active' = ~active
  /\ Notify
  /\ UNCHANGED <<host, incarnation, registration, exposed, query, answer, failures, catalogVars, call>>

-------------------------------------------------------------------------------
(* The transport. *)

AnswerQuery ==
  /\ query = "sent" /\ registration # "none"
  /\ query' = "answered"
  /\ answer' = HostSnapshot
  /\ UNCHANGED <<hostVars, events, failures, catalogVars, call>>

(* There is no such method: a failed registration may have kept it.        *)
MissQuery ==
  /\ query = "sent" /\ registration # "done"
  /\ query' = "failed"
  /\ UNCHANGED <<hostVars, events, answer, failures, catalogVars, call>>

FailQuery ==
  /\ query = "sent"
  /\ failures < MaxFailures
  /\ failures' = failures + 1
  /\ query' = "failed"
  /\ UNCHANGED <<hostVars, events, answer, catalogVars, call>>

(* A handler pins the incarnation the call was made for, then the provider *)
(* runs the operation if the contract is active.                           *)
Selected(c) == exposed # 0 /\ exposed = call[c].to

Serve(c) ==
  /\ call[c].message = "sent"
  /\ call' = [call EXCEPT ![c].message = IF Selected(c) /\ active THEN "executed" ELSE "refused",
                          ![c].by = exposed]
  /\ UNCHANGED <<hostVars, netVars, catalogVars>>

-------------------------------------------------------------------------------
(* RemoteCatalog. *)

(* One turn of read()'s loop: capture the revision and ask. *)
Ask(r) ==
  /\ read' = r
  /\ lastRead' = r
  /\ query' = "sent"
  /\ answer' = Unknown

(* The read's promise settles, and `finished` clears `pending`. *)
Finished ==
  /\ read' = NoRead
  /\ query' = "none"
  /\ answer' = Unknown

(* Mutation: `finished` is registered for a resolved read only. *)
FinishedIfResolved == query' = "none" /\ answer' = Unknown /\ UNCHANGED read
FinishedOnFailure == Finished

(* A startup's wait rejects with the abort. *)
RejectStartup == phase' = IF phase = "starting" THEN "rejected" ELSE phase

(* dispose(): abort, unsubscribe, publish nothing, reject the local waits. *)
Waiting(c) == call[c].message # "none" /\ call[c].outcome = "none"
AbortNothing == UNCHANGED call              \* mutation: the waits ignore the signal
AbortCalls ==
  call' = [c \in Calls |-> IF Waiting(c) THEN [call[c] EXCEPT !.outcome = "error"] ELSE call[c]]
DisposeCatalog ==
  /\ aborted' = TRUE
  /\ current' = Unknown
  /\ RejectStartup
  /\ Finished
  /\ AbortCalls

Start ==
  /\ phase = "idle"
  /\ phase' = "starting"
  /\ Ask(revision)
  /\ UNCHANGED <<hostVars, events, failures, current, identity, revision, aborted, lastFailed, call>>

(* The connection's dispose(), an aborted startup, or a native status of   *)
(* neither connecting nor connected.                                       *)
Dispose ==
  /\ phase \in {"starting", "ready"}
  /\ ~aborted
  /\ DisposeCatalog
  /\ UNCHANGED <<hostVars, events, failures, identity, revision, lastRead, lastFailed>>

Listening == phase # "idle" /\ ~aborted

Forget == current' = Unknown

(* invalidate(): clear the snapshot at once, and reread; a read under way  *)
(* is shared, and finds the revision changed when its answer comes.        *)
Invalidate ==
  /\ events > 0
  /\ events' = events - 1
  /\ IF Listening
     THEN /\ revision' = revision + 1
          /\ Forget
          /\ IF read = NoRead
             THEN Ask(revision')
             ELSE UNCHANGED <<read, lastRead, query, answer>>
     ELSE UNCHANGED <<revision, current, read, lastRead, query, answer>>
  /\ UNCHANGED <<hostVars, failures, phase, identity, aborted, lastFailed, call>>

(* A rejected read ends: during the startup it disposes, later the failure *)
(* is only reported.                                                       *)
ReadFails ==
  /\ read # NoRead
  /\ query = "failed"
  /\ lastFailed' = TRUE
  /\ IF phase = "starting"
     THEN DisposeCatalog
     ELSE /\ FinishedOnFailure
          /\ UNCHANGED <<phase, current, aborted, call>>
  /\ UNCHANGED <<hostVars, events, failures, identity, revision, lastRead>>

StaleNever == FALSE                         \* mutation: the revision is not compared
Stale == read # revision

ReadAgain ==
  /\ query = "answered"
  /\ Stale
  /\ Ask(revision)
  /\ UNCHANGED <<hostVars, events, failures, phase, current, identity, revision, aborted,
                 lastFailed, call>>

(* assertIdentity: the first snapshot pins the incarnation.  *)
Pin(snapshot) == identity' = IF identity = 0 THEN snapshot.incarnation ELSE identity

AnyIncarnation(snapshot) == TRUE            \* mutation: a successor is welcome
SameIncarnation(snapshot) == identity \in {0, snapshot.incarnation}

(* A fresh answer: another incarnation ends the connection, nothing        *)
(* exposed fails a startup, anything else is published.                    *)
Foreign == answer # Unknown /\ ~SameIncarnation(answer)
Unavailable == answer = Unknown /\ phase = "starting"

ReadDisposes ==
  /\ query = "answered"
  /\ ~Stale
  /\ Foreign \/ Unavailable
  /\ lastFailed' = Foreign
  /\ DisposeCatalog
  /\ UNCHANGED <<hostVars, events, failures, identity, revision, lastRead>>

ReadPublishes ==
  /\ query = "answered"
  /\ ~Stale
  /\ ~Foreign /\ ~Unavailable
  /\ phase' = "ready"
  /\ lastFailed' = FALSE
  /\ current' = answer
  /\ IF answer = Unknown THEN UNCHANGED identity ELSE Pin(answer)
  /\ Finished
  /\ UNCHANGED <<hostVars, events, failures, revision, aborted, lastRead, call>>

-------------------------------------------------------------------------------
(* RemoteConnection: a call looks at the snapshot and is sent, or rejects. *)
Open == ~aborted /\ current.active

MakeCall(c) ==
  /\ phase = "ready"
  /\ call[c] = Idle
  /\ call' = IF Open
             THEN [call EXCEPT ![c].message = "sent", ![c].to = identity]
             ELSE [call EXCEPT ![c].outcome = "error"]
  /\ UNCHANGED <<hostVars, netVars, catalogVars>>

(* The transport gives up on a call that may still arrive. *)
CallFails(c) ==
  /\ Waiting(c)
  /\ failures < MaxFailures
  /\ failures' = failures + 1
  /\ call' = [call EXCEPT ![c].outcome = "error"]
  /\ UNCHANGED <<hostVars, events, query, answer, catalogVars>>

(* The handler answers or throws, and either settles the native call. *)
Served(c) == call[c].message \in {"executed", "refused"}

CallReturns(c) ==
  /\ Waiting(c)
  /\ Served(c)
  /\ \E result \in {"value", "error"} :
       /\ call[c].message = "refused" => result = "error"
       /\ call' = [call EXCEPT ![c].outcome = result]
  /\ UNCHANGED <<hostVars, netVars, catalogVars>>

-------------------------------------------------------------------------------
Environment ==
  \/ Install
  \/ DisposeProvider
  \/ ContributionChanges
  \/ FailQuery
  \/ Start
  \/ Dispose
  \/ \E c \in Calls : MakeCall(c) \/ CallFails(c)

Internal ==
  \/ StartupSucceeds
  \/ Release
  \/ AnswerQuery \/ MissQuery
  \/ Invalidate
  \/ ReadFails
  \/ ReadAgain
  \/ ReadDisposes
  \/ ReadPublishes
  \/ \E c \in Calls : Serve(c) \/ CallReturns(c)

Next == Environment \/ Internal

Spec == Init /\ [][Next]_vars

(* The transport delivers what it carries, or reports a disconnection,     *)
(* which is Dispose; the event loop runs the rest.                         *)
FairSpec == Spec /\ WF_vars(Internal)

-------------------------------------------------------------------------------
(* Properties. *)

(* The state has its type; and with no invalidation under way, a snapshot  *)
(* that is shown is the host's, so nothing withdrawn is shown for longer   *)
(* than an event takes; and once the last read has ended, and not in       *)
(* failure, a live connection shows exactly what the host exposes.         *)
SnapshotIsTrue ==
  /\ TypeOK
  /\ events = 0 /\ (current # Unknown \/ (Listening /\ read = NoRead /\ ~lastFailed))
     => current = HostSnapshot

(* A connection speaks for one incarnation, the one it was created with:   *)
(* what it shows and what it pins never change to another's, and, as "old  *)
(* bindings never select the successor", its calls run on no other.        *)
OneIncarnation ==
  [][/\ identity # 0 => identity' = identity
     /\ current' # Unknown => current'.incarnation = identity'
     /\ \A c \in Calls : call'[c].message = "executed" => call'[c].by = identity']_vars

(* After dispose nothing comes back to life: no snapshot is shown, no call *)
(* is sent and no caller receives a value.                                 *)
DisposedIsFinal ==
  [][aborted =>
       /\ aborted' /\ current' = Unknown
       /\ \A c \in Calls : /\ call'[c].message = "sent" => call[c].message = "sent"
                           /\ call'[c].outcome = "value" => call[c].outcome = "value"]_vars

(* Every startup, every call and every read comes to an end. *)
WaitsSettle ==
  /\ phase = "starting" ~> phase # "starting"
  /\ \A c \in Calls : call[c].message = "sent" ~> call[c].outcome # "none"
  /\ read # NoRead ~> read = NoRead

(* "Payload-free invalidations trigger a new native query": while no read  *)
(* is under way, the last one sent knew of the last invalidation.          *)
InvalidationForcesRead ==
  Listening /\ read = NoRead => lastRead = revision
===============================================================================
