-------------------------- MODULE RemoteCatalogProofs --------------------------
(***************************************************************************)
(* Theorems about RemoteCatalog, for any number of calls, of providers     *)
(* installed one after the other, of changes and of failures: what a       *)
(* remote connection shows, what it speaks for and what its end leaves.    *)
(***************************************************************************)
EXTENDS RemoteCatalog, TLAPS

(* The events the installed provider has still to send: its publication    *)
(* and its withdrawal.  Each event sent is under way, or was counted by a  *)
(* revision, or came while nobody listened.                                *)
Owed == IF host = "starting" THEN 2 ELSE IF host = "open" THEN 1 ELSE 0
EventsCounted == events + revision + Owed <= changes + 2 * incarnation

(* Only an open provider is exposed, as the last one installed. *)
ExposureInv ==
  /\ exposed = IF host = "open" THEN incarnation ELSE 0
  /\ host \in {"starting", "open"} => incarnation # 0

(* A read under way is one query, of a revision that has been; there is    *)
(* none before the start and after the end, when nothing is shown either.  *)
ReadInv ==
  /\ read = NoRead <=> query = "none"
  /\ read <= revision \/ read = NoRead
  /\ ~Listening => read = NoRead /\ current = Unknown
  /\ phase = "rejected" => aborted
  /\ aborted => phase \in {"ready", "rejected"}

(* The identity is pinned when the startup succeeds, and everything the    *)
(* connection has shown or sent since is for it.                           *)
IdentityInv ==
  /\ identity # 0 <=> phase = "ready"
  /\ current # Unknown => current.incarnation = identity
  /\ \A c \in Calls :
       /\ call[c].message # "none" => call[c].to = identity /\ identity # 0
       /\ call[c].message = "executed" => call[c].by = call[c].to

(* Every wait of a disposed connection has been rejected. *)
AbortInv == aborted => \A c \in Calls : ~Waiting(c)

(* An answer to a query of the current revision is what the host exposes,  *)
(* unless an invalidation is under way.                                    *)
AnswerIsTrue == events = 0 /\ query = "answered" /\ read = revision => answer = HostSnapshot

CatalogInv ==
  /\ SnapshotIsTrue
  /\ EventsCounted /\ ExposureInv
  /\ ReadInv /\ IdentityInv /\ AbortInv /\ AnswerIsTrue

-------------------------------------------------------------------------------
(* The first state. *)
LEMMA CatalogInit == Init => CatalogInv
<1> SUFFICES ASSUME Init PROVE CatalogInv
  OBVIOUS
<1>1. MaxEvents \in Nat /\ NoRead \in 0 .. NoRead /\ NoRead # 0
  BY RemoteAssumption DEF MaxEvents, NoRead
<1>2. Unknown \in Snapshot
  BY DEF Snapshot
<1>3. TypeOK
  <2>1. Idle \in [message : {"none", "sent", "executed", "refused"}, to : 0 .. MaxIncarnation,
                  by : 0 .. MaxIncarnation, outcome : {"none", "value", "error"}]
    BY RemoteAssumption DEF Idle
  <2>2. call \in [Calls -> [message : {"none", "sent", "executed", "refused"},
                           to : 0 .. MaxIncarnation, by : 0 .. MaxIncarnation,
                           outcome : {"none", "value", "error"}]]
    BY <2>1 DEF Init
  <2>3. /\ 0 \in 0 .. MaxIncarnation /\ 0 \in 0 .. MaxEvents
        /\ 0 \in 0 .. MaxChanges /\ 0 \in 0 .. MaxFailures
    BY <1>1, RemoteAssumption
  <2> QED BY <1>1, <1>2, <2>2, <2>3 DEF Init, TypeOK
<1>4. SnapshotIsTrue
  <2>1. current = Unknown /\ ~Listening
    BY DEF Init, Listening
  <2> QED BY <1>3, <2>1 DEF SnapshotIsTrue
<1>5. ExposureInv /\ AnswerIsTrue
  BY DEF Init, ExposureInv, AnswerIsTrue
<1>6. EventsCounted /\ ReadInv
  BY <1>1, RemoteAssumption DEF Init, EventsCounted, Owed, ReadInv, Listening
<1>7. IdentityInv /\ AbortInv
  BY DEF Init, IdentityInv, AbortInv, Idle
<1> QED BY <1>4, <1>5, <1>6, <1>7 DEF CatalogInv

(* The counters after every step. *)
LEMMA CountStep ==
  ASSUME CatalogInv, [Next]_vars
  PROVE  /\ EventsCounted'
         /\ events' \in Nat /\ revision' \in Nat
         /\ changes' \in 0 .. MaxChanges /\ incarnation' \in 0 .. MaxIncarnation
<1> USE RemoteAssumption DEF CatalogInv, SnapshotIsTrue, TypeOK, EventsCounted, Owed, hostVars, netVars, catalogVars
<1>1. CASE Install
  BY <1>1 DEF Install
<1>2. CASE StartupSucceeds
  BY <1>2 DEF StartupSucceeds, Notify
<1>3. CASE DisposeProvider
  BY <1>3 DEF DisposeProvider, Clear, Notify
<1>4. CASE Release
  BY <1>4 DEF Release
<1>5. CASE ContributionChanges
  BY <1>5 DEF ContributionChanges, Notify
<1>6. CASE Invalidate
  BY <1>6 DEF Invalidate
<1>7. CASE UNCHANGED <<host, incarnation, changes, events, revision>>
  BY <1>7
<1>8. CASE AnswerQuery \/ MissQuery \/ FailQuery \/ Start \/ Dispose \/ UNCHANGED vars
  BY <1>7, <1>8 DEF AnswerQuery, MissQuery, FailQuery, Start, Dispose, vars
<1>9. CASE ReadFails \/ ReadAgain \/ ReadDisposes \/ ReadPublishes
  BY <1>7, <1>9 DEF ReadFails, ReadAgain, ReadDisposes, ReadPublishes
<1>10. CASE \E c \in Calls : MakeCall(c) \/ CallFails(c) \/ Serve(c) \/ CallReturns(c)
  BY <1>7, <1>10 DEF MakeCall, CallFails, Serve, CallReturns
<1> QED BY <1>1, <1>2, <1>3, <1>4, <1>5, <1>6, <1>8, <1>9, <1>10 DEF Next, Environment, Internal

(* The bounds cap what comes, so the counters of what follows are capped. *)
LEMMA BoundStep ==
  ASSUME CatalogInv, [Next]_vars
  PROVE  /\ MaxEvents \in Nat /\ revision \in 0 .. MaxEvents
         /\ events' \in 0 .. MaxEvents /\ revision' \in 0 .. MaxEvents
BY CountStep, RemoteAssumption DEF CatalogInv, SnapshotIsTrue, TypeOK, EventsCounted, Owed, MaxEvents

(* The host's answers have their type. *)
LEMMA SnapshotTypes ==
  ASSUME TypeOK
  PROVE  /\ Unknown \in Snapshot /\ HostSnapshot \in Snapshot
         /\ \A s \in Snapshot : s # Unknown => s.incarnation \in Incarnation
         /\ 0 \notin Incarnation
BY RemoteAssumption DEF TypeOK, Snapshot, HostSnapshot, Incarnation, Unknown

LEMMA ExposureStep ==
  ASSUME CatalogInv, [Next]_vars
  PROVE  ExposureInv'
<1> USE RemoteAssumption DEF CatalogInv, SnapshotIsTrue, TypeOK, ExposureInv, hostVars
<1>1. CASE Install
  BY <1>1 DEF Install
<1>2. CASE StartupSucceeds
  BY <1>2 DEF StartupSucceeds
<1>3. CASE DisposeProvider
  BY <1>3 DEF DisposeProvider, Clear
<1>4. CASE Release
  BY <1>4 DEF Release
<1>5. CASE UNCHANGED <<host, incarnation, exposed>>
  BY <1>5
<1>6. CASE ContributionChanges \/ Invalidate
  BY <1>5, <1>6 DEF ContributionChanges, Invalidate
<1>7. CASE AnswerQuery \/ MissQuery \/ FailQuery \/ Start \/ Dispose \/ UNCHANGED vars
  BY <1>5, <1>7 DEF AnswerQuery, MissQuery, FailQuery, Start, Dispose, vars
<1>8. CASE ReadFails \/ ReadAgain \/ ReadDisposes \/ ReadPublishes
  BY <1>5, <1>8 DEF ReadFails, ReadAgain, ReadDisposes, ReadPublishes
<1>9. CASE \E c \in Calls : MakeCall(c) \/ CallFails(c) \/ Serve(c) \/ CallReturns(c)
  BY <1>5, <1>9 DEF MakeCall, CallFails, Serve, CallReturns
<1> QED BY <1>1, <1>2, <1>3, <1>4, <1>6, <1>7, <1>8, <1>9 DEF Next, Environment, Internal

(* The read under way, after every step that touches it. *)
LEMMA ReadStep ==
  ASSUME CatalogInv, [Next]_vars
  PROVE  ReadInv'
<1>1. revision \in Nat /\ read \in Nat /\ NoRead \in Nat /\ revision < NoRead /\ revision' < NoRead
  <2>1. read \in Nat
    BY BoundStep DEF CatalogInv, SnapshotIsTrue, TypeOK, NoRead
  <2> QED BY <2>1, BoundStep DEF NoRead
<1>2. phase \in {"idle", "starting", "ready", "rejected"} /\ aborted \in BOOLEAN /\ ReadInv
  BY DEF CatalogInv, SnapshotIsTrue, TypeOK
<1> USE DEF ReadInv, Listening
<1>3. CASE Start
  BY <1>1, <1>2, <1>3 DEF Start, Ask, NoRead
<1>4. CASE Dispose
  BY <1>1, <1>2, <1>4 DEF Dispose, DisposeCatalog, Finished, RejectStartup, NoRead
<1>5. CASE Invalidate
  BY <1>1, <1>2, <1>5 DEF Invalidate, Ask, Forget, NoRead, netVars, catalogVars
<1>6. CASE ReadFails
  BY <1>1, <1>2, <1>6 DEF ReadFails, DisposeCatalog, Finished, FinishedOnFailure, RejectStartup, NoRead
<1>7. CASE ReadAgain
  BY <1>1, <1>2, <1>7 DEF ReadAgain, Ask, NoRead
<1>8. CASE ReadDisposes
  BY <1>1, <1>2, <1>8 DEF ReadDisposes, DisposeCatalog, Finished, RejectStartup, NoRead
<1>9. CASE ReadPublishes
  BY <1>1, <1>2, <1>9 DEF ReadPublishes, Finished, NoRead
<1>10. CASE AnswerQuery \/ MissQuery \/ FailQuery
  BY <1>1, <1>2, <1>10 DEF AnswerQuery, MissQuery, FailQuery, catalogVars, NoRead
<1>11. CASE UNCHANGED <<phase, aborted, revision, read, current, query>>
  BY <1>2, <1>11 DEF NoRead
<1>12. CASE Install \/ StartupSucceeds \/ DisposeProvider \/ Release \/ ContributionChanges \/ UNCHANGED vars
  BY <1>11, <1>12 DEF Install, StartupSucceeds, DisposeProvider, Release, ContributionChanges, vars,
     netVars, catalogVars
<1>13. CASE \E c \in Calls : MakeCall(c) \/ CallFails(c) \/ Serve(c) \/ CallReturns(c)
  BY <1>11, <1>13 DEF MakeCall, CallFails, Serve, CallReturns, netVars, catalogVars
<1> QED
  BY <1>3, <1>4, <1>5, <1>6, <1>7, <1>8, <1>9, <1>10, <1>12, <1>13 DEF Next, Environment, Internal

(* A fresh answer that is published pins an incarnation, and no other.     *)
LEMMA Published ==
  ASSUME CatalogInv, ReadPublishes
  PROVE  /\ identity' \in Incarnation /\ identity' # 0
         /\ identity # 0 => identity' = identity
         /\ current' # Unknown => current'.incarnation = identity'
<1>1. answer \in Snapshot /\ identity \in 0 .. MaxIncarnation /\ phase \in {"starting", "ready"}
  BY DEF CatalogInv, SnapshotIsTrue, TypeOK, ReadInv, Listening, ReadPublishes, Incarnation
<1>2. CASE answer = Unknown
  <2>1. phase = "ready" /\ identity' = identity /\ current' = Unknown
    BY <1>1, <1>2 DEF ReadPublishes, Unavailable
  <2> QED BY <2>1, SnapshotTypes DEF CatalogInv, SnapshotIsTrue, TypeOK
<1>3. CASE answer # Unknown
  <2>1. SameIncarnation(answer) /\ current' = answer /\ Pin(answer)
    BY <1>3 DEF ReadPublishes, Foreign
  <2>2. answer.incarnation \in Incarnation
    BY <1>1, <1>3, SnapshotTypes DEF CatalogInv, SnapshotIsTrue
  <2> QED BY <2>1, <2>2, SnapshotTypes DEF CatalogInv, SnapshotIsTrue, SameIncarnation, Pin
<1> QED BY <1>2, <1>3

(* Disposing the catalog rejects its waits, and changes no message. *)
LEMMA Aborted ==
  ASSUME TypeOK, AbortCalls, NEW c \in Calls
  PROVE  /\ call'[c] = IF Waiting(c) THEN [call[c] EXCEPT !.outcome = "error"] ELSE call[c]
         /\ call'[c].message = call[c].message /\ call'[c].to = call[c].to /\ call'[c].by = call[c].by
         /\ ~Waiting(c)'
         /\ call'[c].outcome = "value" => call[c].outcome = "value"
BY DEF TypeOK, AbortCalls, Waiting

LEMMA IdentityStep ==
  ASSUME CatalogInv, [Next]_vars
  PROVE  IdentityInv' /\ (identity # 0 => identity' = identity)
<1>1. /\ phase \in {"idle", "starting", "ready", "rejected"} /\ TypeOK
      /\ IdentityInv /\ ReadInv
  BY DEF CatalogInv, SnapshotIsTrue, TypeOK
<1>2. call \in [Calls -> [message : {"none", "sent", "executed", "refused"},
                         to : 0 .. MaxIncarnation, by : 0 .. MaxIncarnation,
                         outcome : {"none", "value", "error"}]]
  BY <1>1 DEF TypeOK
<1> USE DEF IdentityInv
<1>3. CASE UNCHANGED <<phase, current, identity, call>>
  BY <1>1, <1>3 DEF Unknown
<1>4. CASE Install \/ StartupSucceeds \/ DisposeProvider \/ Release \/ ContributionChanges \/ UNCHANGED vars
  BY <1>3, <1>4 DEF Install, StartupSucceeds, DisposeProvider, Release, ContributionChanges, vars,
     catalogVars
<1>5. CASE AnswerQuery \/ MissQuery \/ FailQuery \/ ReadAgain
  BY <1>3, <1>5 DEF AnswerQuery, MissQuery, FailQuery, ReadAgain, catalogVars
<1>6. CASE Start
  BY <1>1, <1>6 DEF Start, Unknown
<1>7. CASE Invalidate
  BY <1>1, <1>7 DEF Invalidate, Forget, Unknown, catalogVars
<1>8. ASSUME DisposeCatalog, UNCHANGED identity PROVE IdentityInv' /\ (identity # 0 => identity' = identity)
  BY <1>1, <1>8, Aborted DEF DisposeCatalog, RejectStartup, Unknown
<1>9. CASE Dispose \/ ReadDisposes
  BY <1>8, <1>9 DEF Dispose, ReadDisposes
<1>10. CASE ReadFails
  BY <1>3, <1>8, <1>10 DEF ReadFails
<1>11. CASE ReadPublishes
  BY <1>1, <1>11, Published DEF ReadPublishes, Unknown
<1>12. CASE \E c \in Calls : MakeCall(c)
  <2>1. PICK c \in Calls : MakeCall(c)
    BY <1>12
  <2> QED BY <1>1, <1>2, <2>1 DEF MakeCall, Idle, catalogVars, Unknown
<1>13. CASE \E c \in Calls : CallFails(c) \/ CallReturns(c)
  <2>1. PICK c \in Calls : CallFails(c) \/ CallReturns(c)
    BY <1>13
  <2>2. PICK o : call' = [call EXCEPT ![c].outcome = o]
    BY <2>1 DEF CallFails, CallReturns
  <2> QED BY <1>1, <1>2, <2>1, <2>2 DEF CallFails, CallReturns, catalogVars, Unknown
<1>14. CASE \E c \in Calls : Serve(c)
  <2>1. PICK c \in Calls : Serve(c)
    BY <1>14
  <2> QED BY <1>1, <1>2, <2>1 DEF Serve, Selected, catalogVars, Unknown
<1> QED
  BY <1>4, <1>5, <1>6, <1>7, <1>9, <1>10, <1>11, <1>12, <1>13, <1>14 DEF Next, Environment, Internal

(* Nothing waits once the catalog is disposed, and nothing begins to. *)
LEMMA AbortStep ==
  ASSUME CatalogInv, [Next]_vars
  PROVE  AbortInv'
<1>1. TypeOK /\ AbortInv /\ ReadInv /\ IdentityInv
  BY DEF CatalogInv, SnapshotIsTrue
<1> USE DEF AbortInv
<1>3. CASE UNCHANGED <<aborted, call>>
  BY <1>1, <1>3 DEF Waiting
<1>4. CASE Install \/ StartupSucceeds \/ DisposeProvider \/ Release \/ ContributionChanges \/ UNCHANGED vars
  BY <1>3, <1>4 DEF Install, StartupSucceeds, DisposeProvider, Release, ContributionChanges, vars,
     catalogVars
<1>5. CASE AnswerQuery \/ MissQuery \/ FailQuery \/ ReadAgain \/ Start \/ Invalidate \/ ReadPublishes
  BY <1>3, <1>5 DEF AnswerQuery, MissQuery, FailQuery, ReadAgain, Start, Invalidate, ReadPublishes,
     catalogVars
<1>6. CASE AbortCalls
  BY <1>1, <1>6, Aborted
<1>7. CASE Dispose \/ ReadDisposes \/ ReadFails
  BY <1>3, <1>6, <1>7 DEF Dispose, ReadDisposes, ReadFails, DisposeCatalog
<1>8. CASE \E c \in Calls : MakeCall(c)
  BY <1>1, <1>8 DEF MakeCall, Open, Idle, Waiting, TypeOK, catalogVars
<1>9. CASE \E c \in Calls : CallFails(c) \/ CallReturns(c)
  BY <1>1, <1>9 DEF CallFails, CallReturns, Waiting, TypeOK, catalogVars
<1>10. CASE \E c \in Calls : Serve(c)
  BY <1>1, <1>10 DEF Serve, Waiting, TypeOK, catalogVars
<1> QED
  BY <1>4, <1>5, <1>7, <1>8, <1>9, <1>10 DEF Next, Environment, Internal

(* Every step keeps the types. *)
HostType ==
  /\ host \in {"none", "starting", "open", "disposing", "blocked"}
  /\ incarnation \in 0 .. MaxIncarnation
  /\ registration \in {"none", "done", "failed"}
  /\ exposed \in {0, incarnation}
  /\ active \in BOOLEAN
  /\ changes \in 0 .. MaxChanges
  /\ failures \in 0 .. MaxFailures

ReadType ==
  /\ events \in 0 .. MaxEvents
  /\ query \in {"none", "sent", "answered", "failed"}
  /\ answer \in Snapshot /\ (query # "answered" => answer = Unknown)
  /\ revision \in 0 .. MaxEvents
  /\ read \in 0 .. NoRead
  /\ lastRead \in 0 .. MaxEvents
  /\ lastFailed \in BOOLEAN

ConnectionType ==
  /\ phase \in {"idle", "starting", "ready", "rejected"}
  /\ current \in Snapshot
  /\ identity \in IF phase = "ready" THEN Incarnation ELSE 0 .. MaxIncarnation
  /\ aborted \in BOOLEAN

CallType ==
  call \in [Calls -> [message : {"none", "sent", "executed", "refused"},
                     to : 0 .. MaxIncarnation, by : 0 .. MaxIncarnation,
                     outcome : {"none", "value", "error"}]]

LEMMA Types == TypeOK <=> HostType /\ ReadType /\ ConnectionType /\ CallType
BY DEF TypeOK, HostType, ReadType, ConnectionType, CallType

LEMMA HostTypeStep ==
  ASSUME CatalogInv, [Next]_vars
  PROVE  HostType'
<1>1. HostType
  BY Types DEF CatalogInv, SnapshotIsTrue
<1>2. exposed' \in {0, incarnation'}
  BY ExposureStep DEF ExposureInv
<1> USE RemoteAssumption DEF HostType
<1>3. CASE Install
  BY <1>1, <1>2, <1>3 DEF Install, Prepared, Unprepared, netVars
<1>4. CASE StartupSucceeds \/ DisposeProvider \/ Release \/ ContributionChanges
  <2>1. active' \in BOOLEAN
    BY <1>1, <1>4 DEF StartupSucceeds, DisposeProvider, Release, ContributionChanges
  <2> QED
    BY <1>1, <1>2, <1>4, <2>1 DEF StartupSucceeds, DisposeProvider, Release, ContributionChanges, netVars
<1>5. CASE UNCHANGED hostVars /\ failures' \in {failures, failures + 1} /\ (failures' = failures \/ failures < MaxFailures)
  BY <1>1, <1>5 DEF hostVars
<1>6. CASE AnswerQuery \/ MissQuery \/ FailQuery \/ Start \/ Dispose \/ Invalidate \/ UNCHANGED vars
  BY <1>5, <1>6 DEF AnswerQuery, MissQuery, FailQuery, Start, Dispose, Invalidate, vars, netVars
<1>7. CASE ReadFails \/ ReadAgain \/ ReadDisposes \/ ReadPublishes
  BY <1>5, <1>7 DEF ReadFails, ReadAgain, ReadDisposes, ReadPublishes
<1>8. CASE \E c \in Calls : MakeCall(c) \/ CallFails(c) \/ Serve(c) \/ CallReturns(c)
  BY <1>5, <1>8 DEF MakeCall, CallFails, Serve, CallReturns, netVars
<1> QED BY <1>3, <1>4, <1>6, <1>7, <1>8 DEF Next, Environment, Internal

LEMMA ReadTypeStep ==
  ASSUME CatalogInv, [Next]_vars
  PROVE  ReadType'
<1>1. ReadType /\ revision \in 0 .. NoRead /\ NoRead \in 0 .. NoRead /\ revision' \in 0 .. NoRead
  BY Types, BoundStep DEF CatalogInv, SnapshotIsTrue, NoRead, ReadType
<1>2. events' \in 0 .. MaxEvents /\ revision' \in 0 .. MaxEvents /\ NoRead' = NoRead
  BY BoundStep DEF NoRead, MaxEvents
<1>3. Unknown \in Snapshot /\ HostSnapshot \in Snapshot
  BY SnapshotTypes DEF CatalogInv, SnapshotIsTrue
<1> USE <1>1, <1>2, <1>3 DEF ReadType
<1>4. CASE UNCHANGED <<query, answer, read, lastRead, lastFailed>>
  BY <1>4
<1>5. CASE Install \/ StartupSucceeds \/ DisposeProvider \/ Release \/ ContributionChanges \/ UNCHANGED vars
  BY <1>4, <1>5 DEF Install, StartupSucceeds, DisposeProvider, Release, ContributionChanges, vars,
     catalogVars, netVars
<1>6. CASE AnswerQuery \/ MissQuery \/ FailQuery
  BY <1>6 DEF AnswerQuery, MissQuery, FailQuery, catalogVars
<1>7. CASE Start \/ ReadAgain
  BY <1>7 DEF Start, ReadAgain, Ask
<1>8. CASE Invalidate
  BY <1>8 DEF Invalidate, Ask
<1>9. CASE Dispose \/ ReadDisposes
  BY <1>9 DEF Dispose, ReadDisposes, DisposeCatalog, Finished, Foreign
<1>10. CASE ReadFails \/ ReadPublishes
  BY <1>10 DEF ReadFails, ReadPublishes, FinishedOnFailure, DisposeCatalog, Finished
<1>11. CASE \E c \in Calls : MakeCall(c) \/ CallFails(c) \/ Serve(c) \/ CallReturns(c)
  BY <1>4, <1>11 DEF MakeCall, CallFails, Serve, CallReturns, netVars, catalogVars
<1> QED BY <1>5, <1>6, <1>7, <1>8, <1>9, <1>10, <1>11 DEF Next, Environment, Internal

LEMMA ConnectionTypeStep ==
  ASSUME CatalogInv, [Next]_vars
  PROVE  ConnectionType'
<1>1. ConnectionType /\ answer \in Snapshot /\ Incarnation \subseteq 0 .. MaxIncarnation
  BY Types DEF CatalogInv, SnapshotIsTrue, ReadType, Incarnation
<1>2. Unknown \in Snapshot
  BY SnapshotTypes DEF CatalogInv, SnapshotIsTrue
<1> USE <1>1, <1>2 DEF ConnectionType
<1>3. CASE UNCHANGED <<phase, current, identity, aborted>>
  BY <1>3
<1>4. CASE Install \/ StartupSucceeds \/ DisposeProvider \/ Release \/ ContributionChanges \/ UNCHANGED vars
  BY <1>3, <1>4 DEF Install, StartupSucceeds, DisposeProvider, Release, ContributionChanges, vars,
     catalogVars
<1>5. CASE AnswerQuery \/ MissQuery \/ FailQuery \/ ReadAgain
  BY <1>3, <1>5 DEF AnswerQuery, MissQuery, FailQuery, ReadAgain, catalogVars
<1>6. CASE Start \/ Invalidate
  BY <1>6 DEF Start, Invalidate, Forget, catalogVars
<1>7. CASE Dispose \/ ReadDisposes \/ ReadFails
  BY <1>7 DEF Dispose, ReadDisposes, ReadFails, DisposeCatalog, RejectStartup
<1>8. CASE ReadPublishes
  BY <1>8, Published DEF ReadPublishes
<1>9. CASE \E c \in Calls : MakeCall(c) \/ CallFails(c) \/ Serve(c) \/ CallReturns(c)
  BY <1>3, <1>9 DEF MakeCall, CallFails, Serve, CallReturns, catalogVars
<1> QED BY <1>4, <1>5, <1>6, <1>7, <1>8, <1>9 DEF Next, Environment, Internal

LEMMA CallTypeStep ==
  ASSUME CatalogInv, [Next]_vars
  PROVE  CallType'
<1>1. CallType /\ identity \in 0 .. MaxIncarnation /\ exposed \in 0 .. MaxIncarnation
  BY Types, RemoteAssumption
     DEF CatalogInv, SnapshotIsTrue, HostType, ConnectionType, Incarnation
<1> USE <1>1 DEF CallType
<1>3. CASE UNCHANGED call
  BY <1>3
<1>4. CASE AbortCalls
  BY <1>4 DEF AbortCalls
<1>5. CASE Dispose \/ ReadDisposes \/ ReadFails
  BY <1>3, <1>4, <1>5 DEF Dispose, ReadDisposes, ReadFails, DisposeCatalog
<1>6. CASE Install \/ StartupSucceeds \/ DisposeProvider \/ Release \/ ContributionChanges \/ UNCHANGED vars
  BY <1>3, <1>6 DEF Install, StartupSucceeds, DisposeProvider, Release, ContributionChanges, vars
<1>7. CASE AnswerQuery \/ MissQuery \/ FailQuery \/ ReadAgain \/ Start \/ Invalidate \/ ReadPublishes
  BY <1>3, <1>7 DEF AnswerQuery, MissQuery, FailQuery, ReadAgain, Start, Invalidate, ReadPublishes
<1>8. CASE \E c \in Calls : MakeCall(c)
  <2>1. PICK c \in Calls : MakeCall(c)
    BY <1>8
  <2>2. CASE call' = [call EXCEPT ![c].message = "sent", ![c].to = identity]
    BY <2>2
  <2>3. CASE call' = [call EXCEPT ![c].outcome = "error"]
    BY <2>3
  <2> QED BY <2>1, <2>2, <2>3 DEF MakeCall
<1>9. CASE \E c \in Calls : CallFails(c) \/ CallReturns(c)
  <2>1. PICK c \in Calls, o \in {"value", "error"} : call' = [call EXCEPT ![c].outcome = o]
    BY <1>9 DEF CallFails, CallReturns
  <2> QED BY <2>1
<1>10. CASE \E c \in Calls : Serve(c)
  <2>1. PICK c \in Calls, m \in {"executed", "refused"} :
          call' = [call EXCEPT ![c].message = m, ![c].by = exposed]
    BY <1>10 DEF Serve
  <2> QED BY <2>1
<1> QED
  BY <1>5, <1>6, <1>7, <1>8, <1>9, <1>10 DEF Next, Environment, Internal

(* Whatever changes what the host exposes is an event under way.  *)
LEMMA ChangesNotify ==
  ASSUME CatalogInv, [Next]_vars, events' = 0
  PROVE  HostSnapshot' = HostSnapshot
<1>1. events \in Nat /\ exposed' = exposed /\ active' = active => HostSnapshot' = HostSnapshot
  BY DEF HostSnapshot, Unknown
<1>2. events \in Nat
  BY DEF CatalogInv, SnapshotIsTrue, TypeOK
<1>3. ~(StartupSucceeds \/ DisposeProvider \/ ContributionChanges)
  BY <1>2 DEF StartupSucceeds, DisposeProvider, ContributionChanges, Clear, Notify
<1>4. exposed' = exposed /\ active' = active
  <2>1. CASE Install \/ Release \/ UNCHANGED vars
    BY <2>1 DEF Install, Release, vars, hostVars
  <2>2. CASE AnswerQuery \/ MissQuery \/ FailQuery \/ Start \/ Dispose \/ Invalidate
    BY <2>2 DEF AnswerQuery, MissQuery, FailQuery, Start, Dispose, Invalidate, hostVars
  <2>3. CASE ReadFails \/ ReadAgain \/ ReadDisposes \/ ReadPublishes
    BY <2>3 DEF ReadFails, ReadAgain, ReadDisposes, ReadPublishes, hostVars
  <2>4. CASE \E c \in Calls : MakeCall(c) \/ CallFails(c) \/ Serve(c) \/ CallReturns(c)
    BY <2>4 DEF MakeCall, CallFails, Serve, CallReturns, hostVars
  <2> QED BY <1>3, <2>1, <2>2, <2>3, <2>4 DEF Next, Environment, Internal
<1> QED BY <1>1, <1>2, <1>4

LEMMA AnswerStep ==
  ASSUME CatalogInv, [Next]_vars
  PROVE  AnswerIsTrue'
<1> SUFFICES ASSUME events' = 0, query' = "answered", read' = revision'
             PROVE  answer' = HostSnapshot'
  BY DEF AnswerIsTrue
<1>1. HostSnapshot' = HostSnapshot
  BY ChangesNotify
<1>2. events \in Nat /\ revision \in Nat /\ read \in Nat /\ AnswerIsTrue /\ ReadInv /\ MaxEvents \in Nat
  BY BoundStep DEF CatalogInv, SnapshotIsTrue, TypeOK, NoRead
<1>3. CASE AnswerQuery
  BY <1>1, <1>3 DEF AnswerQuery
<1>4. CASE UNCHANGED <<events, query, answer, read, revision>>
  BY <1>1, <1>2, <1>4 DEF AnswerIsTrue
<1>5. CASE Install \/ Release \/ UNCHANGED vars
  BY <1>4, <1>5 DEF Install, Release, vars, netVars, catalogVars
<1>6. CASE StartupSucceeds \/ DisposeProvider \/ ContributionChanges
  BY <1>2, <1>6 DEF StartupSucceeds, DisposeProvider, ContributionChanges, Clear, Notify
<1>7. CASE Invalidate
  <2>1. read = NoRead => query' = "sent" \/ query' = "none"
    BY <1>2, <1>7 DEF Invalidate, Ask, ReadInv
  <2>2. Listening
    BY <1>2, <1>7, <2>1 DEF Invalidate, ReadInv
  <2>3. read # NoRead => read' = read /\ revision' = revision + 1 /\ read <= revision
    BY <1>2, <1>7, <2>2 DEF Invalidate, ReadInv
  <2> QED BY <1>2, <2>1, <2>3
<1>8. CASE MissQuery \/ FailQuery \/ Start \/ ReadAgain
  BY <1>8 DEF MissQuery, FailQuery, Start, ReadAgain, Ask
<1>9. CASE Dispose \/ ReadDisposes \/ ReadFails \/ ReadPublishes
  BY <1>9 DEF Dispose, ReadDisposes, ReadFails, ReadPublishes, DisposeCatalog, Finished, FinishedOnFailure
<1>10. CASE \E c \in Calls : MakeCall(c) \/ CallFails(c) \/ Serve(c) \/ CallReturns(c)
  BY <1>4, <1>10 DEF MakeCall, CallFails, Serve, CallReturns, netVars, catalogVars
<1> QED BY <1>3, <1>5, <1>6, <1>7, <1>8, <1>9, <1>10 DEF Next, Environment, Internal

LEMMA SnapshotStep ==
  ASSUME CatalogInv, [Next]_vars
  PROVE  SnapshotIsTrue'
<1>1. TypeOK'
  BY HostTypeStep, ReadTypeStep, ConnectionTypeStep, CallTypeStep
     DEF TypeOK, HostType, ReadType, ConnectionType, CallType
<1> DEFINE Live == current # Unknown \/ (Listening /\ read = NoRead /\ ~lastFailed)
<1>2. ASSUME events' = 0, Live' PROVE current' = HostSnapshot'
  <2>1. HostSnapshot' = HostSnapshot
    BY <1>2, ChangesNotify
  <2>2. events \in Nat /\ MaxEvents \in Nat /\ NoRead' = NoRead /\ Unknown' = Unknown
    BY BoundStep DEF CatalogInv, SnapshotIsTrue, TypeOK, NoRead, MaxEvents, Unknown
  <2>3. ReadInv /\ (events = 0 /\ Live => current = HostSnapshot)
    BY DEF CatalogInv, SnapshotIsTrue
  <2>4. CASE UNCHANGED <<events, phase, current, read, aborted, lastFailed>>
    BY <1>2, <2>1, <2>3, <2>4, <2>2 DEF Listening
  <2>5. CASE Install \/ Release \/ UNCHANGED vars
    BY <2>4, <2>5 DEF Install, Release, vars, netVars, catalogVars
  <2>6. CASE StartupSucceeds \/ DisposeProvider \/ ContributionChanges
    BY <1>2, <2>2, <2>6 DEF StartupSucceeds, DisposeProvider, ContributionChanges, Clear, Notify
  <2>7. CASE AnswerQuery \/ MissQuery \/ FailQuery
    BY <2>4, <2>7 DEF AnswerQuery, MissQuery, FailQuery, catalogVars
  <2>8. CASE Start \/ ReadAgain
    <3>1. current' = current /\ events' = events /\ read' # NoRead
      BY <2>2, <2>8, BoundStep DEF Start, ReadAgain, Ask, NoRead
    <3> QED BY <1>2, <2>1, <2>2, <2>3, <3>1
  <2>9. CASE Invalidate
    <3>1. ~Listening => current' = Unknown /\ ~Listening'
      BY <2>3, <2>9 DEF Invalidate, ReadInv, Listening, catalogVars
    <3>2. Listening => current' = Unknown /\ read' # NoRead
      BY <2>2, <2>9, BoundStep DEF Invalidate, Forget, Ask, NoRead
    <3> QED BY <1>2, <2>2, <3>1, <3>2
  <2>10. CASE DisposeCatalog
    BY <1>2, <2>2, <2>10 DEF DisposeCatalog, Listening
  <2>11. CASE ReadFails /\ phase # "starting"
    BY <1>2, <2>1, <2>2, <2>3, <2>11 DEF ReadFails
  <2>12. CASE Dispose \/ ReadDisposes \/ ReadFails
    BY <2>10, <2>11, <2>12 DEF Dispose, ReadDisposes, ReadFails
  <2>13. CASE ReadPublishes
    <3>1. events = 0 /\ read = revision /\ query = "answered" /\ current' = answer
      BY <1>2, <2>13 DEF ReadPublishes, Stale
    <3> QED BY <2>1, <3>1 DEF CatalogInv, AnswerIsTrue
  <2>14. CASE \E c \in Calls : MakeCall(c) \/ CallFails(c) \/ Serve(c) \/ CallReturns(c)
    BY <2>4, <2>14 DEF MakeCall, CallFails, Serve, CallReturns, netVars, catalogVars
  <2> QED
    BY <2>5, <2>6, <2>7, <2>8, <2>9, <2>12, <2>13, <2>14 DEF Next, Environment, Internal
<1> QED BY <1>1, <1>2 DEF SnapshotIsTrue

LEMMA CatalogStep == CatalogInv /\ [Next]_vars => CatalogInv'
BY CountStep, ExposureStep, ReadStep, IdentityStep, AbortStep, AnswerStep, SnapshotStep
   DEF CatalogInv

-------------------------------------------------------------------------------
(* Nothing the host has withdrawn is shown for longer than the event that  *)
(* says so takes, and a live connection whose last read succeeded shows    *)
(* what is exposed: catalogChanged is sent with every change (exposure.ts) *)
(* and RemoteCatalog.read compares the revision before it publishes.       *)
THEOREM ShownIsTrue == Spec => []SnapshotIsTrue
<1>1. Spec => []CatalogInv
  BY CatalogInit, CatalogStep, PTL DEF Spec
<1>2. CatalogInv => SnapshotIsTrue
  BY DEF CatalogInv
<1> QED BY <1>1, <1>2, PTL

(* assertIdentity: a connection shows one incarnation, keeps it pinned and *)
(* has its calls run by no other, however many providers the host          *)
(* installs one after the other.                                           *)
THEOREM PinnedToOneIncarnation == Spec => OneIncarnation
<1>1. CatalogInv /\ CatalogInv' /\ [Next]_vars =>
        [/\ identity # 0 => identity' = identity
         /\ current' # Unknown => current'.incarnation = identity'
         /\ \A c \in Calls : call'[c].message = "executed" => call'[c].by = identity']_vars
  <2> SUFFICES ASSUME CatalogInv, CatalogInv', [Next]_vars
               PROVE  /\ identity # 0 => identity' = identity
                      /\ current' # Unknown => current'.incarnation = identity'
                      /\ \A c \in Calls : call'[c].message = "executed" => call'[c].by = identity'
    OBVIOUS
  <2> QED BY IdentityStep DEF CatalogInv, IdentityInv, Unknown
<1> QED BY <1>1, CatalogInit, CatalogStep, PTL DEF Spec, OneIncarnation

(* RemoteCatalog.dispose is final: the signal stays aborted, no answer     *)
(* that comes late is shown, no call is sent and none resolves.            *)
THEOREM NothingAfterDispose == Spec => DisposedIsFinal
<1> DEFINE Final == aborted =>
       /\ aborted' /\ current' = Unknown
       /\ \A c \in Calls : /\ call'[c].message = "sent" => call[c].message = "sent"
                           /\ call'[c].outcome = "value" => call[c].outcome = "value"
<1>1. CatalogInv /\ CatalogInv' /\ [Next]_vars => [Final]_vars
  <2> SUFFICES ASSUME CatalogInv, CatalogInv', [Next]_vars, aborted PROVE Final
    OBVIOUS
  <2>1. ReadInv /\ AbortInv /\ TypeOK /\ read = NoRead /\ query = "none"
    BY DEF CatalogInv, SnapshotIsTrue, ReadInv, Listening
  <2>2. aborted'
    <3>1. aborted' \in {aborted, TRUE}
      BY DEF Next, Environment, Internal, Install, DisposeProvider, ContributionChanges, FailQuery,
         Start, Dispose, MakeCall, CallFails, StartupSucceeds, Release, AnswerQuery, MissQuery,
         Invalidate, ReadFails, ReadAgain, ReadDisposes, ReadPublishes, Serve, CallReturns,
         DisposeCatalog, vars, catalogVars
    <3> QED BY <3>1
  <2>3. current' = Unknown
    BY <2>2 DEF CatalogInv, ReadInv, Listening, Unknown
  <2>4. ASSUME NEW c \in Calls
        PROVE  /\ call'[c].message = "sent" => call[c].message = "sent"
               /\ call'[c].outcome = "value" => call[c].outcome = "value"
    <3>1. CASE UNCHANGED call
      BY <3>1
    <3>2. CASE Install \/ StartupSucceeds \/ DisposeProvider \/ Release \/ ContributionChanges \/ UNCHANGED vars
      BY <3>1, <3>2 DEF Install, StartupSucceeds, DisposeProvider, Release, ContributionChanges, vars
    <3>3. CASE AnswerQuery \/ MissQuery \/ FailQuery \/ ReadAgain \/ Start \/ Invalidate \/ ReadPublishes
      BY <3>1, <3>3 DEF AnswerQuery, MissQuery, FailQuery, ReadAgain, Start, Invalidate, ReadPublishes
    <3>4. CASE Dispose \/ ReadDisposes \/ ReadFails
      BY <2>1, <3>4 DEF Dispose, ReadDisposes, ReadFails
    <3>5. CASE \E d \in Calls : MakeCall(d)
      BY <2>1, <3>5 DEF MakeCall, Open, TypeOK
    <3>6. CASE \E d \in Calls : CallFails(d) \/ CallReturns(d)
      BY <2>1, <3>6 DEF CallFails, CallReturns, AbortInv
    <3>7. CASE \E d \in Calls : Serve(d)
      BY <2>1, <3>7 DEF Serve, TypeOK
    <3> QED BY <3>2, <3>3, <3>4, <3>5, <3>6, <3>7 DEF Next, Environment, Internal
  <2> QED BY <2>2, <2>3, <2>4
<1> QED BY <1>1, CatalogInit, CatalogStep, PTL DEF Spec, DisposedIsFinal
===============================================================================
