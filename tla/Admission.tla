------------------------------- MODULE Admission -------------------------------
(***************************************************************************)
(* Admission of installations to a provider, and their replacement:        *)
(* packages/runtime/src/admission.ts with its provider-admission-*.ts      *)
(* helpers, and provider-controller.ts.                                    *)
(*                                                                         *)
(* An action is one synchronous segment.  Payload validators and cleanups  *)
(* belong to users, and the setups a request waits for in settle() to      *)
(* ProviderLifecycle: here each just ends, if it does.  A contract key     *)
(* stands for itself; a definition is the keys it asks for.                *)
(***************************************************************************)
EXTENDS Naturals, Sequences, FiniteSets, SequencesExt

CONSTANTS
  Key,            \* capability, action and installation keys
  Requests,       \* startup, install and replace calls, each made once
  Replaces,       \* those of them that are replace calls
  Composition     \* [Requests -> the definitions of the call, in batch order]

(* A definition asks for an installation key, for services, which require  *)
(* others, and for actions.                                                *)
Definition == [kind : {"service", "plugin"}, installation : Key, services : SUBSET Key,
               requires : [Key -> SUBSET Key], actions : SUBSET Key]

Nobody == "nobody"

(* Keys of different kinds are different keys. *)
ASSUME AdmissionAssumption ==
  /\ Replaces \subseteq Requests /\ Nobody \notin Requests
  /\ Composition \in [Requests -> Seq(Definition)]
  /\ \A r \in Replaces : Len(Composition[r]) = 1
  /\ \A r, q \in Requests : \A n \in DOMAIN Composition[r], m \in DOMAIN Composition[q] :
       Composition[r][n].services \cap
         (Composition[q][m].actions \cup {Composition[q][m].installation}) = {}

VARIABLES
  strict,         \* options.strict, fixed
  owners,         \* AdmissionRegistry.owners: keys to reservations
  replacement,    \* AdmissionRegistry.replacement
  installation,   \* what has been published: reservations to their state
  status,         \* of the provider
  pending,        \* the installations dispose() found
  request,        \* [Requests -> phase, the reservation replaced, admissions]
  mutations,      \* the requests queued on ProviderController.mutation
  turns           \* those queued on ProviderController.replacements

registryVars == <<strict, owners, replacement>>
queueVars == <<mutations, turns>>
vars == <<registryVars, installation, status, pending, request, queueVars>>

Reservation(r) == [request : {r}, index : DOMAIN Composition[r], services : SUBSET Key]
Reservations == UNION {Reservation(r) : r \in Requests}
Unreal(n) == [request |-> Nobody, index |-> n, services |-> {}]
Free == Unreal(0)                  \* no owner
Lock == Unreal(1)                  \* replacementLock
Skip == Unreal(2)                  \* an admission that was skipped
Unowned == [k \in Key |-> Free]
NoReplacement == [by |-> Nobody, current |-> Free, successors |-> Unowned, locked |-> {}]
Idle == [phase |-> "idle", of |-> Free, admitted |-> <<>>]

TypeOK ==
  /\ strict \in BOOLEAN
  /\ owners \in [Key -> Reservations \cup {Free}]
  /\ replacement.by \in {Nobody} \cup Replaces
  /\ replacement.locked \subseteq Key
  /\ DOMAIN installation \subseteq Reservations
  /\ \A i \in DOMAIN installation : installation[i] \in {"live", "disposing", "blocked", "released"}
  /\ status \in {"open", "disposing", "disposed", "cleanup-blocked"}
  /\ pending \subseteq DOMAIN installation
  /\ \A r \in Requests :
       request[r].phase \in {"idle", "waiting", "queued", "validating", "begun", "retiring",
                             "settling", "done", "error"}
  /\ \A r \in Requests :
       /\ request[r].phase \in {"queued", "validating"} <=> r \in Range(mutations)
       /\ request[r].phase \in {"begun", "retiring"} <=> r = replacement.by
  /\ IsInjective(mutations) /\ IsInjective(turns)

Init ==
  /\ strict \in BOOLEAN
  /\ owners = Unowned /\ replacement = NoReplacement
  /\ installation = <<>>
  /\ status = "open" /\ pending = {}
  /\ request = [r \in Requests |-> Idle]
  /\ mutations = <<>> /\ turns = <<>>

-------------------------------------------------------------------------------
(* The registry. *)

Taken(f) == {k \in Key : f[k] # Free}
Without(f, reservations) == [k \in Key |-> IF f[k] \in reservations THEN Free ELSE f[k]]

DefinitionOf(reservation) == Composition[reservation.request][reservation.index]
OtherKeys(d) == d.actions \cup {d.installation}
KeysOf(reservation) == reservation.services \cup OtherKeys(DefinitionOf(reservation))

Services(f) == {k \in Key : k \in f[k].services}
Needs(f, k) == DefinitionOf(f[k]).requires[k]

(* assertAcyclic: every set of services has one that needs no other of it. *)
Acyclic(f) ==
  \A S \in SUBSET Services(f) : S # {} => \E k \in S : Needs(f, k) \cap S = {}

(* Mutation: what a replacement holds may be taken meanwhile. *)
Unlocked == {}
Locked == replacement.locked

Pending(replacing) ==
  Without([k \in Key |-> IF k \in Locked \ Taken(owners) THEN Lock ELSE owners[k]], replacing)

(* The owners a pending replacement leads to. *)
Future(f) ==
  [k \in Key |-> IF replacement.successors[k] # Free THEN replacement.successors[k]
                 ELSE IF f[k] \in {replacement.current, Lock} THEN Free ELSE f[k]]

(* Mutation: only the graph of the present owners is checked. *)
FutureUnchecked(f) == TRUE
FutureAcyclic(f) == replacement.by # Nobody => Acyclic(Future(f))

(* admitDefinition, for the n-th definition of a batch that finds the      *)
(* owners f.  A capability goes to the first that offers it; a service     *)
(* left with none is skipped, anything else claims its keys as well.       *)
Earlier(r, n) == {m \in DOMAIN Composition[r] : m < n}
Selected(r, n, f) ==
  Composition[r][n].services \ (Taken(f) \cup UNION {Composition[r][m].services : m \in Earlier(r, n)})
Skipped(r, n, f) == Composition[r][n].kind = "service" /\ Selected(r, n, f) = {}
Reserved(r, n, f) == [request |-> r, index |-> n, services |-> Selected(r, n, f)]
Claims(r, n, f) == IF Skipped(r, n, f) THEN {} ELSE KeysOf(Reserved(r, n, f))

(* Only in relaxed mode may a capability be somebody else's, and none of   *)
(* the other keys ever.                                                    *)
Conflicts(r, n, f) ==
  \/ strict /\ Selected(r, n, f) # Composition[r][n].services
  \/ /\ ~Skipped(r, n, f)
     /\ OtherKeys(Composition[r][n]) \cap
          (Taken(f) \cup UNION {Claims(r, m, f) : m \in Earlier(r, n)}) # {}

(* prepareBatch: what the owners would be, and whether it is admitted. *)
Prepare(r, replacing) ==
  LET f == Pending(replacing)
      batch == DOMAIN Composition[r]
  IN [ok |-> \A n \in batch : ~Conflicts(r, n, f),
      owners |-> [k \in Key |->
        IF \E n \in batch : k \in Claims(r, n, f)
        THEN Reserved(r, CHOOSE n \in batch : k \in Claims(r, n, f), f) ELSE f[k]],
      admitted |-> [n \in batch |-> IF Skipped(r, n, f) THEN Skip ELSE Reserved(r, n, f)]]
Accepted(batch) == batch.ok /\ Acyclic(batch.owners) /\ FutureAcyclic(batch.owners)

Admitted(admissions) == {admissions[n] : n \in DOMAIN admissions} \ {Skip}

-------------------------------------------------------------------------------
(* ProviderController. *)

Open == status = "open"
Goto(r, phase) == request' = [request EXCEPT ![r].phase = phase]
Leave(r, phase) == request' = [request EXCEPT ![r] = [Idle EXCEPT !.phase = phase]]

(* environment.settle(), with the installation replaced, if any. *)
Settle(r, current) ==
  request' = [request EXCEPT ![r] = [phase |-> "settling", of |-> current, admitted |-> <<>>]]

(* publish(): an installation for each reservation admitted. *)
Publish(admissions) ==
  installation' = [i \in DOMAIN installation \cup Admitted(admissions) |->
                     IF i \in DOMAIN installation THEN installation[i] ELSE "live"]

(* startup() and install() up to mutate(). *)
Start(r) ==
  /\ r \notin Replaces /\ request[r].phase = "idle"
  /\ IF Open THEN Goto(r, "queued") /\ mutations' = Append(mutations, r)
     ELSE Goto(r, "error") /\ UNCHANGED mutations
  /\ UNCHANGED <<registryVars, installation, status, pending, turns>>

(* replace(): wait for the replacements before. *)
Replace(r, i) ==
  /\ r \in Replaces /\ request[r].phase = "idle"
  /\ IF Open THEN /\ request' = [request EXCEPT ![r].phase = "waiting", ![r].of = i]
                  /\ turns' = Append(turns, r)
     ELSE Leave(r, "error") /\ UNCHANGED turns
  /\ UNCHANGED <<registryVars, installation, status, pending, mutations>>

(* replacementOwner: the handle is of an installation of this kind that is *)
(* neither disposed nor being disposed.                                    *)
SameKind(r) == DefinitionOf(request[r].of).kind = Composition[r][1].kind
Replaceable(r) == installation[request[r].of] = "live" /\ SameKind(r)

(* A replace call ends: the next one has its turn. *)
EndTurn(r) == turns' = IF r \in Replaces THEN Tail(turns) ELSE turns
Fail(r) == Leave(r, "error") /\ EndTurn(r)

(* performReplacement up to mutate(). *)
TakeTurn(r) ==
  /\ turns # <<>> /\ r = Head(turns)
  /\ request[r].phase = "waiting"
  /\ IF Open /\ Replaceable(r)
     THEN Goto(r, "queued") /\ mutations' = Append(mutations, r) /\ UNCHANGED turns
     ELSE Fail(r) /\ UNCHANGED mutations
  /\ UNCHANGED <<registryVars, installation, status, pending>>

Replacing(r) == IF r \in Replaces THEN {request[r].of} ELSE {}
EndMutation == mutations' = Tail(mutations)

(* The mutation's work up to the payload validators: the preflight. *)
Preflight(r) ==
  /\ mutations # <<>> /\ r = Head(mutations)
  /\ request[r].phase = "queued"
  /\ \E batch \in {Prepare(r, Replacing(r))} :
        IF Open /\ Accepted(batch)
        THEN Goto(r, "validating") /\ UNCHANGED queueVars
        ELSE Fail(r) /\ EndMutation
  /\ UNCHANGED <<registryVars, installation, status, pending>>

PayloadInvalid(r) ==
  /\ request[r].phase = "validating"
  /\ Fail(r)
  /\ EndMutation
  /\ UNCHANGED <<registryVars, installation, status, pending>>

(* Mutation: the state before the validators is taken for that after. *)
OpenedBefore == TRUE
StillOpen == Open

(* The validators passed.  A startup reserves its batch and publishes it.  *)
Reserve(r) ==
  /\ r \notin Replaces /\ request[r].phase = "validating"
  /\ \E batch \in {Prepare(r, {})} :
        IF StillOpen /\ Accepted(batch)
        THEN /\ owners' = Without(batch.owners, {Lock})
             /\ Publish(batch.admitted)
             /\ Settle(r, Free)
             /\ UNCHANGED turns
        ELSE Fail(r) /\ UNCHANGED <<owners, installation>>
  /\ EndMutation
  /\ UNCHANGED <<strict, replacement, status, pending>>

(* Mutation: the turn is not given back when the replacement has begun. *)
HoldsMutation == UNCHANGED mutations
YieldsMutation == EndMutation

(* A replacement reserves its successors beside the present owners. *)
BeginReplacement(r) ==
  /\ r \in Replaces /\ request[r].phase = "validating"
  /\ \E batch \in {Prepare(r, Replacing(r))} :
     LET mine == {k \in Key : batch.owners[k] \in Admitted(batch.admitted)}
         current == request[r].of
     IN IF StillOpen /\ Replaceable(r) /\ replacement = NoReplacement /\ Accepted(batch)
        THEN /\ replacement' = [by |-> r, current |-> current,
                  successors |-> [k \in Key |-> IF k \in mine THEN batch.owners[k] ELSE Free],
                  locked |-> mine \cup {k \in Key : owners[k] = current}]
             /\ request' = [request EXCEPT ![r].phase = "begun", ![r].admitted = batch.admitted]
             /\ UNCHANGED turns
        ELSE Fail(r) /\ UNCHANGED replacement
  /\ YieldsMutation
  /\ UNCHANGED <<strict, owners, installation, status, pending>>

(* handle.dispose() of an installation, as far as admission sees it. *)
Disposing(I) ==
  [i \in DOMAIN installation |-> IF i \in I /\ installation[i] = "live" THEN "disposing"
                                 ELSE installation[i]]

(* performReplacement after the mutation: a service whose successor was    *)
(* skipped stays; anything else is retired first.                          *)
Retire(r) ==
  /\ request[r].phase = "begun"
  /\ IF Composition[r][1].kind = "service" /\ request[r].admitted = <<Skip>>
     THEN /\ replacement' = NoReplacement
          /\ Leave(r, "done") /\ EndTurn(r)
          /\ UNCHANGED installation
     ELSE /\ installation' = Disposing({request[r].of})
          /\ Goto(r, "retiring")
          /\ UNCHANGED <<replacement, turns>>
  /\ UNCHANGED <<strict, owners, status, pending, mutations>>

Retired(i) == installation[i] = "released"

(* commit() and publish(), or abort(). *)
Commit(r) ==
  /\ request[r].phase = "retiring"
  /\ Retired(request[r].of)
  /\ Open
  /\ owners' = Future(owners)
  /\ replacement' = NoReplacement
  /\ Publish(request[r].admitted)
  /\ Settle(r, request[r].of)
  /\ UNCHANGED <<strict, status, pending, queueVars>>

Abort(r) ==
  /\ request[r].phase = "retiring"
  /\ installation[request[r].of] = "blocked" \/ (Retired(request[r].of) /\ ~Open)
  /\ replacement' = NoReplacement
  /\ Fail(r)
  /\ UNCHANGED <<strict, owners, installation, status, pending, mutations>>

(* environment.settle() resolved. *)
Settled(r) ==
  /\ request[r].phase = "settling"
  /\ Goto(r, "done")
  /\ EndTurn(r)
  /\ UNCHANGED <<registryVars, installation, status, pending, mutations>>

-------------------------------------------------------------------------------
(* Installations, and the provider's own disposal. *)

DisposeInstallation(i) ==
  /\ installation[i] = "live"
  /\ installation' = Disposing({i})
  /\ UNCHANGED <<registryVars, status, pending, request, queueVars>>

(* completeDisposal releases the reservation, unless a cleanup failed. *)
InstallationStops(i) ==
  /\ installation[i] = "disposing"
  /\ \/ /\ installation' = [installation EXCEPT ![i] = "released"]
        /\ owners' = Without(owners, {i})
     \/ /\ installation' = [installation EXCEPT ![i] = "blocked"]
        /\ UNCHANGED owners
  /\ UNCHANGED <<strict, replacement, status, pending, request, queueVars>>

Unreleased == {i \in DOMAIN installation : installation[i] # "released"}

DisposeProvider ==
  /\ Open
  /\ status' = "disposing"
  /\ pending' = Unreleased
  /\ installation' = Disposing(pending')
  /\ UNCHANGED <<registryVars, request, queueVars>>

CompleteDisposal ==
  /\ status = "disposing"
  /\ \A i \in pending : installation[i] \in {"released", "blocked"}
  /\ status' = IF \E i \in pending : installation[i] = "blocked" THEN "cleanup-blocked" ELSE "disposed"
  /\ pending' = {}
  /\ UNCHANGED <<registryVars, installation, request, queueVars>>

-------------------------------------------------------------------------------
Turn == \E r \in Requests :
  TakeTurn(r) \/ Preflight(r) \/ PayloadInvalid(r) \/ Reserve(r) \/ BeginReplacement(r)

Setups == \E r \in Requests \ Replaces : Settled(r)

Retirement == \/ \E r \in Replaces : Retire(r) \/ Commit(r) \/ Abort(r) \/ Settled(r)
              \/ \E i \in DOMAIN installation : InstallationStops(i)
              \/ CompleteDisposal

User == \/ \E r \in Requests : Start(r) \/ \E i \in DOMAIN installation : Replace(r, i)
        \/ \E i \in DOMAIN installation : DisposeInstallation(i)
        \/ DisposeProvider

Next == User \/ Turn \/ Setups \/ Retirement

Spec == Init /\ [][Next]_vars

(* Validators return and setups settle: nobody runs at the head of the     *)
(* mutations, or waits for setups, forever.  (Both can always be left, so  *)
(* this is weak fairness of Turn and Setups.)  No cleanup has to end:      *)
(* nothing is assumed of Retirement.                                       *)
Runs(r) ==
  mutations # <<>> /\ r = Head(mutations) /\ request[r].phase \in {"queued", "validating"}
SettlesSetups(r) == r \notin Replaces /\ request[r].phase = "settling"
FairSpec == Spec /\ \A r \in Requests : []<>(~Runs(r)) /\ []<>(~SettlesSetups(r))

-------------------------------------------------------------------------------
(* Properties. *)

(* A key has one owner until it is released: whatever has been published   *)
(* and not yet cleaned up still owns every key it asked for, and nobody    *)
(* else owns any.  A successor that did not wait, or a stranger admitted   *)
(* during a replacement, would take one from it.                           *)
OneOwner ==
  /\ \A i \in Unreleased : \A k \in KeysOf(i) : owners[k] = i
  /\ \A k \in Taken(owners) : owners[k] \in Unreleased

(* "Admission checks dependency cycles against both possible service       *)
(* graphs": the present one, and the one a pending replacement leads to.   *)
AcyclicNowAndThen ==
  /\ Acyclic(owners)
  /\ replacement.by # Nobody => Acyclic(Future(owners))

(* A provider that says it is disposed owns nothing and will not again,    *)
(* whatever was being admitted when it was disposed.                       *)
DisposedIsEmpty ==
  status = "disposed" => Unreleased = {} /\ owners = Unowned

(* "Without holding the turn through replacement cleanup": a startup or    *)
(* install settles even if a replaced installation never does.             *)
StartsSettle ==
  \A r \in Requests \ Replaces :
    request[r].phase = "queued" ~> request[r].phase \in {"done", "error"}

(* What the registry and the controller promise together: Registry. *)
Replaced(r) == request[r].phase \in {"settling", "done"} /\ request[r].of # Free
PublishedBy(r) == {i \in DOMAIN installation : i.request = r}
Succession == {<<request[r].of, PublishedBy(r)>> : r \in {q \in Replaces : Replaced(q)}}
Promised == INSTANCE Registry WITH
  Key <- Key, Asks <- KeysOf, Nobody <- Free,
  owner <- owners,
  holding <- Unreleased,
  released <- DOMAIN installation \ Unreleased,
  succession <- Succession,
  open <- Open

(* "Synchronous admission reserves the entire batch": what is admitted     *)
(* gets all its keys at once, and gives them up at once; and nothing is    *)
(* replaced twice, nor before it is gone, however calls with the same      *)
(* handle overlap.                                                         *)
ImplementsRegistry == Promised!Spec
===============================================================================
