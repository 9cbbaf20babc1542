----------------------------- MODULE ClientRouting -----------------------------
(***************************************************************************)
(* The routing client, packages/client/src: attachments of adapter-owned   *)
(* connections (registry.ts), the choice of one of them for a call         *)
(* (selection.ts), its dispatch (dispatch.ts, action-router.ts,            *)
(* capability-router.ts) and broadcasts (calls.ts).                        *)
(*                                                                         *)
(* One contract is called.  A selector stands for the set of providers it  *)
(* matches; a directive is a list of selectors, and the absence of a       *)
(* policy the list of the selector that matches everything.  Connections,  *)
(* their catalogs and the routing callback are external.  An action is a   *)
(* synchronous segment: what comes after an `await` is another one.        *)
(***************************************************************************)
EXTENDS Naturals, Sequences, FiniteSets

CONSTANTS
  Connections,      \* the connections there are to attach
  Providers,        \* the (realm, provider ID) pairs they speak for
  ProviderOf,       \* [Connections -> Providers]
  Directives,       \* the directives tried: sequences of subsets of Providers
  Calls,            \* calls, each made once
  Casts,            \* broadcasts, each made once
  MaxAttachments,   \* bound on attach() calls that reach the registry
  MaxChanges        \* bound on catalog changes

ASSUME RoutingAssumption ==
  /\ ProviderOf \in [Connections -> Providers]
  /\ MaxAttachments \in Nat /\ MaxChanges \in Nat
  /\ \A d \in Directives : d \in Seq(SUBSET Providers) /\ d # <<>>

Attachment == 1 .. MaxAttachments
Callback == <<>>                \* the policy is a function
Routings == Directives \cup {Callback}

VARIABLES
  made,          \* attachments made so far: their order is the Map's
  connectionOf,  \* [Attachment -> Connections], for those made
  entries,       \* ConnectionRegistry.entries
  attaching,     \* the attachment whose subscribe() is on the stack, or 0
  subscribed,    \* the attachments whose catalog listener is registered
  held,          \* those whose entry.unsubscribe has been set
  disposed,
  status,        \* what each connection's catalog says of the contract: inactive
                 \* for every reason it is unavailable, foreign for another identity
  changes,
  call,
  cast

registryVars == <<made, connectionOf, entries, attaching, subscribed, held, disposed>>
catalogVars == <<status, changes>>
vars == <<registryVars, catalogVars, call, cast>>

Idle == [phase |-> "idle", kind |-> "action", routing |-> Callback, candidates |-> {},
         known |-> {}, target |-> 0, cancelled |-> FALSE, outcome |-> "none"]
IdleCast == [phase |-> "idle", selection |-> Callback, start |-> {}, ran |-> {},
             fulfilled |-> {}, rejected |-> {}, cancelled |-> FALSE]

TypeOK ==
  /\ made \in 0 .. MaxAttachments
  /\ connectionOf \in [1 .. made -> Connections]
  /\ entries \subseteq 1 .. made
  /\ attaching \in 0 .. made
  /\ subscribed \subseteq 1 .. made /\ held \subseteq 1 .. made
  /\ disposed \in BOOLEAN
  /\ status \in [Connections -> {"inactive", "active", "foreign"}]
  /\ changes \in 0 .. MaxChanges
  /\ \A c \in Calls :
       /\ call[c].phase \in {"idle", "choosing", "selected", "resolving", "running", "bound", "settled"}
       /\ call[c].kind \in {"action", "invoke", "resolve"}
       /\ call[c].routing \in Routings
       /\ call[c].known \subseteq call[c].candidates /\ call[c].candidates \subseteq 1 .. made
       /\ call[c].target \in 0 .. made
       /\ call[c].target # 0 <=> call[c].phase \in {"selected", "resolving", "running", "bound"}
       /\ call[c].outcome \in {"none", "binding", "value", "error"}
  /\ \A b \in Casts :
       /\ cast[b].phase \in {"idle", "running", "settled", "refused"}
       /\ cast[b].ran \cup cast[b].rejected \subseteq cast[b].start

Init ==
  /\ made = 0 /\ connectionOf = <<>> /\ entries = {} /\ attaching = 0
  /\ subscribed = {} /\ held = {} /\ disposed = FALSE
  /\ status \in [Connections -> {"inactive", "active"}] /\ changes = 0
  /\ call = [c \in Calls |-> Idle] /\ cast = [b \in Casts |-> IdleCast]

-------------------------------------------------------------------------------
(* The registry. *)

Provider(a) == ProviderOf[connectionOf[a]]

Registered(connection) == \E a \in entries : Provider(a) = ProviderOf[connection]

(* attach() up to the call of subscribe(), which runs listeners.           *)
Attach(connection) ==
  /\ ~disposed /\ attaching = 0
  /\ made < MaxAttachments
  /\ ~Registered(connection)
  /\ status[connection] # "foreign"
  /\ made' = made + 1
  /\ connectionOf' = Append(connectionOf, connection)
  /\ entries' = entries \cup {made + 1}
  /\ attaching' = made + 1
  /\ subscribed' = subscribed \cup {made + 1}
  /\ UNCHANGED <<held, disposed, catalogVars, call, cast>>

(* Mutation: an entry detached by a listener keeps its subscription. *)
KeepsSubscription == subscribed' = subscribed
OwnsSubscription ==
  subscribed' = IF attaching \in entries THEN subscribed ELSE subscribed \ {attaching}

SubscribeReturns ==
  /\ attaching # 0
  /\ OwnsSubscription
  /\ held' = held \cup {attaching}
  /\ attaching' = 0
  /\ UNCHANGED <<made, connectionOf, entries, disposed, catalogVars, call, cast>>

(* The adapter's subscribe() throws: nothing stays attached. *)
SubscribeThrows ==
  /\ attaching # 0
  /\ entries' = entries \ {attaching}
  /\ subscribed' = subscribed \ {attaching}
  /\ attaching' = 0
  /\ UNCHANGED <<made, connectionOf, held, disposed, catalogVars, call, cast>>

(* detach() needs the handle attach() returns. *)
Detach(a) ==
  /\ a \in entries /\ a # attaching
  /\ entries' = entries \ {a}
  /\ subscribed' = subscribed \ ({a} \cap held)
  /\ UNCHANGED <<made, connectionOf, attaching, held, disposed, catalogVars, call, cast>>

Dispose ==
  /\ ~disposed
  /\ disposed' = TRUE
  /\ entries' = {}
  /\ subscribed' = subscribed \ (entries \cap held)
  /\ UNCHANGED <<made, connectionOf, attaching, held, catalogVars, call, cast>>

CatalogChanges(connection) ==
  /\ changes < MaxChanges
  /\ changes' = changes + 1
  /\ status' \in {[status EXCEPT ![connection] = s] : s \in {"inactive", "active", "foreign"}}
  /\ status' # status
  /\ UNCHANGED <<registryVars, call, cast>>

-------------------------------------------------------------------------------
(* selection.ts *)

Available(a) == status[connectionOf[a]] = "active"
Matching(S, selector) == {a \in S : Provider(a) \in selector}
Readable(S) == \A a \in S : status[connectionOf[a]] # "foreign"

OnlyOf(group) == IF Cardinality(group) = 1 THEN CHOOSE a \in group : TRUE ELSE 0

(* choose(): the first selector that matches something decides, and must   *)
(* match one; 0 when the choice is ambiguous or there is none.             *)
Choose(S, directive) ==
  LET matched == {i \in DOMAIN directive : Matching(S, directive[i]) # {}}
  IN IF matched = {} THEN 0
     ELSE OnlyOf(Matching(S, directive[CHOOSE i \in matched : \A j \in matched : i <= j]))

Nobody(a) == a = 0

Aborted(c) == call[c].cancelled \/ disposed

(* assertAvailable: the entry is attached, the call not cancelled, and the *)
(* contract active now.                                                    *)
Dispatchable(c, a) == a \in entries /\ ~Aborted(c) /\ Available(a)

(* assertCurrent and assertNotCancelled, once the connection has answered. *)
UncheckedValue(c) == TRUE             \* mutation: a late value is returned
Receivable(c) ==
  /\ call[c].target \in entries
  /\ ~Aborted(c)
  /\ status[connectionOf[call[c].target]] # "foreign"

Settle(c, outcome) ==
  call' = [call EXCEPT ![c] = [Idle EXCEPT !.phase = "settled", !.outcome = outcome]]

(* An action is invoked at once; a capability is resolved first. *)
Dispatched(kind) == IF kind = "action" THEN "running" ELSE "resolving"

Enter(c, kind, routing, phase, a) ==
  call' = [call EXCEPT ![c].kind = kind, ![c].routing = routing, ![c].phase = phase,
                       ![c].candidates = entries, ![c].known = {x \in entries : Available(x)},
                       ![c].target = a]

(* A call up to its first await: with a callback the await of its answer,  *)
(* otherwise the choice and the dispatch in one.                           *)
Begin(c, kind, routing) ==
  /\ call[c].phase = "idle"
  /\ IF Aborted(c) \/ ~Readable(entries)
     THEN Settle(c, "error")
     ELSE IF routing = Callback
     THEN Enter(c, kind, routing, "choosing", 0)
     ELSE LET a == Choose({x \in entries : Available(x)}, routing)
          IN IF Nobody(a) THEN Settle(c, "error") ELSE Enter(c, kind, routing, Dispatched(kind), a)
  /\ UNCHANGED <<registryVars, catalogVars, cast>>

(* callbackSelection after the callback: the owners it was shown, with     *)
(* their readiness of now; one that is gone keeps that of then.            *)
Substituted(c) == {a \in entries : Available(a)}     \* mutation: whoever is attached now
Shown(c) ==
  {a \in call[c].candidates : IF a \in entries THEN Available(a) ELSE a \in call[c].known}

CallbackReturns(c) ==
  /\ attaching = 0
  /\ call[c].phase = "choosing"
  /\ \E directive \in Directives :
       LET a == Choose(Shown(c), directive)
       IN IF disposed \/ ~Readable(call[c].candidates \cap entries) \/ Nobody(a) \/ ~Dispatchable(c, a)
          THEN Settle(c, "error")
          ELSE call' = [call EXCEPT ![c].phase = "selected", ![c].target = a]
  /\ UNCHANGED <<registryVars, catalogVars, cast>>

CallbackThrows(c) ==
  /\ attaching = 0
  /\ call[c].phase = "choosing"
  /\ Settle(c, "error")
  /\ UNCHANGED <<registryVars, catalogVars, cast>>

(* waitForSelection listens to the signal. *)
HearsNothing(c) == FALSE              \* mutation: only the callback ends the wait
HearsAbort(c) == Aborted(c)
SelectionCancelled(c) ==
  /\ attaching = 0
  /\ call[c].phase = "choosing"
  /\ HearsAbort(c)
  /\ Settle(c, "error")
  /\ UNCHANGED <<registryVars, catalogVars, cast>>

(* withSelection goes on a few microtasks after callbackSelection. *)
Dispatch(c) ==
  /\ attaching = 0
  /\ call[c].phase = "selected"
  /\ IF Dispatchable(c, call[c].target)
     THEN call' = [call EXCEPT ![c].phase = Dispatched(call[c].kind)]
     ELSE Settle(c, "error")
  /\ UNCHANGED <<registryVars, catalogVars, cast>>

-------------------------------------------------------------------------------
(* dispatch.ts and the routers. *)

(* The connection has resolved the capability, or says why it cannot: an   *)
(* error here.  A resolution is returned as a pinned binding, whose calls  *)
(* have signals of their own; an invocation goes on with the bound operation,    *)
(* which checks availability itself.                                       *)
Resolved(c) ==
  /\ attaching = 0
  /\ call[c].phase = "resolving"
  /\ \/ Settle(c, "error")
     \/ /\ Receivable(c)
        /\ call[c].kind = "resolve"
        /\ call' = [call EXCEPT ![c].phase = "bound", ![c].outcome = "binding"]
     \/ /\ Receivable(c)
        /\ call[c].kind = "invoke"
        /\ Dispatchable(c, call[c].target)
        /\ call' = [call EXCEPT ![c].phase = "running"]
  /\ UNCHANGED <<registryVars, catalogVars, cast>>

(* An operation of a pinned binding is called: no selection any more.      *)
CallBinding(c) ==
  /\ call[c].phase = "bound"
  /\ IF Dispatchable(c, call[c].target)
     THEN call' = [call EXCEPT ![c].phase = "running", ![c].outcome = "none"]
     ELSE Settle(c, "error")
  /\ UNCHANGED <<registryVars, catalogVars, cast>>

(* The connection answers.  The checks of nested dispatches are a few      *)
(* microtasks apart; an attachment that is gone stays gone, so the last of *)
(* them stands for all.                                                    *)
Returns(c) ==
  /\ attaching = 0
  /\ call[c].phase = "running"
  /\ \/ Settle(c, "error")
     \/ Receivable(c) /\ Settle(c, "value")
  /\ UNCHANGED <<registryVars, catalogVars, cast>>

Cancel(c) ==
  /\ call[c].phase \in {"choosing", "selected", "resolving", "running"} /\ ~call[c].cancelled
  /\ call' = [call EXCEPT ![c].cancelled = TRUE]
  /\ UNCHANGED <<registryVars, catalogVars, cast>>

-------------------------------------------------------------------------------
(* calls.ts, broadcast *)

Unmatched(selection) == {i \in DOMAIN selection : Matching(entries, selection[i]) = {}}

(* Mutation: whoever cannot answer is left out. *)
AvailableRecipients(selection) ==
  {a \in entries : Available(a) /\ \E i \in DOMAIN selection : Provider(a) \in selection[i]}
Recipients(selection) == {a \in entries : \E i \in DOMAIN selection : Provider(a) \in selection[i]}

CastAborted(b) == cast[b].cancelled \/ disposed

(* The preflight, and then every recipient's dispatch up to its await; a   *)
(* capability's resolution is part of the recipient's answer.              *)
Broadcast(b, selection) ==
  /\ cast[b].phase = "idle"
  /\ LET recipients == Recipients(selection)
         run == {a \in recipients : Available(a)}
     IN cast' = [cast EXCEPT ![b] =
          IF disposed \/ Unmatched(selection) # {}
          THEN [@ EXCEPT !.phase = "refused", !.selection = selection, !.start = entries]
          ELSE [@ EXCEPT !.phase = "running", !.selection = selection, !.start = entries,
                         !.ran = run, !.rejected = recipients \ run]]
  /\ UNCHANGED <<registryVars, catalogVars, call>>

CastReceivable(b, a) ==
  a \in entries /\ ~CastAborted(b) /\ status[connectionOf[a]] # "foreign"

RecipientAnswers(b, a) ==
  /\ attaching = 0
  /\ cast[b].phase = "running"
  /\ a \in cast[b].ran \ (cast[b].fulfilled \cup cast[b].rejected)
  /\ \/ cast' = [cast EXCEPT ![b].rejected = @ \cup {a}]
     \/ CastReceivable(b, a) /\ cast' = [cast EXCEPT ![b].fulfilled = @ \cup {a}]
  /\ UNCHANGED <<registryVars, catalogVars, call>>

(* Promise.all *)
BroadcastSettles(b) ==
  /\ attaching = 0
  /\ cast[b].phase = "running"
  /\ cast[b].ran \subseteq cast[b].fulfilled \cup cast[b].rejected
  /\ cast' = [cast EXCEPT ![b].phase = "settled"]
  /\ UNCHANGED <<registryVars, catalogVars, call>>

CancelCast(b) ==
  /\ cast[b].phase = "running" /\ ~cast[b].cancelled
  /\ cast' = [cast EXCEPT ![b].cancelled = TRUE]
  /\ UNCHANGED <<registryVars, catalogVars, call>>

-------------------------------------------------------------------------------
User ==
  \/ \E connection \in Connections : Attach(connection) \/ CatalogChanges(connection)
  \/ \E a \in Attachment : Detach(a)
  \/ Dispose
  \/ \E c \in Calls :
       \/ \E kind \in {"action", "invoke", "resolve"}, routing \in Routings : Begin(c, kind, routing)
       \/ CallbackReturns(c) \/ CallbackThrows(c)
       \/ CallBinding(c)
       \/ Cancel(c)
  \/ \E b \in Casts : CancelCast(b) \/ \E selection \in Directives : Broadcast(b, selection)

Continuation ==
  \/ SubscribeReturns \/ SubscribeThrows
  \/ \E c \in Calls : SelectionCancelled(c) \/ Dispatch(c) \/ Resolved(c) \/ Returns(c)
  \/ \E b \in Casts : BroadcastSettles(b) \/ \E a \in Attachment : RecipientAnswers(b, a)

Next == User \/ Continuation

Spec == Init /\ [][Next]_vars

(* Connections answer; the routing callback need not. *)
FairSpec == Spec /\ WF_vars(Continuation)

-------------------------------------------------------------------------------
(* Properties. *)

(* The state has its type; the registry owns one subscription for each     *)
(* attachment and no other, whatever a listener did during attach(), and   *)
(* one attachment for each provider.                                       *)
SubscriptionsOwned ==
  /\ TypeOK
  /\ attaching = 0 => subscribed = entries
  /\ \A a, b \in entries : Provider(a) = Provider(b) => a = b

(* "Bound operations: their provider owner never changes", "no rerouting": *)
(* whatever ran in between, a connection is called only through an entry   *)
(* attached, available and not cancelled at that very moment, and, if a    *)
(* callback chose it, one of those the callback was shown.  "There is no   *)
(* discovery-order tie-breaker": without a callback, who is chosen is the  *)
(* only one available for some selector, and no earlier selector had any.  *)
Started(c) == call'[c].phase \in {"resolving", "running"} /\ call[c].phase # call'[c].phase
Chosen(c) == call[c].target = 0 /\ call'[c].target # 0
NeverRerouted ==
  [][\A c \in Calls :
       /\ Started(c) =>
            LET a == call'[c].target
            IN /\ a \in entries /\ Available(a) /\ ~Aborted(c)
               /\ a \in call'[c].candidates
               /\ call[c].target \in {0, a}
       /\ Chosen(c) /\ call'[c].routing # Callback =>
            \E i \in DOMAIN call'[c].routing :
              /\ Matching(call'[c].known, call'[c].routing[i]) = {call'[c].target}
              /\ \A j \in 1 .. i - 1 : Matching(call'[c].known, call'[c].routing[j]) = {}]_vars

(* Nobody receives a value of an attachment that has been detached, of a   *)
(* disposed client or after a cancellation.                                *)
NoLateValue ==
  [][/\ \A c \in Calls :
          call'[c].outcome \in {"value", "binding"} /\ call[c].outcome # call'[c].outcome =>
            call[c].target \in entries /\ ~Aborted(c)
     /\ \A b \in Casts : cast'[b].fulfilled \ cast[b].fulfilled # {} =>
          /\ cast'[b].fulfilled \ cast[b].fulfilled \subseteq entries
          /\ ~CastAborted(b)]_vars

(* "Every selector must match at least one known provider before any       *)
(* dispatch", and known recipients never silently disappear.               *)
BroadcastIsComplete ==
  \A b \in Casts : LET B == cast[b] IN
    /\ B.ran # {} => \A i \in DOMAIN B.selection : Matching(B.start, B.selection[i]) # {}
    /\ B.phase = "settled" =>
         /\ B.fulfilled \cup B.rejected =
              UNION {Matching(B.start, B.selection[i]) : i \in DOMAIN B.selection}
         /\ B.fulfilled \cap B.rejected = {}

(* For its connection, or for a callback although it is cancelled.         *)
Waits(c) ==
  \/ call[c].phase \in {"selected", "resolving", "running"}
  \/ call[c].phase = "choosing" /\ Aborted(c)

(* A cancelled call settles even if its callback never answers, a running  *)
(* call or broadcast when its connections do: none waits for ever.  (No    *)
(* phase is entered twice, so that not always waiting is an end.)          *)
CallsSettle ==
  /\ \A c \in Calls : []<>(~Waits(c))
  /\ \A b \in Casts : []<>(cast[b].phase # "running")
===============================================================================
