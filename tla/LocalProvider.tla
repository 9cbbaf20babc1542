----------------------------- MODULE LocalProvider -----------------------------
(***************************************************************************)
(* A provider as its own process sees it: the statuses and the calls of    *)
(* Invocation, and the listeners of LocalCatalog, whom every change of a   *)
(* status is announced to.  Service and action are installations of their  *)
(* own.  Handle calls and invocations come from user code, which may be a  *)
(* listener on the stack; continuations run when the stack is empty.       *)
(***************************************************************************)
EXTENDS Invocation, LocalCatalog

VARIABLE enabling      \* contributions whose enable() has not returned

vars == <<invocationVars, catalogVars, enabling>>

ASSUME LocalAssumption == Installations = Contribution

TypeOK == InvocationTypeOK /\ CatalogTypeOK /\ enabling \subseteq Contribution

Init == InvocationInit /\ CatalogInit /\ enabling = {}

Open == catalog = "open"
Announced == Notify /\ UNCHANGED <<catalog, listeners, enabling>>
Settled(c) == status[c] \notin {"starting", "stopping"}

-------------------------------------------------------------------------------
(* Handle calls. *)

Disable(c) ==
  /\ Open /\ Reentrant /\ Room
  /\ Stops(c)
  /\ Announced

(* enable() notifies only at its end, unless a start has to be announced.  *)
Enable(c) ==
  /\ Open /\ Reentrant
  /\ status[c] = "idle"
  /\ status' = [status EXCEPT ![c] = "waiting"]
  /\ enabling' = enabling \cup {c}
  /\ behind' = Listeners
  /\ UNCHANGED <<generation, call, catalog, listeners, stack>>

(* A released installation has no listeners left to notify. *)
EnableReturns(c) ==
  /\ stack = <<>>
  /\ c \in enabling /\ Settled(c)
  /\ enabling' = enabling \ {c}
  /\ IF status[c] = "gone" THEN UNCHANGED <<stack, behind>> ELSE Notify
  /\ UNCHANGED <<invocationVars, catalog, listeners>>

(* The provider's dispose(): a loop that stops every installation, each    *)
(* with a notification of its own, and then a last one.                    *)
Dispose ==
  /\ Open /\ Reentrant /\ Len(stack) + 1 < MaxDepth
  /\ catalog' = "disposing"
  /\ behind' = Listeners
  /\ stack' = Append(stack, [kind |-> "dispose", left |-> Contribution, now |-> Nobody])
  /\ UNCHANGED <<invocationVars, listeners, enabling>>

InDispose == stack # <<>> /\ Last(stack).kind = "dispose"

StopInstallation ==
  /\ InDispose
  /\ \E c \in Last(stack).left :
       LET loop == [Last(stack) EXCEPT !.left = @ \ {c}]
       IN /\ status' = [status EXCEPT ![c] =
               IF @ \in {"starting", "active"} THEN "stopping"
               ELSE IF @ = "waiting" THEN "idle" ELSE @]
          /\ behind' = Listeners
          /\ stack' = [stack EXCEPT ![Len(stack)] = loop]
                        \o <<[kind |-> "notify", left |-> listeners, now |-> Nobody]>>
  /\ UNCHANGED <<generation, call, catalog, listeners, enabling>>

DisposeNotifies ==
  /\ InDispose /\ Last(stack).left = {}
  /\ behind' = Listeners
  /\ stack' = Append(Front(stack), [kind |-> "notify", left |-> listeners, now |-> Nobody])
  /\ UNCHANGED <<invocationVars, catalog, listeners, enabling>>

-------------------------------------------------------------------------------
(* Continuations. *)

(* refresh(), and stops that follow from the stop of a dependency. *)
Reconcile(c) ==
  /\ stack = <<>>
  /\ \/ Open /\ Starts(c)
     \/ StartEnds(c)
     \/ (\E d \in Requires(c) : status[d] = "stopping") /\ Stops(c)
  /\ Announced

(* Disposed installations are released, others wait for a handle call or   *)
(* for their dependencies.                                                 *)
StopSettles(c) ==
  /\ stack = <<>>
  /\ \E s \in IF Open THEN {"idle", "waiting", "blocked"} ELSE {"gone", "blocked"} : StopEnds(c, s)
  /\ Announced

(* Mutation: a released installation leaves the catalog unannounced. *)
ReleaseSilently == TellNobody /\ UNCHANGED <<catalog, listeners, enabling>>
ReleaseAnnounced == Announced

Release(c) ==
  /\ stack = <<>> /\ ~Open
  /\ status[c] \in {"idle", "waiting"}
  /\ status' = [status EXCEPT ![c] = "gone"]
  /\ ReleaseAnnounced
  /\ UNCHANGED <<generation, call>>

(* completeDisposal, once the installations are settled. *)
DisposalEnds ==
  /\ stack = <<>> /\ catalog = "disposing"
  /\ \A c \in Contribution : status[c] \in {"gone", "blocked"}
  /\ catalog' = IF (\E c \in Contribution : status[c] = "blocked") THEN "cleanup-blocked" ELSE "disposed"
  /\ Notify
  /\ UNCHANGED <<invocationVars, listeners, enabling>>

-------------------------------------------------------------------------------
Lifecycle ==
  \/ \E c \in Contribution :
       Disable(c) \/ Enable(c) \/ EnableReturns(c) \/ Reconcile(c) \/ StopSettles(c) \/ Release(c)
  \/ Dispose \/ StopInstallation \/ DisposeNotifies \/ DisposalEnds

Listening ==
  /\ \/ CallListener \/ NotifyReturns
     \/ \E l \in Listeners : Subscribe(l) \/ Unsubscribe(l)
  /\ UNCHANGED <<invocationVars, enabling>>

Calling ==
  /\ \E k \in Calls :
       \/ Reentrant /\ (GiveUp(k) \/ \E c \in Contribution : Invoke(k, c))
       \/ stack = <<>> /\ Proceed(k)
  /\ UNCHANGED <<catalogVars, enabling>>

Next == Lifecycle \/ Listening \/ Calling

Spec == Init /\ [][Next]_vars

-------------------------------------------------------------------------------
(* The state has its type, and EverybodyTold, with one exception: enable() *)
(* announces its change only when it returns, so that in an open provider  *)
(* subscribers may be behind while an enable() is pending.  A disposal     *)
(* tells everybody, also when it overtakes one.                            *)
CatalogIsCurrent == TypeOK /\ (enabling = {} \/ ~Open => EverybodyTold)
===============================================================================
