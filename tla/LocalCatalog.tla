------------------------------ MODULE LocalCatalog ------------------------------
(***************************************************************************)
(* The listeners of a provider's catalog: ProviderCatalogController of     *)
(* packages/runtime/src/provider-catalog.ts, which notifyInstallation of   *)
(* provider-status.ts calls on every change of an installation.            *)
(*                                                                         *)
(* A listener is user code on the stack of who notifies: it may subscribe, *)
(* unsubscribe, or call a handle, whose notifications are nested in the    *)
(* one under way.  `stack` holds them.  A listener's exception is reported *)
(* and changes nothing here.  A snapshot is not represented: it is taken   *)
(* when a listener is called, so that the listener has seen all there is,  *)
(* and is behind again after the next change.                              *)
(***************************************************************************)
EXTENDS Naturals, Sequences, SequencesExt

CONSTANTS
  Listeners,
  Installations,    \* what the provider's dispose() goes through
  MaxDepth          \* bound on nested notifications

VARIABLES
  catalog,       \* ProviderCatalogController.status
  listeners,     \* ProviderCatalogController.listeners
  stack,         \* the loops of notify() and dispose() and the calls of subscribe()
  behind         \* the listeners that have not seen what the snapshot is now

catalogVars == <<catalog, listeners, stack, behind>>

Nobody == "nobody"

(* One notification has room; a listener is somebody. *)
ASSUME CatalogAssumption == MaxDepth \in Nat \ {0} /\ Nobody \notin Listeners

Frame ==
  [kind : {"notify", "subscribe"}, left : SUBSET Listeners, now : Listeners \cup {Nobody}]
  \cup [kind : {"dispose"}, left : SUBSET Installations, now : {Nobody}]

CatalogTypeOK ==
  /\ catalog \in {"open", "disposing", "cleanup-blocked", "disposed"}
  /\ listeners \subseteq Listeners
  /\ Len(stack) <= MaxDepth /\ \A i \in DOMAIN stack : stack[i] \in Frame
  /\ behind \subseteq Listeners

CatalogInit ==
  /\ catalog = "open"
  /\ listeners = {}
  /\ stack = <<>>
  /\ behind = Listeners

(* User code runs: at the bottom of the stack, or in a listener.           *)
Reentrant == stack # <<>> => Last(stack).now # Nobody
Room == Len(stack) < MaxDepth

(* notify() begins: a copy of the listeners, all behind what has changed.  *)
Notify ==
  /\ behind' = Listeners
  /\ stack' = Append(stack, [kind |-> "notify", left |-> listeners, now |-> Nobody])

(* A change that nobody is told of, for a mutation. *)
TellNobody == behind' = Listeners /\ stack' = stack

Shown(l) == behind' = behind \ {l}

StillSubscribed(l) == l \in listeners

CallListener ==
  /\ stack # <<>> /\ Last(stack).kind = "notify"
  /\ \E l \in Last(stack).left :
       LET rest == [Last(stack) EXCEPT !.left = @ \ {l}]
       IN IF StillSubscribed(l)
          THEN /\ Shown(l)
               /\ stack' = [stack EXCEPT ![Len(stack)] = [rest EXCEPT !.now = l]]
          ELSE /\ stack' = [stack EXCEPT ![Len(stack)] = [rest EXCEPT !.now = Nobody]]
               /\ UNCHANGED behind
  /\ UNCHANGED <<catalog, listeners>>

(* The loop, or subscribe(), returns; the last notification of all lets    *)
(* the listeners go.                                                       *)
NotifyReturns ==
  /\ stack # <<>> /\ Last(stack).kind # "dispose" /\ Last(stack).left = {}
  /\ stack' = Front(stack)
  /\ listeners' = IF catalog = "disposed" /\ Last(stack).kind = "notify" THEN {} ELSE listeners
  /\ UNCHANGED <<catalog, behind>>

Subscribed(l) == IF catalog = "disposed" THEN listeners ELSE listeners \cup {l}

Subscribe(l) ==
  /\ Reentrant /\ Room
  /\ l \notin listeners
  /\ listeners' = Subscribed(l)
  /\ Shown(l)
  /\ stack' = Append(stack, [kind |-> "subscribe", left |-> {}, now |-> l])
  /\ UNCHANGED catalog

(* subscribe() has returned the function that unsubscribes. *)
Unsubscribe(l) ==
  /\ Reentrant
  /\ l \in listeners
  /\ \A i \in DOMAIN stack : ~(stack[i].kind = "subscribe" /\ stack[i].now = l)
  /\ listeners' = listeners \ {l}
  /\ UNCHANGED <<catalog, stack, behind>>

-------------------------------------------------------------------------------
(* Properties. *)

(* When the outermost loop has called everybody, nobody is behind, however *)
(* the listeners' own calls were nested in it: so that the loop that lets  *)
(* the listeners of a disposed provider go has told all of them.           *)
Told == Len(stack) = 1 /\ stack[1].kind = "notify" /\ stack[1].left = {}
EverybodyTold ==
  /\ stack = <<>> \/ Told => listeners \cap behind = {}
  /\ stack = <<>> /\ catalog = "disposed" => listeners = {}
===============================================================================
