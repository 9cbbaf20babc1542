-------------------------- MODULE ClientRoutingProofs --------------------------
(***************************************************************************)
(* Theorems about ClientRouting, for any connections, providers, selection *)
(* directives, calls and broadcasts.                                       *)
(***************************************************************************)
EXTENDS ClientRouting, FiniteSetTheorems, WellFoundedInduction, TLAPS

(* While subscribe() is on the stack its attachment has a listener and is  *)
(* not yet held, whether a listener has detached it or not.                *)
RegistryInv ==
  /\ made \in 0 .. MaxAttachments
  /\ connectionOf \in [1 .. made -> Connections]
  /\ entries \subseteq 1 .. made
  /\ attaching \in 0 .. made
  /\ held \subseteq 1 .. made
  /\ disposed \in BOOLEAN
  /\ attaching \notin held
  /\ subscribed = entries \cup ({attaching} \ {0})
  /\ entries \ {attaching} \subseteq held
  /\ \A a, b \in entries : Provider(a) = Provider(b) => a = b

CatalogType ==
  /\ status \in [Connections -> {"inactive", "active", "foreign"}]
  /\ changes \in 0 .. MaxChanges

(* A call's target is one of the attachments it has considered; it waits   *)
(* for a choice only where its policy is a function.                       *)
CallRecord ==
  [phase : {"idle", "choosing", "selected", "resolving", "running", "bound", "settled"},
   kind : {"action", "invoke", "resolve"}, routing : Routings,
   candidates : SUBSET Attachment, known : SUBSET Attachment,
   target : 0 .. MaxAttachments, cancelled : BOOLEAN,
   outcome : {"none", "binding", "value", "error"}]

CallOK(r, m) ==
  /\ r.known \subseteq r.candidates
  /\ r.candidates \subseteq 1 .. m
  /\ r.target # 0 <=> r.phase \in {"selected", "resolving", "running", "bound"}
  /\ r.target # 0 => r.target \in r.candidates
  /\ r.phase = "choosing" => r.routing = Callback

CallInv ==
  /\ call \in [Calls -> CallRecord]
  /\ \A c \in Calls : CallOK(call[c], made)

(* The recipients of a broadcast are what its selection matched when it    *)
(* began: each has run or been rejected then, and none is forgotten.       *)
CastRecord ==
  [phase : {"idle", "running", "settled", "refused"}, selection : Routings,
   start : SUBSET Attachment, ran : SUBSET Attachment,
   fulfilled : SUBSET Attachment, rejected : SUBSET Attachment, cancelled : BOOLEAN]

Matched(B) == {a \in B.start : \E i \in DOMAIN B.selection : Provider(a) \in B.selection[i]}

CastOK(B) ==
  /\ B.start \subseteq 1 .. made
  /\ B.fulfilled \subseteq B.ran
  /\ B.fulfilled \cap B.rejected = {}
  /\ B.phase \in {"idle", "refused"} => B.ran = {} /\ B.rejected = {}
  /\ B.phase \in {"running", "settled"} =>
       /\ B.ran \cup B.rejected = Matched(B)
       /\ \A i \in DOMAIN B.selection : Matching(B.start, B.selection[i]) # {}
  /\ B.phase = "settled" => B.ran \subseteq B.fulfilled \cup B.rejected

CastInv ==
  /\ cast \in [Casts -> CastRecord]
  /\ \A b \in Casts : CastOK(cast[b])

RoutingInv == RegistryInv /\ CatalogType /\ CallInv /\ CastInv

-------------------------------------------------------------------------------
(* A set of numbers has a least one: the first selector that matches.      *)
LEMMA Least ==
  ASSUME NEW M, M \subseteq Nat, M # {}
  PROVE  \E i \in M : \A j \in M : i <= j
<1> DEFINE T == {1 .. i : i \in M}
<1>1. T \subseteq FiniteSubsetsOf(Nat)
  <2> SUFFICES ASSUME NEW i \in M PROVE 1 .. i \in FiniteSubsetsOf(Nat)
    OBVIOUS
  <2>1. IsFiniteSet(1 .. i) /\ 1 .. i \subseteq Nat
    BY FS_Interval
  <2> QED BY <2>1 DEF FiniteSubsetsOf
<1>2. PICK x \in T : \A y \in T : <<y, x>> \notin StrictSubsetOrdering(Nat)
  <2>1. T # {}
    OBVIOUS
  <2> HIDE DEF T
  <2> QED BY <1>1, <2>1, WFMin, FS_StrictSubsetOrderingWellFounded
<1>3. PICK i \in M : x = 1 .. i
  OBVIOUS
<1>4. ASSUME NEW j \in M PROVE i <= j
  <2>1. <<1 .. j, 1 .. i>> \notin StrictSubsetOrdering(Nat)
    BY <1>2, <1>3
  <2>2. 1 .. j \subseteq Nat /\ 1 .. i \subseteq Nat
    OBVIOUS
  <2>3. ~(1 .. j \subseteq 1 .. i /\ 1 .. j # 1 .. i)
    BY <2>1, <2>2 DEF StrictSubsetOrdering
  <2>4. j < i => 1 .. j \subseteq 1 .. i /\ i \in 1 .. i /\ i \notin 1 .. j
    OBVIOUS
  <2> QED BY <2>3, <2>4
<1> QED BY <1>4

(* choose(): who is chosen is the only match of some selector, and no      *)
(* earlier one has any.                                                    *)
LEMMA ChooseIsUnambiguous ==
  ASSUME NEW S, S \subseteq Attachment, NEW d \in Directives, Choose(S, d) # 0
  PROVE  /\ Choose(S, d) \in S
         /\ \E i \in DOMAIN d :
              /\ Matching(S, d[i]) = {Choose(S, d)}
              /\ \A j \in 1 .. i - 1 : Matching(S, d[j]) = {}
<1> DEFINE matched == {i \in DOMAIN d : Matching(S, d[i]) # {}}
<1> DEFINE first == CHOOSE i \in matched : \A j \in matched : i <= j
<1>1. DOMAIN d = 1 .. Len(d) /\ Len(d) \in Nat
  BY RoutingAssumption
<1>2. matched # {} /\ Choose(S, d) = OnlyOf(Matching(S, d[first]))
  BY DEF Choose
<1>3. first \in matched /\ \A j \in matched : first <= j
  <2>1. matched \subseteq Nat
    BY <1>1
  <2>2. \E i \in matched : \A j \in matched : i <= j
    <3> HIDE DEF matched
    <3> QED BY <1>2, <2>1, Least
  <2> HIDE DEF matched
  <2> QED BY <2>2
<1> HIDE DEF first
<1>4. PICK a : Matching(S, d[first]) = {a}
  <2>1. IsFiniteSet(Attachment)
    BY FS_Interval, RoutingAssumption DEF Attachment
  <2>2. IsFiniteSet(Matching(S, d[first]))
    <3>1. Matching(S, d[first]) \in SUBSET Attachment
      BY DEF Matching
    <3> QED BY <2>1, <3>1, FS_Subset
  <2>3. Cardinality(Matching(S, d[first])) = 1
    BY <1>2 DEF OnlyOf
  <2> QED BY <2>2, <2>3, FS_Singleton
<1>5. Choose(S, d) = a
  BY <1>2, <1>4 DEF OnlyOf
<1>6. \A j \in 1 .. first - 1 : Matching(S, d[j]) = {}
  <2> SUFFICES ASSUME NEW j \in 1 .. first - 1, Matching(S, d[j]) # {} PROVE FALSE
    OBVIOUS
  <2>1. j \in matched
    BY <1>1, <1>3
  <2> QED BY <1>1, <1>3, <2>1
<1>7. a \in S
  BY <1>4 DEF Matching
<1> QED BY <1>3, <1>4, <1>5, <1>6, <1>7

-------------------------------------------------------------------------------
(* An attachment stands for the same connection as long as there is one.   *)
LEMMA AttachmentsStay ==
  ASSUME RoutingInv, [Next]_vars
  PROVE  /\ made \in Nat /\ made' \in Nat /\ 1 .. made \subseteq 1 .. made'
         /\ made' \in 0 .. MaxAttachments
         /\ connectionOf' \in [1 .. made' -> Connections]
         /\ \A a \in 1 .. made : connectionOf'[a] = connectionOf[a] /\ Provider(a)' = Provider(a)
<1>1. RegistryInv
  BY DEF RoutingInv
<1>2. CASE \E connection \in Connections : Attach(connection)
  <2>1. PICK connection \in Connections : Attach(connection)
    BY <1>2
  <2>2. connectionOf \in Seq(Connections) /\ Len(connectionOf) = made
    BY <1>1 DEF RegistryInv
  <2>3. made' = made + 1 /\ connectionOf' = Append(connectionOf, connection) /\ made < MaxAttachments
    BY <2>1 DEF Attach
  <2>4. /\ connectionOf' \in Seq(Connections) /\ Len(connectionOf') = made'
        /\ \A a \in 1 .. made : connectionOf'[a] = connectionOf[a]
    BY <2>2, <2>3
  <2>5. connectionOf' \in [1 .. made' -> Connections]
    BY <2>4
  <2> QED BY <1>1, <2>3, <2>4, <2>5, RoutingAssumption DEF RegistryInv, Provider
<1>3. CASE UNCHANGED <<made, connectionOf>>
  BY <1>1, <1>3, RoutingAssumption DEF RegistryInv, Provider
<1>4. CASE SubscribeReturns \/ SubscribeThrows \/ Dispose \/ \E a \in Attachment : Detach(a)
  BY <1>3, <1>4 DEF SubscribeReturns, SubscribeThrows, Dispose, Detach
<1>5. CASE UNCHANGED registryVars
  BY <1>3, <1>5 DEF registryVars
<1> QED
  BY <1>2, <1>4, <1>5
     DEF Next, User, Continuation, CatalogChanges, Begin, CallbackReturns, CallbackThrows, CallBinding,
         Cancel, CancelCast, Broadcast, SelectionCancelled, Dispatch, Resolved, Returns,
         BroadcastSettles, RecipientAnswers, vars

LEMMA RegistryStep ==
  ASSUME RoutingInv, [Next]_vars
  PROVE  RegistryInv'
<1>1. RegistryInv /\ made \in Nat
  BY AttachmentsStay DEF RoutingInv
<1>2. /\ made' \in 0 .. MaxAttachments
      /\ connectionOf' \in [1 .. made' -> Connections]
      /\ 1 .. made \subseteq 1 .. made'
      /\ \A a \in 1 .. made : connectionOf'[a] = connectionOf[a]
  BY AttachmentsStay
<1> DEFINE Typed ==
      /\ entries' \subseteq 1 .. made' /\ attaching' \in 0 .. made'
      /\ held' \subseteq 1 .. made' /\ disposed' \in BOOLEAN
    Owned ==
      /\ attaching' \notin held'
      /\ subscribed' = entries' \cup ({attaching'} \ {0})
      /\ entries' \ {attaching'} \subseteq held'
    Single == \A a, b \in entries' : Provider(a)' = Provider(b)' => a = b
<1>3. Typed /\ Owned /\ Single => RegistryInv'
  BY <1>2 DEF RegistryInv
<1> HIDE DEF Typed, Owned, Single
<1>4. ASSUME entries' \subseteq entries PROVE Single
  BY <1>1, <1>2, <1>4 DEF RegistryInv, Single, Provider
<1>5. CASE \E connection \in Connections : Attach(connection)
  <2>1. PICK connection \in Connections : Attach(connection)
    BY <1>5
  <2>2. Typed
    BY <1>1, <1>2, <2>1 DEF Attach, RegistryInv, Typed
  <2>3. Owned
    BY <1>1, <2>1 DEF Attach, RegistryInv, Owned
  <2>4. connectionOf'[made + 1] = connection
    BY <1>1, <2>1 DEF Attach, RegistryInv
  <2>5. Single
    <3> SUFFICES ASSUME NEW a \in entries', NEW b \in entries', Provider(a)' = Provider(b)'
                 PROVE  a = b
      BY DEF Single
    <3>1. entries' = entries \cup {made + 1} /\ \A e \in entries : Provider(e) # ProviderOf[connection]
      BY <2>1 DEF Attach, Registered
    <3>2. /\ Provider(a)' = IF a = made + 1 THEN ProviderOf[connection] ELSE Provider(a)
          /\ Provider(b)' = IF b = made + 1 THEN ProviderOf[connection] ELSE Provider(b)
      BY <1>1, <1>2, <2>4, <3>1 DEF RegistryInv, Provider
    <3>3. CASE a = made + 1 \/ b = made + 1
      BY <3>1, <3>2, <3>3
    <3>4. CASE a # made + 1 /\ b # made + 1
      BY <1>1, <3>1, <3>2, <3>4 DEF RegistryInv
    <3> QED BY <3>3, <3>4
  <2> QED BY <1>3, <2>2, <2>3, <2>5
<1>6. CASE SubscribeReturns
  <2>1. Typed /\ Owned
    BY <1>1, <1>2, <1>6 DEF SubscribeReturns, OwnsSubscription, RegistryInv, Typed, Owned
  <2> QED BY <1>3, <1>4, <1>6, <2>1 DEF SubscribeReturns
<1>7. CASE SubscribeThrows
  <2>1. Typed /\ Owned
    BY <1>1, <1>2, <1>7 DEF SubscribeThrows, RegistryInv, Typed, Owned
  <2> QED BY <1>3, <1>4, <1>7, <2>1 DEF SubscribeThrows
<1>8. CASE \E a \in Attachment : Detach(a)
  <2>1. PICK a \in Attachment : Detach(a)
    BY <1>8
  <2>2. Typed /\ Owned
    BY <1>1, <1>2, <2>1 DEF Detach, RegistryInv, Typed, Owned
  <2> QED BY <1>3, <1>4, <2>1, <2>2 DEF Detach
<1>9. CASE Dispose
  <2>1. Typed
    BY <1>1, <1>2, <1>9 DEF Dispose, RegistryInv, Typed
  <2>2. Owned
    <3>1. /\ 0 \notin entries /\ attaching \notin held
          /\ subscribed = entries \cup ({attaching} \ {0})
          /\ entries \ {attaching} \subseteq held
      BY <1>1 DEF RegistryInv
    <3>2. subscribed \ (entries \cap held) = {attaching} \ {0}
      BY <3>1, Zenon
    <3> QED BY <1>9, <3>1, <3>2 DEF Dispose, Owned
  <2> QED BY <1>3, <1>4, <1>9, <2>1, <2>2 DEF Dispose
<1>10. CASE UNCHANGED registryVars
  <2>1. Typed /\ Owned
    BY <1>1, <1>2, <1>10 DEF registryVars, RegistryInv, Typed, Owned
  <2> QED BY <1>3, <1>4, <1>10, <2>1 DEF registryVars
<1> QED
  BY <1>5, <1>6, <1>7, <1>8, <1>9, <1>10
     DEF Next, User, Continuation, CatalogChanges, Begin, CallbackReturns, CallbackThrows, CallBinding,
         Cancel, CancelCast, Broadcast, SelectionCancelled, Dispatch, Resolved, Returns,
         BroadcastSettles, RecipientAnswers, vars

LEMMA CatalogStep ==
  ASSUME RoutingInv, [Next]_vars
  PROVE  CatalogType'
<1>1. CatalogType
  BY DEF RoutingInv
<1>2. CASE \E connection \in Connections : CatalogChanges(connection)
  BY <1>1, <1>2, RoutingAssumption DEF CatalogChanges, CatalogType
<1>3. CASE UNCHANGED catalogVars
  BY <1>1, <1>3 DEF catalogVars, CatalogType
<1> QED
  BY <1>2, <1>3
     DEF Next, User, Continuation, Attach, Detach, Dispose, SubscribeReturns, SubscribeThrows, Begin,
         CallbackReturns, CallbackThrows, CallBinding, Cancel, CancelCast, Broadcast,
         SelectionCancelled, Dispatch, Resolved, Returns, BroadcastSettles, RecipientAnswers, vars

-------------------------------------------------------------------------------
(* The calls. *)
(* One call changes, to a state that is in order. *)
LEMMA OneCall ==
  ASSUME RoutingInv, [Next]_vars, NEW c \in Calls, NEW r \in CallRecord, CallOK(r, made),
         call' = [call EXCEPT ![c] = r]
  PROVE  CallInv'
<1>1. 1 .. made \subseteq 1 .. made'
  BY AttachmentsStay
<1>2. CallInv
  BY DEF RoutingInv
<1>3. call' \in [Calls -> CallRecord]
  BY <1>2 DEF CallInv
<1>4. ASSUME NEW d \in Calls PROVE CallOK(call'[d], made')
  <2>1. CallOK(call'[d], made)
    BY <1>2 DEF CallInv, CallOK
  <2> QED BY <1>1, <2>1 DEF CallOK
<1> QED BY <1>3, <1>4 DEF CallInv, CallOK, CallRecord, Attachment, Routings, Callback

LEMMA CallUnchanged ==
  ASSUME RoutingInv, [Next]_vars, UNCHANGED call
  PROVE  CallInv'
<1>1. 1 .. made \subseteq 1 .. made'
  BY AttachmentsStay
<1> QED BY <1>1 DEF RoutingInv, CallInv, CallOK, CallRecord, Attachment, Routings, Callback

LEMMA Settled ==
  ASSUME RoutingInv, [Next]_vars, NEW c \in Calls, NEW o \in {"value", "error"}, Settle(c, o)
  PROVE  CallInv'
<1> DEFINE r == [Idle EXCEPT !.phase = "settled", !.outcome = o]
<1>1. Idle \in CallRecord
  BY RoutingAssumption DEF Idle, CallRecord, Routings
<1>2. r \in CallRecord
  BY <1>1 DEF CallRecord
<1>3. CallOK(r, made)
  BY DEF CallOK, Idle
<1> QED BY <1>2, <1>3, OneCall DEF Settle

(* A call is begun with what is attached, and a target that is available. *)
LEMMA Begun ==
  ASSUME RoutingInv, NEW c \in Calls, NEW kind \in {"action", "invoke", "resolve"},
         NEW routing \in Routings, Begin(c, kind, routing)
  PROVE  \/ Settle(c, "error")
         \/ /\ routing = Callback
            /\ Enter(c, kind, routing, "choosing", 0)
         \/ /\ routing \in Directives /\ ~Aborted(c)
            /\ LET known == {x \in entries : Available(x)}
                   a == Choose(known, routing)
               IN /\ a # 0 /\ a \in known
                  /\ Enter(c, kind, routing, Dispatched(kind), a)
                  /\ \E i \in DOMAIN routing :
                       /\ Matching(known, routing[i]) = {a}
                       /\ \A j \in 1 .. i - 1 : Matching(known, routing[j]) = {}
<1> DEFINE known == {x \in entries : Available(x)}
<1>1. SUFFICES ASSUME ~Settle(c, "error"), routing # Callback
               PROVE  /\ routing \in Directives /\ ~Aborted(c)
                      /\ Choose(known, routing) # 0 /\ Choose(known, routing) \in known
                      /\ Enter(c, kind, routing, Dispatched(kind), Choose(known, routing))
                      /\ \E i \in DOMAIN routing :
                           /\ Matching(known, routing[i]) = {Choose(known, routing)}
                           /\ \A j \in 1 .. i - 1 : Matching(known, routing[j]) = {}
  BY DEF Begin
<1>2. routing \in Directives /\ ~Aborted(c)
  BY <1>1 DEF Begin, Routings
<1>3. Choose(known, routing) # 0 /\ Enter(c, kind, routing, Dispatched(kind), Choose(known, routing))
  BY <1>1 DEF Begin, Nobody
<1>4. known \subseteq Attachment
  <2>1. entries \subseteq Attachment
    BY RoutingAssumption DEF RoutingInv, RegistryInv, Attachment
  <2> QED BY <2>1
<1> HIDE DEF known
<1> QED BY <1>2, <1>3, <1>4, ChooseIsUnambiguous

(* The call after it has been begun with a target, or none. *)
LEMMA Entered ==
  ASSUME RoutingInv, [Next]_vars, NEW c \in Calls, call[c].phase = "idle",
         NEW kind \in {"action", "invoke", "resolve"},
         NEW routing \in Routings, NEW phase \in {"choosing", "running", "resolving"},
         NEW a \in entries \cup {0}, a # 0 <=> phase # "choosing", a # 0 => Available(a),
         phase = "choosing" => routing = Callback,
         Enter(c, kind, routing, phase, a)
  PROVE  CallInv'
<1> DEFINE known == {x \in entries : Available(x)}
           r == [phase |-> phase, kind |-> kind, routing |-> routing, candidates |-> entries,
                 known |-> known, target |-> a, cancelled |-> call[c].cancelled,
                 outcome |-> call[c].outcome]
<1>1. call \in [Calls -> CallRecord]
  BY DEF RoutingInv, CallInv
<1>2. entries \subseteq Attachment /\ entries \subseteq 1 .. made /\ a \in 0 .. MaxAttachments
      /\ known \subseteq entries
  BY RoutingAssumption DEF RoutingInv, RegistryInv, Attachment
<1>3. call' = [call EXCEPT ![c] = r]
  <2> HIDE DEF known
  <2>1. call' = [call EXCEPT ![c].kind = kind, ![c].routing = routing, ![c].phase = phase,
                             ![c].candidates = entries, ![c].known = known, ![c].target = a]
    BY DEF Enter, known
  <2> QED BY <1>1, <2>1 DEF CallRecord
<1>4. r \in CallRecord
  BY <1>1, <1>2 DEF CallRecord
<1>5. CallOK(r, made)
  BY <1>2 DEF CallOK
<1> HIDE DEF r
<1> QED BY <1>3, <1>4, <1>5, OneCall

(* A call goes on to another phase, or is cancelled. *)
LEMMA Continued ==
  ASSUME RoutingInv, [Next]_vars, NEW c \in Calls, NEW r,
         call' = [call EXCEPT ![c] = r],
         NEW phase \in {"selected", "resolving", "running", "bound"},
         NEW a \in call[c].candidates, NEW o \in {"none", "binding", "value", "error"},
         r = [call[c] EXCEPT !.phase = phase, !.target = a, !.outcome = o]
  PROVE  CallInv'
<1>1. call[c] \in CallRecord /\ CallOK(call[c], made)
  BY DEF RoutingInv, CallInv, CallOK
<1>2. a \in 1 .. made /\ a \in 0 .. MaxAttachments
  BY <1>1, RoutingAssumption DEF CallRecord, CallOK, Attachment
<1>3. r \in CallRecord
  BY <1>1, <1>2 DEF CallRecord
<1>4. CallOK(r, made)
  BY <1>1, <1>2, <1>3 DEF CallRecord, CallOK
<1> QED BY <1>3, <1>4, OneCall

LEMMA CallStep ==
  ASSUME RoutingInv, [Next]_vars
  PROVE  CallInv'
<1>1. call \in [Calls -> CallRecord] /\ \A c \in Calls : CallOK(call[c], made)
  BY DEF RoutingInv, CallInv, CallOK
<1>2. ASSUME NEW c \in Calls,
             \E kind \in {"action", "invoke", "resolve"}, routing \in Routings : Begin(c, kind, routing)
      PROVE  CallInv'
  <2>1. PICK kind \in {"action", "invoke", "resolve"}, routing \in Routings : Begin(c, kind, routing)
    BY <1>2
  <2>2. call[c].phase = "idle"
    BY <2>1 DEF Begin
  <2>3. CASE Settle(c, "error")
    BY <2>3, Settled
  <2>4. CASE routing = Callback /\ Enter(c, kind, routing, "choosing", 0)
    BY <2>2, <2>4, Entered
  <2>5. CASE \E a \in entries : a # 0 /\ Available(a) /\ Enter(c, kind, routing, Dispatched(kind), a)
    <3>1. Dispatched(kind) \in {"running", "resolving"}
      BY DEF Dispatched
    <3> QED BY <2>2, <2>5, <3>1, Entered
  <2> QED BY <2>1, <2>3, <2>4, <2>5, Begun
<1>3. ASSUME NEW c \in Calls, CallbackReturns(c) PROVE CallInv'
  <2>1. PICK d \in Directives :
          \/ Settle(c, "error")
          \/ /\ Choose(Shown(c), d) # 0
             /\ call' = [call EXCEPT ![c].phase = "selected", ![c].target = Choose(Shown(c), d)]
    BY <1>3 DEF CallbackReturns, Nobody
  <2>2. CASE Settle(c, "error")
    BY <2>2, Settled
  <2>3. CASE /\ Choose(Shown(c), d) # 0
             /\ call' = [call EXCEPT ![c].phase = "selected", ![c].target = Choose(Shown(c), d)]
    <3> DEFINE a == Choose(Shown(c), d)
               r == [call[c] EXCEPT !.phase = "selected", !.target = a, !.outcome = call[c].outcome]
    <3>1. Shown(c) \subseteq call[c].candidates /\ call[c].candidates \subseteq Attachment
      BY <1>1 DEF Shown, CallRecord
    <3>2. a \in call[c].candidates
      BY <2>3, <3>1, ChooseIsUnambiguous
    <3> HIDE DEF a
    <3>3. call' = [call EXCEPT ![c] = r]
      BY <1>1, <2>3 DEF a, CallRecord
    <3>4. call[c].outcome \in {"none", "binding", "value", "error"}
      BY <1>1 DEF CallRecord
    <3> QED BY <3>2, <3>3, <3>4, Continued
  <2> QED BY <2>1, <2>2, <2>3
<1>4. ASSUME NEW c \in Calls,
             call[c].phase \in {"selected", "resolving", "running", "bound"},
             NEW phase \in {"selected", "resolving", "running", "bound"},
             NEW o \in {"none", "binding", "value", "error"},
             call' = [call EXCEPT ![c].phase = phase, ![c].outcome = o]
      PROVE  CallInv'
  <2> DEFINE r == [call[c] EXCEPT !.phase = phase, !.target = call[c].target, !.outcome = o]
  <2>1. call[c].target \in call[c].candidates
    BY <1>1, <1>4 DEF CallOK
  <2>2. call' = [call EXCEPT ![c] = r]
    BY <1>1, <1>4 DEF CallRecord
  <2> QED BY <2>1, <2>2, Continued
<1>5. ASSUME NEW c \in Calls,
             call[c].phase \in {"selected", "resolving", "running", "bound"},
             NEW phase \in {"selected", "resolving", "running", "bound"},
             call' = [call EXCEPT ![c].phase = phase]
      PROVE  CallInv'
  <2>1. call' = [call EXCEPT ![c].phase = phase, ![c].outcome = call[c].outcome]
    BY <1>1, <1>5 DEF CallRecord
  <2>2. call[c].outcome \in {"none", "binding", "value", "error"}
    BY <1>1 DEF CallRecord
  <2> QED BY <1>4, <1>5, <2>1, <2>2
<1>6. ASSUME NEW c \in Calls, Dispatch(c) \/ Resolved(c) \/ CallBinding(c) \/ Returns(c) PROVE CallInv'
  <2>1. CASE Settle(c, "error") \/ Settle(c, "value")
    BY <2>1, Settled
  <2>2. CASE Dispatch(c) /\ ~Settle(c, "error")
    BY <1>5, <2>2 DEF Dispatch, Dispatched
  <2>3. CASE Resolved(c) /\ ~Settle(c, "error")
    BY <1>4, <1>5, <2>3 DEF Resolved
  <2>4. CASE CallBinding(c) /\ ~Settle(c, "error")
    BY <1>4, <2>4 DEF CallBinding
  <2> QED BY <1>6, <2>1, <2>2, <2>3, <2>4 DEF Returns
<1>7. ASSUME NEW c \in Calls, CallbackThrows(c) \/ SelectionCancelled(c) PROVE CallInv'
  BY <1>7, Settled DEF CallbackThrows, SelectionCancelled
<1>8. ASSUME NEW c \in Calls, Cancel(c) PROVE CallInv'
  <2> DEFINE r == [call[c] EXCEPT !.cancelled = TRUE]
  <2>1. r \in CallRecord /\ CallOK(r, made)
    BY <1>1 DEF CallRecord, CallOK
  <2>2. call' = [call EXCEPT ![c] = r]
    BY <1>8 DEF Cancel
  <2> HIDE DEF r
  <2> QED BY <2>1, <2>2, OneCall
<1>9. CASE UNCHANGED call
  BY <1>9, CallUnchanged
<1> QED
  BY <1>2, <1>3, <1>6, <1>7, <1>8, <1>9
     DEF Next, User, Continuation, Attach, Detach, Dispose, CatalogChanges, SubscribeReturns,
         SubscribeThrows, CancelCast, Broadcast, BroadcastSettles, RecipientAnswers, vars

-------------------------------------------------------------------------------
(* The broadcasts.  What a broadcast has matched does not change with what *)
(* is attached afterwards.                                                 *)
LEMMA CastStays ==
  ASSUME RoutingInv, [Next]_vars, NEW B \in CastRecord, CastOK(B)
  PROVE  CastOK(B)'
<1>1. 1 .. made \subseteq 1 .. made' /\ \A a \in 1 .. made : connectionOf'[a] = connectionOf[a]
  BY AttachmentsStay
<1>2. B.start \subseteq 1 .. made'
  BY <1>1 DEF CastOK
<1>3. Matched(B)' = Matched(B)
  BY <1>1 DEF CastOK, Matched, Provider
<1>4. \A i \in DOMAIN B.selection : Matching(B.start, B.selection[i]) # {} => Matching(B.start, B.selection[i])' # {}
  BY <1>1 DEF CastOK, Matching, Provider
<1> QED BY <1>2, <1>3, <1>4 DEF CastOK

LEMMA OneCast ==
  ASSUME RoutingInv, [Next]_vars, NEW b \in Casts, NEW r \in CastRecord, CastOK(r),
         cast' = [cast EXCEPT ![b] = r]
  PROVE  CastInv'
<1>1. CastInv
  BY DEF RoutingInv
<1>2. cast' \in [Casts -> CastRecord]
  BY <1>1 DEF CastInv
<1>3. ASSUME NEW d \in Casts PROVE cast'[d] \in CastRecord /\ CastOK(cast'[d])
  BY <1>1, <1>2 DEF CastInv
<1>4. ASSUME NEW d \in Casts, NEW B, B = cast'[d] PROVE CastOK(B)'
  BY <1>3, <1>4, CastStays
<1>5. ASSUME NEW d \in Casts PROVE CastOK(cast[d])'
  BY <1>4 DEF CastOK, Matched, Matching, Provider
<1> QED BY <1>2, <1>5 DEF CastInv, CastRecord, Attachment, Routings, Callback

LEMMA CastStep ==
  ASSUME RoutingInv, [Next]_vars
  PROVE  CastInv'
<1>1. cast \in [Casts -> CastRecord] /\ \A b \in Casts : CastOK(cast[b])
  BY DEF RoutingInv, CastInv
<1>2. ASSUME NEW b \in Casts, NEW selection \in Directives, Broadcast(b, selection) PROVE CastInv'
  <2> DEFINE recipients == Recipients(selection)
             run == {a \in recipients : Available(a)}
  <2>1. entries \subseteq Attachment /\ entries \subseteq 1 .. made
    BY RoutingAssumption DEF RoutingInv, RegistryInv, Attachment
  <2>2. recipients \subseteq entries /\ run \subseteq recipients
    BY DEF Recipients
  <2>3. cast[b].ran = {} /\ cast[b].rejected = {} /\ cast[b].fulfilled = {}
    BY <1>1, <1>2 DEF Broadcast, CastOK
  <2>4. CASE disposed \/ Unmatched(selection) # {}
    <3> DEFINE r == [cast[b] EXCEPT !.phase = "refused", !.selection = selection, !.start = entries]
    <3>1. cast' = [cast EXCEPT ![b] = r]
      BY <1>2, <2>4 DEF Broadcast
    <3>2. r \in CastRecord
      BY <1>1, <2>1 DEF CastRecord, Routings
    <3>3. /\ r.start = entries /\ r.phase = "refused" /\ r.ran = {} /\ r.rejected = {} /\ r.fulfilled = {}
      BY <1>1, <2>3 DEF CastRecord
    <3> HIDE DEF r
    <3>4. CastOK(r)
      BY <2>1, <3>3 DEF CastOK
    <3> QED BY <3>1, <3>2, <3>4, OneCast
  <2>5. CASE ~disposed /\ Unmatched(selection) = {}
    <3> DEFINE r == [cast[b] EXCEPT !.phase = "running", !.selection = selection, !.start = entries,
                                    !.ran = run, !.rejected = recipients \ run]
    <3>1. cast' = [cast EXCEPT ![b] = r]
      BY <1>2, <2>5 DEF Broadcast
    <3>2. r \in CastRecord
      BY <1>1, <2>1, <2>2 DEF CastRecord, Routings
    <3>3. /\ r.start = entries /\ r.phase = "running" /\ r.ran = run /\ r.rejected = recipients \ run
          /\ r.fulfilled = {} /\ r.selection = selection
      BY <1>1, <2>3 DEF CastRecord
    <3> HIDE DEF r
    <3>4. Matched(r) = recipients
      BY <3>3 DEF Matched, Recipients
    <3>5. \A i \in DOMAIN selection : Matching(entries, selection[i]) # {}
      BY <2>5 DEF Unmatched
    <3> HIDE DEF recipients, run
    <3>6. CastOK(r)
      BY <2>1, <2>2, <3>3, <3>4, <3>5 DEF CastOK
    <3> QED BY <3>1, <3>2, <3>6, OneCast
  <2> QED BY <2>4, <2>5
<1>3. ASSUME NEW b \in Casts, NEW r \in CastRecord, cast[b].phase = "running",
             cast' = [cast EXCEPT ![b] = r],
             r.selection = cast[b].selection, r.start = cast[b].start, r.ran = cast[b].ran,
             cast[b].rejected \subseteq r.rejected, r.rejected \subseteq cast[b].rejected \cup r.ran,
             r.fulfilled \subseteq r.ran, r.fulfilled \cap r.rejected = {},
             \/ r.phase = "running"
             \/ r.phase = "settled" /\ r.ran \subseteq r.fulfilled \cup r.rejected
      PROVE  CastInv'
  <2>1. Matched(r) = Matched(cast[b])
    BY <1>3 DEF Matched
  <2>2. CastOK(r)
    BY <1>1, <1>3, <2>1 DEF CastOK
  <2> QED BY <1>3, <2>2, OneCast
<1>4. ASSUME NEW b \in Casts, NEW a \in Attachment, RecipientAnswers(b, a) PROVE CastInv'
  <2>1. /\ cast[b].phase = "running" /\ cast[b].fulfilled \subseteq cast[b].ran
        /\ cast[b].fulfilled \cap cast[b].rejected = {}
        /\ a \in cast[b].ran \ (cast[b].fulfilled \cup cast[b].rejected)
    BY <1>1, <1>4 DEF RecipientAnswers, CastOK
  <2>2. CASE cast' = [cast EXCEPT ![b].rejected = @ \cup {a}]
    <3> DEFINE r == [cast[b] EXCEPT !.rejected = @ \cup {a}]
    <3>1. r \in CastRecord
      BY <1>1 DEF CastRecord
    <3>2. cast' = [cast EXCEPT ![b] = r]
      BY <2>2
    <3>3. /\ r.phase = "running" /\ r.selection = cast[b].selection /\ r.start = cast[b].start
          /\ r.ran = cast[b].ran /\ r.fulfilled = cast[b].fulfilled /\ r.rejected = cast[b].rejected \cup {a}
      BY <1>1, <2>1 DEF CastRecord
    <3> HIDE DEF r
    <3> QED BY <1>3, <2>1, <3>1, <3>2, <3>3
  <2>3. CASE cast' = [cast EXCEPT ![b].fulfilled = @ \cup {a}]
    <3> DEFINE r == [cast[b] EXCEPT !.fulfilled = @ \cup {a}]
    <3>1. r \in CastRecord
      BY <1>1 DEF CastRecord
    <3>2. cast' = [cast EXCEPT ![b] = r]
      BY <2>3
    <3>3. /\ r.phase = "running" /\ r.selection = cast[b].selection /\ r.start = cast[b].start
          /\ r.ran = cast[b].ran /\ r.rejected = cast[b].rejected /\ r.fulfilled = cast[b].fulfilled \cup {a}
      BY <1>1, <2>1 DEF CastRecord
    <3> HIDE DEF r
    <3> QED BY <1>3, <2>1, <3>1, <3>2, <3>3
  <2> QED BY <1>4, <2>2, <2>3 DEF RecipientAnswers
<1>5. ASSUME NEW b \in Casts, BroadcastSettles(b) PROVE CastInv'
  <2> DEFINE r == [cast[b] EXCEPT !.phase = "settled"]
  <2>1. r \in CastRecord
    BY <1>1 DEF CastRecord
  <2>2. cast' = [cast EXCEPT ![b] = r]
    BY <1>5 DEF BroadcastSettles
  <2> QED BY <1>1, <1>3, <1>5, <2>1, <2>2 DEF CastRecord, CastOK, BroadcastSettles
<1>6. ASSUME NEW b \in Casts, CancelCast(b) PROVE CastInv'
  <2> DEFINE r == [cast[b] EXCEPT !.cancelled = TRUE]
  <2>1. r \in CastRecord
    BY <1>1 DEF CastRecord
  <2>2. cast' = [cast EXCEPT ![b] = r]
    BY <1>6 DEF CancelCast
  <2> QED BY <1>1, <1>3, <1>6, <2>1, <2>2 DEF CastRecord, CastOK, CancelCast
<1>7. CASE UNCHANGED cast
  <2>1. \A b \in Casts : cast[b] \in CastRecord /\ CastOK(cast[b])
    BY <1>1
  <2>2. ASSUME NEW b \in Casts, NEW B, B = cast[b] PROVE CastOK(B)'
    BY <2>1, <2>2, CastStays
  <2>3. ASSUME NEW b \in Casts PROVE CastOK(cast[b])'
    BY <1>7, <2>2 DEF CastOK, Matched, Matching, Provider
  <2> QED BY <1>1, <1>7, <2>3 DEF CastInv, CastRecord, Attachment, Routings, Callback
<1> QED
  BY <1>2, <1>4, <1>5, <1>6, <1>7
     DEF Next, User, Continuation, Attach, Detach, Dispose, CatalogChanges, SubscribeReturns,
         SubscribeThrows, Begin, CallbackReturns, CallbackThrows, CallBinding, Cancel,
         SelectionCancelled, Dispatch, Resolved, Returns, vars

-------------------------------------------------------------------------------
(* The first state. *)
LEMMA RoutingInit == Init => RoutingInv
<1> SUFFICES ASSUME Init PROVE RoutingInv
  OBVIOUS
<1>1. RegistryInv
  <2>1. connectionOf \in Seq(Connections) /\ Len(connectionOf) = 0
    BY DEF Init
  <2>2. connectionOf \in [1 .. made -> Connections]
    BY <2>1 DEF Init
  <2>3. /\ made = 0 /\ entries = {} /\ attaching = 0 /\ subscribed = {} /\ held = {}
        /\ disposed = FALSE
    BY DEF Init
  <2>4. 0 \in 0 .. MaxAttachments /\ 0 \in 0 .. 0
    BY RoutingAssumption
  <2> QED BY <2>2, <2>3, <2>4 DEF RegistryInv
<1>2. CatalogType
  BY RoutingAssumption DEF Init, CatalogType
<1>3. CallInv
  <2>1. Idle \in CallRecord /\ CallOK(Idle, made)
    BY RoutingAssumption DEF Idle, CallRecord, CallOK, Routings
  <2> QED BY <2>1 DEF Init, CallInv
<1>4. CastInv
  <2>1. IdleCast \in CastRecord /\ CastOK(IdleCast)
    BY DEF IdleCast, CastRecord, CastOK, Routings
  <2> QED BY <2>1 DEF Init, CastInv
<1> QED BY <1>1, <1>2, <1>3, <1>4 DEF RoutingInv

LEMMA RoutingStep == RoutingInv /\ [Next]_vars => RoutingInv'
BY RegistryStep, CatalogStep, CallStep, CastStep DEF RoutingInv

(* Attaching, detaching and disposing leave one subscription for each      *)
(* attachment and one attachment for each provider, even when a listener   *)
(* detaches, or disposes the client, while subscribe() is on the stack     *)
(* (registry.ts).                                                          *)
THEOREM RegistryOwnsItsSubscriptions == Spec => []SubscriptionsOwned
<1>1. RoutingInv => SubscriptionsOwned
  <2> SUFFICES ASSUME RoutingInv PROVE SubscriptionsOwned
    OBVIOUS
  <2>1. subscribed \subseteq 1 .. made /\ (attaching = 0 => subscribed = entries)
    BY DEF RoutingInv, RegistryInv
  <2>2. TypeOK
    <3>1. ASSUME NEW b \in Casts
          PROVE  /\ cast[b].phase \in {"idle", "running", "settled", "refused"}
                 /\ cast[b].ran \cup cast[b].rejected \subseteq cast[b].start
      BY DEF RoutingInv, CastInv, CastRecord, CastOK, Matched
    <3>2. ASSUME NEW c \in Calls
          PROVE /\ call[c].phase \in {"idle", "choosing", "selected", "resolving", "running", "bound", "settled"}
                /\ call[c].kind \in {"action", "invoke", "resolve"}
                /\ call[c].routing \in Routings
                /\ call[c].known \subseteq call[c].candidates /\ call[c].candidates \subseteq 1 .. made
                /\ call[c].target \in 0 .. made
                /\ call[c].target # 0 <=> call[c].phase \in {"selected", "resolving", "running", "bound"}
                /\ call[c].outcome \in {"none", "binding", "value", "error"}
      BY DEF RoutingInv, RegistryInv, CallInv, CallRecord, CallOK
    <3> QED BY <2>1, <3>1, <3>2 DEF TypeOK, RoutingInv, RegistryInv, CatalogType
  <2> QED BY <2>1, <2>2 DEF RoutingInv, RegistryInv, SubscriptionsOwned
<1> QED BY <1>1, RoutingInit, RoutingStep, PTL DEF Spec

(* broadcast() dispatches nothing unless every selector matches, and ends  *)
(* with one result for each of the recipients known when it began          *)
(* (calls.ts).                                                             *)
THEOREM NoRecipientDisappears == Spec => []BroadcastIsComplete
<1>1. RoutingInv => BroadcastIsComplete
  <2> SUFFICES ASSUME RoutingInv, NEW b \in Casts
               PROVE  LET B == cast[b] IN
                        /\ B.ran # {} => \A i \in DOMAIN B.selection : Matching(B.start, B.selection[i]) # {}
                        /\ B.phase = "settled" =>
                             /\ B.fulfilled \cup B.rejected =
                                  UNION {Matching(B.start, B.selection[i]) : i \in DOMAIN B.selection}
                             /\ B.fulfilled \cap B.rejected = {}
    BY DEF BroadcastIsComplete
  <2> DEFINE B == cast[b]
  <2>1. CastOK(B) /\ B.phase \in {"idle", "running", "settled", "refused"}
    BY DEF RoutingInv, CastInv, CastRecord
  <2> HIDE DEF B
  <2>2. B.ran # {} => \A i \in DOMAIN B.selection : Matching(B.start, B.selection[i]) # {}
    BY <2>1 DEF CastOK
  <2>3. Matched(B) = UNION {Matching(B.start, B.selection[i]) : i \in DOMAIN B.selection}
    BY DEF Matched, Matching
  <2>4. B.phase = "settled" => B.fulfilled \cup B.rejected = Matched(B) /\ B.fulfilled \cap B.rejected = {}
    BY <2>1 DEF CastOK
  <2> QED BY <2>2, <2>3, <2>4 DEF B
<1> QED BY <1>1, RoutingInit, RoutingStep, PTL DEF Spec

(* What a step does to the other calls, and what it leaves of a settled    *)
(* one.                                                                    *)
LEMMA OthersUnchanged ==
  ASSUME RoutingInv, NEW c \in Calls, NEW d \in Calls, d # c,
         \/ \E kind \in {"action", "invoke", "resolve"}, routing \in Routings : Begin(d, kind, routing)
         \/ CallbackReturns(d) \/ CallbackThrows(d) \/ CallBinding(d) \/ Cancel(d)
         \/ SelectionCancelled(d) \/ Dispatch(d) \/ Resolved(d) \/ Returns(d)
  PROVE  call'[c] = call[c]
<1>1. call \in [Calls -> CallRecord]
  BY DEF RoutingInv, CallInv
<1>2. CASE \E o : Settle(d, o)
  BY <1>1, <1>2 DEF Settle
<1>3. CASE \E kind \in {"action", "invoke", "resolve"}, routing \in Routings : Begin(d, kind, routing)
  <2>1. PICK kind \in {"action", "invoke", "resolve"}, routing \in Routings : Begin(d, kind, routing)
    BY <1>3
  <2>2. CASE \E phase, a : Enter(d, kind, routing, phase, a)
    BY <1>1, <2>2 DEF Enter
  <2> QED BY <1>2, <2>1, <2>2, Begun
<1>4. CASE CallbackReturns(d) /\ ~Settle(d, "error")
  <2>1. PICK a : call' = [call EXCEPT ![d].phase = "selected", ![d].target = a]
    BY <1>4 DEF CallbackReturns
  <2> QED BY <1>1, <2>1
<1>5. CASE (CallBinding(d) \/ Cancel(d) \/ Dispatch(d) \/ Resolved(d)) /\ ~Settle(d, "error")
  BY <1>1, <1>5 DEF CallBinding, Cancel, Dispatch, Resolved
<1> QED
  BY <1>2, <1>3, <1>4, <1>5 DEF CallbackThrows, SelectionCancelled, Returns, CallBinding

LEMMA SettledRecord ==
  ASSUME RoutingInv, NEW c \in Calls, NEW o, Settle(c, o)
  PROVE  call'[c].phase = "settled" /\ call'[c].target = 0 /\ call'[c].outcome = o
BY DEF RoutingInv, CallInv, Settle, Idle

(* A connection is called only through an entry that is attached,          *)
(* available and not cancelled at that moment, the one the call considered *)
(* and chose; and the choice by selectors is never a matter of order.      *)
(* selection.ts checks readiness again after the callback, dispatch.ts     *)
(* before each dispatch.                                                   *)
THEOREM CallsAreNeverRerouted == Spec => NeverRerouted
<1> DEFINE Kept(c) ==
      /\ Started(c) =>
            LET a == call'[c].target
            IN /\ a \in entries /\ Available(a) /\ ~Aborted(c)
               /\ a \in call'[c].candidates
               /\ call[c].target \in {0, a}
      /\ Chosen(c) /\ call'[c].routing # Callback =>
            \E i \in DOMAIN call'[c].routing :
              /\ Matching(call'[c].known, call'[c].routing[i]) = {call'[c].target}
              /\ \A j \in 1 .. i - 1 : Matching(call'[c].known, call'[c].routing[j]) = {}
<1>1. RoutingInv /\ [Next]_vars => [\A c \in Calls : Kept(c)]_vars
  <2> SUFFICES ASSUME RoutingInv, [Next]_vars, NEW c \in Calls PROVE Kept(c)
    BY DEF vars
  <2>1. call \in [Calls -> CallRecord] /\ CallOK(call[c], made)
    BY DEF RoutingInv, CallInv
  <2>2. ASSUME call'[c] = call[c] PROVE Kept(c)
    BY <2>2 DEF Started, Chosen
  <2>3. ASSUME NEW o, Settle(c, o) PROVE Kept(c)
    BY <2>3, SettledRecord DEF Started, Chosen
  <2>4. ASSUME \E kind \in {"action", "invoke", "resolve"}, routing \in Routings : Begin(c, kind, routing)
        PROVE  Kept(c)
    <3>1. PICK kind \in {"action", "invoke", "resolve"}, routing \in Routings : Begin(c, kind, routing)
      BY <2>4
    <3>2. ASSUME NEW phase, NEW a, Enter(c, kind, routing, phase, a)
          PROVE  /\ call'[c].phase = phase /\ call'[c].target = a /\ call'[c].routing = routing
                 /\ call'[c].candidates = entries
                 /\ call'[c].known = {x \in entries : Available(x)}
      <4> DEFINE known == {x \in entries : Available(x)}
      <4> HIDE DEF known
      <4>1. call' = [call EXCEPT ![c].kind = kind, ![c].routing = routing, ![c].phase = phase,
                                 ![c].candidates = entries, ![c].known = known, ![c].target = a]
        BY <3>2 DEF Enter, known
      <4>2. /\ call'[c].phase = phase /\ call'[c].target = a /\ call'[c].routing = routing
            /\ call'[c].candidates = entries /\ call'[c].known = known
        BY <2>1, <4>1 DEF CallRecord
      <4> QED BY <4>2 DEF known
    <3>3. CASE Enter(c, kind, routing, "choosing", 0)
      BY <3>2, <3>3 DEF Started, Chosen
    <3>4. call[c].target = 0
      BY <2>1, <3>1 DEF Begin, CallOK
    <3> DEFINE known == {x \in entries : Available(x)}
               a == Choose(known, routing)
    <3>5. CASE /\ ~Aborted(c) /\ a # 0 /\ a \in known
               /\ Enter(c, kind, routing, Dispatched(kind), a)
               /\ \E i \in DOMAIN routing :
                    /\ Matching(known, routing[i]) = {a}
                    /\ \A j \in 1 .. i - 1 : Matching(known, routing[j]) = {}
      <4>1. /\ call'[c].target = a /\ call'[c].routing = routing
            /\ call'[c].candidates = entries /\ call'[c].known = known
        BY <3>2, <3>5
      <4>2. a \in entries /\ Available(a)
        BY <3>5
      <4> HIDE DEF a, known
      <4> QED BY <3>4, <3>5, <4>1, <4>2
    <3> QED BY <2>3, <3>1, <3>3, <3>5, Begun
  <2>5. ASSUME CallbackReturns(c) PROVE Kept(c)
    <3>1. CASE Settle(c, "error")
      BY <2>3, <3>1
    <3>2. ASSUME NEW a, call' = [call EXCEPT ![c].phase = "selected", ![c].target = a] PROVE Kept(c)
      <4>1. call'[c].phase = "selected" /\ call'[c].routing = call[c].routing
        BY <2>1, <3>2 DEF CallRecord
      <4>2. call[c].routing = Callback
        BY <2>1, <2>5 DEF CallbackReturns, CallOK
      <4> QED BY <4>1, <4>2 DEF Started
    <3> QED BY <2>5, <3>1, <3>2 DEF CallbackReturns
  <2>6. ASSUME NEW phase, Dispatchable(c, call[c].target), call[c].target # 0,
               \/ call' = [call EXCEPT ![c].phase = phase]
               \/ \E o : call' = [call EXCEPT ![c].phase = phase, ![c].outcome = o]
        PROVE  Kept(c)
    <3>1. /\ call'[c].target = call[c].target /\ call'[c].candidates = call[c].candidates
      BY <2>1, <2>6 DEF CallRecord
    <3> QED BY <2>1, <2>6, <3>1 DEF Started, Chosen, Dispatchable, CallOK
  <2>7. ASSUME Dispatch(c) \/ CallBinding(c) \/ Resolved(c) PROVE Kept(c)
    <3>1. call[c].target # 0
      BY <2>1, <2>7 DEF Dispatch, CallBinding, Resolved, CallOK
    <3>2. CASE Settle(c, "error")
      BY <2>3, <3>2
    <3>3. CASE call' = [call EXCEPT ![c].phase = "bound", ![c].outcome = "binding"]
      <4>1. call'[c].phase = "bound" /\ call'[c].target = call[c].target
        BY <2>1, <3>3 DEF CallRecord
      <4> QED BY <3>1, <4>1 DEF Started, Chosen
    <3> QED BY <2>6, <2>7, <3>1, <3>2, <3>3 DEF Dispatch, CallBinding, Resolved
  <2>8. ASSUME CallbackThrows(c) \/ SelectionCancelled(c) \/ Returns(c) PROVE Kept(c)
    BY <2>3, <2>8 DEF CallbackThrows, SelectionCancelled, Returns
  <2>9. ASSUME Cancel(c) PROVE Kept(c)
    <3>1. call'[c].phase = call[c].phase /\ call'[c].target = call[c].target
      BY <2>1, <2>9 DEF Cancel, CallRecord
    <3> QED BY <3>1 DEF Started, Chosen
  <2>10. CASE UNCHANGED call
    BY <2>2, <2>10
  <2> QED
    BY <2>2, <2>4, <2>5, <2>7, <2>8, <2>9, <2>10, OthersUnchanged
       DEF Next, User, Continuation, Attach, Detach, Dispose, CatalogChanges, SubscribeReturns,
           SubscribeThrows, CancelCast, Broadcast, BroadcastSettles, RecipientAnswers, vars
<1> QED BY <1>1, RoutingInit, RoutingStep, PTL DEF Spec, NeverRerouted

(* A value or a binding is handed over only for an attachment that is      *)
(* still there, by a client that is not disposed and for a call that is    *)
(* not cancelled: assertCurrent and assertNotCancelled run after every     *)
(* answer of a connection (dispatch.ts).                                   *)
THEOREM NothingArrivesLate == Spec => NoLateValue
<1> DEFINE InTime(c) ==
      call'[c].outcome \in {"value", "binding"} /\ call[c].outcome # call'[c].outcome =>
        call[c].target \in entries /\ ~Aborted(c)
    CastInTime(b) ==
      cast'[b].fulfilled \ cast[b].fulfilled # {} =>
        /\ cast'[b].fulfilled \ cast[b].fulfilled \subseteq entries
        /\ ~CastAborted(b)
<1>1. ASSUME RoutingInv, [Next]_vars, NEW c \in Calls PROVE InTime(c)
  <2>1. call \in [Calls -> CallRecord] /\ CallOK(call[c], made)
    BY <1>1 DEF RoutingInv, CallInv
  <2>2. ASSUME call'[c] = call[c] \/ call'[c].outcome \in {call[c].outcome, "none"} PROVE InTime(c)
    BY <2>2
  <2>3. ASSUME Settle(c, "error") PROVE InTime(c)
    BY <1>1, <2>3, SettledRecord
  <2>4. ASSUME \E kind \in {"action", "invoke", "resolve"}, routing \in Routings : Begin(c, kind, routing)
        PROVE  InTime(c)
    <3>1. PICK kind \in {"action", "invoke", "resolve"}, routing \in Routings : Begin(c, kind, routing)
      BY <2>4
    <3>2. ASSUME NEW phase, NEW a, Enter(c, kind, routing, phase, a)
          PROVE  call'[c].outcome = call[c].outcome
      <4> DEFINE known == {x \in entries : Available(x)}
      <4> HIDE DEF known
      <4>1. call' = [call EXCEPT ![c].kind = kind, ![c].routing = routing, ![c].phase = phase,
                                 ![c].candidates = entries, ![c].known = known, ![c].target = a]
        BY <3>2 DEF Enter, known
      <4> QED BY <2>1, <4>1 DEF CallRecord
    <3> QED BY <1>1, <2>2, <2>3, <3>1, <3>2, Begun
  <2>5. ASSUME CallbackReturns(c) \/ Dispatch(c) \/ Cancel(c) \/ CallBinding(c) PROVE InTime(c)
    <3>1. \/ Settle(c, "error")
          \/ call'[c].outcome \in {call[c].outcome, "none"}
      BY <2>1, <2>5 DEF CallbackReturns, Dispatch, Cancel, CallBinding, CallRecord
    <3> QED BY <2>2, <2>3, <3>1
  <2>6. ASSUME Resolved(c) PROVE InTime(c)
    <3>1. CASE Receivable(c)
      BY <3>1 DEF Receivable
    <3>2. CASE call' = [call EXCEPT ![c].phase = "running"]
      BY <2>1, <2>2, <3>2 DEF CallRecord
    <3> QED BY <2>3, <2>6, <3>1, <3>2 DEF Resolved
  <2>7. ASSUME Returns(c) PROVE InTime(c)
    <3>1. CASE Receivable(c)
      BY <3>1 DEF Receivable
    <3> QED BY <2>3, <2>7, <3>1 DEF Returns
  <2>8. ASSUME CallbackThrows(c) \/ SelectionCancelled(c) PROVE InTime(c)
    BY <2>3, <2>8 DEF CallbackThrows, SelectionCancelled
  <2>9. CASE UNCHANGED call
    BY <2>2, <2>9
  <2> QED
    BY <1>1, <2>2, <2>4, <2>5, <2>6, <2>7, <2>8, <2>9, OthersUnchanged
       DEF Next, User, Continuation, Attach, Detach, Dispose, CatalogChanges, SubscribeReturns,
           SubscribeThrows, CancelCast, Broadcast, BroadcastSettles, RecipientAnswers, vars
<1>2. ASSUME RoutingInv, [Next]_vars, NEW b \in Casts PROVE CastInTime(b)
  <2>1. cast \in [Casts -> CastRecord]
    BY <1>2 DEF RoutingInv, CastInv
  <2>2. ASSUME cast'[b].fulfilled = cast[b].fulfilled PROVE CastInTime(b)
    BY <2>2
  <2>3. ASSUME NEW d \in Casts, NEW a \in Attachment, RecipientAnswers(d, a) PROVE CastInTime(b)
    <3>1. CASE cast' = [cast EXCEPT ![d].rejected = @ \cup {a}]
      BY <2>1, <2>2, <3>1 DEF CastRecord
    <3>2. CASE CastReceivable(d, a) /\ cast' = [cast EXCEPT ![d].fulfilled = @ \cup {a}]
      <4>1. cast'[b].fulfilled = IF b = d THEN cast[b].fulfilled \cup {a} ELSE cast[b].fulfilled
        BY <2>1, <3>2 DEF CastRecord
      <4> QED BY <3>2, <4>1 DEF CastReceivable
    <3> QED BY <2>3, <3>1, <3>2 DEF RecipientAnswers
  <2>4. ASSUME NEW d \in Casts,
               BroadcastSettles(d) \/ CancelCast(d) \/ \E selection \in Directives : Broadcast(d, selection)
        PROVE  CastInTime(b)
    <3>1. cast'[b].fulfilled = cast[b].fulfilled
      <4>1. CASE BroadcastSettles(d) \/ CancelCast(d)
        BY <2>1, <4>1 DEF BroadcastSettles, CancelCast, CastRecord
      <4>2. CASE \E selection \in Directives : Broadcast(d, selection)
        <5>1. PICK r : cast' = [cast EXCEPT ![d] = r] /\ r.fulfilled = cast[d].fulfilled
          BY <2>1, <4>2 DEF Broadcast, CastRecord
        <5> QED BY <2>1, <5>1
      <4> QED BY <2>4, <4>1, <4>2
    <3> QED BY <2>2, <3>1
  <2>5. CASE UNCHANGED cast
    BY <2>2, <2>5
  <2> QED
    BY <1>2, <2>3, <2>4, <2>5
       DEF Next, User, Continuation, Attach, Detach, Dispose, CatalogChanges, SubscribeReturns,
           SubscribeThrows, Begin, CallbackReturns, CallbackThrows, CallBinding, Cancel,
           SelectionCancelled, Dispatch, Resolved, Returns, vars
<1>3. RoutingInv /\ [Next]_vars =>
        [/\ \A c \in Calls : InTime(c)
         /\ \A b \in Casts : CastInTime(b)]_vars
  BY <1>1, <1>2
<1> QED BY <1>3, RoutingInit, RoutingStep, PTL DEF Spec, NoLateValue
===============================================================================
