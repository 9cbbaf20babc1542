-------------------------- MODULE LocalProviderProofs --------------------------
(***************************************************************************)
(* Theorems about LocalProvider, for any number of calls, generations and  *)
(* listeners, and however deep the notifications nest: what a call may     *)
(* rely on while it runs and who is blamed for its end, and whom a         *)
(* provider's catalog tells of its changes.                                *)
(***************************************************************************)
EXTENDS LocalProvider, SequenceTheorems, TLAPS

(* A call that is under way keeps its generation from being released: its  *)
(* target can be stopped under it, and nothing more.  What is more, an     *)
(* action's handler keeps the generation of the service it was given.      *)
Held(k) ==
  /\ status[call[k].target] \in {"active", "stopping"}
  /\ generation[call[k].target] = call[k].generation
  /\ call[k].used # 0 => call[k].target = "action"
  /\ call[k].phase = "handling" /\ call[k].used # 0 =>
       /\ generation["service"] = call[k].used
       /\ status["service"] \in {"active", "stopping"}

(* What a call under way has been through, and what is to be said of it if *)
(* it is over: by itself, when it is not fenced in the end.                *)
Undecided(r) ==
  /\ r.outcome = "none" /\ ~r.threw
  /\ r.ran <=> r.phase \in {"handling", "checking"}
  /\ r.gaveUp \in {"idle", r.phase}

Decided(k) ==
  LET r == call[k] IN
  /\ r.outcome # "none"
  /\ r.gaveUp \in {"idle", "queued", "validating", "handling", "checking", "returning"}
  /\ r.gaveUp \in {"queued", "validating", "handling", "checking"} =>
       r.outcome \in Excuses(r.gaveUp) \cup {"abort-reason"}
  /\ r.outcome = "abort-reason" => Fenced(k)
  /\ r.outcome = "cancelled" => Cancelled(k)
  /\ r.outcome \in {"invalid-input", "unavailable-capability"} => ~r.ran
  /\ r.outcome \in {"operation-failed", "own-error"} => r.threw
  /\ r.threw => r.outcome \in {"operation-failed", "own-error", "cancelled"}
  /\ r.outcome = "value" => r.ran /\ ~r.threw

CallOK(k) ==
  /\ call[k].phase = "idle" => call[k] = Unmade
  /\ Unsettled(k) =>
       /\ Held(k)
       /\ IF call[k].phase = "returning" THEN Decided(k) ELSE Undecided(call[k])

InvocationInv == InvocationTypeOK /\ \A k \in Calls : CallOK(k)

(* Who is behind will be called by one of the loops on the stack, the one  *)
(* of the last change; a dispose() under way still has its own to begin.   *)
Answers(i) ==
  \/ stack[i].kind = "dispose"
  \/ stack[i].kind = "notify" /\ listeners \cap behind \subseteq stack[i].left
Answered ==
  \/ listeners \cap behind = {}
  \/ \E i \in DOMAIN stack : Answers(i)

StackInv ==
  /\ stack \in Seq(Frame)
  /\ \A i \in DOMAIN stack : stack[i].kind = "dispose" => i < MaxDepth

(* Only an enable() of an open provider announces nothing for now; and the *)
(* listeners of a disposed one stay for the notification that says so.     *)
CatalogInv ==
  /\ CatalogTypeOK /\ StackInv /\ enabling \subseteq Contribution
  /\ Answered \/ (enabling # {} /\ Open)
  /\ (\E c \in Contribution : status[c] = "gone") => ~Open
  /\ catalog = "disposed" /\ listeners # {} => stack # <<>> /\ stack[1].kind = "notify"

-------------------------------------------------------------------------------
(* The lifecycle under a call. *)
CallRecord ==
  [phase : Phase, target : Contribution, generation : 0 .. MaxGeneration, gaveUp : Phase,
   used : 0 .. MaxGeneration, ran : BOOLEAN, threw : BOOLEAN, outcome : Outcome]

Kept(c) ==
  status[c] \in {"active", "stopping"} =>
    status'[c] \in {status[c], "stopping"} /\ generation'[c] = generation[c]

LEMMA HeldIsKept ==
  ASSUME InvocationInv, UNCHANGED call,
         \A c \in Contribution : Kept(c) \/ \E s \in Status : StopEnds(c, s),
         NEW k \in Calls
  PROVE  CallOK(k)'
<1>1. call[k] \in CallRecord /\ CallOK(k)
  BY DEF InvocationInv, InvocationTypeOK, CallRecord
<1>2. CASE ~Unsettled(k)
  BY <1>1, <1>2 DEF CallOK, Unsettled, Unmade
<1>3. CASE Unsettled(k)
  <2>1. Held(k) /\ call[k].target \in Contribution
    BY <1>1, <1>3 DEF CallOK, CallRecord
  <2>2. Kept(call[k].target)
    <3>1. ASSUME NEW s, StopEnds(call[k].target, s) PROVE FALSE
      BY <1>3, <3>1 DEF StopEnds, Released, Quiet
    <3> QED BY <2>1, <3>1
  <2>3. ASSUME call[k].phase = "handling", call[k].used # 0 PROVE Kept("service")
    <3>1. ASSUME NEW s, StopEnds("service", s) PROVE FALSE
      <4>1. call[k].target = "action" /\ "action" \in Dependents("service")
        BY <2>1, <2>3 DEF Held, Dependents, Requires, Contribution
      <4> QED BY <2>1, <3>1, <4>1 DEF Held, StopEnds, Released
    <3> QED BY <3>1 DEF Contribution
  <2>4. Held(k)'
    BY <2>1, <2>2, <2>3 DEF Held, Kept
  <2>5. (Fenced(k) => Fenced(k)') /\ (Cancelled(k) => Cancelled(k)')
    BY <2>1, <2>2 DEF Held, Kept, Fenced, Cancelled
  <2>6. CASE call[k].phase = "returning"
    <3>1. Decided(k)
      BY <1>1, <1>3, <2>6 DEF CallOK
    <3>2. Decided(k)'
      BY <2>5, <3>1 DEF Decided, Excuses
    <3> QED BY <1>1, <2>4, <2>6, <3>2 DEF CallOK
  <2>7. CASE call[k].phase # "returning"
    <3>1. Undecided(call[k])'
      BY <1>1, <1>3, <2>7 DEF CallOK, Undecided
    <3> QED BY <1>1, <2>4, <2>7, <3>1 DEF CallOK, Unsettled
  <2> QED BY <2>6, <2>7
<1> QED BY <1>2, <1>3

LEMMA LifecycleKeeps ==
  ASSUME InvocationInv, Lifecycle
  PROVE  /\ UNCHANGED call
         /\ status' \in [Contribution -> Status]
         /\ generation' \in [Contribution -> 0 .. MaxGeneration]
         /\ \A c \in Contribution : Kept(c) \/ \E s \in Status : StopEnds(c, s)
<1>1. status \in [Contribution -> Status] /\ generation \in [Contribution -> 0 .. MaxGeneration]
  BY DEF InvocationInv, InvocationTypeOK
<1> DEFINE Goal ==
      /\ UNCHANGED call
      /\ status' \in [Contribution -> Status]
      /\ generation' \in [Contribution -> 0 .. MaxGeneration]
      /\ \A c \in Contribution : Kept(c) \/ \E s \in Status : StopEnds(c, s)
<1> HIDE DEF Goal
<1>2. ASSUME UNCHANGED invocationVars PROVE Goal
  BY <1>1, <1>2 DEF invocationVars, Kept, Goal
<1>3. ASSUME NEW c \in Contribution, NEW s \in Status,
             status' = [status EXCEPT ![c] = s], UNCHANGED <<generation, call>>,
             \/ status[c] \notin {"active", "stopping"}
             \/ s \in {status[c], "stopping"}
             \/ StopEnds(c, s)
      PROVE  Goal
  BY <1>1, <1>3 DEF Kept, Goal
<1>4. ASSUME NEW c \in Contribution, Disable(c) \/ Enable(c) \/ EnableReturns(c) \/ Release(c) PROVE Goal
  <2>1. CASE Disable(c)
    BY <1>3, <2>1 DEF Disable, Stops, Status
  <2>2. CASE Enable(c)
    BY <1>3, <2>2 DEF Enable, Status
  <2>3. CASE EnableReturns(c)
    BY <1>2, <2>3 DEF EnableReturns
  <2>4. CASE Release(c)
    BY <1>3, <2>4 DEF Release, Status
  <2> QED BY <1>4, <2>1, <2>2, <2>3, <2>4
<1>5. ASSUME NEW c \in Contribution, Starts(c) PROVE Goal
  BY <1>1, <1>5, InvocationAssumption DEF Starts, Kept, Goal, Status
<1>6. ASSUME NEW c \in Contribution, Reconcile(c) PROVE Goal
  <2>1. CASE StartEnds(c)
    BY <1>3, <2>1 DEF StartEnds, Status
  <2>2. CASE Stops(c)
    BY <1>3, <2>2 DEF Stops, Status
  <2> QED BY <1>5, <1>6, <2>1, <2>2 DEF Reconcile
<1>7. ASSUME NEW c \in Contribution, StopSettles(c) PROVE Goal
  BY <1>3, <1>7 DEF StopSettles, StopEnds, Status
<1>8. CASE StopInstallation
  <2>1. PICK c \in Last(stack).left :
          status' = [status EXCEPT ![c] = IF @ \in {"starting", "active"} THEN "stopping"
                                          ELSE IF @ = "waiting" THEN "idle" ELSE @]
    BY <1>8 DEF StopInstallation
  <2>2. UNCHANGED <<generation, call>>
    BY <1>8 DEF StopInstallation
  <2> QED BY <1>1, <2>1, <2>2 DEF Kept, Status
<1>9. CASE Dispose \/ DisposeNotifies \/ DisposalEnds
  BY <1>2, <1>9 DEF Dispose, DisposeNotifies, DisposalEnds, Goal
<1> QED BY <1>4, <1>6, <1>7, <1>8, <1>9 DEF Lifecycle, Goal

-------------------------------------------------------------------------------
(* The calls.  A call's steps change neither a status nor another call.    *)
CallStep(k) ==
  GiveUp(k) \/ Proceed(k) \/ \E c \in Contribution : Invoke(k, c)

LEMMA OtherCalls ==
  ASSUME InvocationInv, NEW k \in Calls, CallStep(k)
  PROVE  /\ UNCHANGED <<status, generation>>
         /\ \A j \in Calls : j # k => call'[j] = call[j] /\ CallOK(j)'
<1>1. UNCHANGED <<status, generation>>
  BY DEF CallStep, Proceed, GiveUp, Invoke, BeginWork, InvalidInput, ValidInput, HandlerReturns,
         HandlerThrows, OutputChecked, Return
<1>2. \E r : call' = [call EXCEPT ![k] = r]
  BY DEF CallStep, Proceed, GiveUp, Invoke, BeginWork, InvalidInput, ValidInput, HandlerReturns,
         HandlerThrows, OutputChecked, Return, Settle, Advance, Finish, FinishUncancelled, Handle
<1>3. ASSUME NEW j \in Calls, j # k PROVE call'[j] = call[j] /\ CallOK(j)'
  <2>1. call'[j] = call[j]
    BY <1>2, <1>3 DEF InvocationInv, InvocationTypeOK
  <2> QED BY <1>1, <2>1 DEF InvocationInv, CallOK, Unsettled, Held, Decided, Undecided, Fenced, Cancelled
<1> QED BY <1>1, <1>3

LEMMA CallFacts ==
  ASSUME InvocationInv, NEW k \in Calls
  PROVE  /\ call \in [Calls -> CallRecord] /\ call[k] \in CallRecord
         /\ CallOK(k)
         /\ status \in [Contribution -> Status]
         /\ generation \in [Contribution -> 0 .. MaxGeneration]
BY DEF InvocationInv, InvocationTypeOK, CallRecord

(* A call that is settled holds nothing. *)
LEMMA SettledCall ==
  ASSUME InvocationInv, NEW k \in Calls, NEW o \in Outcome \ {"none", "abort-reason"}, Settle(k, o)
  PROVE  /\ call'[k] \in CallRecord /\ CallOK(k)'
         /\ call'[k].phase = "settled" /\ call'[k].outcome = o
<1>1. Unmade \in CallRecord
  BY InvocationAssumption DEF Unmade, CallRecord, Phase, Contribution, Outcome
<1>2. call'[k] = [Unmade EXCEPT !.phase = "settled", !.outcome = o]
  BY CallFacts DEF Settle
<1>3. call'[k] \in CallRecord
  BY <1>1, <1>2 DEF CallRecord, Phase
<1>4. call'[k].phase = "settled" /\ call'[k].outcome = o
  BY <1>1, <1>2 DEF CallRecord
<1> QED BY <1>3, <1>4 DEF CallOK, Unsettled

(* A call that goes on, to a phase before its end. *)
LEMMA InvokeStep ==
  ASSUME InvocationInv, NEW k \in Calls, NEW c \in Contribution, Invoke(k, c)
  PROVE  call'[k] \in CallRecord /\ CallOK(k)'
         /\ (call'[k].phase = "settled" => Blamed(k) /\ call'[k].outcome \notin {"none", "abort-reason"})
<1>1. call[k] = Unmade /\ UNCHANGED <<status, generation>>
  BY CallFacts DEF Invoke, CallOK
<1>2. CASE Settle(k, "unavailable-capability")
  <2>1. call'[k].phase = "settled" /\ call'[k].outcome = "unavailable-capability"
    BY <1>2, SettledCall DEF Outcome
  <2>2. Blamed(k)
    BY <1>1, <2>1 DEF Blamed, Unmade
  <2> QED BY <1>2, <2>1, <2>2, SettledCall DEF Outcome
<1>3. CASE status[c] = "active" /\ ~Settle(k, "unavailable-capability")
  <2>1. call' = [call EXCEPT ![k].phase = "queued", ![k].target = c, ![k].generation = generation[c]]
    BY <1>3 DEF Invoke
  <2>2. call'[k] \in CallRecord
    BY <2>1, CallFacts DEF CallRecord, Phase
  <2>3. /\ call'[k].phase = "queued" /\ call'[k].target = c /\ call'[k].generation = generation[c]
        /\ call'[k].gaveUp = "idle" /\ call'[k].used = 0 /\ call'[k].ran = FALSE
        /\ call'[k].threw = FALSE /\ call'[k].outcome = "none"
    BY <1>1, <2>1, CallFacts DEF CallRecord, Unmade
  <2>4. Held(k)' /\ Undecided(call[k])'
    BY <1>1, <1>3, <2>3 DEF Held, Undecided
  <2> QED BY <2>2, <2>3, <2>4 DEF CallOK
<1> QED BY <1>2, <1>3 DEF Invoke

(* A call in a phase before its end is held, and nothing is said of it.    *)
LEMMA Pending ==
  ASSUME InvocationInv, NEW k \in Calls,
         call[k].phase \in {"queued", "validating", "handling", "checking"}
  PROVE  /\ Held(k) /\ Undecided(call[k])
         /\ call[k].gaveUp # "idle" => Cancelled(k)
BY CallFacts DEF CallOK, Unsettled, Cancelled

LEMMA AdvanceStep ==
  ASSUME InvocationInv, NEW k \in Calls, UNCHANGED <<status, generation>>,
         \/ call[k].phase = "queued" /\ Advance(k, "validating")
         \/ call[k].phase = "handling" /\ Advance(k, "checking"),
         ~Cancelled(k)
  PROVE  call'[k] \in CallRecord /\ CallOK(k)' /\ call'[k].phase # "settled"
<1>1. Held(k) /\ Undecided(call[k]) /\ call[k].gaveUp = "idle"
  BY Pending
<1>2. call'[k] \in CallRecord
  BY CallFacts DEF Advance, CallRecord, Phase
<1>3. /\ \/ call[k].phase = "queued" /\ call'[k].phase = "validating"
         \/ call[k].phase = "handling" /\ call'[k].phase = "checking"
      /\ call'[k].target = call[k].target /\ call'[k].generation = call[k].generation
      /\ call'[k].gaveUp = call[k].gaveUp /\ call'[k].used = call[k].used
      /\ call'[k].ran = call[k].ran /\ call'[k].threw = call[k].threw
      /\ call'[k].outcome = call[k].outcome
  BY CallFacts DEF Advance, CallRecord
<1>4. Held(k)' /\ Undecided(call[k])'
  BY <1>1, <1>3 DEF Held, Undecided
<1> QED BY <1>2, <1>3, <1>4 DEF CallOK

(* A call is over: what is said of it agrees with what it has been through. *)
LEMMA FinishStep ==
  ASSUME InvocationInv, NEW k \in Calls, UNCHANGED <<status, generation>>,
         call[k].phase \in {"queued", "validating", "handling", "checking"},
         NEW o \in Outcome \ {"none"}, NEW threw \in BOOLEAN,
         call' = [call EXCEPT ![k].phase = "returning", ![k].outcome = o, ![k].threw = threw],
         call[k].gaveUp # "idle" => o \in Excuses(call[k].gaveUp) \cup {"abort-reason"},
         o = "abort-reason" => Fenced(k),
         o = "cancelled" => Cancelled(k),
         o \in {"invalid-input", "unavailable-capability"} => ~call[k].ran,
         o \in {"operation-failed", "own-error"} => threw,
         threw => o \in {"operation-failed", "own-error", "cancelled"},
         o = "value" => call[k].ran /\ ~threw
  PROVE  call'[k] \in CallRecord /\ CallOK(k)' /\ call'[k].phase # "settled"
<1>1. Held(k) /\ Undecided(call[k])
  BY Pending
<1>2. call'[k] \in CallRecord
  BY CallFacts DEF CallRecord, Phase
<1>3. /\ call'[k].phase = "returning" /\ call'[k].outcome = o /\ call'[k].threw = threw
      /\ call'[k].target = call[k].target /\ call'[k].generation = call[k].generation
      /\ call'[k].gaveUp = call[k].gaveUp /\ call'[k].used = call[k].used
      /\ call'[k].ran = call[k].ran
  BY CallFacts DEF CallRecord
<1>4. Held(k)'
  BY <1>1, <1>3 DEF Held
<1>5. (Fenced(k) => Fenced(k)') /\ (Cancelled(k) => Cancelled(k)')
  BY <1>3 DEF Fenced, Cancelled
<1>6. call[k].gaveUp \in {"idle", "queued", "validating", "handling", "checking"}
  BY <1>1 DEF Undecided
<1>7. Decided(k)'
  BY <1>3, <1>5, <1>6 DEF Decided, Excuses
<1> QED BY <1>2, <1>3, <1>4, <1>7 DEF CallOK

LEMMA FinishedUnthrown ==
  ASSUME InvocationInv, NEW k \in Calls, UNCHANGED <<status, generation>>,
         call[k].phase \in {"queued", "validating", "handling", "checking"},
         NEW o \in {"value", "unavailable-capability", "invalid-input", "invalid-return", "cancelled",
                   "abort-reason"},
         Finish(k, o),
         call[k].gaveUp # "idle" => o \in Excuses(call[k].gaveUp) \cup {"abort-reason"},
         o = "abort-reason" => Fenced(k),
         o = "cancelled" => Cancelled(k),
         o \in {"invalid-input", "unavailable-capability"} => ~call[k].ran,
         o = "value" => call[k].ran
  PROVE  call'[k] \in CallRecord /\ CallOK(k)' /\ call'[k].phase # "settled"
<1>1. call[k].threw = FALSE
  BY Pending, CallFacts DEF Undecided, CallRecord
<1>2. call' = [call EXCEPT ![k].phase = "returning", ![k].outcome = o, ![k].threw = FALSE]
  BY <1>1, CallFacts DEF Finish, CallRecord
<1>3. o \in Outcome \ {"none"}
  BY DEF Outcome
<1> QED BY <1>2, <1>3, FinishStep

(* The steps of a call until it returns. *)
LEMMA ProceedStep ==
  ASSUME InvocationInv, NEW k \in Calls, Proceed(k), ~Return(k)
  PROVE  call'[k] \in CallRecord /\ CallOK(k)' /\ call'[k].phase # "settled"
<1> DEFINE Goal == call'[k] \in CallRecord /\ CallOK(k)' /\ call'[k].phase # "settled"
<1>1. ASSUME call[k].phase \in {"queued", "validating", "handling", "checking"}, Cancelled(k),
             UNCHANGED <<status, generation>>, Finish(k, "cancelled")
      PROVE  Goal
  <2>1. "cancelled" \in Excuses(call[k].gaveUp)
    BY DEF Excuses
  <2> HIDE DEF Goal
  <2> QED BY <1>1, <2>1, FinishedUnthrown DEF Goal
<1>2. CASE BeginWork(k)
  <2>1. CASE Fenced(k)
    BY <1>2, <2>1, FinishedUnthrown DEF BeginWork
  <2> QED BY <1>1, <1>2, <2>1, AdvanceStep DEF BeginWork
<1>3. CASE InvalidInput(k)
  <2>1. call[k].gaveUp \in {"idle", "validating"} /\ ~call[k].ran
    BY <1>3, Pending DEF InvalidInput, Undecided
  <2>2. call[k].gaveUp # "idle" => "invalid-input" \in Excuses(call[k].gaveUp)
    BY <2>1 DEF Excuses
  <2> QED BY <1>3, <2>1, <2>2, FinishedUnthrown DEF InvalidInput
<1>4. CASE ValidInput(k)
  <2>1. /\ Held(k) /\ ~call[k].ran /\ call[k].threw = FALSE /\ call[k].outcome = "none"
        /\ call[k].phase = "validating"
    BY <1>4, Pending, CallFacts DEF ValidInput, Undecided, CallRecord
  <2>2. CASE Cancelled(k)
    BY <1>1, <1>4, <2>1, <2>2 DEF ValidInput
  <2>3. CASE ~Cancelled(k) /\ ~Bindable(k)
    BY <1>4, <2>1, <2>3, FinishedUnthrown DEF ValidInput, Cancelled
  <2>4. CASE ~Cancelled(k) /\ Bindable(k)
    <3> DEFINE u == IF Requires(call[k].target) = {} THEN 0 ELSE generation["service"]
    <3>1. call' = [call EXCEPT ![k].phase = "handling", ![k].ran = TRUE, ![k].used = u]
      BY <1>4, <2>4 DEF ValidInput, Handle
    <3>2. u \in 0 .. MaxGeneration
      BY CallFacts, InvocationAssumption DEF Contribution
    <3>3. u # 0 => call[k].target = "action" /\ u = generation["service"] /\ status["service"] = "active"
      BY <2>4, CallFacts DEF Requires, Bindable, Contribution
    <3> HIDE DEF u
    <3>4. call'[k] \in CallRecord
      BY <3>1, <3>2, CallFacts DEF CallRecord, Phase
    <3>5. /\ call'[k].phase = "handling" /\ call'[k].ran = TRUE /\ call'[k].used = u
          /\ call'[k].target = call[k].target /\ call'[k].generation = call[k].generation
          /\ call'[k].gaveUp = call[k].gaveUp /\ call'[k].threw = call[k].threw
          /\ call'[k].outcome = call[k].outcome
      BY <3>1, CallFacts DEF CallRecord
    <3>6. Held(k)' /\ Undecided(call[k])'
      BY <1>4, <2>1, <2>4, <3>3, <3>5 DEF Held, Undecided, Cancelled, ValidInput
    <3> QED BY <3>4, <3>5, <3>6 DEF CallOK
  <2> QED BY <2>2, <2>3, <2>4
<1>5. CASE HandlerReturns(k)
  BY <1>1, <1>5, AdvanceStep DEF HandlerReturns
<1>6. CASE HandlerThrows(k)
  <2>1. PICK outcome \in {"own-error", "operation-failed"} :
          call' = [call EXCEPT ![k].phase = "returning", ![k].threw = TRUE,
                               ![k].outcome = BlameCaller(k, outcome)]
    BY <1>6 DEF HandlerThrows
  <2> DEFINE o == BlameCaller(k, outcome)
  <2>2. o \in Outcome \ {"none"} /\ o \in {"own-error", "operation-failed", "cancelled"}
        /\ (o = "cancelled" => Cancelled(k)) /\ (Cancelled(k) => o = "cancelled")
    BY DEF BlameCaller, Outcome
  <2>3. "cancelled" \in Excuses(call[k].gaveUp)
    BY DEF Excuses
  <2>4. call[k].phase = "handling" /\ UNCHANGED <<status, generation>>
    BY <1>6 DEF HandlerThrows
  <2>5. call[k].gaveUp # "idle" => o \in Excuses(call[k].gaveUp)
    BY <2>2, <2>3, <2>4, Pending
  <2> HIDE DEF o
  <2>6. call' = [call EXCEPT ![k].phase = "returning", ![k].outcome = o, ![k].threw = TRUE]
    BY <2>1, CallFacts DEF o, CallRecord
  <2> QED BY <2>2, <2>4, <2>5, <2>6, FinishStep
<1>7. CASE OutputChecked(k)
  <2>1. call[k].gaveUp \in {"idle", "checking"} /\ call[k].ran
    BY <1>7, Pending DEF OutputChecked, Undecided
  <2>2. call[k].gaveUp # "idle" => "invalid-return" \in Excuses(call[k].gaveUp)
    BY <2>1 DEF Excuses
  <2>3. CASE Finish(k, "invalid-return")
    BY <1>7, <2>2, <2>3, FinishedUnthrown DEF OutputChecked
  <2>4. CASE Finish(k, "value") /\ ~Cancelled(k)
    BY <1>7, <2>1, <2>4, FinishedUnthrown DEF OutputChecked, Cancelled
  <2> QED BY <1>1, <1>7, <2>3, <2>4 DEF OutputChecked, FinishUncancelled
<1> QED BY <1>2, <1>3, <1>4, <1>5, <1>6, <1>7 DEF Proceed

LEMMA GiveUpStep ==
  ASSUME InvocationInv, NEW k \in Calls, GiveUp(k)
  PROVE  call'[k] \in CallRecord /\ CallOK(k)' /\ call'[k].phase # "settled"
<1>1. /\ Unsettled(k) /\ call[k].gaveUp = "idle" /\ UNCHANGED <<status, generation>>
      /\ call' = [call EXCEPT ![k].gaveUp = call[k].phase]
  BY DEF GiveUp
<1>2. call'[k] \in CallRecord
  BY <1>1, CallFacts DEF CallRecord, Phase
<1>3. /\ call'[k].phase = call[k].phase /\ call'[k].outcome = call[k].outcome
      /\ call'[k].threw = call[k].threw /\ call'[k].target = call[k].target
      /\ call'[k].generation = call[k].generation /\ call'[k].used = call[k].used
      /\ call'[k].ran = call[k].ran /\ call'[k].gaveUp = call[k].phase
  BY <1>1, CallFacts DEF CallRecord
<1>4. Held(k)'
  BY <1>1, <1>3, CallFacts DEF Held, CallOK
<1>5. CASE call[k].phase = "returning"
  <2>1. (Fenced(k) => Fenced(k)') /\ (Cancelled(k) => Cancelled(k)')
    BY <1>1, <1>3 DEF Fenced, Cancelled
  <2>2. Decided(k)'
    BY <1>1, <1>3, <1>5, <2>1, CallFacts DEF Decided, CallOK, Excuses
  <2> QED BY <1>1, <1>2, <1>3, <1>4, <1>5, <2>2 DEF CallOK, Unsettled
<1>6. CASE call[k].phase # "returning"
  <2>1. Undecided(call[k])'
    BY <1>1, <1>3, <1>6, CallFacts DEF Undecided, CallOK
  <2> QED BY <1>1, <1>2, <1>3, <1>4, <1>6, <2>1 DEF CallOK, Unsettled
<1> QED BY <1>5, <1>6

(* completeWork and what follows it: the fence decides. *)
LEMMA ReturnStep ==
  ASSUME InvocationInv, NEW k \in Calls, Return(k)
  PROVE  /\ call'[k] \in CallRecord /\ CallOK(k)'
         /\ call'[k].phase = "settled" /\ call'[k].outcome \notin {"none", "abort-reason"}
         /\ Blamed(k)
<1>1. call[k] \in CallRecord /\ call[k].phase = "returning" /\ Held(k) /\ Decided(k)
  BY CallFacts DEF Return, CallOK, Unsettled
<1>2. Fence(k) = IF Fenced(k) THEN "cancelled" ELSE call[k].outcome
  BY <1>1 DEF Fence, Fenced, Held
<1>3. Fence(k) \in Outcome \ {"none", "abort-reason"}
  BY <1>1, <1>2 DEF Decided, CallRecord, Outcome
<1>4. /\ call'[k] \in CallRecord /\ CallOK(k)'
      /\ call'[k].phase = "settled" /\ call'[k].outcome = Fence(k)
  BY <1>3, SettledCall DEF Return
<1>5. CASE Fenced(k)
  <2>1. call'[k].outcome = "cancelled"
    BY <1>2, <1>4, <1>5
  <2>2. call[k].gaveUp \in {"queued", "validating", "handling", "checking"} =>
          "cancelled" \in Excuses(call[k].gaveUp)
    BY DEF Excuses
  <2>3. Blamed(k)
    BY <1>5, <2>1, <2>2 DEF Blamed, Cancelled
  <2> QED BY <1>3, <1>4, <2>3
<1>6. CASE ~Fenced(k)
  <2>1. call'[k].outcome = call[k].outcome /\ call[k].outcome # "abort-reason"
    BY <1>1, <1>2, <1>4, <1>6 DEF Decided
  <2>2. Blamed(k)
    BY <1>1, <1>6, <2>1 DEF Blamed, Decided
  <2> QED BY <1>3, <1>4, <2>2
<1> QED BY <1>5, <1>6

LEMMA InvocationStep ==
  ASSUME InvocationInv, [Next]_vars
  PROVE  /\ InvocationInv'
         /\ \A k \in Calls : call[k].phase # "settled" /\ call'[k].phase = "settled" => Blamed(k)
<1>1. CASE Lifecycle
  <2>1. InvocationTypeOK'
    BY <1>1, LifecycleKeeps DEF InvocationInv, InvocationTypeOK
  <2>2. \A k \in Calls : CallOK(k)'
    BY <1>1, LifecycleKeeps, HeldIsKept
  <2> QED BY <1>1, <2>1, <2>2, LifecycleKeeps DEF InvocationInv
<1>2. CASE Calling
  <2>1. PICK k \in Calls : CallStep(k)
    BY <1>2 DEF Calling, CallStep
  <2>2. /\ call'[k] \in CallRecord /\ CallOK(k)'
        /\ call'[k].phase = "settled" =>
             (Blamed(k) \/ call[k].phase = "settled") /\ call'[k].outcome \notin {"none", "abort-reason"}
    BY <2>1, GiveUpStep, ReturnStep, ProceedStep, InvokeStep DEF CallStep
  <2>3. /\ UNCHANGED <<status, generation>>
        /\ \A j \in Calls : j # k => call'[j] = call[j] /\ CallOK(j)'
    BY <2>1, OtherCalls
  <2>4. \E r : call' = [call EXCEPT ![k] = r]
    BY <2>1
       DEF CallStep, Proceed, GiveUp, Invoke, BeginWork, InvalidInput, ValidInput, HandlerReturns,
           HandlerThrows, OutputChecked, Return, Settle, Advance, Finish, FinishUncancelled, Handle
  <2>5. call' \in [Calls -> CallRecord]
    BY <2>2, <2>3, <2>4, CallFacts
  <2>6. InvocationTypeOK'
    BY <2>2, <2>3, <2>5 DEF InvocationInv, InvocationTypeOK, CallRecord
  <2>7. \A j \in Calls : CallOK(j)'
    BY <2>2, <2>3
  <2> QED BY <2>2, <2>3, <2>6, <2>7 DEF InvocationInv
<1>3. CASE UNCHANGED invocationVars
  BY <1>3
     DEF invocationVars, InvocationInv, InvocationTypeOK, CallOK, Unsettled, Held, Decided, Undecided,
         Fenced, Cancelled
<1> QED BY <1>1, <1>2, <1>3 DEF Next, Listening, vars

-------------------------------------------------------------------------------
(* The catalog.  A frame on top, and the stack below it.                   *)
LEMMA StackFacts ==
  ASSUME CatalogInv
  PROVE  /\ stack \in Seq(Frame) /\ Len(stack) \in Nat /\ Len(stack) <= MaxDepth
         /\ stack # <<>> =>
              /\ Len(stack) \in DOMAIN stack /\ Len(stack) >= 1
              /\ Last(stack) = stack[Len(stack)] /\ Last(stack) \in Frame
              /\ Front(stack) \in Seq(Frame) /\ Len(Front(stack)) = Len(stack) - 1
              /\ \A i \in 1 .. Len(stack) - 1 : Front(stack)[i] = stack[i]
<1>1. stack \in Seq(Frame) /\ Len(stack) \in Nat /\ Len(stack) <= MaxDepth
  BY DEF CatalogInv, StackInv, CatalogTypeOK
<1> SUFFICES ASSUME stack # <<>>
             PROVE  /\ Len(stack) \in DOMAIN stack /\ Len(stack) >= 1
                    /\ Last(stack) = stack[Len(stack)] /\ Last(stack) \in Frame
                    /\ Front(stack) \in Seq(Frame) /\ Len(Front(stack)) = Len(stack) - 1
                    /\ \A i \in 1 .. Len(stack) - 1 : Front(stack)[i] = stack[i]
  BY <1>1
<1>2. Len(stack) >= 1 /\ DOMAIN stack = 1 .. Len(stack)
  BY <1>1
<1>3. Last(stack) = stack[Len(stack)] /\ Last(stack) \in Frame
  BY <1>1, <1>2 DEF Last
<1>4. Front(stack) = SubSeq(stack, 1, Len(stack) - 1)
  BY DEF Front
<1>5. /\ Front(stack) \in Seq(Frame) /\ Len(Front(stack)) = Len(stack) - 1
      /\ \A i \in 1 .. Len(stack) - 1 : Front(stack)[i] = stack[i]
  BY <1>1, <1>2, <1>4
<1> QED BY <1>2, <1>3, <1>5

(* A frame is pushed. *)
LEMMA Pushed ==
  ASSUME NEW s \in Seq(Frame), NEW f \in Frame
  PROVE  /\ Append(s, f) \in Seq(Frame) /\ Len(Append(s, f)) = Len(s) + 1
         /\ \A i \in DOMAIN s : i \in DOMAIN Append(s, f) /\ Append(s, f)[i] = s[i]
         /\ Append(s, f)[Len(s) + 1] = f /\ Append(s, f) # <<>>
         /\ \A i \in DOMAIN Append(s, f) : i \in DOMAIN s \/ i = Len(s) + 1
OBVIOUS

(* What a notification under way, dispose() and subscribe() push. *)
LEMMA Frames ==
  /\ \A S \in SUBSET Listeners, l \in Listeners \cup {Nobody} :
       [kind |-> "notify", left |-> S, now |-> l] \in Frame
  /\ \A l \in Listeners : [kind |-> "subscribe", left |-> {}, now |-> l] \in Frame
  /\ [kind |-> "dispose", left |-> Contribution, now |-> Nobody] \in Frame
BY LocalAssumption DEF Frame

(* The stack, whatever is pushed on it where there is room. *)
LEMMA PushStep ==
  ASSUME CatalogInv, NEW f \in Frame, stack' = Append(stack, f),
         Len(stack) + 1 <= MaxDepth, f.kind = "dispose" => Len(stack) + 1 < MaxDepth
  PROVE  /\ StackInv' /\ Len(stack') <= MaxDepth /\ (\A i \in DOMAIN stack' : stack'[i] \in Frame)
         /\ \A i \in DOMAIN stack : i \in DOMAIN stack' /\ stack'[i] = stack[i]
         /\ Len(stack) + 1 \in DOMAIN stack' /\ stack'[Len(stack) + 1] = f
<1>1. stack \in Seq(Frame) /\ Len(stack) \in Nat
  BY StackFacts
<1>2. \A i \in DOMAIN stack : stack[i].kind = "dispose" => i < MaxDepth
  BY DEF CatalogInv, StackInv
<1>3. /\ stack' \in Seq(Frame) /\ Len(stack') = Len(stack) + 1
      /\ \A i \in DOMAIN stack : i \in DOMAIN stack' /\ stack'[i] = stack[i]
      /\ stack'[Len(stack) + 1] = f
      /\ \A i \in DOMAIN stack' : i \in DOMAIN stack \/ i = Len(stack) + 1
  BY <1>1, Pushed
<1> QED BY <1>1, <1>2, <1>3 DEF StackInv

(* After a notification has begun everybody who is behind is in its copy.  *)
LEMMA NotifyStep ==
  ASSUME CatalogInv, Notify, UNCHANGED listeners,
         \/ stack = <<>> /\ catalog' \in {"open", "disposing", "cleanup-blocked", "disposed"}
         \/ Room /\ UNCHANGED catalog,
         enabling' \subseteq Contribution,
         \A c \in Contribution : status'[c] = "gone" => catalog' # "open"
  PROVE  CatalogInv'
<1> DEFINE f == [kind |-> "notify", left |-> listeners, now |-> Nobody]
<1>1. f \in Frame /\ f.kind = "notify" /\ f.left = listeners
  BY Frames DEF CatalogInv, CatalogTypeOK
<1>2. stack' = Append(stack, f) /\ behind' = Listeners
  BY DEF Notify
<1> HIDE DEF f
<1>3. Len(stack) + 1 <= MaxDepth /\ Len(stack) \in Nat /\ stack \in Seq(Frame)
  BY StackFacts, CatalogAssumption DEF Room
<1>4. /\ StackInv' /\ Len(stack') <= MaxDepth /\ (\A i \in DOMAIN stack' : stack'[i] \in Frame)
      /\ \A i \in DOMAIN stack : i \in DOMAIN stack' /\ stack'[i] = stack[i]
      /\ Len(stack) + 1 \in DOMAIN stack' /\ stack'[Len(stack) + 1] = f
  BY <1>1, <1>2, <1>3, PushStep
<1>5. Answered'
  BY <1>1, <1>4 DEF Answered, Answers
<1>6. CatalogTypeOK'
  BY <1>2, <1>4 DEF CatalogInv, CatalogTypeOK
<1>7. catalog' = "disposed" /\ listeners' # {} => stack' # <<>> /\ stack'[1].kind = "notify"
  <2>1. stack' # <<>>
    BY <1>2, <1>3, <1>1, Pushed
  <2>2. CASE stack = <<>>
    BY <1>1, <1>4, <2>1, <2>2
  <2>3. CASE stack # <<>>
    <3>1. 1 \in DOMAIN stack
      BY <1>3, <2>3
    <3> QED BY <1>4, <2>1, <2>3, <3>1 DEF CatalogInv
  <2> QED BY <2>2, <2>3
<1> QED BY <1>4, <1>5, <1>6, <1>7 DEF CatalogInv, Open

(* The frame on top goes on. *)
LEMMA Replaced ==
  ASSUME CatalogInv, stack # <<>>, NEW f \in Frame, f.kind = Last(stack).kind,
         NEW s, s = [stack EXCEPT ![Len(stack)] = f]
  PROVE  /\ s \in Seq(Frame) /\ Len(s) = Len(stack) /\ DOMAIN s = DOMAIN stack /\ s # <<>>
         /\ s[Len(stack)] = f
         /\ \A i \in DOMAIN stack : /\ s[i].kind = stack[i].kind
                                   /\ i # Len(stack) => s[i] = stack[i]
<1>1. /\ stack \in Seq(Frame) /\ Len(stack) \in Nat /\ Len(stack) >= 1
      /\ Len(stack) \in DOMAIN stack /\ Last(stack) = stack[Len(stack)]
  BY StackFacts
<1>2. s \in Seq(Frame) /\ Len(s) = Len(stack) /\ DOMAIN s = DOMAIN stack
  BY <1>1
<1> QED BY <1>1, <1>2

LEMMA ReplaceStep ==
  ASSUME CatalogInv, stack # <<>>, NEW f \in Frame, f.kind = Last(stack).kind,
         stack' = [stack EXCEPT ![Len(stack)] = f], UNCHANGED <<catalog, listeners>>
  PROVE  /\ StackInv' /\ Len(stack') <= MaxDepth /\ (\A i \in DOMAIN stack' : stack'[i] \in Frame)
         /\ catalog' = "disposed" /\ listeners' # {} => stack' # <<>> /\ stack'[1].kind = "notify"
<1>1. stack \in Seq(Frame) /\ Len(stack) \in Nat /\ Len(stack) >= 1 /\ Len(stack) <= MaxDepth
  BY StackFacts
<1>2. /\ stack' \in Seq(Frame) /\ Len(stack') = Len(stack) /\ DOMAIN stack' = DOMAIN stack
      /\ stack' # <<>> /\ \A i \in DOMAIN stack : stack'[i].kind = stack[i].kind
  BY <1>1, StackFacts, ExceptSeq
<1>3. 1 \in DOMAIN stack
  BY <1>1
<1> QED BY <1>1, <1>2, <1>3 DEF CatalogInv, StackInv

(* A listener is called, or passed over. *)
LEMMA CallListenerStep ==
  ASSUME CatalogInv, CallListener, UNCHANGED <<status, enabling>>
  PROVE  CatalogInv'
<1>1. PICK l \in Last(stack).left :
        \/ /\ l \in listeners /\ behind' = behind \ {l}
           /\ stack' = [stack EXCEPT ![Len(stack)] =
                          [[Last(stack) EXCEPT !.left = @ \ {l}] EXCEPT !.now = l]]
        \/ /\ l \notin listeners /\ behind' = behind
           /\ stack' = [stack EXCEPT ![Len(stack)] =
                          [[Last(stack) EXCEPT !.left = @ \ {l}] EXCEPT !.now = Nobody]]
  BY DEF CallListener, StillSubscribed, Shown
<1>2. /\ stack # <<>> /\ Last(stack).kind = "notify" /\ Last(stack) \in Frame
      /\ UNCHANGED <<catalog, listeners>>
  BY StackFacts DEF CallListener
<1>3. l \in Listeners /\ Last(stack).left \subseteq Listeners
      /\ Last(stack) \in [kind : {"notify", "subscribe"}, left : SUBSET Listeners,
                          now : Listeners \cup {Nobody}]
  BY <1>2 DEF Frame
<1>4. PICK f \in Frame : /\ f.kind = "notify" /\ f.left = Last(stack).left \ {l}
                         /\ stack' = [stack EXCEPT ![Len(stack)] = f]
  <2> DEFINE g(n) == [[Last(stack) EXCEPT !.left = @ \ {l}] EXCEPT !.now = n]
  <2>1. ASSUME NEW n \in Listeners \cup {Nobody}
        PROVE  g(n) \in Frame /\ g(n).kind = "notify" /\ g(n).left = Last(stack).left \ {l}
    BY <1>2, <1>3 DEF Frame
  <2> HIDE DEF g
  <2>2. stack' = [stack EXCEPT ![Len(stack)] = g(l)] \/ stack' = [stack EXCEPT ![Len(stack)] = g(Nobody)]
    BY <1>1 DEF g
  <2> QED BY <1>3, <2>1, <2>2
<1>5. /\ StackInv' /\ Len(stack') <= MaxDepth /\ (\A i \in DOMAIN stack' : stack'[i] \in Frame)
      /\ catalog' = "disposed" /\ listeners' # {} => stack' # <<>> /\ stack'[1].kind = "notify"
  BY <1>2, <1>4, ReplaceStep
<1>6. /\ DOMAIN stack' = DOMAIN stack /\ stack'[Len(stack)] = f
      /\ \A i \in DOMAIN stack : i # Len(stack) => stack'[i] = stack[i]
      /\ Last(stack) = stack[Len(stack)]
  BY <1>2, <1>4, Replaced, StackFacts
<1>7. listeners' \cap behind' = (listeners \cap behind) \ {l}
  BY <1>1, <1>2
<1>8. ASSUME NEW i \in DOMAIN stack, Answers(i) PROVE Answers(i)'
  <2>1. CASE i = Len(stack)
    BY <1>2, <1>4, <1>6, <1>7, <1>8, <2>1 DEF Answers
  <2>2. CASE i # Len(stack)
    BY <1>6, <1>7, <1>8, <2>2 DEF Answers
  <2> QED BY <2>1, <2>2
<1>9. Answered => Answered'
  BY <1>6, <1>7, <1>8 DEF Answered
<1>10. CatalogTypeOK'
  BY <1>1, <1>2, <1>5 DEF CatalogInv, CatalogTypeOK
<1> QED BY <1>2, <1>5, <1>9, <1>10 DEF CatalogInv, Open

(* A loop returns when it has called everybody in its copy. *)
LEMMA NotifyReturnsStep ==
  ASSUME CatalogInv, NotifyReturns, UNCHANGED <<status, enabling>>
  PROVE  CatalogInv'
<1>1. /\ stack # <<>> /\ Last(stack).kind # "dispose" /\ Last(stack).left = {}
      /\ stack' = Front(stack) /\ UNCHANGED <<catalog, behind>>
      /\ listeners' = IF catalog = "disposed" /\ Last(stack).kind = "notify" THEN {} ELSE listeners
  BY DEF NotifyReturns
<1>2. /\ stack \in Seq(Frame) /\ Len(stack) \in Nat /\ Len(stack) <= MaxDepth /\ Len(stack) >= 1
      /\ Last(stack) = stack[Len(stack)]
      /\ stack' \in Seq(Frame) /\ Len(stack') = Len(stack) - 1
      /\ \A i \in 1 .. Len(stack) - 1 : stack'[i] = stack[i]
  BY <1>1, StackFacts
<1>3. DOMAIN stack = 1 .. Len(stack) /\ DOMAIN stack' = 1 .. Len(stack) - 1
  BY <1>2
<1>4. StackInv' /\ Len(stack') <= MaxDepth /\ (\A i \in DOMAIN stack' : stack'[i] \in Frame)
  <2>1. \A i \in DOMAIN stack' : i \in DOMAIN stack /\ stack'[i] = stack[i] /\ stack'[i] \in Frame
    BY <1>2, <1>3
  <2>2. Len(stack') <= MaxDepth
    BY <1>2, CatalogAssumption
  <2> QED BY <1>2, <2>1, <2>2 DEF CatalogInv, StackInv
<1>5. listeners' \subseteq listeners
  BY <1>1
<1>6. ASSUME NEW i \in DOMAIN stack, Answers(i) PROVE Answered'
  <2>1. CASE i = Len(stack)
    BY <1>1, <1>2, <1>5, <1>6, <2>1 DEF Answers, Answered
  <2>2. CASE i # Len(stack)
    <3>1. i \in DOMAIN stack' /\ stack'[i] = stack[i]
      BY <1>2, <1>3, <2>2
    <3> QED BY <1>1, <1>5, <1>6, <3>1 DEF Answers, Answered
  <2> QED BY <2>1, <2>2
<1>7. Answered => Answered'
  BY <1>1, <1>5, <1>6 DEF Answered
<1>8. catalog' = "disposed" /\ listeners' # {} => stack' # <<>> /\ stack'[1].kind = "notify"
  <2> SUFFICES ASSUME catalog = "disposed", Last(stack).kind # "notify", listeners # {}
               PROVE  stack' # <<>> /\ stack'[1].kind = "notify"
    BY <1>1
  <2>1. stack[1].kind = "notify"
    BY DEF CatalogInv
  <2>2. Len(stack) # 1
    BY <1>2, <2>1
  <2> QED BY <1>2, <1>3, <2>1, <2>2
<1>9. CatalogTypeOK'
  BY <1>1, <1>4, <1>5 DEF CatalogInv, CatalogTypeOK
<1> QED BY <1>1, <1>4, <1>7, <1>8, <1>9 DEF CatalogInv, Open

LEMMA SubscribeStep ==
  ASSUME CatalogInv, NEW l \in Listeners, Subscribe(l), UNCHANGED <<status, enabling>>
  PROVE  CatalogInv'
<1> DEFINE f == [kind |-> "subscribe", left |-> {}, now |-> l]
<1>1. f \in Frame /\ f.kind = "subscribe"
  BY Frames
<1>2. /\ stack' = Append(stack, f) /\ behind' = behind \ {l} /\ UNCHANGED catalog
      /\ listeners' = Subscribed(l) /\ Room
  BY DEF Subscribe, Shown
<1> HIDE DEF f
<1>3. stack \in Seq(Frame) /\ Len(stack) \in Nat /\ Len(stack) + 1 <= MaxDepth
  BY <1>2, StackFacts, CatalogAssumption DEF Room
<1>4. /\ StackInv' /\ Len(stack') <= MaxDepth /\ (\A i \in DOMAIN stack' : stack'[i] \in Frame)
      /\ \A i \in DOMAIN stack : i \in DOMAIN stack' /\ stack'[i] = stack[i]
  BY <1>1, <1>2, <1>3, PushStep
<1>5. listeners' \cap behind' \subseteq listeners \cap behind /\ listeners' \subseteq Listeners
  BY <1>2 DEF Subscribed, CatalogInv, CatalogTypeOK
<1>6. ASSUME NEW i \in DOMAIN stack, Answers(i) PROVE Answers(i)'
  BY <1>4, <1>5, <1>6 DEF Answers
<1>7. Answered => Answered'
  BY <1>4, <1>5, <1>6 DEF Answered
<1>8. catalog' = "disposed" /\ listeners' # {} => stack' # <<>> /\ stack'[1].kind = "notify"
  <2> SUFFICES ASSUME catalog = "disposed", listeners # {} PROVE stack' # <<>> /\ stack'[1].kind = "notify"
    BY <1>2 DEF Subscribed
  <2>1. stack # <<>> /\ stack[1].kind = "notify"
    BY DEF CatalogInv
  <2>2. 1 \in DOMAIN stack
    BY <1>3, <2>1
  <2> QED BY <1>4, <2>1, <2>2
<1>9. CatalogTypeOK'
  BY <1>2, <1>4, <1>5 DEF CatalogInv, CatalogTypeOK
<1> QED BY <1>2, <1>4, <1>7, <1>8, <1>9 DEF CatalogInv, Open

LEMMA UnsubscribeStep ==
  ASSUME CatalogInv, NEW l \in Listeners, Unsubscribe(l), UNCHANGED <<status, enabling>>
  PROVE  CatalogInv'
<1>1. UNCHANGED <<catalog, stack, behind>> /\ listeners' = listeners \ {l}
  BY DEF Unsubscribe
<1>2. Answered => Answered'
  BY <1>1 DEF Answered, Answers
<1> QED BY <1>1, <1>2 DEF CatalogInv, CatalogTypeOK, StackInv, Open

(* dispose() begins: whoever is behind waits for it, and nobody enables    *)
(* any more.                                                               *)
LEMMA DisposeStep ==
  ASSUME CatalogInv, Dispose
  PROVE  CatalogInv'
<1> DEFINE f == [kind |-> "dispose", left |-> Contribution, now |-> Nobody]
<1>1. f \in Frame /\ f.kind = "dispose"
  BY Frames
<1>2. /\ stack' = Append(stack, f) /\ behind' = Listeners /\ catalog' = "disposing"
      /\ UNCHANGED <<listeners, enabling, status>> /\ Len(stack) + 1 < MaxDepth
  BY DEF Dispose, invocationVars
<1> HIDE DEF f
<1>3. Len(stack) + 1 <= MaxDepth
  BY <1>2, StackFacts, CatalogAssumption
<1>4. /\ StackInv' /\ Len(stack') <= MaxDepth /\ (\A i \in DOMAIN stack' : stack'[i] \in Frame)
      /\ Len(stack) + 1 \in DOMAIN stack' /\ stack'[Len(stack) + 1] = f
  BY <1>1, <1>2, <1>3, PushStep
<1>5. Answered'
  BY <1>1, <1>4 DEF Answered, Answers
<1>6. CatalogTypeOK'
  BY <1>2, <1>4 DEF CatalogInv, CatalogTypeOK
<1> QED BY <1>2, <1>4, <1>5, <1>6 DEF CatalogInv, Open

(* The loop of dispose() stops an installation, which is announced. *)
LEMMA StopInstallationStep ==
  ASSUME CatalogInv, InvocationInv, StopInstallation
  PROVE  CatalogInv' /\ Len(stack') = Len(stack) + 1
<1> DEFINE note == [kind |-> "notify", left |-> listeners, now |-> Nobody]
           loop(c) == [Last(stack) EXCEPT !.left = @ \ {c}]
<1>1. PICK c \in Last(stack).left : stack' = [stack EXCEPT ![Len(stack)] = loop(c)] \o <<note>>
  BY DEF StopInstallation
<1>2. /\ stack # <<>> /\ Last(stack).kind = "dispose" /\ Last(stack) \in Frame
      /\ Last(stack) = stack[Len(stack)] /\ Len(stack) \in DOMAIN stack
      /\ behind' = Listeners /\ UNCHANGED <<catalog, listeners, enabling>>
  BY StackFacts DEF StopInstallation, InDispose
<1>3. Last(stack) \in [kind : {"dispose"}, left : SUBSET Installations, now : {Nobody}]
  BY <1>2 DEF Frame
<1>4. loop(c) \in Frame /\ loop(c).kind = "dispose"
  BY <1>3 DEF Frame
<1>5. note \in Frame /\ note.kind = "notify" /\ note.left = listeners
  BY Frames DEF CatalogInv, CatalogTypeOK
<1> HIDE DEF loop, note
<1>6. PICK s : s = [stack EXCEPT ![Len(stack)] = loop(c)] /\ stack' = s \o <<note>>
  BY <1>1
<1>7. /\ s \in Seq(Frame) /\ Len(s) = Len(stack) /\ DOMAIN s = DOMAIN stack
      /\ \A i \in DOMAIN stack : s[i].kind = stack[i].kind
  BY <1>2, <1>4, <1>6, Replaced
<1>8. Len(stack) < MaxDepth /\ Len(stack) \in Nat /\ stack \in Seq(Frame) /\ Len(stack) >= 1
  BY <1>2, StackFacts DEF CatalogInv, StackInv
<1>9. /\ stack' \in Seq(Frame) /\ Len(stack') = Len(stack) + 1
      /\ \A i \in DOMAIN stack : i \in DOMAIN stack' /\ stack'[i] = s[i]
      /\ stack'[Len(stack) + 1] = note
      /\ \A i \in DOMAIN stack' : i \in DOMAIN stack \/ i = Len(stack) + 1
      /\ Len(stack) + 1 \in DOMAIN stack' /\ stack' # <<>>
  <2>1. stack' = Append(s, note)
    BY <1>5, <1>6, <1>7, AppendIsConcat
  <2> QED BY <1>5, <1>7, <1>8, <2>1, Pushed
<1>10. StackInv' /\ Len(stack') <= MaxDepth /\ (\A i \in DOMAIN stack' : stack'[i] \in Frame)
  <2>1. \A i \in DOMAIN stack' : stack'[i] \in Frame
    BY <1>9
  <2>2. Len(stack') <= MaxDepth
    BY <1>8, <1>9, CatalogAssumption
  <2>3. \A i \in DOMAIN stack' : stack'[i].kind = "dispose" => i < MaxDepth
    BY <1>5, <1>7, <1>9 DEF CatalogInv, StackInv
  <2> QED BY <1>9, <2>1, <2>2, <2>3 DEF StackInv
<1>11. Answered'
  BY <1>2, <1>5, <1>9 DEF Answered, Answers
<1>12. catalog' = "disposed" /\ listeners' # {} => stack' # <<>> /\ stack'[1].kind = "notify"
  <2>1. 1 \in DOMAIN stack
    BY <1>8
  <2> QED BY <1>2, <1>7, <1>9, <2>1 DEF CatalogInv
<1>13. \A d \in Contribution : status'[d] = "gone" => status[d] = "gone"
  BY DEF StopInstallation, InvocationInv, InvocationTypeOK
<1>14. CatalogTypeOK'
  BY <1>2, <1>10 DEF CatalogInv, CatalogTypeOK
<1> QED BY <1>2, <1>9, <1>10, <1>11, <1>12, <1>13, <1>14 DEF CatalogInv, Open

(* The loop of dispose() ends with a notification in its place. *)
LEMMA DisposeNotifiesStep ==
  ASSUME CatalogInv, DisposeNotifies
  PROVE  CatalogInv'
<1> DEFINE note == [kind |-> "notify", left |-> listeners, now |-> Nobody]
<1>1. /\ stack' = Append(Front(stack), note) /\ behind' = Listeners
      /\ UNCHANGED <<catalog, listeners, enabling, status>>
      /\ stack # <<>> /\ Last(stack).kind = "dispose"
  BY DEF DisposeNotifies, InDispose, invocationVars
<1>2. note \in Frame /\ note.kind = "notify" /\ note.left = listeners
  BY Frames DEF CatalogInv, CatalogTypeOK
<1> HIDE DEF note
<1>3. /\ stack \in Seq(Frame) /\ Len(stack) \in Nat /\ Len(stack) <= MaxDepth /\ Len(stack) >= 1
      /\ Last(stack) = stack[Len(stack)]
      /\ Front(stack) \in Seq(Frame) /\ Len(Front(stack)) = Len(stack) - 1
      /\ \A i \in 1 .. Len(stack) - 1 : Front(stack)[i] = stack[i]
  BY <1>1, StackFacts
<1>4. DOMAIN stack = 1 .. Len(stack) /\ DOMAIN Front(stack) = 1 .. Len(stack) - 1
  BY <1>3
<1>5. /\ stack' \in Seq(Frame) /\ Len(stack') = Len(stack) /\ stack' # <<>>
      /\ stack'[Len(stack)] = note
      /\ \A i \in 1 .. Len(stack) - 1 : stack'[i] = stack[i]
  <2>1. /\ stack' \in Seq(Frame) /\ Len(stack') = Len(Front(stack)) + 1 /\ stack' # <<>>
        /\ stack'[Len(Front(stack)) + 1] = note
        /\ \A i \in DOMAIN Front(stack) : stack'[i] = Front(stack)[i]
    BY <1>1, <1>2, <1>3, Pushed
  <2> QED BY <1>3, <1>4, <2>1
<1>6. DOMAIN stack' = 1 .. Len(stack)
  BY <1>3, <1>5
<1>7. StackInv' /\ Len(stack') <= MaxDepth /\ (\A i \in DOMAIN stack' : stack'[i] \in Frame)
  <2>1. \A i \in DOMAIN stack' : stack'[i] \in Frame
    BY <1>5
  <2>2. Len(stack') <= MaxDepth
    BY <1>3, <1>5, CatalogAssumption
  <2>3. \A i \in DOMAIN stack' : stack'[i].kind = "dispose" => i < MaxDepth
    BY <1>2, <1>3, <1>4, <1>5, <1>6 DEF CatalogInv, StackInv
  <2> QED BY <1>5, <2>1, <2>2, <2>3 DEF StackInv
<1>8. Answered'
  <2>1. Len(stack) \in DOMAIN stack'
    BY <1>3, <1>6
  <2> QED BY <1>1, <1>2, <1>5, <2>1 DEF Answered, Answers
<1>9. catalog' = "disposed" /\ listeners' # {} => stack' # <<>> /\ stack'[1].kind = "notify"
  <2>1. stack'[1].kind = "notify" \/ stack'[1] = stack[1]
    BY <1>2, <1>3, <1>5
  <2> QED BY <1>1, <1>5, <2>1 DEF CatalogInv
<1>10. CatalogTypeOK'
  BY <1>1, <1>7 DEF CatalogInv, CatalogTypeOK
<1> QED BY <1>1, <1>7, <1>8, <1>9, <1>10 DEF CatalogInv, Open

(* enable() of an open provider: everybody is behind until it returns. *)
LEMMA EnableStep ==
  ASSUME CatalogInv, InvocationInv, NEW c \in Contribution, Enable(c)
  PROVE  CatalogInv'
<1>1. /\ enabling' = enabling \cup {c} /\ behind' = Listeners /\ Open
      /\ UNCHANGED <<catalog, listeners, stack>>
      /\ status' = [status EXCEPT ![c] = "waiting"]
  BY DEF Enable
<1>2. \A d \in Contribution : status'[d] # "gone"
  BY <1>1 DEF CatalogInv, InvocationInv, InvocationTypeOK
<1> QED BY <1>1, <1>2 DEF CatalogInv, CatalogTypeOK, StackInv, Open

LEMMA EnableReturnsStep ==
  ASSUME CatalogInv, NEW c \in Contribution, EnableReturns(c)
  PROVE  CatalogInv'
<1>1. /\ stack = <<>> /\ enabling' = enabling \ {c} /\ UNCHANGED <<status, catalog, listeners>>
      /\ IF status[c] = "gone" THEN UNCHANGED <<stack, behind>> ELSE Notify
  BY DEF EnableReturns, invocationVars
<1>2. CASE status[c] = "gone"
  <2>1. ~Open /\ UNCHANGED <<stack, behind>>
    BY <1>1, <1>2 DEF CatalogInv
  <2>2. Answered => Answered'
    BY <1>1, <2>1 DEF Answered, Answers
  <2> QED BY <1>1, <2>1, <2>2 DEF CatalogInv, CatalogTypeOK, StackInv, Open
<1>3. CASE Notify
  <2>1. /\ catalog' \in {"open", "disposing", "cleanup-blocked", "disposed"}
        /\ enabling' \subseteq Contribution
        /\ \A d \in Contribution : status'[d] = "gone" => catalog' # "open"
    BY <1>1 DEF CatalogInv, CatalogTypeOK, Open
  <2> QED BY <1>1, <1>3, <2>1, NotifyStep
<1> QED BY <1>1, <1>2, <1>3

(* What the lifecycle announces at once: nobody is gone from an open one.  *)
LEMMA AnnouncedStep ==
  ASSUME CatalogInv, InvocationInv, NEW c \in Contribution,
         Disable(c) \/ Reconcile(c) \/ StopSettles(c) \/ Release(c)
  PROVE  CatalogInv'
<1>1. Notify /\ UNCHANGED <<catalog, listeners, enabling>>
  BY DEF Disable, Reconcile, StopSettles, Release, ReleaseAnnounced, Announced
<1>2. stack = <<>> \/ Room
  BY DEF Disable, Reconcile, StopSettles, Release
<1>3. status \in [Contribution -> Status]
  BY DEF InvocationInv, InvocationTypeOK
<1>4. PICK s \in Status : status' = [status EXCEPT ![c] = s] /\ (s = "gone" => ~Open)
  <2>1. CASE Disable(c)
    BY <2>1 DEF Disable, Stops, Status
  <2>2. CASE Reconcile(c)
    BY <2>2 DEF Reconcile, Starts, StartEnds, Stops, Status
  <2>3. CASE StopSettles(c)
    BY <2>3 DEF StopSettles, StopEnds, Status
  <2>4. CASE Release(c)
    BY <2>4 DEF Release, Status
  <2> QED BY <2>1, <2>2, <2>3, <2>4
<1>5. \A d \in Contribution : status'[d] = "gone" => catalog' # "open"
  BY <1>1, <1>3, <1>4 DEF CatalogInv, Open
<1>6. catalog' \in {"open", "disposing", "cleanup-blocked", "disposed"} /\ enabling' \subseteq Contribution
  BY <1>1 DEF CatalogInv, CatalogTypeOK
<1> QED BY <1>1, <1>2, <1>5, <1>6, NotifyStep

LEMMA DisposalEndsStep ==
  ASSUME CatalogInv, DisposalEnds
  PROVE  CatalogInv'
<1>1. /\ stack = <<>> /\ Notify /\ UNCHANGED <<listeners, enabling, status>>
      /\ catalog' \in {"cleanup-blocked", "disposed"}
  BY DEF DisposalEnds, invocationVars
<1> QED BY <1>1, NotifyStep DEF CatalogInv

LEMMA CatalogStep ==
  ASSUME CatalogInv, InvocationInv, [Next]_vars
  PROVE  CatalogInv'
<1>1. CASE Lifecycle
  BY <1>1, AnnouncedStep, EnableStep, EnableReturnsStep, DisposeStep, StopInstallationStep,
     DisposeNotifiesStep, DisposalEndsStep DEF Lifecycle
<1>2. CASE Listening
  <2>1. UNCHANGED <<status, enabling>>
    BY <1>2 DEF Listening, invocationVars
  <2> QED BY <1>2, <2>1, CallListenerStep, NotifyReturnsStep, SubscribeStep, UnsubscribeStep DEF Listening
<1>3. CASE UNCHANGED <<status, catalogVars, enabling>>
  <2>1. UNCHANGED <<status, catalog, listeners, stack, behind, enabling>>
    BY <1>3 DEF catalogVars
  <2>2. Answered => Answered'
    BY <2>1 DEF Answered, Answers
  <2> QED BY <2>1, <2>2 DEF CatalogInv, CatalogTypeOK, StackInv, Open
<1>4. CASE Calling
  <2>1. UNCHANGED status
    BY <1>4
       DEF Calling, Proceed, GiveUp, Invoke, BeginWork, InvalidInput, ValidInput, HandlerReturns,
           HandlerThrows, OutputChecked, Return
  <2> QED BY <1>3, <1>4, <2>1 DEF Calling
<1> QED BY <1>1, <1>2, <1>3, <1>4 DEF Next, vars, invocationVars

LEMMA InitialState ==
  ASSUME Init
  PROVE  InvocationInv /\ CatalogInv
<1>1. status = [c \in Contribution |-> "waiting"] /\ generation = [c \in Contribution |-> 0]
      /\ call = [k \in Calls |-> Unmade]
  BY DEF Init, InvocationInit
<1>2. Unmade \in CallRecord /\ Unmade.phase = "idle" /\ 0 \in 0 .. MaxGeneration
  BY InvocationAssumption DEF Unmade, CallRecord, Phase, Contribution, Outcome
<1>3. InvocationTypeOK
  <2>1. status \in [Contribution -> Status] /\ generation \in [Contribution -> 0 .. MaxGeneration]
    BY <1>1, <1>2 DEF Status
  <2>2. call \in [Calls -> CallRecord] /\ \A k \in Calls : call[k].phase = "idle"
    BY <1>1, <1>2
  <2> QED BY <2>1, <2>2 DEF InvocationTypeOK, CallRecord
<1>4. \A k \in Calls : CallOK(k)
  BY <1>1, <1>2 DEF CallOK, Unsettled
<1>5. catalog = "open" /\ listeners = {} /\ stack = <<>> /\ behind = Listeners /\ enabling = {}
  BY DEF Init, CatalogInit
<1>6. stack \in Seq(Frame) /\ DOMAIN stack = {} /\ Len(stack) = 0
  BY <1>5
<1>7. CatalogInv
  BY <1>1, <1>5, <1>6, CatalogAssumption
     DEF CatalogInv, CatalogTypeOK, StackInv, Answered, Open
<1> QED BY <1>3, <1>4, <1>7 DEF InvocationInv

LEMMA LocalInvariant == Spec => [](InvocationInv /\ CatalogInv)
<1>1. Init => InvocationInv /\ CatalogInv
  BY InitialState
<1>2. (InvocationInv /\ CatalogInv) /\ [Next]_vars => (InvocationInv /\ CatalogInv)'
  BY InvocationStep, CatalogStep
<1> QED BY <1>1, <1>2, PTL DEF Spec

-------------------------------------------------------------------------------
(* An action's handler holds the service it was given until it returns,    *)
(* whatever is stopped, disabled or disposed of meanwhile: invokeOwned of  *)
(* invocation.ts runs as work of the action's activation, and the stop of  *)
(* a service waits for those of its dependents.                            *)
THEOREM HandlersKeepTheirService == Spec => []ServiceOutlivesUse
<1>1. InvocationInv => ServiceOutlivesUse
  BY DEF InvocationInv, CallOK, Held, Unsettled, ServiceOutlivesUse
<1> QED BY <1>1, LocalInvariant, PTL

(* Whoever is blamed for the end of a call is at fault, however the abort  *)
(* of the caller, that of the activation, and the call's own steps         *)
(* (invokeLocalOperation and completeWork) follow each other.              *)
THEOREM TheRightOneIsBlamed == Spec => BlameIsRight
<1>1. InvocationInv /\ [Next]_vars =>
        [\A k \in Calls : call[k].phase # "settled" /\ call'[k].phase = "settled" => Blamed(k)]_invocationVars
  BY InvocationStep
<1> QED BY <1>1, LocalInvariant, PTL DEF Spec, BlameIsRight

(* When the outermost notification of provider-catalog.ts has called       *)
(* everybody, nobody is behind, unless the provider is open and an         *)
(* enable() has yet to announce what it did; once the provider is being    *)
(* disposed a pending enable() is no exception, and a disposed provider    *)
(* that is at rest has let go of all its listeners.                        *)
THEOREM EverybodyIsTold == Spec => []CatalogIsCurrent
<1>1. ASSUME InvocationInv, CatalogInv PROVE CatalogIsCurrent
  <2>1. TypeOK
    BY <1>1 DEF InvocationInv, CatalogInv, TypeOK
  <2>2. ASSUME enabling = {} \/ ~Open PROVE EverybodyTold
    <3>1. Answered
      BY <1>1, <2>2 DEF CatalogInv
    <3>2. stack \in Seq(Frame)
      BY <1>1 DEF CatalogInv, StackInv
    <3>3. stack = <<>> => listeners \cap behind = {}
      BY <3>1 DEF Answered
    <3>4. Told => listeners \cap behind = {}
      <4>1. ASSUME Told PROVE \A i \in DOMAIN stack : i = 1
        BY <3>2, <4>1 DEF Told
      <4> QED BY <3>1, <4>1 DEF Told, Answered, Answers
    <3> QED BY <1>1, <3>3, <3>4 DEF EverybodyTold, CatalogInv
  <2> QED BY <2>1, <2>2 DEF CatalogIsCurrent
<1> QED BY <1>1, LocalInvariant, PTL
===============================================================================
