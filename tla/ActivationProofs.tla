--------------------------- MODULE ActivationProofs ---------------------------
(***************************************************************************)
(* Theorems about Activation, for every set of calls and cleanups, and     *)
(* that it implements Generation.                                          *)
(***************************************************************************)
EXTENDS Activation, SequenceTheorems, TLAPS

(* Sequence facts used for the cleanup stack. *)
LEMMA FrontType ==
  ASSUME NEW S, NEW s \in Seq(S), s # <<>>
  PROVE  Front(s) \in Seq(S) /\ Last(s) \in S
BY DEF Front, Last

-------------------------------------------------------------------------------
(* The state keeps its type: every value the controller's fields, promises *)
(* and stack can hold.  A cleanup is attempted before it can reject, which  *)
(* is what makes the set of failures one of cleanups.                      *)
TypeInv ==
  /\ TypeOK
  /\ disposal = "cleaning" => attempted # <<>>

(* The next step of the cleanup loop keeps the types of what it changes.   *)
LEMMA NextCleanupType ==
  ASSUME TypeOK, NEW failed, NextCleanup(failed)
  PROVE  /\ disposal' \in {"cleaning", "resolved", "rejected"}
         /\ cleanups' \in Seq(Cleanup)
         /\ attempted' \in Seq(Cleanup)
         /\ disposal' = "cleaning" => attempted' # <<>>
<1>1. CASE cleanups = <<>>
  BY <1>1 DEF TypeOK, NextCleanup
<1>2. CASE cleanups # <<>>
  <2>1. Front(cleanups) \in Seq(Cleanup) /\ Last(cleanups) \in Cleanup
    BY <1>2, FrontType DEF TypeOK
  <2>2. /\ Append(attempted, Last(cleanups)) \in Seq(Cleanup)
        /\ Append(attempted, Last(cleanups)) # <<>>
    BY <2>1, AppendProperties DEF TypeOK
  <2> QED BY <1>2, <2>1, <2>2 DEF NextCleanup
<1> QED BY <1>1, <1>2

(* Every step keeps the types. *)
LEMMA TypeStep == TypeInv /\ [Next]_vars => TypeInv'
<1> SUFFICES ASSUME TypeInv, [Next]_vars PROVE TypeInv'
  OBVIOUS
<1> USE DEF TypeInv, TypeOK
<1>1. CASE Start
  BY <1>1 DEF Start, Task, scopeVars
<1>2. ASSUME NEW w \in Work, RunAccepted(w) \/ RunRejected(w)
      PROVE TypeInv'
  BY <1>2 DEF RunAccepted, RunRejected, Task, controlVars, scopeVars
<1>3. CASE Cancel
  BY <1>3 DEF Cancel, userVars, scopeVars
<1>4. CASE Stop
  <2>1. CASE stop = "none"
    BY <1>4, <2>1 DEF Stop, StopEffect, userVars, scopeVars
  <2>2. CASE stop # "none"
    BY <1>4, <2>2 DEF Stop, StopEffect, userVars, scopeVars
  <2> QED BY <2>1, <2>2
<1>5. ASSUME NEW c \in Cleanup, OnDispose(c)
      PROVE TypeInv'
  BY <1>5, AppendProperties DEF OnDispose, userVars, controlVars
<1>6. ASSUME NEW t \in Task, Begin(t) \/ Settle(t)
      PROVE TypeInv'
  BY <1>6 DEF Begin, Settle, controlVars, scopeVars
<1>7. CASE SetupResolved
  BY <1>7 DEF SetupResolved, scopeVars
<1>8. CASE SetupRejected
  BY <1>8 DEF SetupRejected, OwnFailure, StopEffect, scopeVars
<1>9. CASE SetupFailureThrown
  BY <1>9 DEF SetupFailureThrown, controlVars, scopeVars
<1>10. ASSUME NEW w \in Work, CompleteWork(w)
       PROVE TypeInv'
  BY <1>10 DEF CompleteWork, controlVars, scopeVars
<1>11. CASE BeginStop
  BY <1>11 DEF BeginStop, Collected, Task, userVars, scopeVars
<1>12. CASE BeginDisposal
  BY <1>12 DEF BeginDisposal, userVars
<1>13. CASE FirstCleanup \/ CleanupResolved
  BY <1>13, NextCleanupType DEF FirstCleanup, CleanupResolved, userVars, controlVars
<1>14. CASE CleanupRejected
  <2>1. Last(attempted) \in Cleanup
    BY <1>14, FrontType DEF CleanupRejected
  <2>2. /\ disposal' \in {"cleaning", "resolved", "rejected"}
        /\ cleanups' \in Seq(Cleanup)
        /\ attempted' \in Seq(Cleanup)
        /\ disposal' = "cleaning" => attempted' # <<>>
    <3> DEFINE failed == failures \cup {Last(attempted)}
    <3>1. NextCleanup(failed)
      BY <1>14 DEF CleanupRejected, NextCleanup
    <3> QED BY <3>1, NextCleanupType
  <2> QED BY <1>14, <2>1, <2>2 DEF CleanupRejected, userVars, controlVars
<1>15. CASE FinishStop
  BY <1>15 DEF FinishStop, StoppedStatus, userVars, scopeVars
<1>16. CASE UNCHANGED vars
  BY <1>16 DEF vars, userVars, controlVars, scopeVars
<1> QED
  BY <1>1, <1>2, <1>3, <1>4, <1>5, <1>6, <1>7, <1>8, <1>9, <1>10, <1>11, <1>12,
     <1>13, <1>14, <1>15, <1>16 DEF Next, Call, Internal

(* The initial state has them. *)
LEMMA InitTypeInv == Init => TypeInv
<1>1. ASSUME Init
      PROVE  cleanups \in Seq(Cleanup) /\ registered \in Seq(Cleanup) /\ attempted \in Seq(Cleanup)
  BY <1>1 DEF Init
<1> QED BY <1>1 DEF Init, TypeInv, TypeOK

(* So every state has them. *)
LEMMA TypeInvariant == Spec => []TypeInv
  BY InitTypeInv, TypeStep, PTL DEF Spec

(* Type correctness, the TypeOK that the MCActivation run checks. *)
THEOREM TypeCorrect == Spec => []TypeOK
<1>1. TypeInv => TypeOK
  BY DEF TypeInv
<1> QED
  BY <1>1, TypeInvariant, PTL

-------------------------------------------------------------------------------
(* Quiescence.  QuiescentCleanup is not inductive: it needs to know why    *)
(* nothing can still be running when the scope is disposed.  Every         *)
(* callback dispatched and not settled is in pendingWork (or is the setup); *)
(* a stop is published together with the abort, which leaves no accepting  *)
(* status behind; so the promises completeStop collects are all of them.   *)
Unsettled == {t \in Task : task[t] \in {"queued", "running"}}

StopFences ==
  /\ stop # "none" => cancellationRequested
  /\ cancellationRequested <=> aborted
  /\ aborted => status \notin {"idle", "starting", "active"}
  /\ status = "idle" => task[Setup] = "none"

DispatchTracked == Unsettled \subseteq pendingWork \cup {Setup}

StopCollected ==
  stop \notin {"none", "queued"} => Unsettled \subseteq awaited

DisposalLast ==
  /\ disposal # "none" <=> stop \in {"disposing", "resolved", "rejected"}
  /\ disposal # "none" => Unsettled = {}

QuiescenceInv ==
  /\ TypeInv
  /\ StopFences
  /\ DispatchTracked
  /\ StopCollected
  /\ DisposalLast

(* Every step keeps the strengthened invariant, one case for each action. *)
LEMMA QuiescenceStep == QuiescenceInv /\ [Next]_vars => QuiescenceInv'
<1> SUFFICES ASSUME QuiescenceInv, [Next]_vars PROVE QuiescenceInv'
  OBVIOUS
<1>0. TypeInv'
  BY TypeStep DEF QuiescenceInv
<1> USE SetupAssumption DEF QuiescenceInv, StopFences, DispatchTracked, StopCollected,
        DisposalLast, Unsettled, Task, TypeInv, TypeOK
<1>1. CASE Start
  BY <1>0, <1>1 DEF Start, scopeVars
<1>2. ASSUME NEW w \in Work, RunAccepted(w)
      PROVE QuiescenceInv'
  BY <1>0, <1>2 DEF RunAccepted, Accepting, controlVars, scopeVars
<1>3. ASSUME NEW w \in Work, RunRejected(w)
      PROVE QuiescenceInv'
  BY <1>0, <1>3 DEF RunRejected, controlVars, scopeVars
<1>4. CASE Cancel
  BY <1>0, <1>4 DEF Cancel, userVars, scopeVars
<1>5. CASE Stop
  BY <1>0, <1>5 DEF Stop, StopEffect, userVars, scopeVars
<1>6. ASSUME NEW c \in Cleanup, OnDispose(c)
      PROVE QuiescenceInv'
  BY <1>0, <1>6 DEF OnDispose, userVars, controlVars
<1>7. ASSUME NEW t \in Task, Begin(t) \/ Settle(t)
      PROVE QuiescenceInv'
  BY <1>0, <1>7 DEF Begin, Settle, controlVars, scopeVars
<1>8. CASE SetupResolved
  BY <1>0, <1>8 DEF SetupResolved, scopeVars
<1>9. CASE SetupRejected
  BY <1>0, <1>9 DEF SetupRejected, OwnFailure, StopEffect, scopeVars
<1>10. CASE SetupFailureThrown
  BY <1>0, <1>10 DEF SetupFailureThrown, controlVars, scopeVars
<1>11. ASSUME NEW w \in Work, CompleteWork(w)
       PROVE QuiescenceInv'
  BY <1>0, <1>11 DEF CompleteWork, Settled, controlVars, scopeVars
<1>12. CASE BeginStop
  BY <1>0, <1>12 DEF BeginStop, Collected, userVars, scopeVars
<1>13. CASE BeginDisposal
  BY <1>0, <1>13 DEF BeginDisposal, AllSettled, Settled, userVars
<1>14. CASE FirstCleanup \/ CleanupResolved \/ CleanupRejected
  <2>1. disposal' # "none" /\ UNCHANGED <<userVars, controlVars>> /\ disposal # "none"
    BY <1>14 DEF FirstCleanup, CleanupResolved, CleanupRejected, NextCleanup
  <2> QED BY <1>0, <2>1 DEF userVars, controlVars
<1>15. CASE FinishStop
  BY <1>0, <1>15 DEF FinishStop, StoppedStatus, userVars, scopeVars
<1>16. CASE UNCHANGED vars
  BY <1>0, <1>16 DEF vars, userVars, controlVars, scopeVars
<1> QED
  BY <1>1, <1>2, <1>3, <1>4, <1>5, <1>6, <1>7, <1>8, <1>9, <1>10, <1>11, <1>12,
     <1>13, <1>14, <1>15, <1>16 DEF Next, Call, Internal

(* It holds before anything has been called. *)
LEMMA QuiescenceInit == Init => QuiescenceInv
  BY InitTypeInv DEF Init, QuiescenceInv, StopFences, DispatchTracked, StopCollected,
     DisposalLast, Unsettled, Task

(* So it always holds. *)
LEMMA Quiescence == Spec => []QuiescenceInv
  BY QuiescenceInit, QuiescenceStep, PTL DEF Spec

(* No cleanup is called while the setup or a dispatched callback is queued *)
(* or running: resources are torn down under nobody's feet.                *)
THEOREM CleanupIsQuiescent == Spec => []QuiescentCleanup
<1>1. QuiescenceInv => QuiescentCleanup
  BY DEF QuiescenceInv, DisposalLast, Unsettled, QuiescentCleanup, TypeInv, TypeOK
<1> QED
  BY <1>1, Quiescence, PTL
-------------------------------------------------------------------------------
(* The cleanup stack and what is left of it.  Tearing down moves the last  *)
(* cleanup of the stack to the end of what was attempted, which leaves the *)
(* stack followed by the reversed attempts as it was.                      *)
LEMMA ReverseAppend ==
  ASSUME NEW S, NEW t \in Seq(S), NEW e \in S
  PROVE  Reverse(Append(t, e)) = <<e>> \o Reverse(t)
<1> DEFINE u == Append(t, e)
           r == <<e>> \o Reverse(t)
<1>1. /\ u \in Seq(S) /\ Len(u) = Len(t) + 1 /\ Len(t) \in Nat
      /\ \A i \in 1 .. Len(t) : u[i] = t[i]
      /\ u[Len(t) + 1] = e
  BY AppendProperties
<1>2. Reverse(t) \in Seq(S) /\ Len(Reverse(t)) = Len(t)
  BY DEF Reverse
<1>3. Reverse(u) \in Seq(S) /\ Len(Reverse(u)) = Len(t) + 1
  BY <1>1 DEF Reverse
<1>4. r \in Seq(S) /\ Len(r) = Len(t) + 1
  BY <1>1, <1>2
<1>5. ASSUME NEW i \in 1 .. Len(t) + 1
      PROVE  Reverse(u)[i] = r[i]
  <2>1. Reverse(u)[i] = u[Len(t) + 1 - i + 1]
    BY <1>1 DEF Reverse
  <2>2. CASE i = 1
    <3>1. r[1] = e
      BY <1>2
    <3> QED BY <1>1, <2>1, <2>2, <3>1
  <2>3. CASE i # 1
    <3>1. r[i] = Reverse(t)[i - 1]
      BY <1>1, <1>2, <2>3
    <3>2. Reverse(t)[i - 1] = t[Len(t) - (i - 1) + 1]
      BY <1>1, <2>3 DEF Reverse
    <3>3. Len(t) + 1 - i + 1 \in 1 .. Len(t) /\ Len(t) - (i - 1) + 1 = Len(t) + 1 - i + 1
      BY <1>1, <2>3
    <3> QED BY <1>1, <2>1, <3>1, <3>2, <3>3
  <2> QED BY <2>2, <2>3
<1> HIDE DEF u, r
<1>6. Reverse(u) = r
  BY <1>1, <1>3, <1>4, <1>5, SeqEqual
<1> QED BY <1>6 DEF u, r

(* Reversing a sequence keeps its elements. *)
LEMMA RangeReverse ==
  ASSUME NEW S, NEW t \in Seq(S)
  PROVE  Range(Reverse(t)) = Range(t)
<1>1. Len(t) \in Nat /\ DOMAIN t = 1 .. Len(t) /\ DOMAIN Reverse(t) = 1 .. Len(t)
  BY DEF Reverse
<1>2. \A i \in 1 .. Len(t) :
        /\ Len(t) - i + 1 \in 1 .. Len(t)
        /\ Reverse(t)[i] = t[Len(t) - i + 1]
        /\ t[i] = Reverse(t)[Len(t) - i + 1]
  BY <1>1 DEF Reverse
<1> QED BY <1>1, <1>2 DEF Range

(* Moving the top of the stack to the attempts changes neither together. *)
LEMMA PopPush ==
  ASSUME NEW S, NEW s \in Seq(S), s # <<>>, NEW t \in Seq(S)
  PROVE  Front(s) \o Reverse(Append(t, Last(s))) = s \o Reverse(t)
<1>1. Front(s) \in Seq(S) /\ Last(s) \in S
  BY FrontType
<1>2. s = Front(s) \o <<Last(s)>>
  <2>1. Len(s) \in Nat /\ Len(s) # 0
    BY EmptySeq
  <2> QED BY <2>1 DEF Front, Last
<1>3. Reverse(t) \in Seq(S) /\ <<Last(s)>> \in Seq(S)
  BY <1>1 DEF Reverse
<1>4. Reverse(Append(t, Last(s))) = <<Last(s)>> \o Reverse(t)
  BY <1>1, ReverseAppend
<1>5. Front(s) \o (<<Last(s)>> \o Reverse(t)) = (Front(s) \o <<Last(s)>>) \o Reverse(t)
  BY <1>1, <1>3, ConcatAssociative
<1> QED BY <1>2, <1>4, <1>5

Terminal == {"stopped", "failed", "cleanup-blocked"}

(* Where the disposal is, the stack and the attempts agree. *)
Stacked ==
  /\ registered = cleanups \o Reverse(attempted)
  /\ disposal \in {"none", "queued"} => attempted = <<>> /\ failures = {}
  /\ disposal \in {"resolved", "rejected"} => cleanups = <<>>
  /\ disposal = "resolved" => failures = {}
  /\ disposal = "rejected" => failures # {}

(* A status is terminal because the stop has ended, as the disposal did. *)
StatusOfStop ==
  /\ status \in Terminal <=> stop \in {"resolved", "rejected"}
  /\ status = "cleanup-blocked" <=> stop = "rejected"
  /\ stop = "resolved" => disposal = "resolved"
  /\ stop = "rejected" => disposal = "rejected"

(* A failed setup was seen to reject, and start() does not go back on it. *)
FailureObserved ==
  /\ failedSetup => task[Setup] = "rejected" /\ starter \in {"awaitStop", "error"}
  /\ status = "failed" => failedSetup
  /\ starter = "error" => task[Setup] = "resolved" \/ stop \in {"resolved", "rejected"}

TeardownInv == QuiescenceInv /\ Stacked /\ StatusOfStop /\ FailureObserved

(* A step of the cleanup loop keeps stack and attempts in agreement. *)
LEMMA NextCleanupStacked ==
  ASSUME TypeOK, Stacked, disposal \in {"queued", "cleaning"},
         NEW failed, NextCleanup(failed), registered' = registered, failures' = failed
  PROVE  Stacked'
<1>1. CASE cleanups = <<>>
  BY <1>1 DEF NextCleanup, Stacked
<1>2. CASE cleanups # <<>>
  <2>1. Front(cleanups) \o Reverse(Append(attempted, Last(cleanups)))
          = cleanups \o Reverse(attempted)
    BY <1>2, PopPush DEF TypeOK
  <2> QED BY <1>2, <2>1 DEF NextCleanup, Stacked
<1> QED BY <1>1, <1>2

(* So does every other step: a registration comes before any attempt. *)
LEMMA StackedStep == TeardownInv /\ [Next]_vars => Stacked'
<1> SUFFICES ASSUME TeardownInv, [Next]_vars PROVE Stacked'
  OBVIOUS
<1> TypeOK /\ Stacked
  BY DEF TeardownInv, QuiescenceInv, TypeInv
<1>1. CASE UNCHANGED scopeVars
  BY <1>1 DEF Stacked, scopeVars
<1>2. ASSUME NEW c \in Cleanup, OnDispose(c)
      PROVE Stacked'
  <2>1. attempted = <<>> /\ disposal = "none" /\ UNCHANGED <<disposal, attempted, failures>>
    BY <1>2 DEF OnDispose, Registrable, Stacked
  <2>2. Reverse(attempted) = <<>>
    BY <2>1 DEF Reverse
  <2>3. registered = cleanups
    BY <2>2, ConcatEmptySeq DEF Stacked, TypeOK
  <2>4. registered' = cleanups'
    BY <1>2, <2>3 DEF OnDispose
  <2>5. cleanups' \in Seq(Cleanup)
    BY <1>2 DEF OnDispose, TypeOK
  <2>6. registered' = cleanups' \o Reverse(attempted')
    BY <2>1, <2>2, <2>4, <2>5, ConcatEmptySeq
  <2> QED BY <2>1, <2>6 DEF Stacked
<1>3. CASE BeginDisposal
  <2>1. disposal = "none"
    BY <1>3 DEF BeginDisposal, TeardownInv, QuiescenceInv, DisposalLast, TypeInv, TypeOK
  <2> QED BY <1>3, <2>1 DEF BeginDisposal, Stacked
<1>4. CASE FirstCleanup \/ CleanupResolved
  <2>1. disposal \in {"queued", "cleaning"} /\ NextCleanup(failures)
    BY <1>4 DEF FirstCleanup, CleanupResolved
  <2>2. registered' = registered /\ failures' = failures
    BY <1>4 DEF FirstCleanup, CleanupResolved
  <2> QED BY <2>1, <2>2, NextCleanupStacked
<1>5. CASE CleanupRejected
  <2> DEFINE failed == failures \cup {Last(attempted)}
  <2>1. disposal = "cleaning" /\ NextCleanup(failed) /\ failures' = failed /\ registered' = registered
    BY <1>5 DEF CleanupRejected, NextCleanup
  <2> HIDE DEF failed
  <2> QED BY <2>1, NextCleanupStacked
<1> QED
  BY <1>1, <1>2, <1>3, <1>4, <1>5 DEF Next, Call, Internal, Start, RunAccepted, RunRejected,
     Cancel, Stop, Begin, Settle, SetupResolved, SetupRejected, SetupFailureThrown,
     CompleteWork, BeginStop, FinishStop, vars

(* Every step keeps the status in line with the stop. *)
LEMMA StatusStep == TeardownInv /\ [Next]_vars => StatusOfStop' /\ FailureObserved'
<1> SUFFICES ASSUME TeardownInv, [Next]_vars PROVE StatusOfStop' /\ FailureObserved'
  OBVIOUS
<1> USE SetupAssumption DEF TeardownInv, QuiescenceInv, StopFences, DisposalLast, Stacked,
        StatusOfStop, FailureObserved, Terminal, Task, TypeInv, TypeOK
<1>1. CASE Start
  BY <1>1 DEF Start, scopeVars
<1>2. ASSUME NEW w \in Work, RunAccepted(w) \/ RunRejected(w)
      PROVE StatusOfStop' /\ FailureObserved'
  BY <1>2 DEF RunAccepted, RunRejected, controlVars, scopeVars
<1>3. CASE Cancel
  BY <1>3 DEF Cancel, userVars, scopeVars
<1>4. CASE Stop
  BY <1>4 DEF Stop, StopEffect, userVars, scopeVars
<1>5. ASSUME NEW c \in Cleanup, OnDispose(c)
      PROVE StatusOfStop' /\ FailureObserved'
  BY <1>5 DEF OnDispose, userVars, controlVars
<1>6. ASSUME NEW t \in Task, Begin(t) \/ Settle(t)
      PROVE StatusOfStop' /\ FailureObserved'
  BY <1>6 DEF Begin, Settle, controlVars, scopeVars
<1>7. CASE SetupResolved
  BY <1>7 DEF SetupResolved, scopeVars
<1>8. CASE SetupRejected
  BY <1>8 DEF SetupRejected, OwnFailure, StopEffect, scopeVars
<1>9. CASE SetupFailureThrown
  BY <1>9 DEF SetupFailureThrown, SetupAwaitedStop, StopSettled, controlVars, scopeVars
<1>10. ASSUME NEW w \in Work, CompleteWork(w)
       PROVE StatusOfStop' /\ FailureObserved'
  BY <1>10 DEF CompleteWork, controlVars, scopeVars
<1>11. CASE BeginStop
  BY <1>11 DEF BeginStop, userVars, scopeVars
<1>12. CASE BeginDisposal
  BY <1>12 DEF BeginDisposal, userVars
<1>13. CASE FirstCleanup \/ CleanupResolved \/ CleanupRejected
  <2>1. /\ UNCHANGED <<userVars, controlVars>>
        /\ disposal \in {"queued", "cleaning"}
    BY <1>13 DEF FirstCleanup, CleanupResolved, CleanupRejected
  <2> QED BY <2>1 DEF userVars, controlVars
<1>14. CASE FinishStop
  BY <1>14 DEF FinishStop, StoppedStatus, userVars, scopeVars
<1>15. CASE UNCHANGED vars
  BY <1>15 DEF vars, userVars, controlVars, scopeVars
<1> QED
  BY <1>1, <1>2, <1>3, <1>4, <1>5, <1>6, <1>7, <1>8, <1>9, <1>10, <1>11, <1>12,
     <1>13, <1>14, <1>15 DEF Next, Call, Internal

(* All of it always holds. *)
LEMMA TeardownInvariant == Spec => []TeardownInv
<1>1. Init => TeardownInv
  <2> SUFFICES ASSUME Init PROVE TeardownInv
    OBVIOUS
  <2>1. QuiescenceInv
    BY QuiescenceInit
  <2>2. Stacked
    <3>1. Reverse(attempted) = <<>>
      BY DEF Init, Reverse
    <3> QED BY <3>1 DEF Init, Stacked
  <2> QED BY <2>1, <2>2 DEF Init, TeardownInv, StatusOfStop, FailureObserved, Terminal
<1>2. TeardownInv /\ [Next]_vars => TeardownInv'
  BY QuiescenceStep, StackedStep, StatusStep DEF TeardownInv
<1> QED
  BY <1>1, <1>2, PTL DEF Spec

(* Cleanups run in reverse order of registration, each at most once, and   *)
(* all of them, whichever rejects.                                         *)
THEOREM CleanupsInReverse == Spec => []CleanupOrder
<1>1. TeardownInv => CleanupOrder
  BY DEF TeardownInv, Stacked, CleanupOrder
<1> QED
  BY <1>1, TeardownInvariant, PTL

(* A generation's last status tells what became of its resources.          *)
THEOREM StatusTellsTheTruth == Spec => []TerminalStatus
<1>1. ASSUME TeardownInv, status \in Terminal
      PROVE  Range(attempted) = Range(registered)
  <2>1. attempted \in Seq(Cleanup) /\ registered \in Seq(Cleanup)
    BY <1>1 DEF TeardownInv, QuiescenceInv, TypeInv, TypeOK
  <2>2. cleanups = <<>> /\ registered = cleanups \o Reverse(attempted)
    BY <1>1 DEF TeardownInv, Stacked, StatusOfStop
  <2>3. Reverse(attempted) \in Seq(Cleanup)
    BY <2>1 DEF Reverse
  <2>4. registered = Reverse(attempted)
    BY <2>2, <2>3, ConcatEmptySeq
  <2> QED BY <2>1, <2>4, RangeReverse
<1>2. TeardownInv => TerminalStatus
  BY <1>1 DEF TeardownInv, Stacked, StatusOfStop, FailureObserved, Terminal, TerminalStatus
<1> QED
  BY <1>2, TeardownInvariant, PTL

(* Whoever sees a setup fail may read the outcome of its cleanup at once.  *)
THEOREM FailureAfterCleanup == Spec => []FailureSeenAfterCleanup
<1>1. TeardownInv => FailureSeenAfterCleanup
  BY DEF TeardownInv, StatusOfStop, FailureObserved, Terminal, FailureSeenAfterCleanup
<1> QED
  BY <1>1, TeardownInvariant, PTL

-------------------------------------------------------------------------------
(* What no step does. *)

(* After the abort nothing begins and nobody receives a value.             *)
THEOREM Fenced == Spec => AbortIsAFence
<1> DEFINE Fence == aborted => /\ \A t \in Task : task'[t] = "running" => task[t] = "running"
                               /\ \A w \in Work : outcome'[w] = "value" => outcome[w] = "value"
                               /\ starter' = "value" => starter = "value"
<1>1. ASSUME TeardownInv, Next PROVE Fence
  <2> SUFFICES ASSUME aborted
               PROVE  /\ \A t \in Task : task'[t] = "running" => task[t] = "running"
                      /\ \A w \in Work : outcome'[w] = "value" => outcome[w] = "value"
                      /\ starter' = "value" => starter = "value"
    OBVIOUS
  <2> USE <1>1 DEF TeardownInv, QuiescenceInv, TypeInv, TypeOK, Task
  <2>1. CASE Call
    BY <2>1 DEF Call, Start, RunAccepted, RunRejected, Cancel, Stop, OnDispose, userVars
  <2>2. CASE Internal
    BY <2>2 DEF Internal, Begin, Settle, SetupResolved, SetupRejected, SetupFailureThrown,
       CompleteWork, BeginStop, BeginDisposal, FirstCleanup, CleanupResolved, CleanupRejected,
       FinishStop, userVars
  <2> QED BY <2>1, <2>2 DEF Next
<1>2. TeardownInv /\ [Next]_vars => [Fence]_vars
  BY <1>1
<1> QED
  BY <1>2, TeardownInvariant, PTL DEF Spec, AbortIsAFence

(* A setup that was still awaited when somebody cancelled is never blamed: *)
(* completeSetup sees the cancellation whichever way the setup settles,    *)
(* and nothing takes it back until the stop has ended.                     *)
THEOREM Attributed == Spec => FailureIsAttributed
<1> DEFINE Cancelled == cancellationRequested /\ starter = "awaitSetup"
           Exempt == cancellationRequested /\ ~failedSetup /\ status # "failed"
<1>1. TeardownInv /\ Cancelled => Exempt
  BY DEF TeardownInv, FailureObserved
<1>2. ASSUME TeardownInv, Exempt, [Next]_vars
      PROVE  Exempt'
  <2>0. /\ cancellationRequested /\ ~failedSetup /\ status # "failed" /\ status # "idle"
        /\ failedSetup \in BOOLEAN
    BY <1>2 DEF TeardownInv, QuiescenceInv, TypeInv, TypeOK, StopFences
  <2>1. CASE Call
    <3>1. CASE Cancel \/ Stop
      <4>1. status' \in {status, "stopping"} /\ failedSetup' = failedSetup
        BY <3>1 DEF Cancel, Stop, StopEffect
      <4>2. cancellationRequested' \/ cancellationRequested' = cancellationRequested
        BY <3>1 DEF Cancel, Stop, StopEffect
      <4> QED BY <2>0, <4>1, <4>2
    <3>2. CASE UNCHANGED controlVars
      BY <2>0, <3>2 DEF controlVars
    <3>3. ~Start
      BY <2>0 DEF Start
    <3> QED BY <2>1, <3>1, <3>2, <3>3 DEF Call, RunAccepted, RunRejected, OnDispose
  <2>2. CASE SetupRejected
    BY <2>0, <2>2 DEF SetupRejected, OwnFailure, StopEffect
  <2>3. CASE FinishStop
    BY <2>0, <2>3 DEF FinishStop, StoppedStatus
  <2>4. CASE SetupResolved
    BY <2>0, <2>4 DEF SetupResolved
  <2>5. CASE Internal /\ ~SetupRejected /\ ~FinishStop /\ ~SetupResolved
    <3>1. UNCHANGED <<cancellationRequested, failedSetup, status>>
      BY <2>5 DEF Internal, Begin, Settle, SetupFailureThrown, CompleteWork, BeginStop,
         BeginDisposal, FirstCleanup, CleanupResolved, CleanupRejected, controlVars
    <3> QED BY <2>0, <3>1
  <2>6. CASE UNCHANGED vars
    BY <2>0, <2>6 DEF vars, userVars, controlVars, scopeVars
  <2> QED BY <1>2, <2>1, <2>2, <2>3, <2>4, <2>5, <2>6 DEF Next
<1>3. Exempt => status # "failed"
  OBVIOUS
<1> HIDE DEF Cancelled, Exempt
<1>4. Spec => [](Cancelled => [](status # "failed"))
  BY <1>1, <1>2, <1>3, TeardownInvariant, PTL DEF Spec
<1> QED
  BY <1>4 DEF Cancelled, FailureIsAttributed

(* A terminal status is final, and a cancelled generation accepts nothing. *)
THEOREM StaysClosed == Spec => NeverReopened
<1> DEFINE Closed == /\ status \in Terminal => status' = status
                     /\ cancellationRequested => status' \notin {"idle", "starting", "active"}
                     /\ cancellationRequested => pendingWork' \subseteq pendingWork
<1>1. ASSUME TeardownInv, Next PROVE Closed
  <2> USE <1>1 DEF TeardownInv, QuiescenceInv, StopFences, StatusOfStop, Terminal, TypeInv, TypeOK
  <2>1. CASE Call
    BY <2>1 DEF Call, Start, RunAccepted, Accepting, RunRejected, Cancel, Stop, StopEffect,
       OnDispose, userVars, controlVars
  <2>2. CASE Internal
    BY <2>2 DEF Internal, Begin, Settle, SetupResolved, SetupRejected, StopEffect,
       SetupFailureThrown, CompleteWork, BeginStop, BeginDisposal, FirstCleanup,
       CleanupResolved, CleanupRejected, FinishStop, StoppedStatus, userVars, controlVars
  <2> QED BY <2>1, <2>2 DEF Next
<1>2. TeardownInv /\ [Next]_vars => [Closed]_vars
  BY <1>1
<1> QED
  BY <1>2, TeardownInvariant, PTL DEF Spec, NeverReopened, Terminal

-------------------------------------------------------------------------------
(* Activation implements Generation: what the owner of a generation sees   *)
(* of any behaviour of the controller is one that Generation allows.  The  *)
(* mapping is the one Activation defines: Phase, the running callbacks,    *)
(* what is held and whether a release has failed.                          *)

Running == {t \in Task : task[t] = "running"}
Held == IF disposal = "cleaning" THEN Append(cleanups, Last(attempted)) ELSE cleanups
Faulted == failures # {}

(* The phase, in the order in which a generation goes through them. *)
LEMMA PhaseOf ==
  ASSUME TeardownInv
  PROVE  /\ ~aborted => Phase = "open"
         /\ aborted /\ disposal \in {"none", "queued"} => Phase = "closing"
         /\ disposal \notin {"none", "queued"} /\ stop = "disposing" => Phase = "draining"
         /\ stop = "resolved" => Phase = "released"
         /\ stop = "rejected" => Phase = "retained"
BY DEF TeardownInv, QuiescenceInv, StopFences, DisposalLast, StatusOfStop, TypeInv, TypeOK, Phase

(* What is held when a cleanup is popped: nothing has changed until it     *)
(* ends.                                                                   *)
LEMMA HeldOnStack ==
  ASSUME TeardownInv, NEW failed, NextCleanup(failed)
  PROVE  Held' = cleanups
<1>1. CASE cleanups = <<>>
  BY <1>1 DEF NextCleanup, Held
<1>2. CASE cleanups # <<>>
  <2>1. /\ cleanups \in Seq(Cleanup) /\ attempted \in Seq(Cleanup)
        /\ Len(cleanups) \in Nat /\ Len(cleanups) # 0
    BY <1>2, EmptySeq DEF TeardownInv, QuiescenceInv, TypeInv, TypeOK
  <2>2. Front(cleanups) \in Seq(Cleanup) /\ Last(cleanups) \in Cleanup
    BY <1>2, <2>1, FrontType
  <2>3. Held' = Append(Front(cleanups), Last(Append(attempted, Last(cleanups))))
    BY <1>2 DEF NextCleanup, Held
  <2>4. Last(Append(attempted, Last(cleanups))) = Last(cleanups)
    BY <2>1, <2>2, AppendProperties DEF Last
  <2>5. Append(Front(cleanups), Last(cleanups)) = cleanups
    BY <2>1 DEF Front, Last
  <2> QED BY <2>3, <2>4, <2>5
<1> QED BY <1>1, <1>2

(* While a cleanup runs, it is the last thing held. *)
LEMMA HeldOne ==
  ASSUME TeardownInv, disposal = "cleaning"
  PROVE  Held # <<>> /\ SubSeq(Held, 1, Len(Held) - 1) = cleanups
<1>1. /\ cleanups \in Seq(Cleanup) /\ Last(attempted) \in Cleanup
      /\ Held = Append(cleanups, Last(attempted))
  BY FrontType DEF TeardownInv, QuiescenceInv, TypeInv, TypeOK, Held
<1> QED BY <1>1, AppendProperties

-------------------------------------------------------------------------------
(* Every step of the controller is a step of the generation or none.       *)
Mapped == [Owner!Next]_(Owner!vars)

(* A step that changes nothing the owner sees is none. *)
LEMMA Stutter ==
  ASSUME Phase' = Phase, Running' = Running, Held' = Held, Faulted' = Faulted
  PROVE  Mapped
BY DEF Mapped, Owner!vars, Running, Held, Faulted

(* An abort closes an open generation. *)
LEMMA Closing ==
  ASSUME TeardownInv, TeardownInv', aborted', UNCHANGED <<disposal, scopeVars>>,
         Running' = Running, stop \in {"resolved", "rejected", "disposing"} => stop' = stop
  PROVE  Mapped
<1>1. Held' = Held /\ Faulted' = Faulted
  BY DEF Held, Faulted, scopeVars
<1>2. CASE ~aborted
  <2>1. Phase = "open" /\ Phase' = "closing"
    BY <1>2, PhaseOf DEF TeardownInv, QuiescenceInv, StopFences, DisposalLast, StatusOfStop, TypeInv, TypeOK, Phase
  <2>2. Owner!Close
    BY <1>1, <2>1 DEF Owner!Close, Running, Held, Faulted
  <2> QED BY <2>2 DEF Mapped, Owner!Next
<1>3. CASE aborted
  <2>1. Phase' = Phase
    BY <1>3 DEF TeardownInv, QuiescenceInv, StopFences, DisposalLast, StatusOfStop, TypeInv, TypeOK, Phase
  <2> QED BY <1>1, <2>1, Stutter
<1> QED BY <1>2, <1>3

(* One case for each action, or for those that map alike. *)
LEMMA StepMaps ==
  ASSUME TeardownInv, TeardownInv', [Next]_vars
  PROVE  Mapped
<1>1. ASSUME UNCHANGED <<aborted, stop, disposal, cleanups, attempted, failures>>, Running' = Running
      PROVE Mapped
  <2>1. Phase' = Phase /\ Held' = Held /\ Faulted' = Faulted
    BY <1>1 DEF Phase, Held, Faulted
  <2> QED BY <1>1, <2>1, Stutter
<1> USE DEF TeardownInv, QuiescenceInv, TypeInv, TypeOK
<1>2. CASE Start \/ SetupResolved \/ SetupFailureThrown \/ BeginStop \/ UNCHANGED vars
  <2>1. CASE Start
    BY <1>1, <2>1 DEF Start, Running, Task, StopFences, scopeVars
  <2>2. CASE SetupResolved \/ SetupFailureThrown
    BY <1>1, <2>2 DEF SetupResolved, SetupFailureThrown, Running, scopeVars, controlVars
  <2>3. CASE BeginStop
    BY <2>3, Stutter DEF BeginStop, Phase, Held, Faulted, Running, userVars, scopeVars
  <2>4. CASE UNCHANGED vars
    BY <1>1, <2>4 DEF vars, userVars, controlVars, scopeVars, Running
  <2> QED BY <1>2, <2>1, <2>2, <2>3, <2>4
<1>3. ASSUME NEW w \in Work, RunAccepted(w) \/ RunRejected(w) \/ CompleteWork(w)
      PROVE Mapped
  BY <1>1, <1>3 DEF RunAccepted, RunRejected, CompleteWork, Running, Task, controlVars, scopeVars
<1>4. CASE Cancel
  BY <1>4, Closing DEF Cancel, Running, userVars, scopeVars
<1>5. CASE Stop \/ SetupRejected
  <2>1. /\ UNCHANGED <<task, scopeVars>> /\ StopEffect
    BY <1>5 DEF Stop, SetupRejected, userVars
  <2>2. aborted'
    BY <2>1 DEF StopEffect, StopFences
  <2>3. Running' = Running /\ UNCHANGED disposal
    BY <2>1 DEF Running, scopeVars
  <2>4. stop \in {"resolved", "rejected", "disposing"} => stop' = stop
    BY <2>1 DEF StopEffect
  <2> QED BY <2>1, <2>2, <2>3, <2>4, Closing
<1>6. ASSUME NEW c \in Cleanup, OnDispose(c)
      PROVE Mapped
  <2>1. /\ disposal = "none" /\ disposal' = disposal /\ UNCHANGED <<failures, aborted, stop, task>>
        /\ cleanups' = Append(cleanups, c)
    BY <1>6 DEF OnDispose, Registrable, userVars, controlVars
  <2>2. Phase \in {"open", "closing"}
    BY <2>1, PhaseOf
  <2>3. Phase' = Phase /\ Running' = Running /\ Faulted' = Faulted /\ Held' = Append(Held, c)
    BY <2>1 DEF Phase, Running, Faulted, Held
  <2>4. Owner!Acquire(c)
    BY <2>2, <2>3 DEF Owner!Acquire, Running, Faulted, Held
  <2> QED BY <2>4 DEF Mapped, Owner!Next
<1>7. ASSUME NEW t \in Task, Begin(t)
      PROVE Mapped
  <2>1. UNCHANGED <<aborted, stop, disposal, cleanups, attempted, failures>>
    BY <1>7 DEF Begin, controlVars, scopeVars
  <2>2. CASE aborted
    <3>1. Running' = Running
      BY <1>7, <2>2 DEF Begin, Running
    <3> QED BY <1>1, <2>1, <3>1
  <2>3. CASE ~aborted
    <3>1. t \notin Running /\ Running' = Running \cup {t}
      BY <1>7, <2>3 DEF Begin, Running
    <3>2. Phase = "open" /\ Phase' = Phase /\ Held' = Held /\ Faulted' = Faulted
      BY <2>1, <2>3, PhaseOf DEF Phase, Held, Faulted
    <3>3. Owner!Begin(t)
      BY <3>1, <3>2 DEF Owner!Begin, Running, Held, Faulted
    <3> QED BY <3>3 DEF Mapped, Owner!Next
  <2> QED BY <2>2, <2>3
<1>8. ASSUME NEW t \in Task, Settle(t)
      PROVE Mapped
  <2>1. t \in Running /\ Running' = Running \ {t}
    BY <1>8 DEF Settle, Running
  <2>2. Phase' = Phase /\ Held' = Held /\ Faulted' = Faulted
    BY <1>8 DEF Settle, Phase, Held, Faulted, controlVars, scopeVars
  <2>3. Owner!End(t)
    BY <2>1, <2>2 DEF Owner!End, Running, Held, Faulted
  <2> QED BY <2>3 DEF Mapped, Owner!Next
<1>9. CASE BeginDisposal
  <2>1. Phase' = Phase
    BY <1>9 DEF BeginDisposal, Phase, StopFences, DisposalLast
  <2>2. Held' = Held /\ Faulted' = Faulted /\ Running' = Running
    BY <1>9 DEF BeginDisposal, Held, Faulted, Running, DisposalLast, userVars
  <2> QED BY <2>1, <2>2, Stutter
<1>10. CASE FirstCleanup
  <2>1. /\ disposal = "queued" /\ stop = "disposing" /\ NextCleanup(failures) /\ aborted
        /\ UNCHANGED <<failures, stop, task>>
    BY <1>10 DEF FirstCleanup, StatusOfStop, DisposalLast, StopFences, userVars, controlVars
  <2>2. Phase = "closing" /\ Phase' = "draining"
    BY <2>1, PhaseOf DEF NextCleanup, Phase
  <2>3. Held' = Held /\ Faulted' = Faulted
    BY <2>1, HeldOnStack DEF Held, Faulted
  <2>4. Running = {} /\ Running' = Running
    BY <2>1 DEF DisposalLast, Unsettled, Running
  <2>5. Owner!Drain
    BY <2>2, <2>3, <2>4 DEF Owner!Drain, Running, Held, Faulted
  <2> QED BY <2>5 DEF Mapped, Owner!Next
<1>11. CASE CleanupResolved \/ CleanupRejected
  <2>1. /\ disposal = "cleaning" /\ stop = "disposing" /\ UNCHANGED <<stop, task>>
        /\ \E failed : NextCleanup(failed)
        /\ failures \subseteq failures'
    BY <1>11 DEF CleanupResolved, CleanupRejected, StatusOfStop, DisposalLast, userVars, controlVars, NextCleanup
  <2>2. Phase = "draining" /\ Phase' = "draining"
    BY <2>1, PhaseOf DEF NextCleanup, Phase
  <2>3. Held' = cleanups
    BY <2>1, HeldOnStack
  <2>4. Held # <<>> /\ SubSeq(Held, 1, Len(Held) - 1) = cleanups
    BY <2>1, HeldOne
  <2>5. Faulted' \in {Faulted, TRUE} /\ Running' = Running
    BY <2>1 DEF Faulted, Running
  <2>6. Owner!Release
    BY <2>2, <2>3, <2>4, <2>5 DEF Owner!Release, Running, Held, Faulted
  <2> QED BY <2>6 DEF Mapped, Owner!Next
<1>12. CASE FinishStop
  <2>1. /\ stop = "disposing" /\ UNCHANGED <<task, scopeVars>>
        /\ \/ disposal = "rejected" /\ stop' = "rejected"
           \/ disposal = "resolved" /\ stop' = "resolved"
    BY <1>12 DEF FinishStop, userVars
  <2>2. Phase = "draining" /\ Phase' = IF Faulted THEN "retained" ELSE "released"
    <3>1. Phase = "draining"
      BY <2>1, PhaseOf
    <3>2. /\ stop' = "resolved" => Phase' = "released"
          /\ stop' = "rejected" => Phase' = "retained"
      BY <1>12, <2>1 DEF Phase, DisposalLast, StatusOfStop, scopeVars
    <3>3. disposal = "rejected" <=> Faulted
      BY <2>1 DEF Faulted, Stacked
    <3> QED BY <2>1, <3>1, <3>2, <3>3
  <2>3. Held = <<>> /\ Held' = Held /\ Faulted' = Faulted /\ Running' = Running
    BY <2>1 DEF Held, Faulted, Running, Stacked, scopeVars
  <2>4. Owner!Finish
    BY <2>2, <2>3 DEF Owner!Finish, Running, Held, Faulted
  <2> QED BY <2>4 DEF Mapped, Owner!Next
<1> QED
  BY <1>2, <1>3, <1>4, <1>5, <1>6, <1>7, <1>8, <1>9, <1>10, <1>11, <1>12 DEF Next, Call, Internal

(* "One generation owns setup, dispatched work, and exactly one terminal   *)
(* cleanup attempt": the controller implements Generation.                 *)
THEOREM Implements == Spec => ImplementsGeneration
<1>1. Init => Owner!Init
  BY DEF Init, Owner!Init, Phase
<1>2. TeardownInv /\ TeardownInv' /\ [Next]_vars => [Owner!Next]_(Owner!vars)
  BY StepMaps DEF Mapped
<1> QED
  BY <1>1, <1>2, TeardownInvariant, PTL DEF Spec, ImplementsGeneration, Owner!Spec
===============================================================================
