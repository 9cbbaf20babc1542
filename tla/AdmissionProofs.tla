---------------------------- MODULE AdmissionProofs ----------------------------
(***************************************************************************)
(* Theorems about Admission, for every set of keys and requests and every  *)
(* composition: a key has one owner, and a disposed provider owns nothing. *)
(***************************************************************************)
EXTENDS Admission, TLAPS

(* The requests that have published what they reserved. *)
Through == {"settling", "done"}
Replacement == {"begun", "retiring"}

Progress ==
  [phase : {"idle", "waiting", "queued", "validating", "error"} \cup Through \cup Replacement,
   of : Reservations \cup {Free}, admitted : Seq(Reservations \cup {Skip})]

StateInv ==
  /\ owners \in [Key -> Reservations \cup {Free}]
  /\ DOMAIN installation \subseteq Reservations
  /\ request \in [Requests -> Progress]
  /\ \A i \in DOMAIN installation : request[i.request].phase \in Through

(* What a pending replacement has reserved belongs to nobody else: the     *)
(* keys of its successors are free, or the current installation's.         *)
Successors(r) == Admitted(request[r].admitted)
SuccessorsReserved(r) ==
  /\ \A i \in Successors(r) :
       /\ i \in Reservation(r)
       /\ \A k \in KeysOf(i) : replacement.successors[k] = i
  /\ \A k \in Key : replacement.successors[k] # Free =>
       /\ replacement.successors[k] \in Successors(r)
       /\ k \in KeysOf(replacement.successors[k])
       /\ k \in replacement.locked
       /\ owners[k] \in {Free, replacement.current}

ReplacementInv ==
  \A r \in Requests : request[r].phase \in Replacement =>
    /\ replacement.by = r
    /\ replacement.current = request[r].of
    /\ SuccessorsReserved(r)

(* A provider that is being disposed waits for all there is. *)
DisposalInv ==
  /\ status = "disposing" => Unreleased \subseteq pending
  /\ status = "disposed" => Unreleased = {}

OwnershipInv == StateInv /\ OneOwner /\ ReplacementInv /\ DisposalInv

-------------------------------------------------------------------------------
(* A reservation of a request is neither of the three that are nobody's,   *)
(* and asks for keys.                                                      *)
LEMMA Real ==
  ASSUME NEW i \in Reservations
  PROVE  /\ i.request \in Requests /\ i \in Reservation(i.request)
         /\ i \notin {Free, Lock, Skip}
         /\ KeysOf(i) \subseteq Key
<1>1. PICK r \in Requests : i \in Reservation(r)
  BY DEF Reservations
<1>2. i.request = r /\ i.index \in DOMAIN Composition[r] /\ i.services \subseteq Key
  BY <1>1 DEF Reservation
<1>3. i \notin {Free, Lock, Skip}
  BY <1>2, AdmissionAssumption DEF Free, Lock, Skip, Unreal
<1>4. Composition[r][i.index] \in Definition
  BY <1>2, AdmissionAssumption
<1>5. KeysOf(i) \subseteq Key
  BY <1>2, <1>4 DEF KeysOf, OtherKeys, DefinitionOf, Definition
<1> QED BY <1>1, <1>2, <1>3, <1>5

LEMMA RealOf ==
  ASSUME NEW r \in Requests, NEW i \in Reservation(r)
  PROVE  i \in Reservations /\ i.request = r
BY DEF Reservations, Reservation

(* What a definition claims: keys nobody has, and none that another of the *)
(* batch claims.                                                           *)
LEMMA ReservedType ==
  ASSUME NEW r \in Requests, NEW n \in DOMAIN Composition[r], NEW f
  PROVE  Reserved(r, n, f) \in Reservation(r)
<1>1. Composition[r][n] \in Definition
  BY AdmissionAssumption
<1>2. Selected(r, n, f) \subseteq Key
  BY <1>1 DEF Selected, Definition
<1> QED BY <1>2 DEF Reserved, Reservation

LEMMA ClaimsAre ==
  ASSUME NEW r \in Requests, NEW n \in DOMAIN Composition[r], NEW f,
         ~Skipped(r, n, f)
  PROVE  Claims(r, n, f) = Selected(r, n, f) \cup OtherKeys(Composition[r][n])
BY DEF Claims, KeysOf, DefinitionOf, Reserved

LEMMA ClaimsDisjoint ==
  ASSUME NEW r \in Requests, NEW f, NEW m \in DOMAIN Composition[r], NEW n \in DOMAIN Composition[r],
         m < n, ~Conflicts(r, n, f)
  PROVE  Claims(r, m, f) \cap Claims(r, n, f) = {}
<1> SUFFICES ASSUME NEW k \in Claims(r, m, f), k \in Claims(r, n, f) PROVE FALSE
  OBVIOUS
<1>1. ~Skipped(r, m, f) /\ ~Skipped(r, n, f)
  BY DEF Claims
<1>2. /\ k \in Selected(r, m, f) \cup OtherKeys(Composition[r][m])
      /\ k \in Selected(r, n, f) \cup OtherKeys(Composition[r][n])
  BY <1>1, ClaimsAre
<1>3. m \in Earlier(r, n)
  BY DEF Earlier
<1>4. CASE k \in OtherKeys(Composition[r][n])
  BY <1>1, <1>3, <1>4 DEF Conflicts
<1>5. CASE k \in Selected(r, n, f)
  <2>1. k \in Composition[r][n].services /\ k \notin Composition[r][m].services
    BY <1>3, <1>5 DEF Selected
  <2>2. k \in OtherKeys(Composition[r][m])
    BY <1>2, <2>1 DEF Selected
  <2> QED BY <2>1, <2>2, AdmissionAssumption DEF OtherKeys
<1> QED BY <1>2, <1>4, <1>5

LEMMA ClaimsUntaken ==
  ASSUME NEW r \in Requests, NEW f, NEW n \in DOMAIN Composition[r], ~Conflicts(r, n, f)
  PROVE  Claims(r, n, f) \cap Taken(f) = {}
<1>1. CASE Skipped(r, n, f)
  BY <1>1 DEF Claims
<1>2. CASE ~Skipped(r, n, f)
  BY <1>2, ClaimsAre DEF Selected, Conflicts
<1> QED BY <1>1, <1>2

(* An admitted batch owns what it asked for, and has taken nothing.        *)
LEMMA Prepared ==
  ASSUME NEW r \in Requests, NEW replacing, Prepare(r, replacing).ok
  PROVE  LET batch == Prepare(r, replacing)
             f == Pending(replacing)
         IN /\ batch.admitted \in Seq(Reservations \cup {Skip})
            /\ \A i \in Admitted(batch.admitted) :
                 /\ i \in Reservation(r)
                 /\ \A k \in KeysOf(i) : k \in Key /\ batch.owners[k] = i /\ f[k] = Free
            /\ \A k \in Key : \/ batch.owners[k] = f[k]
                              \/ /\ batch.owners[k] \in Admitted(batch.admitted)
                                 /\ k \in KeysOf(batch.owners[k]) /\ f[k] = Free
<1> DEFINE f == Pending(replacing)
           N == DOMAIN Composition[r]
           admitted == [n \in N |-> IF Skipped(r, n, f) THEN Skip ELSE Reserved(r, n, f)]
           own == [k \in Key |-> IF \E n \in N : k \in Claims(r, n, f)
                                 THEN Reserved(r, CHOOSE n \in N : k \in Claims(r, n, f), f)
                                 ELSE f[k]]
<1>1. /\ Prepare(r, replacing).owners = own /\ Prepare(r, replacing).admitted = admitted
      /\ \A n \in N : ~Conflicts(r, n, f)
  BY DEF Prepare
<1>2. N = 1 .. Len(Composition[r]) /\ Len(Composition[r]) \in Nat
  BY AdmissionAssumption
<1> HIDE DEF f, N
<1>3. \A n \in N : Reserved(r, n, f) \in Reservation(r) /\ Reserved(r, n, f) \in Reservations
  BY ReservedType, RealOf DEF N
<1>4. admitted \in Seq(Reservations \cup {Skip})
  BY <1>2, <1>3
<1>5. ASSUME NEW n \in N, NEW m \in N, NEW k, k \in Claims(r, n, f), k \in Claims(r, m, f)
      PROVE  m = n
  <2>1. CASE m < n
    BY <2>1, <1>1, <1>5, ClaimsDisjoint DEF N
  <2>2. CASE n < m
    BY <2>2, <1>1, <1>5, ClaimsDisjoint DEF N
  <2> QED BY <2>1, <2>2, <1>2
<1>6. \A n \in N : \A k \in Claims(r, n, f) : k \in Key /\ f[k] = Free
  <2> SUFFICES ASSUME NEW n \in N, NEW k \in Claims(r, n, f) PROVE k \in Key /\ f[k] = Free
    OBVIOUS
  <2>1. k \in KeysOf(Reserved(r, n, f))
    BY DEF Claims
  <2>2. k \in Key
    BY <2>1, <1>3, Real
  <2>3. k \notin Taken(f)
    BY <1>1, ClaimsUntaken DEF N
  <2> QED BY <2>2, <2>3 DEF Taken
<1>7. \A n \in N : \A k \in Claims(r, n, f) : own[k] = Reserved(r, n, f)
  BY <1>5, <1>6
<1>8. ASSUME NEW i \in Admitted(admitted)
      PROVE  /\ i \in Reservation(r)
             /\ \A k \in KeysOf(i) : k \in Key /\ own[k] = i /\ f[k] = Free
  <2>1. PICK n \in N : i = admitted[n] /\ i # Skip
    BY DEF Admitted
  <2>2. i = Reserved(r, n, f) /\ ~Skipped(r, n, f)
    BY <2>1
  <2>3. KeysOf(i) = Claims(r, n, f)
    BY <2>2 DEF Claims
  <2> QED BY <1>3, <1>6, <1>7, <2>2, <2>3
<1>9. ASSUME NEW k \in Key
      PROVE  \/ own[k] = f[k]
             \/ own[k] \in Admitted(admitted) /\ k \in KeysOf(own[k]) /\ f[k] = Free
  <2>1. CASE \E n \in N : k \in Claims(r, n, f)
    <3>1. PICK n \in N : k \in Claims(r, n, f)
      BY <2>1
    <3>2. ~Skipped(r, n, f)
      BY <3>1 DEF Claims
    <3>3. Reserved(r, n, f) # Skip
      BY <1>3, Real
    <3>4. Reserved(r, n, f) \in Admitted(admitted)
      BY <3>2, <3>3 DEF Admitted
    <3>5. k \in KeysOf(Reserved(r, n, f))
      BY <3>1, <3>2 DEF Claims
    <3> QED BY <3>1, <3>4, <3>5, <1>6, <1>7
  <2>2. CASE ~\E n \in N : k \in Claims(r, n, f)
    BY <2>2
  <2> QED BY <2>1, <2>2
<1> HIDE DEF own, admitted
<1> QED BY <1>1, <1>4, <1>8, <1>9 DEF f

-------------------------------------------------------------------------------
(* A request that moves on without touching the registry. *)
LEMMA MovesOn ==
  ASSUME OwnershipInv, NEW r \in Requests, NEW p \in Progress,
         request' = [request EXCEPT ![r] = p],
         UNCHANGED <<owners, replacement, installation, status, pending>>,
         request[r].phase \notin Replacement, p.phase \notin Replacement,
         request[r].phase \in Through => p.phase \in Through
  PROVE  OwnershipInv'
<1>1. StateInv'
  BY DEF OwnershipInv, StateInv
<1>2. OneOwner' /\ DisposalInv'
  BY DEF OwnershipInv, OneOwner, DisposalInv, Unreleased, Taken
<1>3. ReplacementInv'
  <2> SUFFICES ASSUME NEW q \in Requests, request'[q].phase \in Replacement
               PROVE  /\ replacement'.by = q
                      /\ replacement'.current = request'[q].of
                      /\ SuccessorsReserved(q)'
    BY DEF ReplacementInv
  <2>1. q # r /\ request'[q] = request[q]
    BY DEF OwnershipInv, StateInv
  <2> QED BY <2>1 DEF OwnershipInv, ReplacementInv, SuccessorsReserved, Successors
<1> QED BY <1>1, <1>2, <1>3 DEF OwnershipInv

(* A request that is through with its registry work remembers nothing.     *)
LEMMA IdleProgress ==
  ASSUME NEW phase \in {"idle", "error", "settling", "done"}
  PROVE  /\ [Idle EXCEPT !.phase = phase] \in Progress
         /\ [Idle EXCEPT !.phase = phase].phase = phase
<1>1. <<>> \in Seq(Reservations \cup {Skip})
  OBVIOUS
<1>2. [Idle EXCEPT !.phase = phase] = [phase |-> phase, of |-> Free, admitted |-> <<>>]
  BY DEF Idle
<1>3. phase \in {"idle", "waiting", "queued", "validating", "error"} \cup Through \cup Replacement
  BY DEF Through
<1> QED BY <1>1, <1>2, <1>3 DEF Progress

(* One that settles remembers what it has replaced. *)
LEMMA SettleProgress ==
  ASSUME NEW current \in Reservations \cup {Free}
  PROVE  LET p == [phase |-> "settling", of |-> current, admitted |-> <<>>]
         IN p \in Progress /\ p.phase = "settling" /\ p.of = current
<1>1. <<>> \in Seq(Reservations \cup {Skip})
  OBVIOUS
<1>2. "settling" \in {"idle", "waiting", "queued", "validating", "error"} \cup Through \cup Replacement
  BY DEF Through
<1> QED BY <1>1, <1>2 DEF Progress

(* A call that fails before it has begun leaves the registry alone.        *)
LEMMA Fails ==
  ASSUME OwnershipInv, NEW r \in Requests, Leave(r, "error"),
         UNCHANGED <<owners, replacement, installation, status, pending>>,
         request[r].phase \notin Replacement \cup Through
  PROVE  OwnershipInv'
<1>1. /\ [Idle EXCEPT !.phase = "error"] \in Progress
      /\ [Idle EXCEPT !.phase = "error"].phase = "error"
  BY IdleProgress
<1> QED BY <1>1, MovesOn DEF Leave, Through, Replacement

(* So does one that goes from one phase to the next.                       *)
LEMMA Goes ==
  ASSUME OwnershipInv, NEW r \in Requests, NEW phase \in {"queued", "validating", "done", "error"}, Goto(r, phase),
         UNCHANGED <<owners, replacement, installation, status, pending>>,
         request[r].phase \notin Replacement, request[r].phase \in Through <=> phase = "done"
  PROVE  OwnershipInv'
<1> DEFINE p == [request[r] EXCEPT !.phase = phase]
<1>1. p \in Progress /\ p.phase = phase
  BY DEF OwnershipInv, StateInv, Progress, Through
<1>2. request' = [request EXCEPT ![r] = p]
  BY DEF Goto, OwnershipInv, StateInv
<1> HIDE DEF p
<1> QED BY <1>1, <1>2, MovesOn DEF Through, Replacement

(* Nothing is published, and the disposal of what there is only goes on.   *)
LEMMA Lives ==
  ASSUME OwnershipInv, UNCHANGED <<owners, replacement, request>>,
         DOMAIN installation' = DOMAIN installation,
         \A i \in DOMAIN installation : installation'[i] = "released" <=> installation[i] = "released"
  PROVE  StateInv' /\ OneOwner' /\ ReplacementInv' /\ Unreleased' = Unreleased
<1>1. Unreleased' = Unreleased
  BY DEF Unreleased
<1> QED BY <1>1 DEF OwnershipInv, StateInv, OneOwner, ReplacementInv, SuccessorsReserved, Successors, Taken

-------------------------------------------------------------------------------
(* A batch takes keys that were free, in one step. *)
Gives(r, admissions) ==
  /\ owners' \in [Key -> Reservations \cup {Free}]
  /\ \A i \in Admitted(admissions) :
       /\ i \in Reservation(r)
       /\ \A k \in KeysOf(i) : k \in Key /\ owners'[k] = i /\ owners[k] = Free
  /\ \A k \in Key : owners'[k] # owners[k] =>
       /\ owners'[k] \in Admitted(admissions)
       /\ k \in KeysOf(owners'[k]) /\ owners[k] = Free

(* A batch is published for a request that had not published anything.     *)
LEMMA Publishes ==
  ASSUME OwnershipInv, NEW r \in Requests, request[r].phase \notin Through,
         NEW admissions, Publish(admissions), Open,
         NEW current \in Reservations \cup {Free}, Settle(r, current), Gives(r, admissions),
         UNCHANGED status
  PROVE  StateInv' /\ OneOwner' /\ DisposalInv'
<1> USE DEF OwnershipInv, StateInv, Gives
<1>1. \A i \in Admitted(admissions) : i \in Reservations /\ i.request = r /\ i \notin DOMAIN installation
  BY RealOf
<1>2. /\ DOMAIN installation' = DOMAIN installation \cup Admitted(admissions)
      /\ \A i \in DOMAIN installation : installation'[i] = installation[i]
      /\ \A i \in Admitted(admissions) : installation'[i] = "live"
  BY <1>1 DEF Publish
<1>3. Unreleased' = Unreleased \cup Admitted(admissions)
  BY <1>1, <1>2 DEF Unreleased
<1> DEFINE p == [phase |-> "settling", of |-> current, admitted |-> <<>>]
<1>4. p \in Progress /\ p.phase = "settling" /\ request' = [request EXCEPT ![r] = p]
  BY SettleProgress DEF Settle
<1> HIDE DEF p
<1>5. request' \in [Requests -> Progress] /\ \A q \in Requests \ {r} : request'[q] = request[q]
  BY <1>4
<1>6. request'[r].phase \in Through
  BY <1>4 DEF Through
<1>7. StateInv'
  <2>1. \A i \in DOMAIN installation' : request'[i.request].phase \in Through
    BY <1>1, <1>2, <1>5, <1>6, Real
  <2> QED BY <1>1, <1>2, <1>5, <2>1
<1>8. OneOwner'
  <2>1. ASSUME NEW i \in Unreleased, NEW k \in KeysOf(i)
        PROVE  owners'[k] = i
    <3>1. i \in Reservations /\ k \in Key /\ owners[k] = i /\ i # Free
      BY Real DEF Unreleased, OneOwner
    <3> QED BY <3>1
  <2>2. ASSUME NEW k \in Key, owners'[k] # Free
        PROVE  owners'[k] \in Unreleased \cup Admitted(admissions)
    <3>1. owners[k] # Free => owners[k] \in Unreleased
      BY DEF OneOwner, Taken
    <3> QED BY <2>2, <3>1
  <2> QED BY <1>3, <2>1, <2>2 DEF OneOwner, Taken, KeysOf, DefinitionOf
<1>9. DisposalInv'
  BY DEF DisposalInv, Open
<1> QED BY <1>7, <1>8, <1>9
-------------------------------------------------------------------------------
(* The replacement that has begun is over: no other was.                   *)
LEMMA Ends ==
  ASSUME OwnershipInv, NEW r \in Requests, NEW phase \in {"done", "error"}, Leave(r, phase),
         request[r].phase \in Replacement,
         UNCHANGED <<owners, installation, status, pending>>
  PROVE  OwnershipInv'
<1> USE DEF OwnershipInv, StateInv
<1>1. /\ [Idle EXCEPT !.phase = phase] \in Progress
      /\ [Idle EXCEPT !.phase = phase].phase = phase
  BY IdleProgress
<1>2. /\ request' \in [Requests -> Progress] /\ request'[r].phase = phase
      /\ \A q \in Requests \ {r} : request'[q] = request[q]
  BY <1>1 DEF Leave
<1>3. StateInv'
  <2>1. ASSUME NEW i \in DOMAIN installation PROVE request'[i.request].phase \in Through
    <3>1. i.request \in Requests /\ i.request # r
      BY Real DEF Through, Replacement
    <3> QED BY <1>2, <3>1
  <2> QED BY <1>2, <2>1
<1>4. OneOwner' /\ DisposalInv'
  BY DEF OneOwner, DisposalInv, Unreleased, Taken
<1>5. ReplacementInv'
  <2>1. \A q \in Requests : request'[q].phase \notin Replacement
    BY <1>2 DEF ReplacementInv, Replacement
  <2> QED BY <2>1 DEF ReplacementInv
<1> QED BY <1>3, <1>4, <1>5

(* A startup claims nothing a pending replacement has locked.              *)
LEMMA ReserveGives ==
  ASSUME OwnershipInv, NEW r \in Requests, Prepare(r, {}).ok,
         owners' = Without(Prepare(r, {}).owners, {Lock})
  PROVE  /\ Gives(r, Prepare(r, {}).admitted)
         /\ \A k \in Key : owners'[k] # owners[k] => k \notin replacement.locked
<1> DEFINE batch == Prepare(r, {})
           f == Pending({})
<1>1. /\ \A i \in Admitted(batch.admitted) :
           /\ i \in Reservation(r)
           /\ \A k \in KeysOf(i) : k \in Key /\ batch.owners[k] = i /\ f[k] = Free
      /\ \A k \in Key : \/ batch.owners[k] = f[k]
                        \/ /\ batch.owners[k] \in Admitted(batch.admitted)
                           /\ k \in KeysOf(batch.owners[k]) /\ f[k] = Free
  BY Prepared
<1>2. owners' = Without(batch.owners, {Lock})
  OBVIOUS
<1> HIDE DEF batch
<1>3. \A k \in Key : /\ owners[k] \in Reservations \cup {Free} /\ owners[k] # Lock
                     /\ f[k] = IF k \in replacement.locked /\ owners[k] = Free THEN Lock ELSE owners[k]
  <2>1. Free # Lock
    BY DEF Free, Lock, Unreal
  <2> QED BY <2>1, Real DEF OwnershipInv, StateInv, Pending, Without, Locked, Taken
<1>4. Free # Lock /\ \A i \in Admitted(batch.admitted) : i \in Reservations /\ i \notin {Free, Lock}
  BY <1>1, Real, RealOf DEF Free, Lock, Unreal
<1> HIDE DEF f
<1>5. \A k \in Key : f[k] = Free => owners[k] = Free /\ k \notin replacement.locked
  BY <1>3, <1>4
<1>6. \A k \in Key : owners'[k] # owners[k] =>
        /\ owners'[k] \in Admitted(batch.admitted)
        /\ k \in KeysOf(owners'[k]) /\ owners[k] = Free /\ k \notin replacement.locked
  BY <1>1, <1>2, <1>3, <1>4, <1>5 DEF Without
<1>7. \A i \in Admitted(batch.admitted) :
        \A k \in KeysOf(i) : k \in Key /\ owners'[k] = i /\ owners[k] = Free
  BY <1>1, <1>2, <1>4, <1>5 DEF Without
<1>8. owners' \in [Key -> Reservations \cup {Free}]
  BY <1>2, <1>3, <1>4, <1>6 DEF Without
<1> QED BY <1>1, <1>6, <1>7, <1>8 DEF Gives, batch

LEMMA ReserveStep ==
  ASSUME OwnershipInv, NEW r \in Requests, Reserve(r)
  PROVE  OwnershipInv'
<1> DEFINE batch == Prepare(r, {})
<1>0. request[r].phase = "validating" /\ request[r].phase \notin Through \cup Replacement
  BY DEF Reserve, Through, Replacement
<1>1. CASE StillOpen /\ Accepted(batch)
  <2>1. /\ owners' = Without(batch.owners, {Lock}) /\ Publish(batch.admitted)
        /\ Settle(r, Free) /\ Open /\ batch.ok
        /\ UNCHANGED <<replacement, status, pending>>
    BY <1>1 DEF Reserve, StillOpen, Accepted
  <2>2. /\ Gives(r, batch.admitted)
        /\ \A k \in Key : owners'[k] # owners[k] => k \notin replacement.locked
    BY <2>1, ReserveGives
  <2> HIDE DEF batch
  <2>3. StateInv' /\ OneOwner' /\ DisposalInv'
    BY <1>0, <2>1, <2>2, Publishes
  <2>4. ReplacementInv'
    <3> SUFFICES ASSUME NEW q \in Requests, request'[q].phase \in Replacement
                 PROVE  /\ replacement'.by = q
                        /\ replacement'.current = request'[q].of
                        /\ SuccessorsReserved(q)'
      BY DEF ReplacementInv
    <3>1. request'[q] = request[q]
      <4>1. request'[r].phase = "settling" /\ \A s \in Requests \ {r} : request'[s] = request[s]
        BY <2>1, SettleProgress DEF Settle, OwnershipInv, StateInv
      <4> QED BY <4>1 DEF Replacement
    <3>2. replacement.by = q /\ replacement.current = request[q].of /\ SuccessorsReserved(q)
      BY <3>1 DEF OwnershipInv, ReplacementInv
    <3>3. \A k \in Key : replacement.successors[k] # Free => owners'[k] = owners[k]
      BY <2>2, <3>2 DEF SuccessorsReserved
    <3> QED BY <2>1, <3>1, <3>2, <3>3 DEF SuccessorsReserved, Successors
  <2> QED BY <2>3, <2>4 DEF OwnershipInv
<1>2. CASE ~(StillOpen /\ Accepted(batch))
  BY <1>0, <1>2, Fails DEF Reserve, Fail
<1> QED BY <1>1, <1>2

(* A replacement begins alone, and reserves only what is free once the     *)
(* current installation is gone.                                           *)
LEMMA BeginReplacementStep ==
  ASSUME OwnershipInv, NEW r \in Requests, BeginReplacement(r)
  PROVE  OwnershipInv'
<1> DEFINE of == request[r].of
           batch == Prepare(r, Replacing(r))
           f == Pending(Replacing(r))
           mine == {k \in Key : batch.owners[k] \in Admitted(batch.admitted)}
           begins == StillOpen /\ Replaceable(r) /\ replacement = NoReplacement /\ Accepted(batch)
<1>0. /\ r \in Replaces /\ request[r].phase = "validating"
      /\ request[r].phase \notin Through \cup Replacement
      /\ UNCHANGED <<owners, installation, status, pending>>
  BY DEF BeginReplacement, Through, Replacement
<1>1. CASE begins
  <2>1. /\ replacement = NoReplacement /\ batch.ok
        /\ replacement' = [by |-> r, current |-> of,
             successors |-> [k \in Key |-> IF k \in mine THEN batch.owners[k] ELSE Free],
             locked |-> mine \cup {k \in Key : owners[k] = of}]
        /\ request' = [request EXCEPT ![r].phase = "begun", ![r].admitted = batch.admitted]
    BY <1>1 DEF BeginReplacement, Accepted
  <2>2. /\ batch.admitted \in Seq(Reservations \cup {Skip})
        /\ \A i \in Admitted(batch.admitted) :
             /\ i \in Reservation(r)
             /\ \A k \in KeysOf(i) : k \in Key /\ batch.owners[k] = i /\ f[k] = Free
        /\ \A k \in Key : \/ batch.owners[k] = f[k]
                          \/ /\ batch.owners[k] \in Admitted(batch.admitted)
                             /\ k \in KeysOf(batch.owners[k]) /\ f[k] = Free
    BY <2>1, Prepared
  <2> HIDE DEF batch
  <2>3. \A k \in Key : f[k] = IF owners[k] = of THEN Free ELSE owners[k]
    BY <1>0, <2>1 DEF Pending, Without, Replacing, Locked, NoReplacement
  <2> HIDE DEF f
  <2>4. \A q \in Requests : request[q].phase \notin Replacement
    BY <2>1, AdmissionAssumption DEF OwnershipInv, ReplacementInv, NoReplacement
  <2>5. /\ request' \in [Requests -> Progress]
        /\ request'[r].phase = "begun" /\ request'[r].of = of /\ request'[r].admitted = batch.admitted
        /\ \A q \in Requests \ {r} : request'[q] = request[q]
    <3> DEFINE p == [request[r] EXCEPT !.phase = "begun", !.admitted = batch.admitted]
    <3>1. request[r] \in Progress
      BY DEF OwnershipInv, StateInv
    <3>2. p \in Progress /\ p.phase = "begun" /\ p.of = of /\ p.admitted = batch.admitted
      BY <2>2, <3>1 DEF Progress, Replacement
    <3>3. request' = [request EXCEPT ![r] = p]
      BY <2>1 DEF OwnershipInv, StateInv
    <3> HIDE DEF p
    <3> QED BY <3>2, <3>3 DEF OwnershipInv, StateInv
  <2>6. StateInv'
    <3>1. \A i \in DOMAIN installation : i.request \in Requests /\ i.request # r
      BY <1>0, Real DEF OwnershipInv, StateInv
    <3> QED BY <1>0, <2>5, <3>1 DEF OwnershipInv, StateInv
  <2>7. OneOwner' /\ DisposalInv'
    BY <1>0 DEF OwnershipInv, OneOwner, DisposalInv, Unreleased, Taken
  <2>8. ASSUME NEW k \in mine PROVE k \in KeysOf(batch.owners[k]) /\ owners[k] \in {Free, of}
    <3>1. \A i \in Admitted(batch.admitted) : i # Free
      BY <2>2, Real, RealOf
    <3>2. owners[k] \in Unreleased => owners[k] \notin Admitted(batch.admitted)
      <4>1. owners[k] \in Unreleased => owners[k].request # r
        BY <1>0 DEF OwnershipInv, StateInv, Unreleased
      <4> QED BY <2>2, <4>1, RealOf
    <3>3. owners[k] = Free \/ owners[k] \in Unreleased
      BY DEF OwnershipInv, OneOwner, Taken
    <3>4. batch.owners[k] # f[k]
      BY <2>3, <3>1, <3>2, <3>3
    <3> QED BY <2>2, <2>3, <3>4
  <2>9. SuccessorsReserved(r)'
    <3>1. \A i \in Admitted(batch.admitted) : \A k \in KeysOf(i) : replacement'.successors[k] = i
      BY <2>1, <2>2
    <3>2. \A k \in Key : replacement'.successors[k] # Free =>
            k \in mine /\ replacement'.successors[k] = batch.owners[k]
      BY <2>1
    <3>3. \A k \in Key : replacement'.successors[k] # Free =>
            /\ replacement'.successors[k] \in Admitted(batch.admitted)
            /\ k \in replacement'.locked
            /\ k \in KeysOf(replacement'.successors[k])
            /\ owners'[k] \in {Free, replacement'.current}
      BY <1>0, <2>1, <2>8, <3>2
    <3> QED BY <2>2, <2>5, <3>1, <3>3
        DEF SuccessorsReserved, Successors, KeysOf, DefinitionOf
  <2>10. ReplacementInv'
    BY <2>1, <2>4, <2>5, <2>9 DEF ReplacementInv
  <2> QED BY <2>6, <2>7, <2>10 DEF OwnershipInv
<1>2. CASE ~begins
  BY <1>0, <1>2, Fails DEF BeginReplacement, Fail
<1> QED BY <1>1, <1>2

(* Retiring the current installation changes what nobody else depends on.  *)
LEMMA RetireStep ==
  ASSUME OwnershipInv, NEW r \in Requests, Retire(r)
  PROVE  OwnershipInv'
<1>0. /\ request[r].phase = "begun" /\ request[r].phase \in Replacement
      /\ UNCHANGED <<owners, status, pending>>
  BY DEF Retire, Replacement
<1>1. CASE Composition[r][1].kind = "service" /\ request[r].admitted = <<Skip>>
  <2>1. Leave(r, "done") /\ UNCHANGED installation
    BY <1>1 DEF Retire
  <2> QED BY <1>0, <2>1, Ends
<1>2. CASE ~(Composition[r][1].kind = "service" /\ request[r].admitted = <<Skip>>)
  <2>1. /\ installation' = Disposing({request[r].of})
        /\ request' = [request EXCEPT ![r].phase = "retiring"]
        /\ UNCHANGED replacement
    BY <1>2 DEF Retire, Goto
  <2> DEFINE p == [request[r] EXCEPT !.phase = "retiring"]
  <2>2. p \in Progress /\ p.phase = "retiring" /\ p.of = request[r].of /\ p.admitted = request[r].admitted
    BY DEF OwnershipInv, StateInv, Progress, Replacement
  <2>3. request' = [request EXCEPT ![r] = p]
    BY <2>1 DEF OwnershipInv, StateInv
  <2> HIDE DEF p
  <2>4. /\ request' \in [Requests -> Progress]
        /\ \A q \in Requests : /\ request'[q].of = request[q].of
                               /\ request'[q].admitted = request[q].admitted
                               /\ request'[q].phase = request[q].phase \/ (q = r /\ request'[q].phase = "retiring")
    BY <2>2, <2>3 DEF OwnershipInv, StateInv
  <2>5. /\ DOMAIN installation' = DOMAIN installation
        /\ Unreleased' = Unreleased
    BY <2>1 DEF Disposing, Unreleased
  <2>6. StateInv'
    <3>1. \A i \in DOMAIN installation : i.request \in Requests /\ i.request # r
      BY <1>0, Real DEF OwnershipInv, StateInv, Replacement, Through
    <3> QED BY <1>0, <2>4, <2>5, <3>1 DEF OwnershipInv, StateInv
  <2>7. OneOwner' /\ DisposalInv'
    BY <1>0, <2>5 DEF OwnershipInv, OneOwner, DisposalInv, Taken
  <2>8. ReplacementInv'
    BY <1>0, <2>1, <2>4
    DEF OwnershipInv, ReplacementInv, SuccessorsReserved, Successors
  <2> QED BY <2>6, <2>7, <2>8 DEF OwnershipInv
<1> QED BY <1>1, <1>2

(* Its successors own what it did only when it is gone.                    *)
LEMMA CommitGives ==
  ASSUME OwnershipInv, NEW r \in Requests, Commit(r)
  PROVE  Gives(r, request[r].admitted)
<1> DEFINE of == request[r].of
           successors == replacement.successors
<1>1. /\ request[r].phase \in Replacement
      /\ installation[of] = "released"
      /\ owners' = Future(owners)
  BY DEF Commit, Retired, Replacement
<1>2. /\ replacement.current = of
      /\ \A i \in Successors(r) : i \in Reservation(r)
      /\ \A i \in Successors(r) : \A k \in KeysOf(i) : successors[k] = i
      /\ \A k \in Key : successors[k] # Free =>
           /\ successors[k] \in Successors(r) /\ k \in KeysOf(successors[k])
           /\ owners[k] \in {Free, of}
  BY <1>1 DEF OwnershipInv, ReplacementInv, SuccessorsReserved
<1>3. \A i \in Successors(r) : i \in Reservations /\ i \notin {Free, Lock} /\ KeysOf(i) \subseteq Key
  BY <1>2, Real, RealOf
<1>4. \A k \in Key : /\ owners[k] \in Reservations \cup {Free} /\ owners[k] # Lock
                     /\ owners[k] = of => owners[k] = Free
  <2>1. Free # Lock
    BY DEF Free, Lock, Unreal
  <2>2. of \notin Unreleased
    BY <1>1 DEF Unreleased
  <2> QED BY <2>1, <2>2, Real DEF OwnershipInv, StateInv, OneOwner, Taken
<1>5. \A k \in Key : owners'[k] = IF successors[k] # Free THEN successors[k]
                                  ELSE IF owners[k] \in {of, Lock} THEN Free ELSE owners[k]
  BY <1>1, <1>2 DEF Future
<1>6. \A k \in Key : owners'[k] # owners[k] =>
        owners'[k] \in Successors(r) /\ k \in KeysOf(owners'[k]) /\ owners[k] = Free
  BY <1>2, <1>4, <1>5
<1>7. owners' \in [Key -> Reservations \cup {Free}]
  BY <1>1, <1>3, <1>4, <1>6 DEF Future
<1>8. \A i \in Successors(r) : \A k \in KeysOf(i) : k \in Key /\ owners'[k] = i /\ owners[k] = Free
  BY <1>2, <1>3, <1>4, <1>5
<1> QED BY <1>2, <1>6, <1>7, <1>8 DEF Gives, Successors

LEMMA CommitStep ==
  ASSUME OwnershipInv, NEW r \in Requests, Commit(r)
  PROVE  OwnershipInv'
<1>1. /\ request[r].phase \in Replacement /\ request[r].phase \notin Through
      /\ Open /\ Publish(request[r].admitted)
      /\ Settle(r, request[r].of) /\ UNCHANGED <<status, pending>>
      /\ request[r].of \in Reservations \cup {Free}
  BY DEF Commit, Replacement, Through, OwnershipInv, StateInv, Progress
<1>2. StateInv' /\ OneOwner' /\ DisposalInv'
  BY <1>1, CommitGives, Publishes
<1>3. ReplacementInv'
  <2>1. request'[r].phase = "settling" /\ \A q \in Requests \ {r} : request'[q] = request[q]
    BY <1>1, SettleProgress DEF Settle, OwnershipInv, StateInv
  <2>2. \A q \in Requests : request'[q].phase \notin Replacement
    BY <1>1, <2>1 DEF OwnershipInv, ReplacementInv, Replacement
  <2> QED BY <2>2 DEF ReplacementInv
<1> QED BY <1>2, <1>3 DEF OwnershipInv

(* An installation that is gone gives back what it owned.                  *)
LEMMA InstallationStopsStep ==
  ASSUME OwnershipInv, NEW i \in DOMAIN installation, InstallationStops(i)
  PROVE  OwnershipInv'
<1> USE DEF OwnershipInv
<1>0. installation[i] = "disposing" /\ UNCHANGED <<replacement, status, pending, request>>
  BY DEF InstallationStops
<1>1. CASE installation' = [installation EXCEPT ![i] = "released"] /\ owners' = Without(owners, {i})
  <2>1. DOMAIN installation' = DOMAIN installation /\ Unreleased' = Unreleased \ {i}
    BY <1>1 DEF Unreleased
  <2>2. \A k \in Key : owners'[k] = IF owners[k] = i THEN Free ELSE owners[k]
    BY <1>1 DEF Without
  <2>3. StateInv'
    BY <1>0, <1>1, <2>1, <2>2 DEF StateInv, Without
  <2>4. OneOwner'
    <3>1. ASSUME NEW j \in Unreleased \ {i}, NEW k \in KeysOf(j) PROVE owners'[k] = j
      BY <2>2, Real DEF OneOwner, StateInv, Unreleased
    <3>2. ASSUME NEW k \in Key, owners'[k] # Free PROVE owners'[k] \in Unreleased \ {i}
      BY <2>2, <3>2 DEF OneOwner, Taken
    <3> QED BY <2>1, <3>1, <3>2 DEF OneOwner, Taken, KeysOf, DefinitionOf
  <2>5. ReplacementInv'
    BY <1>0, <2>2 DEF ReplacementInv, SuccessorsReserved, Successors
  <2>6. DisposalInv'
    BY <1>0, <2>1 DEF DisposalInv
  <2> QED BY <2>3, <2>4, <2>5, <2>6
<1>2. CASE installation' = [installation EXCEPT ![i] = "blocked"] /\ UNCHANGED owners
  <2>1. StateInv' /\ OneOwner' /\ ReplacementInv' /\ Unreleased' = Unreleased
    BY <1>0, <1>2, Lives
  <2> QED BY <1>0, <2>1 DEF DisposalInv
<1> QED BY <1>1, <1>2 DEF InstallationStops

(* An installation that is disposed still owns what it asked for.          *)
LEMMA DisposesAll ==
  ASSUME OwnershipInv, NEW I, installation' = Disposing(I), UNCHANGED <<owners, replacement, request>>
  PROVE  StateInv' /\ OneOwner' /\ ReplacementInv' /\ Unreleased' = Unreleased
BY Lives DEF Disposing

-------------------------------------------------------------------------------
(* The initial states have it. *)
LEMMA Initially == Init => OwnershipInv
<1> SUFFICES ASSUME Init PROVE OwnershipInv
  OBVIOUS
<1>1. Idle \in Progress /\ Idle.phase = "idle"
  BY DEF Idle, Progress
<1>2. StateInv
  BY <1>1 DEF Init, StateInv, Unowned
<1>3. OneOwner /\ DisposalInv
  BY DEF Init, OneOwner, DisposalInv, Unreleased, Taken, Unowned
<1>4. ReplacementInv
  BY <1>1 DEF Init, ReplacementInv, Replacement
<1> QED BY <1>2, <1>3, <1>4 DEF OwnershipInv

(* And every step keeps it. *)
LEMMA Steps == OwnershipInv /\ [Next]_vars => OwnershipInv'
<1> SUFFICES ASSUME OwnershipInv, [Next]_vars PROVE OwnershipInv'
  OBVIOUS
<1> USE DEF registryVars, queueVars
<1>1. ASSUME NEW r \in Requests, Start(r) PROVE OwnershipInv'
  BY <1>1, Goes DEF Start, Replacement, Through
<1>2. ASSUME NEW r \in Requests, NEW i \in DOMAIN installation, Replace(r, i) PROVE OwnershipInv'
  <2>1. CASE Open
    <3> DEFINE p == [request[r] EXCEPT !.phase = "waiting", !.of = i]
    <3>1. p \in Progress /\ p.phase = "waiting"
      BY DEF OwnershipInv, StateInv, Progress
    <3>2. request' = [request EXCEPT ![r] = p]
      BY <1>2, <2>1 DEF Replace, OwnershipInv, StateInv
    <3> HIDE DEF p
    <3> QED BY <1>2, <3>1, <3>2, MovesOn DEF Replace, Through, Replacement
  <2>2. CASE ~Open
    BY <1>2, <2>2, Fails DEF Replace, Through, Replacement
  <2> QED BY <2>1, <2>2
<1>3. ASSUME NEW r \in Requests, TakeTurn(r) PROVE OwnershipInv'
  BY <1>3, Goes, Fails DEF TakeTurn, Fail, Through, Replacement
<1>4. ASSUME NEW r \in Requests, Preflight(r) PROVE OwnershipInv'
  BY <1>4, Goes, Fails DEF Preflight, Fail, Through, Replacement
<1>5. ASSUME NEW r \in Requests, PayloadInvalid(r) PROVE OwnershipInv'
  BY <1>5, Fails DEF PayloadInvalid, Fail, Through, Replacement
<1>6. ASSUME NEW r \in Requests, Settled(r) PROVE OwnershipInv'
  BY <1>6, Goes DEF Settled, Through, Replacement
<1>7. ASSUME NEW r \in Requests, Abort(r) PROVE OwnershipInv'
  BY <1>7, Ends DEF Abort, Fail, Replacement
<1>8. ASSUME NEW i \in DOMAIN installation, DisposeInstallation(i) PROVE OwnershipInv'
  BY <1>8, DisposesAll DEF DisposeInstallation, OwnershipInv, DisposalInv
<1>9. ASSUME DisposeProvider PROVE OwnershipInv'
  BY <1>9, DisposesAll DEF DisposeProvider, OwnershipInv, DisposalInv
<1>10. ASSUME CompleteDisposal PROVE OwnershipInv'
  <2>1. StateInv' /\ OneOwner' /\ ReplacementInv' /\ Unreleased' = Unreleased
    BY <1>10, Lives DEF CompleteDisposal
  <2>2. DisposalInv'
    BY <1>10, <2>1 DEF CompleteDisposal, OwnershipInv, DisposalInv, Unreleased
  <2> QED BY <2>1, <2>2 DEF OwnershipInv
<1>11. CASE UNCHANGED vars
  <2>1. StateInv' /\ OneOwner' /\ ReplacementInv' /\ Unreleased' = Unreleased
    BY <1>11, Lives DEF vars
  <2> QED BY <1>11, <2>1 DEF vars, OwnershipInv, DisposalInv
<1> QED
  BY <1>1, <1>2, <1>3, <1>4, <1>5, <1>6, <1>7, <1>8, <1>9, <1>10, <1>11,
     ReserveStep, BeginReplacementStep, RetireStep, CommitStep, InstallationStopsStep,
     AdmissionAssumption
  DEF Next, User, Turn, Setups, Retirement

(* A key has one owner until it is released, in every history of startups, *)
(* installs and replacements that overlap each other's cleanup and the     *)
(* disposal of the provider (admission.ts, reserve and commit).            *)
THEOREM OneOwnerAlways == Spec => []OneOwner
<1>1. OwnershipInv => OneOwner
  BY DEF OwnershipInv
<1> QED BY <1>1, Initially, Steps, PTL DEF Spec

(* A disposed provider owns nothing: no admission gets in after disposal   *)
(* took the list of installations it waits for.                            *)
THEOREM DisposedOwnsNothing == Spec => []DisposedIsEmpty
<1>1. OwnershipInv => DisposedIsEmpty
  <2> SUFFICES ASSUME OwnershipInv, status = "disposed" PROVE Unreleased = {} /\ owners = Unowned
    BY DEF DisposedIsEmpty
  <2>1. Unreleased = {} /\ Taken(owners) = {}
    BY DEF OwnershipInv, DisposalInv, OneOwner
  <2> QED BY <2>1 DEF Taken, Unowned, OwnershipInv, StateInv
<1> QED BY <1>1, Initially, Steps, PTL DEF Spec

-------------------------------------------------------------------------------
(* A graph that keeps some of the services of an acyclic one is acyclic.   *)
LEMMA SubgraphAcyclic ==
  ASSUME NEW f, NEW g, Acyclic(f), \A k \in Services(g) : g[k] = f[k]
  PROVE  Acyclic(g)
<1>1. Services(g) \subseteq Services(f)
  BY DEF Services
<1>2. \A k \in Services(g) : Needs(g, k) = Needs(f, k)
  BY DEF Needs
<1> SUFFICES ASSUME NEW S \in SUBSET Services(g), S # {}
             PROVE  \E k \in S : Needs(g, k) \cap S = {}
  BY DEF Acyclic
<1>3. PICK k \in S : Needs(f, k) \cap S = {}
  BY <1>1 DEF Acyclic
<1> QED BY <1>2, <1>3

(* What nobody owns is no service. *)
LEMMA FreeServesNothing ==
  ASSUME NEW f, NEW k \in Services(f)
  PROVE  f[k] # Free
BY DEF Services, Free, Unreal

(* Freeing keys keeps both graphs acyclic: whatever the replacement leads  *)
(* to was there before.                                                    *)
LEMMA FreedAcyclic ==
  ASSUME NEW f, NEW I, Acyclic(f)
  PROVE  Acyclic(Without(f, I))
<1>1. \A k \in Services(Without(f, I)) : k \in Key /\ Without(f, I)[k] # Free
  BY FreeServesNothing DEF Services
<1>2. \A k \in Key : Without(f, I)[k] \in {Free, f[k]}
  BY DEF Without
<1> QED BY <1>1, <1>2, SubgraphAcyclic

LEMMA FreedFutureAcyclic ==
  ASSUME NEW f, NEW I, Acyclic(Future(f))
  PROVE  Acyclic(Future(Without(f, I)))
<1> DEFINE g == Without(f, I)
<1>1. \A k \in Key : g[k] \in {Free, f[k]}
  BY DEF Without
<1> HIDE DEF g
<1>2. \A k \in Key : Future(g)[k] \in {Free, Future(f)[k]}
  BY <1>1 DEF Future
<1>3. \A k \in Services(Future(g)) : k \in Key /\ Future(g)[k] # Free
  BY FreeServesNothing DEF Services
<1>4. Acyclic(Future(g))
  BY <1>2, <1>3, SubgraphAcyclic
<1> QED BY <1>4 DEF g

(* A batch is admitted only if both graphs stay acyclic with it.           *)
LEMMA ReserveAcyclic ==
  ASSUME AcyclicNowAndThen, NEW r \in Requests, Reserve(r)
  PROVE  AcyclicNowAndThen'
<1> DEFINE batch == Prepare(r, {})
<1>1. UNCHANGED replacement
  BY DEF Reserve
<1>2. \/ owners' = owners
      \/ /\ owners' = Without(batch.owners, {Lock})
         /\ Acyclic(batch.owners)
         /\ replacement.by # Nobody => Acyclic(Future(batch.owners))
  BY DEF Reserve, Accepted, FutureAcyclic
<1> HIDE DEF batch
<1>3. CASE owners' = owners
  BY <1>1, <1>3 DEF AcyclicNowAndThen, Acyclic, Services, Needs, DefinitionOf, Future
<1>4. CASE owners' # owners
  <2>1. Acyclic(Without(batch.owners, {Lock}))
    BY <1>2, <1>4, FreedAcyclic
  <2>2. replacement.by # Nobody => Acyclic(Future(Without(batch.owners, {Lock})))
    BY <1>2, <1>4, FreedFutureAcyclic
  <2> DEFINE g == Without(batch.owners, {Lock})
  <2>3. owners' = g
    BY <1>2, <1>4
  <2> HIDE DEF g
  <2>4. Acyclic(owners)'
    BY <2>1, <2>3 DEF g, Acyclic, Services, Needs, DefinitionOf
  <2>5. Future(owners)' = Future(g)
    BY <1>1, <2>3 DEF Future
  <2>6. ASSUME replacement'.by # Nobody PROVE Acyclic(Future(owners))'
    <3>1. Acyclic(Future(g))
      BY <1>1, <2>2, <2>6 DEF g
    <3> QED BY <2>5, <3>1 DEF Acyclic, Services, Needs, DefinitionOf
  <2> QED BY <2>4, <2>6 DEF AcyclicNowAndThen
<1> QED BY <1>3, <1>4

(* What a replacement leads to when it begins is what was checked: the     *)
(* owners without the current installation, and its successors.            *)
LEMMA BeginReplacementAcyclic ==
  ASSUME OwnershipInv, AcyclicNowAndThen, NEW r \in Requests, BeginReplacement(r)
  PROVE  AcyclicNowAndThen'
<1> DEFINE batch == Prepare(r, Replacing(r))
           f == Pending(Replacing(r))
           of == request[r].of
           mine == {k \in Key : batch.owners[k] \in Admitted(batch.admitted)}
<1>0. r \in Replaces /\ owners' = owners
  BY DEF BeginReplacement
<1>1. CASE UNCHANGED replacement
  BY <1>0, <1>1 DEF AcyclicNowAndThen, Acyclic, Services, Needs, DefinitionOf, Future
<1>2. CASE ~UNCHANGED replacement
  <2>1. /\ replacement = NoReplacement /\ batch.ok /\ Acyclic(batch.owners)
        /\ replacement'.current = of
        /\ replacement'.successors = [k \in Key |-> IF k \in mine THEN batch.owners[k] ELSE Free]
    BY <1>2 DEF BeginReplacement, Accepted
  <2>2. /\ \A i \in Admitted(batch.admitted) : i \in Reservation(r)
        /\ \A k \in Key : \/ batch.owners[k] = f[k]
                          \/ batch.owners[k] \in Admitted(batch.admitted)
    BY <2>1, Prepared
  <2>3. \A k \in Key : f[k] = IF owners[k] = of THEN Free ELSE owners[k]
    BY <1>0, <2>1 DEF Pending, Without, Replacing, Locked, NoReplacement
  <2> HIDE DEF batch, f
  <2>4. \A k \in mine : batch.owners[k] # Free
    BY <2>2, Real, RealOf
  <2>5. \A k \in Key : Future(owners)'[k] \in {Free, batch.owners[k]}
    <3> SUFFICES ASSUME NEW k \in Key PROVE Future(owners)'[k] \in {Free, batch.owners[k]}
      OBVIOUS
    <3>1. Future(owners)'[k] =
            IF k \in mine /\ batch.owners[k] # Free THEN batch.owners[k]
            ELSE IF owners[k] \in {of, Lock} THEN Free ELSE owners[k]
      BY <1>0, <2>1 DEF Future
    <3>2. CASE k \in mine
      BY <2>4, <3>1, <3>2
    <3>3. CASE k \notin mine
      BY <2>2, <2>3, <3>1, <3>3
    <3> QED BY <3>2, <3>3
  <2> DEFINE g == Future(owners)'
  <2>6. \A k \in Services(g) : k \in Key /\ g[k] # Free
    BY FreeServesNothing DEF Services
  <2> HIDE DEF g
  <2>7. Acyclic(g)
    BY <2>1, <2>5, <2>6, SubgraphAcyclic DEF g
  <2>8. Acyclic(Future(owners))'
    BY <2>7 DEF g, Acyclic, Services, Needs, DefinitionOf
  <2>9. Acyclic(owners)'
    BY <1>0 DEF AcyclicNowAndThen, Acyclic, Services, Needs, DefinitionOf
  <2> QED BY <2>8, <2>9 DEF AcyclicNowAndThen
<1> QED BY <1>1, <1>2

(* The successors get what the replacement led to. *)
LEMMA CommitAcyclic ==
  ASSUME OwnershipInv, AcyclicNowAndThen, NEW r \in Requests, Commit(r)
  PROVE  AcyclicNowAndThen'
<1>1. /\ request[r].phase \in Replacement
      /\ owners' = Future(owners) /\ replacement' = NoReplacement
  BY DEF Commit, Replacement
<1>2. replacement.by # Nobody
  BY <1>1, AdmissionAssumption DEF OwnershipInv, ReplacementInv
<1>3. Acyclic(Future(owners))
  BY <1>2 DEF AcyclicNowAndThen
<1>4. Acyclic(owners)'
  BY <1>1, <1>3 DEF Acyclic, Services, Needs, DefinitionOf
<1> QED BY <1>1, <1>4 DEF AcyclicNowAndThen, NoReplacement

LEMMA InstallationStopsAcyclic ==
  ASSUME AcyclicNowAndThen, NEW i \in DOMAIN installation, InstallationStops(i)
  PROVE  AcyclicNowAndThen'
<1>1. UNCHANGED replacement /\ (owners' = owners \/ owners' = Without(owners, {i}))
  BY DEF InstallationStops
<1>2. CASE owners' = owners
  BY <1>1, <1>2 DEF AcyclicNowAndThen, Acyclic, Services, Needs, DefinitionOf, Future
<1>3. CASE owners' = Without(owners, {i})
  <2>1. Acyclic(Without(owners, {i}))
    BY FreedAcyclic DEF AcyclicNowAndThen
  <2>2. replacement.by # Nobody => Acyclic(Future(Without(owners, {i})))
    BY FreedFutureAcyclic DEF AcyclicNowAndThen
  <2> DEFINE g == Without(owners, {i})
  <2>3. owners' = g
    BY <1>3
  <2> HIDE DEF g
  <2>4. Acyclic(owners)'
    BY <2>1, <2>3 DEF g, Acyclic, Services, Needs, DefinitionOf
  <2>5. Future(owners)' = Future(g)
    BY <1>1, <2>3 DEF Future
  <2>6. ASSUME replacement'.by # Nobody PROVE Acyclic(Future(owners))'
    <3>1. Acyclic(Future(g))
      BY <1>1, <2>2, <2>6 DEF g
    <3> QED BY <2>5, <3>1 DEF Acyclic, Services, Needs, DefinitionOf
  <2> QED BY <2>4, <2>6 DEF AcyclicNowAndThen
<1> QED BY <1>1, <1>2, <1>3

(* Whatever else happens leaves the owners alone, and replacement too or   *)
(* ends it.                                                                *)
LEMMA OthersAcyclic ==
  ASSUME AcyclicNowAndThen, owners' = owners,
         replacement' = replacement \/ replacement' = NoReplacement
  PROVE  AcyclicNowAndThen'
<1>1. CASE replacement' = replacement
  BY <1>1 DEF AcyclicNowAndThen, Acyclic, Services, Needs, DefinitionOf, Future
<1>2. CASE replacement' = NoReplacement
  BY <1>2 DEF AcyclicNowAndThen, Acyclic, Services, Needs, DefinitionOf, NoReplacement
<1> QED BY <1>1, <1>2

(* "Admission checks dependency cycles against both possible service       *)
(* graphs": neither the present owners nor those a pending replacement     *)
(* leads to ever require each other in a circle, whatever is admitted      *)
(* between the start of a replacement and its commit (admission.ts,        *)
(* assertAcyclic and futureOwners).                                        *)
THEOREM NeverACycle == Spec => []AcyclicNowAndThen
<1>1. Init => AcyclicNowAndThen
  <2> SUFFICES ASSUME Init PROVE AcyclicNowAndThen
    OBVIOUS
  <2>1. Services(owners) = {}
    BY FreeServesNothing DEF Init, Unowned, Services
  <2> QED BY <2>1 DEF Init, AcyclicNowAndThen, Acyclic, NoReplacement
<1>2. OwnershipInv /\ AcyclicNowAndThen /\ [Next]_vars => AcyclicNowAndThen'
  <2> SUFFICES ASSUME OwnershipInv, AcyclicNowAndThen, [Next]_vars PROVE AcyclicNowAndThen'
    OBVIOUS
  <2> USE DEF registryVars
  <2>1. ASSUME User \/ CompleteDisposal \/ UNCHANGED vars PROVE AcyclicNowAndThen'
    BY <2>1, OthersAcyclic
    DEF User, Start, Replace, DisposeInstallation, DisposeProvider, CompleteDisposal, vars
  <2>2. ASSUME NEW r \in Requests,
               TakeTurn(r) \/ Preflight(r) \/ PayloadInvalid(r) \/ Settled(r) \/ Retire(r) \/ Abort(r)
        PROVE  AcyclicNowAndThen'
    BY <2>2, OthersAcyclic DEF TakeTurn, Preflight, PayloadInvalid, Settled, Retire, Abort
  <2> QED
    BY <2>1, <2>2, ReserveAcyclic, BeginReplacementAcyclic, CommitAcyclic, InstallationStopsAcyclic,
       AdmissionAssumption
    DEF Next, Turn, Setups, Retirement
<1> QED BY <1>1, <1>2, Initially, Steps, PTL DEF Spec

-------------------------------------------------------------------------------
(* Joining and leaving a queue. *)
LEMMA Enqueued ==
  ASSUME NEW R, NEW s \in Seq(R), IsInjective(s), NEW r \in R, r \notin Range(s)
  PROVE  /\ Append(s, r) \in Seq(R) /\ IsInjective(Append(s, r))
         /\ Range(Append(s, r)) = Range(s) \cup {r}
         /\ Append(s, r) # <<>>
         /\ s # <<>> => Head(Append(s, r)) = Head(s)
<1> DEFINE t == Append(s, r)
<1>1. /\ t \in Seq(R) /\ t # <<>> /\ DOMAIN t = 1 .. Len(s) + 1 /\ Len(s) \in Nat
      /\ \A n \in 1 .. Len(s) : t[n] = s[n]
      /\ t[Len(s) + 1] = r /\ DOMAIN s = 1 .. Len(s)
  OBVIOUS
<1>2. s # <<>> => Head(t) = Head(s)
  OBVIOUS
<1> HIDE DEF t
<1>3. \A n \in DOMAIN t : (n \in DOMAIN s /\ t[n] = s[n]) \/ (n = Len(s) + 1 /\ t[n] = r)
  BY <1>1
<1>4. IsInjective(t)
  BY <1>1, <1>3 DEF IsInjective, Range
<1>5. Range(t) = Range(s) \cup {r}
  <2>1. Range(t) \subseteq Range(s) \cup {r}
    BY <1>3 DEF Range
  <2>2. Range(s) \subseteq Range(t)
    BY <1>1 DEF Range
  <2>3. r \in Range(t)
    BY <1>1 DEF Range
  <2> QED BY <2>1, <2>2, <2>3
<1> QED BY <1>1, <1>2, <1>4, <1>5 DEF t

LEMMA Dequeued ==
  ASSUME NEW R, NEW s \in Seq(R), IsInjective(s), s # <<>>
  PROVE  /\ Tail(s) \in Seq(R) /\ IsInjective(Tail(s))
         /\ Range(Tail(s)) = Range(s) \ {Head(s)}
         /\ Head(s) \in Range(s)
<1> DEFINE t == Tail(s)
<1>1. /\ t \in Seq(R) /\ DOMAIN t = 1 .. Len(s) - 1 /\ Len(s) \in Nat \ {0}
      /\ \A n \in 1 .. Len(s) - 1 : t[n] = s[n + 1]
      /\ DOMAIN s = 1 .. Len(s) /\ Head(s) = s[1]
  OBVIOUS
<1> HIDE DEF t
<1>2. IsInjective(t)
  <2> SUFFICES ASSUME NEW n \in DOMAIN t, NEW m \in DOMAIN t, t[n] = t[m] PROVE n = m
    BY DEF IsInjective
  <2>1. n + 1 \in DOMAIN s /\ m + 1 \in DOMAIN s /\ s[n + 1] = s[m + 1]
    BY <1>1
  <2>2. n + 1 = m + 1
    BY <2>1 DEF IsInjective
  <2> QED BY <1>1, <2>2
<1>3. Range(t) \subseteq Range(s) \ {Head(s)}
  <2> SUFFICES ASSUME NEW n \in DOMAIN t PROVE t[n] \in Range(s) /\ t[n] # s[1]
    BY <1>1 DEF Range
  <2>1. n + 1 \in DOMAIN s /\ t[n] = s[n + 1] /\ 1 \in DOMAIN s /\ n + 1 # 1
    BY <1>1
  <2> QED BY <2>1 DEF IsInjective, Range
<1>4. Range(s) \ {Head(s)} \subseteq Range(t)
  <2> SUFFICES ASSUME NEW n \in DOMAIN s, s[n] # s[1] PROVE s[n] \in Range(t)
    BY <1>1 DEF Range
  <2>1. n - 1 \in DOMAIN t /\ t[n - 1] = s[n]
    BY <1>1
  <2> QED BY <2>1 DEF Range
<1>5. Head(s) \in Range(s)
  BY <1>1 DEF Range
<1> QED BY <1>1, <1>2, <1>3, <1>4, <1>5 DEF t

(* Who is queued for a mutation is on the queue, and only its head's       *)
(* payload is being validated.                                             *)
Queued == {"queued", "validating"}
MutationInv ==
  /\ mutations \in Seq(Requests) /\ IsInjective(mutations)
  /\ \A r \in Requests :
       /\ request[r].phase \in Queued <=> r \in Range(mutations)
       /\ request[r].phase = "validating" => mutations # <<>> /\ r = Head(mutations)

(* A replacement has its turn from the wait to the end of its setups, and  *)
(* only the first has got beyond the wait.                                 *)
Served == Queued \cup Replacement \cup {"settling"}
TurnInv ==
  /\ turns \in Seq(Replaces) /\ IsInjective(turns)
  /\ \A r \in Replaces :
       /\ request[r].phase \in Served \cup {"waiting"} <=> r \in Range(turns)
       /\ request[r].phase \in Served => turns # <<>> /\ r = Head(turns)
  /\ \A r \in Requests \ Replaces : request[r].phase \notin Replacement \cup {"waiting"}

(* The registry knows of a replacement while it is retiring its current.   *)
BegunInv ==
  /\ replacement.by \in Replaces \cup {Nobody} /\ replacement.locked \subseteq Key
  /\ \A r \in Requests : request[r].phase \in Replacement <=> r = replacement.by

LifeInv ==
  /\ strict \in BOOLEAN
  /\ \A i \in DOMAIN installation : installation[i] \in {"live", "disposing", "blocked", "released"}
  /\ status \in {"open", "disposing", "disposed", "cleanup-blocked"}
  /\ pending \subseteq DOMAIN installation

QueueInv == MutationInv /\ TurnInv /\ BegunInv /\ LifeInv

-------------------------------------------------------------------------------
(* A request is in another phase, and no other is. *)
Enters(r, phase) ==
  \A q \in Requests : request'[q].phase = IF q = r THEN phase ELSE request[q].phase

LEMMA GoingEnters ==
  ASSUME StateInv, NEW r \in Requests, NEW phase, Goto(r, phase)
  PROVE  Enters(r, phase)
BY DEF StateInv, Progress, Goto, Enters

LEMMA LeavingEnters ==
  ASSUME StateInv, NEW r \in Requests, NEW phase, Leave(r, phase)
  PROVE  Enters(r, phase)
BY DEF StateInv, Leave, Enters, Idle

LEMMA SettlingEnters ==
  ASSUME StateInv, NEW r \in Requests, NEW current, Settle(r, current)
  PROVE  Enters(r, "settling")
BY DEF StateInv, Settle, Enters, Idle

(* The queue of mutations is left, joined or kept. *)
LEMMA JoinsMutations ==
  ASSUME MutationInv, NEW r \in Requests, Enters(r, "queued"),
         request[r].phase \notin Queued, mutations' = Append(mutations, r)
  PROVE  MutationInv'
<1>1. /\ mutations' \in Seq(Requests) /\ IsInjective(mutations')
      /\ Range(mutations') = Range(mutations) \cup {r}
      /\ mutations' # <<>>
      /\ mutations # <<>> => Head(mutations') = Head(mutations)
  BY Enqueued DEF MutationInv
<1> QED BY <1>1 DEF MutationInv, Enters, Queued

LEMMA EndsMutation ==
  ASSUME MutationInv, NEW r \in Requests, NEW phase, Enters(r, phase),
         mutations # <<>>, r = Head(mutations), phase \notin Queued, EndMutation
  PROVE  MutationInv'
<1>1. /\ mutations' \in Seq(Requests) /\ IsInjective(mutations')
      /\ Range(mutations') = Range(mutations) \ {r}
  BY Dequeued DEF MutationInv, EndMutation
<1> QED BY <1>1 DEF MutationInv, Enters, Queued

LEMMA KeepsMutations ==
  ASSUME MutationInv, NEW r \in Requests, NEW phase, Enters(r, phase), UNCHANGED mutations,
         request[r].phase \in Queued <=> phase \in Queued,
         phase = "validating" => mutations # <<>> /\ r = Head(mutations)
  PROVE  MutationInv'
BY DEF MutationInv, Enters

(* And that of replacements. *)
LEMMA JoinsTurns ==
  ASSUME TurnInv, NEW r \in Replaces, Enters(r, "waiting"),
         request[r].phase \notin Served \cup {"waiting"}, turns' = Append(turns, r)
  PROVE  TurnInv'
<1>1. /\ turns' \in Seq(Replaces) /\ IsInjective(turns')
      /\ Range(turns') = Range(turns) \cup {r}
      /\ turns' # <<>>
      /\ turns # <<>> => Head(turns') = Head(turns)
  BY Enqueued DEF TurnInv
<1>2. "waiting" \notin Served
  BY DEF Served, Queued, Replacement
<1>3. \A q \in Replaces : request'[q].phase = IF q = r THEN "waiting" ELSE request[q].phase
  BY AdmissionAssumption DEF Enters
<1>4. \A q \in Replaces : request'[q].phase \in Served \cup {"waiting"} <=> q \in Range(turns')
  BY <1>1, <1>3 DEF TurnInv
<1>5. \A q \in Replaces : request'[q].phase \in Served => turns' # <<>> /\ q = Head(turns')
  BY <1>1, <1>2, <1>3 DEF TurnInv
<1>6. \A q \in Requests \ Replaces : request'[q].phase \notin Replacement \cup {"waiting"}
  BY DEF TurnInv, Enters
<1> QED BY <1>1, <1>4, <1>5, <1>6 DEF TurnInv

LEMMA EndsTurn ==
  ASSUME TurnInv, NEW r \in Requests, NEW phase, Enters(r, phase), EndTurn(r),
         r \in Replaces => turns # <<>> /\ r = Head(turns),
         phase \notin Served \cup {"waiting"}
  PROVE  TurnInv'
<1>0. phase \notin Replacement \cup {"waiting"}
  BY DEF Served
<1>1. CASE r \in Replaces
  <2>1. /\ turns' \in Seq(Replaces) /\ IsInjective(turns')
        /\ Range(turns') = Range(turns) \ {r}
    BY <1>1, Dequeued DEF TurnInv, EndTurn
  <2>2. \A q \in Replaces : request'[q].phase = IF q = r THEN phase ELSE request[q].phase
    BY AdmissionAssumption DEF Enters
  <2>3. \A q \in Replaces : request'[q].phase \in Served \cup {"waiting"} <=> q \in Range(turns')
    BY <2>1, <2>2 DEF TurnInv
  <2>4. \A q \in Replaces : request'[q].phase \notin Served
    BY <1>1, <2>2 DEF TurnInv
  <2> QED BY <1>0, <2>1, <2>3, <2>4 DEF TurnInv, Enters
<1>2. CASE r \notin Replaces
  <2>1. turns' = turns
    BY <1>2 DEF EndTurn
  <2>2. \A q \in Replaces : request'[q].phase = request[q].phase
    BY <1>2, AdmissionAssumption DEF Enters
  <2> QED BY <1>0, <2>1, <2>2 DEF TurnInv, Enters
<1> QED BY <1>1, <1>2

LEMMA KeepsTurns ==
  ASSUME TurnInv, NEW r \in Requests, NEW phase, Enters(r, phase), UNCHANGED turns,
         r \in Replaces => /\ request[r].phase \in Served \cup {"waiting"}
                           /\ phase \in Served /\ turns # <<>> /\ r = Head(turns),
         r \notin Replaces => phase \notin Replacement \cup {"waiting"}
  PROVE  TurnInv'
<1>1. \A q \in Replaces : request'[q].phase = IF q = r THEN phase ELSE request[q].phase
  BY AdmissionAssumption DEF Enters
<1>2. \A q \in Replaces : request'[q].phase \in Served \cup {"waiting"} <=> q \in Range(turns')
  BY <1>1 DEF TurnInv
<1>3. \A q \in Replaces : request'[q].phase \in Served => turns' # <<>> /\ q = Head(turns')
  BY <1>1 DEF TurnInv
<1> QED BY <1>2, <1>3 DEF TurnInv, Enters

(* The registry's replacement goes on or, when a request that had begun is *)
(* over, is reset.                                                         *)
LEMMA KeepsReplacement ==
  ASSUME BegunInv, NEW r \in Requests, NEW phase, Enters(r, phase), UNCHANGED replacement,
         request[r].phase \in Replacement <=> phase \in Replacement
  PROVE  BegunInv'
BY DEF BegunInv, Enters

LEMMA ResetsReplacement ==
  ASSUME BegunInv, NEW r \in Requests, NEW phase, Enters(r, phase), replacement' = NoReplacement,
         request[r].phase \in Replacement, phase \notin Replacement
  PROVE  BegunInv'
BY AdmissionAssumption DEF BegunInv, Enters, NoReplacement

-------------------------------------------------------------------------------
(* The phases apart, for the steps below. *)
LEMMA Apart ==
  /\ Queued \cup Replacement \subseteq Served
  /\ Queued \cap Replacement = {}
  /\ {"idle", "waiting", "done", "error"} \cap Served = {}
  /\ {"idle", "waiting", "done", "error", "settling"} \cap (Queued \cup Replacement) = {}
BY DEF Served, Queued, Replacement

(* Installations change only to a state of theirs. *)
LEMMA LivesOn ==
  ASSUME LifeInv, UNCHANGED <<strict, status, pending>>,
         DOMAIN installation \subseteq DOMAIN installation',
         \A i \in DOMAIN installation' :
           installation'[i] \in {"live", "disposing", "blocked", "released"}
  PROVE  LifeInv'
BY DEF LifeInv

LEMMA PublishLives ==
  ASSUME LifeInv, NEW admissions, Publish(admissions), UNCHANGED <<strict, status, pending>>
  PROVE  LifeInv'
BY LivesOn DEF Publish, LifeInv

LEMMA DisposingLives ==
  ASSUME LifeInv, NEW I, installation' = Disposing(I), UNCHANGED <<strict, status, pending>>
  PROVE  LifeInv'
BY LivesOn DEF Disposing, LifeInv

LEMMA FailQueued ==
  ASSUME StateInv, QueueInv, NEW r \in Requests, request[r].phase \in Queued,
         mutations # <<>>, r = Head(mutations), Fail(r), EndMutation, UNCHANGED replacement
  PROVE  MutationInv' /\ TurnInv' /\ BegunInv'
<1>1. Enters(r, "error") /\ EndTurn(r)
  BY LeavingEnters DEF Fail
<1>2. r \in Replaces => turns # <<>> /\ r = Head(turns)
  BY Apart DEF QueueInv, TurnInv
<1>3. MutationInv'
  BY <1>1, Apart, EndsMutation DEF QueueInv
<1>4. TurnInv'
  BY <1>1, <1>2, Apart, EndsTurn DEF QueueInv
<1>5. BegunInv'
  BY <1>1, Apart, KeepsReplacement DEF QueueInv
<1> QED BY <1>3, <1>4, <1>5

(* A request that begins, or starts over. *)
LEMMA StartQueue ==
  ASSUME StateInv, QueueInv, NEW r \in Requests, Start(r)
  PROVE  QueueInv'
<1>1. /\ r \notin Replaces /\ request[r].phase = "idle"
      /\ UNCHANGED <<strict, replacement, installation, status, pending, turns>>
  BY DEF Start, registryVars
<1>2. LifeInv'
  BY <1>1 DEF QueueInv, LifeInv
<1>3. CASE Open
  <2>1. Enters(r, "queued") /\ mutations' = Append(mutations, r)
    BY <1>3, GoingEnters DEF Start
  <2>2. MutationInv'
    BY <1>1, <2>1, Apart, JoinsMutations DEF QueueInv
  <2>3. TurnInv' /\ BegunInv'
    BY <1>1, <2>1, Apart, KeepsTurns, KeepsReplacement DEF QueueInv, Queued
  <2> QED BY <1>2, <2>2, <2>3 DEF QueueInv
<1>4. CASE ~Open
  <2>1. Enters(r, "error") /\ UNCHANGED mutations
    BY <1>4, GoingEnters DEF Start
  <2>2. MutationInv'
    BY <1>1, <2>1, Apart, KeepsMutations DEF QueueInv
  <2>3. TurnInv' /\ BegunInv'
    BY <1>1, <2>1, Apart, KeepsTurns, KeepsReplacement DEF QueueInv
  <2> QED BY <1>2, <2>2, <2>3 DEF QueueInv
<1> QED BY <1>3, <1>4

LEMMA ReplaceQueue ==
  ASSUME StateInv, QueueInv, NEW r \in Requests, NEW i \in DOMAIN installation, Replace(r, i)
  PROVE  QueueInv'
<1>1. /\ r \in Replaces /\ request[r].phase = "idle"
      /\ UNCHANGED <<strict, replacement, installation, status, pending, mutations>>
  BY DEF Replace, registryVars
<1>2. LifeInv'
  BY <1>1 DEF QueueInv, LifeInv
<1>3. CASE Open
  <2>1. Enters(r, "waiting") /\ turns' = Append(turns, r)
    BY <1>3 DEF Replace, Enters, StateInv, Progress
  <2>2. TurnInv'
    BY <1>1, <2>1, Apart, JoinsTurns DEF QueueInv
  <2>3. MutationInv' /\ BegunInv'
    BY <1>1, <2>1, Apart, KeepsMutations, KeepsReplacement DEF QueueInv
  <2> QED BY <1>2, <2>2, <2>3 DEF QueueInv
<1>4. CASE ~Open
  <2>1. Enters(r, "error") /\ UNCHANGED turns
    BY <1>4, LeavingEnters DEF Replace
  <2>2. MutationInv' /\ BegunInv'
    BY <1>1, <2>1, Apart, KeepsMutations, KeepsReplacement DEF QueueInv
  <2>3. TurnInv'
    BY <1>1, <2>1, Apart, AdmissionAssumption DEF QueueInv, TurnInv, Enters
  <2> QED BY <1>2, <2>2, <2>3 DEF QueueInv
<1> QED BY <1>3, <1>4

(* The head of a queue. *)
LEMMA TakeTurnQueue ==
  ASSUME StateInv, QueueInv, NEW r \in Requests, TakeTurn(r)
  PROVE  QueueInv'
<1>1. /\ turns # <<>> /\ r = Head(turns) /\ request[r].phase = "waiting"
      /\ UNCHANGED <<strict, replacement, installation, status, pending>>
  BY DEF TakeTurn, registryVars
<1>2. LifeInv' /\ r \in Replaces
  BY <1>1 DEF QueueInv, LifeInv, TurnInv
<1>3. CASE Open /\ Replaceable(r)
  <2>1. Enters(r, "queued") /\ mutations' = Append(mutations, r) /\ UNCHANGED turns
    BY <1>3, GoingEnters DEF TakeTurn
  <2>2. MutationInv'
    BY <1>1, <2>1, Apart, JoinsMutations DEF QueueInv
  <2>3. TurnInv' /\ BegunInv'
    BY <1>1, <1>2, <2>1, Apart, KeepsTurns, KeepsReplacement DEF QueueInv, Queued
  <2> QED BY <1>2, <2>2, <2>3 DEF QueueInv
<1>4. CASE ~(Open /\ Replaceable(r))
  <2>1. Enters(r, "error") /\ EndTurn(r) /\ UNCHANGED mutations
    BY <1>4, LeavingEnters DEF TakeTurn, Fail
  <2>2. MutationInv' /\ BegunInv'
    BY <1>1, <2>1, Apart, KeepsMutations, KeepsReplacement DEF QueueInv
  <2>3. TurnInv'
    BY <1>1, <2>1, Apart, EndsTurn DEF QueueInv
  <2> QED BY <1>2, <2>2, <2>3 DEF QueueInv
<1> QED BY <1>3, <1>4

LEMMA PreflightQueue ==
  ASSUME StateInv, QueueInv, NEW r \in Requests, Preflight(r)
  PROVE  QueueInv'
<1>1. /\ mutations # <<>> /\ r = Head(mutations) /\ request[r].phase = "queued"
      /\ UNCHANGED <<strict, replacement, installation, status, pending>>
  BY DEF Preflight, registryVars
<1>2. LifeInv' /\ request[r].phase \in Queued
  BY <1>1 DEF QueueInv, LifeInv, Queued
<1>3. CASE Goto(r, "validating") /\ UNCHANGED queueVars
  <2>1. Enters(r, "validating") /\ UNCHANGED <<mutations, turns>> /\ "validating" \in Queued
    BY <1>3, GoingEnters DEF queueVars, Queued
  <2>2. MutationInv' /\ BegunInv'
    BY <1>1, <1>2, <2>1, Apart, KeepsMutations, KeepsReplacement DEF QueueInv
  <2>3. TurnInv'
    BY <1>1, <1>2, <2>1, Apart, KeepsTurns DEF QueueInv, TurnInv
  <2> QED BY <1>2, <2>2, <2>3 DEF QueueInv
<1>4. CASE Fail(r) /\ EndMutation
  BY <1>1, <1>2, <1>4, FailQueued DEF QueueInv
<1> QED BY <1>3, <1>4 DEF Preflight

LEMMA PayloadInvalidQueue ==
  ASSUME StateInv, QueueInv, NEW r \in Requests, PayloadInvalid(r)
  PROVE  QueueInv'
<1>1. /\ request[r].phase \in Queued /\ mutations # <<>> /\ r = Head(mutations)
      /\ Fail(r) /\ EndMutation
      /\ UNCHANGED <<strict, replacement, installation, status, pending>>
  BY DEF PayloadInvalid, registryVars, QueueInv, MutationInv, Queued
<1>2. LifeInv'
  BY <1>1 DEF QueueInv, LifeInv
<1> QED BY <1>1, <1>2, FailQueued DEF QueueInv

LEMMA ReserveQueue ==
  ASSUME StateInv, QueueInv, NEW r \in Requests, Reserve(r)
  PROVE  QueueInv'
<1>1. /\ r \notin Replaces /\ request[r].phase \in Queued
      /\ mutations # <<>> /\ r = Head(mutations)
      /\ EndMutation /\ UNCHANGED <<strict, replacement, status, pending>>
  BY DEF Reserve, QueueInv, MutationInv, Queued
<1>2. CASE Settle(r, Free) /\ UNCHANGED turns /\ \E admissions : Publish(admissions)
  <2>1. Enters(r, "settling")
    BY <1>2, SettlingEnters
  <2>2. LifeInv'
    BY <1>1, <1>2, PublishLives DEF QueueInv
  <2>3. MutationInv'
    BY <1>1, <2>1, Apart, EndsMutation DEF QueueInv
  <2>4. TurnInv' /\ BegunInv'
    BY <1>1, <1>2, <2>1, Apart, KeepsTurns, KeepsReplacement DEF QueueInv
  <2> QED BY <2>2, <2>3, <2>4 DEF QueueInv
<1>3. CASE Fail(r) /\ UNCHANGED installation
  <2>1. LifeInv'
    BY <1>1, <1>3 DEF QueueInv, LifeInv
  <2> QED BY <1>1, <1>3, <2>1, FailQueued DEF QueueInv
<1> QED BY <1>2, <1>3 DEF Reserve

LEMMA BeginReplacementQueue ==
  ASSUME StateInv, QueueInv, NEW r \in Requests, BeginReplacement(r)
  PROVE  QueueInv'
<1>1. /\ r \in Replaces /\ request[r].phase \in Queued
      /\ mutations # <<>> /\ r = Head(mutations)
      /\ EndMutation /\ UNCHANGED <<strict, installation, status, pending>>
  BY DEF BeginReplacement, YieldsMutation, QueueInv, MutationInv, Queued
<1>2. LifeInv'
  BY <1>1 DEF QueueInv, LifeInv
<1>3. turns # <<>> /\ r = Head(turns)
  BY <1>1, Apart DEF QueueInv, TurnInv
<1>4. CASE Fail(r) /\ UNCHANGED replacement
  BY <1>1, <1>2, <1>4, FailQueued DEF QueueInv
<1>5. CASE ~(Fail(r) /\ UNCHANGED replacement)
  <2>1. /\ replacement = NoReplacement /\ replacement'.by = r /\ replacement'.locked \subseteq Key
        /\ UNCHANGED turns
        /\ \E admitted : request' = [request EXCEPT ![r].phase = "begun", ![r].admitted = admitted]
    BY <1>5 DEF BeginReplacement
  <2>2. Enters(r, "begun") /\ "begun" \in Replacement
    BY <2>1 DEF Enters, StateInv, Progress, Replacement
  <2>3. MutationInv'
    BY <1>1, <2>2, Apart, EndsMutation DEF QueueInv
  <2>4. TurnInv'
    BY <1>1, <1>3, <2>1, <2>2, Apart, KeepsTurns DEF QueueInv
  <2>5. BegunInv'
    BY <1>1, <2>1, <2>2, AdmissionAssumption DEF QueueInv, BegunInv, Enters, NoReplacement
  <2> QED BY <1>2, <2>3, <2>4, <2>5 DEF QueueInv
<1> QED BY <1>4, <1>5

(* What a replacement does once it has begun. *)
LEMMA BegunQueue ==
  ASSUME StateInv, QueueInv, NEW r \in Requests, request[r].phase \in Replacement, UNCHANGED mutations,
         \/ Goto(r, "retiring") /\ UNCHANGED <<replacement, turns>>
         \/ Settle(r, request[r].of) /\ replacement' = NoReplacement /\ UNCHANGED turns
         \/ (Leave(r, "done") \/ Leave(r, "error")) /\ EndTurn(r) /\ replacement' = NoReplacement
  PROVE  MutationInv' /\ TurnInv' /\ BegunInv'
<1>1. r \in Replaces /\ turns # <<>> /\ r = Head(turns) /\ request[r].phase \in Served
  BY Apart DEF QueueInv, TurnInv
<1>2. "retiring" \in Replacement /\ "settling" \in Served
  BY DEF Replacement, Served
<1>3. CASE Goto(r, "retiring") /\ UNCHANGED <<replacement, turns>>
  <2>1. Enters(r, "retiring")
    BY <1>3, GoingEnters
  <2>2. MutationInv' /\ BegunInv'
    BY <1>2, <1>3, <2>1, Apart, KeepsMutations, KeepsReplacement DEF QueueInv
  <2>3. TurnInv'
    BY <1>1, <1>2, <1>3, <2>1, Apart, KeepsTurns DEF QueueInv
  <2> QED BY <2>2, <2>3
<1>4. CASE Settle(r, request[r].of) /\ replacement' = NoReplacement /\ UNCHANGED turns
  <2>1. Enters(r, "settling")
    BY <1>4, SettlingEnters
  <2>2. MutationInv' /\ BegunInv'
    BY <1>4, <2>1, Apart, KeepsMutations, ResetsReplacement DEF QueueInv
  <2>3. TurnInv'
    BY <1>1, <1>2, <1>4, <2>1, KeepsTurns DEF QueueInv
  <2> QED BY <2>2, <2>3
<1>5. ASSUME NEW phase \in {"done", "error"}, Leave(r, phase), EndTurn(r), replacement' = NoReplacement
      PROVE  MutationInv' /\ TurnInv' /\ BegunInv'
  <2>1. Enters(r, phase)
    BY <1>5, LeavingEnters
  <2>2. MutationInv' /\ BegunInv'
    BY <1>5, <2>1, Apart, KeepsMutations, ResetsReplacement DEF QueueInv
  <2>3. TurnInv'
    BY <1>1, <1>5, <2>1, Apart, EndsTurn DEF QueueInv
  <2> QED BY <2>2, <2>3
<1> QED BY <1>3, <1>4, <1>5

LEMMA SettledQueue ==
  ASSUME StateInv, QueueInv, NEW r \in Requests, Settled(r)
  PROVE  QueueInv'
<1>1. /\ request[r].phase = "settling" /\ EndTurn(r)
      /\ UNCHANGED <<strict, replacement, installation, status, pending, mutations>>
  BY DEF Settled, registryVars
<1>2. Enters(r, "done")
  BY GoingEnters DEF Settled
<1>3. r \in Replaces => turns # <<>> /\ r = Head(turns)
  BY <1>1 DEF QueueInv, TurnInv, Served
<1>4. MutationInv' /\ BegunInv'
  BY <1>1, <1>2, Apart, KeepsMutations, KeepsReplacement DEF QueueInv
<1>5. TurnInv'
  BY <1>1, <1>2, <1>3, Apart, EndsTurn DEF QueueInv
<1>6. LifeInv'
  BY <1>1 DEF QueueInv, LifeInv
<1> QED BY <1>4, <1>5, <1>6 DEF QueueInv

(* Disposal of installations and of the provider queues nothing. *)
LEMMA NoRequest ==
  ASSUME QueueInv, UNCHANGED <<request, mutations, turns, replacement>>
  PROVE  MutationInv' /\ TurnInv' /\ BegunInv'
BY DEF QueueInv, MutationInv, TurnInv, BegunInv

LEMMA QueueSteps == OwnershipInv /\ QueueInv /\ [Next]_vars => QueueInv'
<1> SUFFICES ASSUME StateInv, QueueInv, [Next]_vars PROVE QueueInv'
  BY DEF OwnershipInv
<1> USE DEF registryVars, queueVars
<1>1. ASSUME NEW r \in Replaces, r \in Requests, Retire(r) \/ Commit(r) \/ Abort(r) PROVE QueueInv'
  <2>1. MutationInv' /\ TurnInv' /\ BegunInv'
    BY <1>1, BegunQueue DEF Retire, Commit, Abort, Fail, Replacement
  <2>2. LifeInv'
    <3>1. CASE UNCHANGED <<strict, installation, status, pending>>
      BY <3>1 DEF QueueInv, LifeInv
    <3>2. CASE Retire(r)
      BY <3>1, <3>2, DisposingLives DEF Retire, QueueInv
    <3>3. CASE Commit(r)
      BY <3>3, PublishLives DEF Commit, QueueInv
    <3> QED BY <1>1, <3>1, <3>2, <3>3 DEF Abort
  <2> QED BY <2>1, <2>2 DEF QueueInv
<1>2. ASSUME NEW i \in DOMAIN installation, DisposeInstallation(i) PROVE QueueInv'
  BY <1>2, NoRequest, DisposingLives DEF DisposeInstallation, QueueInv
<1>3. ASSUME NEW i \in DOMAIN installation, InstallationStops(i) PROVE QueueInv'
  <2>1. LifeInv'
    BY <1>3, LivesOn DEF InstallationStops, QueueInv, LifeInv
  <2> QED BY <1>3, <2>1, NoRequest DEF InstallationStops, QueueInv
<1>4. ASSUME DisposeProvider PROVE QueueInv'
  <2>1. LifeInv'
    BY <1>4 DEF DisposeProvider, Disposing, Unreleased, QueueInv, LifeInv
  <2> QED BY <1>4, <2>1, NoRequest DEF DisposeProvider, QueueInv
<1>5. ASSUME CompleteDisposal PROVE QueueInv'
  <2>1. LifeInv'
    BY <1>5 DEF CompleteDisposal, QueueInv, LifeInv
  <2> QED BY <1>5, <2>1, NoRequest DEF CompleteDisposal, QueueInv
<1>6. CASE UNCHANGED vars
  BY <1>6, NoRequest DEF vars, QueueInv, LifeInv
<1> QED
  BY <1>1, <1>2, <1>3, <1>4, <1>5, <1>6, StartQueue, ReplaceQueue, TakeTurnQueue, PreflightQueue,
     PayloadInvalidQueue, ReserveQueue, BeginReplacementQueue, SettledQueue, AdmissionAssumption
  DEF Next, User, Turn, Setups, Retirement

(* Every variable keeps its type, and the two queues and the registry's    *)
(* pending replacement say what the requests are doing: who is queued is   *)
(* queued once, and who has begun to replace is the one the registry knows *)
(* of (provider-controller.ts, mutate and performReplacement).             *)
THEOREM AdmissionTypeCorrect == Spec => []TypeOK
<1>1. Init => QueueInv
  <2> SUFFICES ASSUME Init PROVE QueueInv
    OBVIOUS
  <2>1. \A r \in Requests : request[r].phase = "idle"
    BY DEF Init, Idle
  <2>2. mutations = <<>> /\ turns = <<>> /\ Range(<<>>) = {} /\ IsInjective(<<>>)
    BY DEF Init, Range, IsInjective
  <2>3. MutationInv /\ TurnInv
    BY <2>1, <2>2, Apart, AdmissionAssumption DEF MutationInv, TurnInv
  <2>4. BegunInv /\ LifeInv
    BY <2>1, Apart, AdmissionAssumption DEF Init, BegunInv, LifeInv, NoReplacement
  <2> QED BY <2>3, <2>4 DEF QueueInv
<1>2. OwnershipInv /\ QueueInv => TypeOK
  <2> SUFFICES ASSUME OwnershipInv, QueueInv PROVE TypeOK
    OBVIOUS
  <2>1. \A r \in Requests :
          request[r].phase \in {"idle", "waiting", "queued", "validating", "begun", "retiring",
                                "settling", "done", "error"}
    BY DEF OwnershipInv, StateInv, Progress, Through, Replacement
  <2>2. \A r \in Requests :
          /\ request[r].phase \in {"queued", "validating"} <=> r \in Range(mutations)
          /\ request[r].phase \in {"begun", "retiring"} <=> r = replacement.by
    BY DEF QueueInv, MutationInv, BegunInv, Queued, Replacement
  <2> QED BY <2>1, <2>2
      DEF TypeOK, OwnershipInv, StateInv, QueueInv, MutationInv, TurnInv, BegunInv, LifeInv
<1> QED BY <1>1, <1>2, Initially, Steps, QueueSteps, PTL DEF Spec

-------------------------------------------------------------------------------
(* Admission implements Registry, replacement by replacement: what has     *)
(* been replaced is released, and what is being replaced, or is about to   *)
(* be, has not been replaced before.                                       *)
Asking == {"waiting"} \cup Queued \cup Replacement
SuccessionInv ==
  \A r \in Replaces :
    /\ request[r].phase \in Asking => request[r].of \in DOMAIN installation
    /\ Replaced(r) => request[r].of \in DOMAIN installation /\ installation[request[r].of] = "released"
    /\ request[r].phase \in Replacement =>
         \A q \in Replaces : Replaced(q) => request[q].of # request[r].of

(* A request that replaces nothing anew: what it was to replace is still   *)
(* there, and begins to be replaced only while it is not released.         *)
Quiet(r) ==
  /\ Replaced(r)' <=> Replaced(r)
  /\ Replaced(r) => request'[r].of = request[r].of
  /\ request'[r].phase \in Asking => request'[r].of \in DOMAIN installation
  /\ request'[r].phase \in Replacement =>
       \/ installation[request'[r].of] # "released"
       \/ request[r].phase \in Replacement /\ request'[r].of = request[r].of

(* What is published stays so, released or not. *)
SameInstallations ==
  /\ DOMAIN installation' = DOMAIN installation
  /\ \A i \in DOMAIN installation : installation'[i] = "released" <=> installation[i] = "released"

LEMMA QuietKeepsSuccession ==
  ASSUME SuccessionInv, \A r \in Replaces : Quiet(r),
         DOMAIN installation' = DOMAIN installation,
         \A i \in DOMAIN installation : installation[i] = "released" => installation'[i] = "released"
  PROVE  SuccessionInv' /\ Succession' = Succession
<1>1. \A r \in Replaces : request'[r].phase \in Asking => request'[r].of \in DOMAIN installation'
  BY DEF Quiet
<1>2. \A r \in Replaces : Replaced(r)' =>
        request'[r].of \in DOMAIN installation' /\ installation'[request'[r].of] = "released"
  BY DEF Quiet, SuccessionInv
<1>3. ASSUME NEW r \in Replaces, request'[r].phase \in Replacement, NEW q \in Replaces, Replaced(q)'
      PROVE  request'[q].of # request'[r].of
  <2>1. /\ Replaced(q) /\ request'[q].of = request[q].of
        /\ request[q].of \in DOMAIN installation /\ installation[request[q].of] = "released"
    BY <1>3 DEF Quiet, SuccessionInv
  <2>2. CASE installation[request'[r].of] # "released"
    BY <2>1, <2>2
  <2>3. CASE request[r].phase \in Replacement /\ request'[r].of = request[r].of
    BY <2>1, <2>3 DEF SuccessionInv
  <2> QED BY <1>3, <2>2, <2>3 DEF Quiet
<1>4. SuccessionInv'
  BY <1>1, <1>2, <1>3 DEF SuccessionInv
<1>5. \A r \in Replaces : PublishedBy(r)' = PublishedBy(r)
  BY DEF PublishedBy
<1>6. Succession' = Succession
  BY <1>5 DEF Succession, Quiet
<1> QED BY <1>4, <1>6

LEMMA OthersQuiet ==
  ASSUME SuccessionInv, NEW r \in Replaces, request'[r] = request[r]
  PROVE  Quiet(r)
BY DEF SuccessionInv, Quiet, Replaced

LEMMA GoesQuiet ==
  ASSUME StateInv, SuccessionInv, NEW r \in Requests, NEW phase, Goto(r, phase),
         request[r].phase \in Through <=> phase \in Through,
         phase \in Asking => request[r].phase \in Asking,
         phase \in Replacement => request[r].phase \in Replacement
  PROVE  \A q \in Replaces : Quiet(q)
<1> SUFFICES ASSUME NEW q \in Replaces PROVE Quiet(q)
  OBVIOUS
<1>1. CASE q # r
  <2>1. request'[q] = request[q]
    BY <1>1, AdmissionAssumption DEF StateInv, Goto
  <2> QED BY <2>1, OthersQuiet
<1>2. CASE q = r
  <2>1. request'[q].phase = phase /\ request'[q].of = request[q].of
    BY <1>2 DEF StateInv, Progress, Goto
  <2> QED BY <1>2, <2>1 DEF Quiet, SuccessionInv, Replaced, Through
<1> QED BY <1>1, <1>2

LEMMA LeavesQuiet ==
  ASSUME StateInv, SuccessionInv, NEW r \in Requests, NEW phase \in {"done", "error"}, Leave(r, phase),
         request[r].phase \notin Through
  PROVE  \A q \in Replaces : Quiet(q)
<1> SUFFICES ASSUME NEW q \in Replaces PROVE Quiet(q)
  OBVIOUS
<1>1. CASE q # r
  <2>1. request'[q] = request[q]
    BY <1>1, AdmissionAssumption DEF StateInv, Leave
  <2> QED BY <2>1, OthersQuiet
<1>2. CASE q = r
  <2>1. request'[q].phase = phase /\ request'[q].of = Free
    BY <1>2 DEF StateInv, Leave, Idle
  <2>2. phase \notin Asking /\ phase \notin Replacement
    BY DEF Asking, Queued, Replacement
  <2> QED BY <1>2, <2>1, <2>2 DEF Quiet, Replaced, Through
<1> QED BY <1>1, <1>2

-------------------------------------------------------------------------------
(* Registry does not move, or takes a step of its own. *)
RegistryUnmoved ==
  UNCHANGED <<owners, Unreleased, DOMAIN installation \ Unreleased, Succession, Open>>
RegistryMoves == Promised!Next \/ RegistryUnmoved
Maps == SuccessionInv' /\ RegistryMoves

LEMMA QuietMaps ==
  ASSUME SuccessionInv, \A r \in Replaces : Quiet(r), SameInstallations,
         owners' = owners, Open' <=> Open
  PROVE  Maps
<1>1. SuccessionInv' /\ Succession' = Succession
  BY QuietKeepsSuccession DEF SameInstallations
<1>2. Unreleased' = Unreleased
  BY DEF Unreleased, SameInstallations
<1> QED BY <1>1, <1>2 DEF Maps, RegistryMoves, RegistryUnmoved, SameInstallations

LEMMA GoesMaps ==
  ASSUME StateInv, SuccessionInv, NEW r \in Requests, NEW phase, Goto(r, phase),
         request[r].phase \in Through <=> phase \in Through,
         phase \in Asking => request[r].phase \in Asking,
         phase \in Replacement => request[r].phase \in Replacement,
         UNCHANGED <<owners, installation, status>>
  PROVE  Maps
<1>1. \A q \in Replaces : Quiet(q)
  BY GoesQuiet
<1> QED BY <1>1, QuietMaps DEF SameInstallations, Open

LEMMA LeavesMaps ==
  ASSUME StateInv, SuccessionInv, NEW r \in Requests, NEW phase \in {"done", "error"}, Leave(r, phase),
         request[r].phase \notin Through,
         UNCHANGED <<owners, installation, status>>
  PROVE  Maps
<1>1. \A q \in Replaces : Quiet(q)
  BY LeavesQuiet
<1> QED BY <1>1, QuietMaps DEF SameInstallations, Open

(* A call that is not a replace call is none of succession's business. *)
LEMMA StartingQuiet ==
  ASSUME StateInv, SuccessionInv, NEW r \in Requests \ Replaces, NEW p, request' = [request EXCEPT ![r] = p]
  PROVE  \A q \in Replaces : Quiet(q)
<1> SUFFICES ASSUME NEW q \in Replaces PROVE Quiet(q)
  OBVIOUS
<1>1. request'[q] = request[q]
  BY AdmissionAssumption DEF StateInv
<1> QED BY <1>1, OthersQuiet

-------------------------------------------------------------------------------
(* A batch that is published is what Registry admits. *)
LEMMA NewlyPublished ==
  ASSUME StateInv, NEW r \in Requests, request[r].phase \notin Through,
         NEW admissions, Publish(admissions), Gives(r, admissions)
  PROVE  /\ DOMAIN installation' = DOMAIN installation \cup Admitted(admissions)
         /\ \A i \in DOMAIN installation : installation'[i] = installation[i]
         /\ Unreleased' = Unreleased \cup Admitted(admissions)
         /\ Unreleased' \ Unreleased = Admitted(admissions)
         /\ Admitted(admissions) \cap DOMAIN installation = {}
         /\ DOMAIN installation' \ Unreleased' = DOMAIN installation \ Unreleased
         /\ PublishedBy(r)' = Admitted(admissions)
         /\ \A q \in Requests \ {r} : PublishedBy(q)' = PublishedBy(q)
<1>1. \A i \in DOMAIN installation : i.request # r
  BY DEF StateInv
<1>2. \A i \in Admitted(admissions) : i.request = r
  BY RealOf DEF Gives
<1>3. Admitted(admissions) \cap DOMAIN installation = {}
  BY <1>1, <1>2
<1>4. /\ DOMAIN installation' = DOMAIN installation \cup Admitted(admissions)
      /\ \A i \in DOMAIN installation : installation'[i] = installation[i]
      /\ \A i \in Admitted(admissions) : installation'[i] = "live"
  BY <1>3 DEF Publish
<1>5. Unreleased' = Unreleased \cup Admitted(admissions)
  BY <1>3, <1>4 DEF Unreleased
<1>6. Unreleased \subseteq DOMAIN installation
  BY DEF Unreleased
<1>7. PublishedBy(r)' = Admitted(admissions) /\ \A q \in Requests \ {r} : PublishedBy(q)' = PublishedBy(q)
  BY <1>1, <1>2, <1>4 DEF PublishedBy
<1> QED BY <1>3, <1>4, <1>5, <1>6, <1>7

LEMMA PublishedIsAdmitted ==
  ASSUME StateInv, NEW r \in Requests, request[r].phase \notin Through, Open, UNCHANGED status,
         NEW admissions, Publish(admissions), Gives(r, admissions)
  PROVE  Promised!Admit
<1>1. /\ Unreleased' = Unreleased \cup Admitted(admissions)
      /\ Unreleased' \ Unreleased = Admitted(admissions)
      /\ Admitted(admissions) \cap DOMAIN installation = {}
      /\ DOMAIN installation' \ Unreleased' = DOMAIN installation \ Unreleased
  BY NewlyPublished
<1>2. /\ \A i \in Admitted(admissions) : \A k \in KeysOf(i) : owners[k] = Free /\ owners'[k] = i
      /\ \A k \in Key : owners'[k] # owners[k] => \E i \in Admitted(admissions) : k \in KeysOf(i)
      /\ DOMAIN owners' = Key
  BY DEF Gives
<1>3. Open' = Open
  BY DEF Open
<1> QED BY <1>1, <1>2, <1>3 DEF Promised!Admit

LEMMA ReserveMaps ==
  ASSUME OwnershipInv, SuccessionInv, NEW r \in Requests, Reserve(r)
  PROVE  Maps
<1> DEFINE batch == Prepare(r, {})
<1>1. /\ r \notin Replaces /\ UNCHANGED status
      /\ request[r].phase = "validating" /\ request[r].phase \notin Through
  BY DEF Reserve, Through
<1>2. CASE StillOpen /\ Accepted(batch)
  <2>1. /\ owners' = Without(batch.owners, {Lock}) /\ Publish(batch.admitted)
        /\ Settle(r, Free) /\ Open /\ batch.ok
    BY <1>2 DEF Reserve, StillOpen, Accepted
  <2>2. Gives(r, batch.admitted)
    BY <2>1, ReserveGives
  <2> HIDE DEF batch
  <2>3. /\ DOMAIN installation \subseteq DOMAIN installation'
        /\ \A i \in DOMAIN installation : installation'[i] = installation[i]
        /\ \A q \in Replaces : PublishedBy(q)' = PublishedBy(q)
    BY <1>1, <2>1, <2>2, NewlyPublished, AdmissionAssumption DEF OwnershipInv
  <2>4. \A q \in Replaces : request'[q] = request[q]
    BY <1>1, <2>1, AdmissionAssumption DEF Settle, OwnershipInv, StateInv
  <2>5. SuccessionInv'
    BY <2>3, <2>4 DEF SuccessionInv, Replaced
  <2>6. Succession' = Succession
    BY <2>3, <2>4 DEF Succession, Replaced
  <2>7. Promised!Admit
    BY <1>1, <2>1, <2>2, PublishedIsAdmitted DEF OwnershipInv
  <2> QED BY <2>5, <2>6, <2>7 DEF Maps, RegistryMoves, Promised!Next, Promised!Start
<1>3. CASE ~(StillOpen /\ Accepted(batch))
  BY <1>1, <1>3, LeavesMaps DEF Reserve, Fail, OwnershipInv
<1> QED BY <1>2, <1>3

LEMMA CommitMaps ==
  ASSUME OwnershipInv, SuccessionInv, NEW r \in Replaces, Commit(r)
  PROVE  Maps
<1> DEFINE of == request[r].of
           admitted == request[r].admitted
<1>1. /\ r \in Requests /\ request[r].phase \in Replacement /\ request[r].phase \notin Through
      /\ request[r].phase \in Asking
      /\ installation[of] = "released" /\ Open
      /\ Publish(admitted) /\ Settle(r, of) /\ UNCHANGED status
  BY AdmissionAssumption DEF Commit, Retired, Replacement, Through, Asking
<1>2. Gives(r, admitted)
  BY <1>1, CommitGives
<1>3. of \in DOMAIN installation /\ of # Free
  BY <1>1, Real DEF SuccessionInv, OwnershipInv, StateInv
<1>4. \A q \in Replaces : Replaced(q) => request[q].of # of
  BY <1>1 DEF SuccessionInv
<1> HIDE DEF of, admitted
<1>5. /\ DOMAIN installation \subseteq DOMAIN installation'
      /\ \A i \in DOMAIN installation : installation'[i] = installation[i]
      /\ PublishedBy(r)' = Unreleased' \ Unreleased
      /\ \A q \in Replaces \ {r} : PublishedBy(q)' = PublishedBy(q)
  BY <1>1, <1>2, NewlyPublished, AdmissionAssumption DEF OwnershipInv
<1>6. /\ request'[r].phase = "settling" /\ request'[r].of = of
      /\ \A q \in Replaces \ {r} : request'[q] = request[q]
  BY <1>1, AdmissionAssumption DEF Settle, OwnershipInv, StateInv
<1>7. /\ Replaced(r)' /\ ~Replaced(r)
      /\ \A q \in Replaces \ {r} : Replaced(q)' <=> Replaced(q)
  BY <1>1, <1>3, <1>6 DEF Replaced, Through
<1>8. "settling" \notin Asking /\ \A q \in Replaces \ {r} : request[q].phase \notin Replacement
  <2>1. replacement.by = r /\ \A q \in Requests : request[q].phase \in Replacement => replacement.by = q
    BY <1>1 DEF OwnershipInv, ReplacementInv
  <2> QED BY <2>1, AdmissionAssumption DEF Asking, Queued, Replacement
<1>9. SuccessionInv'
  <2>1. \A q \in Replaces : request'[q].phase \notin Replacement
    BY <1>6, <1>8 DEF Asking
  <2>2. \A q \in Replaces : request'[q].phase \in Asking => request'[q].of \in DOMAIN installation'
    BY <1>5, <1>6, <1>8 DEF SuccessionInv
  <2>3. \A q \in Replaces : Replaced(q)' =>
          request'[q].of \in DOMAIN installation' /\ installation'[request'[q].of] = "released"
    BY <1>1, <1>3, <1>5, <1>6, <1>7 DEF SuccessionInv, of
  <2> QED BY <2>1, <2>2, <2>3 DEF SuccessionInv
<1>10. Succession' = Succession \cup {<<of, Unreleased' \ Unreleased>>}
  BY <1>5, <1>6, <1>7 DEF Succession
<1>11. of \in DOMAIN installation \ Unreleased /\ \A pair \in Succession : pair[1] # of
  BY <1>1, <1>3, <1>4 DEF Unreleased, Succession, of
<1>12. Promised!Admit
  BY <1>1, <1>2, PublishedIsAdmitted DEF OwnershipInv
<1>13. Promised!Replace(of)
  BY <1>10, <1>11, <1>12 DEF Promised!Replace
<1> QED BY <1>9, <1>11, <1>13 DEF Maps, RegistryMoves, Promised!Next

(* The other steps that Registry has. *)
LEMMA InstallationStopsMaps ==
  ASSUME SuccessionInv, NEW i \in DOMAIN installation, InstallationStops(i)
  PROVE  Maps
<1>1. installation[i] = "disposing" /\ UNCHANGED <<status, request>>
  BY DEF InstallationStops
<1>2. \A r \in Replaces : Quiet(r)
  BY <1>1, OthersQuiet
<1>3. CASE installation' = [installation EXCEPT ![i] = "released"] /\ owners' = Without(owners, {i})
  <2>1. SuccessionInv' /\ Succession' = Succession
    BY <1>2, <1>3, QuietKeepsSuccession
  <2>2. /\ Unreleased' = Unreleased \ {i} /\ i \in Unreleased
        /\ DOMAIN installation' \ Unreleased' = (DOMAIN installation \ Unreleased) \cup {i}
    BY <1>1, <1>3 DEF Unreleased
  <2>3. owners' = [k \in Key |-> IF owners[k] = i THEN Free ELSE owners[k]]
    BY <1>3 DEF Without
  <2>4. Open' = Open
    BY <1>1 DEF Open
  <2>5. Promised!Release(i)
    BY <2>1, <2>2, <2>3, <2>4 DEF Promised!Release
  <2> QED BY <2>1, <2>2, <2>5 DEF Maps, RegistryMoves, Promised!Next
<1>4. CASE installation' = [installation EXCEPT ![i] = "blocked"] /\ UNCHANGED owners
  BY <1>1, <1>2, <1>4, QuietMaps DEF SameInstallations, Open
<1> QED BY <1>3, <1>4 DEF InstallationStops

LEMMA DisposeProviderMaps ==
  ASSUME SuccessionInv, DisposeProvider
  PROVE  Maps
<1>1. SameInstallations
  BY DEF DisposeProvider, Disposing, SameInstallations
<1>2. \A r \in Replaces : Quiet(r)
  BY OthersQuiet DEF DisposeProvider
<1>3. SuccessionInv' /\ Succession' = Succession
  BY <1>1, <1>2, QuietKeepsSuccession DEF SameInstallations
<1>4. Unreleased' = Unreleased
  BY <1>1 DEF SameInstallations, Unreleased
<1>5. Promised!Close
  BY <1>1, <1>3, <1>4 DEF Promised!Close, DisposeProvider, registryVars, Open, SameInstallations
<1> QED BY <1>3, <1>5 DEF Maps, RegistryMoves, Promised!Next

(* And those it does not see. *)
LEMMA ReplaceMaps ==
  ASSUME StateInv, SuccessionInv, NEW r \in Requests, NEW i \in DOMAIN installation, Replace(r, i)
  PROVE  Maps
<1>1. /\ request[r].phase = "idle" /\ request[r].phase \notin Through
      /\ UNCHANGED <<owners, installation, status>>
  BY DEF Replace, Through, registryVars
<1>2. CASE Open
  <2>1. /\ request'[r].phase = "waiting" /\ request'[r].of = i
        /\ \A q \in Requests \ {r} : request'[q] = request[q]
    BY <1>2 DEF Replace, StateInv, Progress
  <2>2. \A q \in Replaces \ {r} : Quiet(q)
    BY <2>1, OthersQuiet, AdmissionAssumption
  <2>3. Quiet(r)
    BY <1>1, <2>1 DEF Quiet, Replaced, Replacement
  <2> QED BY <1>1, <2>2, <2>3, QuietMaps DEF SameInstallations, Open
<1>3. CASE ~Open
  BY <1>1, <1>3, LeavesMaps DEF Replace
<1> QED BY <1>2, <1>3

LEMMA BeginReplacementMaps ==
  ASSUME StateInv, SuccessionInv, NEW r \in Requests, BeginReplacement(r)
  PROVE  Maps
<1>1. /\ r \in Replaces /\ request[r].phase = "validating"
      /\ request[r].phase \notin Through /\ request[r].phase \in Asking
      /\ UNCHANGED <<owners, installation, status>>
  BY DEF BeginReplacement, Through, Asking, Queued
<1>2. CASE Fail(r)
  BY <1>1, <1>2, LeavesMaps DEF Fail
<1>3. CASE ~Fail(r)
  <2>1. /\ installation[request[r].of] = "live"
        /\ \E admitted : request' = [request EXCEPT ![r].phase = "begun", ![r].admitted = admitted]
    BY <1>3 DEF BeginReplacement, Replaceable
  <2>2. /\ request'[r].phase = "begun" /\ request'[r].of = request[r].of
        /\ \A q \in Requests \ {r} : request'[q] = request[q]
    BY <2>1 DEF StateInv, Progress
  <2>3. \A q \in Replaces \ {r} : Quiet(q)
    BY <2>2, OthersQuiet, AdmissionAssumption
  <2>4. Quiet(r)
    BY <1>1, <2>1, <2>2 DEF Quiet, Replaced, SuccessionInv
  <2> QED BY <1>1, <2>3, <2>4, QuietMaps DEF SameInstallations, Open
<1> QED BY <1>2, <1>3

LEMMA RetireMaps ==
  ASSUME StateInv, SuccessionInv, NEW r \in Requests, Retire(r)
  PROVE  Maps
<1>1. /\ request[r].phase = "begun" /\ request[r].phase \notin Through
      /\ request[r].phase \in Replacement /\ request[r].phase \in Asking
      /\ UNCHANGED <<owners, status>>
  BY DEF Retire, Through, Asking, Replacement
<1>2. CASE Leave(r, "done") /\ UNCHANGED installation
  BY <1>1, <1>2, LeavesMaps
<1>3. CASE Goto(r, "retiring") /\ installation' = Disposing({request[r].of})
  <2>1. "retiring" \notin Through
    BY DEF Through
  <2>2. \A q \in Replaces : Quiet(q)
    BY <1>1, <1>3, <2>1, GoesQuiet
  <2>3. SameInstallations
    BY <1>3 DEF Disposing, SameInstallations
  <2> QED BY <1>1, <2>2, <2>3, QuietMaps DEF Open
<1> QED BY <1>2, <1>3 DEF Retire

LEMMA RequestsMap ==
  ASSUME StateInv, SuccessionInv, NEW r \in Requests,
         \/ Start(r) \/ TakeTurn(r) \/ Preflight(r) \/ PayloadInvalid(r) \/ Abort(r) \/ Settled(r)
  PROVE  Maps
<1> DEFINE phase == request[r].phase
<1>1. UNCHANGED <<owners, installation, status>>
  BY DEF Start, TakeTurn, Preflight, PayloadInvalid, Abort, Settled, registryVars
<1>2. {"waiting", "queued", "validating"} \subseteq Asking
  BY DEF Asking, Queued
<1>3. /\ {"idle", "waiting", "queued", "validating", "retiring", "error"} \cap Through = {}
      /\ {"queued", "validating", "error", "done"} \cap Replacement = {}
      /\ {"error", "done"} \cap Asking = {} /\ {"settling", "done"} \subseteq Through
  BY DEF Asking, Queued, Replacement, Through
<1>4. CASE Leave(r, "error") /\ phase \in {"waiting", "queued", "validating", "retiring"}
  BY <1>1, <1>3, <1>4, LeavesMaps
<1>5. CASE phase \in {"waiting", "queued"} /\ (Goto(r, "queued") \/ Goto(r, "validating"))
  BY <1>1, <1>2, <1>3, <1>5, GoesMaps
<1>6. CASE phase = "settling" /\ Goto(r, "done")
  BY <1>1, <1>3, <1>6, GoesMaps
<1>7. CASE Start(r)
  <2>1. /\ r \in Requests \ Replaces
        /\ \E p : request' = [request EXCEPT ![r] = p]
    <3>1. Goto(r, "queued") \/ Goto(r, "error")
      BY <1>7 DEF Start
    <3>2. \A next : Goto(r, next) => request' = [request EXCEPT ![r] = [request[r] EXCEPT !.phase = next]]
      BY DEF Goto, StateInv
    <3> QED BY <1>7, <3>1, <3>2 DEF Start
  <2> QED BY <1>1, <2>1, StartingQuiet, QuietMaps DEF SameInstallations, Open
<1> QED BY <1>4, <1>5, <1>6, <1>7 DEF TakeTurn, Preflight, PayloadInvalid, Abort, Settled, Fail

LEMMA UnseenMap ==
  ASSUME SuccessionInv, UNCHANGED <<owners, request>>, Open' <=> Open, SameInstallations
  PROVE  Maps
<1>1. \A r \in Replaces : Quiet(r)
  BY OthersQuiet
<1> QED BY <1>1, QuietMaps

LEMMA StepsMap == OwnershipInv /\ SuccessionInv /\ [Next]_vars => Maps
<1> SUFFICES ASSUME OwnershipInv, SuccessionInv, [Next]_vars PROVE Maps
  OBVIOUS
<1>0. StateInv
  BY DEF OwnershipInv
<1>1. ASSUME NEW i \in DOMAIN installation, DisposeInstallation(i) PROVE Maps
  BY <1>1, UnseenMap DEF DisposeInstallation, Disposing, SameInstallations, Open, registryVars
<1>2. ASSUME CompleteDisposal PROVE Maps
  BY <1>2, UnseenMap DEF CompleteDisposal, SameInstallations, Open, registryVars
<1>3. CASE UNCHANGED vars
  BY <1>3, UnseenMap DEF vars, registryVars, SameInstallations, Open
<1> QED
  BY <1>0, <1>1, <1>2, <1>3, RequestsMap, ReplaceMaps, ReserveMaps, BeginReplacementMaps, RetireMaps,
     CommitMaps, InstallationStopsMaps, DisposeProviderMaps, AdmissionAssumption
  DEF Next, User, Turn, Setups, Retirement

(* Whatever the queues, validators and cleanups do, the keys are given and *)
(* taken as Registry says: a batch at once, an installation's at once, and *)
(* one that has been replaced is never replaced again, because whoever has *)
(* the turn looks at the handle after the wait (provider-controller.ts,    *)
(* replacementOwner in performReplacement and in its mutation).            *)
THEOREM AdmissionImplements == Spec => ImplementsRegistry
<1>1. Init => SuccessionInv /\ Promised!Init
  <2> SUFFICES ASSUME Init PROVE SuccessionInv /\ Promised!Init
    OBVIOUS
  <2>1. \A r \in Replaces : request[r].phase = "idle"
    BY AdmissionAssumption DEF Init, Idle
  <2>2. SuccessionInv
    BY <2>1 DEF SuccessionInv, Replaced, Asking, Queued, Replacement
  <2>3. Unreleased = {} /\ DOMAIN installation = {} /\ Succession = {}
    BY <2>1 DEF Init, Unreleased, Succession, Replaced
  <2> QED BY <2>2, <2>3 DEF Init, Promised!Init, Unowned, Open
<1>2. OwnershipInv /\ SuccessionInv /\ [Next]_vars => SuccessionInv' /\ [Promised!Next]_(Promised!vars)
  BY StepsMap DEF Maps, RegistryMoves, RegistryUnmoved, Promised!vars
<1> QED BY <1>1, <1>2, Initially, Steps, PTL DEF Spec, ImplementsRegistry, Promised!Spec
================================================================================
