------------------------------- MODULE PageProofs -------------------------------
(***************************************************************************)
(* Theorems about the pages of two examples, whose views are mounted one   *)
(* after the other: the extension's page, for any set of entries, servers  *)
(* and any number of mounts, and the page of the JSON renderer, for any    *)
(* number of mounts and publications.                                      *)
(***************************************************************************)
EXTENDS ExtensionPage, RendererPage, FiniteSetTheorems, SequenceTheorems, TLAPS

LEMMA Appended ==
  ASSUME NEW S, NEW sequence \in Seq(S), NEW element \in S
  PROVE  LET longer == Append(sequence, element)
             n == Len(sequence)
         IN /\ longer \in Seq(S) /\ Len(longer) = n + 1 /\ DOMAIN longer = 1 .. n + 1
            /\ n \in Nat /\ DOMAIN sequence = 1 .. n
            /\ longer[n + 1] = element /\ longer # <<>>
            /\ \A i \in 1 .. n : longer[i] = sequence[i]
BY AppendProperties

-------------------------------------------------------------------------------
(* The mounts of one key. *)

Gone(view) == view.disposal \in {"resolved", "rejected"}
GoneBefore(mounts, m) == \A l \in DOMAIN mounts : l < m => Gone(mounts[l])

(* A mount by itself, the c-th being in the map. *)
SoundMount(mounts, c, m) ==
  /\ mounts[m].previous \in {0, m - 1}
  /\ m # c => mounts[m].aborted
  /\ mounts[m].aborted <=> mounts[m].disposal # "none"
  /\ Gone(mounts[m]) => mounts[m].phase = "empty"
  /\ mounts[m].forgets => mounts[m].aborted

(* What a mount comes after is over: it has waited for its predecessor,    *)
(* which had waited for its own, or there was none to wait for.            *)
InTurn(mounts, m) ==
  mounts[m].previous = 0 \/ mounts[m].phase # "waiting" => GoneBefore(mounts, m)

Linked(mounts, c) ==
  /\ mounts \in Seq(Mount)
  /\ c \in {0, Len(mounts)}
  /\ \A m \in DOMAIN mounts : SoundMount(mounts, c, m) /\ InTurn(mounts, m)

(* The cached state is one that a mount will evict, and is there while a   *)
(* mount that draws or has drawn is not told to end.                       *)
Holds(view) == view.phase # "waiting" /\ ~Gone(view)
CacheOwned(mounts, present) ==
  /\ \A m \in DOMAIN mounts :
       mounts[m].phase \in {"drawing", "mounted"} /\ ~mounts[m].aborted => present
  /\ present => \E m \in DOMAIN mounts : Holds(mounts[m])

AllGone(mounts) == \A m \in DOMAIN mounts : Gone(mounts[m])

KeyInv(mounts, c, present, over) ==
  /\ Linked(mounts, c)
  /\ CacheOwned(mounts, present)
  /\ ~over /\ c = 0 => AllGone(mounts)

(* The invariant of the page. *)
ViewsInv ==
  /\ mount \in [Keys -> Seq(Mount)]
  /\ \A k \in Keys : KeyInv(mount[k], current[k], k \in cached, backgroundClosed)

(* Only what is no longer in the index is forgotten, and what replace()    *)
(* waits for is what it has released, or no longer concerns it.            *)
PageInv ==
  /\ ViewsInv
  /\ PageFollows
  /\ startup = "index" => replacing.stage = "idle" /\ \A k \in Keys : mount[k] = <<>>
  /\ \A k \in index : current[k] # 0 => ~InMap(k).forgets
  /\ ~backgroundClosed /\ replacing.stage = "disposing" /\ Inspector \in index /\ Aborted(Inspector) =>
       replacing.of = current[Inspector]

-------------------------------------------------------------------------------
(* A mount's own step: it does not come back, and only begins in turn. *)
Continues(mounts, c, m, view) ==
  /\ view \in Mount
  /\ view.previous = mounts[m].previous
  /\ m # c => view.aborted
  /\ view.aborted <=> view.disposal # "none"
  /\ Gone(view) => view.phase = "empty"
  /\ view.forgets => view.aborted
  /\ Gone(mounts[m]) => Gone(view)
  /\ view.phase # "waiting" => mounts[m].phase # "waiting" \/ GoneBefore(mounts, m)

LEMMA StaysLinked ==
  ASSUME NEW mounts, NEW c, Linked(mounts, c),
         NEW m \in DOMAIN mounts, NEW view, Continues(mounts, c, m, view)
  PROVE  Linked([mounts EXCEPT ![m] = view], c)
<1> DEFINE after == [mounts EXCEPT ![m] = view]
<1>1. /\ mounts \in Seq(Mount) /\ view \in Mount /\ c \in {0, Len(mounts)}
      /\ Len(mounts) \in Nat /\ DOMAIN mounts = 1 .. Len(mounts)
  BY DEF Linked, Continues
<1>2. after \in Seq(Mount) /\ Len(after) = Len(mounts) /\ DOMAIN after = DOMAIN mounts
  BY <1>1
<1>3. /\ after[m] = view
      /\ \A l \in DOMAIN mounts : l # m => after[l] = mounts[l]
  BY <1>1
<1> HIDE DEF after
<1>4. \A l \in DOMAIN mounts : GoneBefore(mounts, l) => GoneBefore(after, l)
  BY <1>2, <1>3 DEF GoneBefore, Continues
<1>5. ASSUME NEW l \in DOMAIN after
      PROVE  SoundMount(after, c, l) /\ InTurn(after, l)
  <2>1. CASE l = m
    <3>1. SoundMount(mounts, c, m) /\ InTurn(mounts, m)
      BY DEF Linked
    <3>2. SoundMount(after, c, m)
      BY <3>1, <1>3 DEF SoundMount, Continues
    <3>3. InTurn(after, m)
      BY <3>1, <1>3, <1>4 DEF InTurn, Continues
    <3> QED
      BY <2>1, <3>2, <3>3
  <2>2. CASE l # m
    <3>1. SoundMount(mounts, c, l) /\ InTurn(mounts, l) /\ after[l] = mounts[l]
      BY <2>2, <1>2, <1>3 DEF Linked
    <3> QED
      BY <3>1, <1>2, <1>4 DEF SoundMount, InTurn
  <2> QED
    BY <2>1, <2>2
<1> QED
  BY <1>1, <1>2, <1>5 DEF Linked, after

(* Who has begun is the only one that holds anything: all before it are    *)
(* gone, and all after it wait.                                            *)
LEMMA OneHolds ==
  ASSUME NEW mounts, NEW c, Linked(mounts, c),
         NEW l \in DOMAIN mounts, NEW m \in DOMAIN mounts,
         Holds(mounts[l]), Holds(mounts[m])
  PROVE  l = m
<1>1. InTurn(mounts, l) /\ InTurn(mounts, m) /\ l \in Nat /\ m \in Nat
  BY DEF Linked
<1> QED
  BY <1>1 DEF InTurn, Holds, GoneBefore

(* The mount that is created follows the one in the map, which was told    *)
(* to end, or nothing that is not gone.                                    *)
NextMount(c) == [aborted |-> FALSE, previous |-> c, phase |-> "waiting",
                 disposal |-> "none", forgets |-> FALSE]

LEMMA Followed ==
  ASSUME NEW mounts, NEW c, NEW present, NEW over, KeyInv(mounts, c, present, over), ~over,
         c # 0 => mounts[c].aborted
  PROVE  KeyInv(Append(mounts, NextMount(c)), Len(mounts) + 1, present, over)
<1> DEFINE after == Append(mounts, NextMount(c))
           n == Len(mounts)
<1>1. /\ mounts \in Seq(Mount) /\ n \in Nat /\ DOMAIN mounts = 1 .. n
      /\ c \in {0, n} /\ c \in Nat
  BY DEF KeyInv, Linked
<1>2. NextMount(c) \in Mount
  BY <1>1 DEF NextMount, Mount, Number
<1>3. /\ after \in Seq(Mount) /\ Len(after) = n + 1 /\ DOMAIN after = 1 .. n + 1
      /\ after[n + 1] = NextMount(c)
      /\ \A l \in 1 .. n : after[l] = mounts[l]
  <2>1. ASSUME NEW view \in Mount
        PROVE  LET longer == Append(mounts, view)
               IN /\ longer \in Seq(Mount) /\ Len(longer) = Len(mounts) + 1
                  /\ longer[Len(mounts) + 1] = view
                  /\ \A i \in 1 .. Len(mounts) : longer[i] = mounts[i]
    BY <1>1, Appended
  <2>2. /\ after \in Seq(Mount) /\ Len(after) = n + 1
        /\ after[n + 1] = NextMount(c)
        /\ \A l \in 1 .. n : after[l] = mounts[l]
    BY <1>1, <1>2, <2>1
  <2>3. DOMAIN after = 1 .. Len(after)
    BY <2>2
  <2> QED
    BY <2>2, <2>3
<1>4. /\ after[n + 1] = NextMount(c)
      /\ \A l \in 1 .. n : after[l] = mounts[l]
  BY <1>3
<1> SUFFICES KeyInv(after, n + 1, present, over)
  BY Zenon
<1> HIDE DEF after, n
<1>5. \A l \in 1 .. n : GoneBefore(mounts, l) => GoneBefore(after, l)
  BY <1>1, <1>3, <1>4 DEF GoneBefore
<1>6. ASSUME NEW l \in 1 .. n
      PROVE  SoundMount(after, n + 1, l) /\ InTurn(after, l)
  <2>1. SoundMount(mounts, c, l) /\ InTurn(mounts, l) /\ after[l] = mounts[l]
    BY <1>1, <1>4 DEF KeyInv, Linked
  <2>2. mounts[l].aborted
    BY <2>1, <1>1 DEF SoundMount
  <2> QED
    BY <2>1, <2>2, <1>5 DEF SoundMount, InTurn
<1>7. SoundMount(after, n + 1, n + 1)
  BY <1>1, <1>4 DEF SoundMount, NextMount, Gone
<1>8. InTurn(after, n + 1)
  <2>1. CASE c = 0
    <3>1. AllGone(mounts)
      BY <2>1 DEF KeyInv
    <3> QED
      BY <3>1, <1>1, <1>3, <1>4 DEF AllGone, GoneBefore, InTurn
  <2>2. CASE c # 0
    BY <2>2, <1>4 DEF InTurn, NextMount
  <2> QED
    BY <2>1, <2>2
<1>9. Linked(after, n + 1)
  BY <1>1, <1>3, <1>6, <1>7, <1>8 DEF Linked
<1>10. CacheOwned(after, present)
  <2>1. CacheOwned(mounts, present)
    BY DEF KeyInv
  <2>2. after[n + 1].phase = "waiting"
    BY <1>4 DEF NextMount
  <2> QED
    BY <2>1, <2>2, <1>1, <1>3, <1>4 DEF CacheOwned
<1> QED
  BY <1>1, <1>9, <1>10 DEF KeyInv

(* A mount's own step with what becomes of the cache. *)
LEMMA KeyContinues ==
  ASSUME NEW mounts, NEW c, NEW present, NEW over, KeyInv(mounts, c, present, over),
         NEW m \in DOMAIN mounts, NEW view, Continues(mounts, c, m, view),
         NEW present2,
         view.phase \in {"drawing", "mounted"} /\ ~view.aborted => present2,
         present /\ ~present2 => Holds(mounts[m]),
         present2 => Holds(view) \/ (present /\ (Holds(mounts[m]) => Holds(view)))
  PROVE  KeyInv([mounts EXCEPT ![m] = view], c, present2, over)
<1> DEFINE after == [mounts EXCEPT ![m] = view]
<1>1. Linked(mounts, c) /\ Linked(after, c)
  BY StaysLinked DEF KeyInv
<1>2. /\ DOMAIN after = DOMAIN mounts /\ after[m] = view
      /\ \A l \in DOMAIN mounts : l # m => after[l] = mounts[l]
  BY <1>1 DEF Linked
<1> SUFFICES KeyInv(after, c, present2, over)
  OBVIOUS
<1> HIDE DEF after
<1>3. ~over /\ c = 0 => AllGone(after)
  BY <1>2 DEF KeyInv, AllGone, Continues
<1>4. ASSUME NEW l \in DOMAIN after, after[l].phase \in {"drawing", "mounted"}, ~after[l].aborted
      PROVE  present2
  <2>1. CASE l = m
    BY <2>1, <1>2, <1>4
  <2>2. CASE l # m
    <3>1. after[l] = mounts[l] /\ present
      BY <2>2, <1>2, <1>4 DEF KeyInv, CacheOwned
    <3>2. SoundMount(mounts, c, l)
      BY <1>1, <1>2 DEF Linked
    <3>3. Holds(mounts[l])
      BY <3>1, <3>2, <1>4 DEF Holds, SoundMount
    <3>4. ~Holds(mounts[m])
      BY <3>3, <1>1, <1>2, <2>2, OneHolds
    <3> QED
      BY <3>1, <3>4
  <2> QED
    BY <2>1, <2>2
<1>5. ASSUME present2
      PROVE  \E l \in DOMAIN after : Holds(after[l])
  <2>1. CASE Holds(view)
    BY <2>1, <1>2
  <2>2. CASE ~Holds(view)
    <3>1. present /\ ~Holds(mounts[m])
      BY <2>2, <1>5
    <3>2. PICK l \in DOMAIN mounts : Holds(mounts[l])
      BY <3>1 DEF KeyInv, CacheOwned
    <3> QED
      BY <3>1, <3>2, <1>2
  <2> QED
    BY <2>1, <2>2
<1> QED
  BY <1>1, <1>3, <1>4, <1>5 DEF KeyInv, CacheOwned

(* The last mount is gone only if all are, so the map may forget it; and   *)
(* if no other will be mounted it may in any case.                         *)
LEMMA LastGone ==
  ASSUME NEW mounts, NEW c, Linked(mounts, c), c # 0, Gone(mounts[c])
  PROVE  AllGone(mounts)
<1>1. /\ c \in DOMAIN mounts /\ DOMAIN mounts = 1 .. c /\ c \in Nat
  BY DEF Linked
<1>2. mounts[c].phase # "waiting" /\ InTurn(mounts, c)
  BY <1>1 DEF Linked, SoundMount
<1> QED
  BY <1>1, <1>2 DEF InTurn, GoneBefore, AllGone

LEMMA Unlinked ==
  ASSUME NEW mounts, NEW c, Linked(mounts, c), c # 0 => mounts[c].aborted
  PROVE  /\ Linked(mounts, 0)
         /\ \A m \in DOMAIN mounts : mounts[m].aborted
<1>1. \A m \in DOMAIN mounts : SoundMount(mounts, c, m) /\ InTurn(mounts, m) /\ m # 0
  BY DEF Linked
<1>2. \A m \in DOMAIN mounts : mounts[m].aborted
  BY <1>1 DEF SoundMount
<1>3. \A m \in DOMAIN mounts : SoundMount(mounts, 0, m)
  BY <1>1, <1>2 DEF SoundMount
<1> QED
  BY <1>1, <1>2, <1>3 DEF Linked

LEMMA KeyForgets ==
  ASSUME NEW mounts, NEW c, NEW present, NEW over, KeyInv(mounts, c, present, over),
         c # 0 => Gone(mounts[c])
  PROVE  KeyInv(mounts, 0, present, over)
<1>1. Linked(mounts, c)
  BY DEF KeyInv
<1>2. c # 0 => mounts[c].aborted /\ AllGone(mounts)
  <2>1. c # 0 => c \in DOMAIN mounts
    BY <1>1 DEF Linked
  <2> QED
    BY <2>1, <1>1, LastGone DEF Linked, SoundMount, Gone
<1>3. Linked(mounts, 0)
  BY <1>1, <1>2, Unlinked
<1> QED
  BY <1>2, <1>3 DEF KeyInv

LEMMA KeyCloses ==
  ASSUME NEW mounts, NEW c, Linked(mounts, c), c # 0 => mounts[c].aborted
  PROVE  KeyInv(mounts, 0, FALSE, TRUE)
BY Unlinked DEF KeyInv, CacheOwned

(* dispose() of the mount in the map. *)
Endings(view) == {Released(view), [Released(view) EXCEPT !.forgets = TRUE]}

LEMMA KeyReleases ==
  ASSUME NEW mounts, NEW c, NEW present, NEW over, KeyInv(mounts, c, present, over), c # 0,
         NEW view \in Endings(mounts[c])
  PROVE  /\ KeyInv([mounts EXCEPT ![c] = view], c, present, over)
         /\ view.aborted
         /\ mounts[c].disposal # "none" => view.disposal = mounts[c].disposal
<1>1. c \in DOMAIN mounts /\ mounts[c] \in Mount /\ SoundMount(mounts, c, c)
  BY DEF KeyInv, Linked
<1>2. /\ view \in Mount
      /\ view.previous = mounts[c].previous /\ view.phase = mounts[c].phase
      /\ view.aborted /\ view.disposal # "none"
      /\ view.disposal = IF mounts[c].disposal = "none" THEN "pending" ELSE mounts[c].disposal
  BY <1>1 DEF Mount, Released, Endings
<1>3. Gone(mounts[c]) <=> Gone(view)
  BY <1>2 DEF Gone
<1>4. Continues(mounts, c, c, view)
  BY <1>1, <1>2, <1>3 DEF Continues, SoundMount
<1>5. view.phase \in {"drawing", "mounted"} /\ ~view.aborted => present
  BY <1>2
<1>6. Holds(mounts[c]) <=> Holds(view)
  BY <1>2, <1>3 DEF Holds
<1>7. KeyInv([mounts EXCEPT ![c] = view], c, present, over)
  BY <1>1, <1>4, <1>5, <1>6, KeyContinues
<1> QED
  BY <1>2, <1>7

-------------------------------------------------------------------------------
(* The steps of the page. *)

ViewsTyped ==
  /\ mount \in [Keys -> Seq(Mount)]
  /\ current \in [Keys -> Nat]
  /\ \A k \in Keys : Len(mount[k]) <= MaxMounts[k]

LEMMA Typed ==
  ASSUME PageInv
  PROVE  /\ ViewsTyped /\ index \subseteq Keys /\ cached \subseteq Keys
         /\ \A k \in Keys :
              /\ Linked(mount[k], current[k]) /\ KeyInv(mount[k], current[k], k \in cached, backgroundClosed)
              /\ current[k] # 0 => /\ current[k] \in DOMAIN mount[k] /\ InMap(k) \in Mount
                                   /\ SoundMount(mount[k], current[k], current[k])
<1>1. /\ ViewsTyped /\ index \subseteq Keys /\ cached \subseteq Keys
  BY DEF PageInv, ViewsInv, PageFollows, PageTypeOK, ViewsTypeOK, ViewsTyped, Number
<1>2. ASSUME NEW k \in Keys
      PROVE  /\ Linked(mount[k], current[k]) /\ KeyInv(mount[k], current[k], k \in cached, backgroundClosed)
             /\ current[k] # 0 => /\ current[k] \in DOMAIN mount[k] /\ InMap(k) \in Mount
                                  /\ SoundMount(mount[k], current[k], current[k])
  BY <1>2 DEF PageInv, ViewsInv, KeyInv, Linked, InMap
<1> QED
  BY <1>1, <1>2

(* updateViews: every entry has a mount that lives, and no other key has.  *)
Matched(new) ==
  \A k \in Keys :
    IF k \in new THEN current[k] # 0 /\ ~InMap(k).aborted /\ ~InMap(k).forgets
    ELSE current[k] # 0 => InMap(k).aborted

LEMMA Updates ==
  ASSUME PageInv, ~backgroundClosed, NEW new, UpdateViews(new),
         cached' = cached, backgroundClosed' = backgroundClosed
  PROVE  ViewsInv' /\ ViewsTyped' /\ Matched(new)'
<1>1. ASSUME NEW k \in Keys
      PROVE  /\ mount'[k] \in Seq(Mount) /\ current'[k] \in Nat
             /\ Len(mount'[k]) <= MaxMounts[k]
             /\ KeyInv(mount'[k], current'[k], k \in cached, backgroundClosed)
             /\ IF k \in new
                THEN /\ current'[k] # 0 /\ ~mount'[k][current'[k]].aborted
                     /\ ~mount'[k][current'[k]].forgets
                ELSE current'[k] # 0 => mount'[k][current'[k]].aborted
  <2>1. /\ mount[k] \in Seq(Mount) /\ current[k] \in Nat /\ Len(mount[k]) <= MaxMounts[k]
        /\ KeyInv(mount[k], current[k], k \in cached, backgroundClosed)
        /\ MaxMounts[k] \in Nat
    BY <1>1, Typed, MountAssumption DEF ViewsTyped
  <2>2. CASE Removed(k, new)
    <3> DEFINE view == [Released(InMap(k)) EXCEPT !.forgets = TRUE]
    <3>1. current[k] # 0 /\ k \notin new /\ current[k] \in DOMAIN mount[k]
      BY <2>2, <1>1, Typed DEF Removed
    <3>2. mount'[k] = [mount[k] EXCEPT ![current[k]] = view] /\ current'[k] = current[k]
      BY <2>2, <3>1 DEF UpdateViews, Removed, Needed, InMap
    <3> view \in Endings(mount[k][current[k]])
      BY DEF InMap, Endings
    <3> HIDE DEF view
    <3>3. /\ KeyInv(mount'[k], current[k], k \in cached, backgroundClosed) /\ view.aborted
      <4>1. PICK present, over : present = (k \in cached) /\ over = backgroundClosed
        OBVIOUS
      <4>2. KeyInv(mount[k], current[k], present, over)
        BY <2>1, <4>1
      <4>3. KeyInv(mount'[k], current[k], present, over) /\ view.aborted
        BY <3>1, <3>2, <4>2, KeyReleases
      <4> QED
        BY <4>1, <4>3
    <3>4. Len(mount'[k]) = Len(mount[k]) /\ mount'[k][current[k]] = view
      BY <2>1, <3>1, <3>2
    <3> QED
      BY <2>1, <3>1, <3>2, <3>3, <3>4 DEF KeyInv, Linked
  <2>3. CASE Needed(k, new)
    <3>1. /\ mount'[k] = Append(mount[k], NextMount(current[k]))
          /\ current'[k] = Len(mount[k]) + 1 /\ k \in new
          /\ Len(mount[k]) < MaxMounts[k]
      BY <2>3 DEF UpdateViews, Needed, Removed, Fresh, NextMount
    <3>2. current[k] # 0 => mount[k][current[k]].aborted
      BY <2>3 DEF Needed, Aborted, InMap
    <3>3. KeyInv(mount'[k], current'[k], k \in cached, backgroundClosed)
      BY <2>1, <3>1, <3>2, Followed
    <3>4. /\ NextMount(current[k]) \in Mount
          /\ ~NextMount(current[k]).aborted /\ ~NextMount(current[k]).forgets
      BY <2>1 DEF NextMount, Mount, Number
    <3>5. /\ Len(mount'[k]) = Len(mount[k]) + 1 /\ mount'[k][Len(mount[k]) + 1] = NextMount(current[k])
      BY <2>1, <3>1, <3>4, AppendProperties
    <3> QED
      BY <2>1, <3>1, <3>3, <3>4, <3>5 DEF KeyInv, Linked
  <2>4. CASE ~Removed(k, new) /\ ~Needed(k, new)
    <3>1. mount'[k] = mount[k] /\ current'[k] = current[k]
      BY <2>4 DEF UpdateViews
    <3>2. IF k \in new THEN current[k] # 0 /\ ~InMap(k).aborted
          ELSE current[k] # 0 => InMap(k).aborted
      BY <2>4 DEF Removed, Needed, Aborted
    <3>3. current[k] # 0 => (InMap(k).forgets => InMap(k).aborted)
      BY Typed DEF SoundMount, InMap
    <3> QED
      BY <2>1, <3>1, <3>2, <3>3 DEF InMap
  <2> QED
    BY <2>2, <2>3, <2>4
<1>2. /\ mount' = [k \in Keys |-> mount'[k]] /\ current' = [k \in Keys |-> current'[k]]
  BY DEF UpdateViews
<1>3. mount' \in [Keys -> Seq(Mount)] /\ current' \in [Keys -> Nat]
  BY <1>1, <1>2
<1> QED
  BY <1>1, <1>3 DEF ViewsInv, ViewsTyped, Matched, InMap

(* closeBackground: no mount lives, whether this call closes it or one     *)
(* before it has.                                                          *)
LEMMA Closing ==
  ASSUME PageInv, NEW then, CloseBackground(then)
  PROVE  /\ ViewsInv' /\ ViewsTyped' /\ index' = index /\ cached' \subseteq Keys
         /\ \A k \in Keys : \A m \in DOMAIN mount'[k] : mount'[k][m].aborted
         /\ \A k \in Keys : /\ current'[k] \in {0, current[k]}
                            /\ mount[k] = <<>> => mount'[k] = <<>>
                            /\ current'[k] # 0 => mount' = mount
<1>1. CASE backgroundClosed
  <2>1. UNCHANGED viewVars /\ backgroundClosed' = backgroundClosed
    BY <1>1 DEF CloseBackground, PageInv, PageFollows, PageTypeOK
  <2> QED
    BY <1>1, <2>1, Typed DEF PageInv, PageFollows, ViewsInv, ViewsTyped, viewVars
<1>2. CASE ~backgroundClosed
  <2>1. /\ cached' = {} /\ index' = index /\ backgroundClosed' = TRUE
        /\ current' = [k \in Keys |-> 0]
        /\ mount' = [k \in Keys |-> IF current[k] = 0 THEN mount[k]
                                    ELSE [mount[k] EXCEPT ![current[k]] = Released(@)]]
    BY <1>2 DEF CloseBackground
  <2>2. ASSUME NEW k \in Keys
        PROVE  /\ KeyInv(mount'[k], 0, FALSE, TRUE) /\ mount'[k] \in Seq(Mount)
               /\ Len(mount'[k]) = Len(mount[k])
               /\ \A m \in DOMAIN mount'[k] : mount'[k][m].aborted
    <3>1. KeyInv(mount[k], current[k], k \in cached, backgroundClosed) /\ mount[k] \in Seq(Mount)
      BY Typed DEF ViewsTyped
    <3>2. CASE current[k] = 0
      <4>1. mount'[k] = mount[k] /\ Linked(mount[k], current[k])
        BY <2>1, <3>1, <3>2 DEF KeyInv
      <4> QED
        BY <3>1, <3>2, <4>1, KeyCloses, Unlinked
    <3>3. CASE current[k] # 0
      <4> DEFINE view == Released(mount[k][current[k]])
      <4>1. mount'[k] = [mount[k] EXCEPT ![current[k]] = view] /\ current[k] \in DOMAIN mount[k]
        BY <2>1, <3>3, Typed
      <4> view \in Endings(mount[k][current[k]])
        BY DEF Endings
      <4> HIDE DEF view
      <4>2. KeyInv(mount'[k], current[k], k \in cached, backgroundClosed) /\ view.aborted
        <5>1. PICK present, over : present = (k \in cached) /\ over = backgroundClosed
          OBVIOUS
        <5>2. KeyInv(mount[k], current[k], present, over)
          BY <3>1, <5>1
        <5>3. KeyInv(mount'[k], current[k], present, over) /\ view.aborted
          BY <3>3, <4>1, <5>2, KeyReleases
        <5> QED
          BY <5>1, <5>3
      <4>3. Len(mount'[k]) = Len(mount[k]) /\ mount'[k][current[k]] = view
        BY <3>1, <4>1
      <4>4. Linked(mount'[k], current[k]) /\ mount'[k] \in Seq(Mount)
        BY <4>2 DEF KeyInv, Linked
      <4> QED
        BY <4>2, <4>3, <4>4, KeyCloses, Unlinked
    <3> QED
      BY <3>2, <3>3
  <2>3. mount' \in [Keys -> Seq(Mount)] /\ current' \in [Keys -> Nat]
    BY <2>1, <2>2
  <2>4. ViewsInv'
    <3>1. \A k \in Keys : KeyInv(mount'[k], current'[k], k \in cached', backgroundClosed')
      <4>1. ASSUME NEW k \in Keys
            PROVE  KeyInv(mount'[k], current'[k], k \in cached', backgroundClosed')
        <5>1. current'[k] = 0 /\ ((k \in cached') = FALSE) /\ (backgroundClosed' = TRUE)
          BY <2>1
        <5> QED
          BY <5>1, <2>2
      <4> QED
        BY <4>1
    <3> QED
      BY <2>3, <3>1 DEF ViewsInv
  <2>5. ViewsTyped'
    BY <2>2, <2>3, Typed DEF ViewsTyped
  <2>6. \A k \in Keys : current'[k] = 0 /\ (mount[k] = <<>> => mount'[k] = <<>>)
    <3>1. ASSUME NEW k \in Keys, mount[k] = <<>>
          PROVE  current[k] = 0
      BY <3>1, Typed DEF Linked
    <3> QED
      BY <2>1, <3>1
  <2> QED
    BY <2>1, <2>2, <2>4, <2>5, <2>6
<1> QED
  BY <1>1, <1>2 DEF PageInv, PageFollows, PageTypeOK

(* The parts of the invariant. *)
EntryFollows(k) ==
  /\ k \in index => current[k] # 0
  /\ Aborted(k) \/ (k \in index <=> current[k] # 0) \/ InMap(k).forgets
  /\ k \in index /\ Aborted(k) =>
       k = Inspector /\ (replacing.stage = "disposing" \/ InMap(k).disposal = "rejected")

RestTyped ==
  /\ index \subseteq Keys /\ cached \subseteq Keys
  /\ startup \in {"index", "views", "connecting", "attached", "over"}
  /\ awaited \in [Keys -> Nat]
  /\ replacing \in [stage : {"idle", "disposing", "mounting"}, of : Nat]
  /\ backgroundClosed \in BOOLEAN /\ closed \in BOOLEAN
  /\ server \in [Servers -> {"idle", "connecting", "joining", "mounting", "over"}]
  /\ held \in [Servers -> SUBSET Resource]

Fallen ==
  backgroundClosed =>
    startup # "attached" /\ \A k \in Keys : \A m \in DOMAIN mount[k] : mount[k][m].aborted
ClosedHoldsNothing == closed => \A s \in Servers : held[s] = {}
NothingYet == startup = "index" => replacing.stage = "idle" /\ \A k \in Keys : mount[k] = <<>>
Forgettable == \A k \in index : current[k] # 0 => ~InMap(k).forgets
Replaced ==
  ~backgroundClosed /\ replacing.stage = "disposing" /\ Inspector \in index /\ Aborted(Inspector) =>
    replacing.of = current[Inspector]

Follows ==
  /\ ViewsInv /\ ViewsTyped /\ RestTyped /\ Fallen /\ ClosedHoldsNothing
  /\ ~backgroundClosed /\ startup # "index" => \A k \in Keys : EntryFollows(k)
  /\ NothingYet /\ Forgettable /\ Replaced

LEMMA Parts == PageInv <=> Follows
<1>1. ViewsInv => (PageTypeOK <=> ViewsTyped /\ RestTyped)
  BY DEF ViewsInv, KeyInv, Linked, PageTypeOK, ViewsTypeOK, ViewsTyped, RestTyped, Number
<1>2. RestTyped => backgroundClosed \in BOOLEAN
  BY DEF RestTyped
<1> QED
  BY <1>1, <1>2 DEF PageInv, PageFollows, EntryFollows, Fallen, ClosedHoldsNothing, NothingYet, Forgettable, Replaced,
                       Follows

(* A step of a mount, whose place in the map and in the index it is not    *)
(* concerned with.                                                         *)
LEMMA ViewSteps ==
  ASSUME PageInv, NEW k \in Keys, NEW m \in DOMAIN mount[k],
         NEW view, Continues(mount[k], current[k], m, view),
         mount' = [mount EXCEPT ![k] = [mount[k] EXCEPT ![m] = view]],
         cached' \in {cached, cached \cup {k}, cached \ {k}},
         view.phase \in {"drawing", "mounted"} /\ ~view.aborted => k \in cached',
         k \in cached /\ k \notin cached' => Holds(mount[k][m]),
         k \in cached' => Holds(view) \/ (k \in cached /\ (Holds(mount[k][m]) => Holds(view))),
         view.aborted = mount[k][m].aborted,
         view.forgets = mount[k][m].forgets,
         mount[k][m].disposal = "rejected" => view.disposal = "rejected",
         UNCHANGED <<index, current, startup, awaited, replacing, backgroundClosed, closed, serverVars>>
  PROVE  PageInv'
<1>1. /\ mount[k] \in Seq(Mount) /\ view \in Mount /\ mount \in [Keys -> Seq(Mount)]
      /\ ViewsTyped /\ index \subseteq Keys /\ cached \subseteq Keys
      /\ current \in [Keys -> Nat]
  BY Typed DEF Continues, ViewsTyped
<1>2. /\ mount'[k] = [mount[k] EXCEPT ![m] = view]
      /\ \A j \in Keys : j # k => mount'[j] = mount[j]
      /\ \A j \in Keys : j # k => (j \in cached' <=> j \in cached)
  BY <1>1
<1>3. /\ mount'[k] \in Seq(Mount) /\ Len(mount'[k]) = Len(mount[k])
      /\ DOMAIN mount'[k] = DOMAIN mount[k] /\ mount'[k][m] = view
      /\ \A l \in DOMAIN mount[k] : l # m => mount'[k][l] = mount[k][l]
  BY <1>1, <1>2
<1>4. KeyInv(mount'[k], current[k], k \in cached', backgroundClosed)
  <2>1. PICK present, present2, over :
          present = (k \in cached) /\ present2 = (k \in cached') /\ over = backgroundClosed
    OBVIOUS
  <2>2. KeyInv(mount[k], current[k], present, over)
    BY <2>1, Typed
  <2>3. /\ view.phase \in {"drawing", "mounted"} /\ ~view.aborted => present2
        /\ present /\ ~present2 => Holds(mount[k][m])
        /\ present2 => Holds(view) \/ (present /\ (Holds(mount[k][m]) => Holds(view)))
    BY <2>1
  <2>4. KeyInv([mount[k] EXCEPT ![m] = view], current[k], present2, over)
    BY <2>2, <2>3, KeyContinues
  <2> QED
    BY <1>2, <2>1, <2>4
<1>5. /\ mount' \in [Keys -> Seq(Mount)] /\ current' = current
      /\ mount' = [j \in Keys |-> mount'[j]]
  BY <1>1, <1>3
<1>6. ViewsInv'
  <2>1. ASSUME NEW j \in Keys
        PROVE  KeyInv(mount'[j], current'[j], (j \in cached)', backgroundClosed')
    <3>1. CASE j = k
      BY <3>1, <1>4, <1>5
    <3>2. CASE j # k
      <4>1. KeyInv(mount[j], current[j], j \in cached, backgroundClosed)
        BY Typed
      <4>2. mount'[j] = mount[j] /\ (j \in cached)' = (j \in cached)
        BY <3>2, <1>2
      <4> QED
        BY <4>1, <4>2, <1>5
    <3> QED
      BY <3>1, <3>2
  <2> QED
    BY <2>1, <1>5 DEF ViewsInv
<1>7. ViewsTyped'
  BY <1>1, <1>2, <1>3, <1>5 DEF ViewsTyped
<1>8. /\ Fallen /\ ClosedHoldsNothing /\ RestTyped
      /\ ~backgroundClosed /\ startup # "index" => \A j \in Keys : EntryFollows(j)
      /\ NothingYet /\ Forgettable /\ Replaced
  BY Parts DEF Follows
<1>9. RestTyped' /\ ClosedHoldsNothing'
  BY <1>8, <1>1 DEF RestTyped, ClosedHoldsNothing, serverVars
<1>10. \A j \in Keys : /\ DOMAIN mount'[j] = DOMAIN mount[j]
                       /\ \A l \in DOMAIN mount[j] :
                            /\ mount'[j][l].aborted = mount[j][l].aborted
                            /\ mount'[j][l].forgets = mount[j][l].forgets
                            /\ mount[j][l].disposal = "rejected" => mount'[j][l].disposal = "rejected"
  BY <1>2, <1>3
<1>11. \A j \in Keys : current[j] # 0 => current[j] \in DOMAIN mount[j]
  BY Typed
<1>12. Fallen'
  BY <1>8, <1>10 DEF Fallen
<1>13. ~backgroundClosed' /\ startup' # "index" => \A j \in Keys : EntryFollows(j)'
  BY <1>8, <1>10, <1>11 DEF EntryFollows, Aborted, InMap
<1>14. Forgettable' /\ Replaced'
  BY <1>1, <1>8, <1>10, <1>11, PageAssumption DEF Forgettable, Replaced, Aborted, InMap
<1>15. NothingYet'
  BY <1>1, <1>8, <1>10 DEF NothingYet
<1>16. Follows'
  BY <1>6, <1>7, <1>9, <1>12, <1>13, <1>14, <1>15 DEF Follows
<1> QED
  BY <1>16, Parts, PTL

others == <<startup, awaited, replacing, backgroundClosed, closed, serverVars>>

(* A step of the renderer: the mount is at another phase. *)
LEMMA PhaseSteps ==
  ASSUME PageInv, NEW k \in Keys, NEW m \in DOMAIN mount[k], NEW phase,
         To(k, m, phase), phase \in {"getting", "drawing", "mounted", "empty", "failed"},
         ~Gone(mount[k][m]),
         mount[k][m].phase = "waiting" => GoneBefore(mount[k], m),
         IF phase = "drawing" THEN cached' = cached \cup {k} ELSE cached' = cached,
         phase = "mounted" => mount[k][m].phase = "drawing",
         UNCHANGED <<index, current, others>>
  PROVE  PageInv'
<1> DEFINE view == [mount[k][m] EXCEPT !.phase = phase]
<1>1. /\ mount[k] \in Seq(Mount) /\ mount[k][m] \in Mount /\ mount \in [Keys -> Seq(Mount)]
      /\ SoundMount(mount[k], current[k], m) /\ InTurn(mount[k], m)
  BY Typed DEF Linked, ViewsTyped
<1>2. mount' = [mount EXCEPT ![k] = [mount[k] EXCEPT ![m] = view]]
  BY DEF To
<1>3. /\ view \in Mount /\ view.phase = phase
      /\ view.previous = mount[k][m].previous /\ view.aborted = mount[k][m].aborted
      /\ view.disposal = mount[k][m].disposal /\ view.forgets = mount[k][m].forgets
  BY <1>1 DEF Mount
<1> HIDE DEF view
<1>4. Continues(mount[k], current[k], m, view)
  BY <1>1, <1>3 DEF Continues, SoundMount, Gone
<1>5. cached' \in {cached, cached \cup {k}, cached \ {k}}
  OBVIOUS
<1>6. Holds(view)
  BY <1>3 DEF Holds, Gone
<1>7. view.phase \in {"drawing", "mounted"} /\ ~view.aborted => k \in cached'
  BY <1>1, <1>3, Typed DEF KeyInv, CacheOwned
<1>8. ~(k \in cached /\ k \notin cached')
  OBVIOUS
<1> QED
  BY <1>2, <1>3, <1>4, <1>5, <1>6, <1>7, <1>8, ViewSteps DEF others

(* Mount m may begin once its predecessor is gone. *)
LEMMA MayBegin ==
  ASSUME PageInv, NEW k \in Keys, NEW m \in DOMAIN mount[k], PredecessorGone(k, m)
  PROVE  GoneBefore(mount[k], m)
<1>1. /\ Linked(mount[k], current[k]) /\ mount[k] \in Seq(Mount)
      /\ SoundMount(mount[k], current[k], m) /\ InTurn(mount[k], m)
  BY Typed DEF Linked, ViewsTyped
<1>2. CASE mount[k][m].previous = 0
  BY <1>1, <1>2 DEF InTurn
<1>3. CASE mount[k][m].previous # 0
  <2>1. /\ m - 1 \in DOMAIN mount[k] /\ Gone(mount[k][m - 1]) /\ m \in Nat
    BY <1>1, <1>3 DEF SoundMount, PredecessorGone, Settled, Gone
  <2>2. GoneBefore(mount[k], m - 1)
    BY <1>1, <2>1 DEF Linked, SoundMount, InTurn
  <2>3. \A l \in DOMAIN mount[k] : l < m => l = m - 1 \/ l < m - 1
    BY <1>1, <2>1
  <2> QED
    BY <2>1, <2>2, <2>3 DEF GoneBefore
<1> QED
  BY <1>2, <1>3

LEMMA Forgets ==
  ASSUME PageInv, NEW k \in Keys, NEW m \in DOMAIN mount[k], Forget(k, m), UNCHANGED others
  PROVE  PageInv'
<1> DEFINE view == [mount[k][m] EXCEPT !.forgets = FALSE]
<1>1. /\ mount[k] \in Seq(Mount) /\ mount[k][m] \in Mount /\ mount \in [Keys -> Seq(Mount)]
      /\ SoundMount(mount[k], current[k], m)
      /\ mount[k][m].forgets /\ Gone(mount[k][m])
      /\ index' = index /\ cached' = cached
      /\ current' = [current EXCEPT ![k] = IF @ = m THEN 0 ELSE @]
      /\ ViewsTyped /\ index \subseteq Keys /\ cached \subseteq Keys
      /\ current \in [Keys -> Nat]
  BY Typed DEF Linked, Forget, Settled, Gone, ViewsTyped
<1>2. mount' = [mount EXCEPT ![k] = [mount[k] EXCEPT ![m] = view]]
  BY DEF Forget
<1>3. /\ view \in Mount /\ view.phase = mount[k][m].phase
      /\ view.previous = mount[k][m].previous /\ view.aborted = mount[k][m].aborted
      /\ view.disposal = mount[k][m].disposal /\ view.forgets = FALSE
  BY <1>1 DEF Mount
<1> HIDE DEF view
<1>4. Continues(mount[k], current[k], m, view)
  BY <1>1, <1>3 DEF Continues, SoundMount, Gone
<1>5. /\ mount'[k] = [mount[k] EXCEPT ![m] = view]
      /\ \A j \in Keys : j # k => mount'[j] = mount[j] /\ current'[j] = current[j]
      /\ current'[k] = IF current[k] = m THEN 0 ELSE current[k]
      /\ mount' = [j \in Keys |-> mount'[j]]
  BY <1>1, <1>2
<1>6. /\ mount'[k] \in Seq(Mount) /\ Len(mount'[k]) = Len(mount[k])
      /\ DOMAIN mount'[k] = DOMAIN mount[k] /\ mount'[k][m] = view
      /\ \A l \in DOMAIN mount[k] : l # m => mount'[k][l] = mount[k][l]
  BY <1>1, <1>3, <1>5
<1>7. KeyInv(mount'[k], current[k], k \in cached, backgroundClosed)
  <2>1. PICK present, over : present = (k \in cached) /\ over = backgroundClosed
    OBVIOUS
  <2>2. KeyInv(mount[k], current[k], present, over)
    BY <2>1, Typed
  <2>3. /\ view.phase \in {"drawing", "mounted"} /\ ~view.aborted => present
        /\ Holds(mount[k][m]) <=> Holds(view)
    BY <1>1, <1>3 DEF Holds, Gone, SoundMount
  <2>4. KeyInv([mount[k] EXCEPT ![m] = view], current[k], present, over)
    BY <1>4, <2>2, <2>3, KeyContinues
  <2> QED
    BY <1>5, <2>1, <2>4
<1>8. KeyInv(mount'[k], current'[k], k \in cached, backgroundClosed)
  <2>1. CASE current[k] = m
    <3>1. PICK present, over : present = (k \in cached) /\ over = backgroundClosed
      OBVIOUS
    <3>2. KeyInv(mount'[k], m, present, over) /\ Gone(mount'[k][m])
      BY <1>1, <1>3, <1>6, <1>7, <2>1, <3>1 DEF Gone
    <3>3. KeyInv(mount'[k], 0, present, over)
      BY <3>2, KeyForgets
    <3> QED
      BY <1>5, <2>1, <3>1, <3>3
  <2>2. CASE current[k] # m
    BY <1>5, <1>7, <2>2
  <2> QED
    BY <2>1, <2>2
<1>9. mount' \in [Keys -> Seq(Mount)] /\ current' \in [Keys -> Nat] /\ backgroundClosed' = backgroundClosed
  BY <1>1, <1>5, <1>6 DEF others
<1>10. ViewsInv'
  <2>1. ASSUME NEW j \in Keys
        PROVE  KeyInv(mount'[j], current'[j], (j \in cached)', backgroundClosed')
    <3>1. CASE j = k
      BY <3>1, <1>1, <1>8, <1>9
    <3>2. CASE j # k
      BY <3>2, <1>1, <1>5, <1>9, Typed
    <3> QED
      BY <3>1, <3>2
  <2> QED
    BY <2>1, <1>9 DEF ViewsInv
<1>11. ViewsTyped'
  BY <1>1, <1>5, <1>6, <1>9 DEF ViewsTyped
<1>12. Follows
  BY Parts
<1>13. RestTyped' /\ ClosedHoldsNothing'
  BY <1>1, <1>12 DEF Follows, RestTyped, ClosedHoldsNothing, others, serverVars
<1>14. \A j \in Keys : /\ DOMAIN mount'[j] = DOMAIN mount[j]
                       /\ \A l \in DOMAIN mount[j] :
                            /\ mount'[j][l].aborted = mount[j][l].aborted
                            /\ mount'[j][l].forgets => mount[j][l].forgets
                            /\ l # m \/ j # k => mount'[j][l].forgets = mount[j][l].forgets
                            /\ mount'[j][l].disposal = mount[j][l].disposal
  BY <1>3, <1>5, <1>6
<1>15. /\ \A j \in Keys : current[j] # 0 => current[j] \in DOMAIN mount[j]
       /\ current[k] = m => k \notin index
  BY <1>1, <1>12, Typed DEF Follows, Forgettable, InMap
<1>16. Fallen' /\ NothingYet'
  <2>1. mount[k] # <<>>
    BY <1>1
  <2>2. startup # "index"
    BY <1>12, <2>1 DEF Follows, NothingYet
  <2> QED
    BY <1>1, <1>12, <1>14, <2>2 DEF Follows, Fallen, NothingYet, others
<1>17. ASSUME ~backgroundClosed', startup' # "index", NEW j \in Keys
       PROVE  EntryFollows(j)'
  <2>1. EntryFollows(j)
    BY <1>12, <1>17 DEF Follows, others
  <2>2. CASE j = k /\ current[k] = m
    BY <2>2, <1>1, <1>5, <1>15 DEF EntryFollows, Aborted
  <2>3. CASE ~(j = k /\ current[k] = m)
    BY <2>1, <2>3, <1>1, <1>5, <1>14, <1>15 DEF EntryFollows, Aborted, InMap, others
  <2> QED
    BY <2>2, <2>3
<1>18. Forgettable'
  BY <1>1, <1>5, <1>12, <1>14, <1>15 DEF Follows, Forgettable, InMap
<1>19. Replaced'
  BY <1>1, <1>5, <1>12, <1>14, <1>15, PageAssumption DEF Follows, Replaced, Aborted, InMap, others
<1>20. Follows'
  BY <1>10, <1>11, <1>13, <1>16, <1>17, <1>18, <1>19 DEF Follows
<1> QED
  BY <1>20, Parts, PTL

LEMMA CleansUp ==
  ASSUME PageInv, NEW k \in Keys, NEW m \in DOMAIN mount[k], CleanUp(k, m), UNCHANGED others
  PROVE  PageInv'
<1>1. PICK result \in {"resolved", "rejected"} :
        /\ mount' = [mount EXCEPT ![k][m].disposal = result, ![k][m].phase = "empty"]
        /\ cached' = cached \ {k}
  BY DEF CleanUp
<1> DEFINE view == [mount[k][m] EXCEPT !.disposal = result, !.phase = "empty"]
<1>2. /\ mount[k] \in Seq(Mount) /\ mount[k][m] \in Mount /\ mount \in [Keys -> Seq(Mount)]
      /\ SoundMount(mount[k], current[k], m) /\ InTurn(mount[k], m)
      /\ mount[k][m].disposal = "pending"
      /\ mount[k][m].phase \in {"mounted", "empty", "failed"}
      /\ UNCHANGED <<index, current>>
  BY Typed DEF Linked, ViewsTyped, CleanUp
<1>3. mount' = [mount EXCEPT ![k] = [mount[k] EXCEPT ![m] = view]]
  BY <1>1, <1>2
<1>4. /\ view \in Mount /\ view.phase = "empty" /\ view.disposal = result
      /\ view.previous = mount[k][m].previous /\ view.aborted = mount[k][m].aborted
      /\ view.forgets = mount[k][m].forgets
  BY <1>2 DEF Mount
<1> HIDE DEF view
<1>5. Continues(mount[k], current[k], m, view)
  BY <1>2, <1>4 DEF Continues, SoundMount, Gone
<1>6. Holds(mount[k][m])
  BY <1>2 DEF Holds, Gone
<1>7. /\ cached' \in {cached, cached \cup {k}, cached \ {k}} /\ k \notin cached'
  BY <1>1
<1> QED
  BY <1>2, <1>3, <1>4, <1>5, <1>6, <1>7, ViewSteps DEF others

LEMMA MountsStep ==
  ASSUME PageInv, Mounts, UNCHANGED others
  PROVE  PageInv'
<1>1. PICK k \in Keys : \E m \in DOMAIN mount[k] :
        Forget(k, m) \/ BeginRender(k, m) \/ StateArrives(k, m) \/ RenderEnds(k, m) \/ CleanUp(k, m)
  BY DEF Mounts
<1>2. PICK m \in DOMAIN mount[k] :
        Forget(k, m) \/ BeginRender(k, m) \/ StateArrives(k, m) \/ RenderEnds(k, m) \/ CleanUp(k, m)
  BY <1>1
<1>3. Gone(mount[k][m]) => mount[k][m].phase = "empty"
  BY Typed DEF Linked, SoundMount
<1>4. CASE Forget(k, m)
  BY <1>4, Forgets
<1>5. CASE BeginRender(k, m)
  <2>1. PICK phase \in {"getting", "empty", "failed"} : To(k, m, phase)
    BY <1>5 DEF BeginRender, Fails
  <2>2. GoneBefore(mount[k], m)
    BY <1>5, MayBegin DEF BeginRender
  <2> QED
    BY <1>3, <1>5, <2>1, <2>2, PhaseSteps DEF BeginRender
<1>6. CASE StateArrives(k, m)
  BY <1>3, <1>6, PhaseSteps DEF StateArrives
<1>7. CASE RenderEnds(k, m)
  <2>1. PICK phase \in {"mounted", "empty", "failed"} :
          To(k, m, phase) /\ (phase = "mounted" => mount[k][m].phase = "drawing")
    BY <1>7 DEF RenderEnds, Fails
  <2> QED
    BY <1>3, <1>7, <2>1, PhaseSteps DEF RenderEnds
<1>8. CASE CleanUp(k, m)
  BY <1>8, CleansUp
<1> QED
  BY <1>2, <1>4, <1>5, <1>6, <1>7, <1>8

-------------------------------------------------------------------------------
(* The steps of the background. *)

(* After updateViews() of the index, whatever else the step does. *)
LEMMA UpdatedPage ==
  ASSUME PageInv, ~backgroundClosed, NEW new, UpdateViews(new), index' = new,
         cached' = cached, backgroundClosed' = backgroundClosed,
         startup' # "index", RestTyped', ClosedHoldsNothing'
  PROVE  PageInv'
<1>1. ViewsInv' /\ ViewsTyped' /\ Matched(new)'
  BY Updates
<1>2. index' \subseteq Keys
  BY DEF RestTyped
<1>3. ASSUME NEW k \in Keys
      PROVE  /\ EntryFollows(k)'
             /\ k \in index' => ~Aborted(k)' /\ (current'[k] # 0 => ~InMap(k)'.forgets)
  BY <1>1 DEF Matched, EntryFollows, Aborted
<1>4. Fallen' /\ NothingYet'
  BY DEF Fallen, NothingYet
<1>5. Forgettable' /\ Replaced'
  BY <1>2, <1>3, PageAssumption DEF Forgettable, Replaced
<1>6. Follows'
  BY <1>1, <1>3, <1>4, <1>5 DEF Follows
<1> QED
  BY <1>6, Parts, PTL

(* After closeBackground(), likewise. *)
LEMMA ClosedPage ==
  ASSUME PageInv, NEW then \in {"index", "views", "connecting", "over"}, CloseBackground(then),
         then = "index" => startup = "index" /\ UNCHANGED replacing,
         RestTyped', ClosedHoldsNothing'
  PROVE  PageInv'
<1>1. /\ ViewsInv' /\ ViewsTyped' /\ index' = index
      /\ \A k \in Keys : \A m \in DOMAIN mount'[k] : mount'[k][m].aborted
      /\ \A k \in Keys : /\ current'[k] \in {0, current[k]}
                         /\ mount[k] = <<>> => mount'[k] = <<>>
                         /\ current'[k] # 0 => mount' = mount
  BY Closing
<1>2. backgroundClosed' = TRUE /\ startup' = then
  BY DEF CloseBackground
<1>3. Follows
  BY Parts
<1>4. Fallen'
  BY <1>1, <1>2 DEF Fallen
<1>5. NothingYet'
  BY <1>1, <1>2, <1>3 DEF NothingYet, Follows
<1>6. Forgettable' /\ Replaced'
  BY <1>1, <1>2, <1>3 DEF Forgettable, Replaced, Follows, RestTyped, InMap
<1>7. Follows'
  BY <1>1, <1>2, <1>4, <1>5, <1>6 DEF Follows
<1> QED
  BY <1>7, Parts, PTL

(* A step that leaves the views as they are. *)
LEMMA SamePage ==
  ASSUME PageInv, UNCHANGED <<viewVars, backgroundClosed>>, RestTyped', ClosedHoldsNothing',
         startup' = "index" <=> startup = "index",
         startup' = "attached" => startup = "attached" \/ ~backgroundClosed,
         \/ replacing' = replacing
         \/ /\ replacing'.stage = "idle"
            /\ replacing.stage = "disposing" /\ Inspector \in index /\ current[Inspector] = replacing.of =>
                 replacing.of = 0 \/ mount[Inspector][replacing.of].disposal = "rejected"
  PROVE  PageInv'
<1>1. /\ Follows /\ index' = index /\ current' = current /\ mount' = mount /\ cached' = cached
      /\ backgroundClosed' = backgroundClosed
  BY Parts DEF viewVars
<1>2. ViewsInv' /\ ViewsTyped'
  BY <1>1 DEF Follows, ViewsInv, ViewsTyped
<1>3. Fallen' /\ NothingYet' /\ Forgettable' /\ Replaced'
  BY <1>1 DEF Follows, Fallen, NothingYet, Forgettable, Replaced, Aborted, InMap
<1>4. ASSUME ~backgroundClosed', startup' # "index", NEW k \in Keys
      PROVE  EntryFollows(k)'
  <2>1. EntryFollows(k) /\ Replaced /\ PageInv /\ ~backgroundClosed
    BY <1>1, <1>4 DEF Follows
  <2>2. CASE replacing' = replacing
    BY <2>1, <2>2, <1>1 DEF EntryFollows, Aborted, InMap
  <2>3. CASE replacing' # replacing
    <3>1. k \in index /\ Aborted(k) /\ replacing.stage = "disposing" =>
            InMap(k).disposal = "rejected"
      BY <2>1, <2>3 DEF EntryFollows, Replaced, Aborted, InMap
    <3> QED
      BY <2>1, <3>1, <1>1 DEF EntryFollows, Aborted, InMap
  <2> QED
    BY <2>2, <2>3
<1>5. Follows'
  BY <1>1, <1>2, <1>3, <1>4 DEF Follows
<1> QED
  BY <1>5, Parts, PTL

LEMMA BackgroundStep ==
  ASSUME PageInv, Disconnect \/ IndexUpdated \/ IndexArrives \/ ViewsReady \/ Connected
  PROVE  PageInv'
<1>1. /\ Follows /\ RestTyped /\ ClosedHoldsNothing /\ NothingYet /\ Fallen
      /\ ViewsTyped /\ backgroundClosed \in BOOLEAN
  BY Parts DEF Follows, RestTyped
<1>2. ASSUME NEW then, CloseBackground(then)
      PROVE  cached' \subseteq Keys /\ index' = index /\ startup' = then /\ backgroundClosed' = TRUE
  BY <1>2, Closing DEF CloseBackground
<1>3. CASE Disconnect
  <2> DEFINE then == IF startup = "attached" THEN "over" ELSE startup
  <2>1. /\ CloseBackground(then) /\ then \in {"index", "views", "connecting", "over"}
        /\ then = "index" => startup = "index"
        /\ UNCHANGED <<awaited, replacing, closed, serverVars>>
    BY <1>1, <1>3 DEF Disconnect, Closes, RestTyped
  <2> HIDE DEF then
  <2>2. RestTyped' /\ ClosedHoldsNothing'
    BY <1>1, <1>2, <2>1 DEF RestTyped, ClosedHoldsNothing, serverVars
  <2> QED
    BY <2>1, <2>2, ClosedPage
<1>4. CASE IndexUpdated
  <2>1. PICK k \in Keys :
          LET new == IF k \in index THEN index \ {k} ELSE index \cup {k}
          IN index' = new /\ UpdateViews(new)
    BY <1>4 DEF IndexUpdated
  <2>2. UpdateViews(index') /\ index' \subseteq Keys
    BY <1>1, <2>1 DEF RestTyped
  <2>3. /\ UNCHANGED <<cached, startup, awaited, replacing, backgroundClosed, closed, serverVars>>
        /\ ~backgroundClosed /\ startup # "index"
    BY <1>4 DEF IndexUpdated
  <2>4. RestTyped' /\ ClosedHoldsNothing'
    BY <1>1, <2>2, <2>3 DEF RestTyped, ClosedHoldsNothing, serverVars
  <2> QED
    BY <2>2, <2>3, <2>4, UpdatedPage
<1>5. CASE IndexArrives
  <2>1. UNCHANGED <<replacing, closed, serverVars>> /\ startup = "index"
    BY <1>5 DEF IndexArrives
  <2>2. CASE CloseBackground("over") /\ UNCHANGED awaited
    <3>1. RestTyped' /\ ClosedHoldsNothing'
      BY <1>1, <1>2, <2>1, <2>2 DEF RestTyped, ClosedHoldsNothing, serverVars
    <3> QED
      BY <2>2, <3>1, ClosedPage
  <2>3. CASE /\ ~backgroundClosed /\ UpdateViews(index)
             /\ startup' = "views" /\ awaited' = current'
             /\ UNCHANGED <<index, cached, backgroundClosed>>
    <3>1. ViewsTyped'
      BY <2>3, Updates
    <3>2. RestTyped' /\ ClosedHoldsNothing'
      BY <1>1, <2>1, <2>3, <3>1 DEF RestTyped, ClosedHoldsNothing, serverVars, ViewsTyped
    <3> QED
      BY <2>3, <3>2, UpdatedPage
  <2> QED
    BY <1>5, <2>2, <2>3 DEF IndexArrives
<1>6. CASE ViewsReady
  <2>1. UNCHANGED <<replacing, closed, serverVars>> /\ startup = "views" /\ awaited' \in [Keys -> Nat]
    BY <1>6 DEF ViewsReady, NoMounts
  <2>2. CASE CloseBackground("over")
    <3>1. RestTyped' /\ ClosedHoldsNothing'
      BY <1>1, <1>2, <2>1, <2>2 DEF RestTyped, ClosedHoldsNothing, serverVars
    <3> QED
      BY <2>2, <3>1, ClosedPage
  <2>3. CASE startup' = "connecting" /\ UNCHANGED <<viewVars, backgroundClosed>>
    <3>1. RestTyped' /\ ClosedHoldsNothing'
      BY <1>1, <2>1, <2>3 DEF RestTyped, ClosedHoldsNothing, serverVars, viewVars
    <3> QED
      BY <2>1, <2>3, <3>1, SamePage
  <2> QED
    BY <1>6, <2>2, <2>3 DEF ViewsReady
<1>7. CASE Connected
  <2>1. UNCHANGED <<awaited, replacing, closed, serverVars>> /\ startup = "connecting"
    BY <1>7 DEF Connected
  <2>2. CASE CloseBackground("over")
    <3>1. RestTyped' /\ ClosedHoldsNothing'
      BY <1>1, <1>2, <2>1, <2>2 DEF RestTyped, ClosedHoldsNothing, serverVars
    <3> QED
      BY <2>2, <3>1, ClosedPage
  <2>3. CASE ~backgroundClosed /\ startup' = "attached" /\ UNCHANGED <<viewVars, backgroundClosed>>
    <3>1. RestTyped' /\ ClosedHoldsNothing'
      BY <1>1, <2>1, <2>3 DEF RestTyped, ClosedHoldsNothing, serverVars, viewVars
    <3> QED
      BY <2>1, <2>3, <3>1, SamePage
  <2> QED
    BY <1>7, <2>2, <2>3 DEF Connected
<1> QED
  BY <1>3, <1>4, <1>5, <1>6, <1>7

(* replace(): the view it releases is the one in the map. *)
LEMMA ReplaceStep ==
  ASSUME PageInv, Replace
  PROVE  PageInv'
<1> DEFINE old == IF Inspector \in index THEN current[Inspector] ELSE 0
           view == Released(mount[Inspector][old])
<1>1. /\ Follows /\ RestTyped /\ ClosedHoldsNothing /\ NothingYet /\ Fallen /\ Forgettable
      /\ ViewsTyped /\ ~backgroundClosed /\ Inspector \in Keys
  BY Parts, PageAssumption DEF Follows, Replace, Fallen
<1>2. /\ startup = "attached" /\ replacing.stage = "idle"
      /\ replacing' = [stage |-> "disposing", of |-> old]
      /\ mount' = IF old = 0 THEN mount ELSE [mount EXCEPT ![Inspector] = [@ EXCEPT ![old] = view]]
      /\ UNCHANGED <<index, current, cached, startup, awaited, backgroundClosed, closed, serverVars>>
  BY DEF Replace
<1>3. RestTyped' /\ ClosedHoldsNothing'
  BY <1>1, <1>2 DEF RestTyped, ClosedHoldsNothing, serverVars, ViewsTyped
<1>4. CASE old = 0
  <2>1. Inspector \notin index
    BY <1>1, <1>2, <1>4 DEF Follows, EntryFollows
  <2>2. mount' = mount
    BY <1>2, <1>4
  <2>3. ViewsInv' /\ ViewsTyped' /\ Fallen' /\ NothingYet' /\ Forgettable' /\ Replaced'
    BY <1>1, <1>2, <2>1, <2>2 DEF Follows, ViewsInv, ViewsTyped, Fallen, NothingYet, Forgettable, Replaced, InMap
  <2>4. \A k \in Keys : EntryFollows(k)'
    BY <1>1, <1>2, <2>2 DEF Follows, EntryFollows, Aborted, InMap
  <2>5. Follows'
    BY <1>3, <2>3, <2>4 DEF Follows
  <2> QED
    BY <2>5, Parts, PTL
<1>5. CASE old # 0
  <2>1. /\ Inspector \in index /\ old = current[Inspector] /\ old \in DOMAIN mount[Inspector]
        /\ mount[Inspector] \in Seq(Mount)
        /\ mount' = [mount EXCEPT ![Inspector] = [@ EXCEPT ![old] = view]]
    BY <1>1, <1>2, <1>5, Typed DEF ViewsTyped
  <2>2. /\ mount'[Inspector] = [mount[Inspector] EXCEPT ![old] = view]
        /\ \A k \in Keys : k # Inspector => mount'[k] = mount[k]
        /\ mount' = [k \in Keys |-> mount'[k]]
    BY <1>1, <2>1 DEF ViewsTyped
  <2>3. /\ KeyInv(mount'[Inspector], old, Inspector \in cached, backgroundClosed)
        /\ view.aborted
        /\ mount[Inspector][old].disposal # "none" => view.disposal = mount[Inspector][old].disposal
    <3>1. PICK present, over : present = (Inspector \in cached) /\ over = backgroundClosed
      OBVIOUS
    <3>2. KeyInv(mount[Inspector], old, present, over) /\ old # 0
      BY <1>1, <1>5, <2>1, <3>1, Typed
    <3>3. view \in Endings(mount[Inspector][old])
      BY DEF Endings
    <3> HIDE DEF view
    <3>4. /\ KeyInv([mount[Inspector] EXCEPT ![old] = view], old, present, over)
          /\ view.aborted
          /\ mount[Inspector][old].disposal # "none" => view.disposal = mount[Inspector][old].disposal
      BY <3>2, <3>3, KeyReleases
    <3> QED
      BY <2>2, <3>1, <3>4
  <2>4. view.forgets = mount[Inspector][old].forgets
    BY <2>1, Typed DEF Released, Mount, InMap
  <2> HIDE DEF view, old
  <2>5. /\ mount'[Inspector] \in Seq(Mount) /\ Len(mount'[Inspector]) = Len(mount[Inspector])
        /\ DOMAIN mount'[Inspector] = DOMAIN mount[Inspector] /\ mount'[Inspector][old] = view
    BY <2>1, <2>2, <2>3 DEF KeyInv, Linked
  <2>6. ViewsInv'
    <3>1. ASSUME NEW k \in Keys
          PROVE  KeyInv(mount'[k], current'[k], (k \in cached)', backgroundClosed') /\ mount'[k] \in Seq(Mount)
      <4>1. CASE k = Inspector
        BY <4>1, <1>2, <2>1, <2>3, <2>5
      <4>2. CASE k # Inspector
        BY <4>2, <1>1, <1>2, <2>2, Typed DEF ViewsTyped
      <4> QED
        BY <4>1, <4>2
    <3> QED
      BY <2>2, <3>1 DEF ViewsInv
  <2>7. ViewsTyped'
    <3>1. \A k \in Keys : mount'[k] \in Seq(Mount) /\ Len(mount'[k]) <= MaxMounts[k]
      BY <1>1, <2>2, <2>5 DEF ViewsTyped
    <3> QED
      BY <1>1, <1>2, <2>2, <3>1 DEF ViewsTyped
  <2>8. Fallen' /\ NothingYet'
    BY <1>1, <1>2 DEF Fallen, NothingYet
  <2>9. Forgettable' /\ Replaced'
    <3>1. Replaced'
      BY <1>2, <2>1 DEF Replaced
    <3>2. ASSUME NEW k \in index', current'[k] # 0
          PROVE  ~InMap(k)'.forgets
      <4>1. k \in Keys /\ ~InMap(k).forgets
        BY <1>1, <1>2, <3>2 DEF Forgettable, RestTyped
      <4>2. CASE k = Inspector
        BY <4>1, <4>2, <1>2, <2>1, <2>4, <2>5 DEF InMap
      <4>3. CASE k # Inspector
        BY <4>1, <4>3, <1>2, <2>2 DEF InMap
      <4> QED
        BY <4>2, <4>3
    <3> QED
      BY <3>1, <3>2 DEF Forgettable
  <2>10. ASSUME NEW k \in Keys
         PROVE  EntryFollows(k)'
    <3>1. EntryFollows(k)
      BY <1>1, <1>2 DEF Follows
    <3>2. CASE k = Inspector
      BY <3>2, <1>2, <1>5, <2>1, <2>3, <2>5 DEF EntryFollows, Aborted, InMap
    <3>3. CASE k # Inspector
      BY <3>1, <3>3, <1>2, <2>2 DEF EntryFollows, Aborted, InMap
    <3> QED
      BY <3>2, <3>3
  <2>11. Follows'
    BY <1>3, <2>6, <2>7, <2>8, <2>9, <2>10 DEF Follows
  <2> QED
    BY <2>11, Parts, PTL
<1> QED
  BY <1>4, <1>5

LEMMA ReplacingStep ==
  ASSUME PageInv, OldViewDisposed \/ NewViewReady
  PROVE  PageInv'
<1>1. /\ Follows /\ RestTyped /\ ClosedHoldsNothing /\ NothingYet
      /\ ViewsTyped /\ backgroundClosed \in BOOLEAN /\ index \subseteq Keys
  BY Parts DEF Follows, RestTyped
<1>2. CASE OldViewDisposed
  <2>1. /\ replacing.stage = "disposing" /\ startup # "index"
        /\ UNCHANGED <<index, cached, startup, backgroundClosed, closed, serverVars>>
    BY <1>1, <1>2 DEF OldViewDisposed, NothingYet
  <2>2. CASE replacing.of # 0 /\ mount[Inspector][replacing.of].disposal = "rejected"
    <3>1. replacing' = NotReplacing /\ UNCHANGED <<mount, current, awaited>>
      BY <1>2, <2>2 DEF OldViewDisposed
    <3>2. RestTyped' /\ ClosedHoldsNothing'
      BY <1>1, <2>1, <3>1 DEF RestTyped, ClosedHoldsNothing, serverVars, NotReplacing
    <3> QED
      BY <2>1, <2>2, <3>1, <3>2, SamePage DEF NotReplacing, viewVars
  <2>3. CASE ~(replacing.of # 0 /\ mount[Inspector][replacing.of].disposal = "rejected")
    <3>1. /\ replacing' = [stage |-> "mounting", of |-> 0]
          /\ UpdateUnlessClosed /\ awaited' = current'
      BY <1>2, <2>3 DEF OldViewDisposed
    <3>2. CASE ~backgroundClosed
      <4>1. UpdateViews(index)
        BY <3>1, <3>2 DEF UpdateUnlessClosed
      <4>2. ViewsTyped'
        BY <2>1, <3>2, <4>1, Updates
      <4>3. RestTyped' /\ ClosedHoldsNothing'
        BY <1>1, <2>1, <3>1, <4>2 DEF RestTyped, ClosedHoldsNothing, serverVars, ViewsTyped
      <4> QED
        BY <2>1, <3>2, <4>1, <4>3, UpdatedPage
    <3>3. CASE backgroundClosed
      <4>1. UNCHANGED <<mount, current>>
        BY <3>1, <3>3 DEF UpdateUnlessClosed
      <4>2. RestTyped' /\ ClosedHoldsNothing'
        BY <1>1, <2>1, <3>1, <4>1 DEF RestTyped, ClosedHoldsNothing, serverVars, ViewsTyped
      <4>3. ViewsInv' /\ ViewsTyped' /\ Fallen' /\ NothingYet' /\ Forgettable' /\ Replaced'
        BY <1>1, <2>1, <3>1, <3>3, <4>1
           DEF Follows, ViewsInv, ViewsTyped, Fallen, NothingYet, Forgettable, Replaced, InMap
      <4>4. Follows'
        BY <2>1, <3>3, <4>2, <4>3 DEF Follows
      <4> QED
        BY <4>4, Parts, PTL
    <3> QED
      BY <1>1, <3>2, <3>3
  <2> QED
    BY <2>2, <2>3
<1>3. CASE NewViewReady
  <2>1. /\ replacing.stage = "mounting" /\ replacing' = NotReplacing /\ awaited' = NoMounts
        /\ UNCHANGED <<viewVars, startup, backgroundClosed, closed, serverVars>>
    BY <1>3 DEF NewViewReady
  <2>2. RestTyped' /\ ClosedHoldsNothing'
    BY <1>1, <2>1 DEF RestTyped, ClosedHoldsNothing, serverVars, NotReplacing, NoMounts, viewVars
  <2> QED
    BY <2>1, <2>2, SamePage DEF NotReplacing
<1> QED
  BY <1>2, <1>3

(* The servers, and the closing: what arrives after it is given back. *)
LEMMA ServersStep ==
  ASSUME PageInv, ServerSteps
  PROVE  PageInv'
<1>1. RestTyped /\ ClosedHoldsNothing /\ UNCHANGED <<backgroundVars, closed>>
  BY Parts DEF Follows, ServerSteps
<1>2. PICK s \in Servers : Attach(s) \/ RpcOpens(s) \/ Joins(s) \/ ServerViewsMount(s)
  BY DEF ServerSteps
<1>3. PICK to \in {"connecting", "joining", "mounting", "over"} : \E has \in SUBSET Resource :
        Proceeds(s, to, has) /\ (closed => has = {})
  BY <1>2 DEF Attach, RpcOpens, Joins, ServerViewsMount, Ends, Proceeds, Resource
<1>4. PICK has \in SUBSET Resource : Proceeds(s, to, has) /\ (closed => has = {})
  BY <1>3
<1>5. server' \in [Servers -> {"idle", "connecting", "joining", "mounting", "over"}]
  BY <1>1, <1>4 DEF Proceeds, RestTyped
<1>6. /\ held' \in [Servers -> SUBSET Resource]
      /\ \A t \in Servers : held'[t] \in {held[t], has}
  BY <1>1, <1>4 DEF Proceeds, RestTyped
<1>7. RestTyped' /\ ClosedHoldsNothing'
  BY <1>1, <1>4, <1>5, <1>6 DEF RestTyped, ClosedHoldsNothing, backgroundVars, viewVars
<1> QED
  BY <1>1, <1>7, SamePage DEF backgroundVars

LEMMA CloseStep ==
  ASSUME PageInv, Close
  PROVE  PageInv'
<1> DEFINE then == IF startup = "attached" THEN "over" ELSE startup
<1>1. RestTyped /\ ClosedHoldsNothing
  BY Parts DEF Follows
<1>2. /\ CloseBackground(then) /\ then \in {"index", "views", "connecting", "over"}
      /\ then = "index" => startup = "index"
      /\ UNCHANGED <<awaited, replacing, server>>
      /\ closed' = TRUE /\ held' = [s \in Servers |-> {}]
  BY <1>1 DEF Close, Closes, RestTyped
<1> HIDE DEF then
<1>3. cached' \subseteq Keys /\ index' = index /\ startup' = then /\ backgroundClosed' = TRUE
  BY <1>2, Closing DEF CloseBackground
<1>4. RestTyped' /\ ClosedHoldsNothing'
  BY <1>1, <1>2, <1>3 DEF RestTyped, ClosedHoldsNothing
<1> QED
  BY <1>2, <1>4, ClosedPage

LEMMA StutterStep ==
  ASSUME PageInv, UNCHANGED pageVars
  PROVE  PageInv'
BY DEF pageVars, viewVars, PageInv, ViewsInv, PageFollows, PageTypeOK, ViewsTypeOK, Aborted, InMap

-------------------------------------------------------------------------------
(* The theorems about the page of examples/webext/src/panel.ts. *)

(* The mounts of an entry are linked: each waits for the one before, so    *)
(* that what precedes one that has begun is over; what is cached is of a   *)
(* mount that will evict it; and replace() waits for what it has released. *)
THEOREM PageInvariant == PageSpec => []PageInv
<1>1. PageInit => PageInv
  <2> SUFFICES ASSUME PageInit PROVE Follows
    BY Parts
  <2>1. /\ mount = [k \in Keys |-> <<>>] /\ current = [k \in Keys |-> 0] /\ cached = {}
        /\ startup = "index" /\ backgroundClosed = FALSE /\ closed = FALSE /\ replacing = NotReplacing
        /\ index \subseteq Keys /\ awaited = NoMounts
    BY DEF PageInit, ViewsInit
  <2>2. ViewsTyped
    BY <2>1, MountAssumption DEF ViewsTyped
  <2>3. RestTyped
    <3>1. /\ awaited \in [Keys -> Nat] /\ replacing \in [stage : {"idle", "disposing", "mounting"}, of : Nat]
      BY <2>1 DEF NoMounts, NotReplacing
    <3>2. /\ server \in [Servers -> {"idle", "connecting", "joining", "mounting", "over"}]
          /\ held \in [Servers -> SUBSET Resource]
      BY DEF PageInit
    <3> QED
      BY <2>1, <3>1, <3>2 DEF RestTyped
  <2>4. ViewsInv
    <3>1. ASSUME NEW k \in Keys
          PROVE  KeyInv(mount[k], current[k], k \in cached, backgroundClosed)
      BY <2>1 DEF KeyInv, Linked, CacheOwned, AllGone
    <3> QED
      BY <2>2, <3>1 DEF ViewsInv, ViewsTyped
  <2> QED
    BY <2>1, <2>2, <2>3, <2>4
       DEF Follows, Fallen, ClosedHoldsNothing, NothingYet, Forgettable, Replaced, NotReplacing
<1>2. PageInv /\ [PageNext]_pageVars => PageInv'
  BY MountsStep, BackgroundStep, ReplaceStep, ReplacingStep, ServersStep, CloseStep, StutterStep
     DEF PageNext, BackgroundSteps, others
<1> QED
  BY <1>1, <1>2, PTL DEF PageSpec

(* The page shows what the index lists: every entry has a live mount and   *)
(* every live mount an entry, but for a replacement under way or one that  *)
(* could not be disposed; and what is acquired while the page closes is    *)
(* released, wherever a startup or a replacement was waiting.              *)
THEOREM PageFollowsIndex == PageSpec => []PageFollows
<1>1. PageInv => PageFollows
  BY DEF PageInv
<1> QED
  BY <1>1, PageInvariant, PTL

(* However entries come and go while renders, disposals and the states     *)
(* they wait for are under way, one mount of an entry at a time renders or *)
(* is shown, with its state cached, and no cached state is left behind.    *)
THEOREM PageKeepsOneView == PageSpec => []OneViewPerEntry
<1>1. ASSUME PageInv, NEW k \in Keys
      PROVE  /\ Cardinality({m \in DOMAIN mount[k] : Holding(k, m)}) <= 1
             /\ \A m \in DOMAIN mount[k] : mount[k][m].phase = "mounted" /\ ~mount[k][m].aborted => k \in cached
             /\ k \in cached => \E m \in DOMAIN mount[k] : Holding(k, m)
  <2>1. Linked(mount[k], current[k]) /\ CacheOwned(mount[k], k \in cached)
    BY <1>1, Typed DEF KeyInv
  <2>2. \A m : Holding(k, m) <=> Holds(mount[k][m])
    BY DEF Holding, Holds, Settled, Gone
  <2>3. CASE {m \in DOMAIN mount[k] : Holding(k, m)} = {}
    BY <2>3, <2>1, <2>2, FS_EmptySet DEF CacheOwned
  <2>4. CASE {m \in DOMAIN mount[k] : Holding(k, m)} # {}
    <3>1. PICK m \in DOMAIN mount[k] : Holding(k, m)
      BY <2>4
    <3>2. {l \in DOMAIN mount[k] : Holding(k, l)} = {m}
      BY <2>1, <2>2, <3>1, OneHolds
    <3> QED
      BY <2>1, <2>2, <3>2, FS_Singleton DEF CacheOwned
  <2> QED
    BY <2>3, <2>4
<1>2. PageInv => OneViewPerEntry
  BY <1>1 DEF OneViewPerEntry
<1> QED
  BY <1>2, PageInvariant, PTL

-------------------------------------------------------------------------------
(* The page of the JSON renderer.                                          *)

Publications == [number : 0 .. MaxPublication, listed : BOOLEAN]
Begun(view) == view.phase \in {"switching", "getting"}
EvictionComes(d) == \E i \in DOMAIN d.chain : d.chain[i] = Eviction

(* Of the publication that stands; or it is going to be evicted. *)
Stands(p, d, number) == (p.listed /\ number = p.number) \/ EvictionComes(d) \/ d.closed

(* What the page is at, and what it offers. *)
Stage(p, d) ==
  /\ d.closed => d.held = {} /\ d.current = 0 /\ ~d.mountable
  /\ "index" \in d.held <=> (d.startup = "ready" /\ ~d.closed)
  /\ "index" \in d.held => d.published = p.listed
  /\ d.current # 0 => d.published /\ d.startup = "ready"
  /\ d.startup = "over" => d.closed
  /\ d.startup = "ready" => d.mountable = (~d.closed /\ d.published /\ d.current = 0)
  /\ d.startup \notin {"ready", "over"} =>
       /\ d.view = <<>> /\ d.chain = <<>> /\ d.cached = 0 /\ d.published /\ ~d.resume
       /\ ~d.unmountable /\ ~d.selectable

(* The last mount is the one that is not over, if any. *)
LastLives(d) ==
  /\ d.current \in {0, Len(d.view)}
  /\ \A m \in DOMAIN d.view :
       /\ ~d.view[m].over <=> m = d.current
       /\ d.view[m].shown # 0 => m = d.current

(* Only the head of the chain has begun, and what is not over is its end.  *)
InChain(d) ==
  /\ \A i \in DOMAIN d.chain : d.chain[i] <= Len(d.view)
  /\ \A m \in DOMAIN d.view : Begun(d.view[m]) => d.chain # <<>> /\ d.chain[1] = m
  /\ d.current # 0 =>
       IF d.view[d.current].phase = "done" THEN d.chain = <<>>
       ELSE /\ d.chain # <<>>
            /\ \A i \in DOMAIN d.chain : d.chain[i] = d.current <=> i = Len(d.chain)

CachedStands(p, d) ==
  /\ d.cached # 0 => Stands(p, d, d.cached)
  /\ \A m \in DOMAIN d.view : d.view[m].phase = "getting" => Stands(p, d, d.view[m].asked)

ShownStands(p, d) ==
  d.current # 0 =>
    LET view == d.view[d.current]
    IN /\ view.phase = "getting" \/ view.shown # 0 => view.renderer = d.choice
       /\ view.shown # 0 => view.shown = p.number /\ d.unmountable /\ d.selectable

Chained(p, d) == d \in Document /\ LastLives(d) /\ InChain(d) /\ CachedStands(p, d) /\ ShownStands(p, d)

RendererInv ==
  /\ publication \in Publications
  /\ Chained(publication, doc)
  /\ Stage(publication, doc)

-------------------------------------------------------------------------------
LEMMA UnmountedFields ==
  ASSUME NEW d \in Document
  PROVE  LET u == Unmounted(d)
         IN /\ u \in Document
            /\ u.startup = d.startup /\ u.closed = d.closed /\ u.held = d.held /\ u.published = d.published
            /\ u.resume = d.resume /\ u.choice = d.choice /\ u.chain = d.chain /\ u.cached = d.cached
            /\ u.selectable = d.selectable
            /\ u.current = 0 /\ u.unmountable = FALSE /\ u.mountable = (~d.closed /\ d.published)
            /\ Len(u.view) = Len(d.view) /\ DOMAIN u.view = DOMAIN d.view
            /\ \A m \in DOMAIN d.view :
                 IF m = d.current
                 THEN /\ u.view[m].phase = d.view[m].phase /\ u.view[m].asked = d.view[m].asked
                      /\ u.view[m].over /\ u.view[m].shown = 0
                 ELSE u.view[m] = d.view[m]
<1> DEFINE v == [m \in DOMAIN d.view |-> IF m = d.current THEN [d.view[m] EXCEPT !.over = TRUE, !.shown = 0]
                                         ELSE d.view[m]]
<1>1. d.view \in Seq(View) /\ d.closed \in BOOLEAN /\ d.published \in BOOLEAN
  BY DEF Document
<1>2. \A m \in DOMAIN d.view :
        /\ v[m] \in View
        /\ IF m = d.current
           THEN /\ v[m].phase = d.view[m].phase /\ v[m].asked = d.view[m].asked
                /\ v[m].over /\ v[m].shown = 0
           ELSE v[m] = d.view[m]
  <2>1. ASSUME NEW view \in View
        PROVE  LET after == [view EXCEPT !.over = TRUE, !.shown = 0]
               IN /\ after \in View /\ after.phase = view.phase /\ after.asked = view.asked
                  /\ after.over /\ after.shown = 0
    <3>1. 0 \in 0 .. MaxPublication
      BY RendererAssumption
    <3> DEFINE after == [view EXCEPT !.over = TRUE, !.shown = 0]
    <3>2. after \in View
      BY <3>1 DEF View
    <3>3. after.phase = view.phase /\ after.asked = view.asked /\ after.over = TRUE /\ after.shown = 0
      BY DEF View
    <3> QED
      BY <3>2, <3>3
  <2>2. \A m \in DOMAIN d.view : d.view[m] \in View
    BY <1>1
  <2> QED
    BY <2>1, <2>2
<1>3. v \in Seq(View) /\ Len(v) = Len(d.view) /\ DOMAIN v = DOMAIN d.view
  <2>1. DOMAIN v = 1 .. Len(d.view) /\ Len(d.view) \in Nat
    BY <1>1
  <2> HIDE DEF v
  <2>2. \A m \in 1 .. Len(d.view) : v[m] \in View
    BY <1>2, <2>1
  <2>3. v \in [1 .. Len(d.view) -> View]
    <3>1. v = [m \in 1 .. Len(d.view) |-> v[m]]
      BY <2>1 DEF v
    <3> QED
      BY <2>2, <3>1
  <2> QED
    BY <2>1, <2>3, <1>1
<1> DEFINE u == [d EXCEPT !.view = v, !.current = 0, !.unmountable = FALSE, !.mountable = ~d.closed /\ d.published]
<1>4. Unmounted(d) = u
  BY DEF Unmounted
<1> HIDE DEF v
<1>5. u \in Document
  BY <1>1, <1>3 DEF Document
<1>6. /\ u.startup = d.startup /\ u.closed = d.closed /\ u.held = d.held /\ u.published = d.published
      /\ u.resume = d.resume /\ u.choice = d.choice /\ u.chain = d.chain /\ u.cached = d.cached
      /\ u.selectable = d.selectable
      /\ u.current = 0 /\ u.unmountable = FALSE /\ u.mountable = (~d.closed /\ d.published)
      /\ u.view = v
  BY DEF Document
<1> HIDE DEF u
<1> QED
  BY <1>2, <1>3, <1>4, <1>5, <1>6

LEMMA Unmounting ==
  ASSUME NEW p, NEW d, Chained(p, d)
  PROVE  Chained(p, Unmounted(d))
<1> DEFINE u == Unmounted(d)
<1>1. /\ u \in Document /\ u.closed = d.closed /\ u.chain = d.chain /\ u.cached = d.cached
      /\ u.current = 0
      /\ Len(u.view) = Len(d.view) /\ DOMAIN u.view = DOMAIN d.view
      /\ \A m \in DOMAIN d.view :
           IF m = d.current
           THEN /\ u.view[m].phase = d.view[m].phase /\ u.view[m].asked = d.view[m].asked
                /\ u.view[m].over /\ u.view[m].shown = 0
           ELSE u.view[m] = d.view[m]
  BY UnmountedFields DEF Chained
<1> SUFFICES Chained(p, u)
  OBVIOUS
<1> HIDE DEF u
<1>2. \A m \in DOMAIN d.view : m \in Nat /\ m # 0
  BY DEF Chained, Document
<1>3. LastLives(u)
  BY <1>1, <1>2 DEF Chained, LastLives
<1>4. InChain(u)
  BY <1>1, <1>2 DEF Chained, InChain, Begun
<1>5. CachedStands(p, u)
  BY <1>1, <1>2 DEF Chained, CachedStands, Stands, EvictionComes
<1>6. ShownStands(p, u)
  BY <1>1 DEF ShownStands
<1> QED
  BY <1>1, <1>3, <1>4, <1>5, <1>6 DEF Chained

NewView == [over |-> FALSE, phase |-> "queued", asked |-> 0, shown |-> 0, renderer |-> "none"]

LEMMA MountedFields ==
  ASSUME NEW d \in Document, d.published, ~d.closed, d.current = 0
  PROVE  LET u == Mounting(d)
             n == Len(d.view)
         IN /\ u \in Document
            /\ u.startup = d.startup /\ u.closed = d.closed /\ u.held = d.held /\ u.published = d.published
            /\ u.resume = d.resume /\ u.choice = d.choice /\ u.cached = d.cached
            /\ u.unmountable = d.unmountable
            /\ u.view = Append(d.view, NewView) /\ u.current = n + 1 /\ u.chain = Append(d.chain, n + 1)
            /\ u.mountable = FALSE /\ u.selectable = FALSE
<1>1. d.view \in Seq(View) /\ d.chain \in Seq(Nat) /\ Len(d.view) \in Nat
  BY DEF Document
<1> DEFINE n == Len(d.view)
           v == Append(d.view, NewView)
           c == Append(d.chain, n + 1)
<1>2. NewView \in View
  BY RendererAssumption DEF NewView, View
<1>3. v \in Seq(View) /\ c \in Seq(Nat) /\ n + 1 \in Nat
  BY <1>1, <1>2, AppendProperties
<1> DEFINE u == [d EXCEPT !.view = v, !.current = n + 1, !.chain = c, !.mountable = FALSE, !.selectable = FALSE]
<1>4. Mounting(d) = u
  BY DEF Mounting, NewView
<1> HIDE DEF v, c, n
<1>5. u \in Document
  BY <1>3 DEF Document
<1>6. /\ u.startup = d.startup /\ u.closed = d.closed /\ u.held = d.held /\ u.published = d.published
      /\ u.resume = d.resume /\ u.choice = d.choice /\ u.cached = d.cached
      /\ u.unmountable = d.unmountable
      /\ u.view = v /\ u.current = n + 1 /\ u.chain = c /\ u.mountable = FALSE /\ u.selectable = FALSE
  BY DEF Document
<1> HIDE DEF u
<1> QED
  BY <1>4, <1>5, <1>6 DEF v, c, n

LEMMA MountsNext ==
  ASSUME NEW p, NEW d, Chained(p, d)
  PROVE  Chained(p, Mounting(d))
<1>1. CASE ~d.published \/ d.closed \/ d.current # 0
  BY <1>1 DEF Mounting
<1>2. CASE d.published /\ ~d.closed /\ d.current = 0
  <2> DEFINE u == Mounting(d)
             n == Len(d.view)
  <2>1. /\ u \in Document /\ u.closed = d.closed /\ u.cached = d.cached
        /\ u.view = Append(d.view, NewView) /\ u.current = n + 1 /\ u.chain = Append(d.chain, n + 1)
    BY <1>2, MountedFields DEF Chained
  <2> SUFFICES Chained(p, u)
    OBVIOUS
  <2> HIDE DEF u
  <2>2. d.view \in Seq(View) /\ d.chain \in Seq(Nat) /\ NewView \in View
    BY RendererAssumption DEF Chained, Document, NewView, View
  <2>3. /\ n \in Nat /\ Len(u.view) = n + 1 /\ DOMAIN u.view = 1 .. n + 1 /\ DOMAIN d.view = 1 .. n
        /\ u.view[n + 1] = NewView
        /\ \A m \in 1 .. n : u.view[m] = d.view[m]
    BY <2>1, <2>2, Appended
  <2>4. /\ Len(d.chain) \in Nat /\ Len(u.chain) = Len(d.chain) + 1 /\ DOMAIN u.chain = 1 .. Len(d.chain) + 1
        /\ DOMAIN d.chain = 1 .. Len(d.chain)
        /\ u.chain[Len(d.chain) + 1] = n + 1 /\ u.chain # <<>>
        /\ \A i \in 1 .. Len(d.chain) : u.chain[i] = d.chain[i]
    <3>1. n + 1 \in Nat
      BY <2>3
    <3> HIDE DEF n
    <3>2. \A element \in Nat :
            LET longer == Append(d.chain, element)
                k == Len(d.chain)
            IN /\ Len(longer) = k + 1 /\ DOMAIN longer = 1 .. k + 1
               /\ k \in Nat /\ DOMAIN d.chain = 1 .. k
               /\ longer[k + 1] = element /\ longer # <<>>
               /\ \A i \in 1 .. k : longer[i] = d.chain[i]
      BY <2>2, Appended
    <3> QED
      BY <2>1, <3>1, <3>2
  <2>5. \A i \in DOMAIN d.chain : d.chain[i] <= n /\ d.chain[i] \in Nat
    BY <2>2 DEF Chained, InChain
  <2> HIDE DEF n
  <2>6. LastLives(u)
    BY <1>2, <2>1, <2>3 DEF Chained, LastLives, NewView
  <2>7. InChain(u)
    <3>1. \A i \in DOMAIN u.chain : u.chain[i] <= n + 1 /\ (u.chain[i] = n + 1 <=> i = Len(u.chain))
      BY <2>3, <2>4, <2>5
    <3>2. ASSUME NEW m \in DOMAIN u.view, Begun(u.view[m])
          PROVE  u.chain[1] = m
      <4>1. m \in DOMAIN d.view /\ Begun(d.view[m])
        BY <3>2, <2>3 DEF Begun, NewView
      <4>2. d.chain # <<>> /\ d.chain[1] = m
        BY <4>1 DEF Chained, InChain
      <4>3. 1 \in 1 .. Len(d.chain)
        BY <2>2, <2>4, <4>2
      <4> QED
        BY <2>4, <4>2, <4>3
    <3>3. u.view[u.current].phase = "queued"
      BY <2>1, <2>3 DEF NewView
    <3> QED
      BY <2>1, <2>3, <2>4, <3>1, <3>2, <3>3 DEF InChain
  <2>8. CachedStands(p, u)
    <3>1. EvictionComes(d) => EvictionComes(u)
      BY <2>4 DEF EvictionComes
    <3>2. \A number : Stands(p, d, number) => Stands(p, u, number)
      BY <2>1, <3>1 DEF Stands
    <3> QED
      BY <2>1, <2>3, <3>2 DEF Chained, CachedStands, NewView
  <2>9. ShownStands(p, u)
    BY <2>1, <2>3 DEF ShownStands, NewView
  <2> QED
    BY <2>1, <2>6, <2>7, <2>8, <2>9 DEF Chained
<1> QED
  BY <1>1, <1>2

(* What changes no mount, and nothing of the chain. *)
LEMMA SameMounts ==
  ASSUME NEW p, NEW d, Chained(p, d), NEW e \in Document,
         e.view = d.view, e.current = d.current, e.chain = d.chain,
         e.cached # 0 => e.cached = d.cached \/ Stands(p, d, e.cached),
         d.closed => e.closed,
         d.current # 0 => /\ e.choice = d.choice /\ e.unmountable = d.unmountable
                          /\ e.selectable = d.selectable
  PROVE  Chained(p, e)
<1>1. LastLives(e) /\ InChain(e) /\ ShownStands(p, e)
  BY DEF Chained, LastLives, InChain, ShownStands
<1>2. \A number : Stands(p, d, number) => Stands(p, e, number)
  BY DEF Stands, EvictionComes
<1>3. CachedStands(p, e)
  BY <1>2 DEF Chained, CachedStands
<1> QED
  BY <1>1, <1>3 DEF Chained

LEMMA Disposing ==
  ASSUME NEW p, NEW d, Chained(p, d)
  PROVE  LET e == Disposed(d)
         IN /\ Chained(p, e)
            /\ e.startup = d.startup /\ e.closed /\ e.held = {} /\ e.published = d.published
            /\ e.resume = d.resume /\ e.chain = d.chain /\ e.cached = d.cached
            /\ e.current = 0 /\ ~e.mountable /\ ~e.unmountable /\ ~e.selectable
            /\ Len(e.view) = Len(d.view)
<1> DEFINE u == Unmounted(d)
<1>1. /\ Chained(p, u) /\ u \in Document /\ u.current = 0 /\ u.unmountable = FALSE
      /\ u.startup = d.startup /\ u.published = d.published /\ u.resume = d.resume
      /\ u.chain = d.chain /\ u.cached = d.cached /\ Len(u.view) = Len(d.view)
  <2>1. Chained(p, u)
    BY Unmounting
  <2>2. d \in Document
    BY DEF Chained
  <2> QED
    BY <2>1, <2>2, UnmountedFields
<1> HIDE DEF u
<1> DEFINE e == [u EXCEPT !.closed = TRUE, !.held = {}, !.mountable = FALSE, !.selectable = FALSE]
<1>2. Disposed(d) = e
  BY DEF Disposed, u
<1>3. e \in Document
  BY <1>1 DEF Document
<1>4. /\ e.startup = u.startup /\ e.closed = TRUE /\ e.held = {} /\ e.published = u.published
      /\ e.resume = u.resume /\ e.chain = u.chain /\ e.cached = u.cached
      /\ e.current = u.current /\ e.mountable = FALSE /\ e.unmountable = u.unmountable
      /\ e.selectable = FALSE /\ e.view = u.view /\ e.choice = u.choice
  BY <1>1 DEF Document
<1> HIDE DEF e
<1>5. Chained(p, e)
  BY <1>1, <1>3, <1>4, SameMounts
<1> QED
  BY <1>1, <1>2, <1>4, <1>5

(* Most of what the startup does is not about mounts. *)
SameButStartup(d, e) ==
  /\ e.closed = d.closed /\ e.published = d.published
  /\ e.resume = d.resume /\ e.chain = d.chain /\ e.cached = d.cached
  /\ e.current = d.current /\ e.mountable = d.mountable
  /\ e.unmountable = d.unmountable /\ e.selectable = d.selectable /\ e.view = d.view

LEMMA Owning ==
  ASSUME NEW p, NEW d, Chained(p, d), NEW resources \in SUBSET {"client", "runtime", "choice", "index", "status"}
  PROVE  LET e == Owns(d, resources)
         IN /\ Chained(p, e) /\ SameButStartup(d, e) /\ e.startup = d.startup
            /\ e.held = IF d.closed THEN d.held ELSE d.held \cup resources
<1> DEFINE kept == IF d.closed THEN d.held ELSE d.held \cup resources
           e == [d EXCEPT !.held = kept]
<1>1. d \in Document
  BY DEF Chained
<1>2. kept \in SUBSET {"client", "runtime", "choice", "index", "status"}
  BY <1>1 DEF Document
<1>3. Owns(d, resources) = e
  BY DEF Owns
<1> HIDE DEF kept
<1>4. e \in Document
  BY <1>1, <1>2 DEF Document
<1>5. /\ e.startup = d.startup /\ e.closed = d.closed /\ e.published = d.published
      /\ e.resume = d.resume /\ e.chain = d.chain /\ e.cached = d.cached
      /\ e.current = d.current /\ e.mountable = d.mountable
      /\ e.unmountable = d.unmountable /\ e.selectable = d.selectable /\ e.view = d.view
      /\ e.choice = d.choice /\ e.held = kept
  BY <1>1 DEF Document
<1> HIDE DEF e
<1>6. Chained(p, e)
  BY <1>4, <1>5, SameMounts
<1> QED
  BY <1>3, <1>5, <1>6 DEF kept, SameButStartup

Starts(d, reached) == [d EXCEPT !.startup = reached]

LEMMA Starting ==
  ASSUME NEW p, NEW d, Chained(p, d), NEW reached \in {"connecting", "trusting", "runtime", "index", "ready", "over"}
  PROVE  LET e == Starts(d, reached)
         IN Chained(p, e) /\ SameButStartup(d, e) /\ e.startup = reached /\ e.held = d.held
<1> DEFINE e == Starts(d, reached)
<1>1. d \in Document
  BY DEF Chained
<1>2. e \in Document
  BY <1>1 DEF Document, Starts
<1>3. /\ SameButStartup(d, e) /\ e.startup = reached /\ e.held = d.held /\ e.choice = d.choice
  BY <1>1 DEF Document, Starts, SameButStartup
<1> HIDE DEF e
<1>4. Chained(p, e)
  BY <1>2, <1>3, SameMounts DEF SameButStartup
<1> QED
  BY <1>3, <1>4 DEF e

(* An eviction makes up for any change of the publication. *)
LEMMA Evicting ==
  ASSUME NEW p, NEW q, NEW d, Chained(p, d), d.current = 0
  PROVE  LET e == Evicts(d)
         IN /\ Chained(q, e)
            /\ e.startup = d.startup /\ e.closed = d.closed /\ e.held = d.held /\ e.published = d.published
            /\ e.resume = d.resume /\ e.cached = d.cached
            /\ e.current = d.current /\ e.mountable = d.mountable
            /\ e.unmountable = d.unmountable /\ e.selectable = d.selectable /\ e.view = d.view
<1> DEFINE c == Append(d.chain, Eviction)
           e == [d EXCEPT !.chain = c]
<1>1. d \in Document /\ d.chain \in Seq(Nat) /\ 0 \in Nat /\ Len(d.view) \in Nat
  BY DEF Chained, Document
<1>2. /\ c \in Seq(Nat) /\ Len(c) = Len(d.chain) + 1 /\ DOMAIN c = 1 .. Len(d.chain) + 1
      /\ DOMAIN d.chain = 1 .. Len(d.chain) /\ Len(d.chain) \in Nat
      /\ c[Len(d.chain) + 1] = 0 /\ c # <<>>
      /\ \A i \in 1 .. Len(d.chain) : c[i] = d.chain[i]
  <2>1. \A element \in Nat :
          LET longer == Append(d.chain, element)
              k == Len(d.chain)
          IN /\ longer \in Seq(Nat) /\ Len(longer) = k + 1 /\ DOMAIN longer = 1 .. k + 1
             /\ k \in Nat /\ DOMAIN d.chain = 1 .. k
             /\ longer[k + 1] = element /\ longer # <<>>
             /\ \A i \in 1 .. k : longer[i] = d.chain[i]
    BY <1>1, Appended
  <2> QED
    BY <1>1, <2>1 DEF Eviction
<1> HIDE DEF c
<1>3. Evicts(d) = e
  BY DEF Evicts, c
<1>4. e \in Document
  BY <1>1, <1>2 DEF Document
<1>5. /\ e.startup = d.startup /\ e.closed = d.closed /\ e.held = d.held /\ e.published = d.published
      /\ e.resume = d.resume /\ e.chain = c /\ e.cached = d.cached
      /\ e.current = d.current /\ e.mountable = d.mountable
      /\ e.unmountable = d.unmountable /\ e.selectable = d.selectable /\ e.view = d.view
      /\ e.choice = d.choice
  BY <1>1 DEF Document
<1> HIDE DEF e
<1>6. LastLives(e) /\ ShownStands(q, e)
  BY <1>5 DEF Chained, LastLives, ShownStands
<1>7. InChain(e)
  <2>1. ASSUME NEW i \in DOMAIN e.chain
        PROVE  e.chain[i] <= Len(e.view)
    <3>1. i \in 1 .. Len(d.chain) => e.chain[i] <= Len(e.view)
      BY <1>2, <1>5 DEF Chained, InChain
    <3>2. i = Len(d.chain) + 1 => e.chain[i] <= Len(e.view)
      BY <1>1, <1>2, <1>5
    <3> QED
      BY <1>2, <1>5, <2>1, <3>1, <3>2
  <2>2. ASSUME NEW m \in DOMAIN e.view, Begun(e.view[m])
        PROVE  e.chain # <<>> /\ e.chain[1] = m
    <3>1. d.chain # <<>> /\ d.chain[1] = m
      BY <2>2, <1>5 DEF Chained, InChain
    <3>2. 1 \in 1 .. Len(d.chain)
      BY <1>1, <1>2, <3>1
    <3> QED
      BY <1>2, <1>5, <3>1, <3>2
  <2> QED
    BY <1>5, <2>1, <2>2 DEF InChain
<1>8. EvictionComes(e)
  BY <1>2, <1>5 DEF EvictionComes, Eviction
<1>9. CachedStands(q, e)
  BY <1>8 DEF CachedStands, Stands
<1> QED
  BY <1>3, <1>4, <1>5, <1>6, <1>7, <1>9 DEF Chained

LEMMA Republished ==
  ASSUME NEW p, NEW q, NEW d, Chained(p, d), d.current = 0,
         ~p.listed \/ d.closed \/ (d.view = <<>> /\ d.cached = 0)
  PROVE  Chained(q, d)
<1>1. CachedStands(q, d)
  BY DEF Chained, CachedStands, Stands
<1> QED
  BY <1>1 DEF Chained, ShownStands

(* update(): the withdrawal of what is published unmounts, and evicts; its *)
(* return mounts again what the withdrawal has unmounted.                  *)
MayHaveMounted(d, e) ==
  /\ e.startup = d.startup /\ e.closed = d.closed /\ e.held = d.held /\ e.published = d.published
  /\ e.current # 0 <=> (d.published /\ ~d.closed)
  /\ e.current = 0 \/ d.current # 0 => e = d
  /\ e.current # 0 /\ d.current = 0 => e.mountable = FALSE

LEMMA MountingFields ==
  ASSUME NEW p, NEW d, Chained(p, d), d.current # 0 => d.published, d.closed => d.current = 0
  PROVE  Chained(p, Mounting(d)) /\ MayHaveMounted(d, Mounting(d))
<1>1. Chained(p, Mounting(d)) /\ d \in Document
  BY MountsNext DEF Chained
<1>2. CASE ~d.published \/ d.closed \/ d.current # 0
  BY <1>1, <1>2 DEF Mounting, Document, MayHaveMounted
<1>3. CASE d.published /\ ~d.closed /\ d.current = 0
  <2>1. Len(d.view) + 1 # 0
    BY <1>1 DEF Document
  <2> DEFINE e == Mounting(d)
  <2>2. /\ e.startup = d.startup /\ e.closed = d.closed /\ e.held = d.held /\ e.published = d.published
        /\ e.current = Len(d.view) + 1 /\ e.mountable = FALSE
    BY <1>1, <1>3, MountedFields
  <2> HIDE DEF e
  <2> QED
    BY <1>1, <1>3, <2>1, <2>2 DEF e, MayHaveMounted
<1> QED
  BY <1>2, <1>3

UpdatedTo(d, e, available) ==
  /\ e.startup = d.startup /\ e.closed = d.closed /\ e.held = d.held
  /\ e.published = available
  /\ e.current # 0 => available
  /\ e.closed => e.current = 0
  /\ IF d.published <=> available THEN e = d
     ELSE /\ e.mountable = (~d.closed /\ available /\ e.current = 0)
          /\ ~d.resume => e.current = 0

LEMMA Updating ==
  ASSUME NEW p, NEW q, NEW d, Chained(p, d), NEW available \in BOOLEAN,
         d.current # 0 => d.published, d.closed => d.current = 0,
         Chained(q, d) \/ (~available /\ d.published)
  PROVE  Chained(q, Updated(d, available)) /\ UpdatedTo(d, Updated(d, available), available)
<1>1. d \in Document /\ d.published \in BOOLEAN /\ d.closed \in BOOLEAN
  BY DEF Chained, Document
<1>2. CASE available = d.published
  BY <1>1, <1>2 DEF Updated, UpdatedTo
<1>3. CASE available /\ ~d.published
  <2> DEFINE back == [d EXCEPT !.published = TRUE, !.mountable = ~d.closed]
  <2>1. Updated(d, available) = IF d.resume THEN Mounting(back) ELSE back
    BY <1>1, <1>3 DEF Updated
  <2>2. back \in Document
    BY <1>1 DEF Document
  <2>3. /\ back.startup = d.startup /\ back.closed = d.closed /\ back.held = d.held
        /\ back.published = TRUE /\ back.mountable = ~d.closed /\ back.current = d.current
        /\ back.view = d.view /\ back.chain = d.chain /\ back.cached = d.cached
        /\ back.choice = d.choice /\ back.unmountable = d.unmountable /\ back.selectable = d.selectable
    BY <1>1 DEF Document
  <2> HIDE DEF back
  <2>4. Chained(q, d)
    BY <1>3
  <2>5. Chained(q, back)
    BY <2>2, <2>3, <2>4, SameMounts
  <2>6. CASE d.resume
    <3> DEFINE e == Mounting(back)
    <3>1. /\ Chained(q, e)
          /\ e.startup = d.startup /\ e.closed = d.closed /\ e.held = d.held /\ e.published = TRUE
          /\ e.current # 0 <=> ~d.closed
          /\ e.mountable = (~d.closed /\ e.current = 0)
      <4>0. /\ back.current # 0 => back.published
            /\ back.closed => back.current = 0
        BY <2>3
      <4>1. Chained(q, e) /\ MayHaveMounted(back, e)
        BY <2>5, <4>0, MountingFields
      <4> HIDE DEF e
      <4>2. back.current = 0
        BY <1>3, <2>3
      <4> QED
        BY <1>1, <2>3, <4>1, <4>2 DEF MayHaveMounted
    <3> QED
      BY <1>1, <1>3, <2>1, <2>6, <3>1 DEF UpdatedTo
  <2>7. CASE ~d.resume
    BY <1>1, <1>3, <2>1, <2>3, <2>5, <2>7 DEF UpdatedTo
  <2> QED
    BY <2>6, <2>7, <1>1 DEF Document
<1>4. CASE ~available /\ d.published
  <2> DEFINE gone == [d EXCEPT !.published = FALSE, !.resume = d.current # 0]
             u == Unmounted(gone)
  <2>1. Updated(d, available) = Evicts(u)
    BY <1>1, <1>4 DEF Updated
  <2>2. gone \in Document
    BY <1>1 DEF Document
  <2>3. /\ gone.startup = d.startup /\ gone.closed = d.closed /\ gone.held = d.held
        /\ gone.published = FALSE /\ gone.current = d.current
        /\ gone.view = d.view /\ gone.chain = d.chain /\ gone.cached = d.cached
        /\ gone.choice = d.choice /\ gone.unmountable = d.unmountable /\ gone.selectable = d.selectable
    BY <1>1 DEF Document
  <2> HIDE DEF gone
  <2>4. Chained(p, gone)
    BY <2>2, <2>3, SameMounts
  <2>5. /\ Chained(p, u) /\ u.current = 0 /\ u.startup = d.startup /\ u.closed = d.closed
        /\ u.held = d.held /\ u.published = FALSE /\ u.mountable = FALSE
    BY <2>2, <2>3, <2>4, Unmounting, UnmountedFields
  <2> HIDE DEF u
  <2>6. LET e == Evicts(u)
        IN /\ Chained(q, e) /\ e.current = 0 /\ e.startup = d.startup /\ e.closed = d.closed
           /\ e.held = d.held /\ e.published = FALSE /\ e.mountable = FALSE
    BY <2>5, Evicting
  <2> QED
    BY <1>1, <1>4, <2>1, <2>6 DEF UpdatedTo
<1> QED
  BY <1>1, <1>2, <1>3, <1>4

-------------------------------------------------------------------------------
(* The publication and the startup. *)

Sound(p, d) == Chained(p, d) /\ Stage(p, d)
Early(d) == d.startup \notin {"ready", "over"}

LEMMA DocumentTypes ==
  ASSUME NEW p, NEW d, Chained(p, d)
  PROVE  /\ d.closed \in BOOLEAN /\ d.published \in BOOLEAN /\ d.resume \in BOOLEAN
         /\ d.mountable \in BOOLEAN /\ d.unmountable \in BOOLEAN /\ d.selectable \in BOOLEAN
         /\ d.current \in Nat /\ d.view \in Seq(View) /\ d.chain \in Seq(Nat) /\ Len(d.view) \in Nat
         /\ d.startup \in {"connecting", "trusting", "runtime", "index", "ready", "over"}
         /\ d.choice \in {"reference", "custom"} /\ d.cached \in 0 .. MaxPublication
         /\ d.held \in SUBSET {"client", "runtime", "choice", "index", "status"}
BY DEF Chained, Document

LEMMA PublicationStep ==
  ASSUME RendererInv, PublicationChanges
  PROVE  RendererInv'
<1> DEFINE p == publication
           q == publication'
<1>1. /\ p \in Publications /\ Chained(p, doc) /\ Stage(p, doc)
      /\ doc.closed \in BOOLEAN /\ doc.published \in BOOLEAN /\ doc.resume \in BOOLEAN
      /\ doc.startup \in {"connecting", "trusting", "runtime", "index", "ready", "over"}
  BY DocumentTypes DEF RendererInv
<1>2. /\ q \in Publications
      /\ q.listed = ~p.listed
  <2>1. CASE p.listed
    <3>1. q = [p EXCEPT !.listed = FALSE]
      BY <2>1 DEF PublicationChanges
    <3> QED
      BY <1>1, <2>1, <3>1 DEF Publications
  <2>2. CASE ~p.listed
    <3>1. q = [number |-> p.number + 1, listed |-> TRUE] /\ q.number <= MaxPublication
      BY <2>2 DEF PublicationChanges
    <3>2. p.number + 1 \in 0 .. MaxPublication
      BY <1>1, <3>1, RendererAssumption DEF Publications
    <3> QED
      BY <1>1, <2>2, <3>1, <3>2 DEF Publications
  <2> QED
    BY <2>1, <2>2
<1>3. doc' = IF "index" \in doc.held THEN Updated(doc, q.listed) ELSE doc
  BY DEF PublicationChanges, Becomes
<1>4. CASE "index" \in doc.held
  <2>1. /\ doc.startup = "ready" /\ ~doc.closed /\ doc.published = p.listed
        /\ doc.current # 0 => doc.published
    BY <1>1, <1>4 DEF Stage
  <2>2. Chained(q, doc) \/ (~q.listed /\ doc.published)
    BY <1>1, <1>2, <2>1, Republished DEF Publications
  <2> DEFINE e == Updated(doc, q.listed)
  <2>3. q.listed \in BOOLEAN
    BY <1>2 DEF Publications
  <2> HIDE DEF q
  <2>4. Chained(q, e) /\ UpdatedTo(doc, e, q.listed)
    BY <1>1, <2>1, <2>2, <2>3, Updating
  <2> HIDE DEF e
  <2>5. Stage(q, e)
    BY <1>1, <1>2, <1>4, <2>1, <2>3, <2>4 DEF Stage, Publications, UpdatedTo
  <2> QED
    BY <1>2, <1>3, <1>4, <2>4, <2>5 DEF RendererInv, e, q
<1>5. CASE "index" \notin doc.held
  <2>1. doc.current = 0 /\ (doc.closed \/ (doc.view = <<>> /\ doc.cached = 0))
    BY <1>1, <1>5 DEF Stage
  <2>2. Chained(q, doc)
    BY <1>1, <2>1, Republished
  <2>3. Stage(q, doc)
    BY <1>1, <1>5 DEF Stage
  <2> QED
    BY <1>2, <1>3, <1>5, <2>2, <2>3 DEF RendererInv
<1> QED
  BY <1>4, <1>5

LEMMA EarlyOwns ==
  ASSUME NEW p, NEW d, Sound(p, d), Early(d), NEW resources \in SUBSET {"client", "runtime", "choice"}
  PROVE  Sound(p, Owns(d, resources)) /\ Early(Owns(d, resources))
<1> DEFINE e == Owns(d, resources)
<1>1. /\ Chained(p, e)
      /\ e.startup = d.startup /\ SameButStartup(d, e)
      /\ e.held = IF d.closed THEN d.held ELSE d.held \cup resources
  BY Owning DEF Sound
<1> HIDE DEF e
<1>2. Stage(p, e)
  BY <1>1 DEF Sound, Early, Stage, SameButStartup
<1> QED
  BY <1>1, <1>2 DEF Sound, Early, e

LEMMA EarlyProceeds ==
  ASSUME NEW p, NEW d, Sound(p, d), Early(d), NEW reached \in {"trusting", "runtime", "index"}
  PROVE  Sound(p, Proceeding(d, reached))
<1> DEFINE to == IF d.closed THEN "over" ELSE reached
           e == Starts(d, to)
<1>1. to \in {"connecting", "trusting", "runtime", "index", "ready", "over"}
  OBVIOUS
<1>2. Proceeding(d, reached) = e
  BY DEF Proceeding, Starts
<1>3. to = "over" <=> d.closed
  OBVIOUS
<1>4. to # "ready"
  OBVIOUS
<1> HIDE DEF to
<1>5. /\ Chained(p, e)
      /\ e.startup = to /\ e.held = d.held /\ SameButStartup(d, e)
  BY <1>1, Starting DEF Sound
<1> HIDE DEF e
<1>6. Stage(p, e)
  BY <1>3, <1>4, <1>5 DEF Sound, Early, Stage, SameButStartup
<1> QED
  BY <1>2, <1>5, <1>6 DEF Sound

LEMMA IndexObserved ==
  ASSUME NEW p \in Publications, NEW d, Sound(p, d), Early(d)
  PROVE  Sound(p, [Mounting(Owns(Updated(Owns(d, {"index"}), p.listed), {"status"})) EXCEPT !.startup = "ready"])
<1> DEFINE d1 == Owns(d, {"index"})
           d2 == Updated(d1, p.listed)
           d3 == Owns(d2, {"status"})
           d4 == Mounting(d3)
           e == Starts(d4, "ready")
<1>0. /\ d.closed \in BOOLEAN /\ d.published \in BOOLEAN /\ p.listed \in BOOLEAN
      /\ d.mountable \in BOOLEAN /\ d.current = 0 /\ d.published /\ ~d.resume
      /\ d.closed => d.held = {} /\ ~d.mountable
  BY DocumentTypes DEF Sound, Early, Stage, Publications
<1>1. /\ Chained(p, d1) /\ d1.closed = d.closed /\ d1.published = TRUE /\ d1.current = 0
      /\ d1.mountable = d.mountable /\ d1.resume = FALSE
      /\ d1.held = IF d.closed THEN d.held ELSE d.held \cup {"index"}
  <2>1. /\ Chained(p, d1) /\ d1.closed = d.closed /\ d1.published = d.published /\ d1.current = d.current
        /\ d1.mountable = d.mountable /\ d1.resume = d.resume
        /\ d1.held = IF d.closed THEN d.held ELSE d.held \cup {"index"}
    BY Owning DEF Sound, SameButStartup
  <2>2. d.resume = FALSE /\ d.published = TRUE
    BY <1>0, DocumentTypes DEF Sound
  <2> QED
    BY <1>0, <2>1, <2>2
<1> HIDE DEF d1
<1>2. /\ Chained(p, d2) /\ d2.closed = d.closed /\ d2.held = d1.held /\ d2.published = p.listed
      /\ d2.current = 0
      /\ IF p.listed THEN d2.mountable = d.mountable ELSE d2.mountable = FALSE
  <2>1. Chained(p, d2) /\ UpdatedTo(d1, d2, p.listed)
    BY <1>0, <1>1, Updating
  <2> QED
    BY <1>0, <1>1, <2>1 DEF UpdatedTo
<1> HIDE DEF d2
<1>3. /\ Chained(p, d3) /\ d3.closed = d.closed /\ d3.published = p.listed /\ d3.current = 0
      /\ d3.mountable = d2.mountable
      /\ d3.held = IF d.closed THEN d2.held ELSE d2.held \cup {"status"}
  BY <1>2, Owning DEF SameButStartup
<1> HIDE DEF d3
<1>4. /\ Chained(p, d4) /\ d4.closed = d.closed /\ d4.held = d3.held /\ d4.published = p.listed
      /\ d4.current # 0 <=> (p.listed /\ ~d.closed)
      /\ IF d4.current = 0 THEN d4.mountable = d3.mountable ELSE d4.mountable = FALSE
  BY <1>0, <1>3, MountingFields DEF MayHaveMounted
<1> HIDE DEF d4
<1>5. /\ Chained(p, e) /\ e.startup = "ready" /\ e.closed = d.closed /\ e.held = d3.held
      /\ e.published = p.listed /\ e.current = d4.current /\ e.mountable = d4.mountable
  BY <1>4, Starting DEF SameButStartup
<1> SUFFICES Sound(p, e)
  BY Zenon DEF d1, d2, d3, d4, Starts
<1> HIDE DEF e
<1>6. /\ d.closed => e.held = {}
      /\ ~d.closed => "index" \in e.held
  BY <1>0, <1>1, <1>2, <1>3, <1>5
<1>7. Stage(p, e)
  BY <1>0, <1>2, <1>3, <1>4, <1>5, <1>6 DEF Stage
<1> QED
  BY <1>5, <1>7 DEF Sound

LEMMA StartupFails ==
  ASSUME NEW p, NEW d, Sound(p, d)
  PROVE  Sound(p, Disposed(d)) /\ Sound(p, [Disposed(d) EXCEPT !.startup = "over"])
<1> DEFINE u == Disposed(d)
           e == Starts(u, "over")
<1>1. /\ Chained(p, u)
      /\ u.startup = d.startup /\ u.closed /\ u.held = {} /\ u.published = d.published
      /\ u.resume = d.resume /\ u.chain = d.chain /\ u.cached = d.cached
      /\ u.current = 0 /\ ~u.mountable /\ ~u.unmountable /\ ~u.selectable
      /\ Len(u.view) = Len(d.view)
  BY Disposing DEF Sound
<1> HIDE DEF u
<1>2. u.closed = TRUE /\ u.mountable = FALSE
  BY <1>1, DocumentTypes
<1>3. d.view = <<>> => u.view = <<>>
  BY <1>1, DocumentTypes
<1>4. Stage(p, u)
  BY <1>1, <1>2, <1>3 DEF Sound, Stage
<1>5. /\ Chained(p, e)
      /\ e.startup = "over" /\ e.closed = u.closed /\ e.held = u.held
      /\ e.current = u.current /\ e.mountable = u.mountable
  <2>1. Chained(p, u)
    BY <1>1
  <2>2. Chained(p, e) /\ SameButStartup(u, e) /\ e.startup = "over" /\ e.held = u.held
    BY <2>1, Starting
  <2> QED
    BY <2>2 DEF SameButStartup
<1> SUFFICES Sound(p, u) /\ Sound(p, e)
  BY Zenon DEF u, Starts
<1> HIDE DEF e
<1>6. Stage(p, e)
  BY <1>1, <1>2, <1>5 DEF Stage
<1> QED
  BY <1>1, <1>4, <1>5, <1>6 DEF Sound

LEMMA StartupStep ==
  ASSUME RendererInv, StartupProceeds
  PROVE  RendererInv'
<1>1. /\ publication \in Publications /\ publication' = publication
      /\ Sound(publication, doc)
  BY DEF RendererInv, Sound, StartupProceeds
<1> SUFFICES Sound(publication, doc')
  BY <1>1 DEF RendererInv, Sound
<1>2. CASE doc.startup = "connecting" /\ doc' = Proceeding(Owns(doc, {"client"}), "trusting")
  <2>1. Early(doc)
    BY <1>2 DEF Early
  <2> QED
    BY <1>1, <1>2, <2>1, EarlyOwns, EarlyProceeds
<1>3. CASE doc.startup = "trusting" /\ doc' = Proceeding(doc, "runtime")
  <2>1. Early(doc)
    BY <1>3 DEF Early
  <2> QED
    BY <1>1, <1>3, <2>1, EarlyProceeds
<1>4. CASE /\ doc.startup = "runtime"
           /\ doc' = Proceeding(Owns(Owns(doc, {"runtime"}), {"choice"}), "index")
  <2>1. Early(doc)
    BY <1>4 DEF Early
  <2>2. Sound(publication, Owns(doc, {"runtime"})) /\ Early(Owns(doc, {"runtime"}))
    BY <1>1, <2>1, EarlyOwns
  <2> QED
    BY <1>4, <2>2, EarlyOwns, EarlyProceeds
<1>5. CASE /\ doc.startup = "index"
           /\ doc' = [Mounting(Owns(Updated(Owns(doc, {"index"}), publication.listed), {"status"}))
                        EXCEPT !.startup = "ready"]
  <2>1. Early(doc)
    BY <1>5 DEF Early
  <2> QED
    BY <1>1, <1>5, <2>1, IndexObserved
<1>6. CASE doc' = [Disposed(doc) EXCEPT !.startup = "over"]
  BY <1>1, <1>6, StartupFails
<1> QED
  BY <1>2, <1>3, <1>4, <1>5, <1>6 DEF StartupProceeds, Becomes

-------------------------------------------------------------------------------
(* The user. *)

LEMMA UserStep ==
  ASSUME RendererInv, UserActs
  PROVE  RendererInv'
<1> DEFINE p == publication
           u == Unmounted(doc)
<1>1. /\ p \in Publications /\ publication' = p /\ Chained(p, doc) /\ Stage(p, doc) /\ ~doc.closed
      /\ doc \in Document
  BY DEF RendererInv, UserActs, Chained
<1> SUFFICES Sound(p, doc')
  BY <1>1 DEF RendererInv, Sound
<1>2. /\ Chained(p, u) /\ u \in Document
      /\ u.startup = doc.startup /\ u.closed = doc.closed /\ u.held = doc.held /\ u.published = doc.published
      /\ u.current = 0 /\ u.mountable = (~doc.closed /\ doc.published)
  BY <1>1, Unmounting, UnmountedFields
<1>3. CASE doc.startup = "ready" /\ doc.mountable /\ doc' = Mounting(doc)
  <2>1. doc.current = 0 /\ doc.published
    BY <1>1, <1>3 DEF Stage
  <2>2. Chained(p, doc') /\ MayHaveMounted(doc, doc')
    BY <1>1, <1>3, <2>1, MountingFields
  <2>3. Stage(p, doc')
    BY <1>1, <1>3, <2>1, <2>2, DocumentTypes DEF Stage, MayHaveMounted
  <2> QED
    BY <2>2, <2>3 DEF Sound
<1>4. doc.unmountable \/ doc.selectable => doc.startup = "ready"
  BY <1>1 DEF Stage
<1> HIDE DEF u
<1>5. CASE doc.unmountable /\ doc' = u
  <2>1. Stage(p, u)
    BY <1>1, <1>2, <1>4, <1>5 DEF Stage
  <2> QED
    BY <1>2, <1>5, <2>1 DEF Sound
<1>6. CASE /\ doc.selectable
           /\ \E choice \in {"reference", "custom"} \ {doc.choice} :
                LET chosen == [u EXCEPT !.choice = choice]
                IN doc' = IF doc.current # 0 THEN Mounting(chosen) ELSE chosen
  <2>1. PICK choice \in {"reference", "custom"} :
          doc' = IF doc.current # 0 THEN Mounting([u EXCEPT !.choice = choice]) ELSE [u EXCEPT !.choice = choice]
    BY <1>6
  <2> DEFINE chosen == [u EXCEPT !.choice = choice]
  <2>2. chosen \in Document
    BY <1>2 DEF Document
  <2>3. /\ chosen.startup = u.startup /\ chosen.closed = u.closed /\ chosen.held = u.held
        /\ chosen.published = u.published /\ chosen.mountable = u.mountable /\ chosen.current = u.current
        /\ chosen.view = u.view /\ chosen.chain = u.chain /\ chosen.cached = u.cached
    BY <1>2 DEF Document
  <2> HIDE DEF chosen
  <2>4. Chained(p, chosen)
    BY <1>2, <2>2, <2>3, SameMounts
  <2>5. Chained(p, Mounting(chosen)) /\ MayHaveMounted(chosen, Mounting(chosen))
    BY <1>2, <2>3, <2>4, MountingFields
  <2>6. Stage(p, chosen)
    BY <1>1, <1>2, <1>4, <1>6, <2>3 DEF Stage
  <2>7. Stage(p, Mounting(chosen))
    <3> DEFINE e == Mounting(chosen)
    <3>1. Chained(p, e) /\ MayHaveMounted(chosen, e)
      BY <2>5
    <3> HIDE DEF e
    <3>2. Stage(p, e)
      BY <1>1, <1>2, <1>4, <1>6, <2>3, <3>1, DocumentTypes DEF Stage, MayHaveMounted
    <3> QED
      BY <3>2 DEF e
  <2> QED
    BY <2>1, <2>4, <2>5, <2>6, <2>7 DEF Sound, chosen
<1>7. CASE doc' = Disposed(doc)
  BY <1>1, <1>7, StartupFails DEF Sound
<1> QED
  BY <1>3, <1>5, <1>6, <1>7 DEF UserActs, Becomes, u

-------------------------------------------------------------------------------
(* The chain. *)

LEMMA TailOf ==
  ASSUME NEW S, NEW sequence \in Seq(S), sequence # <<>>
  PROVE  /\ Tail(sequence) \in Seq(S) /\ Len(sequence) \in Nat /\ Len(sequence) # 0
         /\ Len(Tail(sequence)) = Len(sequence) - 1
         /\ DOMAIN Tail(sequence) = 1 .. Len(sequence) - 1 /\ DOMAIN sequence = 1 .. Len(sequence)
         /\ \A i \in 1 .. Len(sequence) - 1 : Tail(sequence)[i] = sequence[i + 1]
         /\ Head(sequence) = sequence[1]
OBVIOUS

(* The mount of a turn, at another phase. *)
NextPhase(d, e, m, view) ==
  /\ e \in Document
  /\ e.current = d.current /\ e.cached = d.cached /\ e.chain = d.chain /\ e.closed = d.closed
  /\ e.choice = d.choice /\ e.unmountable = d.unmountable /\ e.selectable = d.selectable
  /\ e.view = [d.view EXCEPT ![m] = view]

LEMMA TurnProceeds ==
  ASSUME NEW p, NEW d, NEW e, Chained(p, d), NEW m \in DOMAIN d.view,
         NEW view \in View, NextPhase(d, e, m, view),
         d.chain # <<>>, d.chain[1] = m, ~d.view[m].over,
         view.phase \in {"switching", "getting"}, ~view.over, view.shown = d.view[m].shown,
         view.phase = "getting" => Stands(p, d, view.asked) /\ view.renderer = d.choice,
         view.phase = "switching" => view.renderer = d.view[m].renderer
  PROVE  Chained(p, e)
<1>1. d.view \in Seq(View) /\ m \in Nat /\ m # 0
  BY DEF Chained, Document
<1>2. /\ DOMAIN e.view = DOMAIN d.view /\ Len(e.view) = Len(d.view) /\ e.view[m] = view
      /\ \A l \in DOMAIN d.view : l # m => e.view[l] = d.view[l]
  BY <1>1 DEF NextPhase
<1>3. m = d.current
  BY DEF Chained, LastLives
<1>4. LastLives(e)
  BY <1>2, <1>3 DEF Chained, LastLives, NextPhase
<1>5. InChain(e)
  BY <1>1, <1>2, <1>3 DEF Chained, InChain, NextPhase, Begun
<1>6. \A number : Stands(p, d, number) <=> Stands(p, e, number)
  BY DEF Stands, EvictionComes, NextPhase
<1>7. CachedStands(p, e)
  BY <1>2, <1>6 DEF Chained, CachedStands, NextPhase
<1>8. ShownStands(p, e)
  BY <1>1, <1>2, <1>3 DEF Chained, ShownStands, NextPhase
<1> QED
  BY <1>4, <1>5, <1>7, <1>8 DEF Chained, NextPhase

(* The turn of a mount is over: its view is what it comes to. *)
EndsTurn(d, e, m, view) ==
  /\ e \in Document
  /\ e.current = d.current /\ e.cached = d.cached /\ e.chain = Tail(d.chain) /\ e.closed = d.closed
  /\ e.choice = d.choice
  /\ e.view = [d.view EXCEPT ![m] = view]

LEMMA TurnEnds ==
  ASSUME NEW p, NEW d, NEW e, Chained(p, d), NEW m \in DOMAIN d.view,
         NEW view \in View, EndsTurn(d, e, m, view),
         d.chain # <<>>, d.chain[1] = m,
         view.phase = "done", view.over = d.view[m].over,
         view.shown # 0 =>
           /\ m = d.current /\ view.renderer = d.choice /\ view.shown = p.number
           /\ e.unmountable /\ e.selectable,
         d.current \notin {0, m} => e.unmountable = d.unmountable /\ e.selectable = d.selectable
  PROVE  Chained(p, e)
<1>1. d.view \in Seq(View) /\ d.chain \in Seq(Nat) /\ m \in Nat /\ m # 0
  BY DEF Chained, Document
<1>2. /\ DOMAIN e.view = DOMAIN d.view /\ Len(e.view) = Len(d.view) /\ e.view[m] = view
      /\ \A l \in DOMAIN d.view : l # m => e.view[l] = d.view[l]
  BY <1>1 DEF EndsTurn
<1> DEFINE n == Len(d.chain)
<1>3. /\ n \in Nat /\ n # 0 /\ Len(e.chain) = n - 1 /\ DOMAIN e.chain = 1 .. n - 1
      /\ DOMAIN d.chain = 1 .. n /\ e.chain \in Seq(Nat)
      /\ \A i \in 1 .. n - 1 : e.chain[i] = d.chain[i + 1]
  <2>1. e.chain = Tail(d.chain)
    BY DEF EndsTurn
  <2> QED
    BY <1>1, <2>1, TailOf
<1> HIDE DEF n
<1>4. LastLives(e)
  BY <1>2 DEF Chained, LastLives, EndsTurn
<1>5. InChain(e)
  <2>1. \A i \in DOMAIN e.chain : e.chain[i] <= Len(e.view)
    <3>1. \A i \in 1 .. n - 1 : i + 1 \in 1 .. n
      BY <1>3
    <3> QED
      BY <1>2, <1>3, <3>1 DEF Chained, InChain
  <2>2. \A l \in DOMAIN e.view : ~Begun(e.view[l])
    BY <1>2 DEF Chained, InChain, Begun
  <2>3. CASE d.current = 0
    BY <2>1, <2>2, <2>3 DEF InChain, EndsTurn
  <2>4. CASE d.current = m
    <3>1. \A i \in DOMAIN d.chain : d.chain[i] = m <=> i = Len(d.chain)
      BY <1>1, <2>4 DEF Chained, InChain
    <3>2. 1 \in DOMAIN d.chain
      BY <1>3
    <3>4. n = 1
      BY <3>1, <3>2 DEF n
    <3>5. Len(e.chain) = 0
      BY <1>3, <3>4
    <3>3. e.chain = <<>>
      BY <1>3, <3>5
    <3> QED
      BY <1>2, <2>1, <2>2, <2>4, <3>3 DEF InChain, EndsTurn
  <2>5. CASE d.current \notin {0, m}
    <3>1. /\ d.current \in DOMAIN d.view /\ d.view[d.current].phase # "done"
          /\ \A i \in DOMAIN d.chain : d.chain[i] = d.current <=> i = n
      BY <1>1, <2>5 DEF Chained, LastLives, InChain, n
    <3>2. n # 1 /\ 1 \in 1 .. n
      BY <1>3, <2>5, <3>1
    <3>3. e.chain # <<>>
      BY <1>3, <3>2
    <3>4. ASSUME NEW i \in DOMAIN e.chain
          PROVE  e.chain[i] = d.current <=> i = Len(e.chain)
      <4>1. i \in 1 .. n - 1 /\ i + 1 \in 1 .. n /\ e.chain[i] = d.chain[i + 1]
        BY <1>3
      <4>2. e.chain[i] = d.current <=> i + 1 = n
        BY <1>3, <3>1, <4>1
      <4> QED
        BY <1>3, <4>1, <4>2
    <3> QED
      BY <1>2, <2>1, <2>2, <2>5, <3>1, <3>3, <3>4 DEF InChain, EndsTurn
  <2> QED
    BY <2>3, <2>4, <2>5
<1>6. EvictionComes(d) => EvictionComes(e)
  <2> SUFFICES ASSUME EvictionComes(d) PROVE EvictionComes(e)
    OBVIOUS
  <2>1. PICK i \in 1 .. n : d.chain[i] = Eviction
    BY <1>3 DEF EvictionComes
  <2>2. i # 1
    BY <1>1, <2>1 DEF Eviction
  <2>3. i - 1 \in 1 .. n - 1 /\ (i - 1) + 1 = i
    BY <1>3, <2>1, <2>2
  <2> QED
    BY <1>3, <2>1, <2>3 DEF EvictionComes
<1>7. \A number : Stands(p, d, number) => Stands(p, e, number)
  BY <1>6 DEF Stands, EndsTurn
<1>8. CachedStands(p, e)
  BY <1>2, <1>7 DEF Chained, CachedStands, EndsTurn
<1>9. ShownStands(p, e)
  BY <1>1, <1>2 DEF Chained, LastLives, ShownStands, EndsTurn
<1> QED
  BY <1>4, <1>5, <1>8, <1>9 DEF Chained, EndsTurn

LEMMA EndedFields ==
  ASSUME NEW d \in Document, NEW m \in DOMAIN d.view, d.chain # <<>>
  PROVE  LET e == Ended(d, m)
             view == [d.view[m] EXCEPT !.phase = "done"]
         IN /\ EndsTurn(d, e, m, view) /\ view \in View
            /\ e.startup = d.startup /\ e.held = d.held /\ e.published = d.published
            /\ e.unmountable = d.unmountable
            /\ IF d.current \in {0, m}
               THEN e.mountable = (~d.closed /\ d.published /\ d.current = 0) /\ e.selectable = ~d.closed
               ELSE e.mountable = d.mountable /\ e.selectable = d.selectable
<1> DEFINE view == [d.view[m] EXCEPT !.phase = "done"]
           v == [d.view EXCEPT ![m] = view]
           c == Tail(d.chain)
           ended == [d EXCEPT !.view = v, !.chain = c]
<1>1. /\ d.view \in Seq(View) /\ d.chain \in Seq(Nat) /\ d.closed \in BOOLEAN /\ d.published \in BOOLEAN
  BY DEF Document
<1>2. view \in View
  <2>1. d.view[m] \in View
    BY <1>1
  <2> QED
    BY <2>1 DEF View
<1>3. c \in Seq(Nat)
  BY <1>1, TailOf
<1>4. v \in Seq(View)
  <2> HIDE DEF view
  <2> QED
    BY <1>1, <1>2
<1>5. Ended(d, m) = IF d.current \in {0, m}
                    THEN [ended EXCEPT !.mountable = ~d.closed /\ d.published /\ d.current = 0,
                                       !.selectable = ~d.closed]
                    ELSE ended
  BY DEF Ended
<1> HIDE DEF v, c
<1>6. ended \in Document
  BY <1>3, <1>4 DEF Document
<1>7. /\ ended.startup = d.startup /\ ended.closed = d.closed /\ ended.held = d.held
      /\ ended.published = d.published /\ ended.choice = d.choice /\ ended.view = v
      /\ ended.current = d.current /\ ended.chain = c /\ ended.cached = d.cached
      /\ ended.mountable = d.mountable /\ ended.unmountable = d.unmountable
      /\ ended.selectable = d.selectable
  BY DEF Document
<1> HIDE DEF ended
<1> DEFINE released == [ended EXCEPT !.mountable = ~d.closed /\ d.published /\ d.current = 0,
                                     !.selectable = ~d.closed]
<1>8. released \in Document
  BY <1>1, <1>6 DEF Document
<1>9. /\ released.startup = d.startup /\ released.closed = d.closed /\ released.held = d.held
      /\ released.published = d.published /\ released.choice = d.choice /\ released.view = v
      /\ released.current = d.current /\ released.chain = c /\ released.cached = d.cached
      /\ released.mountable = (~d.closed /\ d.published /\ d.current = 0)
      /\ released.unmountable = d.unmountable /\ released.selectable = ~d.closed
  BY <1>6, <1>7 DEF Document
<1> HIDE DEF released
<1> DEFINE e == IF d.current \in {0, m} THEN released ELSE ended
<1>10. Ended(d, m) = e
  BY <1>5 DEF released
<1>11. /\ EndsTurn(d, e, m, view)
       /\ e.startup = d.startup /\ e.held = d.held /\ e.published = d.published
       /\ e.unmountable = d.unmountable
       /\ IF d.current \in {0, m}
          THEN e.mountable = (~d.closed /\ d.published /\ d.current = 0) /\ e.selectable = ~d.closed
          ELSE e.mountable = d.mountable /\ e.selectable = d.selectable
  <2> HIDE DEF view
  <2>1. CASE d.current \in {0, m}
    BY <2>1, <1>8, <1>9 DEF EndsTurn, v, c
  <2>2. CASE d.current \notin {0, m}
    BY <2>2, <1>6, <1>7 DEF EndsTurn, v, c
  <2> QED
    BY <2>1, <2>2
<1> HIDE DEF e
<1> QED
  BY <1>2, <1>10, <1>11

(* A mount has begun or ended only in a page that is ready, or over. *)
LEMMA StagedOnce ==
  ASSUME NEW p, NEW d, Sound(p, d), NEW m \in DOMAIN d.view
  PROVE  d.startup \in {"ready", "over"} /\ d.view # <<>>
<1>1. d.view # <<>>
  BY DocumentTypes DEF Sound
<1> QED
  BY <1>1, DocumentTypes DEF Sound, Stage

LEMMA StageEnds ==
  ASSUME NEW p, NEW d, Sound(p, d), NEW m \in DOMAIN d.view, d.chain # <<>>,
         NEW e, NEW view, EndsTurn(d, e, m, view),
         e.startup = d.startup, e.held = d.held, e.published = d.published,
         IF d.current \in {0, m}
         THEN e.mountable = (~d.closed /\ d.published /\ d.current = 0)
         ELSE e.mountable = d.mountable
  PROVE  Stage(p, e)
<1>1. d.startup \in {"ready", "over"}
  BY StagedOnce
<1>2. d.closed \in BOOLEAN /\ d.published \in BOOLEAN /\ d.mountable \in BOOLEAN
  BY DocumentTypes DEF Sound
<1> QED
  BY <1>1, <1>2 DEF Sound, Stage, EndsTurn

LEMMA Abandoning ==
  ASSUME NEW p, NEW d, Sound(p, d), NEW m \in DOMAIN d.view, d.chain # <<>>, d.chain[1] = m
  PROVE  Sound(p, Abandoned(d, m))
<1> DEFINE d1 == IF d.view[m].over THEN d ELSE Unmounted(d)
<1>1. /\ d \in Document /\ d.closed \in BOOLEAN /\ d.published \in BOOLEAN /\ d.startup \in {"ready", "over"}
      /\ Chained(p, d) /\ Stage(p, d)
  BY StagedOnce, DocumentTypes DEF Sound, Chained
<1>2. /\ Sound(p, d1) /\ d1 \in Document /\ d1.chain = d.chain /\ m \in DOMAIN d1.view
      /\ d1.view[m].over /\ d1.view[m].shown = 0
  <2>1. CASE d.view[m].over
    BY <1>1, <2>1 DEF Sound, Chained, LastLives
  <2>2. CASE ~d.view[m].over
    <3> DEFINE u == Unmounted(d)
    <3>1. m = d.current
      BY <1>1, <2>2 DEF Chained, LastLives
    <3>2. /\ Chained(p, u) /\ u \in Document
          /\ u.startup = d.startup /\ u.closed = d.closed /\ u.held = d.held /\ u.published = d.published
          /\ u.chain = d.chain /\ u.current = 0 /\ u.mountable = (~d.closed /\ d.published)
          /\ DOMAIN u.view = DOMAIN d.view
          /\ u.view[m].over /\ u.view[m].shown = 0
      BY <1>1, <3>1, Unmounting, UnmountedFields
    <3> HIDE DEF u
    <3>3. Stage(p, u)
      BY <1>1, <3>2 DEF Stage
    <3> QED
      BY <2>2, <3>2, <3>3 DEF Sound, u
  <2> QED
    BY <2>1, <2>2
<1>3. Abandoned(d, m) = Ended(d1, m)
  BY DEF Abandoned
<1> HIDE DEF d1
<1> DEFINE e == Ended(d1, m)
           view == [d1.view[m] EXCEPT !.phase = "done"]
<1>4. /\ EndsTurn(d1, e, m, view) /\ view \in View
      /\ e.startup = d1.startup /\ e.held = d1.held /\ e.published = d1.published
      /\ e.unmountable = d1.unmountable
      /\ IF d1.current \in {0, m}
         THEN e.mountable = (~d1.closed /\ d1.published /\ d1.current = 0) /\ e.selectable = ~d1.closed
         ELSE e.mountable = d1.mountable /\ e.selectable = d1.selectable
  BY <1>1, <1>2, EndedFields
<1>5. view.phase = "done" /\ view.over = d1.view[m].over /\ view.shown = 0
  <2>1. d1.view[m] \in View
    BY <1>2 DEF Document
  <2> QED
    BY <1>2, <2>1 DEF View
<1> HIDE DEF e, view
<1>6. Chained(p, e)
  <2>1. Chained(p, d1) /\ d1.chain # <<>> /\ d1.chain[1] = m
    BY <1>1, <1>2 DEF Sound
  <2> QED
    BY <1>2, <1>4, <1>5, <2>1, TurnEnds
<1>7. Stage(p, e)
  BY <1>1, <1>2, <1>4, StageEnds
<1> QED
  BY <1>3, <1>6, <1>7 DEF Sound, e

AtPhase(d, m, view) == [d EXCEPT !.view = [d.view EXCEPT ![m] = view]]

LEMMA AtPhaseFields ==
  ASSUME NEW d \in Document, NEW m \in DOMAIN d.view, NEW view \in View
  PROVE  LET e == AtPhase(d, m, view)
         IN /\ NextPhase(d, e, m, view)
            /\ e.startup = d.startup /\ e.held = d.held /\ e.published = d.published
            /\ e.mountable = d.mountable
<1> DEFINE v == [d.view EXCEPT ![m] = view]
           e == [d EXCEPT !.view = v]
<1>1. v \in Seq(View)
  BY DEF Document
<1>2. AtPhase(d, m, view) = e
  BY DEF AtPhase
<1> HIDE DEF v
<1>3. e \in Document
  BY <1>1 DEF Document
<1>4. /\ e.startup = d.startup /\ e.closed = d.closed /\ e.held = d.held
      /\ e.published = d.published /\ e.choice = d.choice /\ e.view = v
      /\ e.current = d.current /\ e.chain = d.chain /\ e.cached = d.cached
      /\ e.mountable = d.mountable /\ e.unmountable = d.unmountable
      /\ e.selectable = d.selectable
  BY DEF Document
<1> HIDE DEF e
<1> QED
  BY <1>2, <1>3, <1>4 DEF NextPhase, v

LEMMA PhaseProceeds ==
  ASSUME NEW p, NEW d, Sound(p, d), NEW m \in DOMAIN d.view, NEW view \in View,
         d.chain # <<>>, d.chain[1] = m, ~d.view[m].over,
         view.phase \in {"switching", "getting"}, ~view.over, view.shown = d.view[m].shown,
         view.phase = "getting" => Stands(p, d, view.asked) /\ view.renderer = d.choice,
         view.phase = "switching" => view.renderer = d.view[m].renderer
  PROVE  Sound(p, AtPhase(d, m, view))
<1> DEFINE e == AtPhase(d, m, view)
<1>1. Chained(p, d) /\ d \in Document
  BY DEF Sound, Chained
<1>2. /\ NextPhase(d, e, m, view)
      /\ e.startup = d.startup /\ e.held = d.held /\ e.published = d.published
      /\ e.mountable = d.mountable
  BY <1>1, AtPhaseFields
<1> HIDE DEF e
<1>3. Chained(p, e)
  BY <1>1, <1>2, TurnProceeds
<1>4. d.startup \in {"ready", "over"}
  BY StagedOnce
<1>5. Stage(p, e)
  BY <1>2, <1>4 DEF Sound, Stage, NextPhase
<1> QED
  BY <1>3, <1>5 DEF Sound, e

(* The mount whose turn it is, if it is not over, is alone in the chain.   *)
LEMMA Alone ==
  ASSUME NEW p \in Publications, NEW d, Sound(p, d), NEW m \in DOMAIN d.view,
         d.chain # <<>>, d.chain[1] = m, ~d.view[m].over
  PROVE  /\ m = d.current /\ ~d.closed /\ d.published /\ p.listed /\ ~EvictionComes(d)
         /\ d.startup = "ready"
<1>1. d.view \in Seq(View) /\ d.chain \in Seq(Nat) /\ m \in Nat /\ m # 0 /\ p.listed \in BOOLEAN
  BY DEF Sound, Chained, Document, Publications
<1>2. m = d.current
  BY DEF Sound, Chained, LastLives
<1>3. ~d.closed /\ d.published /\ p.listed /\ d.startup = "ready"
  BY <1>1, <1>2, DocumentTypes DEF Sound, Stage
<1>4. \A i \in DOMAIN d.chain : d.chain[i] = m <=> i = Len(d.chain)
  BY <1>1, <1>2 DEF Sound, Chained, InChain
<1>5. Len(d.chain) = 1 /\ DOMAIN d.chain = 1 .. 1
  <2>1. 1 \in DOMAIN d.chain /\ DOMAIN d.chain = 1 .. Len(d.chain)
    BY <1>1
  <2> QED
    BY <1>4, <2>1
<1>6. ~EvictionComes(d)
  BY <1>1, <1>5 DEF EvictionComes, Eviction
<1> QED
  BY <1>2, <1>3, <1>6

-------------------------------------------------------------------------------
(* The turns. *)

LEMMA ActivatesStep ==
  ASSUME RendererInv, NEW m \in DOMAIN doc.view, Activates(m)
  PROVE  RendererInv'
<1> DEFINE p == publication
           view == [doc.view[m] EXCEPT !.phase = "switching"]
<1>1. /\ p \in Publications /\ publication' = p /\ Sound(p, doc) /\ doc \in Document
      /\ doc.chain # <<>> /\ doc.chain[1] = m /\ doc.view[m] \in View
  <2>1. /\ p \in Publications /\ publication' = p /\ Sound(p, doc) /\ doc \in Document
        /\ doc.chain # <<>> /\ Head(doc.chain) = m
    BY DEF RendererInv, Sound, Chained, Activates, Turn
  <2> QED
    BY <2>1, TailOf DEF Document
<1> SUFFICES Sound(p, doc')
  BY <1>1 DEF RendererInv, Sound
<1>2. CASE doc' = Abandoned(doc, m)
  BY <1>1, <1>2, Abandoning
<1>3. CASE ~doc.view[m].over /\ doc' = [doc EXCEPT !.view[m].phase = "switching"]
  <2>1. /\ view \in View /\ view.phase = "switching" /\ view.over = doc.view[m].over
        /\ view.shown = doc.view[m].shown /\ view.renderer = doc.view[m].renderer
    BY <1>1 DEF View
  <2>2. doc' = AtPhase(doc, m, view)
    BY <1>3 DEF AtPhase
  <2> HIDE DEF view
  <2> QED
    BY <1>1, <1>3, <2>1, <2>2, PhaseProceeds
<1> QED
  BY <1>2, <1>3 DEF Activates, Becomes

LEMMA SwitchedStep ==
  ASSUME RendererInv, NEW m \in DOMAIN doc.view, Switched(m)
  PROVE  RendererInv'
<1> DEFINE p == publication
           asked == IF doc.cached # 0 THEN doc.cached ELSE p.number
           view == [doc.view[m] EXCEPT !.phase = "getting", !.renderer = doc.choice, !.asked = asked]
<1>1. /\ p \in Publications /\ publication' = p /\ Sound(p, doc) /\ doc \in Document
      /\ doc.chain # <<>> /\ doc.chain[1] = m /\ doc.view[m] \in View
      /\ doc.cached \in 0 .. MaxPublication /\ doc.choice \in {"reference", "custom"}
  BY DEF RendererInv, Sound, Chained, InChain, Begun, Switched, Document
<1> SUFFICES Sound(p, doc')
  BY <1>1 DEF RendererInv, Sound
<1>2. CASE doc' = Abandoned(doc, m)
  BY <1>1, <1>2, Abandoning
<1>3. CASE /\ ~doc.view[m].over
           /\ doc' = [doc EXCEPT !.view[m].phase = "getting", !.view[m].renderer = doc.choice,
                                 !.view[m].asked = asked]
  <2>1. p.listed
    BY <1>1, <1>3, Alone
  <2>2. asked \in 0 .. MaxPublication /\ Stands(p, doc, asked)
    <3>1. doc.cached # 0 => Stands(p, doc, doc.cached)
      BY <1>1 DEF Sound, Chained, CachedStands
    <3>2. Stands(p, doc, p.number)
      BY <2>1 DEF Stands
    <3> QED
      BY <1>1, <3>1, <3>2 DEF Publications
  <2>3. doc' = AtPhase(doc, m, view)
    <3> HIDE DEF asked
    <3> DEFINE r1 == [doc.view[m] EXCEPT !.phase = "getting"]
               r2 == [r1 EXCEPT !.renderer = doc.choice]
               v1 == [doc.view EXCEPT ![m] = r1]
               v2 == [v1 EXCEPT ![m] = r2]
               v3 == [v2 EXCEPT ![m] = view]
               d1 == [doc EXCEPT !.view = v1]
               d2 == [d1 EXCEPT !.view = v2]
               d3 == [d2 EXCEPT !.view = v3]
    <3>1. d1.view = v1 /\ v1[m] = r1 /\ d1 = [doc EXCEPT !.view[m].phase = "getting"]
      BY <1>1 DEF Document
    <3>2. d2.view = v2 /\ v2[m] = r2 /\ d2 = [d1 EXCEPT !.view[m].renderer = doc.choice]
      BY <1>1 DEF Document
    <3>3. view = [r2 EXCEPT !.asked = asked]
      BY <1>1 DEF View
    <3>4. d3 = [d2 EXCEPT !.view[m].asked = asked]
      BY <3>2, <3>3
    <3>5. v3 = [doc.view EXCEPT ![m] = view]
      BY <1>1 DEF Document
    <3>6. d3 = AtPhase(doc, m, view)
      BY <1>1, <3>5 DEF AtPhase, Document
    <3>7. doc' = d3
      BY <1>3, <3>1, <3>2, <3>4
    <3> QED
      BY <3>6, <3>7
  <2> HIDE DEF asked
  <2>4. /\ view \in View /\ view.phase = "getting" /\ view.over = doc.view[m].over
        /\ view.shown = doc.view[m].shown /\ view.renderer = doc.choice /\ view.asked = asked
    BY <1>1, <2>2 DEF View
  <2> HIDE DEF view
  <2> QED
    BY <1>1, <1>3, <2>2, <2>3, <2>4, PhaseProceeds
<1> QED
  BY <1>2, <1>3 DEF Switched, Becomes

(* What a get returns stands, or is going to be evicted.                   *)
LEMMA Caching ==
  ASSUME NEW p \in Publications, NEW d, Sound(p, d), NEW m \in DOMAIN d.view,
         d.view[m].phase = "getting", NEW got \in d.view[m].asked .. p.number
  PROVE  LET e == [d EXCEPT !.cached = got]
         IN /\ Sound(p, e) /\ Stands(p, e, got)
            /\ e.view = d.view /\ e.chain = d.chain /\ e.current = d.current
<1> DEFINE e == [d EXCEPT !.cached = got]
<1>1. d \in Document /\ Chained(p, d) /\ d.view[m] \in View
  BY DEF Sound, Chained, Document
<1>2. got \in 0 .. MaxPublication
  BY <1>1, RendererAssumption DEF View, Publications
<1>3. Stands(p, d, got)
  <2>1. Stands(p, d, d.view[m].asked)
    BY <1>1 DEF Chained, CachedStands
  <2>2. d.view[m].asked \in Nat /\ p.number \in Nat
    BY <1>1, RendererAssumption DEF View, Publications
  <2> QED
    BY <2>1, <2>2 DEF Stands
<1>4. e \in Document
  BY <1>1, <1>2 DEF Document
<1>5. /\ e.startup = d.startup /\ e.closed = d.closed /\ e.held = d.held
      /\ e.published = d.published /\ e.choice = d.choice /\ e.view = d.view
      /\ e.current = d.current /\ e.chain = d.chain /\ e.cached = got
      /\ e.mountable = d.mountable /\ e.unmountable = d.unmountable
      /\ e.selectable = d.selectable
  BY <1>1 DEF Document
<1> HIDE DEF e
<1>6. Chained(p, e)
  BY <1>1, <1>3, <1>4, <1>5, SameMounts
<1>7. Stage(p, e)
  <2>1. d.startup \in {"ready", "over"}
    BY StagedOnce
  <2> QED
    BY <1>5, <2>1 DEF Sound, Stage
<1>8. Stands(p, e, got)
  BY <1>3, <1>5 DEF Stands, EvictionComes
<1> QED
  BY <1>5, <1>6, <1>7, <1>8 DEF Sound, e

LEMMA Showing ==
  ASSUME NEW p \in Publications, NEW d, Sound(p, d), NEW m \in DOMAIN d.view,
         d.view[m].phase = "getting", ~d.view[m].over,
         NEW got \in 0 .. MaxPublication, Stands(p, d, got)
  PROVE  Sound(p, Ended([d EXCEPT !.view[m].shown = got, !.unmountable = TRUE], m))
<1>1. /\ d \in Document /\ Chained(p, d) /\ d.view[m] \in View /\ d.view \in Seq(View)
      /\ d.chain # <<>> /\ d.chain[1] = m
  BY DEF Sound, Chained, Document, InChain, Begun
<1>2. /\ m = d.current /\ ~d.closed /\ d.published /\ p.listed /\ ~EvictionComes(d)
      /\ d.view[m].renderer = d.choice /\ m # 0
  <2>1. /\ m = d.current /\ ~d.closed /\ d.published /\ p.listed /\ ~EvictionComes(d)
    BY <1>1, Alone
  <2>2. m # 0
    BY <1>1
  <2> QED
    BY <1>1, <2>1, <2>2 DEF Chained, ShownStands
<1>3. got = p.number
  BY <1>2 DEF Stands
<1> DEFINE showing == [d.view[m] EXCEPT !.shown = got]
           v == [d.view EXCEPT ![m] = showing]
           d1 == [d EXCEPT !.view = v, !.unmountable = TRUE]
           e == Ended(d1, m)
           view == [d1.view[m] EXCEPT !.phase = "done"]
<1>4. /\ showing \in View /\ showing.shown = got /\ showing.over = d.view[m].over
      /\ showing.renderer = d.view[m].renderer
  BY <1>1 DEF View
<1> HIDE DEF showing
<1>5. v \in Seq(View) /\ DOMAIN v = DOMAIN d.view /\ v[m] = showing
  BY <1>1, <1>4
<1>6. d1 \in Document
  BY <1>1, <1>5 DEF Document
<1>7. /\ d1.startup = d.startup /\ d1.closed = d.closed /\ d1.held = d.held
      /\ d1.published = d.published /\ d1.choice = d.choice /\ d1.view = v
      /\ d1.current = d.current /\ d1.chain = d.chain /\ d1.cached = d.cached
      /\ d1.mountable = d.mountable /\ d1.unmountable = TRUE
  BY <1>1 DEF Document
<1>8. [d EXCEPT !.view[m].shown = got, !.unmountable = TRUE] = d1
  BY DEF showing
<1> HIDE DEF d1
<1>9. /\ EndsTurn(d1, e, m, view) /\ view \in View
      /\ e.startup = d1.startup /\ e.held = d1.held /\ e.published = d1.published
      /\ e.unmountable = d1.unmountable
      /\ IF d1.current \in {0, m}
         THEN e.mountable = (~d1.closed /\ d1.published /\ d1.current = 0) /\ e.selectable = ~d1.closed
         ELSE e.mountable = d1.mountable /\ e.selectable = d1.selectable
  <2>1. d1 \in Document /\ m \in DOMAIN d1.view /\ d1.chain # <<>>
    BY <1>1, <1>5, <1>6, <1>7
  <2> QED
    BY <2>1, EndedFields
<1>10. /\ view.phase = "done" /\ view.over = d.view[m].over /\ view.shown = got
       /\ view.renderer = d.view[m].renderer
  BY <1>4, <1>5, <1>7 DEF View
<1> HIDE DEF e, view
<1>11. [d1.view EXCEPT ![m] = view] = [d.view EXCEPT ![m] = view]
  BY <1>1, <1>7 DEF v
<1>12. EndsTurn(d, e, m, view)
  BY <1>7, <1>9, <1>11 DEF EndsTurn
<1> HIDE DEF v
<1>13. Chained(p, e)
  <2>1. e.unmountable /\ e.selectable
    BY <1>2, <1>7, <1>9
  <2> QED
    BY <1>1, <1>2, <1>3, <1>9, <1>10, <1>12, <2>1, TurnEnds
<1>14. Stage(p, e)
  BY <1>1, <1>2, <1>7, <1>9, <1>12, StageEnds
<1> QED
  BY <1>8, <1>13, <1>14 DEF Sound, e

LEMMA RenderedStep ==
  ASSUME RendererInv, NEW m \in DOMAIN doc.view, Rendered(m)
  PROVE  RendererInv'
<1> DEFINE p == publication
<1>1. /\ p \in Publications /\ publication' = p /\ Sound(p, doc) /\ doc \in Document
      /\ doc.chain # <<>> /\ doc.chain[1] = m /\ doc.view[m] \in View
      /\ doc.view[m].phase = "getting"
  <2>1. /\ p \in Publications /\ publication' = p /\ Chained(p, doc) /\ Stage(p, doc)
        /\ doc.view[m].phase = "getting"
    BY DEF RendererInv, Rendered
  <2>2. doc \in Document /\ InChain(doc)
    BY <2>1 DEF Chained
  <2> QED
    BY <2>1, <2>2 DEF Sound, InChain, Begun, Document
<1> SUFFICES Sound(p, doc')
  BY <1>1 DEF RendererInv, Sound
<1>2. CASE doc' = Abandoned(doc, m)
  BY <1>1, <1>2, Abandoning
<1>3. ASSUME NEW got \in doc.view[m].asked .. p.number,
             LET d == [doc EXCEPT !.cached = got]
             IN \/ doc' = Abandoned(d, m)
                \/ /\ ~doc.view[m].over
                   /\ doc' = Ended([d EXCEPT !.view[m].shown = got, !.unmountable = TRUE], m)
      PROVE  Sound(p, doc')
  <2> DEFINE d == [doc EXCEPT !.cached = got]
  <2>1. /\ Sound(p, d) /\ Stands(p, d, got)
        /\ d.view = doc.view /\ d.chain = doc.chain /\ d.current = doc.current
    BY <1>1, Caching
  <2>2. got \in 0 .. MaxPublication
    BY <1>1, RendererAssumption DEF View, Publications
  <2>3. \/ doc' = Abandoned(d, m)
        \/ /\ ~doc.view[m].over
           /\ doc' = Ended([d EXCEPT !.view[m].shown = got, !.unmountable = TRUE], m)
    BY <1>3
  <2> HIDE DEF d
  <2>4. Sound(p, Abandoned(d, m))
    BY <1>1, <2>1, Abandoning
  <2>5. ~doc.view[m].over => Sound(p, Ended([d EXCEPT !.view[m].shown = got, !.unmountable = TRUE], m))
    BY <1>1, <2>1, <2>2, Showing
  <2> QED
    BY <2>3, <2>4, <2>5
<1> QED
  BY <1>2, <1>3 DEF Rendered, Becomes

LEMMA EvictionStep ==
  ASSUME RendererInv, EvictionTurn
  PROVE  RendererInv'
<1> DEFINE p == publication
           c == Tail(doc.chain)
           e == [doc EXCEPT !.cached = 0, !.chain = c]
           n == Len(doc.chain)
<1>1. /\ p \in Publications /\ publication' = p /\ Chained(p, doc) /\ Stage(p, doc)
      /\ doc \in Document /\ doc.chain \in Seq(Nat) /\ doc.view \in Seq(View)
      /\ doc.chain # <<>> /\ Head(doc.chain) = 0
  BY DEF RendererInv, Chained, Document, EvictionTurn, Turn, Eviction
<1>2. /\ c \in Seq(Nat) /\ n \in Nat /\ n # 0 /\ Len(c) = n - 1
      /\ DOMAIN c = 1 .. n - 1 /\ DOMAIN doc.chain = 1 .. n
      /\ \A i \in 1 .. n - 1 : c[i] = doc.chain[i + 1]
      /\ doc.chain[1] = 0
  BY <1>1, TailOf
<1>3. doc' = e
  BY DEF EvictionTurn, Becomes
<1> HIDE DEF c
<1>4. e \in Document
  <2>1. 0 \in 0 .. MaxPublication
    BY RendererAssumption
  <2> QED
    BY <1>1, <1>2, <2>1 DEF Document
<1>5. /\ e.startup = doc.startup /\ e.closed = doc.closed /\ e.held = doc.held
      /\ e.published = doc.published /\ e.choice = doc.choice /\ e.view = doc.view
      /\ e.current = doc.current /\ e.chain = c /\ e.cached = 0
      /\ e.mountable = doc.mountable /\ e.unmountable = doc.unmountable
      /\ e.selectable = doc.selectable
  BY <1>1 DEF Document
<1> HIDE DEF e, n
<1>6. \A m \in DOMAIN doc.view : ~Begun(doc.view[m])
  <2>1. \A m \in DOMAIN doc.view : m # 0
    BY <1>1
  <2> QED
    BY <1>1, <1>2, <2>1 DEF Chained, InChain
<1>7. LastLives(e) /\ ShownStands(p, e)
  BY <1>1, <1>5 DEF Chained, LastLives, ShownStands
<1>8. CachedStands(p, e)
  BY <1>5, <1>6 DEF CachedStands, Begun
<1>9. InChain(e)
  <2>1. \A i \in DOMAIN e.chain : e.chain[i] <= Len(e.view)
    <3>1. \A i \in 1 .. n - 1 : i + 1 \in 1 .. n
      BY <1>2
    <3>2. \A i \in 1 .. n : doc.chain[i] <= Len(doc.view)
      BY <1>1, <1>2 DEF Chained, InChain
    <3> QED
      BY <1>2, <1>5, <3>1, <3>2
  <2>2. CASE doc.current = 0
    BY <1>5, <1>6, <2>1, <2>2 DEF InChain
  <2>3. CASE doc.current # 0
    <3>1. /\ doc.view[doc.current].phase # "done"
          /\ \A i \in DOMAIN doc.chain : doc.chain[i] = doc.current <=> i = n
      BY <1>1, <2>3 DEF Chained, InChain, n
    <3>2. n # 1 /\ 1 \in 1 .. n
      BY <1>2, <2>3, <3>1
    <3>3. c # <<>>
      BY <1>2, <3>2
    <3>4. ASSUME NEW i \in DOMAIN c
          PROVE  c[i] = doc.current <=> i = Len(c)
      <4>1. i \in 1 .. n - 1 /\ i + 1 \in 1 .. n /\ c[i] = doc.chain[i + 1]
        BY <1>2
      <4>2. c[i] = doc.current <=> i + 1 = n
        BY <1>2, <3>1, <4>1
      <4> QED
        BY <1>2, <4>1, <4>2
    <3> QED
      BY <1>5, <1>6, <2>1, <2>3, <3>1, <3>3, <3>4 DEF InChain
  <2> QED
    BY <2>2, <2>3
<1>10. Stage(p, e)
  BY <1>1, <1>5 DEF Stage
<1> QED
  BY <1>1, <1>3, <1>4, <1>7, <1>8, <1>9, <1>10 DEF RendererInv, Chained

-------------------------------------------------------------------------------
(* The chain of mounts and evictions of the page of examples/json-render/  *)
(* browser/main.ts: a mount that has begun is the head of the chain, the   *)
(* mount that is not over is its end, and a publication that is cached or  *)
(* asked for stands, or an eviction is in the chain behind it.             *)
THEOREM RendererInvariant == RendererSpec => []RendererInv
<1>1. RendererInit => RendererInv
  <2> SUFFICES ASSUME RendererInit
               PROVE  RendererInv
    OBVIOUS
  <2>1. publication \in Publications
    <3>1. 0 \in 0 .. MaxPublication /\ 1 \in 0 .. MaxPublication
      BY RendererAssumption
    <3>2. \/ publication = [number |-> 0, listed |-> FALSE]
          \/ publication = [number |-> 1, listed |-> TRUE]
      BY Zenon DEF RendererInit
    <3>3. \A number \in 0 .. MaxPublication, listed \in BOOLEAN :
            [number |-> number, listed |-> listed] \in Publications
      BY DEF Publications
    <3>4. TRUE \in BOOLEAN /\ FALSE \in BOOLEAN
      OBVIOUS
    <3> QED
      BY <3>1, <3>2, <3>3, <3>4, Zenon
  <2>2. PICK choice \in {"reference", "custom"} :
          doc = [startup |-> "connecting", closed |-> FALSE, held |-> {}, published |-> TRUE,
                 resume |-> FALSE, choice |-> choice, view |-> <<>>, current |-> 0, chain |-> <<>>,
                 cached |-> 0, mountable |-> FALSE, unmountable |-> FALSE, selectable |-> FALSE]
    BY DEF RendererInit
  <2>3. <<>> \in Seq(View) /\ <<>> \in Seq(Nat) /\ 0 \in 0 .. MaxPublication
    BY RendererAssumption
  <2>4. doc \in Document
    BY <2>2, <2>3 DEF Document
  <2>5. Chained(publication, doc)
    BY <2>2, <2>4 DEF Chained, LastLives, InChain, CachedStands, ShownStands
  <2>6. Stage(publication, doc)
    BY <2>2 DEF Stage
  <2> QED
    BY <2>1, <2>5, <2>6 DEF RendererInv
<1>2. RendererInv /\ [RendererNext]_rendererVars => RendererInv'
  <2> SUFFICES ASSUME RendererInv, [RendererNext]_rendererVars
               PROVE  RendererInv'
    OBVIOUS
  <2>1. CASE PublicationChanges
    BY <2>1, PublicationStep
  <2>2. CASE StartupProceeds
    BY <2>2, StartupStep
  <2>3. CASE EvictionTurn
    BY <2>3, EvictionStep
  <2>4. CASE UserActs
    BY <2>4, UserStep
  <2>5. ASSUME NEW m \in DOMAIN doc.view, Activates(m)
        PROVE  RendererInv'
    BY <2>5, ActivatesStep
  <2>6. ASSUME NEW m \in DOMAIN doc.view, Switched(m)
        PROVE  RendererInv'
    BY <2>6, SwitchedStep
  <2>7. ASSUME NEW m \in DOMAIN doc.view, Rendered(m)
        PROVE  RendererInv'
    BY <2>7, RenderedStep
  <2>8. CASE UNCHANGED rendererVars
    BY <2>8 DEF rendererVars, RendererInv
  <2> QED
    BY <2>1, <2>2, <2>3, <2>4, <2>5, <2>6, <2>7, <2>8 DEF RendererNext
<1> QED
  BY <1>1, <1>2, PTL DEF RendererSpec

(* What the page of examples/json-render/browser/main.ts shows is the last *)
(* view it has mounted, of the publication that stands, drawn by the       *)
(* renderer that is chosen, whatever get was pending when the publication  *)
(* was withdrawn; and its controls are never stuck.                        *)
THEOREM RendererViewIsCurrent == RendererSpec => []ViewIsCurrent
<1>1. RendererInv => ViewIsCurrent
  <2> SUFFICES ASSUME RendererInv
               PROVE  ViewIsCurrent
    OBVIOUS
  <2>1. Chained(publication, doc) /\ Stage(publication, doc) /\ publication \in Publications
        /\ doc \in Document /\ doc.view \in Seq(View)
    BY DEF RendererInv, Chained, Document
  <2>2. ASSUME NEW m \in DOMAIN doc.view, doc.view[m].shown # 0
        PROVE  /\ m = doc.current /\ doc.view[m].renderer = doc.choice
               /\ publication.listed /\ doc.view[m].shown = publication.number
               /\ doc.unmountable /\ doc.selectable
    <3>1. m = doc.current /\ m # 0
      BY <2>1, <2>2 DEF Chained, LastLives
    <3>2. /\ doc.view[m].renderer = doc.choice /\ doc.view[m].shown = publication.number
          /\ doc.unmountable /\ doc.selectable
      BY <2>1, <2>2, <3>1 DEF Chained, ShownStands
    <3>3. publication.listed
      BY <2>1, <3>1, DocumentTypes DEF Stage, Publications
    <3> QED
      BY <3>1, <3>2, <3>3
  <2> QED
    BY <2>1, <2>2 DEF ViewIsCurrent, Stage
<1> QED
  BY <1>1, RendererInvariant, PTL
===============================================================================
