------------------------------ MODULE MountedViews ------------------------------
(***************************************************************************)
(* The views an extension page mounts for the entries of a native index:   *)
(* updateViews() and mountView() of examples/webext/src/panel.ts.          *)
(*                                                                         *)
(* A mount waits for the disposal of the one it follows, has its renderer  *)
(* get the state of its entry, which caches it, and draws.  Its cleanup,   *)
(* after whatever the renderer came to, evicts the state.  Each action is  *)
(* one synchronous segment.  The page's probe button that gets the state   *)
(* of the counter outside any mount is left out.                           *)
(***************************************************************************)
EXTENDS Naturals, Sequences, FiniteSets

CONSTANTS
  Keys,          \* state keys of the entries this page renders
  MaxMounts      \* bounds on the mounts of each key

ASSUME MountAssumption == MaxMounts \in [Keys -> Nat]

VARIABLES
  index,         \* the keys in the native index
  mount,         \* the mounts of a key, in the order of their creation
  current,       \* mountedViews: which one of them is in the map, or 0
  cached         \* the keys whose state the client caches

viewVars == <<index, mount, current, cached>>

Number == Nat
Mount == [aborted : BOOLEAN,
          previous : Number,
          phase : {"waiting", "getting", "drawing", "mounted", "empty", "failed"},
          disposal : {"none", "pending", "resolved", "rejected"},
          forgets : BOOLEAN]            \* updateViews' `finally` is still to run

ViewsTypeOK ==
  /\ index \subseteq Keys /\ cached \subseteq Keys
  /\ current \in [Keys -> Number]
  /\ \A k \in Keys :
       /\ Len(mount[k]) <= MaxMounts[k]
       /\ \A m \in DOMAIN mount[k] : mount[k][m] \in Mount

ViewsInit ==
  /\ index \in SUBSET Keys
  /\ mount = [k \in Keys |-> <<>>]
  /\ current = [k \in Keys |-> 0]
  /\ cached = {}

InMap(k) == mount[k][current[k]]       \* if current[k] # 0
Aborted(k) == current[k] # 0 /\ InMap(k).aborted
Settled(k, m) == mount[k][m].disposal \in {"resolved", "rejected"}

(* dispose() of a mount: the abort, and one disposal for all callers.      *)
Released(mounted) ==
  [mounted EXCEPT !.aborted = TRUE, !.disposal = IF @ = "none" THEN "pending" ELSE @]

-------------------------------------------------------------------------------
(* updateViews(new), up to its wait for the mounts. *)

Needed(k, new) == k \in new /\ (current[k] # 0 => Aborted(k))
Removed(k, new) == k \notin new /\ current[k] # 0 /\ ~Aborted(k)

Fresh(k) == [aborted |-> FALSE, previous |-> current[k], phase |-> "waiting",
             disposal |-> "none", forgets |-> FALSE]

UpdateViews(new) ==
  /\ \A k \in Keys : Needed(k, new) => Len(mount[k]) < MaxMounts[k]
  /\ mount' = [k \in Keys |->
       IF Removed(k, new)
       THEN [mount[k] EXCEPT ![current[k]] = [Released(@) EXCEPT !.forgets = TRUE]]
       ELSE IF Needed(k, new) THEN Append(mount[k], Fresh(k)) ELSE mount[k]]
  /\ current' = [k \in Keys |-> IF Needed(k, new) THEN Len(mount[k]) + 1 ELSE current[k]]

Forget(k, m) ==
  /\ mount[k][m].forgets /\ Settled(k, m)
  /\ mount' = [mount EXCEPT ![k][m].forgets = FALSE]
  /\ current' = [current EXCEPT ![k] = IF @ = m THEN 0 ELSE @]
  /\ UNCHANGED <<index, cached>>

-------------------------------------------------------------------------------
(* render() and what follows it. *)

To(k, m, phase) == mount' = [mount EXCEPT ![k][m].phase = phase]

(* A rejection of render() is swallowed if the mount is aborted. *)
Fails(k, m) == To(k, m, IF mount[k][m].aborted THEN "empty" ELSE "failed")

(* Mutation: a successor does not wait. *)
Overlapping(k, m) == TRUE
PredecessorGone(k, m) == mount[k][m].previous # 0 => Settled(k, mount[k][m].previous)

BeginRender(k, m) ==
  /\ mount[k][m].phase = "waiting"
  /\ PredecessorGone(k, m)
  /\ IF mount[k][m].previous # 0 /\ mount[k][mount[k][m].previous].disposal = "rejected"
     THEN Fails(k, m)
     ELSE To(k, m, IF mount[k][m].aborted THEN "empty" ELSE "getting")
  /\ UNCHANGED <<index, current, cached>>

StateArrives(k, m) ==
  /\ mount[k][m].phase = "getting"
  /\ To(k, m, "drawing")
  /\ cached' = cached \cup {k}
  /\ UNCHANGED <<index, current>>

(* A renderer that ends after the abort has still mounted. *)
RenderEnds(k, m) ==
  /\ \/ mount[k][m].phase = "drawing" /\ To(k, m, "mounted")
     \/ mount[k][m].phase \in {"getting", "drawing"} /\ Fails(k, m)
  /\ UNCHANGED <<index, current, cached>>

CleanUp(k, m) ==
  /\ mount[k][m].disposal = "pending"
  /\ mount[k][m].phase \in {"mounted", "empty", "failed"}
  /\ \E result \in {"resolved", "rejected"} :
       /\ result = "rejected" => mount[k][m].phase = "mounted"
       /\ mount' = [mount EXCEPT ![k][m].disposal = result, ![k][m].phase = "empty"]
       /\ cached' = cached \ {k}
  /\ UNCHANGED <<index, current>>

Mounts ==
  \E k \in Keys : \E m \in DOMAIN mount[k] :
    Forget(k, m) \/ BeginRender(k, m) \/ StateArrives(k, m) \/ RenderEnds(k, m) \/ CleanUp(k, m)

-------------------------------------------------------------------------------
(* Properties. *)

(* Begun, and not cleaned up. *)
Holding(k, m) == mount[k][m].phase # "waiting" /\ ~Settled(k, m)

(* The mounts of an entry follow each other: one at a time renders or is   *)
(* shown, a shown one's state has not been evicted by the late cleanup of  *)
(* its predecessor, and what is cached has a mount that will evict it,     *)
(* also when the state arrived after the removal of the entry.             *)
OneViewPerEntry ==
  \A k \in Keys :
    /\ Cardinality({m \in DOMAIN mount[k] : Holding(k, m)}) <= 1
    /\ \A m \in DOMAIN mount[k] : mount[k][m].phase = "mounted" /\ ~mount[k][m].aborted => k \in cached
    /\ k \in cached => \E m \in DOMAIN mount[k] : Holding(k, m)
===============================================================================
