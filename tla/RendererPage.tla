------------------------------- MODULE RendererPage -------------------------------
(***************************************************************************)
(* The page of the JSON renderer example: its startup, the mounts of the   *)
(* one view it shows, the withdrawal and return of that view's             *)
(* publication, and the choice of a renderer.                              *)
(* examples/json-render/browser/main.ts                                    *)
(*                                                                         *)
(* Mounts and evictions of the native client's cached state are chained,   *)
(* each after the one before.  A publication that returns has a state of   *)
(* its own; the client gets it from its cache, or as of some moment while  *)
(* it waits for the host.  Each action is one task with its microtasks.    *)
(***************************************************************************)
EXTENDS Naturals, Sequences

CONSTANTS MaxViews, MaxPublication      \* bounds on mounts and on publications

ASSUME RendererAssumption == MaxViews \in Nat /\ MaxPublication \in Nat \ {0}

VARIABLES
  publication,   \* number: of the host's last publication, listed: it stands
  doc            \* the document

rendererVars == <<publication, doc>>

Eviction == 0                           \* in the chain of mounts
View == [over : BOOLEAN, phase : {"queued", "switching", "getting", "done"},
         asked : 0 .. MaxPublication, shown : 0 .. MaxPublication,
         renderer : {"none", "reference", "custom"}]

Document == [
  startup : {"connecting", "trusting", "runtime", "index", "ready", "over"},
  closed : BOOLEAN,                     \* cleanup.disposed
  held : SUBSET {"client", "runtime", "choice", "index", "status"},
  published : BOOLEAN, resume : BOOLEAN,
  choice : {"reference", "custom"},
  view : Seq(View),                     \* every mount
  current : Nat,                        \* whose disposeView is set, or 0
  chain : Seq(Nat),                     \* pendingMount
  cached : 0 .. MaxPublication,         \* the publication of the cached state
  mountable : BOOLEAN, unmountable : BOOLEAN, selectable : BOOLEAN]

RendererInit ==
  /\ publication \in {[number |-> 0, listed |-> FALSE], [number |-> 1, listed |-> TRUE]}
  /\ \E choice \in {"reference", "custom"} :
       doc = [startup |-> "connecting", closed |-> FALSE, held |-> {}, published |-> TRUE,
              resume |-> FALSE, choice |-> choice, view |-> <<>>, current |-> 0, chain |-> <<>>,
              cached |-> 0, mountable |-> FALSE, unmountable |-> FALSE, selectable |-> FALSE]

Becomes(d) == Len(d.view) <= MaxViews /\ doc' = d

-------------------------------------------------------------------------------
(* unmount, dispose, own and mount. *)

Unmounted(d) ==
  [d EXCEPT !.view = [m \in DOMAIN @ |-> IF m = d.current THEN [@[m] EXCEPT !.over = TRUE, !.shown = 0]
                                         ELSE @[m]],
            !.current = 0, !.unmountable = FALSE, !.mountable = ~d.closed /\ d.published]

Disposed(d) ==
  [Unmounted(d) EXCEPT !.closed = TRUE, !.held = {}, !.mountable = FALSE, !.selectable = FALSE]

(* What arrives after the disposal is disposed at once. *)
Owns(d, resources) == [d EXCEPT !.held = IF d.closed THEN @ ELSE @ \cup resources]

Mounting(d) ==
  IF ~d.published \/ d.closed \/ d.current # 0 THEN d
  ELSE LET m == Len(d.view) + 1
       IN [d EXCEPT !.view = Append(@, [over |-> FALSE, phase |-> "queued", asked |-> 0, shown |-> 0,
                                        renderer |-> "none"]),
                    !.current = m, !.chain = Append(@, m), !.mountable = FALSE, !.selectable = FALSE]

-------------------------------------------------------------------------------
(* The publication, and update(). *)

(* Mutation: the state is evicted before a pending get has ended. *)
EvictsAtOnce(d) == [d EXCEPT !.cached = 0]
Evicts(d) == [d EXCEPT !.chain = Append(@, Eviction)]

Updated(d, available) ==
  IF available = d.published THEN d
  ELSE IF available
       THEN LET back == [d EXCEPT !.published = TRUE, !.mountable = ~d.closed]
            IN IF d.resume THEN Mounting(back) ELSE back
       ELSE Evicts(Unmounted([d EXCEPT !.published = FALSE, !.resume = d.current # 0]))

PublicationChanges ==
  /\ publication' = IF publication.listed THEN [publication EXCEPT !.listed = FALSE]
                    ELSE [number |-> publication.number + 1, listed |-> TRUE]
  /\ publication'.number <= MaxPublication
  /\ Becomes(IF "index" \in doc.held THEN Updated(doc, publication'.listed) ELSE doc)

-------------------------------------------------------------------------------
(* start(): after each await, the page may have been closed. *)

Proceeding(d, startup) == [d EXCEPT !.startup = IF d.closed THEN "over" ELSE startup]

StartupProceeds ==
  /\ \/ doc.startup = "connecting" /\ Becomes(Proceeding(Owns(doc, {"client"}), "trusting"))
     \/ doc.startup = "trusting" /\ Becomes(Proceeding(doc, "runtime"))
     \/ /\ doc.startup = "runtime"
        /\ LET running == Owns(doc, {"runtime"})
           IN Becomes(Proceeding(Owns(running, {"choice"}), "index"))
     \/ /\ doc.startup = "index"
        /\ LET observing == Updated(Owns(doc, {"index"}), publication.listed)
           IN Becomes([Mounting(Owns(observing, {"status"})) EXCEPT !.startup = "ready"])
     \/ /\ doc.startup \notin {"ready", "over"}
        /\ Becomes([Disposed(doc) EXCEPT !.startup = "over"])
  /\ UNCHANGED publication

-------------------------------------------------------------------------------
(* activate(), at its turn. *)

Turn(m) == doc.chain # <<>> /\ Head(doc.chain) = m

(* `finally`, and the end of the promise the next one waits for. *)
Ended(d, m) ==
  LET ended == [d EXCEPT !.view[m].phase = "done", !.chain = Tail(@)]
  IN IF d.current \in {0, m}
     THEN [ended EXCEPT !.mountable = ~d.closed /\ d.published /\ d.current = 0, !.selectable = ~d.closed]
     ELSE ended

(* A failure, or the end of a mount that was unmounted meanwhile. *)
Abandoned(d, m) == Ended(IF d.view[m].over THEN d ELSE Unmounted(d), m)

Activates(m) ==
  /\ Turn(m) /\ doc.view[m].phase = "queued"
  /\ \/ Becomes(Abandoned(doc, m))
     \/ ~doc.view[m].over /\ Becomes([doc EXCEPT !.view[m].phase = "switching"])
  /\ UNCHANGED publication

Switched(m) ==
  /\ doc.view[m].phase = "switching"
  /\ \/ Becomes(Abandoned(doc, m))
     \/ /\ ~doc.view[m].over
        /\ Becomes([doc EXCEPT !.view[m].phase = "getting", !.view[m].renderer = doc.choice,
                               !.view[m].asked = IF doc.cached # 0 THEN doc.cached
                                                 ELSE publication.number])
  /\ UNCHANGED publication

Rendered(m) ==
  /\ doc.view[m].phase = "getting"
  /\ \/ Becomes(Abandoned(doc, m))
     \/ \E got \in doc.view[m].asked .. publication.number :
          LET d == [doc EXCEPT !.cached = got]
          IN /\ doc.cached # 0 => got = doc.cached
             /\ \/ Becomes(Abandoned(d, m))
                \/ /\ ~doc.view[m].over
                   /\ Becomes(Ended([d EXCEPT !.view[m].shown = got, !.unmountable = TRUE], m))
  /\ UNCHANGED publication

EvictionTurn ==
  /\ Turn(Eviction)
  /\ Becomes([doc EXCEPT !.cached = 0, !.chain = Tail(@)])
  /\ UNCHANGED publication

-------------------------------------------------------------------------------
(* The user, and the end of the page or of its connection. *)

UserActs ==
  /\ ~doc.closed
  /\ \/ doc.startup = "ready" /\ doc.mountable /\ Becomes(Mounting(doc))
     \/ doc.unmountable /\ Becomes(Unmounted(doc))
     \/ /\ doc.selectable
        /\ \E choice \in {"reference", "custom"} \ {doc.choice} :
             LET chosen == [Unmounted(doc) EXCEPT !.choice = choice]
             IN Becomes(IF doc.current # 0 THEN Mounting(chosen) ELSE chosen)
     \/ Becomes(Disposed(doc))
  /\ UNCHANGED publication

RendererNext ==
  \/ PublicationChanges \/ StartupProceeds \/ EvictionTurn \/ UserActs
  \/ \E m \in DOMAIN doc.view : Activates(m) \/ Switched(m) \/ Rendered(m)

RendererSpec == RendererInit /\ [][RendererNext]_rendererVars

-------------------------------------------------------------------------------
(* Properties. *)

(* "A pending native get can repopulate its cache; finish it before        *)
(* eviction and remount": the view that is shown is the last one mounted,  *)
(* of the publication that stands, drawn by the renderer that is chosen.   *)
(* A page that is closed holds nothing and shows nothing, whatever was     *)
(* pending.  Its controls are never stuck: it can be mounted whenever it   *)
(* is published and is not, and a view that is shown can be unmounted and  *)
(* given to the other renderer.                                            *)
ViewIsCurrent ==
  /\ doc \in Document
  /\ \A m \in DOMAIN doc.view : doc.view[m].shown # 0 =>
       /\ m = doc.current /\ doc.view[m].renderer = doc.choice
       /\ publication.listed /\ doc.view[m].shown = publication.number
       /\ doc.unmountable /\ doc.selectable
  /\ doc.closed => doc.held = {} /\ doc.current = 0
  /\ doc.startup = "ready" => doc.mountable = (~doc.closed /\ doc.published /\ doc.current = 0)
===============================================================================
