------------------------------ MODULE ExtensionPage ------------------------------
(***************************************************************************)
(* The extension's page: examples/webext/src/panel.ts, the startup of its  *)
(* connection to the background, the replacement of a renderer and the     *)
(* closing; and the connections to servers of servers.ts, which survive a  *)
(* loss of the background but not the page.                                *)
(***************************************************************************)
EXTENDS MountedViews

CONSTANTS
  Inspector,     \* the key of the view whose renderer the user may replace
  Servers        \* connections to servers, each attached once

ASSUME PageAssumption == Inspector \in Keys

VARIABLES
  startup,       \* of the connection to the background
  awaited,       \* the mounts whose `ready` the startup, or replace(), awaits
  replacing,     \* replace(), and the mount whose disposal it awaits
  backgroundClosed,
  closed,
  server,        \* where the attach() of a server is
  held           \* what it has acquired and not released

pageVars == <<viewVars, startup, awaited, replacing, backgroundClosed, closed, server, held>>
backgroundVars == <<viewVars, startup, awaited, replacing, backgroundClosed>>
serverVars == <<server, held>>

Resource == {"rpc", "connection", "attachment", "views"}
NoMounts == [k \in Keys |-> 0]
NotReplacing == [stage |-> "idle", of |-> 0]

PageTypeOK ==
  /\ ViewsTypeOK
  /\ startup \in {"index", "views", "connecting", "attached", "over"}
  /\ awaited \in [Keys -> Number]
  /\ replacing \in [stage : {"idle", "disposing", "mounting"}, of : Number]
  /\ backgroundClosed \in BOOLEAN /\ closed \in BOOLEAN
  /\ server \in [Servers -> {"idle", "connecting", "joining", "mounting", "over"}]
  /\ held \in [Servers -> SUBSET Resource]

PageInit ==
  /\ ViewsInit
  /\ startup = "index"
  /\ awaited = NoMounts
  /\ replacing = NotReplacing
  /\ backgroundClosed = FALSE /\ closed = FALSE
  /\ server = [s \in Servers |-> "idle"]
  /\ held = [s \in Servers |-> {}]

-------------------------------------------------------------------------------
(* The background. *)

(* closeBackground(): once, with the connection if it is attached.         *)
CloseBackground(then) ==
  /\ backgroundClosed' = TRUE
  /\ startup' = then
  /\ IF backgroundClosed THEN UNCHANGED viewVars
     ELSE /\ cached' = {}
          /\ mount' = [k \in Keys |-> IF current[k] = 0 THEN mount[k]
                                      ELSE [mount[k] EXCEPT ![current[k]] = Released(@)]]
          /\ current' = [k \in Keys |-> 0]
          /\ UNCHANGED index

Closes == CloseBackground(IF startup = "attached" THEN "over" ELSE startup)

Disconnect ==
  /\ ~backgroundClosed
  /\ Closes
  /\ UNCHANGED <<awaited, replacing, closed, serverVars>>

(* The native index changes, and says so to who has subscribed. *)
IndexUpdated ==
  /\ startup # "index" /\ ~backgroundClosed
  /\ \E k \in Keys :
       LET new == IF k \in index THEN index \ {k} ELSE index \cup {k}
       IN index' = new /\ UpdateViews(new)
  /\ UNCHANGED <<cached, startup, awaited, replacing, backgroundClosed, closed, serverVars>>

IndexArrives ==
  /\ startup = "index"
  /\ \/ CloseBackground("over") /\ UNCHANGED awaited
     \/ /\ ~backgroundClosed
        /\ UpdateViews(index)
        /\ startup' = "views" /\ awaited' = current'
        /\ UNCHANGED <<index, cached, backgroundClosed>>
  /\ UNCHANGED <<replacing, closed, serverVars>>

(* Promise.all of the awaited mounts: one that failed is enough.           *)
Awaited(phases) == {k \in Keys : awaited[k] # 0 /\ mount[k][awaited[k]].phase \in phases}
SomeFailed == Awaited({"failed"}) # {}
AllReady == Awaited({"waiting", "getting", "drawing", "failed"}) = {}

ViewsReady ==
  /\ startup = "views"
  /\ \/ SomeFailed /\ CloseBackground("over")
     \/ /\ AllReady
        /\ startup' = "connecting"
        /\ UNCHANGED <<viewVars, backgroundClosed>>
  /\ awaited' = NoMounts
  /\ UNCHANGED <<replacing, closed, serverVars>>

(* A connection that comes after the close is disposed, not attached. *)
Connected ==
  /\ startup = "connecting"
  /\ \/ CloseBackground("over")
     \/ /\ ~backgroundClosed
        /\ startup' = "attached"
        /\ UNCHANGED <<viewVars, backgroundClosed>>
  /\ UNCHANGED <<awaited, replacing, closed, serverVars>>

-------------------------------------------------------------------------------
(* The replacement of the inspector's renderer, by a control that is       *)
(* disabled until the new view is there.                                   *)

Replace ==
  /\ startup = "attached" /\ replacing.stage = "idle"
  /\ LET old == IF Inspector \in index THEN current[Inspector] ELSE 0
     IN /\ replacing' = [stage |-> "disposing", of |-> old]
        /\ mount' = IF old = 0 THEN mount ELSE [mount EXCEPT ![Inspector][old] = Released(@)]
  /\ UNCHANGED <<index, current, cached, startup, awaited, backgroundClosed, closed, serverVars>>

(* Mutation: the close is not looked at after the wait. *)
UpdateAnyway == UpdateViews(index)
UpdateUnlessClosed ==
  IF backgroundClosed THEN UNCHANGED <<mount, current>> ELSE UpdateViews(index)

OldViewDisposed ==
  /\ replacing.stage = "disposing"
  /\ replacing.of # 0 => Settled(Inspector, replacing.of)
  /\ IF replacing.of # 0 /\ mount[Inspector][replacing.of].disposal = "rejected"
     THEN replacing' = NotReplacing /\ UNCHANGED <<mount, current, awaited>>
     ELSE /\ replacing' = [stage |-> "mounting", of |-> 0]
          /\ UpdateUnlessClosed
          /\ awaited' = current'
  /\ UNCHANGED <<index, cached, startup, backgroundClosed, closed, serverVars>>

NewViewReady ==
  /\ replacing.stage = "mounting"
  /\ SomeFailed \/ AllReady
  /\ replacing' = NotReplacing /\ awaited' = NoMounts
  /\ UNCHANGED <<viewVars, startup, backgroundClosed, closed, serverVars>>

-------------------------------------------------------------------------------
(* The servers. *)

(* The attach() of a server ends: it has all, or it disposes what it has.  *)
Ends(s, has) == server' = [server EXCEPT ![s] = "over"] /\ held' = [held EXCEPT ![s] = has]
Proceeds(s, to, has) == server' = [server EXCEPT ![s] = to] /\ held' = [held EXCEPT ![s] = has]

Attach(s) ==
  /\ ~closed /\ server[s] = "idle"
  /\ Proceeds(s, "connecting", {})

(* Each wait may fail, or find that the page is closed.                    *)
RpcOpens(s) ==
  /\ server[s] = "connecting"
  /\ Ends(s, {}) \/ (~closed /\ Proceeds(s, "joining", {"rpc"}))

Joins(s) ==
  /\ server[s] = "joining"
  /\ Ends(s, {}) \/ (~closed /\ Proceeds(s, "mounting", {"rpc", "connection", "attachment"}))

ServerViewsMount(s) ==
  /\ server[s] = "mounting"
  /\ Ends(s, {}) \/ (~closed /\ Ends(s, Resource))

ServerSteps ==
  /\ \E s \in Servers : Attach(s) \/ RpcOpens(s) \/ Joins(s) \/ ServerViewsMount(s)
  /\ UNCHANGED <<backgroundVars, closed>>

-------------------------------------------------------------------------------
(* close(): the servers, the client and the background. *)
Close ==
  /\ ~closed
  /\ closed' = TRUE
  /\ held' = [s \in Servers |-> {}]
  /\ Closes
  /\ UNCHANGED <<awaited, replacing, server>>

BackgroundSteps ==
  \/ Mounts /\ UNCHANGED <<startup, awaited, replacing, backgroundClosed, closed, serverVars>>
  \/ Disconnect \/ IndexUpdated \/ IndexArrives \/ ViewsReady \/ Connected
  \/ Replace \/ OldViewDisposed \/ NewViewReady

PageNext == BackgroundSteps \/ ServerSteps \/ Close

PageSpec == PageInit /\ [][PageNext]_pageVars

-------------------------------------------------------------------------------
(* Properties. *)

(* What the page acquires while it closes is released: after the loss of   *)
(* the background no mount is alive and no connection is attached, though  *)
(* startups and replacements resume; after the close no server is held,    *)
(* wherever its attach() was.  Until then every entry has a live mount and *)
(* every mount an entry, but for a replacement under way, or one whose old *)
(* view could not be disposed.                                             *)
PageFollows ==
  /\ PageTypeOK
  /\ closed => \A s \in Servers : held[s] = {}
  /\ IF backgroundClosed
     THEN startup # "attached" /\ \A k \in Keys : \A m \in DOMAIN mount[k] : mount[k][m].aborted
     ELSE startup # "index" => \A k \in Keys :
       /\ k \in index => current[k] # 0
       /\ Aborted(k) \/ (k \in index <=> current[k] # 0) \/ InMap(k).forgets
       /\ k \in index /\ Aborted(k) =>
            k = Inspector /\ (replacing.stage = "disposing" \/ InMap(k).disposal = "rejected")
===============================================================================
