------------------------------- MODULE HostLifetime -------------------------------
(***************************************************************************)
(* The provider of a Vite development server and of the servers that       *)
(* replace it: ProviderLifetime of examples/vite-hosts/src/lifetime.ts.    *)
(*                                                                         *)
(* A restart creates a server, closes the one before, and has the new one  *)
(* listen, and be closed in its turn, when the closing hook of the old one *)
(* has resolved: that much is Vite's.  Each action is one synchronous      *)
(* segment.                                                                *)
(***************************************************************************)
EXTENDS Naturals

CONSTANT LastServer      \* bound on restarts

ASSUME HostAssumption == LastServer \in Nat

VARIABLE host            \* the lifetimes, by the number of their server

hostVars == <<host>>

Server == 1 .. LastServer
Pending == {"none", "pending", "resolved", "rejected"}

(* provider: what the installer has installed and nobody disposed yet.     *)
Lifetime == [prepared : BOOLEAN, listening : BOOLEAN, closed : BOOLEAN,
             activation : {"none", "installing", "checking", "rolling back", "resolved", "rejected"},
             provider : {"none", "live", "disposed", "blocked"},
             ready : {"pending", "resolved", "rejected"},
             disposal : {"none", "waiting", "cleaning", "resolved", "rejected"}]

HostTypeOK == host \in [Server -> Lifetime]

HostInit ==
  host = [h \in Server |-> [prepared |-> FALSE, listening |-> FALSE, closed |-> FALSE,
                            activation |-> "none", provider |-> "none",
                            ready |-> "pending", disposal |-> "none"]]

Set(h, lifetime) == host' = [host EXCEPT ![h] = lifetime]

(* Mutation: a provider is installed before its server listens. *)
Eager(lifetime) == ~lifetime.closed /\ lifetime.prepared /\ lifetime.activation = "none"
Ready(lifetime) ==
  /\ lifetime.listening /\ ~lifetime.closed /\ lifetime.prepared /\ lifetime.activation = "none"

Activated(lifetime) ==
  IF Ready(lifetime) THEN [lifetime EXCEPT !.activation = "installing"] ELSE lifetime

(* The native host hands over its context, before or after the server      *)
(* listens.                                                                *)
Prepare(h) ==
  /\ ~host[h].prepared
  /\ Set(h, Activated([host[h] EXCEPT !.prepared = TRUE]))

InTurn(h) == h # 1 => host[h - 1].disposal = "resolved"

Listen(h) ==
  /\ InTurn(h)
  /\ ~host[h].listening /\ ~host[h].closed
  /\ Set(h, Activated([host[h] EXCEPT !.listening = TRUE]))

(* createDevframeProvider and the check of the view, with the rollback.    *)
Installed(h) ==
  /\ host[h].activation = "installing"
  /\ \/ Set(h, [host[h] EXCEPT !.activation = "checking", !.provider = "live"])
     \/ Set(h, [host[h] EXCEPT !.activation = "rejected"])

Checked(h) ==
  /\ host[h].activation = "checking"
  /\ \E outcome \in {"resolved", "rolling back"} : Set(h, [host[h] EXCEPT !.activation = outcome])

RolledBack(h) ==
  /\ host[h].activation = "rolling back"
  /\ \E outcome \in {"disposed", "blocked"} :
       Set(h, [host[h] EXCEPT !.activation = "rejected", !.provider = outcome])

Readies(h) ==
  /\ host[h].ready = "pending"
  /\ host[h].activation \in {"resolved", "rejected"}
  /\ Set(h, [host[h] EXCEPT !.ready = host[h].activation])

(* closeServer: one disposal, which waits for an activation.               *)
CloseServer(h) ==
  /\ InTurn(h)
  /\ host[h].disposal = "none"
  /\ IF host[h].activation = "none"
     THEN Set(h, [host[h] EXCEPT !.closed = TRUE, !.ready = "rejected", !.disposal = "resolved"])
     ELSE Set(h, [host[h] EXCEPT !.closed = TRUE, !.disposal = "waiting"])

ActivationAwaited(h) ==
  /\ host[h].disposal = "waiting"
  /\ host[h].activation \in {"resolved", "rejected"}
  /\ Set(h, [host[h] EXCEPT !.disposal = IF host[h].activation = "resolved" THEN "cleaning" ELSE "rejected"])

Cleaned(h) ==
  /\ host[h].disposal = "cleaning"
  /\ \/ Set(h, [host[h] EXCEPT !.disposal = "resolved", !.provider = "disposed"])
     \/ Set(h, [host[h] EXCEPT !.disposal = "rejected", !.provider = "blocked"])

HostNext ==
  \E h \in Server :
    \/ Prepare(h) \/ Listen(h)
    \/ Installed(h) \/ Checked(h) \/ RolledBack(h) \/ Readies(h)
    \/ CloseServer(h) \/ ActivationAwaited(h) \/ Cleaned(h)

HostSpec == HostInit /\ [][HostNext]_hostVars

-------------------------------------------------------------------------------
(* Properties. *)

(* A provider's contributions and those of its replacement never overlap:  *)
(* one begins to install after the other is gone, though its native        *)
(* context was there before.  A closing hook that has ended left nothing   *)
(* that is still to be disposed, and a provider is only given to those who *)
(* wait for it when it is the one that was installed.                      *)
Occupied(h) == host[h].activation = "installing" \/ host[h].provider \in {"live", "blocked"}

OneHostProvider ==
  /\ HostTypeOK
  /\ \A h, i \in Server : h # i => ~(Occupied(h) /\ Occupied(i))
  /\ \A h \in Server :
       /\ host[h].disposal \in {"resolved", "rejected"} =>
            host[h].activation # "installing" /\ host[h].provider # "live"
       /\ host[h].ready = "resolved" => host[h].activation = "resolved" /\ host[h].provider # "none"
===============================================================================
