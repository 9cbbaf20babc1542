-------------------------- MODULE ProductionPublication --------------------------
(***************************************************************************)
(* A build watcher that publishes complete builds to a preview in another  *)
(* process: examples/vite-hosts/src/production-output.ts,                  *)
(* production-watch.ts and production-preview.ts.                          *)
(*                                                                         *)
(* What the processes share is a directory.  Each action is one operation  *)
(* on it: a publisher may be killed, and the preview may read, between any *)
(* two.  A kill leaves the lock, which somebody deletes once no publisher  *)
(* is left.  A generation is named for the attempt it was built in, what   *)
(* the source's random names come to.                                      *)
(***************************************************************************)
EXTENDS Naturals, FiniteSets

CONSTANTS
  Publishers,       \* processes, each started and killed any number of times
  MaxAttempts       \* bound on builds

ASSUME PublicationAssumption == MaxAttempts \in Nat

VARIABLES
  lock,          \* whether the file is there
  status,        \* what the status file says
  staging,       \* the content of the staging directory
  published,     \* what is in the directory of generations, by name
  publisher,     \* the processes
  shown          \* the generation the preview has sent a browser to, or None

publicationVars == <<lock, status, staging, published, publisher, shown>>

None == 0
Name == 1 .. MaxAttempts
Status == [phase : {"starting", "building", "ready", "failed", "stopped"},
           attempt : 0 .. MaxAttempts, generation : {None} \cup Name]
Content == [build : 0 .. MaxAttempts, whole : BOOLEAN]
Initial == [phase |-> "starting", attempt |-> 0, generation |-> None]
Invalid == [Initial EXCEPT !.phase = "invalid"]      \* what isStatus() refuses

(* pc: "locked" has the lock and has not read the status, "copying" and    *)
(* "copied" are about a temporary name, "publishing" writes `next`.        *)
NoContent == [build |-> 0, whole |-> FALSE]
Dead == [pc |-> "dead", memory |-> Initial, next |-> Initial, copy |-> NoContent]
Publisher == [pc : {"dead", "locked", "idle", "building", "built", "copying", "copied",
                    "publishing", "closing", "unlocking"},
              memory : Status, next : Status, copy : Content]

PublicationTypeOK ==
  /\ lock \in BOOLEAN
  /\ status \in Status \cup {Invalid}
  /\ staging \in Content
  /\ published \in [Name -> Content]
  /\ publisher \in [Publishers -> Publisher]
  /\ shown \in {None} \cup Name

PublicationInit ==
  /\ lock = FALSE
  /\ status \in {Initial, Invalid}
  /\ staging = NoContent
  /\ published = [n \in Name |-> NoContent]
  /\ publisher = [p \in Publishers |-> Dead]
  /\ shown = None

-------------------------------------------------------------------------------
(* The publisher. *)

At(p, pc) == publisher[p].pc = pc
Goes(p, pc) == publisher' = [publisher EXCEPT ![p].pc = pc]
Memory(p) == publisher[p].memory

(* publish(): a temporary file that is renamed, or fails before it is.     *)
Published(p, new, pc) ==
  /\ status' = new
  /\ publisher' = [publisher EXCEPT ![p] = [Dead EXCEPT !.pc = pc, !.memory = new]]
ToPublish(p, new) ==
  /\ publisher' = [publisher EXCEPT ![p] = [Dead EXCEPT !.pc = "publishing", !.next = new,
                                                        !.memory = Memory(p)]]
Failed(p) == [Memory(p) EXCEPT !.phase = "failed"]

(* Mutation: the lock file is opened although it is there. *)
LockIgnored == TRUE
LockAbsent == ~lock

Locks(p) ==
  /\ At(p, "dead") /\ LockAbsent
  /\ lock' = TRUE
  /\ Goes(p, "locked")
  /\ UNCHANGED <<status, staging, published, shown>>

ReadsStatus(p) ==
  /\ At(p, "locked")
  /\ IF status = Invalid
     THEN lock' = FALSE /\ Goes(p, "dead")
     ELSE /\ publisher' = [publisher EXCEPT ![p] = [Dead EXCEPT !.pc = "idle", !.memory = status]]
          /\ UNCHANGED lock
  /\ UNCHANGED <<status, staging, published, shown>>

(* buildStart; a rejection is a failed build.                              *)
BuildStarts(p) ==
  /\ At(p, "idle") /\ Memory(p).attempt < MaxAttempts
  /\ LET new == [Memory(p) EXCEPT !.phase = "building", !.attempt = @ + 1]
     IN \/ Published(p, new, "building") /\ staging' = [build |-> new.attempt, whole |-> FALSE]
        \/ ToPublish(p, Failed(p)) /\ UNCHANGED <<status, staging>>
  /\ UNCHANGED <<lock, published, shown>>

BuildEnds(p) ==
  /\ At(p, "building")
  /\ \/ staging' = [build |-> Memory(p).attempt, whole |-> TRUE] /\ Goes(p, "built")
     \/ ToPublish(p, Failed(p)) /\ UNCHANGED staging
  /\ UNCHANGED <<lock, status, published, shown>>

(* complete(): what it copies is whole if the staging directory is, from   *)
(* the beginning to the end.                                               *)
CopyBegins(p) ==
  /\ At(p, "built")
  /\ publisher' = [publisher EXCEPT ![p].pc = "copying", ![p].copy = staging]
  /\ UNCHANGED <<lock, status, staging, published, shown>>

CopyEnds(p) ==
  /\ At(p, "copying")
  /\ \/ publisher' = [publisher EXCEPT ![p].pc = "copied",
                        ![p].copy.whole = @ /\ publisher[p].copy = staging]
     \/ ToPublish(p, Failed(p))
  /\ UNCHANGED <<lock, status, staging, published, shown>>

Renames(p) ==
  /\ At(p, "copied")
  /\ LET name == Memory(p).attempt
     IN \/ /\ published' = [published EXCEPT ![name] = publisher[p].copy]
           /\ ToPublish(p, [Memory(p) EXCEPT !.phase = "ready", !.generation = name])
        \/ ToPublish(p, Failed(p)) /\ UNCHANGED published
  /\ UNCHANGED <<lock, status, staging, shown>>

(* If `ready` cannot be written `failed` is tried; if that cannot, the     *)
(* watcher's event handler has thrown.                                     *)
Publishes(p) ==
  /\ At(p, "publishing")
  /\ \/ Published(p, publisher[p].next, "idle")
     \/ /\ IF publisher[p].next.phase = "ready" THEN ToPublish(p, Failed(p))
           ELSE \E pc \in {"idle", "closing"} :
                  publisher' = [publisher EXCEPT ![p] = [Dead EXCEPT !.pc = pc, !.memory = Memory(p)]]
        /\ UNCHANGED status
  /\ UNCHANGED <<lock, staging, published, shown>>

(* close(), after the watcher's or at the exit of the process.             *)
Stops(p) ==
  /\ publisher[p].pc \in {"idle", "building", "built"}
  /\ Goes(p, "closing")
  /\ UNCHANGED <<lock, status, staging, published, shown>>

PublishesStopped(p) ==
  /\ At(p, "closing")
  /\ \/ Published(p, [Memory(p) EXCEPT !.phase = "stopped"], "unlocking")
     \/ Goes(p, "unlocking") /\ UNCHANGED status
  /\ UNCHANGED <<lock, staging, published, shown>>

Unlocks(p) ==
  /\ At(p, "unlocking")
  /\ lock' = FALSE
  /\ publisher' = [publisher EXCEPT ![p] = Dead]
  /\ UNCHANGED <<status, staging, published, shown>>

-------------------------------------------------------------------------------
(* Around it. *)

Killed(p) ==
  /\ ~At(p, "dead")
  /\ publisher' = [publisher EXCEPT ![p] = Dead]
  /\ UNCHANGED <<lock, status, staging, published, shown>>

StaleLockDeleted ==
  /\ lock /\ \A p \in Publishers : At(p, "dead")
  /\ lock' = FALSE
  /\ UNCHANGED <<status, staging, published, publisher, shown>>

(* The preview answers a request for the page, if it can.                  *)
Redirects ==
  /\ status # Invalid /\ status.generation # None
  /\ shown' = status.generation
  /\ UNCHANGED <<lock, status, staging, published, publisher>>

PublicationNext ==
  \/ \E p \in Publishers :
       \/ Locks(p) \/ ReadsStatus(p) \/ BuildStarts(p) \/ BuildEnds(p)
       \/ CopyBegins(p) \/ CopyEnds(p) \/ Renames(p) \/ Publishes(p)
       \/ Stops(p) \/ PublishesStopped(p) \/ Unlocks(p) \/ Killed(p)
  \/ StaleLockDeleted \/ Redirects

PublicationSpec == PublicationInit /\ [][PublicationNext]_publicationVars

-------------------------------------------------------------------------------
(* Properties. *)

(* A browser is only sent to a whole build of the attempt it is named for, *)
(* wherever a publisher failed or was killed; one publisher is at work at  *)
(* a time, under the lock; and what it takes the status for, to which it   *)
(* adds, is what the file says.                                            *)
Whole(n) == published[n] = [build |-> n, whole |-> TRUE]
Alive == {p \in Publishers : ~At(p, "dead")}

PublishedIsWhole ==
  /\ PublicationTypeOK
  /\ status # Invalid /\ status.generation # None => Whole(status.generation)
  /\ shown # None => Whole(shown)
  /\ Cardinality(Alive) <= 1
  /\ Alive # {} => lock
  /\ \A p \in Alive : ~At(p, "locked") => Memory(p) = status
===============================================================================
