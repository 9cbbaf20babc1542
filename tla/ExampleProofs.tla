------------------------------ MODULE ExampleProofs ------------------------------
(***************************************************************************)
(* Theorems about four of the examples, each a protocol of its own: the    *)
(* hosts that replace each other, for any number of restarts; the builds   *)
(* that are published, for any number of processes and attempts; the       *)
(* header rules; and the inspector's script, for any number of calls.      *)
(***************************************************************************)
EXTENDS HostLifetime, ProductionPublication, NativeRules, NativeInspector,
        FiniteSetTheorems, TLAPS

(* A lifetime by itself: a provider is installed once its server listens,  *)
(* and a disposal that has ended left none that lives.                     *)
SoundLifetime(l) ==
  /\ l.activation # "none" => l.listening
  /\ l.activation \in {"none", "installing"} => l.provider = "none"
  /\ l.activation \in {"checking", "rolling back"} => l.provider = "live"
  /\ l.activation = "resolved" => l.provider # "none"
  /\ l.activation = "rejected" => l.provider # "live"
  /\ l.disposal # "none" => l.closed
  /\ l.disposal \in {"cleaning", "resolved", "rejected"} =>
       l.activation \in {"none", "resolved", "rejected"}
  /\ l.disposal = "cleaning" => l.activation = "resolved"
  /\ l.disposal \in {"resolved", "rejected"} => l.provider # "live"
  /\ l.disposal = "resolved" => l.provider \in {"none", "disposed"}
  /\ l.ready = "resolved" => l.activation = "resolved"

(* Who has had its turn has seen every server before it go. *)
Begun(l) == l.listening \/ l.disposal # "none"
HostInv ==
  /\ HostTypeOK
  /\ \A h \in Server : SoundLifetime(host[h])
  /\ \A h \in Server : Begun(host[h]) =>
       \A g \in Server : g < h => host[g].disposal = "resolved"

(* A publisher that has come to a copy has the build it began, alone.      *)
Built(p) == [build |-> Memory(p).attempt, whole |-> TRUE]
PublisherOK(p) ==
  /\ publisher[p].pc \in {"building", "built", "copying", "copied"} => Memory(p).attempt # 0
  /\ publisher[p].pc \in {"built", "copying"} => staging = Built(p)
  /\ publisher[p].pc \in {"copying", "copied"} => publisher[p].copy = Built(p)
  /\ publisher[p].pc = "publishing" /\ publisher[p].next.generation # None =>
       Whole(publisher[p].next.generation)
  /\ publisher[p].pc \notin {"dead", "locked"} => Memory(p) = status
  /\ publisher[p].pc # "dead" => lock
PublicationInv ==
  /\ PublicationTypeOK
  /\ status # Invalid /\ status.generation # None => Whole(status.generation)
  /\ shown # None => Whole(shown)
  /\ \A p, q \in Publishers : ~At(p, "dead") /\ ~At(q, "dead") => p = q
  /\ \A p \in Publishers : PublisherOK(p)

(* What a contribution is by itself: with no setup or cleanup under way it *)
(* has its rule if it is active, or if it could not be removed.            *)
SoundContribution(c) ==
  /\ c.status = "active" <=> c.phase = "done"
  /\ c.status \in {"gone", "failed", "disabled"} => c.phase = "none"
  /\ c.status = "cleanup-blocked" => c.phase = "stuck"
RulesInv ==
  /\ owned \in [Controlled \cup Fixture -> Contributed]
  /\ \A n \in Controlled \cup Fixture : SoundContribution(owned[n])
  /\ orphaned \subseteq rules
  /\ \A id : id \in rules \ orphaned <=> \E n \in Controlled \cup Fixture : Holds(n) /\ RuleId(n) = id
  /\ \A n, o \in Controlled \cup Fixture : n # o /\ Holds(n) /\ Holds(o) => RuleId(n) # RuleId(o)

(* The last update that the browser made, if its answer is still to come,  *)
(* says what it has; without one, the service knows.  A script that was    *)
(* left behind is known to nobody.                                         *)
Question == [by : InspectorCalls \cup {Cleanup}, update : {"register", "unregister"},
             result : {"none", "ok", "refused"}]
Made(i) == asked[i].result = "ok"
Queue ==
  /\ asked \in Seq(Question)
  /\ \A i, j \in DOMAIN asked : i < j /\ asked[i].result = "none" => asked[j].result = "none"
  /\ \A i, j \in DOMAIN asked : asked[i].by = asked[j].by => i = j
Waiting ==
  /\ \A i \in DOMAIN asked :
       IF asked[i].by = Cleanup THEN service = "cleaning" /\ asked[i].update = "unregister"
       ELSE inspection[asked[i].by] = "updating"
  /\ service \in {"none", "cleaning", "cleanup-blocked"} =>
       \A c \in InspectorCalls : inspection[c] = "idle"
  /\ service = "none" => ~registered
Belief ==
  /\ marker = registered
  /\ orphan => /\ script /\ ~registered
               /\ \A i \in DOMAIN asked : asked[i].update = "register" /\ ~Made(i)
  /\ ~orphan /\ (\A i \in DOMAIN asked : ~Made(i)) => registered = script
  /\ ~orphan => \A i \in DOMAIN asked :
       Made(i) /\ (\A j \in DOMAIN asked : i < j => ~Made(j)) => script = (asked[i].update = "register")
InspectorInv == InspectorTypeOK /\ Queue /\ Waiting /\ Belief

-------------------------------------------------------------------------------
(* The hosts.  One lifetime at a time changes; one that begins has had its *)
(* turn, and a disposal that has resolved stays so.                        *)
LEMMA LifetimeStep ==
  ASSUME HostInv, NEW h \in Server, NEW l \in Lifetime, Set(h, l), SoundLifetime(l),
         Begun(l) => Begun(host[h]) \/ InTurn(h),
         host[h].disposal = "resolved" => l.disposal = "resolved"
  PROVE  HostInv'
<1>1. host \in [Server -> Lifetime]
  BY DEF HostInv, HostTypeOK
<1>2. host' \in [Server -> Lifetime] /\ \A g \in Server : host'[g] = IF g = h THEN l ELSE host[g]
  BY <1>1 DEF Set
<1>3. \A g \in Server : SoundLifetime(host'[g])
  BY <1>2 DEF HostInv
<1>4. \A g \in Server : host[g].disposal = "resolved" => host'[g].disposal = "resolved"
  BY <1>2
<1>5. ASSUME Begun(host[h]) \/ InTurn(h)
      PROVE  \A g \in Server : g < h => host[g].disposal = "resolved"
  <2>1. CASE Begun(host[h])
    BY <2>1 DEF HostInv
  <2>2. CASE InTurn(h) /\ h # 1
    <3>1. h - 1 \in Server /\ host[h - 1].disposal = "resolved"
      BY <2>2, HostAssumption DEF InTurn, Server
    <3>2. \A g \in Server : g < h - 1 => host[g].disposal = "resolved"
      BY <3>1 DEF HostInv, Begun
    <3>3. \A g \in Server : g < h => g < h - 1 \/ g = h - 1
      BY HostAssumption DEF Server
    <3> QED BY <3>1, <3>2, <3>3
  <2>3. CASE h = 1
    BY <2>3, HostAssumption DEF Server
  <2> QED BY <1>5, <2>1, <2>2, <2>3
<1>6. \A i \in Server : Begun(host'[i]) => \A g \in Server : g < i => host'[g].disposal = "resolved"
  <2> SUFFICES ASSUME NEW i \in Server, Begun(host'[i]), NEW g \in Server, g < i
               PROVE  host[g].disposal = "resolved"
    BY <1>4
  <2>1. CASE i = h
    BY <1>2, <1>5, <2>1
  <2>2. CASE i # h
    BY <1>2, <2>2 DEF HostInv
  <2> QED BY <2>1, <2>2
<1> QED BY <1>2, <1>3, <1>6 DEF HostInv, HostTypeOK

LEMMA HostStep ==
  ASSUME HostInv, [HostNext]_hostVars
  PROVE  HostInv'
<1>1. CASE UNCHANGED hostVars
  BY <1>1 DEF hostVars, HostInv, HostTypeOK
<1>2. SUFFICES ASSUME NEW h \in Server,
                      \/ Prepare(h) \/ Listen(h)
                      \/ Installed(h) \/ Checked(h) \/ RolledBack(h) \/ Readies(h)
                      \/ CloseServer(h) \/ ActivationAwaited(h) \/ Cleaned(h)
               PROVE  HostInv'
  BY <1>1 DEF HostNext
<1>3. host[h] \in Lifetime /\ SoundLifetime(host[h])
  BY DEF HostInv, HostTypeOK
<1>4. PICK l : /\ Set(h, l) /\ l \in Lifetime /\ SoundLifetime(l)
               /\ Begun(l) => Begun(host[h]) \/ InTurn(h)
               /\ host[h].disposal = "resolved" => l.disposal = "resolved"
  <2> DEFINE Good(l) == /\ l \in Lifetime /\ SoundLifetime(l)
                        /\ Begun(l) => Begun(host[h]) \/ InTurn(h)
                        /\ host[h].disposal = "resolved" => l.disposal = "resolved"
  <2>1. CASE Prepare(h)
    <3>1. Good(Activated([host[h] EXCEPT !.prepared = TRUE]))
      BY <1>3, <2>1 DEF Prepare, Activated, Ready, Lifetime, SoundLifetime, Begun
    <3> QED BY <2>1, <3>1 DEF Prepare
  <2>2. CASE Listen(h)
    <3>1. Good(Activated([host[h] EXCEPT !.listening = TRUE]))
      BY <1>3, <2>2 DEF Listen, Activated, Ready, Lifetime, SoundLifetime, Begun
    <3> QED BY <2>2, <3>1 DEF Listen
  <2>3. CASE Installed(h)
    <3>1. /\ Good([host[h] EXCEPT !.activation = "checking", !.provider = "live"])
          /\ Good([host[h] EXCEPT !.activation = "rejected"])
      BY <1>3, <2>3 DEF Installed, Lifetime, SoundLifetime, Begun
    <3> QED BY <2>3, <3>1 DEF Installed
  <2>4. CASE Checked(h)
    <3>1. \A outcome \in {"resolved", "rolling back"} : Good([host[h] EXCEPT !.activation = outcome])
      BY <1>3, <2>4 DEF Checked, Lifetime, SoundLifetime, Begun
    <3> QED BY <2>4, <3>1 DEF Checked
  <2>5. CASE RolledBack(h)
    <3>1. \A outcome \in {"disposed", "blocked"} :
            Good([host[h] EXCEPT !.activation = "rejected", !.provider = outcome])
      BY <1>3, <2>5 DEF RolledBack, Lifetime, SoundLifetime, Begun
    <3> QED BY <2>5, <3>1 DEF RolledBack
  <2>6. CASE Readies(h)
    <3>1. Good([host[h] EXCEPT !.ready = host[h].activation])
      BY <1>3, <2>6 DEF Readies, Lifetime, SoundLifetime, Begun
    <3> QED BY <2>6, <3>1 DEF Readies
  <2>7. CASE CloseServer(h)
    <3>1. /\ host[h].activation = "none" =>
               Good([host[h] EXCEPT !.closed = TRUE, !.ready = "rejected", !.disposal = "resolved"])
          /\ Good([host[h] EXCEPT !.closed = TRUE, !.disposal = "waiting"])
      BY <1>3, <2>7 DEF CloseServer, Lifetime, SoundLifetime, Begun
    <3> QED BY <2>7, <3>1 DEF CloseServer
  <2>8. CASE ActivationAwaited(h)
    <3>1. Good([host[h] EXCEPT !.disposal = IF host[h].activation = "resolved" THEN "cleaning"
                                             ELSE "rejected"])
      BY <1>3, <2>8 DEF ActivationAwaited, Lifetime, SoundLifetime, Begun
    <3> QED BY <2>8, <3>1 DEF ActivationAwaited
  <2>9. CASE Cleaned(h)
    <3>1. /\ Good([host[h] EXCEPT !.disposal = "resolved", !.provider = "disposed"])
          /\ Good([host[h] EXCEPT !.disposal = "rejected", !.provider = "blocked"])
      BY <1>3, <2>9 DEF Cleaned, Lifetime, SoundLifetime, Begun
    <3> QED BY <2>9, <3>1 DEF Cleaned
  <2> QED BY <1>2, <2>1, <2>2, <2>3, <2>4, <2>5, <2>6, <2>7, <2>8, <2>9
<1> QED BY <1>4, LifetimeStep

(* One provider at a time occupies what the hosts that replace each other  *)
(* share, for any number of restarts: ProviderLifetime of lifetime.ts      *)
(* installs one when its server listens, which it does after closeServer   *)
(* of every server before it has resolved.                                 *)
THEOREM HostsTakeTurns == HostSpec => []OneHostProvider
<1>1. HostInit => HostInv
  <2> DEFINE l == [prepared |-> FALSE, listening |-> FALSE, closed |-> FALSE,
                   activation |-> "none", provider |-> "none",
                   ready |-> "pending", disposal |-> "none"]
  <2>1. l \in Lifetime /\ SoundLifetime(l) /\ ~Begun(l)
    BY DEF Lifetime, SoundLifetime, Begun
  <2>2. HostInit => host = [h \in Server |-> l]
    BY DEF HostInit
  <2> HIDE DEF l
  <2> QED BY <2>1, <2>2 DEF HostInv, HostTypeOK
<1>2. HostInv /\ [HostNext]_hostVars => HostInv'
  BY HostStep
<1>3. HostInv => OneHostProvider
  <2> SUFFICES ASSUME HostInv PROVE OneHostProvider
    OBVIOUS
  <2>1. \A h \in Server : Occupied(h) => Begun(host[h]) /\ host[h].disposal # "resolved"
    BY DEF HostInv, HostTypeOK, SoundLifetime, Begun, Occupied, Lifetime
  <2>2. \A h, i \in Server : h # i => h < i \/ i < h
    BY HostAssumption DEF Server
  <2>3. \A h, i \in Server : h # i => ~(Occupied(h) /\ Occupied(i))
    BY <2>1, <2>2 DEF HostInv
  <2>4. \A h \in Server :
          /\ host[h].disposal \in {"resolved", "rejected"} =>
               host[h].activation # "installing" /\ host[h].provider # "live"
          /\ host[h].ready = "resolved" => host[h].activation = "resolved" /\ host[h].provider # "none"
    BY DEF HostInv, SoundLifetime
  <2> QED BY <2>3, <2>4 DEF OneHostProvider, HostInv
<1> QED BY <1>1, <1>2, <1>3, PTL DEF HostSpec

-------------------------------------------------------------------------------
(* The builds.  One publisher at a time changes; what the others, who are  *)
(* dead or out of the lock, are is not touched.                            *)
LEMMA PublicationFacts ==
  ASSUME PublicationInv, NEW p \in Publishers
  PROVE  /\ publisher \in [Publishers -> Publisher] /\ publisher[p] \in Publisher
         /\ PublisherOK(p) /\ Memory(p) \in Status
         /\ published \in [Name -> Content] /\ staging \in Content
         /\ status \in Status \cup {Invalid} /\ lock \in BOOLEAN
         /\ \A q \in Publishers \ {p} : ~At(p, "dead") => At(q, "dead")
BY DEF PublicationInv, PublicationTypeOK, Publisher, Memory

LEMMA Constants ==
  /\ Initial \in Status /\ NoContent \in Content /\ Dead \in Publisher
  /\ Invalid \notin Status /\ Invalid # Initial
  /\ \A s \in Status : s.generation # None => s.generation \in Name
<1>1. Initial \in Status /\ NoContent \in Content
  BY PublicationAssumption DEF Initial, Status, NoContent, Content, None
<1>2. Dead \in Publisher
  BY <1>1 DEF Dead, Publisher
<1>3. Invalid.phase = "invalid"
  BY DEF Invalid, Initial
<1> QED BY <1>1, <1>2, <1>3 DEF Status

(* A publisher goes on to r: the others are dead, if it is not.            *)
LEMMA PublisherStep ==
  ASSUME PublicationInv, NEW p \in Publishers, NEW r \in Publisher,
         publisher' = [publisher EXCEPT ![p] = r],
         \/ publisher[p].pc # "dead"
         \/ r.pc = "dead"
         \/ \A q \in Publishers : At(q, "dead"),
         PublisherOK(p)',
         lock' \in BOOLEAN, status' \in Status \cup {Invalid}, staging' \in Content,
         published' \in [Name -> Content], shown' = shown,
         status' # Invalid /\ status'.generation # None => Whole(status.generation)',
         \A n \in Name : Whole(n) => Whole(n)',
         \/ publisher[p].pc # "dead" \/ \A q \in Publishers : At(q, "dead")
         \/ UNCHANGED <<lock, status, staging>>
  PROVE  PublicationInv'
<1>1. publisher \in [Publishers -> Publisher]
  BY PublicationFacts
<1>2. publisher' \in [Publishers -> Publisher] /\ publisher'[p] = r
      /\ \A q \in Publishers \ {p} : publisher'[q] = publisher[q]
  BY <1>1
<1>3. \A q, o \in Publishers : publisher'[q].pc # "dead" /\ publisher'[o].pc # "dead" => q = o
  BY <1>2 DEF PublicationInv, At
<1>4. ASSUME NEW q \in Publishers \ {p} PROVE PublisherOK(q)'
  <2>1. CASE publisher[q].pc = "dead"
    BY <1>2, <2>1 DEF PublisherOK
  <2>2. CASE publisher[q].pc # "dead"
    <3>1. UNCHANGED <<lock, status, staging>> /\ publisher[q] \in Publisher /\ PublisherOK(q)
      BY <2>2, PublicationFacts DEF PublicationInv, At
    <3>2. publisher[q].next.generation # None => publisher[q].next.generation \in Name
      BY <3>1, Constants DEF Publisher
    <3> QED BY <1>2, <3>1, <3>2 DEF PublisherOK, Memory, Built
  <2> QED BY <2>1, <2>2
<1>5. shown' # None => Whole(shown)'
  BY DEF PublicationInv, PublicationTypeOK
<1>6. PublicationTypeOK'
  BY <1>2 DEF PublicationInv, PublicationTypeOK
<1>7. \A q \in Publishers : PublisherOK(q)'
  BY <1>4
<1> QED BY <1>3, <1>5, <1>6, <1>7 DEF PublicationInv, At
(* A publisher at work is about to write a status, or has written it.      *)
LEMMA ToPublishStep ==
  ASSUME PublicationInv, NEW p \in Publishers, publisher[p].pc \notin {"dead", "locked"},
         NEW new \in Status, ToPublish(p, new), UNCHANGED <<lock, status, staging, shown>>,
         published' \in [Name -> Content], \A n \in Name : Whole(n) => Whole(n)',
         new.generation # None => Whole(new.generation)'
  PROVE  PublicationInv'
<1> DEFINE r == [Dead EXCEPT !.pc = "publishing", !.next = new, !.memory = Memory(p)]
<1>1. /\ r \in Publisher /\ r.pc = "publishing" /\ r.next = new /\ r.memory = Memory(p)
  BY Constants, PublicationFacts DEF Dead, Publisher
<1>2. publisher' = [publisher EXCEPT ![p] = r]
  BY DEF ToPublish
<1> HIDE DEF r
<1>3. publisher'[p] = r
  BY <1>2, PublicationFacts
<1>4. PublisherOK(p)'
  BY <1>1, <1>3, PublicationFacts DEF PublisherOK, Memory
<1>5. status' # Invalid /\ status'.generation # None => Whole(status.generation)'
  BY Constants, PublicationFacts DEF PublicationInv
<1> QED BY <1>1, <1>2, <1>4, <1>5, PublisherStep, PublicationFacts

LEMMA PublishedStep ==
  ASSUME PublicationInv, NEW p \in Publishers, publisher[p].pc \notin {"dead", "locked"},
         NEW new \in Status, NEW pc \in {"idle", "building", "unlocking"}, Published(p, new, pc),
         UNCHANGED <<lock, published, shown>>, staging' \in Content,
         pc = "building" => new.attempt # 0,
         new.generation # None => Whole(new.generation)
  PROVE  PublicationInv'
<1> DEFINE r == [Dead EXCEPT !.pc = pc, !.memory = new]
<1>1. r \in Publisher /\ r.pc = pc /\ r.memory = new
  BY Constants DEF Dead, Publisher
<1>2. publisher' = [publisher EXCEPT ![p] = r] /\ status' = new
  BY DEF Published
<1> HIDE DEF r
<1>3. publisher'[p] = r
  BY <1>2, PublicationFacts
<1>4. PublisherOK(p)'
  BY <1>1, <1>2, <1>3, PublicationFacts DEF PublisherOK, Memory
<1>5. /\ status' # Invalid /\ status'.generation # None => Whole(status.generation)'
      /\ \A n \in Name : Whole(n) => Whole(n)'
  BY <1>2 DEF Whole
<1> QED BY <1>1, <1>2, <1>4, <1>5, PublisherStep, PublicationFacts

(* A publisher that forgets what it was about. *)
LEMMA RestStep ==
  ASSUME PublicationInv, NEW p \in Publishers, NEW m \in Status,
         NEW pc \in {"dead", "locked", "idle", "closing", "unlocking"},
         NEW r \in Publisher, r.pc = pc, r.memory = m,
         publisher' = [publisher EXCEPT ![p] = r],
         UNCHANGED <<status, staging, published, shown>>,
         pc \notin {"dead", "locked"} => m = status,
         pc # "dead" => lock' = TRUE,
         lock' \in BOOLEAN,
         \/ pc = "dead"
         \/ publisher[p].pc # "dead"
         \/ \A q \in Publishers : At(q, "dead"),
         \/ publisher[p].pc # "dead" \/ lock' = lock \/ \A q \in Publishers : At(q, "dead")
  PROVE  PublicationInv'
<1>1. publisher'[p] = r
  BY PublicationFacts
<1>2. PublisherOK(p)'
  BY <1>1 DEF PublisherOK, Memory
<1>3. /\ status' # Invalid /\ status'.generation # None => Whole(status.generation)'
      /\ \A n \in Name : Whole(n) => Whole(n)'
  BY DEF PublicationInv, Whole
<1> QED BY <1>2, <1>3, PublisherStep, PublicationFacts

LEMMA PublicationStep ==
  ASSUME PublicationInv, [PublicationNext]_publicationVars
  PROVE  PublicationInv'
<1>1. CASE UNCHANGED publicationVars
  BY <1>1 DEF publicationVars, PublicationInv, PublicationTypeOK, PublisherOK, At, Memory, Built, Whole
<1>2. CASE Redirects
  <2>1. status \in Status /\ status.generation \in Name /\ Whole(status.generation)
    BY <1>2, Constants DEF Redirects, PublicationInv, PublicationTypeOK
  <2> QED BY <1>2, <2>1
          DEF Redirects, PublicationInv, PublicationTypeOK, PublisherOK, At, Memory, Built, Whole
<1>3. CASE StaleLockDeleted
  BY <1>3 DEF StaleLockDeleted, PublicationInv, PublicationTypeOK, PublisherOK, At, Memory, Built, Whole
<1>4. ASSUME NEW p \in Publishers,
             \/ Locks(p) \/ ReadsStatus(p) \/ BuildStarts(p) \/ BuildEnds(p)
             \/ CopyBegins(p) \/ CopyEnds(p) \/ Renames(p) \/ Publishes(p)
             \/ Stops(p) \/ PublishesStopped(p) \/ Unlocks(p) \/ Killed(p)
      PROVE  PublicationInv'
  <2> DEFINE m == Memory(p)
  <2>1. /\ publisher \in [Publishers -> Publisher] /\ publisher[p] \in Publisher
        /\ PublisherOK(p) /\ m \in Status
        /\ published \in [Name -> Content] /\ staging \in Content
        /\ lock \in BOOLEAN
    BY PublicationFacts
  <2>2. Failed(p) \in Status /\ Failed(p).generation = m.generation
    BY <2>1 DEF Failed, Status
  <2>3. ASSUME publisher[p].pc \notin {"dead", "locked"}
        PROVE  m = status /\ status \in Status /\ status # Invalid
               /\ (m.generation # None => m.generation \in Name /\ Whole(m.generation))
    BY <2>1, <2>3, Constants DEF PublisherOK, PublicationInv
  <2>4. ASSUME publisher[p].pc \notin {"dead", "locked"}, ToPublish(p, Failed(p)),
               UNCHANGED <<lock, status, staging, published, shown>>
        PROVE  PublicationInv'
    BY <2>1, <2>2, <2>3, <2>4, ToPublishStep DEF Whole
  <2>5. \A q \in Publishers : At(q, "dead") \/ publisher[p].pc = "dead" \/ q = p
    BY DEF PublicationInv, At
  <2>6. CASE Locks(p)
    <3>1. lock' = TRUE /\ Goes(p, "locked") /\ UNCHANGED <<status, staging, published, shown>>
          /\ lock = FALSE
      BY <2>1, <2>6 DEF Locks, LockAbsent
    <3>2. \A q \in Publishers : At(q, "dead")
      BY <3>1 DEF PublicationInv, PublisherOK, At
    <3>3. [publisher[p] EXCEPT !.pc = "locked"] \in Publisher
      BY <2>1 DEF Publisher
    <3>4. /\ [publisher[p] EXCEPT !.pc = "locked"].pc = "locked"
          /\ [publisher[p] EXCEPT !.pc = "locked"].memory = m
          /\ publisher' = [publisher EXCEPT ![p] = [publisher[p] EXCEPT !.pc = "locked"]]
      BY <2>1, <3>1 DEF Publisher, Memory, Goes
    <3> QED BY <2>1, <3>1, <3>2, <3>3, <3>4, RestStep
  <2>7. CASE ReadsStatus(p)
    <3>1. publisher[p].pc = "locked" /\ lock = TRUE /\ UNCHANGED <<status, staging, published, shown>>
      BY <2>1, <2>7 DEF ReadsStatus, At, PublisherOK
    <3>2. CASE status = Invalid
      <4>1. lock' = FALSE /\ publisher' = [publisher EXCEPT ![p] = [publisher[p] EXCEPT !.pc = "dead"]]
        BY <2>1, <2>7, <3>2 DEF ReadsStatus, Goes
      <4>2. /\ [publisher[p] EXCEPT !.pc = "dead"] \in Publisher
            /\ [publisher[p] EXCEPT !.pc = "dead"].pc = "dead"
            /\ [publisher[p] EXCEPT !.pc = "dead"].memory = m
        BY <2>1 DEF Publisher, Memory
      <4> QED BY <2>1, <3>1, <4>1, <4>2, RestStep
    <3>3. CASE status # Invalid
      <4>1. /\ UNCHANGED lock /\ status \in Status
            /\ publisher' = [publisher EXCEPT ![p] = [Dead EXCEPT !.pc = "idle", !.memory = status]]
        BY <2>7, <3>3, PublicationFacts DEF ReadsStatus
      <4>2. /\ [Dead EXCEPT !.pc = "idle", !.memory = status] \in Publisher
            /\ [Dead EXCEPT !.pc = "idle", !.memory = status].pc = "idle"
            /\ [Dead EXCEPT !.pc = "idle", !.memory = status].memory = status
        BY <4>1, Constants DEF Publisher, Dead
      <4> QED BY <3>1, <4>1, <4>2, RestStep
    <3> QED BY <3>2, <3>3
  <2>8. CASE BuildStarts(p)
    <3>1. publisher[p].pc = "idle" /\ m.attempt < MaxAttempts /\ UNCHANGED <<lock, published, shown>>
      BY <2>8 DEF BuildStarts, At
    <3> DEFINE new == [m EXCEPT !.phase = "building", !.attempt = @ + 1]
    <3>2. /\ new \in Status /\ new.generation = m.generation /\ new.attempt \in 0 .. MaxAttempts
          /\ new.attempt # 0
      <4>1. m.attempt \in 0 .. MaxAttempts /\ m.attempt + 1 \in 0 .. MaxAttempts /\ m.attempt + 1 # 0
        BY <2>1, <3>1, PublicationAssumption DEF Status
      <4> HIDE DEF m
      <4> QED BY <2>1, <4>1 DEF Status
    <3>3. CASE Published(p, new, "building") /\ staging' = [build |-> new.attempt, whole |-> FALSE]
      <4>1. staging' \in Content
        BY <3>2, <3>3 DEF Content
      <4>2. new.generation # None => Whole(new.generation)
        BY <2>3, <3>1, <3>2
      <4> HIDE DEF new
      <4> QED BY <3>1, <3>2, <3>3, <4>1, <4>2, PublishedStep
    <3> QED BY <2>4, <2>8, <3>1, <3>3 DEF BuildStarts
  <2>9. CASE BuildEnds(p)
    <3>1. publisher[p].pc = "building" /\ UNCHANGED <<lock, status, published, shown>>
      BY <2>9 DEF BuildEnds, At
    <3>2. CASE staging' = [build |-> m.attempt, whole |-> TRUE] /\ Goes(p, "built")
      <4> DEFINE r == [publisher[p] EXCEPT !.pc = "built"]
      <4>1. r \in Publisher /\ r.pc = "built" /\ r.memory = m
        BY <2>1 DEF Publisher, Memory
      <4>2. publisher' = [publisher EXCEPT ![p] = r]
        BY <2>1, <3>2 DEF Goes
      <4> HIDE DEF r
      <4>3. publisher'[p] = r
        BY <2>1, <4>2
      <4>4. PublisherOK(p)'
        BY <2>1, <3>1, <3>2, <4>1, <4>3 DEF PublisherOK, Memory, Built
      <4>5. /\ status' # Invalid /\ status'.generation # None => Whole(status.generation)'
            /\ \A n \in Name : Whole(n) => Whole(n)'
        BY <3>1 DEF PublicationInv, Whole
      <4>6. staging' \in Content
        BY <2>1, <3>2 DEF Content, Status
      <4> QED BY <2>1, <3>1, <4>1, <4>2, <4>4, <4>5, <4>6, PublisherStep, PublicationFacts
    <3> QED BY <2>4, <2>9, <3>1, <3>2 DEF BuildEnds
  <2>10. ASSUME publisher[p].pc \in {"built", "copying"}, NEW pc \in {"copying", "copied"},
                NEW r \in Publisher, r.pc = pc, r.memory = m, r.copy = staging,
                publisher' = [publisher EXCEPT ![p] = r],
                UNCHANGED <<lock, status, staging, published, shown>>
         PROVE  PublicationInv'
    <3>1. publisher'[p] = r
      BY <2>1, <2>10
    <3>2. PublisherOK(p)'
      BY <2>1, <2>10, <3>1 DEF PublisherOK, Memory, Built
    <3>3. /\ status' # Invalid /\ status'.generation # None => Whole(status.generation)'
          /\ \A n \in Name : Whole(n) => Whole(n)'
      BY <2>10 DEF PublicationInv, Whole
    <3> QED BY <2>1, <2>10, <3>2, <3>3, PublisherStep, PublicationFacts
  <2>11. CASE CopyBegins(p)
    <3> DEFINE r == [publisher[p] EXCEPT !.pc = "copying", !.copy = staging]
    <3>1. r \in Publisher /\ r.pc = "copying" /\ r.memory = m /\ r.copy = staging
      BY <2>1 DEF Publisher, Memory
    <3>2. publisher[p].pc = "built" /\ publisher' = [publisher EXCEPT ![p] = r]
          /\ UNCHANGED <<lock, status, staging, published, shown>>
      BY <2>1, <2>11 DEF CopyBegins, At
    <3> HIDE DEF r
    <3> QED BY <2>10, <3>1, <3>2
  <2>12. CASE CopyEnds(p)
    <3>1. publisher[p].pc = "copying" /\ UNCHANGED <<lock, status, staging, published, shown>>
      BY <2>12 DEF CopyEnds, At
    <3>2. publisher[p].copy = staging /\ staging = Built(p)
      BY <2>1, <3>1 DEF PublisherOK
    <3>3. CASE publisher' = [publisher EXCEPT ![p].pc = "copied",
                               ![p].copy.whole = @ /\ publisher[p].copy = staging]
      <4> DEFINE r == [publisher[p] EXCEPT !.pc = "copied",
                                           !.copy.whole = @ /\ publisher[p].copy = staging]
      <4>1. [staging EXCEPT !.whole = @ /\ publisher[p].copy = staging] = staging
        <5>1. staging.whole = TRUE
          BY <3>2 DEF Built
        <5> QED BY <2>1, <3>2, <5>1 DEF Content
      <4>2. r = [publisher[p] EXCEPT !.pc = "copied", !.copy = staging]
        BY <2>1, <3>2, <4>1 DEF Publisher
      <4>3. r \in Publisher /\ r.pc = "copied" /\ r.memory = m /\ r.copy = staging
        BY <2>1, <4>2 DEF Publisher, Memory
      <4>4. publisher' = [publisher EXCEPT ![p] = r]
        BY <2>1, <3>3
      <4> HIDE DEF r
      <4> QED BY <2>10, <3>1, <4>3, <4>4
    <3> QED BY <2>4, <2>12, <3>1, <3>3 DEF CopyEnds
  <2>13. CASE Renames(p)
    <3>1. /\ publisher[p].pc = "copied" /\ UNCHANGED <<lock, status, staging, shown>>
          /\ publisher[p].copy = [build |-> m.attempt, whole |-> TRUE] /\ m.attempt \in Name
      BY <2>1, <2>13, PublicationAssumption DEF Renames, At, PublisherOK, Built, Status, Name
    <3> DEFINE new == [m EXCEPT !.phase = "ready", !.generation = m.attempt]
    <3>2. CASE published' = [published EXCEPT ![m.attempt] = publisher[p].copy] /\ ToPublish(p, new)
      <4>1. new \in Status /\ new.generation = m.attempt
        BY <2>1, <3>1 DEF Status
      <4>2. PICK name \in Name : name = m.attempt
        BY <3>1
      <4>3. Whole(name)' /\ \A n \in Name : Whole(n) => Whole(n)'
        BY <2>1, <3>1, <3>2, <4>2 DEF Whole
      <4>4. published' \in [Name -> Content]
        BY <2>1, <3>1, <3>2 DEF Publisher
      <4>5. PICK next : next = new
        OBVIOUS
      <4>6. next \in Status /\ ToPublish(p, next)
        BY <3>2, <4>1, <4>5
      <4>7. next.generation # None => Whole(next.generation)'
        BY <4>1, <4>2, <4>3, <4>5
      <4> HIDE DEF new
      <4> QED BY <3>1, <4>3, <4>4, <4>6, <4>7, ToPublishStep
    <3> QED BY <2>4, <2>13, <3>1, <3>2 DEF Renames
  <2>14. CASE Publishes(p)
    <3>1. publisher[p].pc = "publishing" /\ UNCHANGED <<lock, staging, published, shown>>
      BY <2>14 DEF Publishes, At
    <3>2. CASE Published(p, publisher[p].next, "idle")
      <4>1. publisher[p].next \in Status
            /\ (publisher[p].next.generation # None => Whole(publisher[p].next.generation))
        BY <2>1, <3>1 DEF Publisher, PublisherOK
      <4> QED BY <2>1, <3>1, <3>2, <4>1, PublishedStep
    <3>3. ASSUME NEW pc \in {"idle", "closing"}, UNCHANGED status,
                 publisher' = [publisher EXCEPT ![p] = [Dead EXCEPT !.pc = pc, !.memory = m]]
          PROVE  PublicationInv'
      <4>1. /\ [Dead EXCEPT !.pc = pc, !.memory = m] \in Publisher
            /\ [Dead EXCEPT !.pc = pc, !.memory = m].pc = pc
            /\ [Dead EXCEPT !.pc = pc, !.memory = m].memory = m
        BY <2>1, Constants DEF Publisher, Dead
      <4>2. lock = TRUE
        BY <2>1, <3>1 DEF PublisherOK
      <4> HIDE DEF m
      <4> QED BY <2>1, <2>3, <3>1, <3>3, <4>1, <4>2, RestStep
    <3> QED BY <2>4, <2>14, <3>1, <3>2, <3>3 DEF Publishes
  <2>15. ASSUME NEW pc \in {"dead", "closing", "unlocking"}, publisher[p].pc # "dead",
                pc = "dead" \/ publisher[p].pc # "locked",
                Goes(p, pc), UNCHANGED <<lock, status, staging, published, shown>>
         PROVE  PublicationInv'
    <3>1. /\ [publisher[p] EXCEPT !.pc = pc] \in Publisher
          /\ [publisher[p] EXCEPT !.pc = pc].pc = pc
          /\ [publisher[p] EXCEPT !.pc = pc].memory = m
          /\ publisher' = [publisher EXCEPT ![p] = [publisher[p] EXCEPT !.pc = pc]]
      BY <2>1, <2>15 DEF Publisher, Memory, Goes
    <3>2. lock = TRUE
      BY <2>1, <2>15 DEF PublisherOK
    <3> HIDE DEF m
    <3> QED BY <2>1, <2>3, <2>15, <3>1, <3>2, RestStep
  <2>16. CASE Stops(p)
    BY <2>15, <2>16 DEF Stops
  <2>17. CASE PublishesStopped(p)
    <3>1. publisher[p].pc = "closing" /\ UNCHANGED <<lock, staging, published, shown>>
      BY <2>17 DEF PublishesStopped, At
    <3> DEFINE new == [m EXCEPT !.phase = "stopped"]
    <3>2. CASE Published(p, new, "unlocking")
      <4>1. new \in Status /\ new.generation = m.generation
        BY <2>1 DEF Status
      <4>2. new.generation # None => Whole(new.generation)
        BY <2>3, <3>1, <4>1
      <4>3. Published(p, new, "unlocking")
        BY <3>2
      <4> HIDE DEF new
      <4> QED BY <2>1, <3>1, <4>1, <4>2, <4>3, PublishedStep
    <3> QED BY <2>15, <2>17, <3>1, <3>2 DEF PublishesStopped
  <2>18. ASSUME publisher[p].pc # "dead", lock' \in {lock, FALSE},
                publisher' = [publisher EXCEPT ![p] = Dead],
                UNCHANGED <<status, staging, published, shown>>
         PROVE  PublicationInv'
    <3>1. Dead.pc = "dead" /\ Dead.memory = Initial /\ lock' \in BOOLEAN
      BY <2>1, <2>18 DEF Dead
    <3> QED BY <2>18, <3>1, RestStep, Constants
  <2>19. CASE Unlocks(p)
    BY <2>18, <2>19 DEF Unlocks, At
  <2>20. CASE Killed(p)
    BY <2>18, <2>20 DEF Killed, At
  <2> QED BY <1>4, <2>6, <2>7, <2>8, <2>9, <2>11, <2>12, <2>13, <2>14, <2>16, <2>17, <2>19, <2>20
<1> QED BY <1>1, <1>2, <1>3, <1>4 DEF PublicationNext

(* A browser is only ever sent to a whole build, for any number of         *)
(* publishers that fail or are killed at any of their operations: publish, *)
(* complete and the lock of production-output.ts, and the preview that     *)
(* reads what they leave.                                                  *)
THEOREM OnlyWholeBuildsAreShown == PublicationSpec => []PublishedIsWhole
<1>1. PublicationInit => PublicationInv
  <2> SUFFICES ASSUME PublicationInit PROVE PublicationInv
    OBVIOUS
  <2>1. /\ publisher \in [Publishers -> Publisher] /\ published \in [Name -> Content]
        /\ status \in Status \cup {Invalid} /\ staging \in Content /\ lock \in BOOLEAN
        /\ shown = None
    BY Constants DEF PublicationInit
  <2>2. \A p \in Publishers : publisher[p].pc = "dead"
    BY DEF PublicationInit, Dead
  <2>3. status # Invalid => status.generation = None
    BY DEF PublicationInit, Initial
  <2>4. \A p \in Publishers : PublisherOK(p)
    BY <2>2 DEF PublisherOK
  <2> QED BY <2>1, <2>2, <2>3, <2>4 DEF PublicationInv, PublicationTypeOK, At
<1>2. PublicationInv /\ [PublicationNext]_publicationVars => PublicationInv'
  BY PublicationStep
<1>3. PublicationInv => PublishedIsWhole
  <2> SUFFICES ASSUME PublicationInv PROVE PublishedIsWhole
    OBVIOUS
  <2>1. Cardinality(Alive) <= 1
    <3>1. CASE Alive = {}
      BY <3>1, FS_EmptySet
    <3>2. CASE Alive # {}
      <4>1. PICK p : p \in Alive
        BY <3>2
      <4>2. Alive = {p}
        BY <4>1 DEF Alive, PublicationInv
      <4> QED BY <4>2, FS_Singleton
    <3> QED BY <3>1, <3>2
  <2>2. Alive # {} => lock
    BY DEF Alive, At, PublicationInv, PublisherOK
  <2>3. \A p \in Alive : ~At(p, "locked") => Memory(p) = status
    BY DEF Alive, At, PublicationInv, PublisherOK
  <2> QED BY <2>1, <2>2, <2>3 DEF PublicationInv, PublishedIsWhole
<1> QED BY <1>1, <1>2, <1>3, PTL DEF PublicationSpec

-------------------------------------------------------------------------------
(* The rules.  Whether a contribution has its rule is left alone by most   *)
(* of its steps.                                                           *)
Names == Controlled \cup Fixture
HasRule(c) == c.phase \in {"added", "done", "cleaning", "stuck"}

LEMMA RulesFacts ==
  ASSUME RulesInv
  PROVE  /\ owned \in [Names -> Contributed] /\ DOMAIN owned = Names
         /\ \A n \in Names : owned[n] \in Contributed /\ SoundContribution(owned[n])
BY DEF RulesInv, Names

LEMMA OwnStep ==
  ASSUME RulesInv, NEW n \in Names, NEW c \in Contributed, SoundContribution(c), Own(n, c),
         UNCHANGED orphaned,
         \/ (HasRule(c) <=> HasRule(owned[n])) /\ UNCHANGED rules
         \/ HasRule(c) /\ RuleId(n) \notin rules /\ rules' = rules \cup {RuleId(n)}
         \/ ~HasRule(c) /\ HasRule(owned[n]) /\ rules' = rules \ {RuleId(n)}
  PROVE  RulesInv'
<1>1. /\ owned' \in [Names -> Contributed] /\ owned'[n] = c
      /\ \A o \in Names \ {n} : owned'[o] = owned[o]
  BY RulesFacts DEF Own
<1>2. \A o \in Names : SoundContribution(owned'[o])
  BY <1>1, RulesFacts
<1> DEFINE Had(o) == o \in Names /\ HasRule(owned[o])
           Has(o) == o \in Names /\ HasRule(owned'[o])
<1>3. /\ orphaned \subseteq rules
      /\ \A id : id \in rules \ orphaned <=> \E o \in Names : Had(o) /\ RuleId(o) = id
      /\ \A m, o \in Names : m # o /\ Had(m) /\ Had(o) => RuleId(m) # RuleId(o)
  BY DEF RulesInv, Names, Holds, HasRule
<1>4. (Has(n) <=> HasRule(c)) /\ \A o \in Names \ {n} : Has(o) <=> Had(o)
  BY <1>1
<1>5. SUFFICES /\ orphaned \subseteq rules'
               /\ \A id : id \in rules' \ orphaned <=> \E o \in Names : Has(o) /\ RuleId(o) = id
               /\ \A m, o \in Names : m # o /\ Has(m) /\ Has(o) => RuleId(m) # RuleId(o)
  BY <1>1, <1>2 DEF RulesInv, Names, Holds, HasRule
<1>6. (Had(n) <=> HasRule(owned[n])) /\ RuleId(n) \in {RuleId(o) : o \in Names}
  OBVIOUS
<1> HIDE DEF Had, Has
<1>7. CASE (HasRule(c) <=> HasRule(owned[n])) /\ UNCHANGED rules
  <2>1. \A o \in Names : Has(o) <=> Had(o)
    BY <1>4, <1>6, <1>7
  <2> QED BY <1>3, <1>7, <2>1
<1>8. CASE HasRule(c) /\ RuleId(n) \notin rules /\ rules' = rules \cup {RuleId(n)}
  <2>1. \A o \in Names : Had(o) => RuleId(o) # RuleId(n)
    BY <1>3, <1>8
  <2>2. \A o \in Names : Has(o) <=> Had(o) \/ o = n
    BY <1>4, <1>8
  <2> QED BY <1>3, <1>8, <2>1, <2>2
<1>9. CASE ~HasRule(c) /\ HasRule(owned[n]) /\ rules' = rules \ {RuleId(n)}
  <2>1. \A o \in Names : Has(o) <=> Had(o) /\ o # n
    BY <1>4, <1>9
  <2>2. RuleId(n) \in rules \ orphaned
    BY <1>3, <1>6, <1>9
  <2> QED BY <1>3, <1>6, <1>9, <2>1, <2>2
<1> QED BY <1>7, <1>8, <1>9

(* A handle call, and the end of a setup or a cleanup. *)
LEMMA GoneIsSound == Gone \in Contributed /\ SoundContribution(Gone) /\ ~HasRule(Gone)
BY DEF Gone, Contributed, SoundContribution, HasRule

LEMMA StoppedIsSound ==
  ASSUME NEW c \in Contributed
  PROVE  Stopped(c) \in Contributed /\ SoundContribution(Stopped(c)) /\ ~HasRule(Stopped(c))
<1>1. CASE c.disposing
  BY <1>1, GoneIsSound DEF Stopped
<1>2. CASE ~c.disposing
  <2>1. PICK s \in {"disabled", "failed", "starting"} :
          Stopped(c) = [c EXCEPT !.phase = "none", !.status = s]
    BY <1>2 DEF Stopped
  <2> QED BY <2>1 DEF Contributed, SoundContribution, HasRule
<1> QED BY <1>1, <1>2

LEMMA StopIsSound ==
  ASSUME NEW c \in Contributed, SoundContribution(c)
  PROVE  Stop(c) \in Contributed /\ SoundContribution(Stop(c)) /\ (HasRule(Stop(c)) <=> HasRule(c))
<1>1. CASE c.status = "starting"
  BY <1>1 DEF Stop, Contributed, SoundContribution, HasRule
<1>2. CASE c.status = "active"
  BY <1>2 DEF Stop, Contributed, SoundContribution, HasRule
<1>3. CASE c.status \in {"failed", "disabled"}
  <2>1. Stop(c) = Stopped(c) /\ ~HasRule(c)
    BY <1>3 DEF Stop, SoundContribution, HasRule
  <2> QED BY <2>1, StoppedIsSound
<1>4. CASE c.status \notin {"starting", "active", "failed", "disabled"}
  BY <1>4 DEF Stop
<1> QED BY <1>1, <1>2, <1>3, <1>4

(* Whether it is to be enabled or disposed of is of no consequence yet.    *)
LEMMA WishIsSound ==
  ASSUME NEW c \in Contributed, SoundContribution(c), NEW e \in BOOLEAN, NEW d \in BOOLEAN
  PROVE  /\ [c EXCEPT !.enabled = e] \in Contributed
         /\ SoundContribution([c EXCEPT !.enabled = e])
         /\ (HasRule([c EXCEPT !.enabled = e]) <=> HasRule(c))
         /\ [c EXCEPT !.enabled = e, !.disposing = d] \in Contributed
         /\ SoundContribution([c EXCEPT !.enabled = e, !.disposing = d])
         /\ (HasRule([c EXCEPT !.enabled = e, !.disposing = d]) <=> HasRule(c))
         /\ [c EXCEPT !.given = e] \in Contributed
         /\ SoundContribution([c EXCEPT !.given = e])
         /\ (HasRule([c EXCEPT !.given = e]) <=> HasRule(c))
         /\ [c EXCEPT !.failed = e] \in Contributed
         /\ SoundContribution([c EXCEPT !.failed = e])
         /\ (HasRule([c EXCEPT !.failed = e]) <=> HasRule(c))
BY DEF Contributed, SoundContribution, HasRule

LEMMA RulesStep ==
  ASSUME RulesInv, [RulesNext]_ruleVars
  PROVE  RulesInv'
<1>1. CASE UNCHANGED ruleVars
  BY <1>1 DEF ruleVars, RulesInv, Holds
<1>2. CASE Terminated
  <2>1. owned' = [n \in Names |-> Gone] /\ orphaned' = rules /\ rules' = rules
    BY <1>2, RulesFacts DEF Terminated
  <2>2. \A n \in Names : owned'[n] = Gone /\ ~HasRule(owned'[n])
    BY <2>1, GoneIsSound
  <2>3. owned' \in [Names -> Contributed] /\ \A n \in Names : SoundContribution(owned'[n])
    BY <2>1, <2>2, GoneIsSound
  <2> QED BY <2>1, <2>2, <2>3 DEF RulesInv, Names, Holds, HasRule
<1>3. ASSUME UNCHANGED orphaned, NEW n \in Names,
             \/ Install(n) \/ Returned(n) \/ Control(n)
             \/ Added(n) \/ SetupEnds(n) \/ RuleRemoved(n) \/ ContributionEnds(n)
      PROVE  RulesInv'
  <2> DEFINE c == owned[n]
  <2>1. c \in Contributed /\ SoundContribution(c)
    BY RulesFacts
  <2>2. ASSUME NEW d \in Contributed, SoundContribution(d), (HasRule(d) <=> HasRule(c)),
               Own(n, d), UNCHANGED rules
        PROVE  RulesInv'
    BY <1>3, <2>2, OwnStep
  <2>3. CASE Install(n)
    <3> DEFINE d == [Gone EXCEPT !.status = "starting", !.enabled = TRUE]
    <3>1. d \in Contributed /\ SoundContribution(d) /\ ~HasRule(d)
      BY DEF Gone, Contributed, SoundContribution, HasRule
    <3>2. ~HasRule(c) /\ Own(n, d) /\ UNCHANGED rules
      BY <2>1, <2>3 DEF Install, SoundContribution, HasRule
    <3> HIDE DEF d
    <3>3. (HasRule(d) <=> HasRule(c))
      BY <3>1, <3>2 DEF HasRule
    <3> QED BY <2>2, <3>1, <3>2, <3>3
  <2>4. CASE Returned(n)
    BY <2>1, <2>2, <2>4, WishIsSound DEF Returned
  <2>5. CASE Control(n)
    <3>1. UNCHANGED rules
      BY <2>5 DEF Control
    <3>2. CASE Own(n, Stop([c EXCEPT !.enabled = FALSE]))
      BY <2>1, <2>2, <3>1, <3>2, WishIsSound, StopIsSound
    <3>3. CASE Own(n, Stop([c EXCEPT !.enabled = FALSE, !.disposing = TRUE]))
      <4> DEFINE d == [c EXCEPT !.enabled = FALSE, !.disposing = TRUE]
      <4>1. d \in Contributed /\ SoundContribution(d) /\ (HasRule(d) <=> HasRule(c))
        BY <2>1, WishIsSound
      <4>2. Own(n, Stop(d))
        BY <3>3
      <4> HIDE DEF d
      <4> QED BY <2>2, <3>1, <4>1, <4>2, StopIsSound
    <3>4. CASE Own(n, [c EXCEPT !.enabled = TRUE])
      BY <2>1, <2>2, <3>1, <3>4, WishIsSound
    <3>5. CASE c.status = "disabled" /\ Own(n, Stopped([c EXCEPT !.enabled = TRUE]))
      <4>1. ~HasRule(c)
        BY <2>1, <3>5 DEF SoundContribution, HasRule
      <4>2. [c EXCEPT !.enabled = TRUE] \in Contributed
        BY <2>1, WishIsSound
      <4> QED BY <2>2, <3>1, <3>5, <4>1, <4>2, StoppedIsSound
    <3> QED BY <2>5, <3>2, <3>3, <3>4, <3>5 DEF Control
  <2>6. CASE Added(n)
    <3>1. c.phase = "none" /\ c.status \in {"starting", "stopping"}
      BY <2>6 DEF Added
    <3>2. /\ [c EXCEPT !.phase = "refused"] \in Contributed
          /\ SoundContribution([c EXCEPT !.phase = "refused"])
          /\ (HasRule([c EXCEPT !.phase = "refused"]) <=> HasRule(c))
          /\ [c EXCEPT !.phase = "added"] \in Contributed
          /\ SoundContribution([c EXCEPT !.phase = "added"])
          /\ HasRule([c EXCEPT !.phase = "added"])
      BY <2>1, <3>1 DEF Contributed, SoundContribution, HasRule
    <3> QED BY <1>3, <2>2, <2>6, <3>2, OwnStep DEF Added
  <2>7. CASE SetupEnds(n)
    <3>1. c.phase \in {"added", "refused"} /\ c.status \in {"starting", "stopping"} /\ UNCHANGED rules
      BY <2>1, <2>7 DEF SetupEnds, SoundContribution, Contributed
    <3>2. CASE c.phase = "added" /\ c.status = "starting"
      <4> DEFINE d == [c EXCEPT !.status = "active", !.phase = "done"]
      <4>1. d \in Contributed /\ SoundContribution(d) /\ (HasRule(d) <=> HasRule(c))
        BY <2>1, <3>2 DEF Contributed, SoundContribution, HasRule
      <4> QED BY <2>2, <2>7, <3>1, <3>2, <4>1 DEF SetupEnds
    <3>3. CASE ~(c.phase = "added" /\ c.status = "starting")
      <4> DEFINE d == [c EXCEPT !.phase = IF Registered(n) THEN "cleaning" ELSE "removed"]
      <4>1. d \in Contributed /\ SoundContribution(d) /\ (HasRule(d) <=> HasRule(c))
        BY <2>1, <3>1, <3>3 DEF Registered, Contributed, SoundContribution, HasRule
      <4> QED BY <2>2, <2>7, <3>1, <3>3, <4>1 DEF SetupEnds
    <3> QED BY <3>2, <3>3
  <2>8. CASE RuleRemoved(n)
    <3>1. c.phase = "cleaning" /\ HasRule(c) /\ c.status \in {"starting", "stopping"}
      BY <2>1, <2>8 DEF RuleRemoved, HasRule, SoundContribution, Contributed
    <3>2. /\ [c EXCEPT !.phase = "removed"] \in Contributed
          /\ SoundContribution([c EXCEPT !.phase = "removed"])
          /\ ~HasRule([c EXCEPT !.phase = "removed"])
          /\ [c EXCEPT !.phase = "stuck"] \in Contributed
          /\ SoundContribution([c EXCEPT !.phase = "stuck"])
          /\ (HasRule([c EXCEPT !.phase = "stuck"]) <=> HasRule(c))
      BY <2>1, <3>1 DEF Contributed, SoundContribution, HasRule
    <3> QED BY <1>3, <2>2, <2>8, <3>1, <3>2, OwnStep DEF RuleRemoved
  <2>9. CASE ContributionEnds(n)
    <3> DEFINE d == [c EXCEPT !.failed = @ \/ c.status = "starting"]
    <3>1. d \in Contributed /\ SoundContribution(d) /\ (HasRule(d) <=> HasRule(c))
      BY <2>1 DEF Contributed, SoundContribution, HasRule
    <3>2. c.phase \in {"removed", "stuck", "none"} /\ UNCHANGED rules
          /\ c.status \in {"starting", "stopping"}
      BY <2>9 DEF ContributionEnds
    <3>3. IF c.phase = "stuck" THEN Own(n, [d EXCEPT !.status = "cleanup-blocked"])
          ELSE Own(n, Stopped(d))
      BY <2>9 DEF ContributionEnds
    <3>4. d.phase = c.phase
      BY <2>1 DEF Contributed
    <3> HIDE DEF d
    <3>5. CASE c.phase = "stuck"
      <4>1. /\ [d EXCEPT !.status = "cleanup-blocked"] \in Contributed
            /\ SoundContribution([d EXCEPT !.status = "cleanup-blocked"])
            /\ (HasRule([d EXCEPT !.status = "cleanup-blocked"]) <=> HasRule(c))
        BY <3>1, <3>4, <3>5 DEF Contributed, SoundContribution, HasRule
      <4> QED BY <2>2, <3>2, <3>3, <3>5, <4>1
    <3>6. CASE c.phase # "stuck"
      <4>1. ~HasRule(c)
        BY <3>2, <3>6 DEF HasRule
      <4> QED BY <2>2, <3>1, <3>2, <3>3, <3>6, <4>1, StoppedIsSound
    <3> QED BY <3>5, <3>6
  <2> QED BY <1>3, <2>3, <2>4, <2>5, <2>6, <2>7, <2>8, <2>9
<1> QED BY <1>1, <1>2, <1>3, RulesFacts DEF RulesNext

(* The browser has the rules that the contributions own, and no other but  *)
(* those a terminated worker left: header-contribution.ts registers the    *)
(* cleanup after the update that was not refused, and keeps what it could  *)
(* not remove.                                                             *)
THEOREM RulesHaveTheirOwners == RulesSpec => []RulesOwned
<1>1. RulesInit => RulesInv
  <2>1. RulesInit => /\ owned = [n \in Names |-> Gone] /\ rules = {} /\ orphaned = {}
    BY DEF RulesInit, Names
  <2> QED BY <2>1, GoneIsSound DEF RulesInv, Names, Holds, HasRule
<1>2. RulesInv /\ [RulesNext]_ruleVars => RulesInv'
  BY RulesStep
<1>3. RulesInv => RulesOwned
  <2> SUFFICES ASSUME RulesInv PROVE RulesOwned
    OBVIOUS
  <2>1. rules \ orphaned = {RuleId(n) : n \in {o \in DOMAIN owned : Holds(o)}}
    BY RulesFacts DEF RulesInv, Names
  <2> QED BY <2>1, RulesFacts DEF RulesInv, RulesOwned, SoundContribution, Names
<1> QED BY <1>1, <1>2, <1>3, PTL DEF RulesSpec

-------------------------------------------------------------------------------
(* The inspector.  The queue of updates: one is asked for, one is made,    *)
(* one is answered.                                                        *)
LEMMA InspectorFacts ==
  ASSUME InspectorInv
  PROVE  /\ asked \in Seq(Question) /\ Len(asked) \in Nat /\ DOMAIN asked = 1 .. Len(asked)
         /\ \A i \in DOMAIN asked : asked[i] \in Question
         /\ script \in BOOLEAN /\ orphan \in BOOLEAN /\ registered \in BOOLEAN /\ marker \in BOOLEAN
         /\ service \in {"none", "active", "stopping", "cleaning", "cleanup-blocked"}
         /\ inspection \in [InspectorCalls -> {"idle", "selecting", "updating"}]
BY DEF InspectorInv, InspectorTypeOK, Queue

(* By somebody who waits for no other. *)
LEMMA AskStep ==
  ASSUME InspectorInv,
         NEW by \in InspectorCalls \cup {Cleanup}, NEW update \in {"register", "unregister"},
         Ask(by, update), UNCHANGED <<script, orphan, registered, marker>>,
         IF by = Cleanup
         THEN /\ service = "stopping" /\ service' = "cleaning" /\ update = "unregister"
              /\ UNCHANGED inspection /\ \A c \in InspectorCalls : inspection[c] = "idle"
         ELSE /\ service = "active" /\ UNCHANGED service /\ inspection[by] # "updating"
              /\ Phase(by, "updating"),
         registered => update = "unregister", ~registered => update = "register"
  PROVE  InspectorInv'
<1> DEFINE q == [by |-> by, update |-> update, result |-> "none"]
<1>1. q \in Question /\ q.by = by /\ q.update = update /\ q.result = "none"
  BY DEF Question
<1>2. asked' = Append(asked, q)
  BY DEF Ask
<1> HIDE DEF q
<1>3. /\ asked' \in Seq(Question) /\ Len(asked) \in Nat /\ Len(asked') = Len(asked) + 1
      /\ DOMAIN asked = 1 .. Len(asked) /\ DOMAIN asked' = 1 .. Len(asked) + 1
      /\ \A i \in DOMAIN asked : asked'[i] = asked[i]
      /\ asked'[Len(asked) + 1] = q
  BY <1>1, <1>2, InspectorFacts
<1>4. \A i \in DOMAIN asked' :
        \/ i \in DOMAIN asked /\ asked'[i] = asked[i] /\ i < Len(asked) + 1
        \/ i = Len(asked) + 1 /\ asked'[i] = q
  <2>1. \A i \in 1 .. Len(asked) + 1 :
          (i \in 1 .. Len(asked) /\ i < Len(asked) + 1) \/ i = Len(asked) + 1
    BY <1>3
  <2> QED BY <1>3, <2>1
<1>5. \A i \in DOMAIN asked : asked[i].by # by
  BY DEF InspectorInv, Waiting
<1>6. \A i \in DOMAIN asked : i \in DOMAIN asked' /\ asked'[i] = asked[i]
  BY <1>3
<1>7. /\ inspection' \in [InspectorCalls -> {"idle", "selecting", "updating"}]
      /\ \A c \in InspectorCalls : c # by => inspection'[c] = inspection[c]
      /\ by # Cleanup => inspection'[by] = "updating"
  BY InspectorFacts DEF Phase
<1>8. Queue'
  <2>1. ASSUME NEW i \in DOMAIN asked', NEW j \in DOMAIN asked', i < j, asked'[i].result = "none"
        PROVE  asked'[j].result = "none"
    <3>1. CASE j = Len(asked) + 1
      BY <1>1, <1>3, <3>1
    <3>2. CASE j # Len(asked) + 1
      <4>1. i \in DOMAIN asked /\ j \in DOMAIN asked
        BY <1>3, <2>1, <3>2
      <4> QED BY <1>6, <2>1, <4>1 DEF InspectorInv, Queue
    <3> QED BY <3>1, <3>2
  <2>2. ASSUME NEW i \in DOMAIN asked', NEW j \in DOMAIN asked', asked'[i].by = asked'[j].by
        PROVE  i = j
    BY <1>1, <1>4, <1>5, <2>2 DEF InspectorInv, Queue
  <2> QED BY <1>3, <2>1, <2>2 DEF Queue
<1>9. Waiting'
  <2>1. ASSUME NEW i \in DOMAIN asked'
        PROVE  IF asked'[i].by = Cleanup THEN service' = "cleaning" /\ asked'[i].update = "unregister"
               ELSE inspection'[asked'[i].by] = "updating"
    <3>1. CASE i = Len(asked) + 1
      <4>1. asked'[i].by = by /\ asked'[i].update = update
        BY <1>1, <1>3, <3>1
      <4>2. CASE by = Cleanup
        BY <4>1, <4>2
      <4>3. CASE by # Cleanup
        <5>1. inspection'[by] = "updating"
          BY <1>7, <4>3
        <5>2. inspection'[asked'[i].by] = "updating"
          BY <4>1, <5>1
        <5> QED BY <4>1, <4>3, <5>2
      <4> QED BY <4>2, <4>3
    <3>2. CASE i \in DOMAIN asked /\ asked'[i] = asked[i]
      <4>1. asked[i] \in Question
        BY <3>2, InspectorFacts
      <4> QED BY <1>5, <1>7, <3>2, <4>1 DEF InspectorInv, Waiting, Question
    <3> QED BY <1>4, <2>1, <3>1, <3>2
  <2> QED BY <2>1 DEF InspectorInv, Waiting
<1>10. Belief'
  <2>1. \A i \in DOMAIN asked' : Made(i)' => i \in DOMAIN asked /\ Made(i) /\ i < Len(asked) + 1
    BY <1>1, <1>4 DEF Made
  <2>2. \A i \in DOMAIN asked : Made(i) => Made(i)'
    BY <1>6 DEF Made
  <2>3. orphan => script /\ ~registered /\ \A i \in DOMAIN asked' : asked'[i].update = "register"
    BY <1>1, <1>4 DEF InspectorInv, Belief
  <2>4. orphan => \A i \in DOMAIN asked' : ~Made(i)'
    BY <2>1 DEF InspectorInv, Belief
  <2>5. ~orphan /\ (\A i \in DOMAIN asked' : ~Made(i)') => registered = script
    BY <1>6, <2>2 DEF InspectorInv, Belief
  <2>6. ASSUME ~orphan, NEW i \in DOMAIN asked', Made(i)', \A j \in DOMAIN asked' : i < j => ~Made(j)'
        PROVE  script = (asked'[i].update = "register")
    <3>1. i \in DOMAIN asked /\ Made(i) /\ asked'[i] = asked[i]
      BY <1>6, <2>1, <2>6
    <3>2. \A j \in DOMAIN asked : i < j => ~Made(j)
      BY <1>6, <2>2, <2>6
    <3> QED BY <2>6, <3>1, <3>2 DEF InspectorInv, Belief
  <2> QED BY <2>3, <2>4, <2>5, <2>6 DEF InspectorInv, Belief, Made
<1>11. InspectorTypeOK'
  <2>1. \A i \in DOMAIN asked' : asked'[i] \in Question
    BY <1>3
  <2>2. service' \in {"none", "active", "stopping", "cleaning", "cleanup-blocked"}
    BY InspectorFacts
  <2> QED BY <1>7, <2>1, <2>2, InspectorFacts DEF InspectorTypeOK, Question
<1> QED BY <1>8, <1>9, <1>10, <1>11 DEF InspectorInv

(* The browser makes an update, or refuses it: those before have been.     *)
LEMMA UpdateStep ==
  ASSUME InspectorInv, NEW i \in DOMAIN asked, Update(i)
  PROVE  InspectorInv'
<1>1. PICK r \in {"ok", "refused"} :
        /\ asked' = [asked EXCEPT ![i].result = r]
        /\ r = "ok" => script' = (asked[i].update = "register") /\ script # (asked[i].update = "register")
        /\ r = "refused" => UNCHANGED script
  BY DEF Update
<1>2. /\ UNCHANGED <<orphan, service, registered, marker, inspection>>
      /\ asked[i].result = "none" /\ \A j \in 1 .. i - 1 : asked[j].result # "none"
  BY DEF Update
<1>3. /\ asked' \in Seq(Question) /\ DOMAIN asked' = DOMAIN asked
      /\ \A j \in DOMAIN asked : /\ asked'[j].by = asked[j].by /\ asked'[j].update = asked[j].update
                                 /\ asked'[j].result = IF j = i THEN r ELSE asked[j].result
                                 /\ asked'[j] \in Question
  <2>1. [asked[i] EXCEPT !.result = r] \in Question
        /\ [asked[i] EXCEPT !.result = r].by = asked[i].by
        /\ [asked[i] EXCEPT !.result = r].update = asked[i].update
        /\ [asked[i] EXCEPT !.result = r].result = r
    BY InspectorFacts DEF Question
  <2>2. PICK q \in Question : /\ q.by = asked[i].by /\ q.update = asked[i].update /\ q.result = r
                              /\ asked' = [asked EXCEPT ![i] = q]
    BY <1>1, <2>1, InspectorFacts
  <2> QED BY <2>2, InspectorFacts
<1>4. i \in Nat /\ \A j \in DOMAIN asked : j \in Nat /\ (j < i => j \in 1 .. i - 1)
  BY InspectorFacts
<1>5. \A j \in DOMAIN asked : i < j => asked[j].result = "none"
  BY <1>2 DEF InspectorInv, Queue
<1>6. Queue'
  <2>1. ASSUME NEW j \in DOMAIN asked', NEW k \in DOMAIN asked', j < k, asked'[j].result = "none"
        PROVE  asked'[k].result = "none"
    <3>1. j # i /\ asked[j].result = "none" /\ j \in DOMAIN asked /\ k \in DOMAIN asked
      BY <1>3, <2>1
    <3>2. i < j
      BY <1>2, <1>4, <3>1
    <3> QED BY <1>3, <1>4, <1>5, <2>1, <3>1, <3>2
  <2> QED BY <1>3, <2>1 DEF InspectorInv, Queue
<1>7. Waiting'
  BY <1>2, <1>3 DEF InspectorInv, Waiting
<1>8. \A j \in DOMAIN asked : Made(j)' <=> IF j = i THEN r = "ok" ELSE Made(j)
  BY <1>3 DEF Made
<1>9. ~Made(i)
  BY <1>2 DEF Made
<1>10. Belief'
  <2>1. CASE r = "refused"
    <3>1. \A j \in DOMAIN asked : Made(j)' <=> Made(j)
      BY <1>8, <1>9, <2>1
    <3> QED BY <1>1, <1>2, <1>3, <2>1, <3>1 DEF InspectorInv, Belief
  <2>2. CASE r = "ok"
    <3>1. script' = (asked[i].update = "register") /\ Made(i)'
      BY <1>1, <1>8, <2>2
    <3>2. ~orphan
      BY <1>1, <2>2 DEF InspectorInv, Belief
    <3>3. \A j \in DOMAIN asked : i < j => ~Made(j)'
      BY <1>4, <1>5, <1>8 DEF Made
    <3>4. ASSUME NEW j \in DOMAIN asked, \A k \in DOMAIN asked : j < k => ~Made(k)', Made(j)'
          PROVE  j = i
      BY <1>4, <3>1, <3>3, <3>4
    <3> QED BY <1>2, <1>3, <3>1, <3>2, <3>4 DEF InspectorInv, Belief
  <2> QED BY <2>1, <2>2
<1>11. InspectorTypeOK'
  <2>1. script' \in BOOLEAN
    BY <1>1, InspectorFacts
  <2> QED BY <1>2, <1>3, <2>1, InspectorFacts DEF InspectorTypeOK, Question
<1> QED BY <1>6, <1>7, <1>10, <1>11 DEF InspectorInv
(* The answer to the first of those that are under way: what is recorded   *)
(* stands if it was the last that was made.                                *)
LEMMA AnswerStep ==
  ASSUME InspectorInv, Answer
  PROVE  InspectorInv'
<1> DEFINE q == asked[1]
<1>1. /\ asked # <<>> /\ q.result # "none" /\ asked' = Tail(asked) /\ UNCHANGED <<script, orphan>>
      /\ IF q.result = "ok"
         THEN registered' = (q.update = "register") /\ marker' = (q.update = "register")
         ELSE UNCHANGED <<registered, marker>>
      /\ IF q.by = Cleanup
         THEN /\ service' = IF q.result = "ok" THEN "none" ELSE "cleanup-blocked"
              /\ UNCHANGED inspection
         ELSE Phase(q.by, "idle") /\ UNCHANGED service
  BY DEF Answer, Records
<1>2. /\ 1 \in DOMAIN asked /\ Len(asked) >= 1 /\ q \in Question
      /\ asked' \in Seq(Question) /\ Len(asked') = Len(asked) - 1
      /\ \A i \in 1 .. Len(asked) - 1 : asked'[i] = asked[i + 1]
  BY <1>1, InspectorFacts
<1>3. /\ DOMAIN asked = 1 .. Len(asked) /\ DOMAIN asked' = 1 .. Len(asked) - 1 /\ Len(asked) \in Nat
  BY <1>2, InspectorFacts
<1>4. \A i \in DOMAIN asked' : i + 1 \in DOMAIN asked /\ asked'[i] = asked[i + 1] /\ i + 1 # 1 /\ i \in Nat
  BY <1>2, <1>3
<1>5. \A i \in DOMAIN asked : i = 1 \/ (i - 1 \in DOMAIN asked' /\ (i - 1) + 1 = i /\ i > 1)
  BY <1>3
<1>6. \A i, j \in DOMAIN asked' : (i < j <=> i + 1 < j + 1) /\ (i = j <=> i + 1 = j + 1)
  BY <1>3
<1> HIDE DEF q
<1>7. Queue'
  <2>1. \A i, j \in DOMAIN asked' : i < j /\ asked'[i].result = "none" => asked'[j].result = "none"
    BY <1>4, <1>6 DEF InspectorInv, Queue
  <2>2. \A i, j \in DOMAIN asked' : asked'[i].by = asked'[j].by => i = j
    BY <1>4, <1>6 DEF InspectorInv, Queue
  <2> QED BY <1>2, <2>1, <2>2 DEF Queue
<1>8. /\ inspection' \in [InspectorCalls -> {"idle", "selecting", "updating"}]
      /\ \A c \in InspectorCalls : c # q.by => inspection'[c] = inspection[c]
      /\ q.by # Cleanup => inspection'[q.by] = "idle"
  BY <1>1, <1>2, InspectorFacts DEF Phase, Question
<1>9. \A i \in DOMAIN asked' : asked'[i].by # q.by /\ asked'[i] \in Question
  BY <1>2, <1>4 DEF InspectorInv, Queue, q
<1>10. Waiting'
  <2>1. ASSUME q.by = Cleanup
        PROVE  /\ service = "cleaning" /\ q.update = "unregister" /\ UNCHANGED inspection
               /\ \A c \in InspectorCalls : inspection[c] = "idle"
    BY <1>1, <1>2, <2>1 DEF InspectorInv, Waiting, q
  <2>2. ASSUME q.by = Cleanup PROVE asked' = <<>>
    <3>1. \A i \in DOMAIN asked : asked[i].by = Cleanup
      BY <2>1, <2>2, InspectorFacts DEF InspectorInv, Waiting, Question
    <3>2. DOMAIN asked' = {}
      BY <1>4, <1>9, <2>2, <3>1
    <3> QED BY <1>2, <1>3, <3>2
  <2>3. CASE q.by = Cleanup
    <3>1. registered' = FALSE \/ service' = "cleanup-blocked"
      BY <1>1, <1>2, <2>1, <2>3 DEF Question
    <3> QED BY <1>1, <2>1, <2>2, <2>3, <3>1 DEF Waiting
  <2>4. CASE q.by # Cleanup
    <3>1. q.by \in InspectorCalls /\ inspection[q.by] = "updating" /\ UNCHANGED service
      BY <1>1, <1>2, <2>4 DEF InspectorInv, Waiting, Question, q
    <3>2. service \notin {"none", "cleaning", "cleanup-blocked"}
      BY <3>1 DEF InspectorInv, Waiting
    <3>3. ASSUME NEW i \in DOMAIN asked'
          PROVE  asked'[i].by # Cleanup /\ inspection'[asked'[i].by] = "updating"
      <4>1. asked[i + 1].by # Cleanup /\ inspection[asked[i + 1].by] = "updating"
        BY <1>4, <3>2 DEF InspectorInv, Waiting
      <4>2. asked'[i].by \in InspectorCalls
        BY <1>4, <1>9, <4>1 DEF Question
      <4> QED BY <1>4, <1>8, <1>9, <4>1, <4>2
    <3> QED BY <3>1, <3>2, <3>3 DEF Waiting
  <2> QED BY <2>3, <2>4
<1>11. \A i \in DOMAIN asked' : Made(i)' <=> Made(i + 1)
  BY <1>4 DEF Made
<1>12. Belief'
  <2>1. marker' = registered'
    BY <1>1 DEF InspectorInv, Belief
  <2>2. Made(1) <=> q.result = "ok"
    BY DEF Made, q
  <2>3. CASE orphan
    <3>1. ~Made(1) /\ script /\ ~registered
          /\ \A i \in DOMAIN asked : asked[i].update = "register" /\ ~Made(i)
      BY <1>2, <2>3 DEF InspectorInv, Belief
    <3>2. \A i \in DOMAIN asked' : asked'[i].update = "register" /\ ~Made(i)'
      BY <1>4, <1>11, <3>1
    <3> QED BY <1>1, <2>1, <2>2, <2>3, <3>1, <3>2 DEF Belief, Made
  <2>4. CASE ~orphan
    <3>1. ASSUME \A i \in DOMAIN asked' : ~Made(i)' PROVE registered' = script
      <4>1. \A i \in DOMAIN asked : i # 1 => ~Made(i)
        BY <1>5, <1>11, <3>1
      <4>2. CASE Made(1)
        <5>1. script = (q.update = "register")
          BY <1>2, <1>3, <2>4, <4>1, <4>2 DEF InspectorInv, Belief, q
        <5> QED BY <1>1, <2>2, <4>2, <5>1
      <4>3. CASE ~Made(1)
        BY <1>1, <2>2, <2>4, <4>1, <4>3 DEF InspectorInv, Belief
      <4> QED BY <4>2, <4>3
    <3>2. ASSUME NEW i \in DOMAIN asked', Made(i)', \A j \in DOMAIN asked' : i < j => ~Made(j)'
          PROVE  script = (asked'[i].update = "register")
      <4>1. Made(i + 1) /\ i + 1 \in DOMAIN asked /\ asked'[i] = asked[i + 1]
        BY <1>4, <1>11, <3>2
      <4>2. ASSUME NEW j \in DOMAIN asked, i + 1 < j PROVE ~Made(j)
        <5>1. j - 1 \in DOMAIN asked' /\ (j - 1) + 1 = j /\ i < j - 1
          BY <1>3, <1>4, <1>5, <4>2
        <5> QED BY <1>11, <3>2, <5>1
      <4> QED BY <2>4, <4>1, <4>2 DEF InspectorInv, Belief
    <3> QED BY <1>1, <2>1, <2>4, <3>1, <3>2 DEF Belief, Made
  <2> QED BY <2>3, <2>4, InspectorFacts
<1>13. InspectorTypeOK'
  <2>1. registered' \in BOOLEAN /\ marker' \in BOOLEAN
    BY <1>1, InspectorFacts
  <2>2. service' \in {"none", "active", "stopping", "cleaning", "cleanup-blocked"}
    BY <1>1, InspectorFacts
  <2> QED BY <1>1, <1>8, <1>9, <2>1, <2>2, InspectorFacts DEF InspectorTypeOK, Question
<1> QED BY <1>7, <1>10, <1>12, <1>13 DEF InspectorInv

(* A step that asks for nothing and answers nothing. *)
LEMMA OtherStep ==
  ASSUME InspectorInv, UNCHANGED <<script, orphan, asked>>,
         registered' = registered, marker' = registered,
         service' \in {"none", "active", "stopping", "cleaning", "cleanup-blocked"},
         service' # service => asked = <<>> \/ service # "cleaning",
         service' = "none" => ~registered,
         inspection' \in [InspectorCalls -> {"idle", "selecting", "updating"}],
         \A c \in InspectorCalls : inspection[c] = "updating" => inspection'[c] = "updating",
         service' \in {"none", "cleaning", "cleanup-blocked"} =>
           \A c \in InspectorCalls : inspection'[c] = "idle"
  PROVE  InspectorInv'
<1>1. \A i \in DOMAIN asked : asked[i].by # Cleanup => asked[i].by \in InspectorCalls
  BY InspectorFacts DEF Question
<1>2. Queue' /\ Belief'
  BY DEF InspectorInv, Queue, Belief, Made
<1>3. Waiting'
  BY <1>1 DEF InspectorInv, Waiting
<1>4. InspectorTypeOK'
  BY InspectorFacts DEF InspectorTypeOK, Question
<1> QED BY <1>2, <1>3, <1>4 DEF InspectorInv

LEMMA InspectorStep ==
  ASSUME InspectorInv, [InspectorNext]_inspectorVars
  PROVE  InspectorInv'
<1>1. CASE UNCHANGED inspectorVars
  BY <1>1 DEF inspectorVars, InspectorInv, InspectorTypeOK, Queue, Waiting, Belief, Made
<1>2. marker = registered
  BY DEF InspectorInv, Belief
<1>3. ASSUME NEW c \in InspectorCalls, inspection[c] \in {"idle", "selecting"}
      PROVE  c # Cleanup /\ (service \in {"none", "cleaning", "cleanup-blocked"} => inspection[c] = "idle")
  BY InspectorAssumption DEF InspectorInv, Waiting
<1>4. ASSUME NEW c \in InspectorCalls, NEW phase \in {"idle", "selecting"}, Phase(c, phase),
             inspection[c] # "updating", service = "active" \/ phase = "idle",
             UNCHANGED <<script, orphan, asked, service, registered>>, marker' = registered
      PROVE  InspectorInv'
  <2>1. inspection' = [inspection EXCEPT ![c] = phase]
    BY <1>4 DEF Phase
  <2>2. service = "none" => ~registered
    BY DEF InspectorInv, Waiting
  <2>3. service \in {"none", "cleaning", "cleanup-blocked"} => \A d \in InspectorCalls : inspection[d] = "idle"
    BY DEF InspectorInv, Waiting
  <2>4. \A d \in InspectorCalls : inspection'[d] = IF d = c THEN phase ELSE inspection[d]
    BY <2>1, InspectorFacts
  <2> QED BY <1>4, <2>1, <2>2, <2>3, <2>4, OtherStep, InspectorFacts
<1>5. ASSUME NEW c \in InspectorCalls, Marker(c) PROVE InspectorInv'
  BY <1>2, <1>4, <1>5 DEF Marker
<1>6. ASSUME NEW c \in InspectorCalls, Selected(c) PROVE InspectorInv'
  <2>1. CASE Phase(c, "idle") /\ UNCHANGED <<asked, marker>>
    BY <1>2, <1>4, <1>6, <2>1 DEF Selected
  <2>2. CASE registered /\ marker' = TRUE /\ Phase(c, "idle") /\ UNCHANGED asked
    BY <1>4, <1>6, <2>2, InspectorFacts DEF Selected
  <2>3. CASE ~registered /\ service = "active" /\ Ask(c, "register") /\ Phase(c, "updating") /\ UNCHANGED marker
    BY <1>3, <1>6, <2>3, AskStep DEF Selected
  <2> QED BY <1>6, <2>1, <2>2, <2>3 DEF Selected
<1>7. ASSUME NEW c \in InspectorCalls, Reset(c) PROVE InspectorInv'
  <2>1. CASE registered
    BY <1>3, <1>7, <2>1, AskStep DEF Reset
  <2>2. CASE ~registered
    BY <1>7, <2>2, OtherStep, InspectorFacts DEF Reset
  <2> QED BY <2>1, <2>2
<1>8. CASE ServiceStarts
  BY <1>2, <1>8, OtherStep, InspectorFacts DEF ServiceStarts, InspectorInv, Waiting
<1>9. CASE ServiceStops
  BY <1>2, <1>9, OtherStep, InspectorFacts DEF ServiceStops
<1>10. CASE CleansUp
  <2>1. CASE registered
    BY <1>10, <2>1, AskStep DEF CleansUp
  <2>2. CASE ~registered
    BY <1>2, <1>10, <2>2, OtherStep, InspectorFacts DEF CleansUp
  <2> QED BY <2>1, <2>2
<1>11. CASE WorkerEnds
  <2>1. /\ asked' = <<>> /\ asked' \in Seq(Question) /\ DOMAIN asked' = {}
        /\ service' = "none" /\ registered' = FALSE /\ marker' = FALSE
        /\ inspection' \in [InspectorCalls -> {"idle", "selecting", "updating"}]
        /\ \A c \in InspectorCalls : inspection'[c] = "idle"
        /\ orphan' = script /\ script' = script
    BY <1>11 DEF WorkerEnds
  <2>2. Queue' /\ Waiting'
    BY <2>1 DEF Queue, Waiting
  <2>3. Belief'
    BY <2>1, InspectorFacts DEF Belief
  <2>4. InspectorTypeOK'
    BY <2>1, InspectorFacts DEF InspectorTypeOK
  <2> QED BY <2>2, <2>3, <2>4 DEF InspectorInv
<1> QED BY <1>1, <1>5, <1>6, <1>7, <1>8, <1>9, <1>10, <1>11, UpdateStep, AnswerStep DEF InspectorNext

(* When no update is under way the service and the pages know what the     *)
(* browser has, for any number of overlapping calls: marker, reset and the *)
(* cleanup of inspector.ts record every answer in its order.               *)
THEOREM InspectorKnowsItsScript == InspectorSpec => []MarkerIsTrue
<1>1. InspectorInit => InspectorInv
  <2> SUFFICES ASSUME InspectorInit PROVE InspectorInv
    OBVIOUS
  <2>1. /\ asked = <<>> /\ asked \in Seq(Question) /\ DOMAIN asked = {}
        /\ service = "none" /\ registered = FALSE /\ marker = FALSE /\ script = FALSE /\ orphan = FALSE
        /\ inspection \in [InspectorCalls -> {"idle", "selecting", "updating"}]
        /\ \A c \in InspectorCalls : inspection[c] = "idle"
    BY DEF InspectorInit
  <2>2. Queue /\ Waiting
    BY <2>1 DEF Queue, Waiting
  <2>3. Belief
    BY <2>1 DEF Belief
  <2>4. InspectorTypeOK
    BY <2>1 DEF InspectorTypeOK
  <2> QED BY <2>2, <2>3, <2>4 DEF InspectorInv
<1>2. InspectorInv /\ [InspectorNext]_inspectorVars => InspectorInv'
  BY InspectorStep
<1>3. InspectorInv => MarkerIsTrue
  <2> SUFFICES ASSUME InspectorInv PROVE MarkerIsTrue
    OBVIOUS
  <2>1. ASSUME asked = <<>> PROVE registered = (script /\ ~orphan) /\ marker = registered
    <3>1. DOMAIN asked = {} /\ marker = registered
      BY <2>1, InspectorFacts DEF InspectorInv, Belief
    <3>2. CASE orphan
      BY <3>1, <3>2, InspectorFacts DEF InspectorInv, Belief
    <3>3. CASE ~orphan
      BY <3>1, <3>3, InspectorFacts DEF InspectorInv, Belief
    <3> QED BY <3>2, <3>3
  <2> QED BY <2>1 DEF MarkerIsTrue, InspectorInv
<1> QED BY <1>1, <1>2, <1>3, PTL DEF InspectorSpec
===============================================================================
