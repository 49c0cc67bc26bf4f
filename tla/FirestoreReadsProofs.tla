------------------------- MODULE FirestoreReadsProofs -------------------------
(***************************************************************************)
(* FirestoreReads for any documents, readers and bounds: it drives the     *)
(* connection only as WatchConnection allows, so that what is proved of    *)
(* the connection holds under any reads, and its tables agree.             *)
(***************************************************************************)
EXTENDS FirestoreReads, SequenceTheorems, TLAPS

WP == INSTANCE WatchConnectionProofs

-----------------------------------------------------------------------------
(* The connection: what WatchConnectionProofs says of each task.            *)

ConnSound(c) == WP!Sound(c) /\ c.enabled

\* The two instances of WatchConnection have the same definitions.
LEMMA SameConnection ==
  ASSUME NEW c
  PROVE  /\ \A ok : W!CloseStream(c, ok) = WP!CloseStream(c, ok)
         /\ W!EnableNetwork(c) = WP!EnableNetwork(c)
         /\ W!OnMessage(c) = WP!OnMessage(c)
         /\ \A d : W!ListenTo(c, d) = WP!ListenTo(c, d)
         /\ \A d : W!StopListeningTo(c, d) = WP!StopListeningTo(c, d)
         /\ \A d : W!OnTargetError(c, d) = WP!OnTargetError(c, d)
         /\ W!OnBackoffElapsed(c) = WP!OnBackoffElapsed(c)
         /\ W!OnlineStateTimeout(c) = WP!OnlineStateTimeout(c)
         /\ W!OnIdle(c) = WP!OnIdle(c)
         /\ W!RestartNetwork(c) = WP!RestartNetwork(c)
         /\ \A current, ok : W!OnCredentials(c, current, ok) = WP!OnCredentials(c, current, ok)
<1>1. \A e : W!HandleWatchStreamStart(e) = WP!HandleWatchStreamStart(e)
  BY DEF
     W!HandleWatchStreamStart, WP!HandleWatchStreamStart,
     W!Asserted, WP!Asserted
<1>2. \A e : W!HandleWatchStreamFailure(e) = WP!HandleWatchStreamFailure(e)
  BY DEF
     W!HandleWatchStreamFailure, WP!HandleWatchStreamFailure,
     W!Asserted, WP!Asserted,
     W!kMaxWatchStreamFailures, WP!kMaxWatchStreamFailures
<1>3. \A e, new : W!UpdateState(e, new) = WP!UpdateState(e, new)
  BY DEF W!UpdateState, WP!UpdateState
<1>4. \A e : W!StartStream(e) = WP!StartStream(e)
  BY DEF
     W!StartStream, WP!StartStream, W!Asserted, WP!Asserted
<1>5. \A e : W!StartWatchStream(e) = WP!StartWatchStream(e)
  BY <1>1, <1>4 DEF
     W!StartWatchStream, WP!StartWatchStream, W!Asserted, WP!Asserted,
     W!ShouldStartWatchStream, WP!ShouldStartWatchStream,
     W!IsStarted, WP!IsStarted
<1>6. \A e, ok : W!OnWatchStreamClose(e, ok) = WP!OnWatchStreamClose(e, ok)
  BY <1>2, <1>3, <1>5 DEF
     W!OnWatchStreamClose, WP!OnWatchStreamClose, W!Asserted, WP!Asserted,
     W!ShouldStartWatchStream, WP!ShouldStartWatchStream,
     W!IsStarted, WP!IsStarted
<1>7. \A e, ok : W!CloseStream(e, ok) = WP!CloseStream(e, ok)
  BY <1>6 DEF
     W!CloseStream, WP!CloseStream, W!Asserted, WP!Asserted,
     W!IsStarted, WP!IsStarted
<1>8. \A e : W!Write(e) = WP!Write(e)
  BY DEF
     W!Write, WP!Write, W!Asserted, WP!Asserted, W!IsOpen, WP!IsOpen
<1>9. \A e : W!OpenStream(e) = WP!OpenStream(e)
  BY <1>8 DEF W!OpenStream, WP!OpenStream
<1>10. \A e, ok : W!ResumeStartWithCredentials(e, ok) = WP!ResumeStartWithCredentials(e, ok)
  BY <1>7, <1>9 DEF
     W!ResumeStartWithCredentials, WP!ResumeStartWithCredentials,
     W!Asserted, WP!Asserted
<1>11. \A e : W!EnableNetwork(e) = WP!EnableNetwork(e)
  BY <1>3, <1>5 DEF
     W!EnableNetwork, WP!EnableNetwork,
     W!ShouldStartWatchStream, WP!ShouldStartWatchStream,
     W!IsStarted, WP!IsStarted
<1>12. \A e : W!MarkIdle(e) = WP!MarkIdle(e)
  BY DEF
     W!MarkIdle, WP!MarkIdle, W!IsOpen, WP!IsOpen
<1>13. \A e : W!OnMessage(e) = WP!OnMessage(e)
  BY <1>3 DEF
     W!OnMessage, WP!OnMessage, W!Asserted, WP!Asserted,
     W!IsStarted, WP!IsStarted
<1>14. \A e, d : W!ListenTo(e, d) = WP!ListenTo(e, d)
  BY <1>5, <1>8 DEF
     W!ListenTo, WP!ListenTo,
     W!ShouldStartWatchStream, WP!ShouldStartWatchStream,
     W!IsStarted, WP!IsStarted, W!IsOpen, WP!IsOpen
<1>15. \A e, d : W!StopListeningTo(e, d) = WP!StopListeningTo(e, d)
  BY <1>3, <1>8, <1>12 DEF
     W!StopListeningTo, WP!StopListeningTo, W!Asserted, WP!Asserted,
     W!IsOpen, WP!IsOpen
<1>16. \A e, d : W!OnTargetError(e, d) = WP!OnTargetError(e, d)
  BY <1>13 DEF W!OnTargetError, WP!OnTargetError
<1>17. \A e : W!OnBackoffElapsed(e) = WP!OnBackoffElapsed(e)
  BY <1>4 DEF
     W!OnBackoffElapsed, WP!OnBackoffElapsed, W!Asserted, WP!Asserted
<1>18. \A e : W!OnlineStateTimeout(e) = WP!OnlineStateTimeout(e)
  BY DEF
     W!OnlineStateTimeout, WP!OnlineStateTimeout, W!Asserted, WP!Asserted
<1>19. \A e : W!OnIdle(e) = WP!OnIdle(e)
  BY <1>7 DEF W!OnIdle, WP!OnIdle
<1>20. \A e : W!RestartNetwork(e) = WP!RestartNetwork(e)
  BY <1>3, <1>7, <1>11 DEF
     W!RestartNetwork, WP!RestartNetwork, W!Asserted, WP!Asserted,
     W!IsStarted, WP!IsStarted
<1>21. \A e, current, ok : W!OnCredentials(e, current, ok) = WP!OnCredentials(e, current, ok)
  BY <1>10 DEF W!OnCredentials, WP!OnCredentials
<1> QED BY <1>7, <1>11, <1>13, <1>14, <1>15, <1>16, <1>17, <1>18, <1>19, <1>20, <1>21

\* Listening adds the target and leaves the stream open or not as it was.
LEMMA ListenSound ==
  ASSUME NEW c, ConnSound(c), NEW d \in Docs
  PROVE  LET n == W!ListenTo(c, d)
         IN ConnSound(n) /\ n.targets = c.targets \cup {d} /\ (W!IsOpen(n) <=> W!IsOpen(c))
<1> DEFINE n == WP!ListenTo(c, d)
<1>1. W!ListenTo(c, d) = n
  BY SameConnection
<1>2. WP!Sound(c) /\ c.enabled /\ (WP!IsOpen(c) <=> W!IsOpen(c))
  BY DEF ConnSound, W!IsOpen, WP!IsOpen
<1>3. WP!Sound(n) /\ n.enabled /\ n.targets = c.targets \cup {d} /\ (WP!IsOpen(n) <=> WP!IsOpen(c))
  BY <1>2, WP!ListenKeeps, Zenon
<1> HIDE DEF n
<1> QED BY <1>1, <1>3 DEF ConnSound, W!IsOpen, WP!IsOpen

\* Listening no more takes the target, and the stream as it was.
LEMMA StopListeningSound ==
  ASSUME NEW c, ConnSound(c), NEW d \in c.targets
  PROVE  LET n == W!StopListeningTo(c, d)
         IN ConnSound(n) /\ n.targets = c.targets \ {d} /\ (W!IsOpen(n) <=> W!IsOpen(c))
<1> DEFINE n == WP!StopListeningTo(c, d)
<1>1. W!StopListeningTo(c, d) = n
  BY SameConnection
<1>2. WP!Sound(c) /\ c.enabled /\ (WP!IsOpen(c) <=> W!IsOpen(c))
  BY DEF ConnSound, W!IsOpen, WP!IsOpen
<1>3. WP!Sound(n) /\ n.enabled /\ n.targets = c.targets \ {d} /\ n.stream = c.stream
  BY <1>2, WP!StopListeningKeeps, Zenon
<1> HIDE DEF n
<1> QED BY <1>1, <1>3 DEF ConnSound, W!IsOpen, WP!IsOpen

\* A message changes no target and leaves the stream open.
LEMMA MessageSound ==
  ASSUME NEW c, ConnSound(c), W!IsOpen(c)
  PROVE  LET n == W!OnMessage(c)
         IN ConnSound(n) /\ n.targets = c.targets /\ W!IsOpen(n)
BY SameConnection, WP!MessageKeeps DEF ConnSound, W!IsOpen, WP!IsOpen

\* An error of a target takes that target only.
LEMMA TargetErrorSound ==
  ASSUME NEW c, ConnSound(c), W!IsOpen(c), NEW d \in Docs
  PROVE  LET n == W!OnTargetError(c, d)
         IN ConnSound(n) /\ n.targets = c.targets \ {d} /\ W!IsOpen(n)
<1> DEFINE n == WP!OnTargetError(c, d)
<1>1. W!OnTargetError(c, d) = n
  BY SameConnection
<1>2. WP!Sound(c) /\ c.enabled /\ (WP!IsOpen(c) <=> W!IsOpen(c))
  BY DEF ConnSound, W!IsOpen, WP!IsOpen
<1>3. WP!Sound(n) /\ n.enabled /\ n.targets = c.targets \ {d} /\ n.stream = c.stream
  BY <1>2, WP!TargetErrorKeeps, Zenon
<1> HIDE DEF n
<1> QED BY <1>1, <1>3 DEF ConnSound, W!IsOpen, WP!IsOpen

\* A backoff that has elapsed starts the stream: it is not open yet.
LEMMA BackoffSound ==
  ASSUME NEW c, ConnSound(c), c.backoff
  PROVE  LET n == W!OnBackoffElapsed(c)
         IN ConnSound(n) /\ n.targets = c.targets /\ ~W!IsOpen(n) /\ ~W!IsOpen(c)
BY SameConnection, WP!BackoffKeeps DEF ConnSound, W!IsOpen, WP!IsOpen

\* The timeout changes neither the targets nor the stream.
LEMMA TimeoutSound ==
  ASSUME NEW c, ConnSound(c), c.timer
  PROVE  LET n == W!OnlineStateTimeout(c)
         IN ConnSound(n) /\ n.targets = c.targets /\ (W!IsOpen(n) <=> W!IsOpen(c))
BY SameConnection, WP!TimeoutKeeps DEF ConnSound, W!IsOpen, WP!IsOpen

\* An idle stream is closed.
LEMMA IdleSound ==
  ASSUME NEW c, ConnSound(c), c.idle
  PROVE  LET n == W!OnIdle(c)
         IN ConnSound(n) /\ n.targets = c.targets /\ ~W!IsOpen(n)
BY SameConnection, WP!IdleKeeps DEF ConnSound, W!IsOpen, WP!IsOpen

\* A restart closes the stream and keeps the targets.
LEMMA RestartSound ==
  ASSUME NEW c, ConnSound(c)
  PROVE  LET n == W!RestartNetwork(c)
         IN ConnSound(n) /\ n.targets = c.targets /\ ~W!IsOpen(n)
BY SameConnection, WP!RestartKeeps DEF ConnSound, W!IsOpen, WP!IsOpen

\* Credentials may open the stream and close none.
LEMMA CredentialsSound ==
  ASSUME NEW c, ConnSound(c),
         NEW current \in BOOLEAN, NEW ok \in BOOLEAN,
         IF current THEN c.token ELSE c.stale > 0
  PROVE  LET n == W!OnCredentials(c, current, ok)
         IN ConnSound(n) /\ n.targets = c.targets /\ (W!IsOpen(c) => W!IsOpen(n))
<1> DEFINE n == WP!OnCredentials(c, current, ok)
<1>1. W!OnCredentials(c, current, ok) = n
  BY SameConnection
<1>2. WP!Sound(c) /\ c.enabled /\ (WP!IsOpen(c) <=> W!IsOpen(c))
  BY DEF ConnSound, W!IsOpen, WP!IsOpen
<1>3. WP!Sound(n) /\ n.enabled /\ n.targets = c.targets /\ (WP!IsOpen(c) => WP!IsOpen(n))
  BY <1>2, WP!CredentialsKeep, Zenon
<1> HIDE DEF n
<1> QED BY <1>1, <1>3 DEF ConnSound, W!IsOpen, WP!IsOpen

\* A broken stream is not open, and its targets stay.
LEMMA BreakSound ==
  ASSUME NEW c, ConnSound(c), W!IsOpen(c)
  PROVE  LET n == W!CloseStream(c, FALSE)
         IN ConnSound(n) /\ n.targets = c.targets /\ ~W!IsOpen(n)
<1>1. c \in WP!Connection /\ c.failed = {} /\ WP!OnlineFollowsStream(c) /\ WP!IsStarted(c)
  BY DEF ConnSound, WP!Sound, W!IsOpen, WP!IsStarted
<1>2. LET n == WP!CloseStream(c, FALSE)
      IN WP!Sound(n) /\ n.enabled = c.enabled /\ n.targets = c.targets /\ ~WP!IsOpen(n)
  BY <1>1, WP!Closes
<1> QED BY <1>2, SameConnection DEF ConnSound, W!IsOpen, WP!IsOpen

-----------------------------------------------------------------------------
(* Views and their listeners.                                              *)

View == [on : BOOLEAN, listeners : SUBSET Readers,
         content : Content \cup {None}, synced : BOOLEAN]
Clients == [views : [Docs -> View], raised : SUBSET Readers,
            inbox : [Readers -> Seq(Event)], online : W!OnlineStates]

\* A reader listens to the query of its own document.
OwnListeners(k) == \A d \in Docs : \A r \in k.views[d].listeners : DocOf[r] = d

SnapshotOf(k, r, cached) ==
  [content |-> k.views[DocOf[r]].content, cached |-> cached, ok |-> TRUE]

\* From k to n, views change their sync state at most, and a listener is given
\* at most one snapshot, of what its view shows.
Informed(k, n) ==
  /\ n \in Clients
  /\ \A d \in Docs : /\ n.views[d].on = k.views[d].on
                     /\ n.views[d].listeners = k.views[d].listeners
                     /\ n.views[d].content = k.views[d].content
  /\ \A r \in Readers :
       \/ n.inbox[r] = k.inbox[r]
       \/ /\ r \in k.views[DocOf[r]].listeners
          /\ \E cached \in BOOLEAN :
               n.inbox[r] = Append(k.inbox[r], SnapshotOf(k, r, cached))

\* Raised readers are given one event more, what their view shows.
LEMMA RaiseGives ==
  ASSUME NEW k \in Clients, NEW raised \in SUBSET Readers
  PROVE  LET n == Raise(k, raised)
         IN /\ n \in Clients /\ n.views = k.views /\ n.online = k.online
            /\ n.raised = k.raised \cup raised
            /\ \A r \in Readers \ raised : n.inbox[r] = k.inbox[r]
            /\ \A r \in raised :
                 n.inbox[r] = Append(k.inbox[r],
                                     SnapshotOf(k, r, ~k.views[DocOf[r]].synced))
<1> DEFINE inbox == [r \in Readers |->
                       IF r \in raised
                         THEN Append(k.inbox[r],
                                     SnapshotOf(k, r, ~k.views[DocOf[r]].synced))
                         ELSE k.inbox[r]]
           n == [k EXCEPT !.raised = k.raised \cup raised, !.inbox = inbox]
<1>1. Raise(k, raised) = n
  BY DEF Raise, SnapshotOf
<1>2. ASSUME NEW r \in Readers
      PROVE  /\ k.inbox[r] \in Seq(Event)
             /\ SnapshotOf(k, r, ~k.views[DocOf[r]].synced) \in Event
  <2>1. k.views[DocOf[r]] \in View /\ k.inbox[r] \in Seq(Event)
    BY ReadersAssumption DEF Clients
  <2> QED BY <2>1 DEF View, SnapshotOf, Event
<1>3. inbox \in [Readers -> Seq(Event)]
  <2>1. ASSUME NEW r \in Readers
        PROVE  Append(k.inbox[r], SnapshotOf(k, r, ~k.views[DocOf[r]].synced)) \in Seq(Event)
    BY <1>2, AppendProperties
  <2> QED BY <1>2, <2>1
<1> HIDE DEF inbox
<1>4. n \in Clients /\ n.views = k.views /\ n.online = k.online
      /\ n.raised = k.raised \cup raised /\ n.inbox = inbox
  BY <1>3 DEF Clients
<1> QED BY <1>1, <1>4 DEF inbox

\* OnViewSnapshots informs listeners, and exactly those it decides to.
LEMMA SnapshotsHeard ==
  ASSUME NEW k \in Clients, OwnListeners(k),
         NEW changed \in SUBSET Docs, NEW resynced \in SUBSET Docs
  PROVE  LET n == OnViewSnapshots(k, changed, resynced)
         IN Informed(k, n) /\ n.views = k.views /\ n.online = k.online
            /\ \A r \in Readers : r \in n.raised \/ n.inbox[r] = k.inbox[r]
<1> DEFINE S == {r \in ListenersOf(k, changed \cup resynced) :
                   IF r \notin k.raised
                     THEN ShouldRaiseInitialEvent(k, r)
                     ELSE DocOf[r] \in changed \/ r \in Gets}
           n == Raise(k, S)
<1>1. OnViewSnapshots(k, changed, resynced) = n
  BY DEF OnViewSnapshots
<1>2. \A d \in Docs : k.views[d].listeners \in SUBSET Readers
  BY DEF Clients, View
<1>3. \A r \in S : r \in Readers /\ r \in k.views[DocOf[r]].listeners
  <2>1. TAKE r \in S
  <2>2. PICK d \in changed \cup resynced : r \in k.views[d].listeners
    BY DEF ListenersOf
  <2> QED BY <1>2, <2>2 DEF OwnListeners
<1> HIDE DEF S
<1>4. S \in SUBSET Readers
  BY <1>3
<1>5. /\ n \in Clients /\ n.views = k.views /\ n.online = k.online
      /\ n.raised = k.raised \cup S
      /\ \A r \in Readers \ S : n.inbox[r] = k.inbox[r]
      /\ \A r \in S :
           n.inbox[r] = Append(k.inbox[r], SnapshotOf(k, r, ~k.views[DocOf[r]].synced))
  BY <1>4, RaiseGives
<1> HIDE DEF n
<1>6. \A r \in S : \E cached \in BOOLEAN :
        n.inbox[r] = Append(k.inbox[r], SnapshotOf(k, r, cached))
  BY <1>5
<1>7. Informed(k, n)
  BY <1>3, <1>5, <1>6 DEF Informed
<1> QED BY <1>1, <1>5, <1>7

\* A change of the online state informs listeners and no one else.
LEMMA OnlineStateHeard ==
  ASSUME NEW k \in Clients, OwnListeners(k), NEW online \in W!OnlineStates
  PROVE  LET n == HandleOnlineStateChange(k, online)
         IN Informed(k, n) /\ n.online = online
<1>1. CASE online = k.online
  <2>1. HandleOnlineStateChange(k, online) = k
    BY <1>1 DEF HandleOnlineStateChange
  <2> QED BY <1>1, <2>1 DEF Informed
<1>2. CASE online # k.online
  <2> DEFINE lost == {d \in Docs : k.views[d].synced /\ online = "Offline"}
             views == [d \in Docs |-> IF d \in lost
                         THEN [k.views[d] EXCEPT !.synced = FALSE] ELSE k.views[d]]
             dropped == [k EXCEPT !.views = views]
             given == OnViewSnapshots(dropped, {}, lost)
             heard == [given EXCEPT !.online = online]
             S == {r \in ListenersOf(heard, Docs) \ heard.raised :
                     ShouldRaiseInitialEvent(heard, r)}
             n == Raise(heard, S)
  <2>1. HandleOnlineStateChange(k, online) = n
    BY <1>2 DEF HandleOnlineStateChange
  <2>2. \A d \in Docs : /\ views[d] \in View
                        /\ views[d].on = k.views[d].on
                        /\ views[d].listeners = k.views[d].listeners
                        /\ views[d].content = k.views[d].content
    <3>1. TAKE d \in Docs
    <3>2. k.views[d] \in View
      BY DEF Clients
    <3> QED BY <3>2 DEF View
  <2>3. views \in [Docs -> View]
    BY <2>2
  <2> HIDE DEF views
  <2>4. dropped \in Clients /\ dropped.views = views /\ dropped.inbox = k.inbox
    BY <2>3 DEF Clients
  <2> HIDE DEF dropped
  <2>5. OwnListeners(dropped)
    BY <2>2, <2>4 DEF OwnListeners
  <2>6. lost \in SUBSET Docs /\ {} \in SUBSET Docs
    OBVIOUS
  <2> HIDE DEF lost
  <2>7. /\ Informed(dropped, given) /\ given.views = dropped.views
        /\ \A r \in Readers : r \in given.raised \/ given.inbox[r] = dropped.inbox[r]
    BY <2>4, <2>5, <2>6, SnapshotsHeard
  <2> HIDE DEF given
  <2>8. /\ heard \in Clients /\ heard.views = views /\ heard.online = online
        /\ heard.inbox = given.inbox /\ heard.raised = given.raised
    BY <2>4, <2>7 DEF Informed, Clients
  <2> HIDE DEF heard
  <2>9. \A r \in S : r \in Readers /\ r \notin given.raised
                     /\ r \in k.views[DocOf[r]].listeners
    <3>1. TAKE r \in S
    <3>2. PICK d \in Docs : r \in heard.views[d].listeners
      BY DEF ListenersOf
    <3> QED BY <2>2, <2>8, <3>2 DEF OwnListeners, View
  <2> HIDE DEF S
  <2>10. /\ n \in Clients /\ n.views = heard.views /\ n.online = heard.online
         /\ \A r \in Readers \ S : n.inbox[r] = heard.inbox[r]
         /\ \A r \in S :
              n.inbox[r] = Append(heard.inbox[r],
                                  SnapshotOf(heard, r, ~heard.views[DocOf[r]].synced))
    <3>1. S \in SUBSET Readers
      BY <2>9
    <3> QED BY <2>8, <3>1, RaiseGives
  <2> HIDE DEF n
  <2>11. ASSUME NEW r \in Readers
         PROVE  \A cached : /\ SnapshotOf(heard, r, cached) = SnapshotOf(k, r, cached)
                            /\ SnapshotOf(dropped, r, cached) = SnapshotOf(k, r, cached)
    BY <2>2, <2>4, <2>8, ReadersAssumption DEF SnapshotOf
  <2>12. ASSUME NEW r \in S
         PROVE  \E cached \in BOOLEAN :
                  n.inbox[r] = Append(k.inbox[r], SnapshotOf(k, r, cached))
    <3>1. heard.inbox[r] = k.inbox[r]
      BY <2>4, <2>7, <2>8, <2>9
    <3>2. SnapshotOf(heard, r, ~heard.views[DocOf[r]].synced)
            = SnapshotOf(k, r, ~heard.views[DocOf[r]].synced)
      BY <2>9, <2>11
    <3> QED BY <2>10, <3>1, <3>2
  <2>13. ASSUME NEW r \in Readers \ S
         PROVE  \/ n.inbox[r] = k.inbox[r]
                \/ /\ r \in k.views[DocOf[r]].listeners
                   /\ \E cached \in BOOLEAN :
                        n.inbox[r] = Append(k.inbox[r], SnapshotOf(k, r, cached))
    <3>1. n.inbox[r] = given.inbox[r] /\ dropped.inbox[r] = k.inbox[r]
      BY <2>4, <2>8, <2>10
    <3>2. \/ given.inbox[r] = dropped.inbox[r]
          \/ /\ r \in dropped.views[DocOf[r]].listeners
             /\ \E cached \in BOOLEAN :
                  given.inbox[r] = Append(dropped.inbox[r], SnapshotOf(dropped, r, cached))
      BY <2>7 DEF Informed
    <3>3. dropped.views[DocOf[r]].listeners = k.views[DocOf[r]].listeners
      BY <2>2, <2>4, ReadersAssumption
    <3> QED BY <2>11, <3>1, <3>2, <3>3
  <2>14. \A d \in Docs : /\ n.views[d].on = k.views[d].on
                         /\ n.views[d].listeners = k.views[d].listeners
                         /\ n.views[d].content = k.views[d].content
    BY <2>2, <2>8, <2>10
  <2>15. Informed(k, n)
    BY <2>9, <2>10, <2>12, <2>13, <2>14 DEF Informed
  <2> QED BY <2>1, <2>8, <2>10, <2>15
<1> QED BY <1>1, <1>2

-----------------------------------------------------------------------------
(* The queue of tasks.                                                     *)

Task == [op : {"add", "remove"}, reader : Readers]
Queued(w, op, r) == \E i \in 1..Len(w) : w[i] = [op |-> op, reader |-> r]

\* A reader is added once.
AddedOnce(w) == \A i, j \in 1..Len(w) : w[i] = w[j] /\ w[i].op = "add" => i = j

\* What is queued after a task is appended.
LEMMA QueuedByAppend ==
  ASSUME NEW w \in Seq(Task), NEW t \in Task
  PROVE  /\ Append(w, t) \in Seq(Task)
         /\ \A op, r : Queued(Append(w, t), op, r)
                         <=> Queued(w, op, r) \/ t = [op |-> op, reader |-> r]
         /\ AddedOnce(w) /\ (t.op = "add" => ~Queued(w, "add", t.reader))
              => AddedOnce(Append(w, t))
<1> DEFINE a == Append(w, t)
<1>1. /\ a \in Seq(Task) /\ Len(a) = Len(w) + 1 /\ Len(w) \in Nat /\ a[Len(w) + 1] = t
      /\ \A i \in 1..Len(w) : a[i] = w[i]
  BY AppendProperties, LenProperties
<1> HIDE DEF a
<1>2. ASSUME NEW op, NEW r
      PROVE  Queued(a, op, r) <=> Queued(w, op, r) \/ t = [op |-> op, reader |-> r]
  <2>1. ASSUME NEW i \in 1..Len(a), a[i] = [op |-> op, reader |-> r]
        PROVE  Queued(w, op, r) \/ t = [op |-> op, reader |-> r]
    <3>1. CASE i = Len(w) + 1
      BY <1>1, <2>1, <3>1
    <3>2. CASE i \in 1..Len(w)
      BY <1>1, <2>1, <3>2 DEF Queued
    <3> QED BY <1>1, <3>1, <3>2
  <2>2. ASSUME NEW i \in 1..Len(w), w[i] = [op |-> op, reader |-> r]
        PROVE  Queued(a, op, r)
    <3>1. i \in 1..Len(a) /\ a[i] = w[i]
      BY <1>1
    <3> QED BY <2>2, <3>1 DEF Queued
  <2>3. t = [op |-> op, reader |-> r] => Queued(a, op, r)
    <3>1. Len(w) + 1 \in 1..Len(a)
      BY <1>1
    <3> QED BY <1>1, <3>1 DEF Queued
  <2> QED BY <2>1, <2>2, <2>3 DEF Queued
<1>3. ASSUME AddedOnce(w), t.op = "add" => ~Queued(w, "add", t.reader),
             NEW i \in 1..Len(a), NEW j \in 1..Len(a), a[i] = a[j], a[i].op = "add"
      PROVE  i = j
  <2>1. \A n \in 1..Len(w) : w[n] # t \/ t.op # "add"
    <3>1. ASSUME NEW n \in 1..Len(w), w[n] = t, t.op = "add"
          PROVE  FALSE
      <4>1. t = [op |-> "add", reader |-> t.reader]
        BY <3>1 DEF Task
      <4> QED BY <1>3, <3>1, <4>1 DEF Queued
    <3> QED BY <3>1
  <2>2. CASE i \in 1..Len(w) /\ j \in 1..Len(w)
    BY <1>1, <1>3, <2>2 DEF AddedOnce
  <2>3. CASE i = Len(w) + 1 /\ j \in 1..Len(w)
    BY <1>1, <1>3, <2>1, <2>3
  <2>4. CASE i \in 1..Len(w) /\ j = Len(w) + 1
    BY <1>1, <1>3, <2>1, <2>4
  <2> QED BY <1>1, <2>2, <2>3, <2>4
<1>4. AddedOnce(w) /\ (t.op = "add" => ~Queued(w, "add", t.reader)) => AddedOnce(a)
  BY <1>3 DEF AddedOnce
<1> QED BY <1>1, <1>2, <1>4 DEF a

\* What is queued before the first task is taken.
LEMMA QueuedByTail ==
  ASSUME NEW w \in Seq(Task), w # <<>>
  PROVE  /\ Tail(w) \in Seq(Task) /\ Head(w) \in Task
         /\ \A op, r : Queued(w, op, r)
                         <=> Queued(Tail(w), op, r) \/ Head(w) = [op |-> op, reader |-> r]
         /\ AddedOnce(w) => /\ AddedOnce(Tail(w))
                            /\ Head(w).op = "add"
                                 => ~Queued(Tail(w), "add", Head(w).reader)
<1> DEFINE a == Tail(w)
<1>1. /\ a \in Seq(Task) /\ Len(w) \in Nat /\ Len(w) > 0 /\ Len(a) = Len(w) - 1
      /\ \A i \in 1..Len(a) : a[i] = w[i + 1]
      /\ Head(w) = w[1] /\ Head(w) \in Task
  BY HeadTailProperties, LenProperties, EmptySeq
<1> HIDE DEF a
<1>2. ASSUME NEW op, NEW r
      PROVE  Queued(w, op, r) <=> Queued(a, op, r) \/ Head(w) = [op |-> op, reader |-> r]
  <2>1. ASSUME NEW i \in 1..Len(w), w[i] = [op |-> op, reader |-> r]
        PROVE  Queued(a, op, r) \/ Head(w) = [op |-> op, reader |-> r]
    <3>1. CASE i = 1
      BY <1>1, <2>1, <3>1
    <3>2. CASE i # 1
      <4>1. i - 1 \in 1..Len(a) /\ a[i - 1] = w[(i - 1) + 1] /\ (i - 1) + 1 = i
        BY <1>1, <3>2
      <4> QED BY <2>1, <4>1 DEF Queued
    <3> QED BY <3>1, <3>2
  <2>2. ASSUME NEW i \in 1..Len(a), a[i] = [op |-> op, reader |-> r]
        PROVE  Queued(w, op, r)
    <3>1. i + 1 \in 1..Len(w) /\ w[i + 1] = a[i]
      BY <1>1
    <3> QED BY <2>2, <3>1 DEF Queued
  <2>3. Head(w) = [op |-> op, reader |-> r] => Queued(w, op, r)
    <3>1. 1 \in 1..Len(w)
      BY <1>1
    <3> QED BY <1>1, <3>1 DEF Queued
  <2> QED BY <2>1, <2>2, <2>3 DEF Queued
<1>3. ASSUME AddedOnce(w)
      PROVE  AddedOnce(a)
  <2>1. SUFFICES ASSUME NEW i \in 1..Len(a), NEW j \in 1..Len(a),
                        a[i] = a[j], a[i].op = "add"
                 PROVE  i = j
    BY DEF AddedOnce
  <2>2. i + 1 \in 1..Len(w) /\ j + 1 \in 1..Len(w) /\ w[i + 1] = w[j + 1]
        /\ w[i + 1].op = "add"
    BY <1>1, <2>1
  <2>3. i + 1 = j + 1
    BY <1>3, <2>2 DEF AddedOnce
  <2> QED BY <1>1, <2>3
<1>4. ASSUME AddedOnce(w), Head(w).op = "add", Queued(a, "add", Head(w).reader)
      PROVE  FALSE
  <2>1. PICK i \in 1..Len(a) : a[i] = [op |-> "add", reader |-> Head(w).reader]
    BY <1>4 DEF Queued
  <2>2. a[i] = Head(w)
    BY <1>1, <1>4, <2>1 DEF Task
  <2>3. i + 1 \in 1..Len(w) /\ 1 \in 1..Len(w) /\ w[i + 1] = w[1] /\ w[i + 1].op = "add"
    BY <1>1, <1>4, <2>2
  <2>4. i + 1 = 1
    BY <1>4, <2>3 DEF AddedOnce
  <2> QED BY <1>1, <2>4
<1> QED BY <1>1, <1>2, <1>3, <1>4 DEF a

-----------------------------------------------------------------------------
(* The inductive invariant.                                                *)

Wire == [requests : Seq(Request), on : BOOLEAN,
         told : Versions \cup {None}, caughtUp : BOOLEAN, crossed : BOOLEAN]
Gathered == [out : Int, current : BOOLEAN, update : Content \cup {None, Purge},
             member : {"same", "added", "removed"}]
Stored == [cache : Content \cup {None}, resume : Versions \cup {None},
           member : BOOLEAN]
Read == [status : {"idle", "waiting", "done"}, given : Versions \cup {None}]

BackendTyped ==
  /\ db \in [Docs -> Versions] /\ breaks \in 0..MaxBreaks
  /\ wire \in [Docs -> Wire] /\ agg \in [Docs -> Gathered]
  /\ store \in [Docs -> Stored]

ClientTyped ==
  /\ client \in Clients /\ OwnListeners(client) /\ client.online = conn.online
  /\ work \in Seq(Task) /\ AddedOnce(work)
  /\ muted \in SUBSET Readers /\ reads \in [Readers -> Read]

\* The answers owed are the requests under way, the last of which says whether
\* the document is still watched, and without one what is watched is served:
\* until a refusal crosses an unwatch.
Owed(w, a, watched) ==
  ~w.crossed =>
    /\ a.out = Len(w.requests)
    /\ IF w.requests = <<>> THEN watched => w.on
       ELSE w.requests[Len(w.requests)].op = "watch" <=> watched

AnswersOwed ==
  \A d \in Docs : IF W!IsOpen(conn)
                    THEN Owed(wire[d], agg[d], d \in conn.targets)
                    ELSE wire[d] = NotServed /\ agg[d].out = 0

TableOf(view, watched, cache) ==
  /\ view.on <=> view.listeners # {}
  /\ view.on <=> watched
  /\ view.on => view.content = cache

Tables == \A d \in Docs : TableOf(client.views[d], d \in conn.targets, store[d].cache)

Failing(events) == \E i \in 1..Len(events) : ~events[i].ok

\* Who listens: not before the task that adds the reader, nor after an error,
\* and a get that is over only until the task that removes it.
ReaderSound(k, w, rs, r) ==
  LET listens == r \in k.views[DocOf[r]].listeners
  IN /\ rs[r].status = "idle" \/ Queued(w, "add", r) => ~listens /\ k.inbox[r] = <<>>
     /\ Queued(w, "add", r) => rs[r].status = "waiting"
     /\ Failing(k.inbox[r]) => ~listens
     /\ r \in Gets /\ rs[r].status = "done" => Queued(w, "remove", r) \/ ~listens

ReadersSound == \A r \in Readers : ReaderSound(client, work, reads, r)

IInv ==
  /\ BackendTyped /\ ClientTyped /\ ConnSound(conn)
  /\ AnswersOwed /\ Tables /\ ReadersSound

-----------------------------------------------------------------------------
(* What the invariant asks of events, of requests and of who is informed.  *)

\* An event appended fails the inbox only if it is an error.
LEMMA FailingByAppend ==
  ASSUME NEW q \in Seq(Event), NEW e \in Event
  PROVE  /\ Append(q, e) \in Seq(Event) /\ Append(q, e) # <<>>
         /\ Failing(Append(q, e)) <=> Failing(q) \/ ~e.ok
<1> DEFINE a == Append(q, e)
<1>1. /\ a \in Seq(Event) /\ a # <<>> /\ Len(a) = Len(q) + 1 /\ Len(q) \in Nat
      /\ a[Len(q) + 1] = e /\ \A i \in 1..Len(q) : a[i] = q[i]
  BY AppendProperties, LenProperties
<1> HIDE DEF a
<1>2. ASSUME NEW i \in 1..Len(a), ~a[i].ok
      PROVE  Failing(q) \/ ~e.ok
  <2>1. CASE i = Len(q) + 1
    BY <1>1, <1>2, <2>1
  <2>2. CASE i \in 1..Len(q)
    BY <1>1, <1>2, <2>2 DEF Failing
  <2> QED BY <1>1, <2>1, <2>2
<1>3. ASSUME Failing(q) \/ ~e.ok
      PROVE  Failing(a)
  <2>1. CASE ~e.ok
    <3>1. Len(q) + 1 \in 1..Len(a)
      BY <1>1
    <3> QED BY <1>1, <2>1, <3>1 DEF Failing
  <2>2. CASE Failing(q)
    <3>1. PICK i \in 1..Len(q) : ~q[i].ok
      BY <2>2 DEF Failing
    <3>2. i \in 1..Len(a) /\ a[i] = q[i]
      BY <1>1
    <3> QED BY <3>1, <3>2 DEF Failing
  <2> QED BY <1>3, <2>1, <2>2
<1>4. Failing(a) <=> Failing(q) \/ ~e.ok
  BY <1>2, <1>3 DEF Failing
<1> QED BY <1>1, <1>4 DEF a

\* Taking an event adds no failure.
LEMMA FailingByTail ==
  ASSUME NEW q \in Seq(Event), q # <<>>
  PROVE  /\ Tail(q) \in Seq(Event) /\ Head(q) \in Event
         /\ Failing(Tail(q)) => Failing(q)
         /\ ~Head(q).ok => Failing(q)
<1> DEFINE a == Tail(q)
<1>1. /\ a \in Seq(Event) /\ Head(q) \in Event /\ Head(q) = q[1]
      /\ Len(q) \in Nat /\ Len(q) > 0 /\ Len(a) = Len(q) - 1
      /\ \A i \in 1..Len(a) : a[i] = q[i + 1]
  BY HeadTailProperties, LenProperties, EmptySeq
<1> HIDE DEF a
<1>2. ASSUME NEW i \in 1..Len(a), ~a[i].ok
      PROVE  Failing(q)
  <2>1. i + 1 \in 1..Len(q) /\ q[i + 1] = a[i]
    BY <1>1
  <2> QED BY <1>2, <2>1 DEF Failing
<1>3. ~Head(q).ok => Failing(q)
  <2>1. 1 \in 1..Len(q)
    BY <1>1
  <2> QED BY <1>1, <2>1 DEF Failing
<1>4. Failing(a) => Failing(q)
  BY <1>2 DEF Failing
<1> QED BY <1>1, <1>3, <1>4 DEF a

\* Who is informed keeps listening to what it listened to.
LEMMA InformedKeeps ==
  ASSUME NEW k \in Clients, NEW n, Informed(k, n)
  PROVE  /\ n \in Clients
         /\ OwnListeners(k) => OwnListeners(n)
         /\ \A d \in Docs : \A watched, cache :
              TableOf(k.views[d], watched, cache) => TableOf(n.views[d], watched, cache)
         /\ \A r \in Readers : \A w, rs :
              ReaderSound(k, w, rs, r) => ReaderSound(n, w, rs, r)
<1>1. n \in Clients
  BY DEF Informed
<1>2. OwnListeners(k) => OwnListeners(n)
  BY DEF Informed, OwnListeners
<1>3. \A d \in Docs : \A watched, cache :
        TableOf(k.views[d], watched, cache) => TableOf(n.views[d], watched, cache)
  BY DEF Informed, TableOf
<1>4. ASSUME NEW r \in Readers, NEW w, NEW rs, ReaderSound(k, w, rs, r)
      PROVE  ReaderSound(n, w, rs, r)
  <2>1. n.views[DocOf[r]].listeners = k.views[DocOf[r]].listeners
    BY ReadersAssumption DEF Informed
  <2>2. CASE n.inbox[r] = k.inbox[r]
    BY <1>4, <2>1, <2>2 DEF ReaderSound
  <2>3. CASE /\ r \in k.views[DocOf[r]].listeners
             /\ \E cached \in BOOLEAN :
                  n.inbox[r] = Append(k.inbox[r], SnapshotOf(k, r, cached))
    <3>1. PICK cached \in BOOLEAN :
            n.inbox[r] = Append(k.inbox[r], SnapshotOf(k, r, cached))
      BY <2>3
    <3>2. k.inbox[r] \in Seq(Event) /\ k.views[DocOf[r]] \in View
      BY ReadersAssumption DEF Clients
    <3>3. SnapshotOf(k, r, cached) \in Event /\ SnapshotOf(k, r, cached).ok = TRUE
      BY <3>2 DEF SnapshotOf, Event, View
    <3>4. Failing(n.inbox[r]) <=> Failing(k.inbox[r])
      BY <3>1, <3>2, <3>3, FailingByAppend
    <3> QED BY <1>4, <2>1, <2>3, <3>4 DEF ReaderSound
  <2> QED BY <2>2, <2>3 DEF Informed
<1> QED BY <1>1, <1>2, <1>3, <1>4

\* A request sent is the last one under way, and one more answer is owed.
LEMMA OwedBySend ==
  ASSUME NEW w \in Wire, NEW a \in Gathered, NEW request \in Request,
         ~w.crossed => a.out = Len(w.requests)
  PROVE  LET v == [w EXCEPT !.requests = Append(w.requests, request)]
             b == [a EXCEPT !.out = a.out + 1]
         IN v \in Wire /\ b \in Gathered /\ Owed(v, b, request.op = "watch")
<1> DEFINE q == Append(w.requests, request)
           v == [w EXCEPT !.requests = q]
           b == [a EXCEPT !.out = a.out + 1]
<1>1. w.requests \in Seq(Request) /\ a.out \in Int
  BY DEF Wire, Gathered
<1>2. /\ q \in Seq(Request) /\ q # <<>> /\ Len(q) = Len(w.requests) + 1
      /\ q[Len(w.requests) + 1] = request
  BY <1>1, AppendProperties
<1> HIDE DEF q
<1>3. v \in Wire /\ v.requests = q /\ v.crossed = w.crossed
  BY <1>2 DEF Wire
<1>4. b \in Gathered /\ b.out = a.out + 1
  BY <1>1 DEF Gathered
<1> HIDE DEF v, b
<1>5. Owed(v, b, request.op = "watch")
  BY <1>2, <1>3, <1>4 DEF Owed
<1> QED BY <1>3, <1>4, <1>5 DEF v, b, q

\* An answer to the first request leaves the last one what it was; when it was
\* the last, the backend serves what it asked for.
LEMMA OwedByAnswer ==
  ASSUME NEW w \in Wire, NEW a \in Gathered, NEW watched \in BOOLEAN,
         Owed(w, a, watched), w.requests # <<>>,
         NEW v \in Wire, v.requests = Tail(w.requests),
         v.on <=> Head(w.requests).op = "watch", v.crossed = w.crossed,
         NEW b, b.out = a.out - 1
  PROVE  Owed(v, b, watched) /\ Head(w.requests) \in Request
<1> DEFINE q == w.requests
           t == Tail(w.requests)
<1>1. /\ q \in Seq(Request) /\ q # <<>> /\ Len(q) \in Nat \ {0}
      /\ t \in Seq(Request) /\ Len(t) = Len(q) - 1
      /\ \A i \in 1..Len(t) : t[i] = q[i + 1]
      /\ Head(q) = q[1] /\ Head(q) \in Request
  BY HeadTailProperties, EmptySeq DEF Wire
<1>2. ~w.crossed => a.out = Len(q) /\ (q[Len(q)].op = "watch" <=> watched)
  BY <1>1 DEF Owed
<1>3. v.requests = t /\ (v.on <=> q[1].op = "watch")
  BY <1>1
<1> HIDE DEF q, t
<1>4. CASE t = <<>>
  <2>1. Len(q) = 1
    BY <1>1, <1>4
  <2> QED BY <1>1, <1>2, <1>3, <1>4, <2>1 DEF Owed, q
<1>5. CASE t # <<>>
  <2>1. Len(t) \in 1..Len(t) /\ t[Len(t)] = q[Len(t) + 1] /\ Len(t) + 1 = Len(q)
    BY <1>1, <1>5, EmptySeq
  <2>2. t[Len(t)] = q[Len(q)] /\ (~w.crossed => b.out = Len(t))
    BY <1>1, <1>2, <2>1
  <2>3. Owed(v, b, watched)
    BY <1>2, <1>3, <1>5, <2>2 DEF Owed
  <2> QED BY <1>1, <1>2, <2>3 DEF q
<1> QED BY <1>4, <1>5

-----------------------------------------------------------------------------
(* The connection changes and the views hear of it.                        *)

\* What Connect gives, from any views that are as they should be.
LEMMA ConnectInforms ==
  ASSUME NEW k \in Clients, OwnListeners(k), NEW c, ConnSound(c), Connect(k, c)
  PROVE  /\ conn' = c /\ Informed(k, client') /\ client'.online = conn'.online
         /\ client' \in Clients /\ OwnListeners(client')
<1>1. conn' = c /\ client' = HandleOnlineStateChange(k, c.online)
  BY DEF Connect
<1>2. c.online \in W!OnlineStates
  BY DEF ConnSound, WP!Sound, WP!Connection, WP!OnlineStates, W!OnlineStates
<1>3. Informed(k, client') /\ client'.online = c.online
  BY <1>1, <1>2, OnlineStateHeard
<1> QED BY <1>1, <1>3, InformedKeeps

\* A task that leaves the targets, the store and the readers alone disturbs
\* nothing of the client.
LEMMA ClientHears ==
  ASSUME IInv, NEW c, ConnSound(c), c.targets = conn.targets, Connect(client, c),
         UNCHANGED <<store, work, muted, reads>>
  PROVE  ConnSound(conn)' /\ ClientTyped' /\ Tables' /\ ReadersSound'
<1>1. client \in Clients /\ OwnListeners(client)
  BY DEF IInv, ClientTyped
<1>2. /\ conn' = c /\ Informed(client, client') /\ client'.online = conn'.online
      /\ client' \in Clients /\ OwnListeners(client')
  BY <1>1, ConnectInforms
<1>3. ConnSound(conn)'
  BY <1>2 DEF ConnSound, WP!Sound, WP!Connection, WP!TimersFollowStream,
     WP!OnlineFollowsStream, WP!IsStarted, WP!IsOpen
<1>4. ClientTyped'
  BY <1>2 DEF IInv, ClientTyped, OwnListeners
<1>5. Tables'
  <2>1. SUFFICES ASSUME NEW d \in Docs
                 PROVE  TableOf(client'.views[d], d \in conn'.targets, store'[d].cache)
    BY DEF Tables, TableOf
  <2>2. TableOf(client.views[d], d \in conn.targets, store[d].cache)
    BY DEF IInv, Tables
  <2>3. TableOf(client'.views[d], d \in conn.targets, store[d].cache)
    BY <1>1, <1>2, <2>2, InformedKeeps
  <2> QED BY <1>2, <2>3
<1>6. ReadersSound'
  <2>1. SUFFICES ASSUME NEW r \in Readers
                 PROVE  ReaderSound(client', work', reads', r)
    BY DEF ReadersSound, ReaderSound, Queued
  <2>2. ReaderSound(client, work, reads, r)
    BY DEF IInv, ReadersSound
  <2>3. ReaderSound(client', work, reads, r)
    BY <1>1, <1>2, <2>2, InformedKeeps
  <2> QED BY <2>3
<1> QED BY <1>3, <1>4, <1>5, <1>6

\* Without a stream nothing is under way.
LEMMA Disconnects ==
  ASSUME BackendTyped, Disconnect, ~W!IsOpen(conn'), UNCHANGED <<db, store>>,
         breaks' \in 0..MaxBreaks
  PROVE  BackendTyped' /\ AnswersOwed'
<1>1. NotServed \in Wire /\ NoTarget \in Gathered /\ NoTarget.out = 0
  <2>1. <<>> \in Seq(Request)
    BY EmptySeq
  <2> QED BY <2>1 DEF NotServed, Wire, NoTarget, Gathered
<1>2. BackendTyped'
  BY <1>1 DEF BackendTyped, Disconnect
<1>3. AnswersOwed'
  BY <1>1 DEF AnswersOwed, Disconnect, W!IsOpen
<1> QED BY <1>2, <1>3

\* The stream stays as it is, and so does what is under way.
LEMMA BackendStays ==
  ASSUME BackendTyped, AnswersOwed, UNCHANGED <<db, wire, agg, store, breaks>>,
         W!IsOpen(conn') <=> W!IsOpen(conn), conn'.targets = conn.targets
  PROVE  BackendTyped' /\ AnswersOwed'
<1>1. BackendTyped'
  BY DEF BackendTyped
<1>2. AnswersOwed'
  BY DEF AnswersOwed, Owed, W!IsOpen
<1> QED BY <1>1, <1>2

\* The backoff elapses: the client hears, and no stream is open.
LEMMA BackoffKeepsInv ==
  ASSUME IInv, BackoffElapses
  PROVE  IInv' /\ W!Next
<1> DEFINE c == W!OnBackoffElapsed(conn)
<1>1. ConnSound(c) /\ c.targets = conn.targets /\ ~W!IsOpen(c) /\ ~W!IsOpen(conn)
  BY BackoffSound DEF IInv, BackoffElapses
<1>2. /\ Connect(client, c) /\ conn' = c
      /\ UNCHANGED <<db, wire, agg, store, work, muted, reads, breaks>>
  BY DEF BackoffElapses, Connect
<1>3. W!Next
  BY <1>2 DEF BackoffElapses, W!Next, W!BackoffElapses
<1> HIDE DEF c
<1>4. ConnSound(conn)' /\ ClientTyped' /\ Tables' /\ ReadersSound'
  BY <1>1, <1>2, ClientHears
<1>5. BackendTyped' /\ AnswersOwed'
  BY <1>1, <1>2, BackendStays DEF IInv
<1> QED BY <1>3, <1>4, <1>5 DEF IInv

\* The online state times out: nothing under way changes.
LEMMA TimerKeepsInv ==
  ASSUME IInv, TimerFires
  PROVE  IInv' /\ W!Next
<1> DEFINE c == W!OnlineStateTimeout(conn)
<1>1. ConnSound(c) /\ c.targets = conn.targets /\ (W!IsOpen(c) <=> W!IsOpen(conn))
  BY TimeoutSound DEF IInv, TimerFires
<1>2. /\ Connect(client, c) /\ conn' = c
      /\ UNCHANGED <<db, wire, agg, store, work, muted, reads, breaks>>
  BY DEF TimerFires, Connect
<1>3. W!Next
  BY <1>2 DEF TimerFires, W!Next, W!TimerFires
<1> HIDE DEF c
<1>4. ConnSound(conn)' /\ ClientTyped' /\ Tables' /\ ReadersSound'
  BY <1>1, <1>2, ClientHears
<1>5. BackendTyped' /\ AnswersOwed'
  BY <1>1, <1>2, BackendStays DEF IInv
<1> QED BY <1>3, <1>4, <1>5 DEF IInv

\* The idle stream closes: nothing is under way any more.
LEMMA IdleKeepsInv ==
  ASSUME IInv, StreamIdle
  PROVE  IInv' /\ W!Next
<1> DEFINE c == W!OnIdle(conn)
<1>1. ConnSound(c) /\ c.targets = conn.targets /\ ~W!IsOpen(c)
  BY IdleSound DEF IInv, StreamIdle
<1>2. /\ Connect(client, c) /\ conn' = c /\ Disconnect
      /\ UNCHANGED <<db, store, work, muted, reads, breaks>>
  BY DEF StreamIdle, Connect
<1>3. W!Next
  BY <1>2 DEF StreamIdle, W!Next, W!StreamIdle
<1> HIDE DEF c
<1>4. ConnSound(conn)' /\ ClientTyped' /\ Tables' /\ ReadersSound'
  BY <1>1, <1>2, ClientHears
<1>5. BackendTyped' /\ AnswersOwed'
  BY <1>1, <1>2, Disconnects DEF IInv, BackendTyped
<1> QED BY <1>3, <1>4, <1>5 DEF IInv

\* The bound of breaks is kept.
LEMMA BreaksBounded ==
  ASSUME breaks \in 0..MaxBreaks, NEW bounded, Breaks(bounded)
  PROVE  breaks' \in 0..MaxBreaks
BY ReadersAssumption DEF Breaks

\* The stream breaks: nothing is under way any more.
LEMMA BreakKeepsInv ==
  ASSUME IInv, StreamBreaks
  PROVE  IInv' /\ W!Next
<1> DEFINE c == W!CloseStream(conn, FALSE)
<1>1. ConnSound(c) /\ c.targets = conn.targets /\ ~W!IsOpen(c)
  BY BreakSound DEF IInv, StreamBreaks
<1>2. /\ Connect(client, c) /\ conn' = c /\ Disconnect
      /\ UNCHANGED <<db, store, work, muted, reads>>
  BY DEF StreamBreaks, Connect
<1>3. W!Next
  BY <1>2 DEF StreamBreaks, W!Next, W!StreamBreaks
<1>4. breaks' \in 0..MaxBreaks
  BY BreaksBounded DEF StreamBreaks, IInv, BackendTyped
<1> HIDE DEF c
<1>5. ConnSound(conn)' /\ ClientTyped' /\ Tables' /\ ReadersSound'
  BY <1>1, <1>2, ClientHears
<1>6. BackendTyped' /\ AnswersOwed'
  BY <1>1, <1>2, <1>4, Disconnects DEF IInv
<1> QED BY <1>3, <1>5, <1>6 DEF IInv

\* The network restarts: nothing is under way any more.
LEMMA RestartKeepsInv ==
  ASSUME IInv, NetworkRestarts
  PROVE  IInv' /\ W!Next
<1> DEFINE c == W!RestartNetwork(conn)
<1>1. ConnSound(c) /\ c.targets = conn.targets /\ ~W!IsOpen(c)
  BY RestartSound DEF IInv
<1>2. /\ Connect(client, c) /\ conn' = c /\ Disconnect
      /\ UNCHANGED <<db, store, work, muted, reads>>
  BY DEF NetworkRestarts, W!NetworkRestarts, Connect
<1>3. W!Next
  BY DEF NetworkRestarts, W!Next
<1>4. breaks' \in 0..MaxBreaks
  BY BreaksBounded DEF NetworkRestarts, IInv, BackendTyped
<1> HIDE DEF c
<1>5. ConnSound(conn)' /\ ClientTyped' /\ Tables' /\ ReadersSound'
  BY <1>1, <1>2, ClientHears
<1>6. BackendTyped' /\ AnswersOwed'
  BY <1>1, <1>2, <1>4, Disconnects DEF IInv
<1> QED BY <1>3, <1>5, <1>6 DEF IInv

\* Credentials open the stream with one watch per target, or change nothing.
LEMMA CredentialsKeepInv ==
  ASSUME IInv, CredentialsArrive
  PROVE  IInv' /\ W!Next
<1>1. PICK current \in BOOLEAN, ok \in BOOLEAN :
        /\ IF current THEN conn.token ELSE conn.stale > 0
        /\ conn' = W!OnCredentials(conn, current, ok)
  BY DEF CredentialsArrive, W!CredentialsArrive
<1> DEFINE c == W!OnCredentials(conn, current, ok)
<1>2. ConnSound(c) /\ c.targets = conn.targets /\ (W!IsOpen(conn) => W!IsOpen(c))
  BY <1>1, CredentialsSound DEF IInv
<1>3. conn' = c
  BY <1>1
<1> HIDE DEF c
<1>4. Connect(client, c) /\ UNCHANGED <<db, store, work, muted, reads, breaks>>
  BY <1>3 DEF CredentialsArrive, Connect
<1>5. W!Next
  BY DEF CredentialsArrive, W!Next
<1>6. ConnSound(conn)' /\ ClientTyped' /\ Tables' /\ ReadersSound'
  BY <1>2, <1>4, ClientHears
<1>7. BackendTyped' /\ AnswersOwed'
  <2>1. CASE W!IsOpen(conn') /\ ~W!IsOpen(conn)
    <3> DEFINE w(d) == IF d \in conn.targets
                         THEN [NotServed EXCEPT !.requests = <<Watch(d)>>] ELSE NotServed
               a(d) == IF d \in conn.targets THEN [NoTarget EXCEPT !.out = 1] ELSE NoTarget
    <3>1. wire' = [d \in Docs |-> w(d)] /\ agg' = [d \in Docs |-> a(d)]
      BY <2>1 DEF CredentialsArrive
    <3>2. ASSUME NEW d \in Docs
          PROVE  w(d) \in Wire /\ a(d) \in Gathered /\ Owed(w(d), a(d), d \in conn.targets)
      <4>1. store[d] \in Stored
        BY DEF IInv, BackendTyped
      <4>2. Watch(d) \in Request /\ Watch(d).op = "watch"
        BY <4>1 DEF Watch, Request, Stored
      <4>3. <<Watch(d)>> \in Seq(Request) /\ Len(<<Watch(d)>>) = 1 /\ <<Watch(d)>> # <<>>
            /\ <<Watch(d)>>[1] = Watch(d) /\ <<>> \in Seq(Request) /\ Len(<<>>) = 0
        BY <4>2
      <4> HIDE DEF Watch
      <4>4. CASE d \in conn.targets
        <5>1. w(d) = [NotServed EXCEPT !.requests = <<Watch(d)>>]
              /\ a(d) = [NoTarget EXCEPT !.out = 1]
          BY <4>4
        <5>2. w(d) \in Wire /\ w(d).requests = <<Watch(d)>>
          BY <4>3, <5>1 DEF NotServed, Wire
        <5>3. a(d) \in Gathered /\ a(d).out = 1
          <6>1. 1 \in Int
            OBVIOUS
          <6> QED BY <5>1, <6>1 DEF NoTarget, Gathered
        <5> HIDE DEF w, a
        <5> QED BY <4>2, <4>3, <4>4, <5>2, <5>3 DEF Owed
      <4>5. CASE d \notin conn.targets
        BY <4>3, <4>5 DEF NotServed, NoTarget, Wire, Gathered, Owed
      <4> QED BY <4>4, <4>5
    <3> HIDE DEF w, a
    <3>3. BackendTyped'
      BY <1>4, <3>1, <3>2 DEF IInv, BackendTyped
    <3>4. AnswersOwed'
      <4>1. conn'.targets = conn.targets /\ W!IsOpen(conn)'
        BY <1>2, <1>3, <2>1 DEF W!IsOpen
      <4> QED BY <3>1, <3>2, <4>1 DEF AnswersOwed
    <3> QED BY <3>3, <3>4
  <2>2. CASE ~(W!IsOpen(conn') /\ ~W!IsOpen(conn))
    <3>1. UNCHANGED <<wire, agg>>
      BY <2>2 DEF CredentialsArrive
    <3> QED BY <1>2, <1>3, <1>4, <2>2, <3>1, BackendStays DEF IInv
  <2> QED BY <2>1, <2>2
<1> QED BY <1>5, <1>6, <1>7 DEF IInv

-----------------------------------------------------------------------------
(* Messages of the backend.                                                *)

\* A message that raises no snapshot is heard.
LEMMA MessageHeard ==
  ASSUME IInv, W!IsOpen(conn), Heard, UNCHANGED <<store, work, muted, reads>>
  PROVE  /\ ConnSound(conn)' /\ ClientTyped' /\ Tables' /\ ReadersSound'
         /\ W!Next /\ W!IsOpen(conn') /\ conn'.targets = conn.targets
<1> DEFINE c == W!OnMessage(conn)
<1>1. ConnSound(c) /\ c.targets = conn.targets /\ W!IsOpen(c)
  BY MessageSound DEF IInv
<1>2. Connect(client, c) /\ conn' = c
  BY DEF Heard, Connect
<1>3. W!Next
  BY <1>2 DEF W!Next, W!MessageArrives
<1> HIDE DEF c
<1>4. ConnSound(conn)' /\ ClientTyped' /\ Tables' /\ ReadersSound'
  BY <1>1, <1>2, ClientHears
<1> QED BY <1>1, <1>2, <1>3, <1>4

\* What one target is owed changes, while the stream stays open.
LEMMA OneTarget ==
  ASSUME BackendTyped, AnswersOwed, W!IsOpen(conn), W!IsOpen(conn'),
         UNCHANGED <<db, store, breaks>>,
         NEW d \in Docs, NEW v \in Wire, NEW b \in Gathered,
         wire' = [wire EXCEPT ![d] = v], agg' = [agg EXCEPT ![d] = b],
         Owed(v, b, d \in conn'.targets),
         \A e \in Docs \ {d} : e \in conn'.targets <=> e \in conn.targets
  PROVE  BackendTyped' /\ AnswersOwed'
<1>1. BackendTyped'
  BY DEF BackendTyped
<1>2. AnswersOwed'
  <2>1. SUFFICES ASSUME NEW e \in Docs
                 PROVE  Owed(wire'[e], agg'[e], e \in conn'.targets)
    BY DEF AnswersOwed, W!IsOpen, Owed
  <2>2. CASE e = d
    BY <2>2 DEF BackendTyped
  <2>3. CASE e # d
    <3>1. wire'[e] = wire[e] /\ agg'[e] = agg[e]
      BY <2>3 DEF BackendTyped
    <3>2. Owed(wire[e], agg[e], e \in conn.targets)
      BY DEF AnswersOwed
    <3>3. e \in conn'.targets <=> e \in conn.targets
      BY <2>3
    <3> QED BY <3>1, <3>2, <3>3 DEF Owed
  <2> QED BY <2>2, <2>3
<1> QED BY <1>1, <1>2

\* The first answer owed is to a watch: the backend serves from now on.
LEMMA AddedKeepsInv ==
  ASSUME IInv, NEW d \in Docs, TargetAdded(d)
  PROVE  IInv' /\ W!Next
<1> DEFINE w == wire[d]
           a == agg[d]
           resume == Head(w.requests).resume
           told == IF resume = None /\ db[d] \in Deletions THEN db[d] ELSE resume
           v == [w EXCEPT !.requests = Tail(w.requests), !.on = TRUE,
                          !.caughtUp = FALSE, !.told = told]
           b == [a EXCEPT !.out = a.out - 1,
                          !.member = IF a.out = 1 THEN "same" ELSE a.member]
<1>1. /\ W!IsOpen(conn) /\ w.requests # <<>> /\ Head(w.requests).op = "watch"
      /\ Heard /\ UNCHANGED <<db, store, work, muted, reads, breaks>>
  BY DEF TargetAdded, Answers
<1>2. /\ ConnSound(conn)' /\ ClientTyped' /\ Tables' /\ ReadersSound'
      /\ W!Next /\ W!IsOpen(conn') /\ conn'.targets = conn.targets
  BY <1>1, MessageHeard
<1>3. BackendTyped /\ AnswersOwed /\ w \in Wire /\ a \in Gathered /\ db[d] \in Versions
  BY DEF IInv, BackendTyped
<1>4. wire' = [wire EXCEPT ![d] = v] /\ agg' = [agg EXCEPT ![d] = b]
  <2>1. wire' = [wire EXCEPT ![d] = v]
    BY <1>3 DEF TargetAdded, BackendTyped, Wire
  <2>2. agg' = [agg EXCEPT ![d] = b]
    BY <1>3 DEF TargetAdded, BackendTyped, Gathered
  <2> QED BY <2>1, <2>2
<1>5. Owed(w, a, d \in conn.targets)
  BY <1>1, <1>3 DEF AnswersOwed
<1> HIDE DEF w, a
<1>6. Tail(w.requests) \in Seq(Request) /\ Head(w.requests) \in Request
  BY <1>1, <1>3, HeadTailProperties DEF Wire
<1>7. told \in Versions \cup {None}
  BY <1>3, <1>6 DEF Request
<1> HIDE DEF told
<1>8. v \in Wire /\ v.requests = Tail(w.requests) /\ v.on = TRUE
      /\ v.crossed = w.crossed
  BY <1>3, <1>6, <1>7 DEF Wire
<1> HIDE DEF v
<1>9. b.out = a.out - 1
  BY <1>3 DEF Gathered
<1>10. Owed(v, b, d \in conn.targets)
  <2>1. v.on <=> Head(w.requests).op = "watch"
    BY <1>1, <1>8
  <2>2. (d \in conn.targets) \in BOOLEAN
    OBVIOUS
  <2> HIDE DEF b
  <2> QED BY <1>1, <1>3, <1>5, <1>8, <1>9, <2>1, <2>2, OwedByAnswer
<1>11. b \in Gathered
  <2>1. a.out - 1 \in Int
    BY <1>3 DEF Gathered
  <2> QED BY <1>3, <2>1 DEF Gathered
<1> HIDE DEF b
<1>12. BackendTyped' /\ AnswersOwed'
  BY <1>1, <1>2, <1>3, <1>4, <1>8, <1>10, <1>11, OneTarget
<1> QED BY <1>2, <1>12 DEF IInv

\* The first answer owed is to an unwatch: the backend serves no more.
LEMMA RemovedKeepsInv ==
  ASSUME IInv, NEW d \in Docs, TargetRemoved(d)
  PROVE  IInv' /\ W!Next
<1> DEFINE w == wire[d]
           a == agg[d]
           v == [NotServed EXCEPT !.requests = Tail(w.requests), !.crossed = w.crossed]
           b == IF a.out = 1 THEN [NoTarget EXCEPT !.update = a.update]
                             ELSE [a EXCEPT !.out = a.out - 1]
<1>1. /\ W!IsOpen(conn) /\ w.requests # <<>> /\ Head(w.requests).op = "unwatch"
      /\ Heard /\ UNCHANGED <<db, store, work, muted, reads, breaks>>
  BY DEF TargetRemoved, Answers
<1>2. /\ ConnSound(conn)' /\ ClientTyped' /\ Tables' /\ ReadersSound'
      /\ W!Next /\ W!IsOpen(conn') /\ conn'.targets = conn.targets
  BY <1>1, MessageHeard
<1>3. BackendTyped /\ AnswersOwed /\ w \in Wire /\ a \in Gathered
  BY DEF IInv, BackendTyped
<1>4. wire' = [wire EXCEPT ![d] = v] /\ agg' = [agg EXCEPT ![d] = b]
  <2>1. wire' = [wire EXCEPT ![d] = v]
    BY DEF TargetRemoved
  <2>2. agg' = [agg EXCEPT ![d] = b]
    <3>1. agg' = [agg EXCEPT ![d] = IF agg[d].out = 1
                                      THEN [NoTarget EXCEPT !.update = agg[d].update]
                                      ELSE [agg[d] EXCEPT !.out = agg[d].out - 1]]
      BY <1>3 DEF TargetRemoved, BackendTyped, Gathered
    <3> QED BY <3>1
  <2> QED BY <2>1, <2>2
<1>5. Owed(w, a, d \in conn.targets)
  BY <1>1, <1>3 DEF AnswersOwed
<1> HIDE DEF w, a
<1>6. Tail(w.requests) \in Seq(Request)
  BY <1>1, <1>3, HeadTailProperties DEF Wire
<1>7. v \in Wire /\ v.requests = Tail(w.requests) /\ v.on = FALSE
      /\ v.crossed = w.crossed
  BY <1>3, <1>6 DEF Wire, NotServed
<1> HIDE DEF v
<1>8. b.out = a.out - 1
  BY <1>3 DEF Gathered, NoTarget
<1>9. Owed(v, b, d \in conn.targets)
  <2>1. v.on <=> Head(w.requests).op = "watch"
    BY <1>1, <1>7
  <2>2. (d \in conn.targets) \in BOOLEAN
    OBVIOUS
  <2> HIDE DEF b
  <2> QED BY <1>1, <1>3, <1>5, <1>7, <1>8, <2>1, <2>2, OwedByAnswer
<1>10. b \in Gathered
  <2>1. a.out - 1 \in Int /\ 0 \in Int
    BY <1>3 DEF Gathered
  <2> QED BY <1>3, <2>1 DEF Gathered, NoTarget
<1> HIDE DEF b
<1>11. BackendTyped' /\ AnswersOwed'
  BY <1>1, <1>2, <1>3, <1>4, <1>7, <1>9, <1>10, OneTarget
<1> QED BY <1>2, <1>11 DEF IInv

\* A message about what is served leaves the requests and the answers alone.
LEMMA ServedKeeps ==
  ASSUME IInv, W!IsOpen(conn), Heard,
         UNCHANGED <<db, store, work, muted, reads, breaks>>,
         NEW d \in Docs, NEW v \in Wire, NEW b \in Gathered,
         v.requests = wire[d].requests, v.on = wire[d].on,
         v.crossed = wire[d].crossed, b.out = agg[d].out,
         wire' = [wire EXCEPT ![d] = v], agg' = [agg EXCEPT ![d] = b]
  PROVE  IInv' /\ W!Next
<1>1. /\ ConnSound(conn)' /\ ClientTyped' /\ Tables' /\ ReadersSound'
      /\ W!Next /\ W!IsOpen(conn') /\ conn'.targets = conn.targets
  BY MessageHeard
<1>2. Owed(wire[d], agg[d], d \in conn.targets)
  BY DEF IInv, AnswersOwed
<1>3. Owed(v, b, d \in conn'.targets)
  BY <1>1, <1>2 DEF Owed
<1>4. BackendTyped' /\ AnswersOwed'
  BY <1>1, <1>3, OneTarget DEF IInv
<1> QED BY <1>1, <1>4 DEF IInv

\* What the aggregator makes of a document.
LEMMA GatherGives ==
  ASSUME BackendTyped, NEW d \in Docs, NEW content,
         NEW update \in Content \cup {None, Purge}, Gather(d, content, update)
  PROVE  \E b \in Gathered : b.out = agg[d].out /\ agg' = [agg EXCEPT ![d] = b]
<1> DEFINE member == IF Exists(content) THEN "added"
                     ELSE IF store[d].member THEN "removed" ELSE "same"
           b == [agg[d] EXCEPT !.update = update, !.member = member]
<1>1. agg[d] \in Gathered /\ agg \in [Docs -> Gathered]
  BY DEF BackendTyped
<1>2. CASE ~IsActive(d)
  <2>1. agg' = [agg EXCEPT ![d] = agg[d]]
    BY <1>1, <1>2 DEF Gather
  <2> QED BY <1>1, <2>1
<1>3. CASE IsActive(d)
  <2>1. agg' = [agg EXCEPT ![d] = b]
    BY <1>1, <1>3 DEF Gather, Gathered
  <2>2. member \in {"same", "added", "removed"}
    OBVIOUS
  <2> HIDE DEF member
  <2>3. b \in Gathered /\ b.out = agg[d].out
    BY <1>1, <2>2 DEF Gathered
  <2> QED BY <2>1, <2>3
<1> QED BY <1>2, <1>3

\* A change of the document leaves requests and answers alone.
LEMMA DocumentKeepsInv ==
  ASSUME IInv, NEW d \in Docs, DocumentChanges(d)
  PROVE  IInv' /\ W!Next
<1>1. PICK v \in 0..db[d] : wire' = [wire EXCEPT ![d].told = v] /\ Gather(d, At(v), At(v))
  BY DEF DocumentChanges
<1>2. BackendTyped /\ wire \in [Docs -> Wire] /\ wire[d] \in Wire /\ db[d] \in Versions
  BY DEF IInv, BackendTyped
<1>3. v \in Versions
  BY <1>2, ReadersAssumption DEF Versions
<1>4. At(v) \in Content
  BY <1>3 DEF At, Content
<1>5. PICK b \in Gathered : b.out = agg[d].out /\ agg' = [agg EXCEPT ![d] = b]
  BY <1>1, <1>2, <1>4, GatherGives
<1> DEFINE w == [wire[d] EXCEPT !.told = v]
<1>6. w \in Wire /\ w.requests = wire[d].requests /\ w.on = wire[d].on
      /\ w.crossed = wire[d].crossed
      /\ wire' = [wire EXCEPT ![d] = w]
  BY <1>1, <1>2, <1>3 DEF Wire
<1> HIDE DEF w
<1>7. W!IsOpen(conn) /\ Heard /\ UNCHANGED <<db, store, work, muted, reads, breaks>>
  BY DEF DocumentChanges
<1> QED BY <1>5, <1>6, <1>7, ServedKeeps

\* An existence filter leaves requests and answers alone.
LEMMA FilterKeepsInv ==
  ASSUME IInv, NEW d \in Docs, ExistenceFilter(d)
  PROVE  IInv' /\ W!Next
<1>1. wire' = [wire EXCEPT ![d].told = db[d]] /\ Gather(d, None, Purge)
  BY DEF ExistenceFilter
<1>2. BackendTyped /\ wire \in [Docs -> Wire] /\ wire[d] \in Wire /\ db[d] \in Versions
  BY DEF IInv, BackendTyped
<1>3. PICK b \in Gathered : b.out = agg[d].out /\ agg' = [agg EXCEPT ![d] = b]
  BY <1>1, <1>2, GatherGives
<1> DEFINE w == [wire[d] EXCEPT !.told = db[d]]
<1>4. w \in Wire /\ w.requests = wire[d].requests /\ w.on = wire[d].on
      /\ w.crossed = wire[d].crossed
      /\ wire' = [wire EXCEPT ![d] = w]
  BY <1>1, <1>2 DEF Wire
<1> HIDE DEF w
<1>5. W!IsOpen(conn) /\ Heard /\ UNCHANGED <<db, store, work, muted, reads, breaks>>
  BY DEF ExistenceFilter
<1> QED BY <1>3, <1>4, <1>5, ServedKeeps

\* CURRENT leaves requests and answers alone.
LEMMA CurrentKeepsInv ==
  ASSUME IInv, NEW d \in Docs, TargetCurrent(d)
  PROVE  IInv' /\ W!Next
<1> DEFINE w == [wire[d] EXCEPT !.caughtUp = TRUE]
           b == [agg[d] EXCEPT !.current = IF IsActive(d) THEN TRUE ELSE agg[d].current]
<1>1. wire[d] \in Wire /\ agg[d] \in Gathered
      /\ wire \in [Docs -> Wire] /\ agg \in [Docs -> Gathered]
  BY DEF IInv, BackendTyped
<1>2. w \in Wire /\ w.requests = wire[d].requests /\ w.on = wire[d].on
      /\ w.crossed = wire[d].crossed
      /\ wire' = [wire EXCEPT ![d] = w]
  BY <1>1 DEF Wire, TargetCurrent
<1>3. b \in Gathered /\ b.out = agg[d].out /\ agg' = [agg EXCEPT ![d] = b]
  BY <1>1 DEF Gathered, TargetCurrent
<1> HIDE DEF w, b
<1>4. W!IsOpen(conn) /\ Heard /\ UNCHANGED <<db, store, work, muted, reads, breaks>>
  BY DEF TargetCurrent
<1> QED BY <1>2, <1>3, <1>4, ServedKeeps

-----------------------------------------------------------------------------
(* The main queue, and other clients.                                      *)

\* Whatever is not of the client leaves it as it is.
LEMMA ClientStays ==
  ASSUME IInv, UNCHANGED <<conn, store, client, work, muted, reads>>
  PROVE  ConnSound(conn)' /\ ClientTyped' /\ Tables' /\ ReadersSound'
<1>1. ConnSound(conn)'
  BY DEF IInv, ConnSound, WP!Sound, WP!Connection, WP!TimersFollowStream,
     WP!OnlineFollowsStream, WP!IsStarted, WP!IsOpen
<1>2. ClientTyped'
  BY DEF IInv, ClientTyped, OwnListeners, AddedOnce
<1>3. Tables'
  BY DEF IInv, Tables, TableOf
<1>4. ReadersSound'
  <2>1. SUFFICES ASSUME NEW r \in Readers
                 PROVE  ReaderSound(client', work', reads', r)
    BY DEF ReadersSound, ReaderSound, Queued
  <2> QED BY DEF IInv, ReadersSound
<1> QED BY <1>1, <1>2, <1>3, <1>4

\* A write of another client is seen by nobody yet.
LEMMA WriteKeepsInv ==
  ASSUME IInv, NEW d \in Docs, Write(d)
  PROVE  IInv' /\ UNCHANGED conn
<1>1. UNCHANGED <<conn, wire, agg, store, client, work, muted, reads, breaks>>
  BY DEF Write
<1>2. ConnSound(conn)' /\ ClientTyped' /\ Tables' /\ ReadersSound'
  BY <1>1, ClientStays
<1>3. db' \in [Docs -> Versions]
  <2>1. db \in [Docs -> Versions] /\ db[d] < MaxVersion /\ db' = [db EXCEPT ![d] = db[d] + 1]
    BY DEF Write, IInv, BackendTyped
  <2>2. db[d] + 1 \in Versions
    BY <2>1, ReadersAssumption DEF Versions
  <2> QED BY <2>1, <2>2
<1>4. BackendTyped'
  BY <1>1, <1>3 DEF IInv, BackendTyped
<1>5. AnswersOwed'
  BY <1>1 DEF IInv, AnswersOwed, Owed, W!IsOpen
<1> QED BY <1>1, <1>2, <1>4, <1>5 DEF IInv

\* Records of tasks are equal when their fields are.
LEMMA SameTask ==
  ASSUME NEW op, NEW r, NEW op2, NEW r2
  PROVE  [op |-> op, reader |-> r] = [op |-> op2, reader |-> r2] <=> op = op2 /\ r = r2
<1>1. ASSUME [op |-> op, reader |-> r] = [op |-> op2, reader |-> r2]
      PROVE  op = op2 /\ r = r2
  <2>1. [op |-> op, reader |-> r].op = [op |-> op2, reader |-> r2].op
        /\ [op |-> op, reader |-> r].reader = [op |-> op2, reader |-> r2].reader
    BY <1>1
  <2> QED BY <2>1
<1> QED BY <1>1

\* A call queues the reader once, as it was idle.
LEMMA CallKeepsInv ==
  ASSUME IInv, NEW r \in Readers, Call(r)
  PROVE  IInv' /\ UNCHANGED conn
<1> DEFINE task == [op |-> "add", reader |-> r]
<1>1. /\ reads[r].status = "idle" /\ reads' = [reads EXCEPT ![r].status = "waiting"]
      /\ work' = Append(work, task)
      /\ UNCHANGED <<db, conn, wire, agg, store, client, muted, breaks>>
  BY DEF Call
<1>2. task \in Task /\ task.op = "add" /\ task.reader = r
      /\ \A op, q : task = [op |-> op, reader |-> q] <=> op = "add" /\ q = r
  BY SameTask DEF Task
<1> HIDE DEF task
<1>3. work \in Seq(Task) /\ AddedOnce(work) /\ reads \in [Readers -> Read]
  BY DEF IInv, ClientTyped
<1>4. \A q \in Readers : ReaderSound(client, work, reads, q)
  BY DEF IInv, ReadersSound
<1>5. ~Queued(work, "add", r)
  BY <1>1, <1>4 DEF ReaderSound
<1>6. /\ work' \in Seq(Task) /\ AddedOnce(work')
      /\ \A op, q : Queued(work', op, q) <=> Queued(work, op, q) \/ (op = "add" /\ q = r)
  <2>1. /\ Append(work, task) \in Seq(Task)
        /\ \A op, q : Queued(Append(work, task), op, q)
                         <=> Queued(work, op, q) \/ task = [op |-> op, reader |-> q]
        /\ AddedOnce(work) /\ (task.op = "add" => ~Queued(work, "add", task.reader))
             => AddedOnce(Append(work, task))
    BY <1>2, <1>3, QueuedByAppend, Zenon
  <2> QED BY <1>1, <1>2, <1>3, <1>5, <2>1
<1>7. /\ reads' \in [Readers -> Read] /\ reads'[r].status = "waiting"
      /\ \A q \in Readers \ {r} : reads'[q] = reads[q]
  BY <1>1, <1>3 DEF Read
<1>8. ClientTyped'
  BY <1>1, <1>6, <1>7 DEF IInv, ClientTyped, OwnListeners, AddedOnce
<1>9. ReadersSound'
  <2>1. SUFFICES ASSUME NEW q \in Readers
                 PROVE  ReaderSound(client', work', reads', q)
    BY DEF ReadersSound, ReaderSound, Queued
  <2>2. ReaderSound(client, work, reads, q) /\ client' = client
    BY <1>1, <1>4
  <2>3. CASE q = r
    <3>1. ~Failing(client.inbox[r])
      <4>1. client.inbox[r] = <<>>
        BY <1>1, <2>2, <2>3 DEF ReaderSound
      <4>2. Len(client.inbox[r]) = 0
        BY <4>1, EmptySeq
      <4> QED BY <4>2 DEF Failing
    <3> QED BY <1>1, <1>6, <1>7, <2>2, <2>3, <3>1 DEF ReaderSound
  <2>4. CASE q # r
    BY <1>6, <1>7, <2>2, <2>4 DEF ReaderSound
  <2> QED BY <2>3, <2>4
<1>10. BackendTyped' /\ AnswersOwed'
  BY <1>1, BackendStays DEF IInv, W!IsOpen
<1>11. ConnSound(conn)' /\ Tables'
  BY <1>1 DEF IInv, ConnSound, WP!Sound, WP!Connection, WP!TimersFollowStream,
     WP!OnlineFollowsStream, WP!IsStarted, WP!IsOpen, Tables, TableOf
<1> QED BY <1>1, <1>8, <1>9, <1>10, <1>11 DEF IInv

\* The read an event makes: over, or still waiting.
LEMMA GivenReads ==
  ASSUME reads \in [Readers -> Read], NEW r \in Readers, NEW event \in Event
  PROVE  Given(r, event) \in Read /\ Given(r, event).status # "idle"
<1>1. reads[r] \in Read
  OBVIOUS
<1>2. VersionOf(event.content) \in Versions \cup {None}
  BY DEF Event, VersionOf, Content
<1> QED BY <1>1, <1>2 DEF Given, Read

\* A get that is given a snapshot queues its removal, and one given an error
\* has no listener any more.
LEMMA DeliverKeepsInv ==
  ASSUME IInv, NEW r \in Readers, Deliver(r)
  PROVE  IInv' /\ UNCHANGED conn
<1> DEFINE event == Head(client.inbox[r])
           task == [op |-> "remove", reader |-> r]
<1>1. /\ client.inbox[r] # <<>> /\ client' = [client EXCEPT !.inbox[r] = Tail(client.inbox[r])]
      /\ UNCHANGED <<db, conn, wire, agg, store, breaks>>
  BY DEF Deliver
<1>2. \/ r \in muted /\ UNCHANGED <<reads, muted, work>>
      \/ /\ r \notin muted /\ reads' = [reads EXCEPT ![r] = Given(r, event)]
         /\ \/ r \in Gets /\ event.ok /\ muted' = muted \cup {r} /\ work' = Append(work, task)
            \/ ~(r \in Gets /\ event.ok) /\ UNCHANGED <<muted, work>>
  BY DEF Deliver
<1>3. /\ client \in Clients /\ OwnListeners(client) /\ client.online = conn.online
      /\ work \in Seq(Task) /\ AddedOnce(work)
      /\ reads \in [Readers -> Read] /\ muted \in SUBSET Readers
      /\ client.inbox \in [Readers -> Seq(Event)]
  BY DEF IInv, ClientTyped, Clients
<1>4. \A q \in Readers : ReaderSound(client, work, reads, q)
  BY DEF IInv, ReadersSound
<1>5. /\ Tail(client.inbox[r]) \in Seq(Event) /\ event \in Event
      /\ Failing(Tail(client.inbox[r])) => Failing(client.inbox[r])
      /\ ~event.ok => Failing(client.inbox[r])
  BY <1>1, <1>3, FailingByTail
<1>6. Given(r, event) \in Read /\ Given(r, event).status # "idle"
  BY <1>3, <1>5, GivenReads
<1> HIDE DEF event
<1>7. /\ client' \in Clients /\ client'.views = client.views
      /\ client'.online = client.online
      /\ client'.inbox[r] = Tail(client.inbox[r])
      /\ \A q \in Readers \ {r} : client'.inbox[q] = client.inbox[q]
  BY <1>1, <1>3, <1>5 DEF Clients
<1>8. /\ task \in Task /\ task.op = "remove"
      /\ \A op, q : task = [op |-> op, reader |-> q] <=> op = "remove" /\ q = r
  BY SameTask DEF Task
<1> HIDE DEF task
<1>9. /\ work' \in Seq(Task) /\ AddedOnce(work')
      /\ \A q : Queued(work', "add", q) <=> Queued(work, "add", q)
      /\ \A q : Queued(work, "remove", q) => Queued(work', "remove", q)
      /\ work' # work => Queued(work', "remove", r)
  <2>1. /\ Append(work, task) \in Seq(Task)
        /\ \A op, q : Queued(Append(work, task), op, q)
                         <=> Queued(work, op, q) \/ task = [op |-> op, reader |-> q]
        /\ AddedOnce(work) /\ (task.op = "add" => ~Queued(work, "add", task.reader))
             => AddedOnce(Append(work, task))
    BY <1>3, <1>8, QueuedByAppend, Zenon
  <2>2. CASE work' = work
    BY <1>3, <2>2
  <2>3. CASE work' = Append(work, task)
    <3>1. AddedOnce(work')
      BY <1>3, <1>8, <2>1, <2>3
    <3>2. \A op, q : Queued(work', op, q)
                       <=> Queued(work, op, q) \/ (op = "remove" /\ q = r)
      BY <1>8, <2>1, <2>3
    <3> QED BY <2>1, <2>3, <3>1, <3>2
  <2> QED BY <1>2, <2>2, <2>3
<1>10. /\ reads' \in [Readers -> Read] /\ muted' \in SUBSET Readers
       /\ \A q \in Readers \ {r} : reads'[q] = reads[q]
       /\ reads'[r] = reads[r] \/ reads'[r] = Given(r, event)
  BY <1>2, <1>3, <1>6
<1>11. ClientTyped'
  BY <1>1, <1>3, <1>7, <1>9, <1>10 DEF ClientTyped, OwnListeners, AddedOnce
<1>12. ReadersSound'
  <2>1. SUFFICES ASSUME NEW q \in Readers
                 PROVE  ReaderSound(client', work', reads', q)
    BY DEF ReadersSound, ReaderSound, Queued
  <2>2. ReaderSound(client, work, reads, q) /\ client'.views = client.views
    BY <1>4, <1>7
  <2>3. CASE q # r
    BY <1>7, <1>9, <1>10, <2>2, <2>3 DEF ReaderSound
  <2>4. CASE q = r
    <3>1. /\ reads[r].status # "idle" /\ ~Queued(work, "add", r)
          /\ Failing(client.inbox[r]) => r \notin client.views[DocOf[r]].listeners
      BY <1>1, <2>2, <2>4 DEF ReaderSound
    <3>2. reads'[r].status # "idle" /\ ~Queued(work', "add", r)
      BY <1>6, <1>9, <1>10, <3>1
    <3>3. Failing(client'.inbox[r]) => r \notin client'.views[DocOf[r]].listeners
      BY <1>5, <1>7, <3>1
    <3>4. r \in Gets /\ reads'[r].status = "done"
            => Queued(work', "remove", r) \/ r \notin client'.views[DocOf[r]].listeners
      <4>1. CASE r \in muted
        BY <1>2, <1>9, <2>2, <2>4, <4>1 DEF ReaderSound
      <4>2. CASE r \notin muted /\ r \in Gets /\ event.ok
        <5>1. work' = Append(work, task)
          BY <1>2, <4>2
        <5> QED BY <1>3, <1>8, <5>1, QueuedByAppend
      <4>3. CASE ~event.ok
        BY <1>5, <2>2, <3>1, <4>3
      <4> QED BY <4>1, <4>2, <4>3
    <3> QED BY <2>4, <3>2, <3>3, <3>4 DEF ReaderSound
  <2> QED BY <2>3, <2>4
<1>13. BackendTyped' /\ AnswersOwed'
  BY <1>1, BackendStays DEF IInv, W!IsOpen
<1>14. ConnSound(conn)' /\ Tables'
  BY <1>1, <1>7 DEF IInv, ConnSound, WP!Sound, WP!Connection, WP!TimersFollowStream,
     WP!OnlineFollowsStream, WP!IsStarted, WP!IsOpen, Tables, TableOf
<1> QED BY <1>1, <1>11, <1>12, <1>13, <1>14 DEF IInv

-----------------------------------------------------------------------------
(* Listeners come and go.                                                  *)

\* Views that differ from those of the client by one more listener.
LEMMA ListenerAdded ==
  ASSUME IInv, NEW r \in Readers, work # <<>>, Head(work) = [op |-> "add", reader |-> r],
         NEW k \in Clients, k.inbox = client.inbox,
         k.views[DocOf[r]].listeners = client.views[DocOf[r]].listeners \cup {r},
         \A d \in Docs \ {DocOf[r]} : k.views[d].listeners = client.views[d].listeners
  PROVE  /\ OwnListeners(k) /\ Tail(work) \in Seq(Task) /\ AddedOnce(Tail(work))
         /\ \A q \in Readers : ReaderSound(k, Tail(work), reads, q)
<1>1. work \in Seq(Task) /\ AddedOnce(work) /\ OwnListeners(client)
  BY DEF IInv, ClientTyped
<1>2. OwnListeners(k)
  BY <1>1 DEF OwnListeners
<1>3. /\ Tail(work) \in Seq(Task) /\ AddedOnce(Tail(work))
      /\ \A op, q : Queued(work, op, q)
                      <=> Queued(Tail(work), op, q) \/ Head(work) = [op |-> op, reader |-> q]
      /\ Head(work).op = "add" => ~Queued(Tail(work), "add", Head(work).reader)
  BY <1>1, QueuedByTail, Zenon
<1>4. /\ \A op, q : Queued(work, op, q)
                      <=> Queued(Tail(work), op, q) \/ (op = "add" /\ q = r)
      /\ ~Queued(Tail(work), "add", r)
  BY <1>3, SameTask
<1>5. ASSUME NEW q \in Readers
      PROVE  ReaderSound(k, Tail(work), reads, q)
  <2>1. ReaderSound(client, work, reads, q) /\ DocOf[q] \in Docs
    BY ReadersAssumption DEF IInv, ReadersSound
  <2>2. CASE q = r
    <3>1. reads[r].status = "waiting" /\ client.inbox[r] = <<>>
      BY <1>4, <2>1, <2>2 DEF ReaderSound
    <3>2. Len(client.inbox[r]) = 0
      BY <3>1, EmptySeq
    <3>3. ~Failing(k.inbox[r])
      BY <3>2 DEF Failing
    <3> QED BY <1>4, <2>2, <3>1, <3>3 DEF ReaderSound
  <2>3. CASE q # r
    <3>1. q \in k.views[DocOf[q]].listeners <=> q \in client.views[DocOf[q]].listeners
      BY <2>1, <2>3
    <3> QED BY <1>4, <2>1, <2>3, <3>1 DEF ReaderSound
  <2> QED BY <2>2, <2>3
<1> QED BY <1>2, <1>3, <1>5

\* ... and by one less.
LEMMA ListenerRemoved ==
  ASSUME IInv, NEW r \in Readers, work # <<>>, Head(work) = [op |-> "remove", reader |-> r],
         NEW k \in Clients, k.inbox = client.inbox,
         k.views[DocOf[r]].listeners = client.views[DocOf[r]].listeners \ {r},
         \A d \in Docs \ {DocOf[r]} : k.views[d].listeners = client.views[d].listeners
  PROVE  /\ OwnListeners(k) /\ Tail(work) \in Seq(Task) /\ AddedOnce(Tail(work))
         /\ \A q \in Readers : ReaderSound(k, Tail(work), reads, q)
<1>1. work \in Seq(Task) /\ AddedOnce(work) /\ OwnListeners(client)
  BY DEF IInv, ClientTyped
<1>2. OwnListeners(k)
  BY <1>1 DEF OwnListeners
<1>3. /\ Tail(work) \in Seq(Task) /\ AddedOnce(Tail(work))
      /\ \A op, q : Queued(work, op, q)
                      <=> Queued(Tail(work), op, q) \/ Head(work) = [op |-> op, reader |-> q]
  BY <1>1, QueuedByTail, Zenon
<1>4. \A op, q : Queued(work, op, q)
                   <=> Queued(Tail(work), op, q) \/ (op = "remove" /\ q = r)
  BY <1>3, SameTask
<1>5. ASSUME NEW q \in Readers
      PROVE  ReaderSound(k, Tail(work), reads, q)
  <2>1. ReaderSound(client, work, reads, q) /\ DocOf[q] \in Docs
    BY ReadersAssumption DEF IInv, ReadersSound
  <2>2. CASE q = r
    <3>1. r \notin k.views[DocOf[r]].listeners
      OBVIOUS
    <3> QED BY <1>4, <2>1, <2>2, <3>1 DEF ReaderSound
  <2>3. CASE q # r
    <3>1. q \in k.views[DocOf[q]].listeners <=> q \in client.views[DocOf[q]].listeners
      BY <2>1, <2>3
    <3> QED BY <1>4, <2>1, <2>3, <3>1 DEF ReaderSound
  <2> QED BY <2>2, <2>3
<1> QED BY <1>2, <1>3, <1>5

\* A request is sent over an open stream, or none is.
LEMMA SendKeeps ==
  ASSUME BackendTyped, AnswersOwed, NEW d \in Docs, NEW request \in Request,
         SendRequest(d, request), UNCHANGED <<db, store, breaks>>,
         W!IsOpen(conn') <=> W!IsOpen(conn),
         d \in conn'.targets <=> request.op = "watch",
         \A e \in Docs \ {d} : e \in conn'.targets <=> e \in conn.targets
  PROVE  BackendTyped' /\ AnswersOwed'
<1>1. CASE W!IsOpen(conn)
  <2> DEFINE v == [wire[d] EXCEPT !.requests = Append(wire[d].requests, request)]
             b == [agg[d] EXCEPT !.out = agg[d].out + 1]
  <2>1. wire[d] \in Wire /\ agg[d] \in Gathered
        /\ wire \in [Docs -> Wire] /\ agg \in [Docs -> Gathered]
    BY DEF BackendTyped
  <2>2. wire' = [wire EXCEPT ![d] = v] /\ agg' = [agg EXCEPT ![d] = b]
    BY <1>1, <2>1 DEF SendRequest, Wire, Gathered
  <2>3. ~wire[d].crossed => agg[d].out = Len(wire[d].requests)
    BY <1>1 DEF AnswersOwed, Owed
  <2>4. v \in Wire /\ b \in Gathered /\ Owed(v, b, request.op = "watch")
    BY <2>1, <2>3, OwedBySend
  <2> HIDE DEF v, b
  <2>5. Owed(v, b, d \in conn'.targets)
    BY <2>4 DEF Owed
  <2> QED BY <1>1, <2>2, <2>4, <2>5, OneTarget
<1>2. CASE ~W!IsOpen(conn)
  <2>1. UNCHANGED <<wire, agg>>
    BY <1>2 DEF SendRequest
  <2>2. BackendTyped'
    BY <2>1 DEF BackendTyped
  <2>3. AnswersOwed'
    BY <1>2, <2>1 DEF AnswersOwed, W!IsOpen
  <2> QED BY <2>2, <2>3
<1> QED BY <1>1, <1>2

\* A listener joins the view, or opens view, target and watch together.
LEMMA AddKeepsInv ==
  ASSUME IInv, NEW r \in Readers, AddQueryListener(r)
  PROVE  IInv' /\ [W!Next]_conn
<1> DEFINE d == DocOf[r]
           view == client.views[d]
           joined == [view EXCEPT !.listeners = view.listeners \cup {r}]
           opened == [joined EXCEPT !.on = TRUE, !.content = store[d].cache]
           added == [client EXCEPT !.views = [client.views EXCEPT ![d] = joined]]
           viewed == [client EXCEPT !.views = [client.views EXCEPT ![d] = opened]]
<1>1. /\ work # <<>> /\ Head(work) = [op |-> "add", reader |-> r] /\ work' = Tail(work)
      /\ UNCHANGED <<db, store, muted, reads, breaks>>
  BY DEF AddQueryListener
<1>2. /\ d \in Docs /\ client \in Clients /\ client.views \in [Docs -> View]
      /\ view \in View /\ store[d] \in Stored /\ client.online = conn.online
  BY ReadersAssumption DEF IInv, ClientTyped, BackendTyped, Clients
<1>3. joined \in View /\ joined.listeners = view.listeners \cup {r}
      /\ joined.on = view.on /\ joined.content = view.content
  BY <1>2 DEF View
<1>4. opened \in View /\ opened.listeners = view.listeners \cup {r}
      /\ opened.on = TRUE /\ opened.content = store[d].cache
  BY <1>2 DEF View, Stored
<1> HIDE DEF joined, opened
<1>5. /\ added \in Clients /\ added.inbox = client.inbox /\ added.views[d] = joined
      /\ added.online = client.online
      /\ \A e \in Docs \ {d} : added.views[e] = client.views[e]
  BY <1>2, <1>3 DEF Clients
<1>6. /\ viewed \in Clients /\ viewed.inbox = client.inbox /\ viewed.views[d] = opened
      /\ viewed.online = client.online
      /\ \A e \in Docs \ {d} : viewed.views[e] = client.views[e]
  BY <1>2, <1>4 DEF Clients
<1>7. /\ [client EXCEPT !.views[d].listeners = client.views[d].listeners \cup {r}] = added
      /\ [added EXCEPT !.views[d].on = TRUE, !.views[d].content = store[d].cache] = viewed
  <2>1. [client EXCEPT !.views[d].listeners = client.views[d].listeners \cup {r}] = added
    BY DEF joined
  <2> DEFINE seen == [joined EXCEPT !.on = TRUE]
             seeing == [added EXCEPT !.views = [added.views EXCEPT ![d] = seen]]
  <2>2. [added EXCEPT !.views[d].on = TRUE] = seeing
    BY <1>5
  <2>3. seeing.views[d] = seen
    BY <1>2, <1>5 DEF Clients
  <2>4. [seeing EXCEPT !.views[d].content = store[d].cache] = viewed
    BY <1>2, <1>3, <1>5 DEF Clients, opened
  <2>5. [added EXCEPT !.views[d].on = TRUE, !.views[d].content = store[d].cache]
          = [seeing EXCEPT !.views[d].content = store[d].cache]
    BY <2>2
  <2> QED BY <2>1, <2>4, <2>5
<1> HIDE DEF added, viewed
<1>8. TableOf(view, d \in conn.targets, store[d].cache)
      /\ \A e \in Docs : TableOf(client.views[e], e \in conn.targets, store[e].cache)
  BY <1>2 DEF IInv, Tables
<1>9. CASE view.on
  <2>1. /\ client' = IF ShouldRaiseInitialEvent(added, r) THEN Raise(added, {r}) ELSE added
        /\ UNCHANGED <<conn, wire, agg>>
    BY <1>7, <1>9 DEF AddQueryListener
  <2>2. /\ OwnListeners(added) /\ Tail(work) \in Seq(Task) /\ AddedOnce(Tail(work))
        /\ \A q \in Readers : ReaderSound(added, Tail(work), reads, q)
    BY <1>1, <1>3, <1>5, ListenerAdded
  <2>3. Informed(added, client') /\ client'.online = added.online
    <3>1. CASE ShouldRaiseInitialEvent(added, r)
      <4> DEFINE n == Raise(added, {r})
      <4>1. client' = n
        BY <2>1, <3>1
      <4>2. {r} \in SUBSET Readers
        OBVIOUS
      <4>3. /\ n \in Clients /\ n.views = added.views /\ n.online = added.online
            /\ \A q \in Readers \ {r} : n.inbox[q] = added.inbox[q]
            /\ n.inbox[r] = Append(added.inbox[r], SnapshotOf(added, r, ~added.views[d].synced))
        BY <1>5, <4>2, RaiseGives
      <4> HIDE DEF n
      <4>4. r \in added.views[DocOf[r]].listeners
        BY <1>3, <1>5
      <4>5. \E cached \in BOOLEAN :
              n.inbox[r] = Append(added.inbox[r], SnapshotOf(added, r, cached))
        BY <4>3
      <4>6. Informed(added, n)
        BY <4>3, <4>4, <4>5 DEF Informed
      <4> QED BY <4>1, <4>3, <4>6
    <3>2. CASE ~ShouldRaiseInitialEvent(added, r)
      BY <1>5, <2>1, <3>2 DEF Informed
    <3> QED BY <3>1, <3>2
  <2>4. client' \in Clients /\ OwnListeners(client')
    BY <1>5, <2>2, <2>3, InformedKeeps
  <2>5. ClientTyped'
    BY <1>1, <1>2, <1>5, <2>1, <2>2, <2>3, <2>4
       DEF IInv, ClientTyped, OwnListeners, AddedOnce
  <2>6. Tables'
    <3>1. SUFFICES ASSUME NEW e \in Docs
                   PROVE  TableOf(client'.views[e], e \in conn'.targets, store'[e].cache)
      BY DEF Tables, TableOf
    <3>2. TableOf(added.views[e], e \in conn.targets, store[e].cache)
      <4>1. CASE e = d
        BY <1>3, <1>5, <1>8, <1>9, <4>1 DEF TableOf
      <4>2. CASE e # d
        BY <1>5, <1>8, <4>2
      <4> QED BY <4>1, <4>2
    <3>3. TableOf(client'.views[e], e \in conn.targets, store[e].cache)
      BY <1>5, <2>3, <3>2, InformedKeeps
    <3> QED BY <1>1, <2>1, <3>3
  <2>7. ReadersSound'
    <3>1. SUFFICES ASSUME NEW q \in Readers
                   PROVE  ReaderSound(client', work', reads', q)
      BY DEF ReadersSound, ReaderSound, Queued
    <3>2. ReaderSound(added, Tail(work), reads, q)
      BY <2>2
    <3>3. ReaderSound(client', Tail(work), reads, q)
      BY <1>5, <2>3, <3>2, InformedKeeps
    <3> QED BY <1>1, <3>3
  <2>8. BackendTyped' /\ AnswersOwed'
    BY <1>1, <2>1, BackendStays DEF IInv, W!IsOpen
  <2>9. ConnSound(conn)'
    BY <2>1 DEF IInv, ConnSound, WP!Sound, WP!Connection, WP!TimersFollowStream,
       WP!OnlineFollowsStream, WP!IsStarted, WP!IsOpen
  <2> QED BY <2>1, <2>5, <2>6, <2>7, <2>8, <2>9 DEF IInv
<1>10. CASE ~view.on
  <2> DEFINE c == W!ListenTo(conn, d)
             known == IF Exists(store[d].cache) THEN {d} ELSE {}
             given == OnViewSnapshots(viewed, known, {d})
  <2>1. Connect(given, c) /\ SendRequest(d, Watch(d))
    BY <1>7, <1>10 DEF AddQueryListener
  <2>2. W!Next
    BY <1>2, <2>1 DEF Connect, W!Next, W!Listen
  <2>3. ConnSound(c) /\ c.targets = conn.targets \cup {d} /\ (W!IsOpen(c) <=> W!IsOpen(conn))
    BY <1>2, ListenSound DEF IInv
  <2> HIDE DEF c
  <2>4. /\ OwnListeners(viewed) /\ Tail(work) \in Seq(Task) /\ AddedOnce(Tail(work))
        /\ \A q \in Readers : ReaderSound(viewed, Tail(work), reads, q)
    BY <1>1, <1>4, <1>6, ListenerAdded
  <2>5. known \in SUBSET Docs /\ {d} \in SUBSET Docs
    BY <1>2
  <2> HIDE DEF known
  <2>6. Informed(viewed, given) /\ given \in Clients /\ OwnListeners(given)
    BY <1>6, <2>4, <2>5, SnapshotsHeard, InformedKeeps
  <2> HIDE DEF given
  <2>7. /\ conn' = c /\ Informed(given, client') /\ client'.online = conn'.online
        /\ client' \in Clients /\ OwnListeners(client')
    BY <2>1, <2>3, <2>6, ConnectInforms
  <2>8. ClientTyped'
    BY <1>1, <2>4, <2>7 DEF IInv, ClientTyped, OwnListeners, AddedOnce
  <2>9. Tables'
    <3>1. SUFFICES ASSUME NEW e \in Docs
                   PROVE  TableOf(client'.views[e], e \in conn'.targets, store'[e].cache)
      BY DEF Tables, TableOf
    <3>2. TableOf(viewed.views[e], e \in c.targets, store[e].cache)
      <4>1. CASE e = d
        BY <1>4, <1>6, <2>3, <4>1 DEF TableOf
      <4>2. CASE e # d
        BY <1>6, <1>8, <2>3, <4>2 DEF TableOf
      <4> QED BY <4>1, <4>2
    <3>3. TableOf(given.views[e], e \in c.targets, store[e].cache)
      BY <1>6, <2>6, <3>2, InformedKeeps
    <3>4. TableOf(client'.views[e], e \in c.targets, store[e].cache)
      BY <2>6, <2>7, <3>3, InformedKeeps
    <3> QED BY <1>1, <2>7, <3>4
  <2>10. ReadersSound'
    <3>1. SUFFICES ASSUME NEW q \in Readers
                   PROVE  ReaderSound(client', work', reads', q)
      BY DEF ReadersSound, ReaderSound, Queued
    <3>2. ReaderSound(viewed, Tail(work), reads, q)
      BY <2>4
    <3>3. ReaderSound(given, Tail(work), reads, q)
      BY <1>6, <2>6, <3>2, InformedKeeps
    <3>4. ReaderSound(client', Tail(work), reads, q)
      BY <2>6, <2>7, <3>3, InformedKeeps
    <3> QED BY <1>1, <3>4
  <2>11. BackendTyped' /\ AnswersOwed'
    <3>1. Watch(d) \in Request /\ Watch(d).op = "watch"
      BY <1>2 DEF Watch, Request, Stored
    <3>2. /\ d \in conn'.targets <=> Watch(d).op = "watch"
          /\ \A e \in Docs \ {d} : e \in conn'.targets <=> e \in conn.targets
          /\ W!IsOpen(conn') <=> W!IsOpen(conn)
      BY <2>3, <2>7, <3>1
    <3> QED BY <1>1, <1>2, <2>1, <3>1, <3>2, SendKeeps DEF IInv
  <2>12. ConnSound(conn)'
    BY <2>3, <2>7 DEF ConnSound, WP!Sound, WP!Connection, WP!TimersFollowStream,
       WP!OnlineFollowsStream, WP!IsStarted, WP!IsOpen
  <2> QED BY <2>2, <2>8, <2>9, <2>10, <2>11, <2>12 DEF IInv
<1> QED BY <1>9, <1>10

\* A listener leaves the view, or closes view, target and watch together.
LEMMA RemoveKeepsInv ==
  ASSUME IInv, NEW r \in Readers, RemoveQueryListener(r)
  PROVE  IInv' /\ [W!Next]_conn
<1> DEFINE d == DocOf[r]
           view == client.views[d]
           left == view.listeners \ {r}
           parted == [view EXCEPT !.listeners = left]
           stayed == [client EXCEPT !.views = [client.views EXCEPT ![d] = parted]]
           closed == [client EXCEPT !.views = [client.views EXCEPT ![d] = NoView]]
<1>1. /\ work # <<>> /\ Head(work) = [op |-> "remove", reader |-> r] /\ work' = Tail(work)
      /\ UNCHANGED <<db, store, muted, reads, breaks>>
  BY DEF RemoveQueryListener
<1>2. /\ d \in Docs /\ client \in Clients /\ client.views \in [Docs -> View]
      /\ view \in View /\ client.online = conn.online
  BY ReadersAssumption DEF IInv, ClientTyped, Clients
<1>3. parted \in View /\ parted.listeners = left
      /\ parted.on = view.on /\ parted.content = view.content
  BY <1>2 DEF View
<1>4. NoView \in View /\ NoView.listeners = {} /\ NoView.on = FALSE
  BY DEF NoView, View
<1> HIDE DEF parted
<1>5. /\ stayed \in Clients /\ stayed.inbox = client.inbox /\ stayed.views[d] = parted
      /\ stayed.online = client.online
      /\ \A e \in Docs \ {d} : stayed.views[e] = client.views[e]
  BY <1>2, <1>3 DEF Clients
<1>6. /\ closed \in Clients /\ closed.inbox = client.inbox /\ closed.views[d] = NoView
      /\ \A e \in Docs \ {d} : closed.views[e] = client.views[e]
  BY <1>2, <1>4 DEF Clients
<1>7. [client EXCEPT !.views[d].listeners = left] = stayed
      /\ [client EXCEPT !.views[d] = NoView] = closed
  BY DEF parted
<1> HIDE DEF stayed, closed
<1>8. \A e \in Docs : TableOf(client.views[e], e \in conn.targets, store[e].cache)
  BY DEF IInv, Tables
<1>9. CASE view.on /\ left = {}
  <2> DEFINE c == W!StopListeningTo(conn, d)
  <2>1. Connect(closed, c) /\ SendRequest(d, Unwatch)
    BY <1>7, <1>9 DEF RemoveQueryListener
  <2>2. d \in conn.targets
    BY <1>2, <1>8, <1>9 DEF TableOf
  <2>3. W!Next
    BY <1>2, <2>1, <2>2 DEF Connect, W!Next, W!StopListening
  <2>4. ConnSound(c) /\ c.targets = conn.targets \ {d} /\ (W!IsOpen(c) <=> W!IsOpen(conn))
    BY <2>2, StopListeningSound DEF IInv
  <2> HIDE DEF c
  <2>5. /\ OwnListeners(closed) /\ Tail(work) \in Seq(Task) /\ AddedOnce(Tail(work))
        /\ \A q \in Readers : ReaderSound(closed, Tail(work), reads, q)
    BY <1>1, <1>4, <1>6, <1>9, ListenerRemoved
  <2>6. /\ conn' = c /\ Informed(closed, client') /\ client'.online = conn'.online
        /\ client' \in Clients /\ OwnListeners(client')
    BY <1>6, <2>1, <2>4, <2>5, ConnectInforms
  <2>7. ClientTyped'
    BY <1>1, <2>5, <2>6 DEF IInv, ClientTyped, OwnListeners, AddedOnce
  <2>8. Tables'
    <3>1. SUFFICES ASSUME NEW e \in Docs
                   PROVE  TableOf(client'.views[e], e \in conn'.targets, store'[e].cache)
      BY DEF Tables, TableOf
    <3>2. TableOf(closed.views[e], e \in c.targets, store[e].cache)
      <4>1. CASE e = d
        BY <1>4, <1>6, <2>4, <4>1 DEF TableOf
      <4>2. CASE e # d
        BY <1>6, <1>8, <2>4, <4>2 DEF TableOf
      <4> QED BY <4>1, <4>2
    <3>3. TableOf(client'.views[e], e \in c.targets, store[e].cache)
      BY <1>6, <2>6, <3>2, InformedKeeps
    <3> QED BY <1>1, <2>6, <3>3
  <2>9. ReadersSound'
    <3>1. SUFFICES ASSUME NEW q \in Readers
                   PROVE  ReaderSound(client', work', reads', q)
      BY DEF ReadersSound, ReaderSound, Queued
    <3>2. ReaderSound(closed, Tail(work), reads, q)
      BY <2>5
    <3>3. ReaderSound(client', Tail(work), reads, q)
      BY <1>6, <2>6, <3>2, InformedKeeps
    <3> QED BY <1>1, <3>3
  <2>10. BackendTyped' /\ AnswersOwed'
    <3>1. Unwatch \in Request /\ Unwatch.op = "unwatch"
      BY DEF Unwatch, Request
    <3>2. /\ d \in conn'.targets <=> Unwatch.op = "watch"
          /\ \A e \in Docs \ {d} : e \in conn'.targets <=> e \in conn.targets
          /\ W!IsOpen(conn') <=> W!IsOpen(conn)
      BY <2>4, <2>6, <3>1
    <3> QED BY <1>1, <1>2, <2>1, <3>1, <3>2, SendKeeps DEF IInv
  <2>11. ConnSound(conn)'
    BY <2>4, <2>6 DEF ConnSound, WP!Sound, WP!Connection, WP!TimersFollowStream,
       WP!OnlineFollowsStream, WP!IsStarted, WP!IsOpen
  <2> QED BY <2>3, <2>7, <2>8, <2>9, <2>10, <2>11 DEF IInv
<1>10. CASE ~(view.on /\ left = {})
  <2>1. client' = stayed /\ UNCHANGED <<conn, wire, agg>>
    BY <1>7, <1>10 DEF RemoveQueryListener
  <2>2. /\ OwnListeners(stayed) /\ Tail(work) \in Seq(Task) /\ AddedOnce(Tail(work))
        /\ \A q \in Readers : ReaderSound(stayed, Tail(work), reads, q)
    BY <1>1, <1>3, <1>5, ListenerRemoved
  <2>3. ClientTyped'
    BY <1>1, <1>2, <1>5, <2>1, <2>2 DEF IInv, ClientTyped, OwnListeners, AddedOnce
  <2>4. Tables'
    <3>1. SUFFICES ASSUME NEW e \in Docs
                   PROVE  TableOf(client'.views[e], e \in conn'.targets, store'[e].cache)
      BY DEF Tables, TableOf
    <3>2. CASE e = d
      BY <1>1, <1>3, <1>5, <1>8, <1>10, <2>1, <3>2 DEF TableOf
    <3>3. CASE e # d
      BY <1>1, <1>5, <1>8, <2>1, <3>3 DEF TableOf
    <3> QED BY <3>2, <3>3
  <2>5. ReadersSound'
    <3>1. SUFFICES ASSUME NEW q \in Readers
                   PROVE  ReaderSound(client', work', reads', q)
      BY DEF ReadersSound, ReaderSound, Queued
    <3> QED BY <1>1, <2>1, <2>2
  <2>6. BackendTyped' /\ AnswersOwed'
    BY <1>1, <2>1, BackendStays DEF IInv, W!IsOpen
  <2>7. ConnSound(conn)'
    BY <2>1 DEF IInv, ConnSound, WP!Sound, WP!Connection, WP!TimersFollowStream,
       WP!OnlineFollowsStream, WP!IsStarted, WP!IsOpen
  <2> QED BY <2>1, <2>3, <2>4, <2>5, <2>6, <2>7 DEF IInv
<1> QED BY <1>9, <1>10

\* What is left to answer after a refusal.
LEMMA LeftTyped ==
  ASSUME NEW d \in Docs, wire[d] \in Wire, NEW left \in LeftBy(d)
  PROVE  left \in Seq(Request)
<1> DEFINE q == wire[d].requests
           kept == {p \in {q} : wire[d].on} \cup {Tail(p) : p \in {r \in {q} : Answers(d, "watch")}}
<1>1. q \in Seq(Request) /\ (q # <<>> => Tail(q) \in Seq(Request))
  BY HeadTailProperties DEF Wire
<1>2. ASSUME NEW p \in kept
      PROVE  p \in Seq(Request)
  BY <1>1, <1>2 DEF Answers
<1>3. left \in kept \/ \E p \in kept : p # <<>> /\ left = Tail(p)
  BY DEF LeftBy
<1> HIDE DEF kept
<1>4. CASE left \in kept
  BY <1>2, <1>4
<1>5. CASE \E p \in kept : p # <<>> /\ left = Tail(p)
  <2>1. PICK p \in kept : p # <<>> /\ left = Tail(p)
    BY <1>5
  <2> QED BY <1>2, <2>1, HeadTailProperties
<1> QED BY <1>3, <1>4, <1>5

\* A refused target loses its view, its listeners and its target at once.
LEMMA RejectKeepsInv ==
  ASSUME IInv, W!IsOpen(conn), NEW d \in Docs, HandleRejectedListen(d),
         NEW v \in Wire, wire' = [wire EXCEPT ![d] = v],
         v.requests = <<>> \/ v.crossed,
         UNCHANGED <<db, store, work, muted, reads, breaks>>
  PROVE  IInv' /\ W!Next
<1> DEFINE c == W!OnTargetError(conn, d)
           heard == HandleOnlineStateChange(client, c.online)
           failing == [content |-> None, cached |-> FALSE, ok |-> FALSE]
           told == client.views[d].listeners
           inbox == [r \in Readers |-> IF r \in told THEN Append(heard.inbox[r], failing)
                                       ELSE heard.inbox[r]]
           views == [heard.views EXCEPT ![d] = NoView]
           n == [heard EXCEPT !.views = views, !.inbox = inbox]
<1>1. /\ W!IsOpen(conn) /\ conn' = c
      /\ agg' = [agg EXCEPT ![d] = [NoTarget EXCEPT !.update = agg[d].update]]
      /\ UNCHANGED <<db, store, work, muted, reads, breaks>>
  BY DEF HandleRejectedListen
<1>2. client' = n
  BY DEF HandleRejectedListen
<1>3. W!Next
  BY <1>1 DEF W!Next, W!TargetFails
<1>4. ConnSound(c) /\ c.targets = conn.targets \ {d} /\ W!IsOpen(c)
  BY <1>1, TargetErrorSound DEF IInv
<1>5. client \in Clients /\ OwnListeners(client) /\ client.views[d] \in View
  BY DEF IInv, ClientTyped, Clients
<1>6. c.online \in W!OnlineStates
  BY <1>4 DEF ConnSound, WP!Sound, WP!Connection, WP!OnlineStates, W!OnlineStates
<1> HIDE DEF c
<1>7. Informed(client, heard) /\ heard.online = c.online
  BY <1>5, <1>6, OnlineStateHeard
<1> HIDE DEF heard
<1>8. /\ heard \in Clients /\ OwnListeners(heard)
      /\ \A r \in Readers : ReaderSound(heard, work, reads, r)
      /\ \A e \in Docs : TableOf(heard.views[e], e \in conn.targets, store[e].cache)
  BY <1>5, <1>7, InformedKeeps DEF IInv, ReadersSound, Tables
<1>9. \A r \in told : r \in Readers /\ DocOf[r] = d /\ r \in heard.views[d].listeners
  BY <1>5, <1>7 DEF OwnListeners, View, Informed
<1>10. failing \in Event /\ failing.ok = FALSE
  BY DEF Event
<1> HIDE DEF failing
<1>11. inbox \in [Readers -> Seq(Event)]
  <2>1. ASSUME NEW r \in Readers
        PROVE  heard.inbox[r] \in Seq(Event) /\ Append(heard.inbox[r], failing) \in Seq(Event)
    BY <1>8, <1>10, AppendProperties DEF Clients
  <2> QED BY <2>1
<1>12. views \in [Docs -> View] /\ views[d] = NoView
       /\ \A e \in Docs \ {d} : views[e] = heard.views[e]
  BY <1>8 DEF Clients, NoView, View
<1>13. NoView.on = FALSE /\ NoView.listeners = {}
  BY DEF NoView
<1>14. \A r \in Readers : inbox[r] = IF r \in told THEN Append(heard.inbox[r], failing)
                                     ELSE heard.inbox[r]
  OBVIOUS
<1> HIDE DEF inbox, views
<1>15. n \in Clients /\ n.views = views /\ n.inbox = inbox /\ n.online = heard.online
  BY <1>8, <1>11, <1>12 DEF Clients
<1> HIDE DEF n
<1>16. ClientTyped'
  <2>1. OwnListeners(n)
    BY <1>8, <1>12, <1>13, <1>15 DEF OwnListeners
  <2> QED BY <1>1, <1>2, <1>7, <1>15, <2>1 DEF IInv, ClientTyped, OwnListeners, AddedOnce
<1>17. Tables'
  <2>1. SUFFICES ASSUME NEW e \in Docs
                 PROVE  TableOf(client'.views[e], e \in conn'.targets, store'[e].cache)
    BY DEF Tables, TableOf
  <2>2. CASE e = d
    BY <1>1, <1>2, <1>4, <1>12, <1>13, <1>15, <2>2 DEF TableOf
  <2>3. CASE e # d
    BY <1>1, <1>2, <1>4, <1>8, <1>12, <1>15, <2>3 DEF TableOf
  <2> QED BY <2>2, <2>3
<1>18. ReadersSound'
  <2>1. SUFFICES ASSUME NEW r \in Readers
                 PROVE  ReaderSound(n, work, reads, r)
    BY <1>1, <1>2 DEF ReadersSound, ReaderSound, Queued
  <2>2. ReaderSound(heard, work, reads, r) /\ DocOf[r] \in Docs
    BY <1>8, ReadersAssumption
  <2>3. r \in n.views[DocOf[r]].listeners => r \in heard.views[DocOf[r]].listeners
    BY <1>12, <1>13, <1>15, <2>2
  <2>4. CASE r \in told
    <3>1. r \in heard.views[DocOf[r]].listeners /\ r \notin n.views[DocOf[r]].listeners
      BY <1>9, <1>12, <1>13, <1>15, <2>4
    <3> QED BY <2>2, <3>1 DEF ReaderSound
  <2>5. CASE r \notin told
    <3>1. n.inbox[r] = heard.inbox[r]
      BY <1>14, <1>15, <2>5
    <3> QED BY <2>2, <2>3, <3>1 DEF ReaderSound
  <2> QED BY <2>4, <2>5
<1>19. BackendTyped' /\ AnswersOwed'
  <2> DEFINE b == [NoTarget EXCEPT !.update = agg[d].update]
  <2>1. agg[d] \in Gathered
    BY DEF IInv, BackendTyped
  <2>2. b \in Gathered /\ b.out = 0
    <3>1. 0 \in Int
      OBVIOUS
    <3> QED BY <2>1, <3>1 DEF NoTarget, Gathered
  <2>3. agg' = [agg EXCEPT ![d] = b]
    BY <1>1
  <2> HIDE DEF b
  <2>4. d \notin conn'.targets
    BY <1>1, <1>4
  <2>5. Owed(v, b, d \in conn'.targets)
    BY <2>2, <2>4, EmptySeq DEF Owed
  <2>6. W!IsOpen(conn') /\ \A e \in Docs \ {d} : e \in conn'.targets <=> e \in conn.targets
    BY <1>1, <1>4
  <2> QED BY <1>1, <2>2, <2>3, <2>5, <2>6, OneTarget DEF IInv
<1>20. ConnSound(conn)'
  BY <1>1, <1>4 DEF ConnSound, WP!Sound, WP!Connection, WP!TimersFollowStream,
     WP!OnlineFollowsStream, WP!IsStarted, WP!IsOpen
<1> QED BY <1>3, <1>16, <1>17, <1>18, <1>19, <1>20 DEF IInv

\* A refusal ends the target it is of; of a target that was withdrawn it is a
\* message like another, and the answers owed are not counted any more.
LEMMA FailsKeepsInv ==
  ASSUME IInv, NEW d \in Docs, TargetFails(d)
  PROVE  IInv' /\ W!Next
<1>1. BackendTyped /\ AnswersOwed /\ wire[d] \in Wire /\ agg[d] \in Gathered
      /\ agg \in [Docs -> Gathered]
  BY DEF IInv, BackendTyped
<1>2. /\ W!IsOpen(conn) /\ UNCHANGED <<db, store, work, muted, reads, breaks>>
      /\ IF d \in conn.targets THEN HandleRejectedListen(d) ELSE Heard /\ UNCHANGED agg
  BY DEF TargetFails
<1>3. PICK left \in LeftBy(d) :
        wire' = [wire EXCEPT ![d] = [NotServed EXCEPT
          !.requests = left,
          !.crossed = wire[d].crossed \/ d \notin conn.targets \/ left # <<>>]]
  BY DEF TargetFails
<1> DEFINE crossed == wire[d].crossed \/ d \notin conn.targets \/ left # <<>>
           v == [NotServed EXCEPT !.requests = left, !.crossed = crossed]
<1>4. left \in Seq(Request)
  BY <1>1, LeftTyped
<1>5. v \in Wire /\ v.requests = left /\ v.crossed = crossed
  <2>1. crossed \in BOOLEAN
    BY <1>1 DEF Wire
  <2> HIDE DEF crossed
  <2> QED BY <1>4, <2>1 DEF NotServed, Wire
<1>6. wire' = [wire EXCEPT ![d] = v]
  BY <1>3
<1>7. v.requests = <<>> \/ v.crossed
  BY <1>5
<1>8. d \notin conn.targets => v.crossed
  BY <1>5
<1> HIDE DEF v
<1>9. CASE d \in conn.targets
  BY <1>2, <1>5, <1>6, <1>7, <1>9, RejectKeepsInv
<1>10. CASE d \notin conn.targets
  <2>1. /\ ConnSound(conn)' /\ ClientTyped' /\ Tables' /\ ReadersSound'
        /\ W!Next /\ W!IsOpen(conn') /\ conn'.targets = conn.targets
    BY <1>2, <1>10, MessageHeard
  <2>2. agg' = [agg EXCEPT ![d] = agg[d]]
    BY <1>1, <1>2, <1>10
  <2>3. Owed(v, agg[d], d \in conn'.targets)
    BY <1>8, <1>10 DEF Owed
  <2>4. BackendTyped' /\ AnswersOwed'
    BY <1>1, <1>2, <1>5, <1>6, <2>1, <2>2, <2>3, OneTarget
  <2> QED BY <2>1, <2>4 DEF IInv
<1> QED BY <1>9, <1>10

-----------------------------------------------------------------------------
(* A consistent snapshot.                                                  *)

\* What the store keeps after a snapshot: the backend has told of what it serves.
LEMMA AppliedStored ==
  ASSUME BackendTyped, NEW d \in Docs, wire[d].on => wire[d].told # None
  PROVE  Applied(d) \in Stored
<1>1. wire[d] \in Wire /\ agg[d] \in Gathered /\ store[d] \in Stored /\ db[d] \in Versions
  BY DEF BackendTyped
<1>2. wire[d].on => wire[d].told \in Versions
  BY <1>1 DEF Wire
<1>3. Updated(d) \in Content \cup {None, Purge}
  <2>1. CASE Synthesized(d)
    <3>1. (IF wire[d].on THEN wire[d].told ELSE db[d]) \in Versions
      BY <1>1, <1>2
    <3> QED BY <2>1, <3>1 DEF Updated, Content
  <2>2. CASE ~Synthesized(d)
    BY <1>1, <2>2 DEF Updated, Gathered
  <2> QED BY <2>1, <2>2
<1>4. Applied(d).cache \in Content \cup {None}
  BY <1>1, <1>3 DEF Applied, Stored
<1>5. Applied(d).resume \in Versions \cup {None}
  BY <1>1, <1>2 DEF Applied, Stored
<1>6. Applied(d).member \in BOOLEAN
  BY <1>1 DEF Applied, Stored
<1> QED BY <1>4, <1>5, <1>6 DEF Applied, Stored

\* After a snapshot the views show what the store keeps.
LEMMA SnapshotKeepsInv ==
  ASSUME IInv, Snapshot
  PROVE  IInv' /\ W!Next
<1> DEFINE c == W!OnMessage(conn)
           heard == HandleOnlineStateChange(client, c.online)
           views == [d \in Docs |->
             IF ~heard.views[d].on THEN heard.views[d] ELSE
             [heard.views[d] EXCEPT
                !.content = store'[d].cache,
                !.synced = IF IsActive(d) THEN agg[d].current ELSE @]]
           applied == [heard EXCEPT !.views = views]
           before(d) == heard.views[d]
           after(d) == applied.views[d]
           changed == {d \in Docs : /\ before(d).content # after(d).content
                                    /\ Exists(before(d).content) \/ Exists(after(d).content)}
           resynced == {d \in Docs : before(d).synced # after(d).synced}
<1>1. /\ W!IsOpen(conn) /\ conn' = c
      /\ \A d \in Docs : wire[d].on => wire[d].told # None
      /\ store' = [d \in Docs |-> Applied(d)]
      /\ agg' = [d \in Docs |-> [agg[d] EXCEPT !.update = None,
                                               !.member = IF IsActive(d) THEN "same" ELSE @]]
      /\ UNCHANGED <<db, wire, work, muted, reads, breaks>>
  BY DEF Snapshot
<1>2. client' = OnViewSnapshots(applied, changed, resynced)
  BY DEF Snapshot
<1>3. W!Next
  BY <1>1 DEF W!Next, W!MessageArrives
<1>4. ConnSound(c) /\ c.targets = conn.targets /\ W!IsOpen(c)
  BY <1>1, MessageSound DEF IInv
<1>5. client \in Clients /\ OwnListeners(client)
  BY DEF IInv, ClientTyped
<1>6. c.online \in W!OnlineStates
  BY <1>4 DEF ConnSound, WP!Sound, WP!Connection, WP!OnlineStates, W!OnlineStates
<1> HIDE DEF c
<1>7. Informed(client, heard) /\ heard.online = c.online
  BY <1>5, <1>6, OnlineStateHeard
<1> HIDE DEF heard
<1>8. /\ heard \in Clients /\ OwnListeners(heard)
      /\ \A r \in Readers : ReaderSound(heard, work, reads, r)
      /\ \A d \in Docs : TableOf(heard.views[d], d \in conn.targets, store[d].cache)
  BY <1>5, <1>7, InformedKeeps DEF IInv, ReadersSound, Tables
<1>9. \A d \in Docs : Applied(d) \in Stored
  BY <1>1, AppliedStored DEF IInv
<1>10. \A d \in Docs : store'[d] \in Stored /\ store'[d].cache \in Content \cup {None}
  BY <1>1, <1>9 DEF Stored
<1>11. ASSUME NEW d \in Docs
       PROVE  /\ views[d] \in View /\ views[d].on = heard.views[d].on
              /\ views[d].listeners = heard.views[d].listeners
              /\ views[d].on => views[d].content = store'[d].cache
  <2>1. heard.views[d] \in View /\ agg[d] \in Gathered
    BY <1>8 DEF IInv, BackendTyped, Clients
  <2> QED BY <1>10, <2>1 DEF View, Gathered
<1>12. views \in [Docs -> View]
  BY <1>11
<1> HIDE DEF views
<1>13. applied \in Clients /\ applied.views = views /\ applied.inbox = heard.inbox
       /\ applied.online = heard.online
  BY <1>8, <1>12 DEF Clients
<1>14. changed \in SUBSET Docs /\ resynced \in SUBSET Docs
  OBVIOUS
<1> HIDE DEF applied, changed, resynced
<1>15. OwnListeners(applied)
  BY <1>8, <1>11, <1>13 DEF OwnListeners
<1>16. Informed(applied, client') /\ client'.online = applied.online
  BY <1>2, <1>13, <1>14, <1>15, SnapshotsHeard
<1>17. client' \in Clients /\ OwnListeners(client')
  BY <1>13, <1>15, <1>16, InformedKeeps
<1>18. ClientTyped'
  BY <1>1, <1>7, <1>13, <1>16, <1>17 DEF IInv, ClientTyped, OwnListeners, AddedOnce
<1>19. Tables'
  <2>1. SUFFICES ASSUME NEW d \in Docs
                 PROVE  TableOf(client'.views[d], d \in conn'.targets, store'[d].cache)
    BY DEF Tables, TableOf
  <2>2. TableOf(applied.views[d], d \in conn.targets, store'[d].cache)
    BY <1>8, <1>11, <1>13 DEF TableOf
  <2>3. TableOf(client'.views[d], d \in conn.targets, store'[d].cache)
    BY <1>13, <1>16, <2>2, InformedKeeps
  <2> QED BY <1>1, <1>4, <2>3
<1>20. ReadersSound'
  <2>1. SUFFICES ASSUME NEW r \in Readers
                 PROVE  ReaderSound(client', work, reads, r)
    BY <1>1 DEF ReadersSound, ReaderSound, Queued
  <2>2. ReaderSound(heard, work, reads, r)
    BY <1>8
  <2>3. applied.views[DocOf[r]].listeners = heard.views[DocOf[r]].listeners
    BY <1>11, <1>13, ReadersAssumption
  <2>4. ReaderSound(applied, work, reads, r)
    BY <1>13, <2>2, <2>3 DEF ReaderSound
  <2> QED BY <1>13, <1>16, <2>4, InformedKeeps
<1>21. ASSUME NEW d \in Docs
       PROVE  agg'[d] \in Gathered /\ agg'[d].out = agg[d].out
  <2>1. agg[d] \in Gathered
    BY DEF IInv, BackendTyped
  <2> QED BY <1>1, <2>1 DEF Gathered
<1>22. BackendTyped'
  BY <1>1, <1>9, <1>21 DEF IInv, BackendTyped
<1>23. AnswersOwed'
  <2>1. SUFFICES ASSUME NEW d \in Docs
                 PROVE  Owed(wire[d], agg'[d], d \in conn'.targets)
    BY <1>1, <1>4 DEF AnswersOwed, Owed, W!IsOpen
  <2>2. Owed(wire[d], agg[d], d \in conn.targets)
    BY <1>1 DEF IInv, AnswersOwed
  <2> QED BY <1>1, <1>4, <1>21, <2>2 DEF Owed
<1>24. ConnSound(conn)'
  BY <1>1, <1>4 DEF ConnSound, WP!Sound, WP!Connection, WP!TimersFollowStream,
     WP!OnlineFollowsStream, WP!IsStarted, WP!IsOpen
<1> QED BY <1>3, <1>18, <1>19, <1>20, <1>22, <1>23, <1>24 DEF IInv

-----------------------------------------------------------------------------
(* Every step keeps the invariant and is a task of the connection, or none. *)

\* At first nothing is read, and the stream is at rest.
LEMMA InitReads == Init => IInv
<1> SUFFICES ASSUME Init
             PROVE  IInv
  OBVIOUS
<1>1. /\ db = [d \in Docs |-> 0] /\ wire = [d \in Docs |-> NotServed]
      /\ agg = [d \in Docs |-> NoTarget]
      /\ store = [d \in Docs |-> [cache |-> None, resume |-> None, member |-> FALSE]]
      /\ client = [views |-> [d \in Docs |-> NoView], raised |-> {},
                   inbox |-> [r \in Readers |-> <<>>], online |-> "Unknown"]
      /\ work = <<>> /\ muted = {} /\ breaks = 0
      /\ reads = [r \in Readers |-> [status |-> "idle", given |-> None]]
  BY DEF Init
<1>2. W!Connected = WP!Connected /\ conn = WP!EnableNetwork(WP!Connected)
  <2>1. conn = W!EnableNetwork(W!Connected)
    BY DEF Init, W!Init
  <2>2. W!Connected = WP!Connected
    BY DEF W!Connected, WP!Connected
  <2> QED BY <2>1, <2>2, SameConnection
<1>3. ConnSound(conn)
  BY <1>2, WP!InitSound DEF WP!Init, WP!Inv, ConnSound
<1>4. conn.targets = {} /\ conn.online = "Unknown" /\ ~W!IsOpen(conn)
  BY <1>2 DEF WP!EnableNetwork, WP!Connected, WP!ShouldStartWatchStream,
     WP!UpdateState, W!IsOpen
<1>5. /\ \A S : <<>> \in Seq(S)
      /\ Len(<<>>) = 0
  BY EmptySeq
<1>6. BackendTyped
  <2>1. NotServed \in Wire /\ NoTarget \in Gathered
    BY <1>5 DEF NotServed, NoTarget, Wire, Gathered
  <2> QED BY <1>1, <2>1, ReadersAssumption DEF BackendTyped, Versions, Stored
<1>7. ClientTyped
  <2>1. NoView \in View /\ NoView.listeners = {}
    BY DEF NoView, View
  <2>2. client \in Clients /\ OwnListeners(client) /\ client.online = conn.online
    BY <1>1, <1>4, <1>5, <2>1 DEF Clients, OwnListeners, W!OnlineStates
  <2> QED BY <1>1, <1>5, <2>2 DEF ClientTyped, AddedOnce, Read
<1>8. AnswersOwed
  BY <1>1, <1>4 DEF AnswersOwed, NoTarget
<1>9. Tables
  BY <1>1, <1>4 DEF Tables, TableOf, NoView
<1>10. ReadersSound
  BY <1>1, <1>5, ReadersAssumption DEF ReadersSound, ReaderSound, Queued, Failing, NoView
<1> QED BY <1>3, <1>6, <1>7, <1>8, <1>9, <1>10 DEF IInv

\* Any step, by the lemma of its action.
LEMMA NextReads == IInv /\ [Next]_vars => IInv' /\ [W!Next]_conn
<1> SUFFICES ASSUME IInv, [Next]_vars
             PROVE  IInv' /\ [W!Next]_conn
  OBVIOUS
<1>1. ASSUME NEW r \in Readers, Call(r)
      PROVE  IInv' /\ [W!Next]_conn
  BY <1>1, CallKeepsInv
<1>2. ASSUME NEW r \in Readers, Deliver(r)
      PROVE  IInv' /\ [W!Next]_conn
  BY <1>2, DeliverKeepsInv
<1>3. ASSUME NEW r \in Readers, Worker(r)
      PROVE  IInv' /\ [W!Next]_conn
  BY <1>3, AddKeepsInv, RemoveKeepsInv DEF Worker
<1>4. ASSUME NEW d \in Docs, Message(d)
      PROVE  IInv' /\ [W!Next]_conn
  BY <1>4, AddedKeepsInv, RemovedKeepsInv, FailsKeepsInv, DocumentKeepsInv,
     FilterKeepsInv, CurrentKeepsInv DEF Message
<1>5. ASSUME NEW d \in Docs, Write(d)
      PROVE  IInv' /\ [W!Next]_conn
  BY <1>5, WriteKeepsInv
<1>6. CASE Snapshot
  BY <1>6, SnapshotKeepsInv
<1>7. CASE CredentialsArrive \/ BackoffElapses \/ TimerFires
  BY <1>7, CredentialsKeepInv, BackoffKeepsInv, TimerKeepsInv
<1>8. CASE StreamIdle \/ StreamBreaks \/ NetworkRestarts
  BY <1>8, IdleKeepsInv, BreakKeepsInv, RestartKeepsInv
<1>9. CASE UNCHANGED vars
  <2>1. UNCHANGED <<db, conn, wire, agg, store, client, work, muted, reads, breaks>>
    BY <1>9 DEF vars
  <2>2. ConnSound(conn)' /\ ClientTyped' /\ Tables' /\ ReadersSound'
    BY <2>1, ClientStays
  <2>3. BackendTyped' /\ AnswersOwed'
    BY <2>1, BackendStays DEF IInv, W!IsOpen
  <2> QED BY <2>1, <2>2, <2>3 DEF IInv
<1> QED BY <1>1, <1>2, <1>3, <1>4, <1>5, <1>6, <1>7, <1>8, <1>9 DEF Next

-----------------------------------------------------------------------------
(* The theorems.                                                           *)

\* The inductive invariant, of any documents, readers and bounds.
THEOREM ReadsSound == Spec => []IInv
<1>1. IInv /\ [Next]_vars => IInv'
  BY NextReads
<1> QED BY InitReads, <1>1, PTL DEF Spec

\* Reads drive the connection only as WatchConnection allows (ConnectionRefined):
\* in particular nothing is unwatched that is not watched, and no message is
\* taken from a stream that is not open.
THEOREM ReadsDriveConnection == Spec => ConnectionRefined
<1>1. Init => W!Init
  BY DEF Init
<1>2. IInv /\ [Next]_vars => [W!Next]_conn
  BY NextReads
<1> QED BY <1>1, <1>2, ReadsSound, PTL DEF Spec, ConnectionRefined, W!Spec

\* Whatever is read, no HARD_ASSERT of the connection fails (NoAssertFails).
THEOREM ReadsAssertNothing == Spec => []NoAssertFails
<1>1. IInv => NoAssertFails
  BY DEF IInv, ConnSound, WP!Sound, NoAssertFails, W!NoAssertFails
<1> QED BY <1>1, ReadsSound, PTL

\* Online is said over an open stream only, and the timeout never outlives the
\* attempt it was set for (OnlineStateFollowsStream).
THEOREM ReadsOnlineFollows == Spec => []OnlineStateFollowsStream
<1>1. IInv => OnlineStateFollowsStream
  BY DEF IInv, ConnSound, WP!Sound, WP!OnlineFollowsStream, WP!IsStarted, WP!IsOpen,
     OnlineStateFollowsStream, W!OnlineStateFollowsStream, W!IsStarted, W!IsOpen
<1> QED BY <1>1, ReadsSound, PTL

\* A document somebody reads has a started stream, and an idle check runs only
\* when nobody reads (StreamServesTargets).
THEOREM ReadsStreamServes == Spec => []StreamServesTargets
<1>1. IInv => StreamServesTargets
  BY DEF IInv, ConnSound, WP!Sound, WP!TimersFollowStream, WP!IsStarted, WP!IsOpen,
     StreamServesTargets, W!StreamServesTargets, W!IsStarted, W!IsOpen
<1> QED BY <1>1, ReadsSound, PTL

\* The tables of the event manager, the sync engine, the remote store and the
\* local store agree after every task (TablesAgree).
THEOREM ReadsTablesAgree == Spec => []TablesAgree
<1>1. IInv => TablesAgree
  BY DEF IInv, Tables, TableOf, TablesAgree
<1> QED BY <1>1, ReadsSound, PTL

\* A get that is over leaves nothing watched (NothingLeftWatched).
THEOREM ReadsLeaveNothing == Spec => []NothingLeftWatched
<1>1. ASSUME IInv
      PROVE  NothingLeftWatched
  <2>1. SUFFICES ASSUME NEW r \in Gets, reads[r].status = "done",
                        [op |-> "remove", reader |-> r] \notin {work[i] : i \in 1..Len(work)}
                 PROVE  r \notin client.views[DocOf[r]].listeners
    BY DEF NothingLeftWatched
  <2>2. ReaderSound(client, work, reads, r)
    BY <1>1, ReadersAssumption DEF IInv, ReadersSound
  <2>3. ~Queued(work, "remove", r)
    BY <2>1 DEF Queued
  <2> QED BY <2>1, <2>2, <2>3 DEF ReaderSound
<1> QED BY <1>1, ReadsSound, PTL

\* The answers owed are counted exactly, and an active target is served, until a
\* refusal crosses an unwatch (AnswersCounted).
THEOREM ReadsCountAnswers == Spec => []AnswersCounted
<1>1. ASSUME IInv
      PROVE  AnswersCounted
  <2>1. SUFFICES ASSUME NEW d \in Docs, ~wire[d].crossed
                 PROVE  /\ agg[d].out = Len(wire[d].requests)
                        /\ IsActive(d) /\ W!IsOpen(conn) => wire[d].on
    BY DEF AnswersCounted
  <2>2. wire[d].requests \in Seq(Request)
    BY <1>1 DEF IInv, BackendTyped, Wire
  <2>3. CASE W!IsOpen(conn)
    <3>1. Owed(wire[d], agg[d], d \in conn.targets)
      BY <1>1, <2>3 DEF IInv, AnswersOwed
    <3>2. agg[d].out = 0 => wire[d].requests = <<>>
      BY <2>1, <2>2, <3>1, EmptySeq DEF Owed
    <3> QED BY <2>1, <3>1, <3>2 DEF Owed, IsActive
  <2>4. CASE ~W!IsOpen(conn)
    <3>1. wire[d] = NotServed /\ agg[d].out = 0
      BY <1>1, <2>4 DEF IInv, AnswersOwed
    <3> QED BY <2>4, <3>1, EmptySeq DEF NotServed
  <2> QED BY <2>3, <2>4
<1> QED BY <1>1, ReadsSound, PTL

\* Types, and the bounds of what is counted (TypeOK).
THEOREM ReadsTyped == Spec => []TypeOK
<1>1. ASSUME IInv
      PROVE  TypeOK
  <2>1. db \in [Docs -> Versions] /\ store \in [Docs -> Stored] /\ breaks \in 0..MaxBreaks
    BY <1>1 DEF IInv, BackendTyped
  <2>2. W!ConnectionTypeOK
    BY <1>1 DEF IInv, ConnSound, WP!Sound, W!ConnectionTypeOK,
       W!Connection, WP!Connection, W!StreamStates, WP!StreamStates,
       W!OnlineStates, WP!OnlineStates, W!kMaxWatchStreamFailures,
       WP!kMaxWatchStreamFailures
  <2>3. ASSUME NEW d \in Docs
        PROVE  /\ wire[d].requests \in Seq(Request)
               /\ wire[d] \in [requests : {wire[d].requests}, on : BOOLEAN,
                               told : Versions \cup {None}, caughtUp : BOOLEAN,
                               crossed : BOOLEAN]
               /\ agg[d].out \in Int
               /\ agg[d] \in [out : {agg[d].out}, current : BOOLEAN,
                              update : Content \cup {None, Purge},
                              member : {"same", "added", "removed"}]
    <3>1. wire[d] \in Wire /\ agg[d] \in Gathered
      BY <1>1 DEF IInv, BackendTyped
    <3> QED BY <3>1 DEF Wire, Gathered
  <2>4. /\ client.views \in [Docs -> View] /\ client.raised \subseteq Readers
        /\ client.online = conn.online
        /\ \A r \in Readers : client.inbox[r] \in Seq(Event)
        /\ work \in Seq(Task) /\ muted \subseteq Readers
    BY <1>1 DEF IInv, ClientTyped, Clients
  <2> QED BY <2>1, <2>2, <2>3, <2>4 DEF TypeOK, Stored, View, Task
<1> QED BY <1>1, ReadsSound, PTL
=============================================================================
