--------------------------- MODULE FirestoreReads ---------------------------
(***************************************************************************)
(* How Firestore reads documents for HRApp: DatabaseManager.listen keeps a *)
(* snapshot listener on the recruiter's own document, and the screens ask  *)
(* for documents once with getDocument.                                    *)
(*                                                                         *)
(* Three threads of control meet here.  The main queue calls and is given  *)
(* events; the worker queue of the client adds and removes listeners and   *)
(* runs everything of the connection (module WatchConnection); the backend *)
(* answers, or does not.  Every query of HRApp is the query of one         *)
(* document, so that a document stands for its query and its target.       *)
(***************************************************************************)
EXTENDS Integers, Sequences

CONSTANTS
  Docs,
  Readers,      \* calls of HRApp: each is made once
  Gets,         \* ... those of getDocument; the others listen
  DocOf,        \* [Readers -> Docs]
  Deletions,    \* the versions in which a document does not exist
  MaxVersion,   \* bound: writes of a document by others
  MaxBreaks,    \* bound: breaks of a stream that has answered, and restarts
  MaxStale,     \* bound of WatchConnection
  None,         \* nothing known
  Purge         \* an update: forget the document

ASSUME ReadersAssumption ==
  /\ Gets \subseteq Readers
  /\ DocOf \in [Readers -> Docs]
  /\ {MaxVersion, MaxBreaks} \subseteq Nat

VARIABLES
  db,           \* the documents at the backend: the version of each
  conn,         \* the connection: see WatchConnection
  wire,         \* per target: requests under way and what the backend serves
  agg,          \* per target: what the aggregator has gathered
  store,        \* per document: what the local store keeps
  client,       \* views and listeners, with the events raised for each reader
  work,         \* tasks of the worker queue, in order
  muted,        \* readers whose registration was removed
  reads,        \* what HRApp was given: see DocumentReads
  breaks

vars == <<db, conn, wire, agg, store, client, work, muted, reads, breaks>>

W == INSTANCE WatchConnection

-----------------------------------------------------------------------------
(* The data.  Documents are told apart by their versions.  NoDocument has a *)
(* version too: the snapshot of which the backend said so.                  *)

Versions == 0..MaxVersion
Content == [version : Versions, exists : BOOLEAN]
At(v) == [version |-> v, exists |-> v \notin Deletions]
Exists(content) == content # None /\ content.exists

\* Nothing known, and an order to forget, are told from what is known.
ASSUME DataAssumption ==
  None \notin Versions /\ None # Purge /\ {None, Purge} \cap Content = {}

NoTarget == [out |-> 0, current |-> FALSE, update |-> None, member |-> "same"]
NotServed == [requests |-> <<>>, on |-> FALSE, told |-> None, caughtUp |-> FALSE,
              crossed |-> FALSE]
NoView == [on |-> FALSE, listeners |-> {}, content |-> None, synced |-> FALSE]

Request == [op : {"watch", "unwatch"}, resume : {None} \cup Versions]
Watch(d) == [op |-> "watch", resume |-> store[d].resume]
Unwatch == [op |-> "unwatch", resume |-> None]

-----------------------------------------------------------------------------
(* Views and their listeners.                                              *)

\* Mutant: a get takes a client that is still connecting for an offline one.
ShouldRaiseInitialEventEarly(k, r) ==
  LET view == k.views[DocOf[r]]
  IN \/ view.synced
     \/ /\ ~(r \in Gets /\ k.online = "Online")
        /\ Exists(view.content) \/ k.online # "Online"

\* QueryListener::ShouldRaiseInitialEvent.
ShouldRaiseInitialEvent(k, r) ==
  LET view == k.views[DocOf[r]]
  IN \/ view.synced
     \/ /\ ~(r \in Gets /\ k.online # "Offline")
        /\ Exists(view.content) \/ k.online = "Offline"

\* The events of "raised" readers are put on the main queue.
Raise(k, raised) ==
  [k EXCEPT
     !.raised = @ \cup raised,
     !.inbox = [r \in Readers |->
        IF r \in raised
          THEN Append(@[r], [content |-> k.views[DocOf[r]].content,
                             cached |-> ~k.views[DocOf[r]].synced,
                             ok |-> TRUE])
          ELSE @[r]]]

ListenersOf(k, ds) == UNION {k.views[d].listeners : d \in ds}

\* EventManager::OnViewSnapshots: the views of "changed" have another document,
\* those of "resynced" another sync state.
OnViewSnapshots(k, changed, resynced) ==
  Raise(k, {r \in ListenersOf(k, changed \cup resynced) :
              IF r \notin k.raised
                THEN ShouldRaiseInitialEvent(k, r)
                ELSE DocOf[r] \in changed \/ r \in Gets})

\* Mutant: only the views hear of it, not the listeners that still wait.
HandleOnlineStateChangeOfViews(k, online) ==
  IF online = k.online THEN k ELSE
  LET lost == {d \in Docs : k.views[d].synced /\ online = "Offline"}
      dropped == [k EXCEPT !.views = [d \in Docs |->
                    IF d \in lost THEN [@[d] EXCEPT !.synced = FALSE] ELSE @[d]]]
  IN [OnViewSnapshots(dropped, {}, lost) EXCEPT !.online = online]

\* SyncEngine::HandleOnlineStateChange, when the tracker broadcasts: offline
\* takes the sync state of every view first, then every listener hears of it.
HandleOnlineStateChange(k, online) ==
  IF online = k.online THEN k ELSE
  LET lost == {d \in Docs : k.views[d].synced /\ online = "Offline"}
      dropped == [k EXCEPT !.views = [d \in Docs |->
                    IF d \in lost THEN [@[d] EXCEPT !.synced = FALSE] ELSE @[d]]]
      heard == [OnViewSnapshots(dropped, {}, lost) EXCEPT !.online = online]
  IN Raise(heard, {r \in ListenersOf(heard, Docs) \ heard.raised :
                     ShouldRaiseInitialEvent(heard, r)})

\* Mutant: the views are not told.
ConnectSilently(k, c) == conn' = c /\ client' = k

\* The connection becomes c, and the views hear of its online state.
Connect(k, c) == conn' = c /\ client' = HandleOnlineStateChange(k, c.online)

\* Mutant: the aggregator outlives its stream.
DisconnectKeepsTargets ==
  wire' = [d \in Docs |-> NotServed] /\ UNCHANGED agg

\* Without an open stream no request is under way and nothing is gathered.
Disconnect == wire' = [d \in Docs |-> NotServed] /\ agg' = [d \in Docs |-> NoTarget]

\* RemoteStore::SendWatchRequest, SendUnwatchRequest.
SendRequest(d, request) ==
  IF W!IsOpen(conn)
    THEN /\ wire' = [wire EXCEPT ![d].requests = Append(@, request)]
         /\ agg' = [agg EXCEPT ![d].out = @ + 1]
    ELSE UNCHANGED <<wire, agg>>

-----------------------------------------------------------------------------
(* The main queue.                                                         *)

Call(r) ==
  /\ reads[r].status = "idle"
  /\ reads' = [reads EXCEPT ![r].status = "waiting"]
  /\ work' = Append(work, [op |-> "add", reader |-> r])
  /\ UNCHANGED <<db, conn, wire, agg, store, client, muted, breaks>>

VersionOf(content) == IF content = None THEN None ELSE content.version

\* What the handler of HRApp is given: a get of a document that is missing in
\* the cache fails, and an error ends a read.
Given(r, event) ==
  IF ~event.ok \/ (r \in Gets /\ event.cached /\ ~Exists(event.content))
    THEN [reads[r] EXCEPT !.status = "done"]
    ELSE [status |-> IF r \in Gets THEN "done" ELSE "waiting",
          given |-> VersionOf(event.content)]

\* Mutant: the handler is not muted and may be called again.
DeliverAgain(r) ==
  /\ client.inbox[r] # <<>>
  /\ client' = [client EXCEPT !.inbox[r] = Tail(@)]
  /\ LET event == Head(client.inbox[r])
     IN /\ reads' = [reads EXCEPT ![r] = Given(r, event)]
        /\ IF r \in Gets /\ event.ok
             THEN work' = Append(work, [op |-> "remove", reader |-> r])
             ELSE UNCHANGED work
  /\ UNCHANGED <<db, conn, wire, agg, store, muted, breaks>>

\* Mutant: a get is answered and its listener is forgotten, not removed.
DeliverWithoutRemoving(r) ==
  /\ client.inbox[r] # <<>>
  /\ client' = [client EXCEPT !.inbox[r] = Tail(@)]
  /\ reads' = [reads EXCEPT ![r] = IF r \in muted THEN @ ELSE Given(r, Head(client.inbox[r]))]
  /\ muted' = IF r \in Gets THEN muted \cup {r} ELSE muted
  /\ UNCHANGED <<db, conn, wire, agg, store, work, breaks>>

\* AsyncEventListener::OnEvent: an event reaches a reader that is not muted.
\* The first snapshot of a get removes its registration (ListenOnce).
Deliver(r) ==
  /\ client.inbox[r] # <<>>
  /\ client' = [client EXCEPT !.inbox[r] = Tail(@)]
  /\ LET event == Head(client.inbox[r])
     IN IF r \in muted
          THEN UNCHANGED <<reads, muted, work>>
          ELSE /\ reads' = [reads EXCEPT ![r] = Given(r, event)]
               /\ IF r \in Gets /\ event.ok
                    THEN /\ muted' = muted \cup {r}
                         /\ work' = Append(work, [op |-> "remove", reader |-> r])
                    ELSE UNCHANGED <<muted, work>>
  /\ UNCHANGED <<db, conn, wire, agg, store, breaks>>

-----------------------------------------------------------------------------
(* The worker queue: listeners.                                            *)

\* EventManager::AddQueryListener.  The first listener of a query makes its view
\* from the cache and listens; a later one is given the snapshot there is.
AddQueryListener(r) ==
  LET d == DocOf[r]
      added == [client EXCEPT !.views[d].listeners = @ \cup {r}]
      viewed == [added EXCEPT !.views[d].on = TRUE,
                              !.views[d].content = store[d].cache]
  IN /\ work # <<>> /\ Head(work) = [op |-> "add", reader |-> r]
     /\ work' = Tail(work)
     /\ IF client.views[d].on
          THEN /\ client' = IF ShouldRaiseInitialEvent(added, r)
                              THEN Raise(added, {r}) ELSE added
               /\ UNCHANGED <<conn, wire, agg>>
          ELSE /\ Connect(OnViewSnapshots(viewed,
                            IF Exists(store[d].cache) THEN {d} ELSE {}, {d}),
                          W!ListenTo(conn, d))
               /\ SendRequest(d, Watch(d))
     /\ UNCHANGED <<db, store, muted, reads, breaks>>

\* Mutant: the view outlives its last listener.
RemoveQueryListenerKeepsView(r) ==
  LET d == DocOf[r]
      left == client.views[d].listeners \ {r}
  IN /\ work # <<>> /\ Head(work) = [op |-> "remove", reader |-> r]
     /\ work' = Tail(work)
     /\ IF client.views[d].on /\ left = {}
          THEN /\ Connect([client EXCEPT !.views[d].listeners = {}],
                          W!StopListeningTo(conn, d))
               /\ SendRequest(d, Unwatch)
          ELSE /\ client' = [client EXCEPT !.views[d].listeners = left]
               /\ UNCHANGED <<conn, wire, agg>>
     /\ UNCHANGED <<db, store, muted, reads, breaks>>

\* Mutant: the query may not be gone already.
RemoveQueryListenerAnyway(r) ==
  LET d == DocOf[r]
      left == client.views[d].listeners \ {r}
  IN /\ work # <<>> /\ Head(work) = [op |-> "remove", reader |-> r]
     /\ work' = Tail(work)
     /\ IF left = {}
          THEN /\ Connect([client EXCEPT !.views[d] = NoView],
                          W!StopListeningTo(conn, d))
               /\ SendRequest(d, Unwatch)
          ELSE /\ client' = [client EXCEPT !.views[d].listeners = left]
               /\ UNCHANGED <<conn, wire, agg>>
     /\ UNCHANGED <<db, store, muted, reads, breaks>>

\* EventManager::RemoveQueryListener.  The last listener takes the view and the
\* target with it; the query may be gone already, after an error.
RemoveQueryListener(r) ==
  LET d == DocOf[r]
      left == client.views[d].listeners \ {r}
  IN /\ work # <<>> /\ Head(work) = [op |-> "remove", reader |-> r]
     /\ work' = Tail(work)
     /\ IF client.views[d].on /\ left = {}
          THEN /\ Connect([client EXCEPT !.views[d] = NoView],
                          W!StopListeningTo(conn, d))
               /\ SendRequest(d, Unwatch)
          ELSE /\ client' = [client EXCEPT !.views[d].listeners = left]
               /\ UNCHANGED <<conn, wire, agg>>
     /\ UNCHANGED <<db, store, muted, reads, breaks>>

-----------------------------------------------------------------------------
(* The worker queue: the connection.                                       *)

\* RemoteStore::OnWatchStreamOpen sends the watches of all targets at once.
CredentialsArrive ==
  /\ W!CredentialsArrive
  /\ client' = HandleOnlineStateChange(client, conn'.online)
  /\ IF W!IsOpen(conn') /\ ~W!IsOpen(conn)
       THEN /\ wire' = [d \in Docs |->
                 IF d \in conn.targets
                   THEN [NotServed EXCEPT !.requests = <<Watch(d)>>] ELSE NotServed]
            /\ agg' = [d \in Docs |->
                 IF d \in conn.targets THEN [NoTarget EXCEPT !.out = 1] ELSE NoTarget]
       ELSE UNCHANGED <<wire, agg>>
  /\ UNCHANGED <<db, store, work, muted, reads, breaks>>

BackoffElapses ==
  /\ conn.backoff
  /\ Connect(client, W!OnBackoffElapsed(conn))
  /\ UNCHANGED <<db, wire, agg, store, work, muted, reads, breaks>>

TimerFires ==
  /\ conn.timer
  /\ Connect(client, W!OnlineStateTimeout(conn))
  /\ UNCHANGED <<db, wire, agg, store, work, muted, reads, breaks>>

StreamIdle ==
  /\ conn.idle
  /\ Connect(client, W!OnIdle(conn))
  /\ Disconnect
  /\ UNCHANGED <<db, store, work, muted, reads, breaks>>

\* A stream that has answered breaks a bounded number of times, a silent one
\* as often as it likes.
Breaks(bounded) ==
  IF bounded THEN breaks < MaxBreaks /\ breaks' = breaks + 1 ELSE UNCHANGED breaks

StreamBreaks ==
  /\ W!IsOpen(conn)
  /\ Breaks(conn.online = "Online")
  /\ Connect(client, W!CloseStream(conn, FALSE))
  /\ Disconnect
  /\ UNCHANGED <<db, store, work, muted, reads>>

\* Another user signed in, or the network is back.
NetworkRestarts ==
  /\ W!NetworkRestarts
  /\ Breaks(TRUE)
  /\ client' = HandleOnlineStateChange(client, conn'.online)
  /\ Disconnect
  /\ UNCHANGED <<db, store, work, muted, reads>>

-----------------------------------------------------------------------------
(* The worker queue: messages of the backend.  A message carries what the  *)
(* backend knows when it arrives: requests and messages of a stream keep   *)
(* their order, so that the delays of both are one.                        *)

\* WatchChangeAggregator::IsActiveTarget.
IsActive(d) == d \in conn.targets /\ agg[d].out = 0

\* A message that raises no snapshot.
Heard == Connect(client, W!OnMessage(conn))

Answers(d, op) ==
  /\ W!IsOpen(conn) /\ wire[d].requests # <<>>
  /\ Head(wire[d].requests).op = op

\* The backend resumes from what the token says it has told.  A document that
\* does not exist is never told of to a target that starts from nothing.
TargetAdded(d) ==
  /\ Answers(d, "watch")
  /\ LET resume == Head(wire[d].requests).resume
     IN wire' = [wire EXCEPT ![d] =
          [wire[d] EXCEPT
             !.requests = Tail(wire[d].requests), !.on = TRUE, !.caughtUp = FALSE,
             !.told = IF resume = None /\ db[d] \in Deletions THEN db[d] ELSE resume]]
  /\ agg' = [agg EXCEPT ![d].out = @ - 1,
                        ![d].member = IF agg[d].out = 1 THEN "same" ELSE @]
  /\ Heard
  /\ UNCHANGED <<db, store, work, muted, reads, breaks>>

TargetRemoved(d) ==
  /\ Answers(d, "unwatch")
  /\ wire' = [wire EXCEPT ![d] = [NotServed EXCEPT !.requests = Tail(wire[d].requests),
                                                   !.crossed = wire[d].crossed]]
  /\ agg' = [agg EXCEPT ![d] = IF @.out = 1 THEN [NoTarget EXCEPT !.update = agg[d].update]
                                            ELSE [@ EXCEPT !.out = agg[d].out - 1]]
  /\ Heard
  /\ UNCHANGED <<db, store, work, muted, reads, breaks>>

\* SyncEngine::HandleRejectedListen, behind the aggregator's RemoveTarget: the
\* target goes with its view, and every listener is given the error.
HandleRejectedListen(d) ==
  LET c == W!OnTargetError(conn, d)
      heard == HandleOnlineStateChange(client, c.online)
  IN /\ agg' = [agg EXCEPT ![d] = [NoTarget EXCEPT !.update = agg[d].update]]
     /\ conn' = c
     /\ client' = [heard EXCEPT
          !.views[d] = NoView,
          !.inbox = [r \in Readers |->
             IF r \in client.views[d].listeners
               THEN Append(@[r], [content |-> None, cached |-> FALSE, ok |-> FALSE])
               ELSE @[r]]]

\* What the backend has still to answer after a refusal: of the target it served
\* so far, or of the next watch.  An unwatch that is under way then it may answer
\* or not.
LeftBy(d) ==
  LET left == {q \in {wire[d].requests} : wire[d].on}
                \cup {Tail(q) : q \in {p \in {wire[d].requests} : Answers(d, "watch")}}
  IN left \cup {Tail(q) : q \in {p \in left : p # <<>> /\ Head(p) = Unwatch}}

\* RemoteStore::ProcessTargetError.  The refusal of a target that was withdrawn
\* meanwhile is ignored, and does not count as an answer; the refusal of a target
\* that was withdrawn and is watched anew ends it, and the count of what is under
\* way is forgotten.  Either way the refusal has crossed an unwatch.
TargetFails(d) ==
  /\ W!IsOpen(conn)
  /\ \E left \in LeftBy(d) :
       wire' = [wire EXCEPT ![d] = [NotServed EXCEPT
         !.requests = left,
         !.crossed = wire[d].crossed \/ d \notin conn.targets \/ left # <<>>]]
  /\ IF d \in conn.targets THEN HandleRejectedListen(d) ELSE Heard /\ UNCHANGED agg
  /\ UNCHANGED <<db, store, work, muted, reads, breaks>>

\* The aggregator takes a document of an active target, or its absence.
Gather(d, content, update) ==
  IF ~IsActive(d) THEN UNCHANGED agg ELSE
  agg' = [agg EXCEPT
    ![d].update = update,
    ![d].member = IF Exists(content) THEN "added"
                  ELSE IF store[d].member THEN "removed" ELSE "same"]

\* The backend tells of a version it has not told of: not always the last one.
DocumentChanges(d) ==
  /\ W!IsOpen(conn) /\ wire[d].on
  /\ \E v \in {w \in 0..db[d] : wire[d].told = None \/ wire[d].told < w} :
       /\ wire' = [wire EXCEPT ![d].told = v]
       /\ Gather(d, At(v), At(v))
  /\ Heard
  /\ UNCHANGED <<db, store, work, muted, reads, breaks>>

\* ... or, of a document that is gone, only that none is left.
ExistenceFilter(d) ==
  /\ W!IsOpen(conn) /\ wire[d].on
  /\ wire[d].told \notin {None, db[d]} /\ db[d] \in Deletions
  /\ wire' = [wire EXCEPT ![d].told = db[d]]
  /\ Gather(d, None, Purge)
  /\ Heard
  /\ UNCHANGED <<db, store, work, muted, reads, breaks>>

\* CURRENT: the backend has told all there was when the target was added.
TargetCurrent(d) ==
  /\ W!IsOpen(conn) /\ wire[d].on /\ ~wire[d].caughtUp /\ wire[d].told = db[d]
  /\ wire' = [wire EXCEPT ![d].caughtUp = TRUE]
  /\ agg' = [agg EXCEPT ![d].current = IF IsActive(d) THEN TRUE ELSE @]
  /\ Heard
  /\ UNCHANGED <<db, store, work, muted, reads, breaks>>

-----------------------------------------------------------------------------
(* The worker queue: a consistent snapshot.  The aggregator makes a remote *)
(* event, the local store applies it, and the views follow the store.      *)

\* CreateRemoteEvent: a current target whose document was never received has
\* none, as of this snapshot: the last thing the backend told of the target, or
\* whatever is last where it serves none.
Synthesized(d) ==
  /\ IsActive(d) /\ agg[d].current
  /\ agg[d].update = None /\ ~store[d].member

Updated(d) ==
  IF Synthesized(d)
    THEN [version |-> IF wire[d].on THEN wire[d].told ELSE db[d], exists |-> FALSE]
    ELSE agg[d].update

\* Mutant: the token is kept of a target whose changes were ignored.
AppliedToken(d) ==
  LET update == Updated(d)
  IN [cache |-> IF update = Purge THEN None
                ELSE IF update # None /\ (store[d].cache = None
                                          \/ update.version > store[d].cache.version)
                  THEN update ELSE store[d].cache,
      resume |-> IF wire[d].on THEN wire[d].told ELSE store[d].resume,
      member |-> IF ~IsActive(d) \/ agg[d].member = "same" THEN store[d].member
                 ELSE agg[d].member = "added"]

\* LocalStore::ApplyRemoteEvent: the cache never goes back, and the token is
\* kept of the targets that are active (the backend gives one with what it
\* serves).
Applied(d) ==
  LET update == Updated(d)
  IN [cache |-> IF update = Purge THEN None
                ELSE IF update # None /\ (store[d].cache = None
                                          \/ update.version > store[d].cache.version)
                  THEN update ELSE store[d].cache,
      resume |-> IF IsActive(d) /\ wire[d].on THEN wire[d].told ELSE store[d].resume,
      member |-> IF ~IsActive(d) \/ agg[d].member = "same" THEN store[d].member
                 ELSE agg[d].member = "added"]

Snapshot ==
  /\ W!IsOpen(conn)
  /\ \A d \in Docs : wire[d].on => wire[d].told # None
  /\ store' = [d \in Docs |-> Applied(d)]
  /\ LET c == W!OnMessage(conn)
         heard == HandleOnlineStateChange(client, c.online)
         views == [d \in Docs |->
           IF ~heard.views[d].on THEN heard.views[d] ELSE
           [heard.views[d] EXCEPT
              !.content = store'[d].cache,
              !.synced = IF IsActive(d) THEN agg[d].current ELSE @]]
         applied == [heard EXCEPT !.views = views]
         before(d) == heard.views[d]
         after(d) == applied.views[d]
         changed == {d \in Docs : /\ before(d).content # after(d).content
                                  /\ Exists(before(d).content) \/ Exists(after(d).content)}
         resynced == {d \in Docs : before(d).synced # after(d).synced}
     IN conn' = c /\ client' = OnViewSnapshots(applied, changed, resynced)
  /\ agg' = [d \in Docs |->
       [agg[d] EXCEPT !.update = None,
                      !.member = IF IsActive(d) THEN "same" ELSE @]]
  /\ UNCHANGED <<db, wire, work, muted, reads, breaks>>

-----------------------------------------------------------------------------
(* The specification.                                                      *)

\* Another client writes a document.
Write(d) ==
  /\ db[d] < MaxVersion
  /\ db' = [db EXCEPT ![d] = @ + 1]
  /\ UNCHANGED <<conn, wire, agg, store, client, work, muted, reads, breaks>>

Init ==
  /\ db = [d \in Docs |-> 0]
  /\ W!Init
  /\ wire = [d \in Docs |-> NotServed]
  /\ agg = [d \in Docs |-> NoTarget]
  /\ store = [d \in Docs |-> [cache |-> None, resume |-> None, member |-> FALSE]]
  /\ client = [views |-> [d \in Docs |-> NoView], raised |-> {},
               inbox |-> [r \in Readers |-> <<>>], online |-> "Unknown"]
  /\ work = <<>>
  /\ muted = {}
  /\ reads = [r \in Readers |-> [status |-> "idle", given |-> None]]
  /\ breaks = 0

Worker(r) == AddQueryListener(r) \/ RemoveQueryListener(r)
Message(d) ==
  \/ TargetAdded(d) \/ TargetRemoved(d) \/ TargetFails(d)
  \/ DocumentChanges(d) \/ ExistenceFilter(d) \/ TargetCurrent(d)

Next ==
  \/ \E r \in Readers : Call(r) \/ Deliver(r) \/ Worker(r)
  \/ \E d \in Docs : Message(d) \/ Write(d)
  \/ Snapshot
  \/ CredentialsArrive \/ BackoffElapses \/ TimerFires
  \/ StreamIdle \/ StreamBreaks \/ NetworkRestarts

Spec == Init /\ [][Next]_vars

\* Queues are run, credentials and timers come, and a stream that answers goes
\* on answering.  A silent one does not stay: the channel's keepalive breaks it.
Answer(d) == TargetAdded(d) \/ TargetRemoved(d) \/ DocumentChanges(d) \/ TargetCurrent(d)
Fairness ==
  /\ \A r \in Readers : WF_vars(Deliver(r)) /\ WF_vars(Worker(r))
  /\ WF_vars(CredentialsArrive) /\ WF_vars(BackoffElapses) /\ WF_vars(TimerFires)
  /\ WF_vars(conn.online # "Online" /\ StreamBreaks)
  /\ \A d \in Docs : WF_vars(conn.online = "Online" /\ Answer(d))
  /\ WF_vars(conn.online = "Online" /\ Snapshot)

FairSpec == Spec /\ Fairness

-----------------------------------------------------------------------------
(* Properties.                                                             *)

Event == [content : Content \cup {None}, cached : BOOLEAN, ok : BOOLEAN]

TypeOK ==
  /\ db \in [Docs -> Versions]
  /\ W!ConnectionTypeOK
  /\ \A d \in Docs :
       /\ wire[d].requests \in Seq(Request)
       /\ wire[d] \in [requests : {wire[d].requests}, on : BOOLEAN,
                       told : Versions \cup {None}, caughtUp : BOOLEAN,
                       crossed : BOOLEAN]
       /\ agg[d].out \in Int
       /\ agg[d] \in [out : {agg[d].out}, current : BOOLEAN,
                      update : Content \cup {None, Purge},
                      member : {"same", "added", "removed"}]
  /\ store \in [Docs -> [cache : Content \cup {None},
                         resume : Versions \cup {None}, member : BOOLEAN]]
  /\ client.views \in [Docs -> [on : BOOLEAN, listeners : SUBSET Readers,
                                content : Content \cup {None}, synced : BOOLEAN]]
  /\ client.raised \subseteq Readers /\ client.online = conn.online
  /\ \A r \in Readers : client.inbox[r] \in Seq(Event)
  /\ work \in Seq([op : {"add", "remove"}, reader : Readers])
  /\ muted \subseteq Readers
  /\ breaks \in 0..MaxBreaks

\* The queries of the event manager, the views of the sync engine and the targets
\* of the remote store are three tables of three classes, changed one after the
\* other: after every task they agree, and each view shows what the store keeps.
TablesAgree ==
  \A d \in Docs :
    LET view == client.views[d]
    IN /\ view.on <=> view.listeners # {}
       /\ view.on <=> d \in conn.targets
       /\ view.on => view.content = store[d].cache

\* A get that is over leaves no listener behind, so that nothing is watched for
\* it: its removal is queued, or done, or an error has taken the whole query.
NothingLeftWatched ==
  \A r \in Gets :
    reads[r].status = "done" /\ [op |-> "remove", reader |-> r] \notin {work[i] : i \in 1..Len(work)}
      => r \notin client.views[DocOf[r]].listeners

\* While a stream is open the aggregator counts the answers it is owed exactly,
\* across gets that come and go, and an active target is one the backend serves:
\* otherwise it ignores the backend for good, or takes the messages of an earlier
\* watch for those of the present one.  Only a refusal that crosses an unwatch
\* puts the count off (remote_store.cc 357-365 takes it for no answer, or forgets
\* the requests under way), until the stream ends.
AnswersCounted ==
  \A d \in Docs :
    ~wire[d].crossed =>
      /\ agg[d].out = Len(wire[d].requests)
      /\ IsActive(d) /\ W!IsOpen(conn) => wire[d].on

\* No refusal has crossed an unwatch on this stream.
NothingCrossed == \A d \in Docs : ~wire[d].crossed

\* A get is answered from the cache only when the client is offline: as long as
\* the backend may still answer, it waits (wait_for_sync_when_online).
CachedOnlyOffline ==
  [][\A r \in Gets \cap (client'.raised \ client.raised) :
       client'.inbox[r][Len(client'.inbox[r])].cached => conn'.online = "Offline"]_vars

\* Reads keep the promises of DocumentReads, and the connection is driven only
\* as WatchConnection allows: what is proved of it holds here.
R == INSTANCE DocumentReads
ReadsRefined == R!Spec
ConnectionRefined == W!Spec
NoAssertFails == W!NoAssertFails
OnlineStateFollowsStream == W!OnlineStateFollowsStream
StreamServesTargets == W!StreamServesTargets

\* What target state's comment says of current (remote_event.h): the backend has
\* sent all changes up to the point at which the target was added.
CurrentIsCaughtUp ==
  \A d \in Docs : IsActive(d) /\ agg[d].current => wire[d].caughtUp

\* Every get is answered in the end, whether the backend answers, is silent or
\* breaks every stream; unless a refusal crossed an unwatch, for then the target
\* may stay pending as long as the stream lives.
GetAnswered ==
  \A r \in Gets :
    reads[r].status = "waiting" ~> reads[r].status = "done" \/ wire[DocOf[r]].crossed

\* What the listener of r was last given is what the document holds.
Shows(r) ==
  \/ reads[r].given = db[DocOf[r]]
  \/ {reads[r].given, db[DocOf[r]]} \subseteq Deletions \cup {None}

\* While the client stays online, and no refusal has crossed an unwatch, a
\* listener comes to show the document as it is.
ListenerConverges ==
  \A r \in Readers \ Gets :
    reads[r].status = "waiting"
      ~> \/ Shows(r)
         \/ reads[r].status = "done"
         \/ conn.online # "Online"
         \/ wire[DocOf[r]].crossed
=============================================================================
