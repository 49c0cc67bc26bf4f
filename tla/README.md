# HRApp in TLA+

HRApp is an iOS application that brings recruiters and applicants together: an
account is registered and verified by e-mail, a vacancy or a résumé is filled
in, a Python notebook (`AviaHack/`) compares the two and writes the scores to
Firestore, and the app shows them. Firestore's client is part of the repository
(`Pods/FirebaseFirestore`), and everything the app shows comes through it. This
directory holds TLA+ modules of the
parts of it that have state, the TLC configurations that check them and TLAPS
proofs about them. All paths below are under `src/HRApp/HRApp/` unless they
start with `src/` or `Pods/`; `core/` is
`Pods/FirebaseFirestore/Firestore/core/src/`.

## 1. Inventory

| Component | State it keeps | Operations | Interacts by |
|---|---|---|---|
| `AppDelegate.swift` | `window.rootViewController` | `didFinishLaunching`, the auth state listener | called by the auth client on the main queue; replaces the root screen |
| Auth client (`Pods/FirebaseAuth`) | `_currentUser`, its keychain copy, `_lastNotifiedUserToken` | sign-up, sign-in, `reload`, `sendEmailVerification`, `delete`, refreshing the token, loading the keychain, forced sign-out | a serial work queue; completions and notifications dispatched to the main queue; reads and writes of the keychain, which may fail |
| Registration (`Modules/Registration`) | `title`, `data`, `texts`, the cells of a table | tap sign-up / sign-in, switch between the two, typing | calls the auth client; its completions write `users/<uid>` and may replace the root |
| Verification (`Modules/Verification`) | a one-second timer, weak router and binder | `reload` each second, mail on appearing, delete on disappearing | calls the auth client; replaces the root by WhoAmI |
| `DatabaseManager` | static `user`, static `subscribers`, Firestore listeners that are never removed | `startListen`, `update`, `deleteUser`, `notify` | every subscriber's `notified()` on every snapshot, synchronously |
| Home (`Modules/Home`) | a table over `user.hrcvs`, an Rx subscription per dequeued cell | `notified`, cell taps, `showResults` | subscribed to `DatabaseManager` for ever |
| Results (`Modules/Results`) | `users`, `usersTotalRank` | two chained document reads, `notified`, row taps | reads Firestore, re-notifies all subscribers |
| DetailUser (`Modules/DetailUser`) | metrics of one pair | reads a document, shows it | pushed by Results |
| Extra, Detail, Tags (`Modules/Extra`, `Detail`, `Tags`) | the vacancy or résumé being edited, in `LocalbaseManager` relays | editing cells, adding / deleting items, save, cancel, done | shared relays, presentation callbacks |
| WhoAmI (`Modules/WhoAmI`) | nothing | nothing (its binder is never bound, so Extra cannot be reached from the running app) | a dead end |
| Firestore reads (`core/api`, `core/core`, `core/local`) | queries and their listeners, views, targets with their resume tokens, the document cache, tasks of a worker queue | `getDocument`, `addSnapshotListener`, removing a registration, applying a remote event, a change of the online state | called on the main queue, works on its own, gives events back on the main queue |
| Firestore connection (`core/remote`) | the watch stream with its backoff and idle check, the online state with its timeout, the targets watched, the change aggregator | listening, stopping, opening, closing, restarting, messages of the backend | told by the reads what to watch; tells them of snapshots, refusals and its online state |
| Notebook (`src/AviaHack/*.ipynb`) | nothing | validity filter and scores of a vacancy/résumé pair | reads and writes Firestore |

### What is hard here

* **Three schedulers.** The main queue runs the screens, the auth client has a
  work queue of its own, the network answers in any order. The screens read the
  *current* user whenever they happen to run, so every completion may find
  somebody else, or nobody, signed in.
* **Destructive callbacks.** Disappearing, for whatever reason, deletes the
  account unless a cached flag says that it is verified.
* **Restart.** The window shows Registration before the keychain is read;
  afterwards the listener must take a restored session away from it.
* **A session in two places.** The user is in memory and in the keychain. A write,
  a removal or a read of the keychain may fail; some of them are given up then, others
  change the memory all the same.
* **Sign-outs nobody asked for.** Any call on the user, and any refresh of its token,
  may be answered by an error that signs the client out on the work queue.
* **Statics and subscriptions that are never undone.** Listeners, subscribers
  and Rx subscriptions only accumulate, and are run again by each snapshot.
* **Two asynchronous answers joined by position** in Results.
* **Several tables of one thing.** A read of Firestore is a listener, a query, a
  view, a target and a target state in five classes that change one after the
  other, while a removal is queued, an answer is under way and the stream breaks.
* **Answers that belong to something earlier**: credentials of a closed stream,
  answers to the watch before the present one, events of a removed listener, the
  resume token of a target that was watched before.
* **Waiting that must end.** A get waits for a synced snapshot or for the client
  to be offline, whichever comes first and whenever it came.

### What makes each component correct

* *AppDelegate, auth client, Registration and Verification calls*: the screen
  belongs to the account that is signed in; nobody is believed verified who is
  not; a relaunch resumes the session the app had, or the one before a failed
  write; only a server that turns the account away ends a session; an account is deleted only on the order of a device that holds it
  and believes it unverified; a user who opens the link gets on.
* *DatabaseManager, Home, Results, DetailUser*: a table never indexes past its
  array; Home shows the vacancies of the last snapshot; each screen reads its
  scores once and every résumé as often as it is told to; the first two rows end
  with the right scores in whatever order the answers come.
* *Firestore reads*: a get is answered once, and a read is never shown an older
  state after a newer one; from the cache only when the client is offline; every
  get is answered, and a listener comes to show the document as it is; the tables
  agree after every task, nothing stays watched for a read that is over.
* *Firestore connection*: no assertion of one class about the others fails; the
  stream is there exactly while something is watched; the online state and its
  timeout never outlive the attempt they are about; the answers owed are counted.
* *Registration form*: what the fields show is what is checked and sent.
* *Extra, Detail, Tags*, *Notebook*: not modelled, see section 5.

## 2. Modules

| Module | Models | Uses |
|---|---|---|
| `Session` | who is signed in, what the auth client and the server know, which root screen is shown | `AccountLife` (INSTANCE) |
| `AccountLife` | the abstract promise about an account: what a device may believe, delete and forget | |
| `SessionProofs` | theorems about `Session` | `Session`, `TLAPS` |
| `Board` | the snapshots of the account's document, Home, Results and DetailUser, their reads and their tables | |
| `BoardProofs` | theorems about `Board` | `Board`, `FiniteSetTheorems`, `SequenceTheorems`, `TLAPS` |
| `WatchConnection` | the watch stream, the online state and the part of the remote store that drives them | |
| `DocumentReads` | the abstract promise of reading documents | |
| `FirestoreReads` | getDocument and snapshot listeners of documents, from the call to the event, over the connection | `WatchConnection`, `DocumentReads` (INSTANCE) |
| `WatchConnectionProofs` | theorems about `WatchConnection` | `WatchConnection`, `TLAPS` |
| `FirestoreReadsProofs` | theorems about `FirestoreReads` | `FirestoreReads`, `WatchConnectionProofs` (INSTANCE), `SequenceTheorems`, `TLAPS` |
| `FirestoreEventsProofs` | theorems about the versions, tokens and events of `FirestoreReads` | `FirestoreReadsProofs` |
| `FirestoreRefinementProofs` | the proof that `FirestoreReads` implements `DocumentReads` | `FirestoreEventsProofs` |
| `RegistrationForm` | the fields of Registration, the reuse of their cells, the relay the buttons read | |
| `RegistrationFormProofs` | theorems about `RegistrationForm` | `RegistrationForm`, `SequenceTheorems`, `TLAPS` |
| `MCSession`, `MCBoard`, `MCRegistrationForm`, `MCFirestoreReads` | constants, symmetry and a view for TLC | the module they are named after |

In all of them a block of the main queue or of a worker queue, a callback of UIKit or a completion
runs as one step: each queue is serial and none of its blocks yields to another.
What can come between two of them is an action of its own. A process that traps
(a forced unwrap of nil, an index out of range, an assertion of Firestore) stops;
the run-time error is a state the properties can talk about.

### Session

`queue` is the main queue: a FIFO of blocks, each run as one step by a `Run...`
action (`RunNotify` is the auth state listener of `AppDelegate.addListener`,
`RunSignedUp`, `RunSignedIn`, `RunReloaded` are the completions of the calls,
`RunShowWhoAmI` the completion block of the pop animation). The actions
`LoadKeychain` and `Receive...` are the blocks of the auth client's work queue.
`calls` are the calls in flight: `Execute` is the server, `Lose` the network;
answers are received in any order. A sign-up or a deletion whose process was killed
becomes an `orphan`: the server may still execute it, nobody gets the answer. `Tick` is
Verification's timer, `Tap`, `OpenLink`, `Kill` and `Launch` are the user, and
`Deallocate` is the moment a replaced view controller goes away, on which the
weak references of routers and binders depend (`lingering`).

The server may turn an account away: `server[a]` is "barred" once it has been disabled
or its token was refused (it may be made good again), "deleted" for good after a
deletion. The answer "gone" stands for all errors of
`signOutIfTokenIsInvalidWithError`: user not found, user disabled, token invalid, token
expired. It may come to any reload, mail or deletion (`ReceiveGone`), and to the
refresh of a token on its own (`RefuseToken`); a token that is refreshed is saved
with its user and notified of (`RefreshToken`).

Each use of the keychain has a branch in which it fails (`KeychainFails`, counted in
`faults`), with what the code does then: `LoadKeychain` signs nobody in, `ReceiveUser`
installs nobody and gives the completion an error, `ReceiveReload` has overwritten the
flag of the user already, `SignOutByForce` signs out all the same, and the item stays.

The identity of a user object matters in the code (`signOutByForceWithUserID`
compares pointers, `updateKeychain` compares objects), so an object has a number,
`epoch`; a late answer knows the number of the object its call was made on.
`ShowRoot` holds all that changing the root does: the old screen's
`viewDidDisappear` (`OnDisappear`, which may delete) and the new screen's
`viewWillAppear` (the mail).

### AccountLife

What the device promises, with everything of the client left out but the session it
holds, the one it has saved, and the deletions it has ordered. The session it holds is
lost only to a server that turns the account away, the saved one is removed only with
it, and an account is deleted only on the order of a device that held it and believed
it unverified. A saved session may be mislaid until the next restart (`Mislay`), and
one that could not be removed comes back with it (`Restart`).

`Session` implements it (`AccountLifeRefined`) under the mapping `saved <- keychain`,
`orders <-` the accounts of the delete calls in flight, and `session <- Held`: the user in
memory, or the saved one until the keychain is read. Screens, and launches, are
stuttering steps. The promise does not forbid the deletion of an unverified account by
a screen that is replaced: the code does that, and the account is held and believed
unverified.

### Board

The recruiter is signed in and Home is the root (so the user that
`ResultsViewController.viewDidLoad` unwraps by force is there: a forced sign-out while
Home is the root is in `Session`, not here). `stored` is the document
`users/<uid>`; `Change` rewrites it (the notebook, the console, another device
and the app itself all do) and `Snapshot` is the listener's block: it decodes
(`Decode`), then calls every subscriber, the Homes first (`NotifyHomes`, which
may trap: `Unreadable`) and then every Results screen ever made (`Ask`).
`results[i]` is one Results screen: `asked` counts the reads it still waits for,
by kind; `users` and `ranks` are its `users` and `usersTotalRank`; `rows` is what
its table shows since the last layout and `dirty` says that a `reloadData` waits
for one. `AnswerOwn`, `AnswerPair`, `AnswerResume`, `AnswerMetrics` and `Fail`
are the completions of `getDocument`. `binds` and `taps` count the Rx
subscriptions of one button and one table: each dequeue and each appearance adds
one, none is disposed, and one tap runs them all (`TapSearch(n)`, `TapRow`).
`TapSearch(n)` allows every n up to the number of subscriptions, because a
cell that is dequeued may be a new one.
`EndProcess` ends the process for a kill as well as for a trap: its memory is
gone, and `trap` keeps the reason until `Relaunch`.

One account per process is modelled: the listeners of accounts signed in before
(`Session!listening`) go on writing to the same static `user`, which is left
out: nothing in the code separates two accounts there. The documents of `user1`,
`user2` and of the pair are taken for complete, as the notebook writes them; a
failed read of one traps (`Fail`).

### WatchConnection

`conn` is one record: `stream`, `token`, `stale`, `backoff` and `idle` are the
stream (`core/remote/stream.cc`), `online`, `failures` and `timer` the online
state tracker, `targets` and `enabled` the remote store. A task of the worker
queue calls through all three classes and back before it returns, so each method
is an operator from a connection to a connection (`CloseStream` calls
`OnWatchStreamClose`, which may call `StartWatchStream`, which calls
`HandleWatchStreamStart`) and an action is a whole task. Every `HARD_ASSERT` on the
way adds to `failed` when it does not hold. Credentials come asynchronously: those
asked for by a stream that was closed since are counted in `stale` and ignored on
arrival, as the code does by `close_count_`. The backend and the channel are the
environment, in the actions at the end.

### FirestoreReads

`conn` is the record above, changed only by the operators above. `work` are the
tasks calls have put on the worker queue (`AddQueryListener`,
`RemoveQueryListener`), `client` the views with their listeners, `raised` those
who have had their first event, and an `inbox` of events per reader on the main
queue (`Deliver`). `muted` are the registrations removed. `agg` is the change
aggregator (`out` the answers owed, `current`, and what was gathered since the
last snapshot), `store` what the local store keeps of a document: its cached
state, its resume token and whether the target contains it. `wire` is the
backend's side: the requests under way and what it serves. A document's content
is its version; `Deletions` are the versions in which it does not exist.

Each message of the backend is an action of the aggregator (`TargetAdded`,
`TargetRemoved`, `TargetFails`, `DocumentChanges`, `ExistenceFilter`,
`TargetCurrent`); `Snapshot` is a consistent snapshot with all that
`RaiseWatchSnapshot` does: the remote event, the local store, the views, the
events. `HandleOnlineStateChange` is called wherever the tracker broadcasts,
within the same task.

What is assumed of the environment:

* A message carries what the backend knows when it arrives: requests and messages
  of one stream keep their order, so the two delays are one. A snapshot comes only
  when the backend has told something of each target it serves, possibly before it
  is current.
* The backend ends a stream always with an error (never with the status OK, on
  which `OnWatchStreamClose` would assert while something is watched).
* A target may be refused at any moment: when it is asked for, when it is served, and
  after it was withdrawn or watched again. What the backend answers to an
  unwatch under way when it refuses the target cannot be read from the code: it may
  answer it or not (`LeftBy`).
* Every query is that of one document, as HRApp's are. What the app itself writes
  reaches the reads as a write at the backend, not as a pending one in the cache.

`ProcessTargetError` takes a refusal for no answer: that of a target that was
withdrawn is ignored, that of a document watched again ends its target state with
the count of what is under way. In both the count of answers owed no longer fits the
requests, until the stream ends. `wire[d].crossed` remembers on which documents
this has happened on the present stream; it is read by properties, by no action.

Of the code these actions translate, this is left out: the reset of a target by the
backend (`remote_event.cc` 182-190), a document change that removes a target without
naming a document (136-139, which leads to limbo documents), and the test that a snapshot
is not older than the last one (`remote_store.cc` 282-283), since versions of
snapshots here only grow.

`DocumentReads` is what all this promises: a get is given one state the document
has had or fails, a listener is given such states and none older than the last
one (unless it was told in between that there is none). `FirestoreReads` implements
it with `db` and `reads` mapped to themselves; the views, the stream and the
backend are stuttering steps.

### RegistrationForm

`texts` is the relay of that name, `cells[row]` the cell on screen for a row,
`shown[c]` the text in a cell, `bound[c]` the rows its text is bound to: the
binding made when a cell is configured is disposed with the binder and not on
reuse, so it grows. `Switch` clears `texts` and reloads; `Layout` dequeues cells
for the rows, in any assignment, since UIKit does not say which reused cell comes
back. Taps and edits need a table that has been laid out, as an event is
delivered after the frame; a block of the main queue may run before the layout,
since the run loop drains the queue before Core Animation commits.
`Submit`, `Refused`, `SignedUp` and `SignedIn` are the upper button and the
completions of its two calls; what the calls do is in `Session`.

## 3. Checks

| Run | Bounds | Checks |
|---|---|---|
| `session` | 2 accounts, 2 calls, queue of 3, 2 user objects, 1 failure of the keychain in a life of the process | `TypeOK`, `ListenerCatchesUp`, `VerificationShowsCurrent`, `RelaunchResumesSession`, `BelievedVerifiedIsVerified`, `TrapsOnlyAfterRefusal`, `SessionEndsOnlyByRefusal`, `AccountLifeRefined` |
| `session_live` | 1 account, 2 calls, queue of 2, 1 user object, 1 failure | `VerifiedLeavesVerification`, `SessionLeavesRegistration` under `FairSpec` |
| `session_trap` | 1 account | *violated*: `ReloadFindsUser` |
| `board_home` | 4 documents and none, 2 Homes, 1 Results | `TablesInBounds`, `HomeShowsVacancies`, `NotifiedAfterSnapshot` |
| `board_results` | 1 document and none, 2 Results, 2 notifications each, 2 subscriptions | `TypeOK`, `ScoresReadOnce`, `EveryNoticeServed`, `MatchSettles` |
| `board_live` | 1 Results, 2 subscriptions, 2 DetailUser reads | `DetailsServed`, and `MatchIsShown` under `FairSpec` |
| `board_path` | 1 Results | *violated*: `DetailHasPath` |
| `reads` | 1 document with 2 writes, one a deletion; a listener and a get; 1 break or restart, 1 stale request | `TypeOK`, `NoAssertFails`, `OnlineStateFollowsStream`, `StreamServesTargets`, `TablesAgree`, `NothingLeftWatched`, `AnswersCounted`, `CachedOnlyOffline`, `ReadsRefined`, `ConnectionRefined` |
| `reads_live` | the same without breaks of a stream that answers | `GetAnswered`, `ListenerConverges` under `FairSpec` |
| `reads_current` | 1 document, first missing; two gets | *violated*: `CurrentIsCaughtUp` |
| `form` | 4 texts (empty, an address, two passwords), 3 cells | `TypeOK`, `TextsMatchRows`, `FieldsAgree`, `SentIsValid`, `ConfirmedOnFirstForm`, `TrapsOnlyInSwitch` |
| `form_sent` | as `form` | *violated*: `ShownIsSent` |

### Why the bounds are enough

* `session`: two accounts and two user objects are what it takes for an answer to
  find somebody else signed in; two calls are what it takes for one answer to
  overtake another; a queue of three holds a notification and two completions. A
  block that would overflow the queue waits, which only delays the work queue.
  `MaxEpoch` bounds the sign-ins of one life of the process, and relaunches are
  not bounded. `MaxFaults` bounds the failures of the keychain in one life of the
  process, not over its lives. A refreshed token is notified of only while the main
  queue is empty, since that notification finds nothing new, and a user who changes
  before it runs is notified of once more; a token is refused on its own only while
  no call on the user object is under way, since such a call may be answered by the
  same refusal. The run has 1.47 million distinct states. Accounts and call ids are
  interchangeable in `Init`, `Next` and
  all properties of the run, so symmetry is sound (it is not used for liveness,
  and `AccountLifeRefined` and `SessionEndsOnlyByRefusal` are safety). The VIEW
  leaves out what no action and no property but `TypeOK` reads: `document`, the
  confirmation of a deleted account nobody holds any more, of a call of an earlier process
  the object it was made on, and replaced screens nothing will look for. It takes Home and
  WhoAmI for one, which act alike.
* `board_home` needs two Homes (a root and one it replaced) and documents of both
  types with no, one and two vacancies; the subscriptions of one button are
  bounded to one, as doubled pushes are the matter of `board_results`.
* `board_results` needs two Results screens, as the second notifies the first, and
  two notifications, as the second appends the résumés again. DetailUser is left
  out of it (`MaxDetails = 0`) and is in `board_live`.
* `reads` and `reads_live`: two readers of one document are what it takes for a
  reader to join or leave a view another reader keeps, and for a document to be
  unwatched and watched again on one stream (a get is over when the listener is
  added). Documents meet only in the stream and in a snapshot, so that a second
  one would mostly multiply states; the proofs hold for any number. Three
  versions with a deletion in the middle have a document that appears, goes and
  comes back. `MaxBreaks` bounds breaks of a stream that has answered, and
  restarts; a silent stream breaks as often as it likes. `MaxStale` bounds the
  credential requests of closed streams that a restart may leave. A refusal may cross an
  unwatch in both runs: the get and the listener come and go while it is under way. `reads` has
  697 thousand distinct states, `reads_live` 83 thousand.
  Not a run of its own: with three writes, two of them deletions, and no break,
  `ReadsRefined` holds in all 378 thousand states, and with a second get and no break in
  all 4.6 million.
* `form`: three cells are all the form ever has; two passwords are what it takes
  for two fields to differ; the address is also a valid password, as in the code
  (`isPassword` asks for six characters). One request is in flight at a time.

### Fairness

`Session!FairSpec`: GCD runs the blocks of the main queue and of the work queue;
in the code a block is never held up, here it may wait for a free call id, so
strong fairness stands for it. A call ends in an answer or in the time-out of
`URLSession`. The timer fires while its screen is shown. That of the reloads the
timer sends every second *some* are executed and answered is an assumption about
the network (strong fairness of one `Execute` and one `ReceiveReload`); without it
nobody could promise that Verification is ever left. Nothing is assumed of the
user, of kills, or of deallocation. The keychain may fail, but only finitely often in
a life of the process (`MaxFaults`). Both properties end where nothing can be promised:
`VerifiedLeavesVerification` with an account the server has turned away,
`SessionLeavesRegistration` with a keychain that has failed: a session that cannot
be read at launch stays on disk, and the app on Registration, until it is launched again.

`Board!FairSpec`: UIKit lays a table out in the end, and `getDocument` calls its
completion with a document or an error. Nothing is assumed of the document, the
user or the snapshots.

`FirestoreReads!FairSpec`: the queues are run, credentials and timers come.
Nothing is assumed of a backend that has not answered yet, but that a silent
stream does not stay: the channel is set to break it after 30 seconds without an
answer to its keepalive (`core/remote/grpc_connection.cc` 265), hence weak fairness
of `StreamBreaks` while the client is not online. A stream that has answered goes
on answering: weak fairness of the messages and of snapshots while online. In
`reads_live` such a stream does not break (`MaxBreaks = 0`); `ListenerConverges`
says so too, as it promises nothing to a client that is not online. `GetAnswered`
holds without: the branch in which the backend never answers is in the run, and
there the get ends by the client going offline. Both properties end with a refusal that
has crossed an unwatch (`crossed`): then the target may stay pending for as long as the
stream lives, and neither the code nor a keepalive that is answered ends it. Calls,
writes, refusals and existence filters are not fair.

`RegistrationForm` has no liveness property: nothing in it must happen.

### What the violated runs show

* `session_trap`: VerificationBinder.swift 41 unwraps `currentUser` in the
  completion of `reload`. If the screen has been left unverified, the account is
  being deleted, and the client may be signed out by the answer before the
  completion runs: the app traps. A token that is refused meanwhile does the same.
  `TrapsOnlyAfterRefusal` shows that it never happens while the server turns no
  account away, whatever the keychain does.
* `board_path`: the table shows a résumé as soon as it is there, and a row may be
  tapped before the uid of the pair has arrived; Firestore asserts on a path of
  one segment.
* `reads_current`: when a document is unwatched and watched again before the answer
  to the unwatch is there, the target state keeps `current` of its first watch:
  `HandleTargetChange` erases it only when no request is pending, and a freshly
  added target clears only its pending changes. `remote_event.h` 156-160 says that
  current implies that the backend has sent all there was when the target was
  added. `ReadsRefined` shows that no reader is given anything older for it.
* `form_sent`: after switching to sign-in and back, cells write to rows they no
  longer show. The e-mail or the password sent is not the one in its field.
  `FieldsAgree` shows that nothing else sets the two apart.

## 4. Proofs

Every invariant and every action property of the passing runs, and all three
refinements, are theorems for any values of the constants; that of `DocumentReads` is
one about executions in which no refusal crosses an unwatch. What is left to TLC
alone is liveness, and that refinement in the other executions.

### Session

`SessionProofs` proves, for any set of accounts and calls and any bounds, from
`NoAccountAssumption` and `BoundAssumption` only:

| Theorem | States |
|---|---|
| `TypeCorrect` | `Spec => []TypeOK` |
| `Invariant` | `Spec => []IInv` |
| `Beliefs` | `Spec => []BelievedVerifiedIsVerified` |
| `Resumes` | `Spec => []RelaunchResumesSession` |
| `SessionEnds` | `Spec => SessionEndsOnlyByRefusal` |
| `ListenerNeverMisses` | `Spec => []ListenerCatchesUp` |
| `VerificationIsCurrent` | `Spec => []VerificationShowsCurrent` |
| `TrapsAfterRefusal` | `Spec => []TrapsOnlyAfterRefusal` |
| `LifeRefined` | `Spec => AccountLifeRefined` |

None of these properties is inductive. That the flag of the keychain is right
rests on the flags of the answers that may still arrive; that a forced sign-out
ends the right session rests on which user object each call in flight was made
on. `IInv` adds the two: `UserInv` says that the client's user is an account that
exists, that its number is at most `epoch`, that the keychain once loaded never holds
another account than a client that is signed in, and that the two agree until a failure is
counted in `faults`; `CallInv` says of each call on the object that is now current that
it is about the current account, and of each answer that the server had reason to
give it: a flag only for a confirmed account, a forced sign-out only for one that the
server has turned away, for whatever reason. That memory and keychain agree at most until
a failure is part of the invariant, not an assumption of it. The proof has one lemma per action over a few frame lemmas (`UserFrame`: the
client is not touched; `CallFrame`: calls are only sent; `AdoptInv`: a user
nothing in flight is about is installed; `EndInv`: the process ends). The
action property and the refinement follow from `IInv` and one step.

The last three invariants are about what waits on the main queue, so they add two
invariants of their own. `ListenerInv`: if the listener has seen somebody, it
listens for them, Registration is gone, and a Verification screen is the one made for
them; and it has seen the client's user unless a notification waits. It is the
seen user, not the current one, that these facts hold of at every moment.
`TrapInv`: while no account is turned away, an answer to a reload that is in flight or
waits as a block means that somebody is signed in; only a sign-in and the end of the
process change who it is then, as every forced sign-out needs an account turned away
(`CallInv`). A failure of the keychain takes nobody's session out of memory: at most
it is not restored at launch, before any reload.
The queue is reasoned about as the set of its blocks (`BlocksIn`, with `QueueAppend`,
`QueueConcat` and `QueueTail`): neither argument needs the order.

### Board

`BoardProofs` proves, for any documents and any bounds, from the assumptions of
`Board` only, every invariant of the three runs:

| Theorem | States |
|---|---|
| `Invariant` | `Spec => []IInv` |
| `BoardTypeCorrect` | `Spec => []TypeOK` |
| `TablesStayInBounds` | `Spec => []TablesInBounds` |
| `HomesShowVacancies` | `Spec => []HomeShowsVacancies` |
| `NamesKnownWhenNotified` | `Spec => []NotifiedAfterSnapshot` |
| `EachScoreReadOnce` | `Spec => []ScoresReadOnce` |
| `NoticesAreServed` | `Spec => []EveryNoticeServed` |
| `MatchIsSettled` | `Spec => []MatchSettles` |
| `DetailsAreServed` | `Spec => []DetailsServed` |

What a Home shows needs that nothing is shown before the first snapshot
(`NothingUnknown`). What a Results screen shows is a property of that screen alone,
`ScreenSound`: its scores arrive in one order because the pair's read is made by
the answer to the own (`ScoresSound`); each notice is a résumé received or awaited, and
there has been one at least (`NoticesSound`); and a table laid out has the scores
of the moment it was laid out (`TableSound`). Each thing that happens to a screen
is an operator with a lemma that keeps it sound (`OwnScoreSound`, `ResumeSound`,
`LaidOutSound`, ...), and one lemma, `ScreenStep`, carries such a step of one
screen to the board. That an older screen has had more notices (`InOrder`) needs that
the newest has had one: a screen made in the middle of a notification is
notified after, and fewer times than, all before it. `DetailsServed` compares the
cardinality of the screens that wait with the reads under way, so its step needs
that a tap pushes as many screens as it makes reads.

### Registration form

`RegistrationFormProofs` proves, for any texts, addresses and passwords, from
`TextsAssumption` only, every invariant of the run `form`: `FormTypeCorrect`,
`TextsMatch`, `FieldsAgreeAlways`, `OnlyValidSent`, `Confirmed` and
`TrapsInSwitch`. Together they are not inductive: that an edit writes at its own
row needs that the cell on screen is bound to it, that it writes at no other needs
that cells on screen differ, and a layout is only right because texts is empty
before it. The inductive invariant `FormInvariant` (`IInv` of that module) adds
these facts (`BindingsInv`, `SwitchInv`); there is one lemma per action.

### Firestore

`WatchConnectionProofs` proves, for any documents and any `MaxStale` and from no
assumption, that `NoAssertFails`, `OnlineStateFollowsStream` and
`StreamServesTargets` hold of `WatchConnection` (`AssertsHold`, `OnlineFollows`,
`StreamServes`; types: `ConnectionTyped`). The invariant is `Sound` of every
connection between tasks (`ConnectionSound`): the credential request belongs to a
stream that is starting, the backoff to one that backs off, the idle check to an
open one without targets; the timeout runs only without failures and while the
state is unknown. No assertion can be derived without it: that the timeout is not
running when a stream starts needs that failures, timers and the state of the
stream move together. There is one lemma per method, stated for any sound connection,
so that a caller's proof cites its callee's lemma as its code calls it.

`FirestoreReadsProofs` proves for any documents, readers, deletions and bounds,
from `ReadersAssumption` only, every invariant of the run `reads` and one of its
refinements:

| Theorem | States |
|---|---|
| `ReadsSound` | `Spec => []IInv` |
| `ReadsDriveConnection` | `Spec => ConnectionRefined` |
| `ReadsTyped` | `Spec => []TypeOK` |
| `ReadsAssertNothing`, `ReadsOnlineFollows`, `ReadsStreamServes` | the three of the connection, whatever is read |
| `ReadsTablesAgree` | `Spec => []TablesAgree` |
| `ReadsLeaveNothing` | `Spec => []NothingLeftWatched` |
| `ReadsCountAnswers` | `Spec => []AnswersCounted`, which speaks of documents on which no refusal has crossed an unwatch |

`IInv` has four parts beside the types. The connection is sound, by the lemmas of
`WatchConnectionProofs`: this is where the two compose, and why a message is only
taken from an open stream and nothing is unwatched that is not watched. The
answers owed are the requests under way, the last of which says whether the
document is still watched (`AnswersOwed`): without it nothing ties an active
target to a backend that serves it. This part holds of a document until a refusal
crosses an unwatch of it, and again on the next stream; all the others hold whatever
is refused when. The tables agree (`Tables`). And of each
reader (`ReadersSound`): it is in no table before the task that adds it, in none
after an error, and after a get only until the task that removes it, which needs
that each is queued once and that an error in the inbox means that the query is
gone. There is one lemma per action over frame lemmas (`ConnectInforms`: the views
hear of a connection; `OneTarget`: one target's requests change; `ListenerAdded`,
`ListenerRemoved`).

`FirestoreEventsProofs` and `FirestoreRefinementProofs` prove what the readers are
given, from `ReadersAssumption` and `DataAssumption` (the model values for "nothing
known" and "forget it" are no versions and no contents):

| Theorem | States |
|---|---|
| `GetsWaitForSync` | `Spec => CachedOnlyOffline` |
| `EventsAlwaysSound` | `Spec /\ []NothingCrossed => []EventsSound` |
| `ReadsKeepPromises` | `Spec /\ []NothingCrossed => ReadsRefined` |

`GetsWaitForSync` holds of every execution. The other two are about those in which no
refusal crosses an unwatch (`NothingCrossed`); refusals of targets that are watched are
in them. After a crossing the count of answers owed may be too low, a target be
taken for active before its watch was answered, and an earlier answer take its token
back, so that the argument below has nothing to stand on. TLC finds `ReadsRefined` true of
the run `reads` and of the larger instances of section 3, crossings included, and that is
all that is known of them. It refutes
`GetAnswered` and `ListenerConverges` if the escape for crossings is taken away: a get answered
offline withdraws its watch, the watch is refused and ignored, and the next get of the
document waits for an answer that is not owed until the stream ends.

Three things have to be known of the way a version takes from the backend to a reader.

* *Versions and tokens* (`TokensSound`): nothing told, gathered, stored or resumed from
  is newer than the document; over an open stream, what is watched was asked for with
  the token the store has now, so that the backend has told that much once it has
  answered, and an update gathered is newer than the token; and something is gathered
  only over an open stream, while the client is online.
* *Views* (`SyncedRaised`, `News`): what a task adds to an inbox is a snapshot of the
  view its listener is on; a listener of a view in sync has had one. So a get hears of the cache only
  in the change to offline or while that state lasts, which is `CachedOnlyOffline`.
* *Readers* (`ReaderFollows`): the events that wait follow each other and what was
  given, and what the store stands for, its cached version or else its token
  (`KnownVersion`), is not older than the last of them. This is where a plain
  order on the cache does not hold: a purge empties it, and the next version
  told may be older than what was shown. The token bounds what the backend may tell
  then; and where a purge comes before its token, the view is out of sync and tells
  its listeners of the purge, or none of them was given anything (`PurgeSound`).

With `EventsSound`, which joins the three to `IInv`, each `Deliver` is a step of
`DocumentReads` (`DeliverRefines`), each call and each write is one, and everything
else leaves `db` and `reads` alone (`NextRefines`).

### Only model-checked

The liveness properties (`VerifiedLeavesVerification`, `SessionLeavesRegistration`,
`MatchIsShown`, `GetAnswered`, `ListenerConverges`): fairness and ENABLED are out of
the reach of TLAPS.

## 5. Not modelled

* Views, fillers, presenters, assemblies, the keyboard, alerts: presentation.
* WhoAmI beyond being a terminal root. Extra, Detail and Tags: nothing opens them
  (`WhoAmIRouter.showExtraView` and `AppDelegate.pushExtra` have no caller, and
  WhoAmI's binder is never bound). A model of them would be of states the program
  is never in.
* Of Firestore: collection queries and the resets an existence filter
  makes for them, pending writes and their overlay on the cache, limbo documents,
  `disableNetwork` and
  `terminate` (HRApp calls neither), garbage collection, and what is kept between
  launches: a process starts with an empty cache. The timeout that
  `StopListening` may take from a stream still starting is not a property that
  holds (`WatchConnection!EveryAttemptTimed`); the hazard is listed.
* The other pods, by far the largest part of the repository (gRPC, BoringSSL,
  leveldb, abseil, RxSwift): libraries, not logic of this program. Of FirebaseAuth,
  what HRApp relies on is in `Session`; UIKit and RxSwift appear as what their
  callers see.
* The notebook: a script that runs once per pair and keeps nothing. Its parsing
  and its trained regression are calls of libraries; its filter and scores are
  single expressions, and a model would restate each.

## 6. Plan

Done: `Session`, `AccountLife`, `Board`, `RegistrationForm`, `WatchConnection`,
`DocumentReads`, `FirestoreReads`, with the proofs of all their safety properties and
refinements (that of `DocumentReads` as long as no refusal crosses an unwatch).

Next, in this order:

1. Theorems about the promises themselves: what `AccountLife` and `DocumentReads`
   imply, so that it need not be read off their actions.
2. The safety part of the liveness arguments: that while something is waited for, a
   step that makes progress on it is possible.
3. What the reads still promise on a stream on which a refusal has crossed an unwatch.
4. Firestore's pending writes: the mutation queue, its overlay on the cache and the
   write stream, beside the reads.
