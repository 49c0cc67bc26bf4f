------------------------------ MODULE Session ------------------------------
(***************************************************************************)
(* Who is signed in, what the Firebase Auth client knows about it, and     *)
(* which screen the window of HRApp shows for it.                          *)
(*                                                                         *)
(* Three actors run concurrently: the main thread, which drains a FIFO of  *)
(* blocks (the auth state listener, the completions of the calls); the     *)
(* work queue of the auth client, which handles the answers of the server  *)
(* and rewrites the current user; and the network, which executes the      *)
(* calls and returns, reorders or loses their answers.  The user taps,     *)
(* opens the link of the e-mail, kills the app and launches it again.      *)
(* The server may turn an account away (disabled, token invalid or         *)
(* expired), and reading and writing the keychain may fail.                *)
(* One block of the main queue runs as one step.                           *)
(***************************************************************************)
EXTENDS Integers, Sequences, FiniteSets

CONSTANTS Accounts,     \* the accounts (uids) of the auth server
          NoAccount,    \* nobody
          CallIds,      \* the calls that can be in flight together
          MaxQueue,     \* bound: blocks waiting on the main queue
          MaxEpoch,     \* bound: user objects made in one life of the process
          MaxFaults     \* bound: failures of the keychain in one life of the process

ASSUME NoAccountAssumption == NoAccount \notin Accounts
ASSUME BoundAssumption == {MaxQueue, MaxEpoch, MaxFaults} \subseteq Nat

VARIABLES
  server,       \* server[a]: "none", "live", "barred" or "deleted"
  confirmed,    \* accounts whose e-mail address the server holds for verified
  document,     \* accounts whose document users/a in Firestore was written
  process,      \* "running", "stopped" (never launched, killed) or "trapped"
  loaded,       \* the auth client has read the keychain
  keychain,     \* the session saved on disk
  faults,       \* failures of the keychain since launch
  current,      \* _currentUser: uid, the object's number, its verified flag
  epoch,        \* number of user objects made since launch
  seen,         \* previousUserID of the auth state listener
  listening,    \* accounts startListen attached a Firestore listener for
  queue,        \* blocks waiting on the main queue
  calls,        \* calls in flight
  root,         \* rootViewController of the window
  lingering     \* replaced view controllers that are not deallocated yet

serverVars  == <<server, confirmed, document>>
clientVars  == <<loaded, keychain, faults, current, epoch>>
uiVars      == <<seen, listening, root, lingering>>
vars == <<serverVars, process, clientVars, uiVars, queue, calls>>

----------------------------------------------------------------------------
(* State *)

SignedOut  == [uid |-> NoAccount, epoch |-> 0, verified |-> FALSE]
NoneSaved  == [uid |-> NoAccount, verified |-> FALSE]
SignedIn   == current.uid # NoAccount
Saved(user) == [uid |-> user.uid, verified |-> user.verified]

\* A view controller of Registration is number 0, a view controller of
\* Verification has the number of the user object it was made for.
Screen(kind, vc, uid) == [kind |-> kind, vc |-> vc, uid |-> uid]
Registration == Screen("registration", 0, NoAccount)
Home         == Screen("home", 0, NoAccount)
WhoAmI       == Screen("whoami", 0, NoAccount)
Verification == Screen("verification", current.epoch, current.uid)

Block(do, vc) == [do |-> do, vc |-> vc]
Notify == Block("notify", 0)

Running == process = "running"

\* The process has just been created: application(_:didFinishLaunching...)
\* shows Registration, and adding the listener posts its first call.
Launched ==
  /\ loaded = FALSE /\ current = SignedOut /\ epoch = 0 /\ faults = 0
  /\ seen = NoAccount /\ listening = {}
  /\ queue = <<Notify>>
  /\ root = Registration /\ lingering = {}

Init ==
  /\ server \in [Accounts -> {"none", "live"}]
  /\ confirmed \in SUBSET {a \in Accounts : server[a] = "live"}
  /\ document = {}
  /\ process = "stopped"
  /\ keychain = NoneSaved
  /\ calls = {}
  /\ Launched

----------------------------------------------------------------------------
(* Calls to the auth server *)

Request(op, uid, number, vc) ==
  [op |-> op, uid |-> uid, epoch |-> number, vc |-> vc]

\* sendEmailVerification, reload and delete are methods of the user object.
OfCurrent(op) == Request(op, current.uid, current.epoch, root.vc)

Free == CallIds \ {c.id : c \in calls}

Send(requests) ==
  \E id \in [requests -> Free] :
    /\ \A r, s \in requests : id[r] = id[s] => r = s
    /\ calls' = calls \cup
         {[id |-> id[r], req |-> r, stage |-> "sent", flag |-> FALSE,
           orphan |-> FALSE] : r \in requests}

\* The server has turned the account away: it is disabled, its tokens are
\* revoked or expired, or it is deleted.
TurnedAway == {"barred", "deleted"}
TurnAway(a) == IF server[a] = "live" THEN [server EXCEPT ![a] = "barred"] ELSE server

\* The answers the server may give to a call it executes now.  "gone" are the
\* errors that sign the client out (user not found, user disabled, token invalid
\* or expired), to the call itself or to the token refreshed for it.  An account
\* that was turned away once may be made good again; deleted, it is refused.
Answers(c) ==
  LET state == server[c.req.uid]
      fine  == IF state \in {"live", "barred"} THEN {"ok"} ELSE {}
  IN CASE c.req.op = "signUp" -> IF state = "none" THEN {"ok"} ELSE {"refused"}
       [] c.req.op = "signIn" -> fine \cup (IF state = "live" THEN {} ELSE {"refused"})
       [] c.req.op = "delete" /\ state = "deleted" -> {"refused", "gone"}
       [] OTHER -> fine \cup {"gone"}

\* The emailVerified flag the answer carries: only a sign-in and a reload look
\* the account up.
Reported(c, answer) ==
  answer = "ok" /\ c.req.op \in {"signIn", "reload"} /\ c.req.uid \in confirmed

Execute(c) ==
  /\ c.stage = "sent"
  /\ \E answer \in Answers(c) :
       LET uid == c.req.uid
           ok(op) == answer = "ok" /\ c.req.op = op IN
       /\ server' = CASE ok("signUp")    -> [server EXCEPT ![uid] = "live"]
                      [] ok("delete")    -> [server EXCEPT ![uid] = "deleted"]
                      [] answer = "gone" -> TurnAway(uid)
                      [] OTHER           -> server
       /\ calls' = (calls \ {c}) \cup
            IF c.orphan THEN {}
            ELSE {[c EXCEPT !.stage = answer, !.flag = Reported(c, answer)]}
  /\ UNCHANGED <<confirmed, document, process, clientVars, uiVars, queue>>

\* The request or its answer is lost, or refused for a reason that concerns no
\* session: the error path of every completion changes no state.
Lose(c) ==
  /\ calls' = calls \ {c}
  /\ UNCHANGED <<serverVars, process, clientVars, uiVars, queue>>


----------------------------------------------------------------------------
(* The work queue of the auth client *)

HasRoomFor(n) == Len(queue) + n <= MaxQueue

\* saveUser:error: replaces or removes the keychain's item, or fails and
\* leaves it as it was.
Save(session) == keychain' = session /\ UNCHANGED faults
KeychainFails == faults < MaxFaults /\ faults' = faults + 1 /\ UNCHANGED keychain

\* updateCurrentUser: every change of the user changes its token, so that
\* possiblyPostAuthStateChangeNotification posts one notification.
Adopt(uid, flag) ==
  /\ current' = [uid |-> uid, epoch |-> epoch + 1, verified |-> flag]
  /\ epoch' = epoch + 1

\* Mutant: the restored user is installed without a notification.
LoadKeychainSilently ==
  /\ Running /\ ~loaded /\ HasRoomFor(1)
  /\ loaded' = TRUE
  /\ UNCHANGED <<keychain, faults>>
  /\ IF keychain = NoneSaved THEN UNCHANGED <<current, epoch>>
     ELSE Adopt(keychain.uid, keychain.verified)
  /\ UNCHANGED <<serverVars, process, uiVars, queue, calls>>

\* Once per process.  A keychain that cannot be read is logged, and nobody is
\* signed in.
LoadKeychain ==
  /\ Running /\ ~loaded /\ HasRoomFor(1)
  /\ loaded' = TRUE
  /\ \/ /\ UNCHANGED <<keychain, faults>>
        /\ IF keychain = NoneSaved
           THEN UNCHANGED <<current, epoch, queue>>
           ELSE Adopt(keychain.uid, keychain.verified) /\ queue' = Append(queue, Notify)
     \/ KeychainFails /\ UNCHANGED <<current, epoch, queue>>
  /\ UNCHANGED <<serverVars, process, uiVars, calls>>

Answered(c, op, stage) == c.req.op = op /\ c.stage = stage /\ ~c.orphan

\* A sign-in or sign-up came back: the listener's notification is queued
\* before the completion.  A user that cannot be saved is not installed, and
\* the completion is given an error, which it shows.
ReceiveUser(c) ==
  /\ HasRoomFor(2)
  /\ \E op \in {"signUp", "signIn"} :
       /\ Answered(c, op, "ok")
       /\ \/ /\ Save([uid |-> c.req.uid, verified |-> c.flag])
             /\ Adopt(c.req.uid, c.flag)
             /\ queue' = queue \o <<Notify, Block(op, 0)>>
          \/ KeychainFails /\ UNCHANGED <<current, epoch, queue>>
  /\ calls' = calls \ {c}
  /\ UNCHANGED <<serverVars, process, loaded, uiVars>>

\* Mutant: the keychain is written whichever object the answer is for.
ReceiveReloadSaves(c) ==
  /\ Answered(c, "reload", "ok") /\ HasRoomFor(1)
  /\ current' = IF current.epoch = c.req.epoch
       THEN [current EXCEPT !.verified = c.flag] ELSE current
  /\ Save([uid |-> c.req.uid, verified |-> c.flag])
  /\ queue' = Append(queue, Block("reloaded", c.req.vc))
  /\ calls' = calls \ {c}
  /\ UNCHANGED <<serverVars, process, loaded, epoch, uiVars>>

\* Mutant: the answer is applied to whoever is the current user by now.
ReceiveReloadForCurrent(c) ==
  /\ Answered(c, "reload", "ok") /\ HasRoomFor(1) /\ SignedIn
  /\ current' = [current EXCEPT !.verified = c.flag]
  /\ Save(Saved(current'))
  /\ queue' = Append(queue, Block("reloaded", c.req.vc))
  /\ calls' = calls \ {c}
  /\ UNCHANGED <<serverVars, process, loaded, epoch, uiVars>>

\* getAccountInfoRefreshingCache: the answer overwrites the flag of the user
\* object the call was made on; the keychain follows if it is the current one.
\* When that fails the flag stays overwritten, and the completion, given the
\* error, prints it.
ReceiveReload(c) ==
  /\ Answered(c, "reload", "ok") /\ HasRoomFor(1)
  /\ LET reloaded == queue' = Append(queue, Block("reloaded", c.req.vc)) IN
     IF current.epoch = c.req.epoch
     THEN /\ current' = [current EXCEPT !.verified = c.flag]
          /\ \/ Save(Saved(current')) /\ reloaded
             \/ KeychainFails /\ UNCHANGED queue
     ELSE UNCHANGED <<current, keychain, faults>> /\ reloaded
  /\ calls' = calls \ {c}
  /\ UNCHANGED <<serverVars, process, loaded, epoch, uiVars>>

\* Mutant: the forced sign-out posts no notification.
SignOutByForceSilently(number) ==
  /\ IF SignedIn /\ current.epoch = number
     THEN current' = SignedOut /\ Save(NoneSaved)
     ELSE UNCHANGED <<current, keychain, faults>>
  /\ UNCHANGED queue

\* Mutant: whoever is signed in is signed out.
SignOutAnybody(number) ==
  IF SignedIn
  THEN /\ current' = SignedOut
       /\ Save(NoneSaved)
       /\ queue' = Append(queue, Notify)
  ELSE UNCHANGED <<current, keychain, faults, queue>>

\* signOutByForceWithUserID compares the uid of the two objects by pointer, and
\* signs out although the keychain's item cannot be removed.
SignOutByForce(number) ==
  IF SignedIn /\ current.epoch = number
  THEN /\ current' = SignedOut
       /\ queue' = Append(queue, Notify)
       /\ Save(NoneSaved) \/ KeychainFails
  ELSE UNCHANGED <<current, keychain, faults, queue>>

\* Mutant: the session ends on any error of the server.
ReceiveRefusal(c) ==
  /\ \/ Answered(c, "delete", "ok")
     \/ \E op \in {"reload", "sendMail", "delete"} : Answered(c, op, "gone")
     \/ \E op \in {"signUp", "signIn"} : Answered(c, op, "refused")
  /\ HasRoomFor(1)
  /\ SignOutByForce(IF c.req.epoch = 0 THEN current.epoch ELSE c.req.epoch)
  /\ calls' = calls \ {c}
  /\ UNCHANGED <<serverVars, process, loaded, epoch, uiVars>>

\* A deletion that succeeded, or signOutIfTokenIsInvalidWithError: the server
\* no longer knows the account, or no longer accepts its token.
ReceiveGone(c) ==
  /\ \/ Answered(c, "delete", "ok")
     \/ \E op \in {"reload", "sendMail", "delete"} : Answered(c, op, "gone")
  /\ HasRoomFor(1)
  /\ SignOutByForce(c.req.epoch)
  /\ calls' = calls \ {c}
  /\ UNCHANGED <<serverVars, process, loaded, epoch, uiVars>>

\* internalGetTokenForcingRefresh, for a call or for Firestore: a new token is
\* saved with its user and notified of, or the saving fails.  Bound: only while
\* the main queue is empty, for that notification finds nothing new, and a user
\* who changes before it runs is notified of once more.
RefreshToken ==
  /\ Running /\ SignedIn /\ queue = <<>> /\ HasRoomFor(1)
  /\ \/ Save(Saved(current)) /\ queue' = Append(queue, Notify)
     \/ KeychainFails /\ UNCHANGED queue
  /\ UNCHANGED <<serverVars, process, loaded, current, epoch, uiVars, calls>>

\* ... or the server refuses a token.  Bound: only while no call on the user
\* object is under way, for one that is may be answered by the same refusal.
RefuseToken ==
  /\ Running /\ SignedIn /\ HasRoomFor(1)
  /\ \A c \in calls : c.orphan \/ c.req.epoch # current.epoch
  /\ server' = TurnAway(current.uid)
  /\ SignOutByForce(current.epoch)
  /\ UNCHANGED <<confirmed, document, process, loaded, epoch, uiVars, calls>>

\* Answers whose completion only prints or shows an alert.
ReceiveNothing(c) ==
  /\ Answered(c, c.req.op, "refused") \/ Answered(c, "sendMail", "ok")
  /\ calls' = calls \ {c}
  /\ UNCHANGED <<serverVars, process, clientVars, uiVars, queue>>

----------------------------------------------------------------------------
(* The main thread *)

\* Mutant: the account is deleted whenever Verification disappears.
OnDisappearAlways ==
  IF root.kind = "verification" /\ SignedIn THEN {OfCurrent("delete")} ELSE {}

\* viewDidDisappear of Verification: the timer stops, and deleteUser is
\* called unless the cached flag of the current user is set.
OnDisappear ==
  IF root.kind = "verification" /\ SignedIn /\ ~current.verified
  THEN {OfCurrent("delete")} ELSE {}

\* window.rootViewController = screen.  Verification asks for the mail in
\* viewWillAppear; the replaced controller disappears and is released later.
ShowRoot(screen) ==
  /\ root' = screen
  /\ lingering' = lingering \cup
       (IF root.kind \in {"registration", "verification"} THEN {root.vc} ELSE {})
  /\ Send(OnDisappear \cup
       (IF screen.kind = "verification"
        THEN {Request("sendMail", current.uid, current.epoch, current.epoch)} ELSE {}))

KeepRoot == UNCHANGED <<root, lingering, calls>>

\* Mutant: the weak reference is gone while the screen is still shown.
VerificationLost(vc) == vc \in lingering

\* The router and the binder are weak references: they answer while their
\* view controller is on screen or not deallocated yet.
RegistrationAlive == root.kind = "registration" \/ 0 \in lingering
VerificationAlive(vc) == root = Screen("verification", vc, root.uid) \/ vc \in lingering

\* The first block of the main queue is of this kind, and is taken.
Takes(do) == Running /\ queue # <<>> /\ Head(queue).do = do
Done == queue' = Tail(queue)

\* Mutant: the listener acts on nobody, too.
RunNotifyNobody ==
  /\ Takes("notify") /\ Done
  /\ seen' = current.uid
  /\ IF seen # current.uid
     THEN /\ listening' = listening \cup {current.uid}
          /\ ShowRoot(IF current.verified THEN Home ELSE Verification)
     ELSE KeepRoot /\ UNCHANGED listening
  /\ UNCHANGED <<serverVars, process, clientVars>>

\* Mutant: the listener acts on the first user only.
RunNotifyOnce ==
  /\ Takes("notify") /\ Done
  /\ seen' = current.uid
  /\ IF SignedIn /\ seen = NoAccount
     THEN /\ listening' = listening \cup {current.uid}
          /\ ShowRoot(IF current.verified THEN Home ELSE Verification)
     ELSE KeepRoot /\ UNCHANGED listening
  /\ UNCHANGED <<serverVars, process, clientVars>>

\* AppDelegate.addListener, behind the listener's own test for a new uid.
RunNotify ==
  /\ Takes("notify") /\ Done
  /\ seen' = current.uid
  /\ IF SignedIn /\ seen # current.uid
     THEN /\ listening' = listening \cup {current.uid}
          /\ ShowRoot(IF current.verified THEN Home ELSE Verification)
     ELSE KeepRoot /\ UNCHANGED listening
  /\ UNCHANGED <<serverVars, process, clientVars>>

\* Completion of createUser: the password is written to the document of
\* whoever is signed in now (and the screen's name, while the router exists).
RunSignedUp ==
  /\ Takes("signUp") /\ Done
  /\ document' = document \cup ({current.uid} \ {NoAccount})
  /\ UNCHANGED <<server, confirmed, process, clientVars, uiVars, calls>>

\* Completion of signIn.
RunSignedIn ==
  /\ Takes("signIn") /\ Done
  /\ IF RegistrationAlive THEN ShowRoot(Home) ELSE KeepRoot
  /\ UNCHANGED <<serverVars, process, clientVars, seen, listening>>

\* Everything a process holds in memory is gone.  What the server has already
\* received it may still execute: a sign-up or a deletion changes something
\* there.
EndProcess(how) ==
  /\ process' = how
  /\ calls' = {[c EXCEPT !.orphan = TRUE] : c \in
       {d \in calls : d.stage = "sent" /\ d.req.op \in {"signUp", "delete"}}}
  /\ loaded' = FALSE /\ current' = SignedOut /\ epoch' = 0 /\ faults' = 0
  /\ seen' = NoAccount /\ listening' = {}
  /\ queue' = <<Notify>>
  /\ root' = Registration /\ lingering' = {}
  /\ UNCHANGED <<serverVars, keychain>>

\* Completion of reload: the current user is unwrapped by force.  The block
\* popToRoot passes to Core Animation runs at once or a turn later.
RunReloaded ==
  /\ Takes("reloaded")
  /\ IF ~SignedIn THEN EndProcess("trapped")
     ELSE /\ IF current.verified /\ VerificationAlive(Head(queue).vc)
             THEN \/ Done /\ ShowRoot(WhoAmI)
                  \/ queue' = Append(Tail(queue), Block("showWhoAmI", 0)) /\ KeepRoot
             ELSE Done /\ KeepRoot
          /\ UNCHANGED <<serverVars, process, clientVars, seen, listening>>

RunShowWhoAmI ==
  /\ Takes("showWhoAmI") /\ Done
  /\ ShowRoot(WhoAmI)
  /\ UNCHANGED <<serverVars, process, clientVars, seen, listening>>

\* The one-second timer of Verification; a signed-out app has nobody to reload.
Tick ==
  /\ Running /\ root.kind = "verification" /\ SignedIn
  /\ Send({OfCurrent("reload")})
  /\ UNCHANGED <<serverVars, process, clientVars, uiVars, queue>>

\* A replaced view controller is deallocated.
Deallocate(vc) ==
  /\ vc \in lingering
  /\ lingering' = lingering \ {vc}
  /\ UNCHANGED <<serverVars, process, clientVars, seen, listening, root, queue, calls>>

----------------------------------------------------------------------------
(* The user *)

\* A tap on the sign-up or the sign-in button.  The work queue handles it
\* after it has read the keychain.
Tap(op, a) ==
  /\ Running /\ root.kind = "registration" /\ loaded
  /\ epoch + Cardinality({c \in calls : c.req.epoch = 0 /\ ~c.orphan}) < MaxEpoch
  /\ Send({Request(op, a, 0, 0)})
  /\ UNCHANGED <<serverVars, process, clientVars, uiVars, queue>>

\* The user opens the link of a mail, the last one or an earlier one.
OpenLink(a) ==
  /\ a \notin confirmed /\ server[a] \in {"live", "barred"}
  /\ confirmed' = confirmed \cup {a}
  /\ UNCHANGED <<server, document, process, clientVars, uiVars, queue, calls>>

Kill == Running /\ EndProcess("stopped")

Launch ==
  /\ ~Running
  /\ process' = "running"
  /\ UNCHANGED <<serverVars, clientVars, uiVars, queue, calls>>

----------------------------------------------------------------------------
(* The specification *)

Network == \E c \in calls : Execute(c) \/ Lose(c)

WorkQueue ==
  \/ LoadKeychain \/ RefreshToken \/ RefuseToken
  \/ \E c \in calls : \/ ReceiveUser(c)    \/ ReceiveReload(c)
                      \/ ReceiveGone(c)    \/ ReceiveNothing(c)

RunBlock == RunNotify \/ RunSignedUp \/ RunSignedIn \/ RunReloaded \/ RunShowWhoAmI

User ==
  \/ \E a \in Accounts : Tap("signUp", a) \/ Tap("signIn", a) \/ OpenLink(a)
  \/ Kill \/ Launch

Next ==
  \/ Network \/ WorkQueue \/ RunBlock \/ Tick \/ User
  \/ \E vc \in lingering : Deallocate(vc)

Spec == Init /\ [][Next]_vars

\* The main thread and the work queue keep running (in the code a block is
\* never held up, here it waits for a free call id, hence SF), every call ends
\* in an answer or a time-out, and of the calls the timer sends over and over
\* some are executed and answered.  The keychain fails finitely often: MaxFaults.
Fairness ==
  /\ SF_vars(RunBlock) /\ WF_vars(LoadKeychain) /\ WF_vars(Tick)
  /\ \A i \in CallIds :
       /\ WF_vars(\E c \in calls : c.id = i /\ (Execute(c) \/ Lose(c)))
       /\ SF_vars(\E c \in calls : c.id = i /\ (ReceiveUser(c) \/ ReceiveGone(c) \/ ReceiveNothing(c)))
  /\ SF_vars(\E c \in calls : c.req.op = "reload" /\ Execute(c))
  /\ SF_vars(\E c \in calls : ReceiveReload(c))

FairSpec == Spec /\ Fairness

----------------------------------------------------------------------------
(* Properties *)

States == {"none", "live", "barred", "deleted"}
Uids == Accounts \cup {NoAccount}
Users == [uid : Uids, epoch : Nat, verified : BOOLEAN]
Requests == [op : {"signUp", "signIn", "reload", "sendMail", "delete"},
             uid : Accounts, epoch : Nat, vc : Nat]
Calls == [id : CallIds, req : Requests, stage : {"sent", "ok", "refused", "gone"},
          flag : BOOLEAN, orphan : BOOLEAN]
Blocks == [do : {"notify", "signUp", "signIn", "reloaded", "showWhoAmI"}, vc : Nat]
Screens == [kind : {"registration", "verification", "home", "whoami"},
            vc : Nat, uid : Uids]

\* Every variable keeps its type.
TypeOK ==
  /\ server \in [Accounts -> States]
  /\ confirmed \subseteq Accounts /\ document \subseteq Accounts
  /\ process \in {"running", "stopped", "trapped"}
  /\ loaded \in BOOLEAN
  /\ keychain \in [uid : Uids, verified : BOOLEAN] /\ faults \in 0 .. MaxFaults
  /\ current \in Users /\ epoch \in Nat
  /\ seen \in Uids /\ listening \subseteq Accounts
  /\ queue \in Seq(Blocks) /\ calls \subseteq Calls
  /\ root \in Screens /\ lingering \subseteq Nat

NotifyPending == \E i \in 1 .. Len(queue) : queue[i] = Notify

\* The auth state listener never misses a change of the user (AppDelegate.swift
\* 39, FIRAuth.m 1435-1449): once no notification waits, it has seen the user
\* the client holds, has attached its Firestore listener, and Registration is
\* no longer on screen for somebody who is signed in.
ListenerCatchesUp ==
  ~NotifyPending =>
    /\ seen = current.uid
    /\ SignedIn => current.uid \in listening /\ root.kind # "registration"

\* The address on the Verification screen (VerificationViewController.swift
\* 42) is the one of the account the timer reloads, and viewDidDisappear
\* deletes, unless that account is gone or the listener is about to replace
\* the screen.
VerificationShowsCurrent ==
  root.kind = "verification" /\ SignedIn /\ ~NotifyPending => root.uid = current.uid

\* A relaunch resumes the session the app last had, whichever object a late
\* answer was for and whichever write failed: the keychain never holds another
\* account than a signed-in client, and differs from the memory at all only
\* after a failure (FIRAuth.m 1991-2017 changes the user although the removal
\* failed, FIRUser.m 435-436 the flag although the save failed).
RelaunchResumesSession ==
  loaded =>
    /\ SignedIn => keychain.uid = current.uid
    /\ faults = 0 => keychain = Saved(current)

\* Nobody is taken for verified who has not opened the link: not the user in
\* memory, not the one on disk, not one an answer is about to install.
BelievedVerifiedIsVerified ==
  /\ current.verified => current.uid \in confirmed
  /\ keychain.verified => keychain.uid \in confirmed
  /\ \A c \in calls : c.flag => c.req.uid \in confirmed

\* A process traps on the user it unwraps by force (VerificationBinder.swift
\* 41) only if the server has turned an account away: as
\* long as it accepts every token, no order of answers makes it trap.
TrapsOnlyAfterRefusal ==
  process = "trapped" => \E a \in Accounts : server[a] \in TurnedAway

\* Only the server ends a session, by turning its account away (FIRUser.m
\* 1443-1485), on disk or in memory: not a crash, not a lost answer, not a
\* failure of the keychain, and not the end of another account's session.
SessionEndsOnlyByRefusal ==
  [][/\ keychain.uid # NoAccount /\ keychain'.uid = NoAccount
          => server'[keychain.uid] \in TurnedAway
     /\ SignedIn /\ loaded' /\ current'.uid = NoAccount
          => server'[current.uid] \in TurnedAway]_vars

\* The account life cycle this component implements: the session is the one in
\* memory, and until the keychain is read the one on disk.
Held == IF loaded THEN Saved(current) ELSE keychain
Life == INSTANCE AccountLife WITH
  session <- Held,
  saved   <- keychain,
  orders  <- {c.req.uid : c \in {d \in calls : d.req.op = "delete"}}

\* HRApp implements the life cycle: screens are stuttering steps, and no
\* account is deleted that the device did not hold and believe unverified when
\* it gave the order, whatever crashes, failures and refusals came in between.
AccountLifeRefined == Life!Spec

\* VerificationBinder.swift 41 unwraps the current user by force when the
\* answer of reload has arrived: somebody is still signed in by then.
ReloadFindsUser == process # "trapped"

\* Somebody who opens the link is taken off the Verification screen by the
\* timer, unless the app stops or the server turns the account away first.
VerifiedLeavesVerification ==
  \A a \in Accounts :
    (Running /\ root = Screen("verification", root.vc, a) /\ a \in confirmed)
      ~> (~Running \/ root.kind # "verification" \/ root.uid # a
            \/ server[a] \in TurnedAway)

\* A session restored from the keychain, or just opened, leads away from
\* Registration although the listener may be called before it is there, unless
\* the session ends first or the keychain fails (FIRAuth.m 516-526: a session
\* that cannot be read stays on disk and on Registration).
SessionLeavesRegistration ==
  (Running /\ keychain.uid # NoAccount)
    ~> (~Running \/ root.kind # "registration" \/ keychain.uid = NoAccount \/ faults > 0)
=============================================================================
