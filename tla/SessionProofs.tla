--------------------------- MODULE SessionProofs ---------------------------
(***************************************************************************)
(* Proofs about Session, for every set of accounts and call ids and every  *)
(* bound: type correctness, what the device believes, what survives the    *)
(* failures of the keychain, that only the server ends a session, that the *)
(* listener misses no change of the user and Verification shows the        *)
(* current one, that a trap needs an account turned away, and that Session *)
(* implements AccountLife.                                                 *)
(***************************************************************************)
EXTENDS Session, TLAPS

----------------------------------------------------------------------------
(* What a step adds to the calls in flight *)

\* A call just sent on the user object that is current.
Fresh(c) ==
  /\ c \in Calls
  /\ c.stage = "sent" /\ ~c.flag /\ ~c.orphan
  /\ SignedIn /\ c.req.uid = current.uid /\ c.req.epoch = current.epoch
  /\ c.req.op \in {"reload", "sendMail", "delete"}
  /\ c.req.op = "delete" => ~current.verified

\* The calls a step of the main thread leaves in flight.
CallsGrow == calls \subseteq calls' /\ \A c \in calls' : c \in calls \/ Fresh(c)

\* Sending adds one call per request and touches no other.
LEMMA SendAdds ==
  ASSUME NEW requests, requests \subseteq Requests, Send(requests)
  PROVE  /\ calls \subseteq calls'
         /\ \A c \in calls' : \/ c \in calls
                              \/ /\ c \in Calls /\ c.req \in requests
                                 /\ c.stage = "sent" /\ ~c.flag /\ ~c.orphan
<1>1. PICK id \in [requests -> Free] :
        calls' = calls \cup
         {[id |-> id[r], req |-> r, stage |-> "sent", flag |-> FALSE,
           orphan |-> FALSE] : r \in requests}
  BY DEF Send
<1>2. \A r \in requests : id[r] \in CallIds
  BY <1>1 DEF Free
<1> DEFINE new(r) == [id |-> id[r], req |-> r, stage |-> "sent", flag |-> FALSE,
                      orphan |-> FALSE]
<1>3. \A r \in requests : /\ new(r) \in Calls /\ new(r).req \in requests
                         /\ new(r).stage = "sent" /\ ~new(r).flag /\ ~new(r).orphan
  BY <1>2 DEF Calls
<1>4. calls' = calls \cup {new(r) : r \in requests}
  BY <1>1
<1> HIDE DEF new
<1> QED BY <1>3, <1>4

\* A method of the signed-in user's object makes a request of the right type.
LEMMA OfCurrentType ==
  ASSUME TypeOK, SignedIn, NEW op \in {"reload", "sendMail", "delete"},
         NEW vc \in Nat
  PROVE  Request(op, current.uid, current.epoch, vc) \in Requests
BY DEF TypeOK, SignedIn, Users, Uids, Request, Requests

\* Replacing the root controller sends calls on the current object only, and
\* an order to delete only while it is believed unverified.
LEMMA ShowRootGrows ==
  ASSUME TypeOK, NEW screen \in Screens, ShowRoot(screen),
         screen.kind = "verification" => SignedIn
  PROVE  root' \in Screens /\ lingering' \subseteq Nat /\ CallsGrow
<1> DEFINE mail == IF screen.kind = "verification"
         THEN {Request("sendMail", current.uid, current.epoch, current.epoch)} ELSE {}
<1>1. root.vc \in Nat /\ current.epoch \in Nat
  BY DEF TypeOK, Screens, Users
<1>2. OnDisappear \subseteq Requests /\ mail \subseteq Requests
  BY <1>1, OfCurrentType DEF OnDisappear, OfCurrent
<1>3. \A r \in OnDisappear \cup mail :
        /\ SignedIn /\ r.uid = current.uid /\ r.epoch = current.epoch
        /\ r.op \in {"sendMail", "delete"}
        /\ r.op = "delete" => ~current.verified
  BY DEF OnDisappear, OfCurrent, Request
<1>4. Send(OnDisappear \cup mail)
  BY DEF ShowRoot
<1>5. CallsGrow
  BY <1>2, <1>3, <1>4, SendAdds DEF CallsGrow, Fresh
<1>6. root' \in Screens /\ lingering' \subseteq Nat
  BY <1>1 DEF ShowRoot, TypeOK
<1> QED BY <1>5, <1>6

----------------------------------------------------------------------------
(* Type correctness *)

\* The memory of a process that has just been created is well typed.
LEMMA LaunchType ==
  /\ SignedOut \in Users /\ NoneSaved \in [uid : Uids, verified : BOOLEAN]
  /\ <<Notify>> \in Seq(Blocks) /\ Registration \in Screens
<1>1. Notify \in Blocks
  BY DEF Notify, Block, Blocks
<1> QED
  BY <1>1 DEF NoneSaved, SignedOut, Registration, Screen, Screens, Users, Uids

\* The initial states are well typed.
LEMMA TypeInit == Init => TypeOK
<1> SUFFICES ASSUME Init PROVE TypeOK
  OBVIOUS
<1>1. /\ server \in [Accounts -> States] /\ confirmed \subseteq Accounts
      /\ document \subseteq Accounts /\ process \in {"running", "stopped", "trapped"}
  BY DEF Init, States
<1>2. /\ keychain \in [uid : Uids, verified : BOOLEAN] /\ calls \subseteq Calls
      /\ faults \in 0 .. MaxFaults
  BY LaunchType, BoundAssumption DEF Init, Launched
<1>3. /\ loaded \in BOOLEAN /\ current \in Users /\ epoch \in Nat
      /\ seen \in Uids /\ listening \subseteq Accounts
      /\ queue \in Seq(Blocks) /\ root \in Screens /\ lingering \subseteq Nat
  BY LaunchType DEF Init, Launched, Uids
<1> QED BY <1>1, <1>2, <1>3 DEF TypeOK

\* A notification or a completion of number n queued at the end.
LEMMA BlockType ==
  /\ Notify \in Blocks
  /\ \A do \in {"notify", "signUp", "signIn", "reloaded", "showWhoAmI"}, n \in Nat :
       Block(do, n) \in Blocks
BY DEF Notify, Block, Blocks

\* The screens the program shows.
LEMMA ScreenType ==
  ASSUME TypeOK
  PROVE  Home \in Screens /\ WhoAmI \in Screens /\ Verification \in Screens
BY DEF TypeOK, Users, Uids, Home, WhoAmI, Verification, Screen, Screens

\* What an answer says of the account it is about.
LEMMA AnswerMeans ==
  ASSUME TypeOK, NEW c \in calls, NEW answer \in Answers(c)
  PROVE  /\ answer \in {"ok", "refused", "gone"}
         /\ answer = "ok" /\ c.req.op = "signUp" => server[c.req.uid] = "none"
         /\ answer = "ok" /\ c.req.op # "signUp" => server[c.req.uid] \in {"live", "barred"}
         /\ answer = "gone" => c.req.op \in {"reload", "sendMail", "delete"}
<1>1. c.req.op \in {"signUp", "signIn", "reload", "sendMail", "delete"}
  BY DEF TypeOK, Calls, Requests
<1>2. CASE c.req.op = "signUp"
  BY <1>2 DEF Answers
<1>3. CASE c.req.op = "signIn"
  BY <1>3 DEF Answers
<1>4. CASE c.req.op \in {"reload", "sendMail", "delete"}
  BY <1>4 DEF Answers
<1> QED BY <1>1, <1>2, <1>3, <1>4

\* A call that has been executed keeps its type.
LEMMA ExecuteCall ==
  ASSUME TypeOK, NEW c \in calls, Execute(c)
  PROVE  calls' \subseteq Calls /\ server' \in [Accounts -> States]
<1>1. c \in Calls /\ c.req.uid \in Accounts
  BY DEF TypeOK, Calls, Requests
<1>2. PICK answer \in Answers(c) :
        /\ server' \in {server, [server EXCEPT ![c.req.uid] = "live"],
                        [server EXCEPT ![c.req.uid] = "deleted"], TurnAway(c.req.uid)}
        /\ calls' \subseteq calls \cup
             {[c EXCEPT !.stage = answer, !.flag = Reported(c, answer)]}
  BY DEF Execute
<1>3. answer \in {"ok", "refused", "gone"} /\ Reported(c, answer) \in BOOLEAN
  BY AnswerMeans DEF Reported
<1>4. \A s \in {"ok", "refused", "gone"}, f \in BOOLEAN :
        [c EXCEPT !.stage = s, !.flag = f] \in Calls
  BY <1>1 DEF Calls
<1>5. calls' \subseteq Calls
  BY <1>2, <1>3, <1>4 DEF TypeOK
<1>6. server' \in [Accounts -> States]
  BY <1>2 DEF TypeOK, TurnAway, States
<1> QED BY <1>5, <1>6

\* Ending the process leaves the initial memory behind.
LEMMA EndType ==
  ASSUME TypeOK, NEW how \in {"stopped", "trapped"}, EndProcess(how)
  PROVE  TypeOK'
<1>1. calls' \subseteq Calls
  <2> DEFINE orphaned(c) == [c EXCEPT !.orphan = TRUE]
  <2>1. \A c \in calls : orphaned(c) \in Calls
    <3>1. \A c \in Calls : orphaned(c) \in Calls
      BY DEF Calls
    <3> QED BY <3>1 DEF TypeOK
  <2>2. calls' \subseteq {orphaned(c) : c \in calls}
    BY DEF EndProcess
  <2> HIDE DEF orphaned
  <2> QED BY <2>1, <2>2
<1>2. /\ current' \in Users /\ epoch' \in Nat /\ loaded' \in BOOLEAN
      /\ seen' \in Uids /\ listening' \subseteq Accounts
      /\ queue' \in Seq(Blocks) /\ root' \in Screens /\ lingering' \subseteq Nat
  BY LaunchType DEF EndProcess, Uids
<1>3. /\ server' = server /\ confirmed' = confirmed
      /\ document' = document /\ keychain' = keychain
      /\ process' \in {"running", "stopped", "trapped"}
  BY DEF EndProcess, serverVars
<1>4. faults' \in 0 .. MaxFaults
  BY BoundAssumption DEF EndProcess
<1> QED BY <1>1, <1>2, <1>3, <1>4 DEF TypeOK

\* Saving, or failing to, and the forced sign-out keep the types of the client.
LEMMA SaveType ==
  ASSUME TypeOK
  PROVE  /\ KeychainFails => faults' \in 0 .. MaxFaults /\ keychain' = keychain
         /\ \A s : Save(s) => faults' \in 0 .. MaxFaults /\ keychain' = s
         /\ \A n : SignOutByForce(n) =>
              /\ current' \in Users /\ keychain' \in [uid : Uids, verified : BOOLEAN]
              /\ faults' \in 0 .. MaxFaults /\ queue' \in Seq(Blocks)
<1>1. KeychainFails => faults' \in 0 .. MaxFaults /\ keychain' = keychain
  BY BoundAssumption DEF KeychainFails, TypeOK
<1>2. \A s : Save(s) => faults' \in 0 .. MaxFaults /\ keychain' = s
  BY DEF Save, TypeOK
<1>3. ASSUME NEW n, SignOutByForce(n)
      PROVE  /\ current' \in Users /\ keychain' \in [uid : Uids, verified : BOOLEAN]
             /\ faults' \in 0 .. MaxFaults /\ queue' \in Seq(Blocks)
  <2>1. Append(queue, Notify) \in Seq(Blocks)
    BY BlockType DEF TypeOK
  <2> QED BY <1>1, <1>2, <1>3, <2>1, LaunchType DEF SignOutByForce, TypeOK
<1> QED BY <1>1, <1>2, <1>3

\* Types are preserved by the network and the work queue.
LEMMA ClientType ==
  ASSUME TypeOK, Network \/ WorkQueue
  PROVE  TypeOK'
<1> USE DEF serverVars, clientVars, uiVars
<1>1. ASSUME NEW c \in calls, Execute(c) PROVE TypeOK'
  BY <1>1, ExecuteCall DEF Execute, TypeOK
<1>2. ASSUME NEW c \in calls, Lose(c) PROVE TypeOK'
  BY <1>2 DEF Lose, TypeOK
<1>3. CASE LoadKeychain
  <2>1. current' \in Users /\ epoch' \in Nat
    BY <1>3 DEF LoadKeychain, Adopt, TypeOK, Users
  <2>2. queue' \in Seq(Blocks)
    BY <1>3, BlockType DEF LoadKeychain, TypeOK
  <2>3. faults' \in 0 .. MaxFaults /\ keychain' = keychain
    BY <1>3, SaveType DEF LoadKeychain, TypeOK
  <2> QED BY <1>3, <2>1, <2>2, <2>3 DEF LoadKeychain, TypeOK
<1>4. ASSUME NEW c \in calls, ReceiveUser(c) PROVE TypeOK'
  <2>1. c.req.uid \in Accounts /\ c.flag \in BOOLEAN
    BY DEF TypeOK, Calls, Requests
  <2>2. current' \in Users /\ epoch' \in Nat
    BY <1>4, <2>1 DEF ReceiveUser, Adopt, TypeOK, Users, Uids
  <2>3. keychain' \in [uid : Uids, verified : BOOLEAN] /\ faults' \in 0 .. MaxFaults
    BY <1>4, <2>1, SaveType DEF ReceiveUser, TypeOK, Uids
  <2>4. queue' \in Seq(Blocks)
    <3>1. CASE queue' = queue
      BY <3>1 DEF TypeOK
    <3>2. ASSUME NEW op \in {"signUp", "signIn"}, queue' = queue \o <<Notify, Block(op, 0)>>
          PROVE  queue' \in Seq(Blocks)
      <4>1. <<Notify, Block(op, 0)>> \in Seq(Blocks)
        BY BlockType
      <4> QED BY <3>2, <4>1 DEF TypeOK
    <3> QED BY <1>4, <3>1, <3>2 DEF ReceiveUser
  <2> QED BY <1>4, <2>2, <2>3, <2>4 DEF ReceiveUser, TypeOK
<1>5. ASSUME NEW c \in calls, ReceiveReload(c) PROVE TypeOK'
  <2>1. c.req.vc \in Nat /\ c.flag \in BOOLEAN
    BY DEF TypeOK, Calls, Requests
  <2>2. current' \in Users
    BY <1>5, <2>1 DEF ReceiveReload, TypeOK, Users
  <2>3. keychain' \in [uid : Uids, verified : BOOLEAN] /\ faults' \in 0 .. MaxFaults
    <3>1. Saved(current') \in [uid : Uids, verified : BOOLEAN]
      BY <2>2 DEF Saved, Users
    <3> QED BY <1>5, <3>1, SaveType DEF ReceiveReload, TypeOK
  <2>4. queue' \in Seq(Blocks)
    <3>1. Append(queue, Block("reloaded", c.req.vc)) \in Seq(Blocks)
      BY <2>1, BlockType DEF TypeOK
    <3> QED BY <1>5, <3>1 DEF ReceiveReload, TypeOK
  <2> QED BY <1>5, <2>2, <2>3, <2>4 DEF ReceiveReload, TypeOK
<1>6. ASSUME NEW c \in calls, ReceiveGone(c) PROVE TypeOK'
  BY <1>6, SaveType DEF ReceiveGone, TypeOK
<1>7. ASSUME NEW c \in calls, ReceiveNothing(c) PROVE TypeOK'
  BY <1>7 DEF ReceiveNothing, TypeOK
<1>8. CASE RefreshToken
  <2>1. Saved(current) \in [uid : Uids, verified : BOOLEAN]
    BY DEF Saved, TypeOK, Users
  <2>2. keychain' \in [uid : Uids, verified : BOOLEAN] /\ faults' \in 0 .. MaxFaults
    BY <1>8, <2>1, SaveType DEF RefreshToken, TypeOK
  <2>3. queue' \in Seq(Blocks)
    <3>1. Append(queue, Notify) \in Seq(Blocks)
      BY BlockType DEF TypeOK
    <3> QED BY <1>8, <3>1 DEF RefreshToken, TypeOK
  <2> QED BY <1>8, <2>2, <2>3 DEF RefreshToken, TypeOK
<1>9. CASE RefuseToken
  <2>1. server' \in [Accounts -> States]
    BY <1>9 DEF RefuseToken, TurnAway, TypeOK, States
  <2> QED BY <1>9, <2>1, SaveType DEF RefuseToken, TypeOK
<1> QED
  BY <1>1, <1>2, <1>3, <1>4, <1>5, <1>6, <1>7, <1>8, <1>9 DEF Network, WorkQueue

\* Types are preserved by the main thread and the user.
LEMMA MainType ==
  ASSUME TypeOK, RunBlock \/ Tick \/ User \/ \E vc \in lingering : Deallocate(vc)
  PROVE  TypeOK'
<1> USE DEF serverVars, clientVars, uiVars
<1>1. ASSUME queue # <<>> PROVE Tail(queue) \in Seq(Blocks) /\ Head(queue) \in Blocks
  BY <1>1 DEF TypeOK
<1>2. CASE RunNotify
  <2>1. queue' \in Seq(Blocks)
    BY <1>1, <1>2 DEF RunNotify, Takes, Done
  <2>2. /\ root' \in Screens /\ lingering' \subseteq Nat /\ calls' \subseteq Calls
        /\ listening' \subseteq Accounts
    <3>1. CASE SignedIn /\ seen # current.uid
      <4>1. /\ ShowRoot(IF current.verified THEN Home ELSE Verification)
            /\ listening' = listening \cup {current.uid}
        BY <1>2, <3>1 DEF RunNotify
      <4>2. CallsGrow /\ root' \in Screens /\ lingering' \subseteq Nat
        BY <4>1, <3>1, ScreenType, ShowRootGrows
      <4> QED BY <4>1, <4>2, <3>1 DEF CallsGrow, Fresh, TypeOK, SignedIn, Users, Uids
    <3>2. CASE ~(SignedIn /\ seen # current.uid)
      BY <1>2, <3>2 DEF RunNotify, KeepRoot, TypeOK
    <3> QED BY <3>1, <3>2
  <2> QED BY <1>2, <2>1, <2>2 DEF RunNotify, TypeOK, Users
<1>3. CASE RunSignedUp
  <2>1. queue' \in Seq(Blocks)
    BY <1>1, <1>3 DEF RunSignedUp, Takes, Done
  <2>2. document' \subseteq Accounts
    BY <1>3 DEF RunSignedUp, TypeOK, Users, Uids
  <2> QED BY <1>3, <2>1, <2>2 DEF RunSignedUp, TypeOK
<1>4. ASSUME NEW screen \in {Home, WhoAmI}, ShowRoot(screen)
      PROVE  root' \in Screens /\ lingering' \subseteq Nat /\ calls' \subseteq Calls
  <2>1. screen \in Screens /\ screen.kind # "verification"
    BY ScreenType DEF Home, WhoAmI, Screen
  <2> QED BY <2>1, <1>4, ShowRootGrows DEF CallsGrow, Fresh, TypeOK
<1>5. CASE RunSignedIn
  <2>1. queue' \in Seq(Blocks)
    BY <1>1, <1>5 DEF RunSignedIn, Takes, Done
  <2>2. root' \in Screens /\ lingering' \subseteq Nat /\ calls' \subseteq Calls
    BY <1>4, <1>5 DEF RunSignedIn, KeepRoot, TypeOK
  <2> QED BY <1>5, <2>1, <2>2 DEF RunSignedIn, TypeOK
<1>6. CASE RunReloaded
  <2>1. CASE ~SignedIn
    BY <1>6, <2>1, EndType DEF RunReloaded
  <2>2. CASE SignedIn
    <3>1. queue' \in Seq(Blocks)
      <4>1. Append(Tail(queue), Block("showWhoAmI", 0)) \in Seq(Blocks)
        BY <1>1, <1>6, BlockType DEF RunReloaded, Takes
      <4> QED BY <1>1, <1>6, <2>2, <4>1 DEF RunReloaded, Takes, Done
    <3>2. root' \in Screens /\ lingering' \subseteq Nat /\ calls' \subseteq Calls
      BY <1>4, <1>6, <2>2 DEF RunReloaded, KeepRoot, TypeOK
    <3> QED BY <1>6, <2>2, <3>1, <3>2 DEF RunReloaded, TypeOK
  <2> QED BY <2>1, <2>2
<1>7. CASE RunShowWhoAmI
  <2>1. queue' \in Seq(Blocks)
    BY <1>1, <1>7 DEF RunShowWhoAmI, Takes, Done
  <2>2. root' \in Screens /\ lingering' \subseteq Nat /\ calls' \subseteq Calls
    BY <1>4, <1>7 DEF RunShowWhoAmI
  <2> QED BY <1>7, <2>1, <2>2 DEF RunShowWhoAmI, TypeOK
<1>8. CASE Tick
  <2>1. {OfCurrent("reload")} \subseteq Requests
    BY <1>8, OfCurrentType DEF Tick, OfCurrent, TypeOK, Screens
  <2>2. calls' \subseteq Calls
    BY <1>8, <2>1, SendAdds DEF Tick, TypeOK
  <2> QED BY <1>8, <2>2 DEF Tick, TypeOK
<1>9. ASSUME NEW vc \in lingering, Deallocate(vc) PROVE TypeOK'
  BY <1>9 DEF Deallocate, TypeOK
<1>10. ASSUME NEW a \in Accounts, NEW op \in {"signUp", "signIn"}, Tap(op, a) PROVE TypeOK'
  <2>1. {Request(op, a, 0, 0)} \subseteq Requests
    BY DEF Request, Requests
  <2>2. calls' \subseteq Calls
    BY <1>10, <2>1, SendAdds DEF Tap, TypeOK
  <2> QED BY <1>10, <2>2 DEF Tap, TypeOK
<1>11. ASSUME NEW a \in Accounts, OpenLink(a) PROVE TypeOK'
  BY <1>11 DEF OpenLink, TypeOK
<1>12. CASE Kill
  BY <1>12, EndType DEF Kill
<1>13. CASE Launch
  BY <1>13 DEF Launch, TypeOK
<1> QED
  BY <1>2, <1>3, <1>5, <1>6, <1>7, <1>8, <1>9, <1>10, <1>11, <1>12, <1>13
  DEF RunBlock, User

\* No step leaves the types.
LEMMA TypeStep == TypeOK /\ [Next]_vars => TypeOK'
<1> SUFFICES ASSUME TypeOK, [Next]_vars PROVE TypeOK'
  OBVIOUS
<1>1. CASE UNCHANGED vars
  BY <1>1 DEF vars, serverVars, clientVars, uiVars, TypeOK
<1>2. CASE Next
  BY <1>2, ClientType, MainType DEF Next
<1> QED BY <1>1, <1>2

\* Every reachable state is well typed, whatever the constants.
THEOREM TypeCorrect == Spec => []TypeOK
BY TypeInit, TypeStep, PTL DEF Spec

----------------------------------------------------------------------------
(* The inductive invariant *)

OnObject(c) == c.req.op \in {"reload", "sendMail", "delete"}

\* An answer that ends the session of its account.
Gone(c) == c.stage = "gone" \/ (c.req.op = "delete" /\ c.stage = "ok")

\* What the device holds is an account the server knows, at most as verified
\* as the server has it, and survives in the keychain as far as no write failed.
UserInv ==
  /\ \A a \in confirmed : server[a] # "none"
  /\ SignedIn => loaded /\ current.epoch \in 1 .. epoch /\ server[current.uid] # "none"
  /\ ~SignedIn => current = SignedOut
  /\ keychain.uid # NoAccount => server[keychain.uid] # "none"
  /\ keychain.uid = NoAccount => keychain = NoneSaved
  /\ RelaunchResumesSession
  /\ current.verified => current.uid \in confirmed
  /\ keychain.verified => keychain.uid \in confirmed

\* What an answer on its way may still make the device believe.
CallInv ==
  \A c \in calls :
    /\ c.flag => c.req.uid \in confirmed
    /\ OnObject(c) \/ c.stage = "ok" => server[c.req.uid] # "none"
    /\ Gone(c) => server[c.req.uid] \in TurnedAway
    /\ OnObject(c) => c.req.epoch >= 1
    /\ ~c.orphan => loaded /\ c.req.epoch <= epoch
    /\ ~c.orphan /\ SignedIn /\ c.req.epoch = current.epoch => c.req.uid = current.uid

\* The two together are inductive.
IInv == TypeOK /\ UserInv /\ CallInv

\* The server forgets nothing.
ServerGrows ==
  /\ \A a \in Accounts : /\ server[a] # "none" => server'[a] # "none"
                         /\ server[a] \in TurnedAway => server'[a] \in TurnedAway
  /\ confirmed \subseteq confirmed'

\* What turning an account away does to it and to the others.
LEMMA TurnAwayGrows ==
  ASSUME TypeOK, NEW a \in Accounts, server' = TurnAway(a), confirmed' = confirmed
  PROVE  ServerGrows /\ (server[a] # "none" => server'[a] \in TurnedAway)
BY DEF TypeOK, States, TurnAway, TurnedAway, ServerGrows

\* The invariant holds at the start.
LEMMA InvInit == Init => IInv
<1> SUFFICES ASSUME Init PROVE IInv
  OBVIOUS
<1>1. ~SignedIn /\ current = SignedOut /\ keychain = NoneSaved /\ calls = {}
  BY DEF Init, Launched, SignedIn, SignedOut
<1>2. UserInv
  BY <1>1 DEF UserInv, RelaunchResumesSession, Saved, SignedOut, NoneSaved, Init, Launched
<1> QED BY <1>1, <1>2, TypeInit DEF IInv, CallInv

\* A step that leaves the client alone keeps what it believes.
LEMMA UserFrame ==
  ASSUME IInv, UNCHANGED clientVars, ServerGrows,
         \A a \in confirmed' : server'[a] # "none"
  PROVE  UserInv'
<1>1. /\ loaded' = loaded /\ keychain' = keychain /\ faults' = faults
      /\ current' = current /\ epoch' = epoch
  BY DEF clientVars
<1>2. current.uid \in Accounts \cup {NoAccount} /\ keychain.uid \in Accounts \cup {NoAccount}
  BY DEF IInv, TypeOK, Users, Uids
<1> QED
  BY <1>1, <1>2 DEF IInv, UserInv, ServerGrows, SignedIn, SignedOut, Saved,
     RelaunchResumesSession

\* ... and so does one that answers no call and sends calls on its object only.
LEMMA CallFrame ==
  ASSUME IInv, UNCHANGED clientVars, ServerGrows, \A c \in calls' : c \in calls \/ Fresh(c)
  PROVE  CallInv'
<1>1. current' = current /\ epoch' = epoch /\ loaded' = loaded /\ SignedIn' = SignedIn
  BY DEF clientVars, SignedIn
<1>2. SUFFICES ASSUME NEW c \in calls'
      PROVE  /\ c.flag => c.req.uid \in confirmed'
             /\ OnObject(c) \/ c.stage = "ok" => server'[c.req.uid] # "none"
             /\ Gone(c) => server'[c.req.uid] \in TurnedAway
             /\ OnObject(c) => c.req.epoch >= 1
             /\ ~c.orphan => loaded /\ c.req.epoch <= epoch
             /\ ~c.orphan /\ SignedIn /\ c.req.epoch = current.epoch
                  => c.req.uid = current.uid
  BY <1>1 DEF CallInv, OnObject, Gone, TurnedAway
<1>3. CASE c \in calls
  <2>1. c.req.uid \in Accounts
    BY <1>3 DEF IInv, TypeOK, Calls, Requests
  <2> QED BY <1>3, <2>1 DEF IInv, CallInv, ServerGrows
<1>4. CASE Fresh(c)
  <2>1. /\ c.stage = "sent" /\ ~c.flag /\ SignedIn /\ c.req.uid \in Accounts
        /\ c.req.uid = current.uid /\ c.req.epoch = current.epoch
    BY <1>4 DEF Fresh, Calls, Requests
  <2>2. /\ server[current.uid] # "none" /\ current.epoch \in 1 .. epoch /\ epoch \in Nat
        /\ loaded
    BY <2>1 DEF IInv, UserInv, TypeOK
  <2> QED BY <2>1, <2>2 DEF ServerGrows, Gone
<1> QED BY <1>2, <1>3, <1>4

\* What the server does to an account when it executes a call, and what its
\* answer says about it.
LEMMA ExecuteGrows ==
  ASSUME IInv, NEW c \in calls, NEW answer \in Answers(c),
         server' = CASE answer = "ok" /\ c.req.op = "signUp" -> [server EXCEPT ![c.req.uid] = "live"]
                     [] answer = "ok" /\ c.req.op = "delete" -> [server EXCEPT ![c.req.uid] = "deleted"]
                     [] answer = "gone" -> TurnAway(c.req.uid)
                     [] OTHER -> server,
         confirmed' = confirmed
  PROVE  /\ ServerGrows
         /\ OnObject(c) \/ answer = "ok" => server'[c.req.uid] # "none"
         /\ answer = "gone" \/ (answer = "ok" /\ c.req.op = "delete")
              => server'[c.req.uid] \in TurnedAway
<1>1. c.req.uid \in Accounts /\ server \in [Accounts -> States] /\ TypeOK
  BY DEF IInv, TypeOK, Calls, Requests
<1>2. OnObject(c) => server[c.req.uid] # "none"
  BY DEF IInv, CallInv
<1>3. /\ answer \in {"ok", "refused", "gone"}
      /\ answer = "ok" /\ c.req.op = "signUp" => server[c.req.uid] = "none"
      /\ answer = "ok" /\ c.req.op # "signUp" => server[c.req.uid] \in {"live", "barred"}
      /\ answer = "gone" => OnObject(c)
  BY <1>1, AnswerMeans DEF OnObject
<1>4. CASE answer = "ok" /\ c.req.op = "signUp"
  BY <1>1, <1>3, <1>4 DEF ServerGrows, TurnedAway, OnObject
<1>5. CASE answer = "ok" /\ c.req.op = "delete"
  BY <1>1, <1>3, <1>5 DEF ServerGrows, TurnedAway
<1>6. CASE answer = "gone"
  BY <1>1, <1>2, <1>3, <1>6, TurnAwayGrows DEF TurnedAway
<1>7. CASE answer # "gone" /\ ~(answer = "ok" /\ c.req.op \in {"signUp", "delete"})
  <2>1. server' = server
    BY <1>7
  <2> QED BY <1>2, <1>3, <1>7, <2>1 DEF ServerGrows, TurnedAway
<1> QED BY <1>4, <1>5, <1>6, <1>7

\* The server executes a call.
LEMMA ExecuteInv ==
  ASSUME IInv, NEW c \in calls, Execute(c)
  PROVE  UserInv' /\ CallInv' /\ ServerGrows
<1>1. c \in Calls /\ c.req.uid \in Accounts /\ c.req \in Requests
  BY DEF IInv, TypeOK, Calls, Requests
<1>2. UNCHANGED clientVars /\ confirmed' = confirmed
  BY DEF Execute
<1>3. PICK answer \in Answers(c) :
        /\ server' = CASE answer = "ok" /\ c.req.op = "signUp" -> [server EXCEPT ![c.req.uid] = "live"]
                       [] answer = "ok" /\ c.req.op = "delete" -> [server EXCEPT ![c.req.uid] = "deleted"]
                       [] answer = "gone" -> TurnAway(c.req.uid)
                       [] OTHER -> server
        /\ \A d \in calls' :
             d \in calls \/ d = [c EXCEPT !.stage = answer, !.flag = Reported(c, answer)]
  BY DEF Execute
<1>4. /\ ServerGrows
      /\ OnObject(c) \/ answer = "ok" => server'[c.req.uid] # "none"
      /\ answer = "gone" \/ (answer = "ok" /\ c.req.op = "delete")
           => server'[c.req.uid] \in TurnedAway
  BY <1>2, <1>3, ExecuteGrows
<1>5. UserInv'
  <2>1. confirmed \subseteq Accounts /\ \A a \in confirmed : server[a] # "none"
    BY DEF IInv, UserInv, TypeOK
  <2> QED BY <1>2, <1>4, <2>1, UserFrame DEF ServerGrows
<1>6. current' = current /\ epoch' = epoch /\ loaded' = loaded /\ SignedIn' = SignedIn
  BY <1>2 DEF clientVars, SignedIn
<1>7. ASSUME NEW d \in calls'
      PROVE  /\ d.flag => d.req.uid \in confirmed'
             /\ OnObject(d) \/ d.stage = "ok" => server'[d.req.uid] # "none"
             /\ Gone(d) => server'[d.req.uid] \in TurnedAway
             /\ OnObject(d) => d.req.epoch >= 1
             /\ ~d.orphan => loaded /\ d.req.epoch <= epoch
             /\ ~d.orphan /\ SignedIn /\ d.req.epoch = current.epoch
                  => d.req.uid = current.uid
  <2>1. CASE d \in calls
    <3>1. d.req.uid \in Accounts
      BY <2>1 DEF IInv, TypeOK, Calls, Requests
    <3> QED BY <2>1, <3>1, <1>4 DEF IInv, CallInv, ServerGrows
  <2>2. CASE d = [c EXCEPT !.stage = answer, !.flag = Reported(c, answer)]
    <3>1. /\ d.req = c.req /\ d.orphan = c.orphan /\ d.stage = answer
          /\ d.flag => c.req.uid \in confirmed
      BY <1>1, <2>2 DEF Calls, Reported
    <3>2. /\ OnObject(c) => c.req.epoch >= 1
          /\ ~c.orphan => loaded /\ c.req.epoch <= epoch
          /\ ~c.orphan /\ SignedIn /\ c.req.epoch = current.epoch => c.req.uid = current.uid
      BY DEF IInv, CallInv
    <3>3. OnObject(d) = OnObject(c)
      BY <3>1 DEF OnObject
    <3>4. Gone(d) => server'[d.req.uid] \in TurnedAway
      BY <1>4, <3>1 DEF Gone
    <3> QED BY <1>2, <1>4, <3>1, <3>2, <3>3, <3>4
  <2> QED BY <1>3, <2>1, <2>2
<1>8. CallInv'
  BY <1>6, <1>7 DEF CallInv, OnObject, Gone, TurnedAway
<1> QED BY <1>4, <1>5, <1>8

\* The client installs a user it had not: nothing in flight is about it.
LEMMA AdoptInv ==
  ASSUME IInv, NEW uid \in Accounts, NEW flag \in BOOLEAN, Adopt(uid, flag),
         server[uid] # "none", flag => uid \in confirmed,
         loaded', keychain' = [uid |-> uid, verified |-> flag],
         UNCHANGED serverVars, calls' \subseteq calls
  PROVE  UserInv' /\ CallInv'
<1>1. /\ server' = server /\ confirmed' = confirmed /\ epoch \in Nat /\ epoch' = epoch + 1
      /\ current' = [uid |-> uid, epoch |-> epoch + 1, verified |-> flag]
  BY DEF IInv, TypeOK, serverVars, Adopt
<1>2. uid # NoAccount
  BY NoAccountAssumption
<1>3. UserInv'
  BY <1>1, <1>2 DEF IInv, UserInv, SignedIn, Saved, RelaunchResumesSession
<1>4. ASSUME NEW c \in calls'
      PROVE  /\ c.flag => c.req.uid \in confirmed'
             /\ OnObject(c) \/ c.stage = "ok" => server'[c.req.uid] # "none"
             /\ Gone(c) => server'[c.req.uid] \in TurnedAway
             /\ OnObject(c) => c.req.epoch >= 1
             /\ ~c.orphan => loaded' /\ c.req.epoch <= epoch'
             /\ ~c.orphan => c.req.epoch # current'.epoch
  <2>1. c \in calls /\ c.req.epoch \in Nat
    BY DEF IInv, TypeOK, Calls, Requests
  <2> QED BY <1>1, <2>1 DEF IInv, CallInv
<1>5. CallInv'
  BY <1>4 DEF CallInv, OnObject, Gone, TurnedAway
<1> QED BY <1>3, <1>5

\* The client keeps its user object or gives it up, and saves what it has now
\* or fails to: what it held, or holds now, is what the keychain has.
LEMMA ClientInv ==
  ASSUME IInv, ServerGrows, confirmed' = confirmed, loaded, loaded' = loaded,
         epoch' = epoch, calls' \subseteq calls,
         Save(Saved(current')) \/ KeychainFails,
         \/ current' = SignedOut
         \/ /\ SignedIn /\ current'.uid = current.uid /\ current'.epoch = current.epoch
            /\ current'.verified => current.uid \in confirmed
  PROVE  UserInv' /\ CallInv'
<1>1. /\ current.uid \in Uids /\ keychain.uid \in Uids /\ confirmed \subseteq Accounts
      /\ faults \in Nat /\ UserInv
  BY BoundAssumption DEF IInv, TypeOK, Users
<1>2. \A a \in confirmed' : server'[a] # "none"
  BY <1>1 DEF UserInv, ServerGrows
<1>3. /\ SignedIn' => SignedIn /\ current'.uid = current.uid /\ current'.epoch = current.epoch
      /\ ~SignedIn' => current' = SignedOut
      /\ current'.verified => SignedIn' /\ current.uid \in confirmed
  BY DEF SignedIn, SignedOut
<1>4. Saved(SignedOut) = NoneSaved
  BY DEF Saved, SignedOut, NoneSaved
<1>5. SignedIn' => /\ loaded' /\ current'.epoch \in 1 .. epoch'
                   /\ server'[current'.uid] # "none"
  BY <1>1, <1>3 DEF UserInv, ServerGrows, SignedIn, Uids
<1>6. /\ keychain'.uid # NoAccount => server'[keychain'.uid] # "none"
      /\ keychain'.uid = NoAccount => keychain' = NoneSaved
      /\ keychain'.verified => keychain'.uid \in confirmed'
      /\ SignedIn' => keychain'.uid = current'.uid
      /\ faults' = 0 => keychain' = Saved(current')
  <2>1. CASE Save(Saved(current'))
    <3>1. keychain' = Saved(current')
      BY <2>1 DEF Save
    <3>2. CASE SignedIn'
      BY <1>3, <1>5, <3>1, <3>2 DEF Saved, SignedIn
    <3>3. CASE ~SignedIn'
      BY <1>3, <1>4, <3>1, <3>3 DEF NoneSaved
    <3> QED BY <3>2, <3>3
  <2>2. CASE KeychainFails
    <3>1. keychain' = keychain /\ faults' = faults + 1
      BY <2>2 DEF KeychainFails
    <3> QED BY <1>1, <1>3, <3>1 DEF UserInv, RelaunchResumesSession, ServerGrows, Uids
  <2> QED BY <2>1, <2>2
<1>7. UserInv'
  BY <1>2, <1>3, <1>5, <1>6 DEF UserInv, RelaunchResumesSession
<1>8. ASSUME NEW c \in calls'
      PROVE  /\ c.flag => c.req.uid \in confirmed'
             /\ OnObject(c) \/ c.stage = "ok" => server'[c.req.uid] # "none"
             /\ Gone(c) => server'[c.req.uid] \in TurnedAway
             /\ OnObject(c) => c.req.epoch >= 1
             /\ ~c.orphan => loaded' /\ c.req.epoch <= epoch'
             /\ ~c.orphan /\ SignedIn' /\ c.req.epoch = current'.epoch
                  => c.req.uid = current'.uid
  <2>1. c \in calls /\ c.req.uid \in Accounts
    BY DEF IInv, TypeOK, Calls, Requests
  <2> QED BY <1>3, <2>1 DEF IInv, CallInv, ServerGrows
<1>9. CallInv'
  BY <1>8 DEF CallInv, OnObject, Gone, TurnedAway
<1> QED BY <1>7, <1>9

\* What a forced sign-out leaves of the client.
LEMMA ForcedInv ==
  ASSUME IInv, NEW n, SignOutByForce(n), ServerGrows, confirmed' = confirmed,
         loaded' = loaded, epoch' = epoch, calls' \subseteq calls
  PROVE  UserInv' /\ CallInv'
<1>1. CASE SignedIn /\ current.epoch = n
  <2>1. current' = SignedOut /\ (Save(NoneSaved) \/ KeychainFails)
    BY <1>1 DEF SignOutByForce
  <2>2. loaded
    BY <1>1 DEF IInv, UserInv
  <2>3. Saved(current') = NoneSaved
    BY <2>1 DEF Saved, SignedOut, NoneSaved
  <2> QED BY <2>1, <2>2, <2>3, ClientInv
<1>2. CASE ~(SignedIn /\ current.epoch = n)
  <2>1. UNCHANGED clientVars
    BY <1>2 DEF SignOutByForce, clientVars
  <2>2. \A a \in confirmed' : server'[a] # "none"
    BY DEF IInv, UserInv, TypeOK, ServerGrows
  <2> QED BY <2>1, <2>2, UserFrame, CallFrame
<1> QED BY <1>1, <1>2

\* The process ends: memory is lost, the keychain and the orphans remain.
LEMMA EndInv ==
  ASSUME IInv, NEW how \in {"stopped", "trapped"}, EndProcess(how)
  PROVE  UserInv' /\ CallInv'
<1>1. /\ server' = server /\ confirmed' = confirmed /\ keychain' = keychain
      /\ current' = SignedOut /\ loaded' = FALSE /\ ~SignedIn'
  BY DEF EndProcess, serverVars, SignedOut, SignedIn
<1>2. UserInv'
  BY <1>1 DEF IInv, UserInv, RelaunchResumesSession, SignedOut
<1>3. ASSUME NEW d \in calls'
      PROVE  /\ d.flag => d.req.uid \in confirmed'
             /\ OnObject(d) \/ d.stage = "ok" => server'[d.req.uid] # "none"
             /\ Gone(d) => server'[d.req.uid] \in TurnedAway
             /\ OnObject(d) => d.req.epoch >= 1
             /\ d.orphan
  <2>1. PICK c \in calls : d = [c EXCEPT !.orphan = TRUE]
    BY DEF EndProcess
  <2>2. d.req = c.req /\ d.stage = c.stage /\ d.flag = c.flag /\ d.orphan
    BY <2>1 DEF IInv, TypeOK, Calls
  <2>3. OnObject(d) => OnObject(c)
    BY <2>2 DEF OnObject
  <2>4. Gone(d) => Gone(c)
    BY <2>2 DEF Gone
  <2> QED BY <1>1, <2>2, <2>3, <2>4 DEF IInv, CallInv
<1>4. CallInv'
  BY <1>3 DEF CallInv, OnObject, Gone, TurnedAway
<1> QED BY <1>2, <1>4

\* The keychain is read, or cannot be.
LEMMA LoadInv ==
  ASSUME IInv, LoadKeychain
  PROVE  UserInv' /\ CallInv'
<1>1. /\ server' = server /\ confirmed' = confirmed /\ UNCHANGED serverVars
      /\ loaded' = TRUE /\ calls' = calls /\ keychain' = keychain
  BY DEF LoadKeychain, serverVars, KeychainFails
<1>2. ~SignedIn /\ current = SignedOut
  BY DEF LoadKeychain, IInv, UserInv
<1>3. CASE current' = current /\ epoch' = epoch /\ (keychain = NoneSaved \/ KeychainFails)
  <2>1. KeychainFails => faults' # 0
    BY BoundAssumption DEF KeychainFails, IInv, TypeOK
  <2>2. UserInv'
    BY <1>1, <1>2, <1>3, <2>1 DEF IInv, UserInv, RelaunchResumesSession, Saved, SignedOut,
       NoneSaved, SignedIn
  <2>3. CallInv'
    BY <1>1, <1>2, <1>3 DEF IInv, CallInv, OnObject, Gone, SignedIn, TurnedAway
  <2> QED BY <2>2, <2>3
<1>4. CASE keychain # NoneSaved /\ Adopt(keychain.uid, keychain.verified)
  <2>1. /\ keychain.uid \in Accounts /\ keychain.verified \in BOOLEAN
        /\ keychain = [uid |-> keychain.uid, verified |-> keychain.verified]
    BY <1>4 DEF IInv, TypeOK, UserInv, Uids
  <2>2. /\ server[keychain.uid] # "none"
        /\ keychain.verified => keychain.uid \in confirmed
    BY <2>1, NoAccountAssumption DEF IInv, UserInv
  <2> QED BY <1>1, <1>4, <2>1, <2>2, AdoptInv
<1> QED BY <1>3, <1>4 DEF LoadKeychain

\* The work queue reads the keychain or takes an answer.
LEMMA ReceiveInv ==
  ASSUME IInv, WorkQueue
  PROVE  UserInv' /\ CallInv' /\ ServerGrows
<1>1. server' = server /\ confirmed' = confirmed => ServerGrows
  BY DEF ServerGrows
<1>2. CASE LoadKeychain
  BY <1>1, <1>2, LoadInv DEF LoadKeychain, serverVars
<1>3. ASSUME NEW c \in calls, ReceiveUser(c) PROVE UserInv' /\ CallInv' /\ ServerGrows
  <2>1. c.req.uid \in Accounts /\ c.flag \in BOOLEAN
    BY DEF IInv, TypeOK, Calls, Requests
  <2>2. /\ server[c.req.uid] # "none" /\ (c.flag => c.req.uid \in confirmed)
        /\ loaded /\ loaded' = loaded /\ calls' \subseteq calls
        /\ UNCHANGED serverVars /\ confirmed' = confirmed /\ ServerGrows
    BY <1>1, <1>3 DEF ReceiveUser, Answered, IInv, CallInv, serverVars
  <2>3. CASE Save([uid |-> c.req.uid, verified |-> c.flag]) /\ Adopt(c.req.uid, c.flag)
    BY <2>1, <2>2, <2>3, AdoptInv DEF Save
  <2>4. CASE KeychainFails /\ UNCHANGED <<current, epoch>>
    <3>1. SignedIn \/ current = SignedOut
      BY DEF IInv, UserInv
    <3>2. current.verified => current.uid \in confirmed
      BY DEF IInv, UserInv
    <3> QED BY <2>2, <2>4, <3>1, <3>2, ClientInv
  <2> QED BY <1>3, <2>3, <2>4 DEF ReceiveUser
<1>4. ASSUME NEW c \in calls, ReceiveReload(c) PROVE UserInv' /\ CallInv' /\ ServerGrows
  <2>1. /\ confirmed' = confirmed /\ loaded' = loaded /\ ServerGrows
        /\ epoch' = epoch /\ calls' \subseteq calls
    BY <1>1, <1>4 DEF ReceiveReload, serverVars
  <2>2. /\ c.flag \in BOOLEAN /\ c.req.epoch >= 1 /\ loaded
        /\ c.flag => c.req.uid \in confirmed
        /\ SignedIn /\ c.req.epoch = current.epoch => c.req.uid = current.uid
    BY <1>4 DEF ReceiveReload, Answered, OnObject, IInv, CallInv, TypeOK, Calls
  <2>3. CASE current.epoch = c.req.epoch
    <3>1. SignedIn
      BY <2>2, <2>3 DEF IInv, UserInv, SignedOut
    <3>2. /\ current' = [current EXCEPT !.verified = c.flag] /\ current \in Users
          /\ Save(Saved(current')) \/ KeychainFails
      BY <1>4, <2>3 DEF ReceiveReload, IInv, TypeOK
    <3>3. /\ current'.uid = current.uid /\ current'.epoch = current.epoch
          /\ current'.verified = c.flag
      BY <3>2 DEF Users
    <3> QED BY <2>1, <2>2, <2>3, <3>1, <3>2, <3>3, ClientInv
  <2>4. CASE current.epoch # c.req.epoch
    <3>1. UNCHANGED clientVars
      BY <1>4, <2>4 DEF ReceiveReload, clientVars
    <3>2. \A a \in confirmed' : server'[a] # "none"
      BY <2>1 DEF IInv, UserInv, TypeOK, ServerGrows
    <3> QED BY <2>1, <3>1, <3>2, UserFrame, CallFrame
  <2> QED BY <2>3, <2>4
<1>5. ASSUME NEW c \in calls, ReceiveGone(c) PROVE UserInv' /\ CallInv' /\ ServerGrows
  BY <1>1, <1>5, ForcedInv DEF ReceiveGone, serverVars
<1>6. ASSUME NEW c \in calls, ReceiveNothing(c) PROVE UserInv' /\ CallInv' /\ ServerGrows
  <2>1. UNCHANGED clientVars /\ UNCHANGED serverVars /\ calls' \subseteq calls
    BY <1>6 DEF ReceiveNothing
  <2>2. ServerGrows /\ \A a \in confirmed' : server'[a] # "none"
    BY <2>1 DEF ServerGrows, serverVars, IInv, UserInv
  <2> QED BY <2>1, <2>2, UserFrame, CallFrame
<1>7. CASE RefreshToken
  <2>1. /\ SignedIn /\ loaded /\ loaded' = loaded /\ epoch' = epoch /\ calls' = calls
        /\ confirmed' = confirmed /\ ServerGrows /\ current' = current
        /\ current.verified => current.uid \in confirmed
    BY <1>1, <1>7 DEF RefreshToken, serverVars, IInv, UserInv
  <2>2. Save(Saved(current')) \/ KeychainFails
    BY <1>7, <2>1 DEF RefreshToken
  <2> QED BY <2>1, <2>2, ClientInv
<1>8. CASE RefuseToken
  <2>1. current.uid \in Accounts /\ TypeOK
    BY <1>8 DEF RefuseToken, SignedIn, IInv, TypeOK, Users, Uids
  <2>2. /\ confirmed' = confirmed /\ loaded' = loaded /\ epoch' = epoch /\ calls' = calls
        /\ SignOutByForce(current.epoch) /\ server' = TurnAway(current.uid)
    BY <1>8 DEF RefuseToken
  <2>3. ServerGrows
    BY <2>1, <2>2, TurnAwayGrows
  <2> QED BY <2>2, <2>3, ForcedInv
<1> QED BY <1>2, <1>3, <1>4, <1>5, <1>6, <1>7, <1>8 DEF WorkQueue

\* A turn of the main thread that ends no process changes nothing the client
\* or the server holds; it only sends calls.
LEMMA MainFrame ==
  ASSUME TypeOK, RunNotify \/ RunSignedUp \/ RunSignedIn \/ (RunReloaded /\ SignedIn)
                 \/ RunShowWhoAmI \/ Tick \/ \E vc \in lingering : Deallocate(vc)
  PROVE  UNCHANGED <<server, confirmed, clientVars>> /\ CallsGrow
<1> USE DEF serverVars, uiVars
<1>1. KeepRoot => CallsGrow
  BY DEF KeepRoot, CallsGrow
<1>2. \A screen \in {Home, WhoAmI} : ShowRoot(screen) => CallsGrow
  <2>1. \A screen \in {Home, WhoAmI} : screen \in Screens /\ screen.kind # "verification"
    BY ScreenType DEF Home, WhoAmI, Screen
  <2> QED BY <2>1, ShowRootGrows
<1>3. CASE RunNotify
  <2>1. CASE SignedIn /\ seen # current.uid
    BY <1>3, <2>1, ScreenType, ShowRootGrows DEF RunNotify
  <2>2. CASE ~(SignedIn /\ seen # current.uid)
    BY <1>1, <1>3, <2>2 DEF RunNotify
  <2> QED BY <2>1, <2>2
<1>4. CASE RunSignedUp
  BY <1>4 DEF RunSignedUp, CallsGrow
<1>5. CASE RunSignedIn
  BY <1>1, <1>2, <1>5 DEF RunSignedIn
<1>6. CASE RunReloaded /\ SignedIn
  BY <1>1, <1>2, <1>6 DEF RunReloaded
<1>7. CASE RunShowWhoAmI
  BY <1>2, <1>7 DEF RunShowWhoAmI
<1>8. CASE Tick
  <2>1. {OfCurrent("reload")} \subseteq Requests
    BY <1>8, OfCurrentType DEF Tick, OfCurrent, TypeOK, Screens
  <2>2. CallsGrow
    BY <1>8, <2>1, SendAdds DEF Tick, CallsGrow, Fresh, OfCurrent, Request
  <2> QED BY <1>8, <2>2 DEF Tick
<1>9. CASE \E vc \in lingering : Deallocate(vc)
  BY <1>9 DEF Deallocate, CallsGrow
<1> QED BY <1>3, <1>4, <1>5, <1>6, <1>7, <1>8, <1>9

\* A tap sends a call that is on no user object.
LEMMA TapInv ==
  ASSUME IInv, NEW op \in {"signUp", "signIn"}, NEW a \in Accounts, Tap(op, a)
  PROVE  UserInv' /\ CallInv'
<1>1. UNCHANGED clientVars /\ UNCHANGED serverVars /\ loaded
  BY DEF Tap
<1>2. ServerGrows /\ \A b \in confirmed' : server'[b] # "none"
  BY <1>1 DEF ServerGrows, serverVars, IInv, UserInv
<1>3. UserInv'
  BY <1>1, <1>2, UserFrame
<1>4. /\ server' = server /\ confirmed' = confirmed
      /\ current' = current /\ epoch' = epoch /\ loaded' = loaded /\ SignedIn' = SignedIn
  BY <1>1 DEF serverVars, clientVars, SignedIn
<1>5. {Request(op, a, 0, 0)} \subseteq Requests
  BY DEF Request, Requests
<1>6. \A c \in calls' : c \in calls \/ (c.req = Request(op, a, 0, 0) /\ c.stage = "sent" /\ ~c.flag)
  BY <1>5, SendAdds DEF Tap
<1>7. ASSUME NEW c \in calls', c.req = Request(op, a, 0, 0), c.stage = "sent", ~c.flag
      PROVE  /\ ~OnObject(c) /\ ~Gone(c) /\ c.req.epoch <= epoch
             /\ SignedIn => c.req.epoch # current.epoch
  BY <1>7 DEF Request, OnObject, Gone, IInv, TypeOK, UserInv
<1>8. CallInv'
  BY <1>1, <1>4, <1>6, <1>7 DEF CallInv, IInv, OnObject, Gone
<1> QED BY <1>3, <1>8

\* No step falsifies the invariant.
LEMMA InvStep == IInv /\ [Next]_vars => IInv'
<1> SUFFICES ASSUME IInv, [Next]_vars PROVE UserInv' /\ CallInv'
  BY TypeStep DEF IInv
<1> USE DEF serverVars
<1>1. \A b \in confirmed : server[b] # "none"
  BY DEF IInv, UserInv
<1>2. CASE UNCHANGED vars
  BY <1>1, <1>2, UserFrame, CallFrame DEF vars, ServerGrows
<1>3. CASE WorkQueue
  BY <1>3, ReceiveInv
<1>4. CASE Network
  <2>1. ASSUME NEW c \in calls, Lose(c) PROVE UserInv' /\ CallInv'
    BY <1>1, <2>1, UserFrame, CallFrame DEF Lose, ServerGrows
  <2> QED BY <1>4, <2>1, ExecuteInv DEF Network
<1>5. CASE RunReloaded /\ ~SignedIn
  BY <1>5, EndInv DEF RunReloaded
<1>6. CASE \/ RunNotify \/ RunSignedUp \/ RunSignedIn \/ (RunReloaded /\ SignedIn)
           \/ RunShowWhoAmI \/ Tick \/ \E vc \in lingering : Deallocate(vc)
  <2>1. UNCHANGED <<server, confirmed, clientVars>> /\ CallsGrow
    BY <1>6, MainFrame DEF IInv
  <2> QED BY <1>1, <2>1, UserFrame, CallFrame DEF ServerGrows, CallsGrow
<1>7. ASSUME NEW op \in {"signUp", "signIn"}, NEW a \in Accounts, Tap(op, a)
      PROVE  UserInv' /\ CallInv'
  BY <1>7, TapInv
<1>8. ASSUME NEW a \in Accounts, OpenLink(a) PROVE UserInv' /\ CallInv'
  BY <1>1, <1>8, UserFrame, CallFrame DEF OpenLink, ServerGrows
<1>9. CASE Kill
  BY <1>9, EndInv DEF Kill
<1>10. CASE Launch
  BY <1>1, <1>10, UserFrame, CallFrame DEF Launch, ServerGrows
<1> QED
  BY <1>2, <1>3, <1>4, <1>5, <1>6, <1>7, <1>8, <1>9, <1>10 DEF Next, RunBlock, User

\* The invariant holds in every reachable state.
THEOREM Invariant == Spec => []IInv
BY InvInit, InvStep, PTL DEF Spec

----------------------------------------------------------------------------
(* The properties *)

\* Nobody is taken for verified who has not opened the link.
THEOREM Beliefs == Spec => []BelievedVerifiedIsVerified
<1>1. IInv => BelievedVerifiedIsVerified
  BY DEF IInv, UserInv, CallInv, BelievedVerifiedIsVerified
<1> QED BY <1>1, Invariant, PTL

\* A relaunch resumes the session in memory, but for the writes that failed.
THEOREM Resumes == Spec => []RelaunchResumesSession
<1>1. IInv => RelaunchResumesSession
  BY DEF IInv, UserInv
<1> QED BY <1>1, Invariant, PTL

\* A forced sign-out ends the session of the account it is about, nothing else.
LEMMA ForcedEnds ==
  ASSUME IInv, NEW n, SignOutByForce(n),
         SignedIn /\ current.epoch = n => server'[current.uid] \in TurnedAway
  PROVE  /\ keychain'.uid = keychain.uid \/ server'[keychain.uid] \in TurnedAway
         /\ current'.uid = current.uid \/ server'[current.uid] \in TurnedAway
<1>1. CASE SignedIn /\ current.epoch = n
  <2>1. keychain.uid = current.uid
    BY <1>1 DEF IInv, UserInv, RelaunchResumesSession
  <2> QED BY <1>1, <2>1
<1>2. CASE ~(SignedIn /\ current.epoch = n)
  BY <1>2 DEF SignOutByForce
<1> QED BY <1>1, <1>2

\* The work queue takes a session away only from an account turned away.
LEMMA WorkEnds ==
  ASSUME IInv, WorkQueue
  PROVE  /\ keychain.uid # NoAccount /\ keychain'.uid = NoAccount
              => server'[keychain.uid] \in TurnedAway
         /\ SignedIn /\ current'.uid = NoAccount
              => server'[current.uid] \in TurnedAway
<1>1. CASE LoadKeychain
  BY <1>1 DEF LoadKeychain, KeychainFails, IInv, UserInv
<1>2. ASSUME NEW c \in calls, ReceiveUser(c)
      PROVE  /\ keychain' = keychain \/ keychain'.uid # NoAccount
             /\ current' = current \/ current'.uid # NoAccount
  BY <1>2, NoAccountAssumption
  DEF ReceiveUser, Save, KeychainFails, Adopt, IInv, TypeOK, Calls, Requests
<1>3. ASSUME NEW c \in calls, ReceiveReload(c)
      PROVE  /\ keychain' = keychain \/ keychain'.uid # NoAccount
             /\ current'.uid = current.uid
  <2>1. current'.uid = current.uid
    BY <1>3 DEF ReceiveReload, IInv, TypeOK, Users
  <2>2. ASSUME keychain' # keychain PROVE keychain'.uid # NoAccount
    <3>1. current.epoch = c.req.epoch /\ keychain' = Saved(current')
      BY <1>3, <2>2 DEF ReceiveReload, Save, KeychainFails
    <3>2. c.req.epoch >= 1
      BY <1>3 DEF ReceiveReload, Answered, OnObject, IInv, CallInv
    <3>3. SignedIn
      BY <3>1, <3>2 DEF IInv, UserInv, SignedOut
    <3> QED BY <2>1, <3>1, <3>3 DEF Saved, SignedIn
  <2> QED BY <2>1, <2>2
<1>4. ASSUME NEW c \in calls, ReceiveGone(c)
      PROVE  /\ keychain'.uid = keychain.uid \/ server'[keychain.uid] \in TurnedAway
             /\ current'.uid = current.uid \/ server'[current.uid] \in TurnedAway
  <2>1. Gone(c) /\ ~c.orphan /\ server' = server /\ SignOutByForce(c.req.epoch)
    BY <1>4 DEF ReceiveGone, Answered, Gone, serverVars
  <2>2. SignedIn /\ current.epoch = c.req.epoch => server'[current.uid] \in TurnedAway
    BY <2>1 DEF IInv, CallInv
  <2> QED BY <2>1, <2>2, ForcedEnds
<1>5. ASSUME NEW c \in calls, ReceiveNothing(c)
      PROVE  keychain' = keychain /\ current' = current
  BY <1>5 DEF ReceiveNothing, clientVars
<1>6. CASE RefreshToken
  <2>1. keychain' = keychain \/ keychain' = Saved(current)
    BY <1>6 DEF RefreshToken, Save, KeychainFails
  <2> QED BY <1>6, <2>1 DEF RefreshToken, Saved, SignedIn
<1>7. CASE RefuseToken
  <2>1. /\ current.uid \in Accounts /\ TypeOK /\ server[current.uid] # "none"
        /\ server' = TurnAway(current.uid) /\ confirmed' = confirmed
        /\ SignOutByForce(current.epoch)
    BY <1>7 DEF RefuseToken, SignedIn, IInv, UserInv, TypeOK, Users, Uids
  <2>2. server'[current.uid] \in TurnedAway
    BY <2>1, TurnAwayGrows
  <2>3. /\ keychain'.uid = keychain.uid \/ server'[keychain.uid] \in TurnedAway
        /\ current'.uid = current.uid \/ server'[current.uid] \in TurnedAway
    BY <2>1, <2>2, ForcedEnds
  <2> QED BY <2>3 DEF SignedIn
<1> QED
  BY <1>1, <1>2, <1>3, <1>4, <1>5, <1>6, <1>7 DEF WorkQueue, SignedIn

\* A step that empties the keychain, or the memory of a client that goes on,
\* has learnt that the account is turned away.
LEMMA SessionEndsStep ==
  ASSUME IInv, [Next]_vars
  PROVE  /\ keychain.uid # NoAccount /\ keychain'.uid = NoAccount
              => server'[keychain.uid] \in TurnedAway
         /\ SignedIn /\ loaded' /\ current'.uid = NoAccount
              => server'[current.uid] \in TurnedAway
<1>1. CASE WorkQueue
  BY <1>1, WorkEnds
<1>2. ASSUME ~WorkQueue
      PROVE  keychain' = keychain /\ (current' = current \/ ~loaded')
  <2> USE DEF clientVars
  <2>1. CASE UNCHANGED vars \/ Network \/ Launch
    BY <2>1 DEF vars, Network, Execute, Lose, Launch
  <2>2. CASE Kill \/ (RunReloaded /\ ~SignedIn)
    BY <2>2 DEF Kill, EndProcess, RunReloaded
  <2>3. CASE \E a \in Accounts : Tap("signUp", a) \/ Tap("signIn", a) \/ OpenLink(a)
    BY <2>3 DEF Tap, OpenLink
  <2>4. CASE \/ RunNotify \/ RunSignedUp \/ RunSignedIn \/ (RunReloaded /\ SignedIn)
             \/ RunShowWhoAmI \/ Tick \/ \E vc \in lingering : Deallocate(vc)
    BY <2>4, MainFrame DEF IInv
  <2> QED BY <1>2, <2>1, <2>2, <2>3, <2>4 DEF Next, RunBlock, User
<1> QED BY <1>1, <1>2 DEF SignedIn

\* Only a server that turns the account away ends a session.
THEOREM SessionEnds == Spec => SessionEndsOnlyByRefusal
<1>1. IInv /\ [Next]_vars =>
        [/\ keychain.uid # NoAccount /\ keychain'.uid = NoAccount
              => server'[keychain.uid] \in TurnedAway
         /\ SignedIn /\ loaded' /\ current'.uid = NoAccount
              => server'[current.uid] \in TurnedAway]_vars
  BY SessionEndsStep
<1> QED BY <1>1, Invariant, PTL DEF Spec, SessionEndsOnlyByRefusal

----------------------------------------------------------------------------
(* The listener and the user it has seen *)

\* The blocks waiting on a queue, without their order.
BlocksIn(q) == {q[i] : i \in 1 .. Len(q)}

\* The listener acted on the user it has seen last, the Verification screen
\* is the one it made for that user, and it has seen the client's user unless
\* a notification of a change waits.
ListenerInv ==
  /\ seen # NoAccount => seen \in listening /\ root.kind # "registration"
  /\ root.kind = "verification" /\ seen # NoAccount => root.uid = seen
  /\ Notify \in BlocksIn(queue) \/ seen = current.uid

\* No answer to a reload is under way or waits to be taken.
NoReload ==
  /\ \A b \in BlocksIn(queue) : b.do # "reloaded"
  /\ \A c \in calls : c.req.op = "reload" => c.orphan

\* As long as no account was turned away, an answer to a reload finds somebody
\* signed in.
TrapInv ==
  \/ \E a \in Accounts : server[a] \in TurnedAway
  \/ process # "trapped" /\ (SignedIn \/ NoReload)

\* What appending, concatenating and taking does to the blocks waiting.
LEMMA QueueAppend ==
  ASSUME NEW q \in Seq(Blocks), NEW b \in Blocks
  PROVE  BlocksIn(Append(q, b)) = BlocksIn(q) \cup {b}
<1>1. /\ Len(Append(q, b)) = Len(q) + 1 /\ Len(q) \in Nat
      /\ \A i \in 1 .. Len(q) : Append(q, b)[i] = q[i]
      /\ Append(q, b)[Len(q) + 1] = b
  OBVIOUS
<1>2. 1 .. Len(Append(q, b)) = 1 .. Len(q) \cup {Len(q) + 1}
  BY <1>1
<1> QED BY <1>1, <1>2 DEF BlocksIn

\* The blocks of a concatenation are those of its parts.
LEMMA QueueConcat ==
  ASSUME NEW q \in Seq(Blocks), NEW r \in Seq(Blocks)
  PROVE  BlocksIn(q \o r) = BlocksIn(q) \cup BlocksIn(r)
<1>1. /\ Len(q \o r) = Len(q) + Len(r) /\ Len(q) \in Nat /\ Len(r) \in Nat
      /\ \A i \in 1 .. Len(q) + Len(r) :
           (q \o r)[i] = IF i <= Len(q) THEN q[i] ELSE r[i - Len(q)]
  OBVIOUS
<1>2. ASSUME NEW b \in BlocksIn(q \o r) PROVE b \in BlocksIn(q) \cup BlocksIn(r)
  <2>1. PICK i \in 1 .. Len(q) + Len(r) : b = (q \o r)[i]
    BY <1>1, <1>2 DEF BlocksIn
  <2>2. CASE i <= Len(q)
    BY <1>1, <2>1, <2>2 DEF BlocksIn
  <2>3. CASE ~(i <= Len(q))
    <3>1. i - Len(q) \in 1 .. Len(r) /\ b = r[i - Len(q)]
      BY <1>1, <2>1, <2>3
    <3> QED BY <3>1 DEF BlocksIn
  <2> QED BY <2>2, <2>3
<1>3. ASSUME NEW b \in BlocksIn(q) PROVE b \in BlocksIn(q \o r)
  <2>1. PICK i \in 1 .. Len(q) : b = q[i]
    BY <1>3 DEF BlocksIn
  <2>2. i \in 1 .. Len(q \o r) /\ b = (q \o r)[i]
    BY <1>1, <2>1
  <2> QED BY <2>2 DEF BlocksIn
<1>4. ASSUME NEW b \in BlocksIn(r) PROVE b \in BlocksIn(q \o r)
  <2>1. PICK i \in 1 .. Len(r) : b = r[i]
    BY <1>4 DEF BlocksIn
  <2>2. Len(q) + i \in 1 .. Len(q \o r) /\ b = (q \o r)[Len(q) + i]
    BY <1>1, <2>1
  <2> QED BY <2>2 DEF BlocksIn
<1> QED BY <1>2, <1>3, <1>4

\* Taking the first block leaves the others.
LEMMA QueueTail ==
  ASSUME NEW q \in Seq(Blocks), q # <<>>
  PROVE  /\ Tail(q) \in Seq(Blocks) /\ Head(q) \in Blocks
         /\ BlocksIn(q) = {Head(q)} \cup BlocksIn(Tail(q))
<1>1. /\ Tail(q) \in Seq(Blocks) /\ Head(q) \in Blocks /\ Head(q) = q[1]
      /\ Len(q) \in Nat /\ Len(q) >= 1 /\ Len(Tail(q)) = Len(q) - 1
      /\ \A i \in 1 .. Len(q) - 1 : Tail(q)[i] = q[i + 1]
  OBVIOUS
<1>2. ASSUME NEW b \in BlocksIn(q), b # Head(q) PROVE b \in BlocksIn(Tail(q))
  <2>1. PICK i \in 1 .. Len(q) : b = q[i]
    BY <1>2 DEF BlocksIn
  <2>2. i # 1
    BY <1>1, <1>2, <2>1
  <2>3. i - 1 \in 1 .. Len(Tail(q)) /\ b = Tail(q)[i - 1]
    BY <1>1, <2>1, <2>2
  <2> QED BY <2>3 DEF BlocksIn
<1>3. ASSUME NEW b \in BlocksIn(Tail(q)) PROVE b \in BlocksIn(q)
  <2>1. PICK i \in 1 .. Len(q) - 1 : b = q[i + 1]
    BY <1>1, <1>3 DEF BlocksIn
  <2>2. i + 1 \in 1 .. Len(q)
    BY <1>1
  <2> QED BY <2>1, <2>2 DEF BlocksIn
<1>4. Head(q) \in BlocksIn(q)
  BY <1>1 DEF BlocksIn
<1> QED BY <1>1, <1>2, <1>3, <1>4

\* The blocks of the short queues the steps put in.
LEMMA QueueShort ==
  /\ BlocksIn(<<>>) = {}
  /\ \A b : BlocksIn(<<b>>) = {b}
  /\ \A b, d : BlocksIn(<<b, d>>) = {b, d}
<1>1. \A b : BlocksIn(<<b>>) = {b}
  <2> TAKE b
  <2>1. Len(<<b>>) = 1 /\ <<b>>[1] = b /\ 1 .. 1 = {1}
    OBVIOUS
  <2> QED BY <2>1 DEF BlocksIn
<1>2. \A b, d : BlocksIn(<<b, d>>) = {b, d}
  <2> TAKE b, d
  <2>1. Len(<<b, d>>) = 2 /\ <<b, d>>[1] = b /\ <<b, d>>[2] = d /\ 1 .. 2 = {1, 2}
    OBVIOUS
  <2> QED BY <2>1 DEF BlocksIn
<1>3. BlocksIn(<<>>) = {}
  BY DEF BlocksIn
<1> QED BY <1>1, <1>2, <1>3

\* The main thread takes the first block: a notification only in RunNotify,
\* and it queues nothing but the second half of popToRoot.
LEMMA MainQueue ==
  ASSUME TypeOK, RunSignedUp \/ RunSignedIn \/ (RunReloaded /\ SignedIn) \/ RunShowWhoAmI
  PROVE  /\ Notify \in BlocksIn(queue) => Notify \in BlocksIn(queue')
         /\ \A b \in BlocksIn(queue') : b \in BlocksIn(queue) \/ b.do = "showWhoAmI"
<1>1. queue \in Seq(Blocks) /\ queue # <<>> /\ Head(queue).do # "notify"
  BY DEF TypeOK, RunSignedUp, RunSignedIn, RunReloaded, RunShowWhoAmI, Takes
<1>2. /\ Tail(queue) \in Seq(Blocks)
      /\ BlocksIn(queue) = {Head(queue)} \cup BlocksIn(Tail(queue))
  BY <1>1, QueueTail
<1>3. Notify # Head(queue)
  BY <1>1 DEF Notify, Block
<1>4. CASE queue' = Tail(queue)
  BY <1>2, <1>3, <1>4
<1>5. CASE queue' = Append(Tail(queue), Block("showWhoAmI", 0))
  <2>1. Block("showWhoAmI", 0) \in Blocks /\ Block("showWhoAmI", 0).do = "showWhoAmI"
    BY DEF Block, Blocks
  <2>2. BlocksIn(queue') = BlocksIn(Tail(queue)) \cup {Block("showWhoAmI", 0)}
    BY <1>2, <1>5, <2>1, QueueAppend
  <2> QED BY <1>2, <1>3, <2>1, <2>2
<1> QED BY <1>4, <1>5 DEF RunSignedUp, RunSignedIn, RunReloaded, RunShowWhoAmI, Done

\* A step of the work queue that changes the user queues a notification, and
\* no step of it takes one.
LEMMA WorkNotifies ==
  ASSUME IInv, WorkQueue
  PROVE  /\ Notify \in BlocksIn(queue) => Notify \in BlocksIn(queue')
         /\ current'.uid # current.uid => Notify \in BlocksIn(queue')
<1> USE DEF IInv, clientVars
<1>1. CASE LoadKeychain
  BY <1>1, QueueAppend, BlockType DEF LoadKeychain, TypeOK
<1>2. ASSUME NEW op \in {"signUp", "signIn"}, queue' = queue \o <<Notify, Block(op, 0)>>
      PROVE  Notify \in BlocksIn(queue')
  <2>1. <<Notify, Block(op, 0)>> \in Seq(Blocks)
    BY BlockType
  <2>2. BlocksIn(queue') = BlocksIn(queue) \cup BlocksIn(<<Notify, Block(op, 0)>>)
    BY <1>2, <2>1, QueueConcat DEF TypeOK
  <2>3. Notify \in BlocksIn(<<Notify, Block(op, 0)>>)
    <3>1. \A b, d : BlocksIn(<<b, d>>) = {b, d}
      BY QueueShort
    <3>2. BlocksIn(<<Notify, Block(op, 0)>>) = {Notify, Block(op, 0)}
      BY <3>1, Zenon
    <3> QED BY <3>2
  <2> QED BY <2>2, <2>3
<1>3. ASSUME NEW c \in calls, ReceiveUser(c)
      PROVE  \/ queue' = queue /\ current' = current
             \/ Notify \in BlocksIn(queue')
  BY <1>2, <1>3 DEF ReceiveUser
<1>4. ASSUME NEW c \in calls, ReceiveReload(c)
      PROVE  /\ Notify \in BlocksIn(queue) => Notify \in BlocksIn(queue')
             /\ current'.uid = current.uid
  <2>1. current'.uid = current.uid
    BY <1>4 DEF ReceiveReload, TypeOK, Users
  <2>2. queue' = queue \/ queue' = Append(queue, Block("reloaded", c.req.vc))
    BY <1>4 DEF ReceiveReload
  <2>3. Block("reloaded", c.req.vc) \in Blocks
    BY BlockType DEF TypeOK, Calls, Requests
  <2> QED BY <2>1, <2>2, <2>3, QueueAppend DEF TypeOK
<1>5. ASSUME NEW n, SignOutByForce(n)
      PROVE  /\ Notify \in BlocksIn(queue) => Notify \in BlocksIn(queue')
             /\ current'.uid # current.uid => Notify \in BlocksIn(queue')
  BY <1>5, QueueAppend, BlockType DEF SignOutByForce, TypeOK
<1>6. ASSUME NEW c \in calls, ReceiveGone(c)
      PROVE  SignOutByForce(c.req.epoch)
  BY <1>6 DEF ReceiveGone
<1>7. ASSUME NEW c \in calls, ReceiveNothing(c)
      PROVE  queue' = queue /\ current' = current
  BY <1>7 DEF ReceiveNothing
<1>8. CASE RefreshToken
  BY <1>8, QueueAppend, BlockType DEF RefreshToken, TypeOK
<1>9. CASE RefuseToken
  BY <1>5, <1>9 DEF RefuseToken
<1> QED BY <1>1, <1>3, <1>4, <1>5, <1>6, <1>7, <1>8, <1>9 DEF WorkQueue

\* The listener keeps up with a change of the user made anywhere.
LEMMA ListenerStep ==
  ASSUME IInv, ListenerInv, [Next]_vars
  PROVE  ListenerInv'
<1> USE DEF ListenerInv
<1>1. CASE UNCHANGED vars \/ Network \/ Tick \/ (\E vc \in lingering : Deallocate(vc)) \/ Launch
           \/ (\E a \in Accounts : Tap("signUp", a) \/ Tap("signIn", a) \/ OpenLink(a))
  <2>1. UNCHANGED <<seen, listening, root, queue, current>>
    BY <1>1 DEF vars, uiVars, clientVars, Network, Execute, Lose, Tick, Deallocate, Launch,
       Tap, OpenLink
  <2> QED BY <2>1
<1>2. CASE WorkQueue
  <2>1. UNCHANGED <<seen, listening, root>>
    BY <1>2 DEF uiVars, WorkQueue, LoadKeychain, ReceiveUser, ReceiveReload, ReceiveGone,
       ReceiveNothing, RefreshToken, RefuseToken
  <2> QED BY <1>2, <2>1, WorkNotifies
<1>3. ASSUME EndProcess("trapped") \/ EndProcess("stopped") PROVE ListenerInv'
  <2>1. seen' = NoAccount /\ queue' = <<Notify>>
    BY <1>3 DEF EndProcess
  <2> QED BY <2>1, QueueShort
<1>4. CASE RunNotify
  <2>1. seen' = current.uid /\ current' = current
    BY <1>4 DEF RunNotify, clientVars
  <2>2. CASE SignedIn /\ seen # current.uid
    <3>1. /\ listening' = listening \cup {current.uid}
          /\ root' = IF current.verified THEN Home ELSE Verification
      BY <1>4, <2>2 DEF RunNotify, ShowRoot
    <3>2. root'.kind # "registration" /\ (root'.kind = "verification" => root'.uid = current.uid)
      BY <3>1 DEF Home, Verification, Screen
    <3> QED BY <2>1, <3>1, <3>2
  <2>3. CASE ~(SignedIn /\ seen # current.uid)
    <3>1. listening' = listening /\ root' = root
      BY <1>4, <2>3 DEF RunNotify, KeepRoot
    <3> QED BY <2>1, <2>3, <3>1 DEF SignedIn
  <2> QED BY <2>2, <2>3
<1>5. CASE RunSignedUp \/ RunSignedIn \/ (RunReloaded /\ SignedIn) \/ RunShowWhoAmI
  <2>1. UNCHANGED <<seen, listening, current>>
    BY <1>5 DEF RunSignedUp, RunSignedIn, RunReloaded, RunShowWhoAmI, uiVars, clientVars
  <2>2. root' \in {root, Home, WhoAmI}
    BY <1>5 DEF RunSignedUp, RunSignedIn, RunReloaded, RunShowWhoAmI, uiVars, KeepRoot, ShowRoot
  <2>3. Home.kind = "home" /\ WhoAmI.kind = "whoami"
    BY DEF Home, WhoAmI, Screen
  <2> QED BY <1>5, <2>1, <2>2, <2>3, MainQueue DEF IInv
<1> QED
  BY <1>1, <1>2, <1>3, <1>4, <1>5 DEF Next, RunBlock, User, Kill, RunReloaded

\* The listener's invariant holds in every reachable state.
LEMMA ListenerAlways == Spec => []ListenerInv
<1>1. Init => ListenerInv
  BY QueueShort DEF Init, Launched, ListenerInv
<1>2. IInv /\ ListenerInv /\ [Next]_vars => ListenerInv'
  BY ListenerStep
<1> QED BY <1>1, <1>2, Invariant, PTL DEF Spec

\* A notification waits exactly if NotifyPending says so.
LEMMA Pending == NotifyPending <=> Notify \in BlocksIn(queue)
BY DEF NotifyPending, BlocksIn

\* Once no notification waits, the listener has seen the user the client
\* holds and acted on it.
THEOREM ListenerNeverMisses == Spec => []ListenerCatchesUp
<1>1. ListenerInv => ListenerCatchesUp
  BY Pending DEF ListenerInv, ListenerCatchesUp, SignedIn
<1> QED BY <1>1, ListenerAlways, PTL

\* The Verification screen shows the account its timer reloads.
THEOREM VerificationIsCurrent == Spec => []VerificationShowsCurrent
<1>1. ListenerInv => VerificationShowsCurrent
  BY Pending DEF ListenerInv, VerificationShowsCurrent, SignedIn
<1> QED BY <1>1, ListenerAlways, PTL

----------------------------------------------------------------------------
(* The forced unwrapping *)

\* An account that was turned away stays one that was.
LEMMA ServerStep ==
  ASSUME IInv, [Next]_vars
  PROVE  ServerGrows
<1> USE DEF serverVars
<1>1. CASE WorkQueue
  BY <1>1, ReceiveInv
<1>2. ASSUME NEW c \in calls, Execute(c) PROVE ServerGrows
  BY <1>2, ExecuteInv
<1>3. ASSUME ~WorkQueue, ~ \E c \in calls : Execute(c)
      PROVE  server' = server /\ confirmed \subseteq confirmed'
  BY <1>3 DEF Next, vars, Network, Lose, RunBlock, RunNotify, RunSignedUp, RunSignedIn,
     RunReloaded, RunShowWhoAmI, EndProcess, Tick, Deallocate, User, Tap, OpenLink, Kill,
     Launch
<1> QED BY <1>1, <1>2, <1>3 DEF ServerGrows

\* The calls of a step that sends none on nobody's object stay quiet.
LEMMA CallsStayQuiet ==
  ASSUME CallsGrow, ~SignedIn, \A c \in calls : c.req.op = "reload" => c.orphan
  PROVE  \A c \in calls' : c.req.op = "reload" => c.orphan
BY DEF CallsGrow, Fresh

\* While no account is turned away nobody is signed out, and a reload is only
\* asked for, and answered, for somebody.
LEMMA TrapStep ==
  ASSUME IInv, TrapInv, [Next]_vars
  PROVE  TrapInv'
<1> SUFFICES ASSUME \A a \in Accounts : server[a] \notin TurnedAway,
                    process # "trapped", SignedIn \/ NoReload
             PROVE  \/ \E a \in Accounts : server'[a] \in TurnedAway
                    \/ process' # "trapped" /\ (SignedIn' \/ NoReload')
  BY ServerStep DEF TrapInv, ServerGrows, TurnedAway
<1>1. CASE UNCHANGED vars \/ Launch \/ (\E vc \in lingering : Deallocate(vc))
           \/ (\E a \in Accounts : OpenLink(a))
  BY <1>1 DEF vars, clientVars, uiVars, Launch, Deallocate, OpenLink, SignedIn, NoReload
<1>2. CASE Network
  <2>1. UNCHANGED <<process, queue>> /\ current' = current
    BY <1>2 DEF Network, Execute, Lose, clientVars
  <2>2. ASSUME NoReload, NEW d \in calls', d.req.op = "reload" PROVE d.orphan
    <3>1. PICK c \in calls : Execute(c) \/ Lose(c)
      BY <1>2 DEF Network
    <3>2. CASE d \in calls
      BY <2>2, <3>2 DEF NoReload
    <3>3. CASE d \notin calls
      <4>1. PICK answer \in Answers(c) :
              d = [c EXCEPT !.stage = answer, !.flag = Reported(c, answer)] /\ ~c.orphan
        BY <3>1, <3>3 DEF Execute, Lose
      <4>2. d.req = c.req
        BY <4>1 DEF IInv, TypeOK, Calls
      <4> QED BY <2>2, <4>1, <4>2 DEF NoReload
    <3> QED BY <3>2, <3>3
  <2> QED BY <2>1, <2>2 DEF NoReload, SignedIn
<1>3. CASE WorkQueue
  <2>1. process' = process
    BY <1>3 DEF WorkQueue, LoadKeychain, ReceiveUser, ReceiveReload, ReceiveGone,
       ReceiveNothing, RefreshToken, RefuseToken
  <2>2. ASSUME current' = current, queue' = queue, calls' \subseteq calls
        PROVE  SignedIn' \/ NoReload'
    BY <2>2 DEF SignedIn, NoReload
  <2>3. CASE LoadKeychain
    <3>1. CASE Adopt(keychain.uid, keychain.verified) /\ keychain # NoneSaved
      <4>1. keychain.uid # NoAccount
        BY <3>1 DEF IInv, UserInv
      <4>2. current'.uid = keychain.uid
        BY <3>1 DEF Adopt
      <4> QED BY <2>1, <4>1, <4>2 DEF SignedIn
    <3>2. CASE UNCHANGED <<current, queue>>
      BY <2>2, <2>3, <3>2 DEF LoadKeychain
    <3> QED BY <2>3, <3>1, <3>2 DEF LoadKeychain
  <2>4. ASSUME NEW c \in calls, ReceiveUser(c) PROVE SignedIn' \/ NoReload'
    <3>1. c.req.uid # NoAccount
      BY NoAccountAssumption DEF IInv, TypeOK, Calls, Requests
    <3>2. CASE Adopt(c.req.uid, c.flag)
      BY <3>1, <3>2 DEF Adopt, SignedIn
    <3>3. CASE UNCHANGED <<current, queue>>
      BY <2>2, <2>4, <3>3 DEF ReceiveUser
    <3> QED BY <2>4, <3>2, <3>3 DEF ReceiveUser
  <2>5. ASSUME NEW c \in calls, ReceiveReload(c) PROVE SignedIn'
    <3>1. SignedIn
      BY <2>5 DEF ReceiveReload, Answered, NoReload
    <3>2. current'.uid = current.uid
      BY <2>5 DEF ReceiveReload, IInv, TypeOK, Users
    <3> QED BY <3>1, <3>2 DEF SignedIn
  <2>6. ASSUME NEW c \in calls, ReceiveGone(c) PROVE SignedIn' \/ NoReload'
    <3>1. Gone(c) /\ c.req.uid \in Accounts
      BY <2>6 DEF ReceiveGone, Answered, Gone, IInv, TypeOK, Calls, Requests
    <3> QED BY <3>1 DEF IInv, CallInv
  <2>7. ASSUME NEW c \in calls, ReceiveNothing(c) PROVE SignedIn' \/ NoReload'
    BY <2>2, <2>7 DEF ReceiveNothing, clientVars
  <2>8. CASE RefreshToken
    BY <2>8 DEF RefreshToken, SignedIn
  <2>9. CASE RefuseToken
    <3>1. /\ current.uid \in Accounts /\ TypeOK /\ server[current.uid] # "none"
          /\ server' = TurnAway(current.uid) /\ confirmed' = confirmed
      BY <2>9 DEF RefuseToken, SignedIn, IInv, UserInv, TypeOK, Users, Uids
    <3> QED BY <3>1, TurnAwayGrows
  <2> QED BY <1>3, <2>1, <2>3, <2>4, <2>5, <2>6, <2>7, <2>8, <2>9 DEF WorkQueue
<1>4. CASE RunReloaded /\ ~SignedIn
  <2>1. Head(queue).do = "reloaded" /\ Head(queue) \in BlocksIn(queue)
    BY <1>4, QueueTail DEF RunReloaded, Takes, IInv, TypeOK
  <2> QED BY <1>4, <2>1 DEF NoReload
<1>5. CASE Kill
  <2>1. process' = "stopped" /\ queue' = <<Notify>> /\ Notify.do = "notify"
    BY <1>5 DEF Kill, EndProcess, Notify, Block
  <2>2. \A d \in calls' : d.orphan
    <3>1. \A c \in calls : [c EXCEPT !.orphan = TRUE].orphan
      BY DEF IInv, TypeOK, Calls
    <3> QED BY <1>5, <3>1 DEF Kill, EndProcess
  <2> QED BY <2>1, <2>2, QueueShort DEF NoReload
<1>6. CASE RunNotify \/ RunSignedUp \/ RunSignedIn \/ (RunReloaded /\ SignedIn)
           \/ RunShowWhoAmI \/ Tick
  <2>1. UNCHANGED clientVars /\ CallsGrow
    BY <1>6, MainFrame DEF IInv
  <2>2. process' = process /\ SignedIn' = SignedIn
    BY <1>6, <2>1 DEF RunNotify, RunSignedUp, RunSignedIn, RunReloaded, RunShowWhoAmI, Tick,
       clientVars, SignedIn
  <2>3. \A b \in BlocksIn(queue') : b \in BlocksIn(queue) \/ b.do = "showWhoAmI"
    <3>1. CASE RunNotify
      BY <3>1, QueueTail DEF RunNotify, Takes, Done, IInv, TypeOK
    <3>2. CASE Tick
      BY <3>2 DEF Tick
    <3> QED BY <1>6, <3>1, <3>2, MainQueue DEF IInv
  <2>4. ASSUME ~SignedIn PROVE NoReload'
    BY <2>1, <2>3, <2>4, CallsStayQuiet DEF NoReload
  <2> QED BY <2>2, <2>4
<1>7. ASSUME NEW op \in {"signUp", "signIn"}, NEW a \in Accounts, Tap(op, a)
      PROVE  process' = process /\ (SignedIn' \/ NoReload')
  <2>1. {Request(op, a, 0, 0)} \subseteq Requests
    BY DEF Request, Requests
  <2>2. \A c \in calls' : c \in calls \/ c.req.op # "reload"
    BY <1>7, <2>1, SendAdds DEF Tap, Request
  <2> QED BY <1>7, <2>2 DEF Tap, clientVars, SignedIn, NoReload
<1> QED
  BY <1>1, <1>2, <1>3, <1>4, <1>5, <1>6, <1>7 DEF Next, RunBlock, User

\* A process traps on its missing user only after an account was turned away.
THEOREM TrapsAfterRefusal == Spec => []TrapsOnlyAfterRefusal
<1>1. Init => TrapInv
  <2>1. ASSUME Init PROVE process # "trapped" /\ NoReload
    BY <2>1, QueueShort DEF Init, Launched, NoReload, Notify, Block
  <2> QED BY <2>1 DEF TrapInv
<1>2. IInv /\ TrapInv /\ [Next]_vars => TrapInv'
  BY TrapStep
<1>3. TrapInv => TrapsOnlyAfterRefusal
  BY DEF TrapInv, TrapsOnlyAfterRefusal
<1> QED BY <1>1, <1>2, <1>3, Invariant, PTL DEF Spec

----------------------------------------------------------------------------
(* Session implements AccountLife *)

OrdersIn(set) == {c.req.uid : c \in {d \in set : d.req.op = "delete"}}

\* The first state maps to a first state.
LEMMA LifeInit == Init => Life!Init
BY DEF Init, Launched, Held, Life!Init, NoneSaved, Life!Nobody

\* What a step does to the orders when the calls only shrink ...
LEMMA OrdersShrink ==
  ASSUME \A c \in calls' : c.req.op = "delete" =>
           \E d \in calls : d.req = c.req
  PROVE  OrdersIn(calls') \in SUBSET OrdersIn(calls)
BY DEF OrdersIn

\* ... and when only calls come and go that delete nothing.
LEMMA OrdersSame ==
  ASSUME \A c \in calls' : c.req.op = "delete" => \E d \in calls : d.req = c.req,
         \A c \in calls : c.req.op = "delete" => \E d \in calls' : d.req = c.req
  PROVE  OrdersIn(calls') = OrdersIn(calls)
BY DEF OrdersIn

\* The session of the life cycle while somebody is signed in, and nobody is.
LEMMA HeldIs ==
  ASSUME IInv
  PROVE  /\ SignedIn => /\ loaded /\ Held = Saved(current) /\ Held.uid = current.uid
                        /\ Held.verified = current.verified /\ current.uid \in Accounts
         /\ Saved(SignedOut) = Life!Nobody /\ NoneSaved = Life!Nobody
         /\ UNCHANGED clientVars => Held' = Held /\ keychain' = keychain
BY DEF IInv, UserInv, TypeOK, Users, Uids, SignedIn, SignedOut, NoneSaved, Held, Saved,
   clientVars, Life!Nobody

\* A turn of the main thread gives at most one order: for the session's own
\* account, while it is believed unverified.
LEMMA OrdersGrow ==
  ASSUME IInv, CallsGrow
  PROVE  \/ OrdersIn(calls') = OrdersIn(calls)
         \/ /\ OrdersIn(calls') = OrdersIn(calls) \cup {Held.uid}
            /\ Held.uid \in Accounts /\ ~Held.verified
<1>1. CASE \E c \in calls' : Fresh(c) /\ c.req.op = "delete"
  <2>1. /\ SignedIn /\ ~current.verified
        /\ \A c \in calls' : c \in calls \/ c.req.op # "delete" \/ c.req.uid = current.uid
        /\ \E c \in calls' : c.req.op = "delete" /\ c.req.uid = current.uid
    BY <1>1 DEF CallsGrow, Fresh
  <2>2. OrdersIn(calls') = OrdersIn(calls) \cup {current.uid}
    BY <2>1 DEF CallsGrow, OrdersIn
  <2> QED BY <2>1, <2>2, HeldIs
<1>2. CASE ~ \E c \in calls' : Fresh(c) /\ c.req.op = "delete"
  BY <1>2 DEF CallsGrow, OrdersIn
<1> QED BY <1>1, <1>2

\* The server's execution of a call maps to a step of the life cycle.
LEMMA LifeExecute ==
  ASSUME IInv, NEW c \in calls, Execute(c)
  PROVE  Life!Next
<1> DEFINE uid == c.req.uid
<1>1. /\ c \in Calls /\ uid \in Accounts /\ TypeOK
      /\ \A s, f : [c EXCEPT !.stage = s, !.flag = f].req = c.req
  BY DEF IInv, TypeOK, Calls, Requests
<1>2. confirmed' = confirmed /\ keychain' = keychain /\ Held' = Held
  BY HeldIs DEF Execute
<1>3. PICK answer \in Answers(c) :
        /\ server' = CASE answer = "ok" /\ c.req.op = "signUp" -> [server EXCEPT ![uid] = "live"]
                       [] answer = "ok" /\ c.req.op = "delete" -> [server EXCEPT ![uid] = "deleted"]
                       [] answer = "gone" -> TurnAway(uid)
                       [] OTHER -> server
        /\ calls \ {c} \subseteq calls'
        /\ calls' \subseteq (calls \ {c}) \cup
             {[c EXCEPT !.stage = answer, !.flag = Reported(c, answer)]}
  BY DEF Execute
<1>4. OrdersIn(calls') \in SUBSET OrdersIn(calls)
  BY <1>1, <1>3, OrdersShrink
<1>5. CASE answer = "ok" /\ c.req.op = "signUp"
  <2>1. server[uid] = "none" /\ server' = [server EXCEPT ![uid] = "live"]
    BY <1>1, <1>3, <1>5, AnswerMeans
  <2>2. OrdersIn(calls') = OrdersIn(calls)
    <3>1. \A d \in calls' : d.req.op = "delete" => d \in calls
      <4>1. \A d \in calls' :
              d \in calls \/ d = [c EXCEPT !.stage = answer, !.flag = Reported(c, answer)]
        BY <1>3
      <4>2. [c EXCEPT !.stage = answer, !.flag = Reported(c, answer)].req.op = "signUp"
        BY <1>1, <1>5
      <4> QED BY <4>1, <4>2
    <3>2. \A d \in calls : d.req.op = "delete" => d \in calls'
      BY <1>3, <1>5
    <3> QED BY <3>1, <3>2, OrdersSame
  <2>3. Life!Register(uid)
    BY <1>2, <2>1, <2>2 DEF Life!Register, OrdersIn
  <2> QED BY <1>1, <2>3 DEF Life!Next
<1>6. CASE answer = "ok" /\ c.req.op = "delete"
  <2>1. server[uid] \in {"live", "barred"} /\ server' = [server EXCEPT ![uid] = "deleted"]
    BY <1>1, <1>3, <1>6, AnswerMeans
  <2>2. uid \in OrdersIn(calls)
    BY <1>6 DEF OrdersIn
  <2>3. Life!Delete(uid)
    BY <1>2, <1>4, <2>1, <2>2 DEF Life!Delete, OrdersIn
  <2> QED BY <1>1, <2>3 DEF Life!Next
<1>7. CASE answer = "gone"
  <2>1. server[uid] # "none" /\ server' = TurnAway(uid)
    BY <1>1, <1>3, <1>7, AnswerMeans DEF IInv, CallInv, OnObject
  <2>2. Life!Refuse(uid)
    BY <1>2, <1>4, <2>1 DEF Life!Refuse, Life!TurnAway, TurnAway, OrdersIn
  <2> QED BY <1>1, <2>2 DEF Life!Next
<1>8. CASE answer # "gone" /\ ~(answer = "ok" /\ c.req.op \in {"signUp", "delete"})
  <2>1. server' = server
    BY <1>3, <1>8
  <2>2. Life!Settle
    BY <1>2, <1>4, <2>1 DEF Life!Settle, OrdersIn
  <2> QED BY <2>2 DEF Life!Next
<1> QED BY <1>5, <1>6, <1>7, <1>8

\* A forced sign-out for an account turned away is the loss of the session.
LEMMA LifeForced ==
  ASSUME IInv, NEW n, SignOutByForce(n), SignedIn, current.epoch = n,
         server' = Life!TurnAway(current.uid), confirmed' = confirmed, loaded' = loaded,
         calls' \subseteq calls
  PROVE  Life!Next
<1>1. OrdersIn(calls') \in SUBSET OrdersIn(calls)
  BY OrdersShrink
<1>2. current' = SignedOut /\ (keychain' = NoneSaved \/ keychain' = keychain) /\ loaded'
  BY HeldIs DEF SignOutByForce, Save, KeychainFails
<1>3. Held' = Life!Nobody
  BY <1>2, HeldIs DEF Held
<1>4. Life!LoseSession
  BY <1>1, <1>2, <1>3, HeldIs DEF Life!LoseSession, OrdersIn
<1> QED BY <1>4 DEF Life!Next

\* The work queue's steps map to steps of the life cycle.
LEMMA LifeReceive ==
  ASSUME IInv, WorkQueue
  PROVE  [Life!Next]_(Life!vars)
<1>1. CASE LoadKeychain
  <2>1. /\ server' = server /\ confirmed' = confirmed /\ keychain' = keychain
        /\ calls' = calls /\ Held = keychain /\ Held' = Saved(current')
    BY <1>1 DEF LoadKeychain, KeychainFails, serverVars, Held
  <2>2. current = SignedOut
    BY <1>1 DEF LoadKeychain, IInv, UserInv
  <2>3. CASE keychain = NoneSaved /\ current' = current
    <3>1. Held' = Held
      BY <2>1, <2>2, <2>3, HeldIs
    <3> QED BY <2>1, <3>1 DEF Life!vars, OrdersIn
  <2>4. CASE Adopt(keychain.uid, keychain.verified)
    <3>1. Held' = Held
      BY <2>1, <2>4 DEF Adopt, Saved, IInv, TypeOK
    <3> QED BY <2>1, <3>1 DEF Life!vars, OrdersIn
  <2>5. CASE current' = current
    <3>1. Held' = Life!Nobody
      BY <2>1, <2>2, <2>5, HeldIs
    <3>2. Life!Mislay
      BY <2>1, <3>1 DEF Life!Mislay, OrdersIn
    <3> QED BY <3>2 DEF Life!Next
  <2> QED BY <1>1, <2>3, <2>4, <2>5 DEF LoadKeychain
<1>2. ASSUME NEW c \in calls, ReceiveUser(c) PROVE [Life!Next]_(Life!vars)
  <2>1. c.req.uid \in Accounts /\ c.flag \in BOOLEAN /\ c.req.op # "delete"
    BY <1>2 DEF ReceiveUser, Answered, IInv, TypeOK, Calls, Requests
  <2>2. /\ server[c.req.uid] # "none" /\ (c.flag => c.req.uid \in confirmed) /\ loaded
        /\ loaded' = loaded /\ server' = server /\ confirmed' = confirmed
    BY <1>2 DEF ReceiveUser, Answered, IInv, CallInv, serverVars
  <2>3. OrdersIn(calls') = OrdersIn(calls)
    BY <1>2, <2>1, OrdersSame DEF ReceiveUser
  <2>4. CASE Save([uid |-> c.req.uid, verified |-> c.flag]) /\ Adopt(c.req.uid, c.flag)
    <3>1. /\ keychain' = [uid |-> c.req.uid, verified |-> c.flag]
          /\ Held' = [uid |-> c.req.uid, verified |-> c.flag]
      BY <2>2, <2>4 DEF Save, Adopt, Held, Saved
    <3>2. Life!Open(c.req.uid, c.flag)
      BY <2>2, <2>3, <3>1 DEF Life!Open, OrdersIn
    <3> QED BY <2>1, <3>2 DEF Life!Next
  <2>5. CASE KeychainFails /\ UNCHANGED <<current, epoch>>
    <3>1. Held' = Held /\ keychain' = keychain
      BY <2>2, <2>5 DEF KeychainFails, Held, Saved
    <3> QED BY <2>2, <2>3, <3>1 DEF Life!vars, OrdersIn
  <2> QED BY <1>2, <2>4, <2>5 DEF ReceiveUser
<1>3. ASSUME NEW c \in calls, ReceiveReload(c) PROVE [Life!Next]_(Life!vars)
  <2>1. /\ server' = server /\ confirmed' = confirmed /\ loaded /\ loaded' = loaded
        /\ c.flag \in BOOLEAN /\ c.req.epoch >= 1
        /\ c.flag => c.req.uid \in confirmed
        /\ SignedIn /\ c.req.epoch = current.epoch => c.req.uid = current.uid
    BY <1>3 DEF ReceiveReload, Answered, OnObject, serverVars, IInv, CallInv, TypeOK, Calls
  <2>2. OrdersIn(calls') = OrdersIn(calls)
    BY <1>3, OrdersSame DEF ReceiveReload, Answered
  <2>3. CASE current.epoch # c.req.epoch
    <3>1. Held' = Held /\ keychain' = keychain
      BY <1>3, <2>1, <2>3 DEF ReceiveReload, Held, Saved
    <3> QED BY <2>1, <2>2, <3>1 DEF Life!vars, OrdersIn
  <2>4. CASE current.epoch = c.req.epoch
    <3>1. SignedIn
      BY <2>1, <2>4 DEF IInv, UserInv, SignedOut
    <3>2. current.uid \in Accounts /\ current \in Users /\ Held = Saved(current)
      BY <3>1, HeldIs DEF IInv, TypeOK
    <3>3. /\ current' = [current EXCEPT !.verified = c.flag]
          /\ keychain' = Saved(current') \/ keychain' = keychain
      BY <1>3, <2>4 DEF ReceiveReload, Save, KeychainFails
    <3>4. Held' = [Held EXCEPT !.verified = c.flag] /\ Held' = Saved(current')
          /\ Held.uid = current.uid
      BY <2>1, <3>2, <3>3 DEF Saved, Users, Held
    <3>5. Life!Learn(c.flag)
      BY <2>1, <2>2, <2>4, <3>1, <3>2, <3>3, <3>4 DEF Life!Learn, OrdersIn
    <3> QED BY <2>1, <3>5 DEF Life!Next
  <2> QED BY <2>3, <2>4
<1>4. ASSUME NEW c \in calls, ReceiveGone(c) PROVE Life!Next
  <2>1. /\ server' = server /\ confirmed' = confirmed /\ loaded' = loaded
        /\ calls' \subseteq calls /\ SignOutByForce(c.req.epoch) /\ epoch' = epoch
    BY <1>4 DEF ReceiveGone, serverVars
  <2>2. CASE SignedIn /\ current.epoch = c.req.epoch
    <3>1. Gone(c) /\ ~c.orphan
      BY <1>4 DEF ReceiveGone, Answered, Gone
    <3>2. server[current.uid] \in TurnedAway
      BY <2>2, <3>1 DEF IInv, CallInv
    <3>3. server' = Life!TurnAway(current.uid)
      BY <2>1, <3>2 DEF Life!TurnAway, TurnedAway
    <3> QED BY <2>1, <2>2, <3>3, LifeForced
  <2>3. CASE ~(SignedIn /\ current.epoch = c.req.epoch)
    <3>1. UNCHANGED clientVars
      BY <2>1, <2>3 DEF SignOutByForce, clientVars
    <3>2. OrdersIn(calls') \in SUBSET OrdersIn(calls)
      BY <2>1, OrdersShrink
    <3>3. Life!Settle
      BY <2>1, <3>1, <3>2, HeldIs DEF Life!Settle, OrdersIn
    <3> QED BY <3>3 DEF Life!Next
  <2> QED BY <2>2, <2>3
<1>5. ASSUME NEW c \in calls, ReceiveNothing(c) PROVE Life!Next
  <2>1. UNCHANGED clientVars /\ UNCHANGED serverVars /\ calls' \subseteq calls
    BY <1>5 DEF ReceiveNothing
  <2>2. OrdersIn(calls') \in SUBSET OrdersIn(calls)
    BY <2>1, OrdersShrink
  <2>3. Life!Settle
    BY <2>1, <2>2, HeldIs DEF Life!Settle, OrdersIn, serverVars
  <2> QED BY <2>3 DEF Life!Next
<1>6. CASE RefreshToken
  <2>1. /\ UNCHANGED <<server, confirmed, calls, loaded, current>> /\ SignedIn
        /\ keychain' = keychain \/ keychain' = Saved(current)
    BY <1>6 DEF RefreshToken, serverVars, Save, KeychainFails
  <2>2. Held' = Held /\ Held = Saved(current) /\ Held.uid \in Accounts
    BY <2>1, HeldIs DEF Held, Saved
  <2>3. CASE keychain' = keychain
    BY <2>1, <2>2, <2>3 DEF Life!vars, OrdersIn
  <2>4. CASE keychain' = Saved(current)
    BY <2>1, <2>2, <2>4 DEF Life!SaveAgain, Life!Next, OrdersIn
  <2> QED BY <2>1, <2>3, <2>4
<1>7. CASE RefuseToken
  <2>1. server' = Life!TurnAway(current.uid)
    BY <1>7 DEF RefuseToken, TurnAway, Life!TurnAway
  <2> QED BY <1>7, <2>1, LifeForced DEF RefuseToken
<1> QED BY <1>1, <1>2, <1>3, <1>4, <1>5, <1>6, <1>7 DEF WorkQueue

\* Every step of Session is a step of the life cycle or a stutter.
LEMMA LifeStep == IInv /\ [Next]_vars => [Life!Next]_(Life!vars)
<1> SUFFICES ASSUME IInv, [Next]_vars PROVE [Life!Next]_(Life!vars)
  OBVIOUS
<1> USE HeldIs DEF serverVars
<1>1. CASE UNCHANGED vars
  BY <1>1 DEF vars, Life!vars
<1>2. CASE WorkQueue
  BY <1>2, LifeReceive
<1>3. CASE Network
  <2>1. ASSUME NEW c \in calls, Lose(c) PROVE Life!Next
    <3>1. OrdersIn(calls') \in SUBSET OrdersIn(calls)
      BY <2>1, OrdersShrink DEF Lose
    <3> QED BY <2>1, <3>1 DEF Lose, Life!Settle, Life!Next, OrdersIn
  <2> QED BY <1>3, <2>1, LifeExecute DEF Network
<1>4. ASSUME EndProcess("trapped") \/ EndProcess("stopped") PROVE Life!Next
  <2>1. \A d \in calls' : \E c \in calls : d.req = c.req
    <3>1. ASSUME NEW d \in calls' PROVE \E c \in calls : d = [c EXCEPT !.orphan = TRUE]
      BY <1>4 DEF EndProcess
    <3>2. \A c \in calls : [c EXCEPT !.orphan = TRUE].req = c.req
      BY DEF IInv, TypeOK, Calls
    <3> QED BY <3>1, <3>2
  <2>2. OrdersIn(calls') \in SUBSET OrdersIn(calls)
    BY <2>1, OrdersShrink
  <2>3. Held' = keychain /\ keychain' = keychain
    BY <1>4 DEF EndProcess, Held
  <2>4. Life!Restart
    BY <1>4, <2>2, <2>3 DEF EndProcess, Life!Restart, OrdersIn
  <2> QED BY <2>4 DEF Life!Next
<1>5. CASE \/ RunNotify \/ RunSignedUp \/ RunSignedIn \/ (RunReloaded /\ SignedIn)
           \/ RunShowWhoAmI \/ Tick \/ \E vc \in lingering : Deallocate(vc)
  <2>1. UNCHANGED <<server, confirmed, clientVars>> /\ CallsGrow
    BY <1>5, MainFrame DEF IInv
  <2>2. CASE OrdersIn(calls') = OrdersIn(calls)
    BY <2>1, <2>2 DEF Life!vars, OrdersIn
  <2>3. CASE /\ OrdersIn(calls') = OrdersIn(calls) \cup {Held.uid}
             /\ Held.uid \in Accounts /\ ~Held.verified
    <3>1. Life!Order
      BY <2>1, <2>3 DEF Life!Order, OrdersIn
    <3> QED BY <3>1 DEF Life!Next
  <2> QED BY <2>1, <2>2, <2>3, OrdersGrow
<1>6. ASSUME NEW op \in {"signUp", "signIn"}, NEW a \in Accounts, Tap(op, a)
      PROVE  UNCHANGED Life!vars
  <2>1. {Request(op, a, 0, 0)} \subseteq Requests
    BY DEF Request, Requests
  <2>2. /\ calls \subseteq calls'
        /\ \A c \in calls' : c \in calls \/ c.req.op # "delete"
    BY <1>6, <2>1, SendAdds DEF Tap, Request
  <2>3. OrdersIn(calls') = OrdersIn(calls)
    BY <2>2, OrdersSame
  <2> QED BY <1>6, <2>3 DEF Tap, Life!vars, OrdersIn
<1>7. ASSUME NEW a \in Accounts, OpenLink(a) PROVE Life!Next
  <2>1. Life!Confirm(a)
    BY <1>7 DEF OpenLink, Life!Confirm
  <2> QED BY <2>1 DEF Life!Next
<1>8. CASE Launch
  BY <1>8 DEF Launch, Life!vars
<1> QED
  BY <1>1, <1>2, <1>3, <1>4, <1>5, <1>6, <1>7, <1>8
  DEF Next, RunBlock, User, Kill, RunReloaded

\* HRApp implements the account life cycle.
THEOREM LifeRefined == Spec => AccountLifeRefined
<1>1. Spec => Life!Spec
  BY LifeInit, LifeStep, Invariant, PTL DEF Spec, Life!Spec
<1> QED BY <1>1 DEF AccountLifeRefined
=============================================================================
