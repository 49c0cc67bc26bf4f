---------------------------- MODULE AccountLife ----------------------------
(***************************************************************************)
(* What HRApp promises about an account, whatever screens it shows, however*)
(* often it is killed, whichever answers are late, lost or reordered, and  *)
(* whichever of its writes fail.                                           *)
(*                                                                         *)
(* The device holds at most one session, an account and what the device    *)
(* believes of it, and saves one.  A belief may be out of date, never      *)
(* invented: an account is believed verified only if it was.  The device   *)
(* orders the deletion of the account it holds only, and only while it     *)
(* believes it unverified.  The session it holds is ended only by a server *)
(* that turns its account away, the saved one is removed only with it; but *)
(* a saved session may be mislaid until the next restart, which brings     *)
(* back whatever is saved, even a session that had ended.                  *)
(***************************************************************************)
CONSTANTS Accounts, NoAccount

VARIABLES server, confirmed, session, saved, orders

vars == <<server, confirmed, session, saved, orders>>

Nobody == [uid |-> NoAccount, verified |-> FALSE]

\* The server turns the account away: it may still be made good again.
TurnAway(a) == IF server[a] = "live" THEN [server EXCEPT ![a] = "barred"] ELSE server

Init ==
  /\ server \in [Accounts -> {"none", "live"}]
  /\ confirmed \in SUBSET {a \in Accounts : server[a] = "live"}
  /\ session = Nobody /\ saved = Nobody
  /\ orders = {}

Register(a) ==
  /\ server[a] = "none" /\ server' = [server EXCEPT ![a] = "live"]
  /\ UNCHANGED <<confirmed, session, saved, orders>>

Confirm(a) ==
  /\ server[a] \in {"live", "barred"} /\ confirmed' = confirmed \cup {a}
  /\ UNCHANGED <<server, session, saved, orders>>

Refuse(a) ==
  /\ server[a] # "none" /\ server' = TurnAway(a)
  /\ orders' \in SUBSET orders
  /\ UNCHANGED <<confirmed, session, saved>>

\* Signing in, which is saved.
Open(a, flag) ==
  /\ server[a] # "none" /\ (flag => a \in confirmed)
  /\ session' = [uid |-> a, verified |-> flag] /\ saved' = session'
  /\ UNCHANGED <<server, confirmed, orders>>

\* The answer of a later reload, saved or not.
Learn(flag) ==
  /\ session.uid \in Accounts /\ (flag => session.uid \in confirmed)
  /\ session' = [session EXCEPT !.verified = flag]
  /\ saved' \in {saved, session'}
  /\ UNCHANGED <<server, confirmed, orders>>

SaveAgain ==
  /\ session.uid \in Accounts /\ saved' = session
  /\ UNCHANGED <<server, confirmed, session, orders>>

\* The server turns the account away, now or before; what is saved may outlive
\* the session.
LoseSession ==
  /\ session.uid \in Accounts /\ server' = TurnAway(session.uid)
  /\ session' = Nobody /\ saved' \in {saved, Nobody}
  /\ orders' \in SUBSET orders
  /\ UNCHANGED confirmed

\* The saved session cannot be read.
Mislay ==
  /\ session = saved /\ session' = Nobody
  /\ UNCHANGED <<server, confirmed, saved, orders>>

Restart ==
  /\ session' = saved
  /\ orders' \in SUBSET orders
  /\ UNCHANGED <<server, confirmed, saved>>

Order ==
  /\ session.uid \in Accounts /\ ~session.verified
  /\ orders' = orders \cup {session.uid}
  /\ UNCHANGED <<server, confirmed, session, saved>>

\* Orders that are refused, lost, or answered.
Settle == orders' \in SUBSET orders /\ UNCHANGED <<server, confirmed, session, saved>>

Delete(a) ==
  /\ a \in orders /\ server[a] \in {"live", "barred"}
  /\ server' = [server EXCEPT ![a] = "deleted"]
  /\ orders' \in SUBSET orders
  /\ UNCHANGED <<confirmed, session, saved>>

Next ==
  \/ Settle
  \/ \E a \in Accounts : \/ Register(a) \/ Confirm(a) \/ Refuse(a) \/ Delete(a)
                         \/ \E flag \in BOOLEAN : Open(a, flag)
  \/ \E flag \in BOOLEAN : Learn(flag)
  \/ SaveAgain \/ LoseSession \/ Mislay \/ Restart \/ Order

Spec == Init /\ [][Next]_vars
=============================================================================
