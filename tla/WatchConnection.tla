--------------------------- MODULE WatchConnection ---------------------------
(***************************************************************************)
(* The client's side of the watch connection of Firestore: the stream and *)
(* its backoff (remote/stream.cc), the online state with its timeout       *)
(* (remote/online_state_tracker.cc) and the part of the remote store that  *)
(* starts, stops and restarts the stream (remote/remote_store.cc).         *)
(*                                                                         *)
(* All of it runs on one worker queue.  An operation of that queue calls   *)
(* through several of these classes before it returns, so each method is   *)
(* an operator from connection to connection, and an action is the whole   *)
(* operation.                                                              *)
(***************************************************************************)
EXTENDS Naturals

CONSTANTS
  Docs,       \* the documents read: one target each
  MaxStale    \* bound: credential requests of closed streams still pending

VARIABLE conn

-----------------------------------------------------------------------------
(* The state of the three objects.                                         *)

StreamStates == {"initial", "starting", "backoff", "open", "error"}
OnlineStates == {"Unknown", "Online", "Offline"}
kMaxWatchStreamFailures == 1

Connection ==
  [enabled  : BOOLEAN,             \* is_network_enabled_
   targets  : SUBSET Docs,         \* listen_targets_
   stream   : StreamStates,
   token    : BOOLEAN,             \* credentials asked since the last close
   stale    : Nat,                 \* ... and before it, unanswered
   backoff  : BOOLEAN,             \* the backoff is scheduled
   idle     : BOOLEAN,             \* idleness_timer_ is scheduled
   online   : OnlineStates,
   failures : 0..kMaxWatchStreamFailures,
   timer    : BOOLEAN,             \* online_state_timer_ is scheduled
   failed   : SUBSET STRING]       \* assertions that did not hold

Connected ==
  [enabled |-> TRUE, targets |-> {}, stream |-> "initial", token |-> FALSE,
   stale |-> 0, backoff |-> FALSE, idle |-> FALSE, online |-> "Unknown",
   failures |-> 0, timer |-> FALSE, failed |-> {}]

\* HARD_ASSERT ends the process.
Asserted(c, holds, what) ==
  [c EXCEPT !.failed = IF holds THEN @ ELSE @ \cup {what}]

IsStarted(c) == c.stream \in {"starting", "backoff", "open"}
IsOpen(c) == c.stream = "open"
ShouldStartWatchStream(c) == c.enabled /\ ~IsStarted(c) /\ c.targets # {}

-----------------------------------------------------------------------------
(* The online state.                                                       *)

HandleWatchStreamStart(c) ==
  IF c.failures # 0
    THEN c
    ELSE [Asserted(c, ~c.timer, "timer not started yet")
            EXCEPT !.online = "Unknown", !.timer = TRUE]

HandleWatchStreamFailure(c) ==
  IF c.online = "Online"
    THEN LET counted == Asserted(c, c.failures = 0, "no failures while online")
         IN [Asserted(counted, ~c.timer, "no timer while online")
               EXCEPT !.online = "Unknown"]
    ELSE \* one more failure: the count is kept at its limit
         [c EXCEPT !.failures = kMaxWatchStreamFailures, !.timer = FALSE,
                   !.online = "Offline"]

\* Mutant: the timeout goes on after an answer.
UpdateStateOnly(c, new) ==
  [c EXCEPT !.failures = 0, !.online = new]

UpdateState(c, new) ==
  [c EXCEPT !.timer = FALSE, !.failures = 0, !.online = new]

OnlineStateTimeout(c) ==
  [Asserted(c, c.online = "Unknown", "timer only while unknown")
     EXCEPT !.timer = FALSE, !.online = "Offline"]

-----------------------------------------------------------------------------
(* The stream, and the remote store above it.                              *)

StartStream(c) ==
  IF c.stream = "error"
    THEN [c EXCEPT !.stream = "backoff", !.backoff = TRUE]
    ELSE [Asserted(c, c.stream = "initial", "not started yet")
            EXCEPT !.stream = "starting", !.token = TRUE]

StartWatchStream(c) ==
  HandleWatchStreamStart(
    StartStream(Asserted(c, ShouldStartWatchStream(c), "should start")))

OnWatchStreamClose(c, ok) ==
  LET stopped == Asserted(c, ok => ~ShouldStartWatchStream(c),
                          "not stopped while needed")
  IN IF ShouldStartWatchStream(c)
       THEN StartWatchStream(HandleWatchStreamFailure(stopped))
       ELSE UpdateState(stopped, "Unknown")

\* A graceful stop of a stream that is not started does nothing; otherwise
\* both timers go, requests of this attempt become stale, and the store hears.
CloseStream(c, ok) ==
  IF ok /\ ~IsStarted(c)
    THEN c
    ELSE OnWatchStreamClose(
           [Asserted(c, IsStarted(c), "closes a started stream")
              EXCEPT !.idle = FALSE, !.backoff = FALSE, !.token = FALSE,
                     !.stale = IF c.token THEN @ + 1 ELSE @,
                     !.stream = IF ok THEN "initial" ELSE "error"], ok)

\* Mutant: the idle check is not cancelled.
WriteWhileIdle(c) == Asserted(c, IsOpen(c), "writes to an open stream")

\* A request is written: that cancels the idle check.
Write(c) == [Asserted(c, IsOpen(c), "writes to an open stream") EXCEPT !.idle = FALSE]

\* The call opens without a roundtrip, and every watch is sent at once.
OpenStream(c) ==
  LET opened == [c EXCEPT !.stream = "open"]
  IN IF c.targets = {} THEN opened ELSE Write(opened)

ResumeStartWithCredentials(c, ok) ==
  LET starting == Asserted(c, c.stream = "starting", "still starting")
  IN IF ok THEN OpenStream(starting) ELSE CloseStream(starting, FALSE)

\* Mutant: an answer is taken whichever stream asked.
OnCredentialsAnyway(c, current, ok) ==
  ResumeStartWithCredentials(
    IF current THEN [c EXCEPT !.token = FALSE] ELSE [c EXCEPT !.stale = @ - 1], ok)

\* The answer to a request of a stream closed since is ignored (close_count_).
OnCredentials(c, current, ok) ==
  IF current
    THEN ResumeStartWithCredentials([c EXCEPT !.token = FALSE], ok)
    ELSE [c EXCEPT !.stale = @ - 1]

OnBackoffElapsed(c) ==
  LET elapsed == Asserted([c EXCEPT !.backoff = FALSE], c.stream = "backoff",
                          "still backing off")
  IN StartStream([elapsed EXCEPT !.stream = "initial"])

\* The idle timer stops the stream.
OnIdle(c) == CloseStream([c EXCEPT !.idle = FALSE], TRUE)

MarkIdle(c) == [c EXCEPT !.idle = IsOpen(c) \/ @]

ListenTo(c, d) ==
  LET listening == [c EXCEPT !.targets = @ \cup {d}]
  IN IF d \in c.targets THEN c
     ELSE IF ShouldStartWatchStream(listening) THEN StartWatchStream(listening)
     ELSE IF IsOpen(c) THEN Write(listening)
     ELSE listening

StopListeningTo(c, d) ==
  LET watched == Asserted(c, d \in c.targets, "target watched")
      erased  == [watched EXCEPT !.targets = @ \ {d}]
      sent    == IF IsOpen(c) THEN Write(erased) ELSE erased
  IN IF sent.targets # {} THEN sent
     ELSE IF IsOpen(c) THEN MarkIdle(sent)
     ELSE IF c.enabled THEN UpdateState(sent, "Unknown")
     ELSE sent

\* Any message of the backend.
OnMessage(c) == UpdateState(Asserted(c, IsStarted(c), "reads from a started stream"), "Online")

\* An error of a target ends it, and is ignored of one that was removed already.
OnTargetError(c, d) ==
  IF d \in c.targets THEN [OnMessage(c) EXCEPT !.targets = @ \ {d}] ELSE OnMessage(c)

EnableNetwork(c) ==
  LET enabled == [c EXCEPT !.enabled = TRUE]
  IN IF ShouldStartWatchStream(enabled)
       THEN StartWatchStream(enabled)
       ELSE UpdateState(enabled, "Unknown")

\* The user changed, or the network came back: stop, then start afresh.
RestartNetwork(c) ==
  LET stopped   == UpdateState(CloseStream([c EXCEPT !.enabled = FALSE], TRUE),
                               "Unknown")
      inhibited == Asserted(stopped, ~IsStarted(stopped),
                            "stopped before backoff is inhibited")
  IN EnableNetwork([inhibited EXCEPT !.stream = "initial"])

-----------------------------------------------------------------------------
(* The operations of the worker queue.  The stream and the backend are the *)
(* environment: messages come on an open stream only, a stream breaks at   *)
(* any time it is open (always with an error: the backend never ends a     *)
(* stream with the status OK).                                             *)

Init == conn = EnableNetwork(Connected)

Listen(d) == conn' = ListenTo(conn, d)
StopListening(d) == d \in conn.targets /\ conn' = StopListeningTo(conn, d)
CredentialsArrive ==
  \E current, ok \in BOOLEAN :
    /\ IF current THEN conn.token ELSE conn.stale > 0
    /\ conn' = OnCredentials(conn, current, ok)
BackoffElapses == conn.backoff /\ conn' = OnBackoffElapsed(conn)
StreamIdle == conn.idle /\ conn' = OnIdle(conn)
StreamBreaks == IsOpen(conn) /\ conn' = CloseStream(conn, FALSE)
TimerFires == conn.timer /\ conn' = OnlineStateTimeout(conn)
MessageArrives == IsOpen(conn) /\ conn' = OnMessage(conn)
TargetFails(d) == IsOpen(conn) /\ conn' = OnTargetError(conn, d)
NetworkRestarts ==
  /\ conn.token => conn.stale < MaxStale
  /\ conn' = RestartNetwork(conn)

Next ==
  \/ \E d \in Docs : Listen(d) \/ StopListening(d) \/ TargetFails(d)
  \/ CredentialsArrive \/ BackoffElapses \/ StreamIdle \/ StreamBreaks
  \/ TimerFires \/ MessageArrives \/ NetworkRestarts

Spec == Init /\ [][Next]_conn

-----------------------------------------------------------------------------
(* Properties.                                                             *)

\* The three objects and the bounds of what they count.
ConnectionTypeOK == conn \in Connection

\* No HARD_ASSERT of the stream, the online state tracker or the remote store
\* fails: each is a claim of one class about the order in which the others call
\* it, and a failure ends the app.
NoAssertFails == conn.failed = {}

\* Online is said only over an open stream, and the timeout runs only towards
\* the first answer of a started one: it never survives the state it is for.
OnlineStateFollowsStream ==
  /\ conn.online = "Online" => IsOpen(conn)
  /\ conn.timer => IsStarted(conn) /\ conn.online = "Unknown"
  /\ ~IsStarted(conn) => conn.online = "Unknown"

\* The stream is wanted exactly while something is watched: with a target and
\* the network enabled it is started, and the idle check runs only without one.
StreamServesTargets ==
  /\ conn.targets # {} => IsStarted(conn)
  /\ conn.idle => IsOpen(conn) /\ conn.targets = {}

\* What the tracker's comment promises (online_state_tracker.cc:43): an attempt
\* that neither succeeds nor fails in time does not wait indefinitely, so while
\* the state is unknown and something is watched, the timeout is running.
EveryAttemptTimed ==
  conn.online = "Unknown" /\ conn.targets # {} => conn.timer
=============================================================================
