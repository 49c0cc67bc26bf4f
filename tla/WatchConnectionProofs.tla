------------------------ MODULE WatchConnectionProofs ------------------------
(***************************************************************************)
(* The invariants of WatchConnection hold for any set of documents and any *)
(* number of pending credential requests.  Each operator of the module is  *)
(* a call inside a task; the lemmas say what it needs of the connection    *)
(* and what it leaves, the theorems put the tasks together.                *)
(***************************************************************************)
EXTENDS WatchConnection, TLAPS

\* The timers and the credential request belong to the state of the stream.
TimersFollowStream(c) ==
  /\ c.token <=> c.stream = "starting"
  /\ c.backoff <=> c.stream = "backoff"
  /\ c.idle => IsOpen(c) /\ c.targets = {}

\* The online state, its timeout and its failures belong to it too.
OnlineFollowsStream(c) ==
  /\ c.timer => IsStarted(c) /\ c.online = "Unknown" /\ c.failures = 0
  /\ c.online = "Online" => IsOpen(c) /\ c.failures = 0
  /\ ~IsStarted(c) => c.online = "Unknown" /\ c.failures = 0

\* What holds between tasks, the network enabled or not.
Sound(c) ==
  /\ c \in Connection /\ c.failed = {}
  /\ TimersFollowStream(c) /\ OnlineFollowsStream(c)
  /\ c.enabled /\ c.targets # {} => IsStarted(c)

Inv == Sound(conn) /\ conn.enabled

-----------------------------------------------------------------------------

\* An assertion that holds changes nothing.
LEMMA AssertedHolds ==
  ASSUME NEW c \in Connection, NEW holds, holds, NEW what
  PROVE  Asserted(c, holds, what) = c
BY DEF Asserted, Connection

\* A stream that is not started, with what is left of the online state after a
\* failure or none, starts as it should.
LEMMA Starts ==
  ASSUME NEW c \in Connection, c.failed = {}, ShouldStartWatchStream(c),
         c.stream \in {"initial", "error"}, ~c.token, ~c.backoff, ~c.idle, ~c.timer,
         c.failures # 0 => c.online = "Offline"
  PROVE  /\ Sound(StartWatchStream(c)) /\ IsStarted(StartWatchStream(c))
         /\ StartWatchStream(c).enabled /\ StartWatchStream(c).targets = c.targets
         /\ ~IsOpen(StartWatchStream(c))
<1>1. Asserted(c, ShouldStartWatchStream(c), "should start") = c
  BY AssertedHolds
<1> DEFINE s == StartStream(c)
<1>2. s \in Connection /\ s.stream \in {"starting", "backoff"}
      /\ (s.token <=> s.stream = "starting") /\ (s.backoff <=> s.stream = "backoff")
      /\ s.failed = {} /\ ~s.idle /\ ~s.timer /\ s.failures = c.failures
      /\ s.online = c.online /\ s.enabled /\ s.targets = c.targets
  BY DEF StartStream, Asserted, Connection, StreamStates, ShouldStartWatchStream
<1>3. StartWatchStream(c) = HandleWatchStreamStart(s)
  BY <1>1 DEF StartWatchStream
<1> HIDE DEF s
<1>4. CASE s.failures # 0
  BY <1>2, <1>3, <1>4 DEF HandleWatchStreamStart, Sound, TimersFollowStream,
     OnlineFollowsStream, IsStarted, IsOpen
<1>5. CASE s.failures = 0
  <2>1. Asserted(s, ~s.timer, "timer not started yet") = s
    BY <1>2, AssertedHolds
  <2>2. StartWatchStream(c) = [s EXCEPT !.online = "Unknown", !.timer = TRUE]
    BY <1>3, <1>5, <2>1 DEF HandleWatchStreamStart
  <2> QED BY <1>2, <1>5, <2>2 DEF Sound, TimersFollowStream, OnlineFollowsStream,
            IsStarted, IsOpen, Connection, OnlineStates
<1> QED BY <1>4, <1>5

\* A failure leaves the online state as the next attempt expects it.
LEMMA Fails ==
  ASSUME NEW c \in Connection, c.failed = {},
         c.online = "Online" => c.failures = 0 /\ ~c.timer
  PROVE  LET f == HandleWatchStreamFailure(c)
         IN /\ f \in Connection /\ f.failed = {} /\ f.stream = c.stream
            /\ f.token = c.token /\ f.backoff = c.backoff /\ f.idle = c.idle /\ ~f.timer
            /\ f.enabled = c.enabled /\ f.targets = c.targets
            /\ f.failures # 0 => f.online = "Offline"
<1>1. CASE c.online = "Online"
  <2>1. c.failures = 0 /\ ~c.timer
    BY <1>1
  <2>2. Asserted(c, c.failures = 0, "no failures while online") = c
    <3> DEFINE none == c.failures = 0
    <3>1. none
      BY <2>1
    <3> HIDE DEF none
    <3>2. Asserted(c, none, "no failures while online") = c
      BY <3>1, AssertedHolds
    <3> QED BY <3>2 DEF none
  <2>3. Asserted(c, ~c.timer, "no timer while online") = c
    BY <2>1, AssertedHolds
  <2>4. HandleWatchStreamFailure(c) = [c EXCEPT !.online = "Unknown"]
    BY <1>1, <2>2, <2>3 DEF HandleWatchStreamFailure
  <2> QED BY <2>1, <2>4 DEF Connection, OnlineStates
<1>2. CASE c.online # "Online"
  <2>1. HandleWatchStreamFailure(c) =
          [c EXCEPT !.failures = 1, !.timer = FALSE, !.online = "Offline"]
    BY <1>2 DEF HandleWatchStreamFailure, kMaxWatchStreamFailures
  <2>2. 1 \in 0..kMaxWatchStreamFailures
    BY DEF kMaxWatchStreamFailures
  <2> QED BY <2>1, <2>2 DEF Connection, OnlineStates
<1> QED BY <1>1, <1>2

\* The store hears that the stream has closed: it starts another when one is
\* wanted and rests when none is.
LEMMA HearsOfClose ==
  ASSUME NEW c \in Connection, c.failed = {}, NEW ok \in BOOLEAN,
         ok => ~c.enabled \/ c.targets = {},
         c.stream \in {"initial", "error"}, ~c.token, ~c.backoff, ~c.idle,
         c.online = "Online" => c.failures = 0 /\ ~c.timer
  PROVE  LET n == OnWatchStreamClose(c, ok)
         IN /\ Sound(n) /\ n.enabled = c.enabled /\ n.targets = c.targets
            /\ ~IsOpen(n) /\ (ok => n.stream = c.stream)
<1>1. ok => ~ShouldStartWatchStream(c)
  BY DEF ShouldStartWatchStream
<1>2. Asserted(c, ok => ~ShouldStartWatchStream(c), "not stopped while needed") = c
  BY <1>1, AssertedHolds
<1>3. CASE ShouldStartWatchStream(c)
  <2> DEFINE f == HandleWatchStreamFailure(c)
  <2>1. OnWatchStreamClose(c, ok) = StartWatchStream(f)
    BY <1>2, <1>3 DEF OnWatchStreamClose
  <2>2. /\ f \in Connection /\ f.failed = {} /\ f.stream = c.stream
        /\ f.token = c.token /\ f.backoff = c.backoff /\ f.idle = c.idle /\ ~f.timer
        /\ f.enabled = c.enabled /\ f.targets = c.targets
        /\ f.failures # 0 => f.online = "Offline"
    BY Fails
  <2> HIDE DEF f
  <2>3. ShouldStartWatchStream(f)
    BY <1>3, <2>2 DEF ShouldStartWatchStream, IsStarted
  <2>4. /\ Sound(StartWatchStream(f)) /\ StartWatchStream(f).enabled
        /\ StartWatchStream(f).targets = f.targets /\ ~IsOpen(StartWatchStream(f))
    BY <2>2, <2>3, Starts
  <2>5. c.enabled
    BY <1>3 DEF ShouldStartWatchStream
  <2> QED BY <1>1, <1>3, <2>1, <2>2, <2>4, <2>5
<1>4. CASE ~ShouldStartWatchStream(c)
  <2> DEFINE n == [c EXCEPT !.timer = FALSE, !.failures = 0, !.online = "Unknown"]
  <2>1. OnWatchStreamClose(c, ok) = n
    BY <1>2, <1>4 DEF OnWatchStreamClose, UpdateState
  <2>2. 0 \in 0..kMaxWatchStreamFailures
    BY DEF kMaxWatchStreamFailures
  <2>3. /\ n \in Connection /\ n.failed = {} /\ n.stream = c.stream
        /\ ~n.token /\ ~n.backoff /\ ~n.idle /\ ~n.timer /\ n.failures = 0
        /\ n.online = "Unknown" /\ n.enabled = c.enabled /\ n.targets = c.targets
    BY <2>2 DEF Connection, OnlineStates
  <2> HIDE DEF n
  <2>4. n.enabled => n.targets = {}
    BY <1>4, <2>3 DEF ShouldStartWatchStream, IsStarted
  <2>5. Sound(n) /\ ~IsOpen(n)
    BY <2>3, <2>4 DEF Sound, TimersFollowStream, OnlineFollowsStream, IsStarted, IsOpen
  <2> QED BY <2>1, <2>3, <2>5
<1> QED BY <1>3, <1>4

\* A started stream closes, whatever its timers and requests were.
LEMMA Closes ==
  ASSUME NEW c \in Connection, c.failed = {}, OnlineFollowsStream(c), IsStarted(c),
         NEW ok \in BOOLEAN, ok => ~c.enabled \/ c.targets = {}
  PROVE  LET n == CloseStream(c, ok)
         IN /\ Sound(n) /\ n.enabled = c.enabled /\ n.targets = c.targets
            /\ ~IsOpen(n) /\ (ok => n.stream = "initial")
<1> DEFINE stale == IF c.token THEN c.stale + 1 ELSE c.stale
           stream == IF ok THEN "initial" ELSE "error"
           s == [c EXCEPT !.idle = FALSE, !.backoff = FALSE, !.token = FALSE,
                          !.stale = stale, !.stream = stream]
<1>1. Asserted(c, IsStarted(c), "closes a started stream") = c
  BY AssertedHolds
<1>2. CloseStream(c, ok) = OnWatchStreamClose(s, ok)
  BY <1>1 DEF CloseStream
<1>3. stale \in Nat
  BY DEF Connection
<1>4. stream \in StreamStates /\ stream \in {"initial", "error"}
      /\ (ok => stream = "initial")
  BY DEF StreamStates
<1> HIDE DEF stale, stream
<1>5. /\ s \in Connection /\ s.failed = {} /\ s.stream = stream
      /\ ~s.token /\ ~s.backoff /\ ~s.idle
      /\ s.enabled = c.enabled /\ s.targets = c.targets
      /\ s.timer = c.timer /\ s.failures = c.failures /\ s.online = c.online
  BY <1>3, <1>4 DEF Connection
<1> HIDE DEF s
<1>6. c.online = "Online" => c.failures = 0 /\ ~c.timer
  <2>1. c.timer => c.online = "Unknown"
    BY Zenon DEF OnlineFollowsStream
  <2>2. c.online = "Online" => c.failures = 0
    BY Zenon DEF OnlineFollowsStream
  <2> QED BY <2>1, <2>2
<1>7. LET n == OnWatchStreamClose(s, ok)
      IN /\ Sound(n) /\ n.enabled = s.enabled /\ n.targets = s.targets
         /\ ~IsOpen(n) /\ (ok => n.stream = s.stream)
  BY <1>4, <1>5, <1>6, HearsOfClose
<1> QED BY <1>2, <1>4, <1>5, <1>7

\* An answer, or nothing left to watch, settles the online state.
LEMMA Updates ==
  ASSUME NEW c, Sound(c), NEW new \in {"Unknown", "Online"}, new = "Online" => IsOpen(c)
  PROVE  LET n == UpdateState(c, new)
         IN Sound(n) /\ n.enabled = c.enabled /\ n.targets = c.targets /\ n.stream = c.stream
<1> DEFINE n == [c EXCEPT !.timer = FALSE, !.failures = 0, !.online = new]
<1>1. UpdateState(c, new) = n
  BY DEF UpdateState
<1>2. c \in Connection /\ c.failed = {} /\ 0 \in 0..kMaxWatchStreamFailures
      /\ new \in OnlineStates
  BY DEF Sound, kMaxWatchStreamFailures, OnlineStates
<1>3. /\ n \in Connection /\ n.failed = {} /\ n.stream = c.stream
      /\ n.token = c.token /\ n.backoff = c.backoff /\ n.idle = c.idle
      /\ ~n.timer /\ n.failures = 0 /\ n.online = new
      /\ n.enabled = c.enabled /\ n.targets = c.targets
  BY <1>2 DEF Connection
<1> HIDE DEF n
<1>4. TimersFollowStream(n)
  BY <1>3 DEF Sound, TimersFollowStream, IsOpen
<1>5. OnlineFollowsStream(n)
  BY <1>3 DEF OnlineFollowsStream, IsOpen, IsStarted
<1>6. n.enabled /\ n.targets # {} => IsStarted(n)
  BY <1>3 DEF Sound, IsStarted
<1> QED BY <1>1, <1>3, <1>4, <1>5, <1>6 DEF Sound

\* A request goes out on the open stream, which is then not idle any more.
LEMMA Writes ==
  ASSUME NEW c \in Connection, IsOpen(c)
  PROVE  Write(c) = [c EXCEPT !.idle = FALSE]
BY AssertedHolds DEF Write

\* A change of the targets and of the idle check leaves the rest as it was.
LEMMA Retargets ==
  ASSUME NEW c, Sound(c), NEW ds \in SUBSET Docs, NEW idle \in BOOLEAN,
         idle => IsOpen(c) /\ ds = {}, ds # {} => IsStarted(c)
  PROVE  LET n == [c EXCEPT !.targets = ds, !.idle = idle]
         IN Sound(n) /\ n.enabled = c.enabled /\ n.targets = ds /\ n.stream = c.stream
<1> DEFINE n == [c EXCEPT !.targets = ds, !.idle = idle]
<1>1. c \in Connection /\ c.failed = {}
  BY DEF Sound
<1>2. /\ n \in Connection /\ n.failed = {} /\ n.stream = c.stream
      /\ n.token = c.token /\ n.backoff = c.backoff /\ n.idle = idle
      /\ n.timer = c.timer /\ n.failures = c.failures /\ n.online = c.online
      /\ n.enabled = c.enabled /\ n.targets = ds
  BY <1>1 DEF Connection
<1> HIDE DEF n
<1>3. TimersFollowStream(n)
  BY <1>2 DEF Sound, TimersFollowStream, IsOpen
<1>4. OnlineFollowsStream(n)
  BY <1>2 DEF Sound, OnlineFollowsStream, IsOpen, IsStarted
<1> QED BY <1>2, <1>3, <1>4 DEF Sound, IsStarted, n

\* A started stream may serve any targets, if it does not wait to be idle.
LEMMA RetargetsBusy ==
  ASSUME NEW c, Sound(c), NEW ds \in SUBSET Docs, ds # {} => IsStarted(c)
  PROVE  LET n == [c EXCEPT !.targets = ds, !.idle = FALSE]
         IN Sound(n) /\ n.enabled = c.enabled /\ n.targets = ds /\ n.stream = c.stream
BY Retargets, Zenon

\* An open stream without targets may wait to be idle.
LEMMA RetargetsIdle ==
  ASSUME NEW c, Sound(c), IsOpen(c)
  PROVE  LET n == [c EXCEPT !.targets = {}, !.idle = TRUE]
         IN Sound(n) /\ n.enabled = c.enabled /\ n.targets = {} /\ n.stream = c.stream
<1>1. TRUE => IsOpen(c) /\ {} = {}
  OBVIOUS
<1>2. {} # {} => IsStarted(c)
  OBVIOUS
<1> QED BY <1>1, <1>2, Retargets, Zenon

\* A stream that has started with its credentials opens with the watches sent.
LEMMA Opens ==
  ASSUME NEW c, Sound(c), c.stream = "starting"
  PROVE  LET n == OpenStream([c EXCEPT !.token = FALSE])
         IN Sound(n) /\ n.enabled = c.enabled /\ n.targets = c.targets
<1> DEFINE n == [c EXCEPT !.token = FALSE, !.stream = "open"]
<1>1. c \in Connection /\ c.failed = {} /\ ~c.idle /\ ~c.backoff
  BY DEF Sound, TimersFollowStream, IsOpen
<1>2. /\ n \in Connection /\ n.failed = {} /\ n.stream = "open"
      /\ ~n.token /\ ~n.backoff /\ ~n.idle
      /\ n.timer = c.timer /\ n.failures = c.failures /\ n.online = c.online
      /\ n.enabled = c.enabled /\ n.targets = c.targets
  BY <1>1 DEF Connection, StreamStates
<1>3. OpenStream([c EXCEPT !.token = FALSE]) = IF n.targets = {} THEN n ELSE Write(n)
  BY <1>1 DEF OpenStream, Connection
<1>4. n = [n EXCEPT !.idle = FALSE]
  BY <1>2 DEF Connection
<1> HIDE DEF n
<1>5. Write(n) = n
  BY <1>2, <1>4, Writes DEF IsOpen
<1>6. TimersFollowStream(n)
  BY <1>2 DEF TimersFollowStream, IsOpen
<1>7. OnlineFollowsStream(n)
  BY <1>2 DEF Sound, OnlineFollowsStream, IsOpen, IsStarted
<1> QED BY <1>2, <1>3, <1>5, <1>6, <1>7 DEF Sound, IsStarted

-----------------------------------------------------------------------------
(* One lemma per task that calls through several of the operators.         *)

\* Enabling the network starts the stream exactly when it is wanted.
LEMMA EnableKeeps ==
  ASSUME NEW c, c \in Connection, c.failed = {}, c.stream = "initial",
         ~c.token, ~c.backoff, ~c.idle, ~c.timer, c.failures = 0, c.online = "Unknown"
  PROVE  /\ Sound(EnableNetwork(c)) /\ EnableNetwork(c).enabled
         /\ EnableNetwork(c).targets = c.targets /\ ~IsOpen(EnableNetwork(c))
<1> DEFINE e == [c EXCEPT !.enabled = TRUE]
<1>1. /\ e \in Connection /\ e.failed = {} /\ e.stream = "initial"
      /\ ~e.token /\ ~e.backoff /\ ~e.idle /\ ~e.timer /\ e.failures = 0
      /\ e.online = "Unknown" /\ e.enabled /\ e.targets = c.targets
  BY DEF Connection
<1>2. EnableNetwork(c) = IF ShouldStartWatchStream(e) THEN StartWatchStream(e)
                         ELSE UpdateState(e, "Unknown")
  BY DEF EnableNetwork
<1> HIDE DEF e
<1>3. CASE ShouldStartWatchStream(e)
  BY <1>1, <1>2, <1>3, Starts
<1>4. CASE ~ShouldStartWatchStream(e)
  <2>1. Sound(e)
    BY <1>1, <1>4 DEF Sound, TimersFollowStream, OnlineFollowsStream, IsOpen, IsStarted,
       ShouldStartWatchStream
  <2>2. LET n == UpdateState(e, "Unknown")
        IN Sound(n) /\ n.enabled = e.enabled /\ n.targets = e.targets /\ n.stream = e.stream
    BY <2>1, Updates
  <2> QED BY <1>1, <1>2, <1>4, <2>2 DEF IsOpen
<1> QED BY <1>3, <1>4

\* A restart leaves a sound connection, closed and with its targets.
LEMMA RestartKeeps ==
  ASSUME NEW c, Sound(c)
  PROVE  /\ Sound(RestartNetwork(c)) /\ RestartNetwork(c).enabled
         /\ RestartNetwork(c).targets = c.targets /\ ~IsOpen(RestartNetwork(c))
<1> DEFINE d == [c EXCEPT !.enabled = FALSE]
           s == CloseStream(d, TRUE)
           u == UpdateState(s, "Unknown")
           n == [u EXCEPT !.stream = "initial"]
<1>1. c \in Connection
  BY DEF Sound
<1>2. /\ d \in Connection /\ d.failed = {} /\ ~d.enabled /\ d.stream = c.stream
      /\ d.token = c.token /\ d.backoff = c.backoff /\ d.idle = c.idle
      /\ d.timer = c.timer /\ d.failures = c.failures /\ d.online = c.online
      /\ d.targets = c.targets
  BY <1>1 DEF Connection, Sound
<1> HIDE DEF d
<1>3. TimersFollowStream(d) /\ OnlineFollowsStream(d)
  BY <1>2 DEF Sound, TimersFollowStream, OnlineFollowsStream, IsOpen, IsStarted
<1>4. Sound(s) /\ ~s.enabled /\ ~IsStarted(s) /\ s.targets = c.targets
  <2>1. CASE IsStarted(d)
    BY <1>2, <1>3, <2>1, Closes DEF IsStarted
  <2>2. CASE ~IsStarted(d)
    BY <1>2, <1>3, <2>2 DEF CloseStream, Sound
  <2> QED BY <2>1, <2>2
<1> HIDE DEF s
<1>5. Sound(u) /\ ~u.enabled /\ ~IsStarted(u) /\ u.targets = c.targets
  BY <1>4, Updates DEF IsStarted
<1>6. u.timer = FALSE /\ u.failures = 0 /\ u.online = "Unknown"
      /\ u \in Connection /\ u.failed = {} /\ ~u.token /\ ~u.backoff /\ ~u.idle
  <2>1. s \in Connection
    BY <1>4 DEF Sound
  <2>2. u.timer = FALSE /\ u.failures = 0 /\ u.online = "Unknown"
    BY <2>1 DEF UpdateState, Connection
  <2>3. u \in Connection /\ u.failed = {} /\ ~u.token /\ ~u.backoff /\ ~u.idle
    BY <1>5 DEF Sound, TimersFollowStream, IsOpen, IsStarted
  <2> QED BY <2>2, <2>3
<1>7. RestartNetwork(c) = EnableNetwork(n)
  <2>1. Asserted(u, ~IsStarted(u), "stopped before backoff is inhibited") = u
    BY <1>5, <1>6, AssertedHolds
  <2> QED BY <2>1 DEF RestartNetwork, d, s
<1> HIDE DEF u
<1>8. /\ n \in Connection /\ n.failed = {} /\ n.stream = "initial"
      /\ ~n.token /\ ~n.backoff /\ ~n.idle /\ ~n.timer /\ n.failures = 0
      /\ n.online = "Unknown" /\ n.targets = c.targets
  BY <1>5, <1>6 DEF Connection, StreamStates
<1> HIDE DEF n
<1> QED BY <1>7, <1>8, EnableKeeps

\* A new target starts the stream or is sent on the open one.
LEMMA ListenKeeps ==
  ASSUME NEW c, Sound(c), c.enabled, NEW d \in Docs
  PROVE  /\ Sound(ListenTo(c, d)) /\ ListenTo(c, d).enabled
         /\ ListenTo(c, d).targets = c.targets \cup {d}
         /\ IsOpen(ListenTo(c, d)) <=> IsOpen(c)
<1> DEFINE l == [c EXCEPT !.targets = @ \cup {d}]
<1>1. c \in Connection /\ c.failed = {}
  BY DEF Sound
<1>2. /\ l \in Connection /\ l.failed = {} /\ l.stream = c.stream
      /\ l.token = c.token /\ l.backoff = c.backoff /\ l.idle = c.idle
      /\ l.timer = c.timer /\ l.failures = c.failures /\ l.online = c.online
      /\ l.enabled /\ l.targets = c.targets \cup {d}
  BY <1>1 DEF Connection
<1>3. CASE d \in c.targets
  <2>1. c.targets = c.targets \cup {d} /\ ListenTo(c, d) = c
    BY <1>1, <1>3 DEF ListenTo, Connection
  <2> QED BY <2>1
<1>4. CASE d \notin c.targets /\ ~IsStarted(c)
  <2>1. ShouldStartWatchStream(l)
    BY <1>2, <1>4 DEF ShouldStartWatchStream, IsStarted
  <2>2. ListenTo(c, d) = StartWatchStream(l)
    BY <1>4, <2>1 DEF ListenTo
  <2>3. c.stream \in {"initial", "error"}
    BY <1>1, <1>4 DEF IsStarted, Connection, StreamStates
  <2>4. ~c.token /\ ~c.backoff /\ ~c.idle
    BY <2>3 DEF Sound, TimersFollowStream, IsOpen
  <2>5. ~c.timer /\ c.failures = 0
    BY <1>4 DEF Sound, OnlineFollowsStream
  <2> HIDE DEF l
  <2>6. ~IsOpen(c)
    BY <1>4 DEF IsOpen, IsStarted
  <2> QED BY <1>2, <2>1, <2>2, <2>3, <2>4, <2>5, <2>6, Starts
<1>5. CASE d \notin c.targets /\ IsStarted(c)
  <2>1. ~ShouldStartWatchStream(l)
    BY <1>2, <1>5 DEF ShouldStartWatchStream, IsStarted
  <2>2. ListenTo(c, d) = IF IsOpen(c) THEN Write(l) ELSE l
    BY <1>5, <2>1 DEF ListenTo
  <2> DEFINE ds == c.targets \cup {d}
  <2>5. ds \in SUBSET Docs
    BY <1>1 DEF Connection
  <2>6. ASSUME IsOpen(c)
        PROVE  ListenTo(c, d) = [c EXCEPT !.targets = ds, !.idle = FALSE]
    <3>1. Write(l) = [l EXCEPT !.idle = FALSE]
      BY <1>2, <2>6, Writes DEF IsOpen
    <3> QED BY <1>1, <2>2, <2>6, <3>1 DEF Connection
  <2>7. ASSUME ~IsOpen(c)
        PROVE  ListenTo(c, d) = [c EXCEPT !.targets = ds, !.idle = FALSE]
    <3>1. c.idle = FALSE
      BY <1>1, <2>7 DEF Sound, TimersFollowStream, Connection
    <3> QED BY <1>1, <2>2, <2>7, <3>1 DEF Connection
  <2>8. ListenTo(c, d) = [c EXCEPT !.targets = ds, !.idle = FALSE]
    BY <2>6, <2>7
  <2> HIDE DEF ds, l
  <2> DEFINE n == [c EXCEPT !.targets = ds, !.idle = FALSE]
  <2>9. Sound(n) /\ n.enabled = c.enabled /\ n.targets = ds /\ n.stream = c.stream
    BY <1>5, <2>5, RetargetsBusy, Zenon
  <2> QED BY <2>8, <2>9 DEF IsOpen, ds
<1> QED BY <1>3, <1>4, <1>5

\* The last target gone, an open stream waits to be idle and any other is forgotten.
LEMMA StopListeningKeeps ==
  ASSUME NEW c, Sound(c), c.enabled, NEW d \in c.targets
  PROVE  /\ Sound(StopListeningTo(c, d)) /\ StopListeningTo(c, d).enabled
         /\ StopListeningTo(c, d).targets = c.targets \ {d}
         /\ StopListeningTo(c, d).stream = c.stream
<1> DEFINE ds == c.targets \ {d}
           erased == [c EXCEPT !.targets = @ \ {d}]
           sent == IF IsOpen(c) THEN Write(erased) ELSE erased
           idle == IsOpen(c) /\ ds = {}
           n == [c EXCEPT !.targets = ds, !.idle = idle]
<1>1. c \in Connection /\ c.failed = {} /\ ~c.idle /\ IsStarted(c)
  BY DEF Sound, TimersFollowStream
<1>2. Asserted(c, d \in c.targets, "target watched") = c
  BY <1>1, AssertedHolds
<1>3. erased = [c EXCEPT !.targets = ds, !.idle = FALSE]
  BY <1>1 DEF Connection
<1>4. Write(erased) = erased \/ ~IsOpen(c)
  <2>1. erased \in Connection /\ erased.stream = c.stream /\ erased = [erased EXCEPT !.idle = FALSE]
    BY <1>1 DEF Connection
  <2> HIDE DEF erased
  <2> QED BY <2>1, Writes DEF IsOpen
<1>5. sent = erased
  BY <1>4
<1>6. /\ sent \in Connection /\ sent.targets = ds /\ sent.stream = c.stream
      /\ sent.enabled = c.enabled /\ ~sent.idle
  BY <1>1, <1>5 DEF Connection
<1>7. ds \in SUBSET Docs
  BY <1>1 DEF Connection
<1>8. Sound(n) /\ n.enabled = c.enabled /\ n.targets = ds /\ n.stream = c.stream
  <2>1. CASE idle
    <3>1. n = [c EXCEPT !.targets = {}, !.idle = TRUE]
      BY <2>1
    <3> HIDE DEF n
    <3> QED BY <2>1, <3>1, RetargetsIdle, Zenon
  <2>2. CASE ~idle
    <3>1. n = [c EXCEPT !.targets = ds, !.idle = FALSE]
      BY <2>2
    <3> HIDE DEF n, ds
    <3> QED BY <1>1, <1>7, <3>1, RetargetsBusy
  <2> QED BY <2>1, <2>2
<1>9. StopListeningTo(c, d) =
        IF sent.targets # {} THEN sent
        ELSE IF IsOpen(c) THEN MarkIdle(sent)
        ELSE IF c.enabled THEN UpdateState(sent, "Unknown")
        ELSE sent
  BY <1>2 DEF StopListeningTo
<1>10. ds # {} \/ ~IsOpen(c) => sent = n
  BY <1>3, <1>5
<1>11. IsOpen(c) /\ ds = {} => MarkIdle(sent) = n
  <2>1. SUFFICES ASSUME IsOpen(c), ds = {}
                 PROVE  MarkIdle(sent) = n
    OBVIOUS
  <2>2. IsOpen(sent)
    BY <1>6, <2>1 DEF IsOpen
  <2>3. MarkIdle(sent) = [sent EXCEPT !.idle = TRUE]
    BY <2>2 DEF MarkIdle
  <2> QED BY <1>1, <1>3, <1>5, <2>1, <2>3 DEF Connection
<1>12. ds = c.targets \ {d}
  OBVIOUS
<1> HIDE DEF n, sent, erased, idle, ds
<1>13. LET u == UpdateState(n, "Unknown")
       IN Sound(u) /\ u.enabled = n.enabled /\ u.targets = n.targets /\ u.stream = n.stream
  BY <1>8, Updates
<1> QED BY <1>6, <1>8, <1>9, <1>10, <1>11, <1>12, <1>13

\* A message says that the client is online.
LEMMA MessageKeeps ==
  ASSUME NEW c, Sound(c), IsOpen(c)
  PROVE  LET n == OnMessage(c)
         IN Sound(n) /\ n.enabled = c.enabled /\ n.targets = c.targets /\ n.stream = c.stream
<1>1. c \in Connection /\ IsStarted(c)
  BY DEF Sound, IsOpen, IsStarted
<1>2. Asserted(c, IsStarted(c), "reads from a started stream") = c
  BY <1>1, AssertedHolds
<1>3. OnMessage(c) = UpdateState(c, "Online")
  BY <1>2 DEF OnMessage
<1> QED BY <1>3, Updates

\* An error of a target is a message that takes the target.
LEMMA TargetErrorKeeps ==
  ASSUME NEW c, Sound(c), IsOpen(c), NEW d \in Docs
  PROVE  /\ Sound(OnTargetError(c, d)) /\ OnTargetError(c, d).enabled = c.enabled
         /\ OnTargetError(c, d).targets = c.targets \ {d}
         /\ OnTargetError(c, d).stream = c.stream
<1> DEFINE o == OnMessage(c)
           ds == o.targets \ {d}
<1>1. Sound(o) /\ o.enabled = c.enabled /\ o.targets = c.targets /\ o.stream = c.stream
  BY MessageKeeps
<1>2. OnTargetError(c, d) = IF d \in c.targets THEN [o EXCEPT !.targets = @ \ {d}] ELSE o
  BY DEF OnTargetError
<1> HIDE DEF o
<1>3. o \in Connection /\ o.idle \in BOOLEAN /\ ds \in SUBSET Docs
  BY <1>1 DEF Sound, Connection
<1>4. OnTargetError(c, d) = [o EXCEPT !.targets = ds, !.idle = o.idle]
  <2>1. CASE d \in c.targets
    BY <1>2, <1>3, <2>1 DEF Connection
  <2>2. CASE d \notin c.targets
    <3>1. ds = o.targets
      BY <1>1, <2>2
    <3> QED BY <1>2, <1>3, <2>2, <3>1 DEF Connection
  <2> QED BY <2>1, <2>2
<1>5. IsOpen(o) /\ IsStarted(o)
  BY <1>1 DEF IsOpen, IsStarted
<1>6. o.idle => ds = {}
  BY <1>1 DEF Sound, TimersFollowStream
<1> HIDE DEF ds
<1>7. CASE o.idle
  <2>1. OnTargetError(c, d) = [o EXCEPT !.targets = {}, !.idle = TRUE]
    BY <1>3, <1>4, <1>6, <1>7
  <2> QED BY <1>1, <1>5, <1>6, <1>7, <2>1, RetargetsIdle DEF ds
<1>8. CASE ~o.idle
  <2>1. OnTargetError(c, d) = [o EXCEPT !.targets = ds, !.idle = FALSE]
    BY <1>3, <1>4, <1>8
  <2> DEFINE n == [o EXCEPT !.targets = ds, !.idle = FALSE]
  <2>2. Sound(n) /\ n.enabled = o.enabled /\ n.targets = ds /\ n.stream = o.stream
    BY <1>1, <1>3, <1>5, RetargetsBusy, Zenon
  <2> QED BY <1>1, <2>1, <2>2 DEF ds
<1> QED BY <1>7, <1>8

\* Credentials move the attempt they were asked for, and no other.
LEMMA CredentialsKeep ==
  ASSUME NEW c, Sound(c), NEW current \in BOOLEAN, NEW ok \in BOOLEAN,
         IF current THEN c.token ELSE c.stale > 0
  PROVE  /\ Sound(OnCredentials(c, current, ok))
         /\ OnCredentials(c, current, ok).enabled = c.enabled
         /\ OnCredentials(c, current, ok).targets = c.targets
         /\ IsOpen(c) => IsOpen(OnCredentials(c, current, ok))
<1>1. c \in Connection /\ c.failed = {}
  BY DEF Sound
<1>2. CASE current
  <2> DEFINE s == [c EXCEPT !.token = FALSE]
  <2>1. c.stream = "starting"
    BY <1>2 DEF Sound, TimersFollowStream
  <2>2. /\ s \in Connection /\ s.failed = {} /\ s.stream = "starting"
        /\ s.timer = c.timer /\ s.failures = c.failures /\ s.online = c.online
        /\ s.enabled = c.enabled /\ s.targets = c.targets
    BY <1>1, <2>1 DEF Connection
  <2>3. Asserted(s, s.stream = "starting", "still starting") = s
    <3> DEFINE starting == s.stream = "starting"
    <3>1. starting
      BY <2>2
    <3> HIDE DEF starting, s
    <3>2. Asserted(s, starting, "still starting") = s
      BY <2>2, <3>1, AssertedHolds
    <3> QED BY <3>2 DEF starting
  <2>4. OnCredentials(c, current, ok) = IF ok THEN OpenStream(s) ELSE CloseStream(s, FALSE)
    BY <1>2, <2>3 DEF OnCredentials, ResumeStartWithCredentials
  <2>5. CASE ok
    BY <2>1, <2>4, <2>5, Opens DEF IsOpen
  <2>6. CASE ~ok
    <3> HIDE DEF s
    <3>1. OnlineFollowsStream(s) /\ IsStarted(s)
      BY <2>1, <2>2 DEF Sound, OnlineFollowsStream, IsOpen, IsStarted
    <3>2. LET n == CloseStream(s, FALSE)
          IN Sound(n) /\ n.enabled = s.enabled /\ n.targets = s.targets
      BY <2>2, <3>1, Closes
    <3> QED BY <2>1, <2>2, <2>4, <2>6, <3>2 DEF IsOpen
  <2> QED BY <2>5, <2>6
<1>3. CASE ~current
  <2> DEFINE stale == c.stale - 1
             n == [c EXCEPT !.stale = stale]
  <2>1. stale \in Nat
    BY <1>1, <1>3 DEF Connection
  <2>2. OnCredentials(c, current, ok) = n
    BY <1>3 DEF OnCredentials
  <2> HIDE DEF stale
  <2>3. /\ n \in Connection /\ n.failed = {} /\ n.stream = c.stream
        /\ n.token = c.token /\ n.backoff = c.backoff /\ n.idle = c.idle
        /\ n.timer = c.timer /\ n.failures = c.failures /\ n.online = c.online
        /\ n.enabled = c.enabled /\ n.targets = c.targets
    BY <1>1, <2>1 DEF Connection
  <2> HIDE DEF n
  <2>4. TimersFollowStream(n)
    BY <2>3 DEF Sound, TimersFollowStream, IsOpen
  <2>5. OnlineFollowsStream(n)
    BY <2>3 DEF Sound, OnlineFollowsStream, IsOpen, IsStarted
  <2> QED BY <2>2, <2>3, <2>4, <2>5 DEF Sound, IsStarted, IsOpen
<1> QED BY <1>2, <1>3

\* An elapsed backoff starts the attempt it delayed.
LEMMA BackoffKeeps ==
  ASSUME NEW c, Sound(c), c.backoff
  PROVE  LET n == OnBackoffElapsed(c)
         IN /\ Sound(n) /\ n.enabled = c.enabled /\ n.targets = c.targets
            /\ ~IsOpen(n) /\ ~IsOpen(c)
<1> DEFINE b == [c EXCEPT !.backoff = FALSE]
           n == [c EXCEPT !.backoff = FALSE, !.stream = "starting", !.token = TRUE]
<1>1. c \in Connection /\ c.failed = {} /\ c.stream = "backoff" /\ ~c.idle
  BY DEF Sound, TimersFollowStream, IsOpen
<1>2. b \in Connection /\ c.stream = "backoff"
  BY <1>1 DEF Connection
<1>3. OnBackoffElapsed(c) = StartStream([b EXCEPT !.stream = "initial"])
  <2> DEFINE backing == c.stream = "backoff"
  <2>1. backing
    BY <1>1
  <2> HIDE DEF backing, b
  <2>2. Asserted(b, backing, "still backing off") = b
    BY <1>2, <2>1, AssertedHolds
  <2> QED BY <2>2 DEF OnBackoffElapsed, backing, b
<1>4. [b EXCEPT !.stream = "initial"] \in Connection
  BY <1>2 DEF Connection, StreamStates
<1>5. StartStream([b EXCEPT !.stream = "initial"]) = n
  <2> DEFINE s == [b EXCEPT !.stream = "initial"]
             fresh == s.stream = "initial"
  <2>1. fresh
    BY <1>2 DEF Connection
  <2>2. Asserted(s, fresh, "not started yet") = s
    <3> HIDE DEF s, fresh
    <3> QED BY <1>4, <2>1, AssertedHolds DEF s
  <2>3. StartStream(s) = [s EXCEPT !.stream = "starting", !.token = TRUE]
    <3>1. s.stream # "error"
      BY <2>1
    <3> HIDE DEF s
    <3> QED BY <2>2, <3>1 DEF StartStream, fresh
  <2> QED BY <1>1, <2>3 DEF Connection
<1>6. /\ n \in Connection /\ n.failed = {} /\ n.stream = "starting"
      /\ n.token /\ ~n.backoff /\ ~n.idle
      /\ n.timer = c.timer /\ n.failures = c.failures /\ n.online = c.online
      /\ n.enabled = c.enabled /\ n.targets = c.targets
  BY <1>1 DEF Connection, StreamStates
<1> HIDE DEF n
<1>7. TimersFollowStream(n)
  BY <1>6 DEF TimersFollowStream, IsOpen
<1>8. OnlineFollowsStream(n)
  BY <1>1, <1>6 DEF Sound, OnlineFollowsStream, IsOpen, IsStarted
<1>9. ~IsOpen(n) /\ ~IsOpen(c) /\ OnBackoffElapsed(c) = n
  BY <1>1, <1>3, <1>5, <1>6 DEF IsOpen
<1>10. Sound(n)
  BY <1>6, <1>7, <1>8 DEF Sound, IsStarted
<1> QED BY <1>6, <1>9, <1>10

\* The timeout finds the state unknown, and ends that.
LEMMA TimeoutKeeps ==
  ASSUME NEW c, Sound(c), c.timer
  PROVE  LET n == OnlineStateTimeout(c)
         IN Sound(n) /\ n.enabled = c.enabled /\ n.targets = c.targets /\ n.stream = c.stream
<1> DEFINE n == [c EXCEPT !.timer = FALSE, !.online = "Offline"]
           unknown == c.online = "Unknown"
<1>1. c \in Connection /\ c.failed = {} /\ IsStarted(c) /\ unknown
  BY DEF Sound, OnlineFollowsStream
<1>2. OnlineStateTimeout(c) = n
  <2> HIDE DEF unknown
  <2>1. Asserted(c, unknown, "timer only while unknown") = c
    BY <1>1, AssertedHolds
  <2> QED BY <2>1 DEF OnlineStateTimeout, unknown
<1>3. /\ n \in Connection /\ n.failed = {} /\ n.stream = c.stream
      /\ n.token = c.token /\ n.backoff = c.backoff /\ n.idle = c.idle
      /\ ~n.timer /\ n.failures = c.failures /\ n.online = "Offline"
      /\ n.enabled = c.enabled /\ n.targets = c.targets
  BY <1>1 DEF Connection, OnlineStates
<1> HIDE DEF n
<1>4. TimersFollowStream(n)
  BY <1>3 DEF Sound, TimersFollowStream, IsOpen
<1>5. OnlineFollowsStream(n)
  BY <1>1, <1>3 DEF OnlineFollowsStream, IsOpen, IsStarted
<1> QED BY <1>2, <1>3, <1>4, <1>5 DEF Sound, IsStarted

\* The idle check closes a stream without targets.
LEMMA IdleKeeps ==
  ASSUME NEW c, Sound(c), c.idle
  PROVE  LET n == OnIdle(c)
         IN /\ Sound(n) /\ n.enabled = c.enabled /\ n.targets = c.targets /\ ~IsOpen(n)
<1> DEFINE s == [c EXCEPT !.idle = FALSE]
<1>1. c \in Connection /\ c.failed = {} /\ IsOpen(c) /\ c.targets = {}
  BY DEF Sound, TimersFollowStream
<1>2. /\ s \in Connection /\ s.failed = {} /\ s.stream = "open"
      /\ s.timer = c.timer /\ s.failures = c.failures /\ s.online = c.online
      /\ s.enabled = c.enabled /\ s.targets = {}
  BY <1>1 DEF Connection, IsOpen
<1>3. OnIdle(c) = CloseStream(s, TRUE)
  BY DEF OnIdle
<1> HIDE DEF s
<1>4. OnlineFollowsStream(s) /\ IsStarted(s)
  BY <1>1, <1>2 DEF Sound, OnlineFollowsStream, IsOpen, IsStarted
<1>5. LET n == CloseStream(s, TRUE)
      IN Sound(n) /\ n.enabled = s.enabled /\ n.targets = s.targets /\ ~IsOpen(n)
  BY <1>2, <1>4, Closes
<1> QED BY <1>1, <1>2, <1>3, <1>5

-----------------------------------------------------------------------------
(* The theorems.                                                           *)

\* The connection starts sound: the network is enabled and nothing is watched.
LEMMA InitSound == Init => Inv
<1> SUFFICES ASSUME Init
             PROVE  Inv
  OBVIOUS
<1>1. /\ Connected \in Connection /\ Connected.failed = {}
      /\ Connected.stream = "initial" /\ ~Connected.token /\ ~Connected.backoff
      /\ ~Connected.idle /\ ~Connected.timer /\ Connected.failures = 0
      /\ Connected.online = "Unknown"
  BY DEF Connected, Connection, StreamStates, OnlineStates, kMaxWatchStreamFailures
<1> QED BY <1>1, EnableKeeps DEF Init, Inv

\* Every task leaves it sound.
LEMMA NextSound == Inv /\ [Next]_conn => Inv'
<1> SUFFICES ASSUME Sound(conn), conn.enabled, [Next]_conn
             PROVE  Sound(conn') /\ conn'.enabled
  BY DEF Inv
<1>1. ASSUME NEW d \in Docs, Listen(d)
      PROVE  Sound(conn') /\ conn'.enabled
  BY <1>1, ListenKeeps DEF Listen
<1>2. ASSUME NEW d \in Docs, StopListening(d)
      PROVE  Sound(conn') /\ conn'.enabled
  BY <1>2, StopListeningKeeps DEF StopListening
<1>3. ASSUME NEW d \in Docs, TargetFails(d)
      PROVE  Sound(conn') /\ conn'.enabled
  BY <1>3, TargetErrorKeeps DEF TargetFails
<1>4. CASE CredentialsArrive
  <2>1. PICK current \in BOOLEAN, ok \in BOOLEAN :
          /\ IF current THEN conn.token ELSE conn.stale > 0
          /\ conn' = OnCredentials(conn, current, ok)
    BY <1>4, Zenon DEF CredentialsArrive
  <2>2. /\ Sound(OnCredentials(conn, current, ok))
        /\ OnCredentials(conn, current, ok).enabled = conn.enabled
    BY <2>1, CredentialsKeep, Zenon
  <2> QED BY <2>1, <2>2
<1>5. CASE BackoffElapses
  BY <1>5, BackoffKeeps DEF BackoffElapses
<1>6. CASE StreamIdle
  BY <1>6, IdleKeeps DEF StreamIdle
<1>7. CASE StreamBreaks
  <2>1. conn \in Connection /\ conn.failed = {} /\ OnlineFollowsStream(conn)
        /\ IsStarted(conn)
    BY <1>7 DEF StreamBreaks, Sound, IsOpen, IsStarted
  <2>2. LET n == CloseStream(conn, FALSE) IN Sound(n) /\ n.enabled = conn.enabled
    BY <2>1, Closes
  <2> QED BY <1>7, <2>2 DEF StreamBreaks
<1>8. CASE TimerFires
  BY <1>8, TimeoutKeeps DEF TimerFires
<1>9. CASE MessageArrives
  BY <1>9, MessageKeeps DEF MessageArrives
<1>10. CASE NetworkRestarts
  BY <1>10, RestartKeeps DEF NetworkRestarts
<1>11. CASE UNCHANGED conn
  BY <1>11
<1> QED BY <1>1, <1>2, <1>3, <1>4, <1>5, <1>6, <1>7, <1>8, <1>9, <1>10, <1>11 DEF Next

\* The inductive invariant: the timers and the credential request belong to the
\* state of the stream, and so do the online state, its timeout and its failures.
THEOREM ConnectionSound == Spec => []Inv
<1>1. Init => Inv
  BY InitSound
<1>2. Inv /\ [Next]_conn => Inv'
  BY NextSound
<1> QED BY <1>1, <1>2, PTL DEF Spec

\* The connection keeps its type (ConnectionTypeOK).
THEOREM ConnectionTyped == Spec => []ConnectionTypeOK
<1>1. Inv => ConnectionTypeOK
  BY DEF Inv, Sound, ConnectionTypeOK
<1> QED BY <1>1, ConnectionSound, PTL

\* No HARD_ASSERT of the stream, the online state tracker or the remote store
\* ever fails, whatever is listened to and however the stream ends.
THEOREM AssertsHold == Spec => []NoAssertFails
<1>1. Inv => NoAssertFails
  BY DEF Inv, Sound, NoAssertFails
<1> QED BY <1>1, ConnectionSound, PTL

\* Online is said over an open stream only, and the timeout never outlives the
\* attempt it was set for.
THEOREM OnlineFollows == Spec => []OnlineStateFollowsStream
<1>1. Inv => OnlineStateFollowsStream
  BY DEF Inv, Sound, OnlineFollowsStream, OnlineStateFollowsStream
<1> QED BY <1>1, ConnectionSound, PTL

\* A watched document has a started stream, and only an unwatched one is idle.
THEOREM StreamServes == Spec => []StreamServesTargets
<1>1. Inv => StreamServesTargets
  BY DEF Inv, Sound, TimersFollowStream, StreamServesTargets
<1> QED BY <1>1, ConnectionSound, PTL
=============================================================================
