------------------------- MODULE FirestoreEventsProofs -------------------------
(***************************************************************************)
(* What FirestoreReads gives its readers, for any documents, readers and   *)
(* bounds: resume tokens are never ahead of the cache, the events of a     *)
(* reader follow each other, and a get is answered from the cache only     *)
(* offline.                                                                *)
(***************************************************************************)
EXTENDS FirestoreReadsProofs

-----------------------------------------------------------------------------
(* What is known of a version, and how events follow each other.           *)

Known(v, latest) == v = None \/ v <= latest
IsNewer(v, old) == old = None \/ v = None \/ v >= old
Reaches(v, w) == w = None \/ (v # None /\ v >= w)

\* The version a reader is left with once it has taken all of its events.
LastOf(events, given) ==
  IF events = <<>> THEN given ELSE VersionOf(events[Len(events)].content)

\* Events follow what was given: of versions the document has had, none older
\* than the one before, and an error comes last.
Follow(events, given, latest) ==
  \A i \in 1..Len(events) :
    /\ Known(VersionOf(events[i].content), latest)
    /\ IsNewer(VersionOf(events[i].content),
               IF i = 1 THEN given ELSE VersionOf(events[i - 1].content))
    /\ i < Len(events) => events[i].ok

\* What an event tells is a version or nothing.
LEMMA VersionTyped ==
  ASSUME NEW content \in Content \cup {None}
  PROVE  /\ VersionOf(content) \in Versions \cup {None}
         /\ content # None => VersionOf(content) = content.version
                              /\ content.version \in Versions /\ content.version \in Nat
         /\ VersionOf(content) = None <=> content = None
BY ReadersAssumption, DataAssumption DEF VersionOf, Content, Versions

\* One more event follows those there are, when it is not older than the last
\* and none of them is an error.
LEMMA FollowByAppend ==
  ASSUME NEW q \in Seq(Event), NEW e \in Event, NEW given, NEW latest,
         Follow(q, given, latest), ~Failing(q),
         Known(VersionOf(e.content), latest),
         IsNewer(VersionOf(e.content), LastOf(q, given))
  PROVE  /\ Follow(Append(q, e), given, latest)
         /\ LastOf(Append(q, e), given) = VersionOf(e.content)
<1> DEFINE a == Append(q, e)
<1>1. /\ a \in Seq(Event) /\ a # <<>> /\ Len(a) = Len(q) + 1 /\ Len(q) \in Nat
      /\ a[Len(q) + 1] = e /\ \A i \in 1..Len(q) : a[i] = q[i]
      /\ Len(q) = 0 <=> q = <<>>
  BY AppendProperties, LenProperties, EmptySeq
<1> HIDE DEF a
<1>2. LastOf(a, given) = VersionOf(e.content)
  BY <1>1 DEF LastOf
<1>3. ASSUME NEW i \in 1..Len(a)
      PROVE  /\ Known(VersionOf(a[i].content), latest)
             /\ IsNewer(VersionOf(a[i].content),
                        IF i = 1 THEN given ELSE VersionOf(a[i - 1].content))
             /\ i < Len(a) => a[i].ok
  <2>1. CASE i \in 1..Len(q)
    <3>1. a[i] = q[i] /\ q[i].ok
      BY <1>1, <2>1 DEF Failing
    <3>2. i # 1 => i - 1 \in 1..Len(q) /\ a[i - 1] = q[i - 1]
      BY <1>1, <2>1
    <3>3. /\ Known(VersionOf(q[i].content), latest)
          /\ IsNewer(VersionOf(q[i].content),
                     IF i = 1 THEN given ELSE VersionOf(q[i - 1].content))
      BY <2>1 DEF Follow
    <3>4. (IF i = 1 THEN given ELSE VersionOf(q[i - 1].content))
            = (IF i = 1 THEN given ELSE VersionOf(a[i - 1].content))
      BY <3>2
    <3> QED BY <3>1, <3>3, <3>4
  <2>2. CASE i = Len(q) + 1
    <3>1. a[i] = e /\ ~(i < Len(a))
      BY <1>1, <2>2
    <3>2. CASE q = <<>>
      <4>1. i = 1 /\ LastOf(q, given) = given
        BY <1>1, <2>2, <3>2 DEF LastOf
      <4> QED BY <3>1, <4>1
    <3>3. CASE q # <<>>
      <4>1. i # 1 /\ i - 1 = Len(q) /\ Len(q) \in 1..Len(q)
        BY <1>1, <2>2, <3>3
      <4>2. a[i - 1] = q[Len(q)]
        BY <1>1, <4>1
      <4>3. LastOf(q, given) = VersionOf(a[i - 1].content)
        BY <3>3, <4>2 DEF LastOf
      <4> QED BY <3>1, <4>1, <4>3
    <3> QED BY <3>2, <3>3
  <2> QED BY <1>1, <2>1, <2>2
<1>4. Follow(a, given, latest)
  BY <1>3 DEF Follow
<1> QED BY <1>2, <1>4 DEF a

\* The first event is taken: the others follow it.
LEMMA FollowByTail ==
  ASSUME NEW q \in Seq(Event), q # <<>>, NEW given, NEW latest,
         Follow(q, given, latest)
  PROVE  LET v == VersionOf(Head(q).content)
         IN /\ Head(q) \in Event /\ Tail(q) \in Seq(Event)
            /\ Known(v, latest) /\ IsNewer(v, given)
            /\ Follow(Tail(q), v, latest)
            /\ LastOf(Tail(q), v) = LastOf(q, given)
            /\ ~Head(q).ok => Tail(q) = <<>>
<1> DEFINE t == Tail(q)
           v == VersionOf(Head(q).content)
<1>1. /\ t \in Seq(Event) /\ Head(q) \in Event /\ Head(q) = q[1]
      /\ Len(q) \in Nat /\ Len(q) > 0 /\ Len(t) = Len(q) - 1
      /\ \A i \in 1..Len(t) : t[i] = q[i + 1]
  BY HeadTailProperties, LenProperties, EmptySeq
<1> HIDE DEF t
<1>2. Len(t) = 0 <=> t = <<>>
  BY <1>1, EmptySeq
<1>3. v = VersionOf(q[1].content) /\ 1 \in 1..Len(q)
  BY <1>1
<1> HIDE DEF v
<1>4. Known(v, latest) /\ IsNewer(v, given)
  BY <1>3 DEF Follow
<1>5. ~Head(q).ok => t = <<>>
  <2>1. 1 < Len(q) => q[1].ok
    BY <1>3 DEF Follow
  <2> QED BY <1>2, <1>1, <2>1
<1>6. LastOf(t, v) = LastOf(q, given)
  <2>1. CASE t = <<>>
    <3>1. Len(q) = 1
      BY <1>2, <1>1, <2>1
    <3> QED BY <1>3, <2>1, <3>1 DEF LastOf
  <2>2. CASE t # <<>>
    <3>1. Len(t) \in 1..Len(t) /\ Len(t) + 1 = Len(q)
      BY <1>2, <1>1, <2>2
    <3>2. t[Len(t)] = q[Len(q)]
      BY <1>1, <3>1
    <3> QED BY <2>2, <3>2 DEF LastOf
  <2> QED BY <2>1, <2>2
<1>7. ASSUME NEW i \in 1..Len(t)
      PROVE  /\ Known(VersionOf(t[i].content), latest)
             /\ IsNewer(VersionOf(t[i].content),
                        IF i = 1 THEN v ELSE VersionOf(t[i - 1].content))
             /\ i < Len(t) => t[i].ok
  <2>1. i + 1 \in 1..Len(q) /\ t[i] = q[i + 1] /\ i + 1 # 1 /\ (i + 1) - 1 = i
    BY <1>1
  <2>2. /\ Known(VersionOf(q[i + 1].content), latest)
        /\ IsNewer(VersionOf(q[i + 1].content), VersionOf(q[i].content))
        /\ i + 1 < Len(q) => q[i + 1].ok
    BY <2>1 DEF Follow
  <2>3. (IF i = 1 THEN v ELSE VersionOf(t[i - 1].content)) = VersionOf(q[i].content)
    <3>1. CASE i = 1
      BY <1>3, <3>1
    <3>2. CASE i # 1
      <4>1. i - 1 \in 1..Len(t) /\ (i - 1) + 1 = i
        BY <3>2
      <4> QED BY <1>1, <3>2, <4>1
    <3> QED BY <3>1, <3>2
  <2> QED BY <1>1, <2>1, <2>2, <2>3
<1>8. Follow(t, v, latest)
  BY <1>7 DEF Follow
<1> QED BY <1>1, <1>4, <1>5, <1>6, <1>8 DEF t, v

-----------------------------------------------------------------------------
(* The backend's side: versions and tokens.                                *)

\* Nothing is newer than the document itself.
Bounded(w, a, s, latest) ==
  /\ Known(w.told, latest) /\ Known(s.resume, latest)
  /\ \A i \in 1..Len(w.requests) : Known(w.requests[i].resume, latest)
  /\ s.cache # None => s.cache.version <= latest
  /\ a.update \in Content => a.update.version <= latest

\* What is watched resumes from the token that the store keeps, so that the
\* backend has told at least that, and tells only of what is newer.
Resumed(w, a, s, watched) ==
  /\ watched /\ w.requests # <<>> => w.requests[Len(w.requests)].resume = s.resume
  /\ watched /\ a.out = 0 => Reaches(w.told, s.resume)
  /\ a.update \in Content => s.resume = None \/ a.update.version > s.resume

VersionsBounded == \A d \in Docs : Bounded(wire[d], agg[d], store[d], db[d])

TokensResumed ==
  W!IsOpen(conn) =>
    \A d \in Docs : Resumed(wire[d], agg[d], store[d], d \in conn.targets)

\* Something is gathered only while the client is online.
GatheredOnline ==
  \A d \in Docs : agg[d].update # None => W!IsOpen(conn) /\ conn.online = "Online"

TokensSound == VersionsBounded /\ TokensResumed /\ GatheredOnline

\* An open stream keeps its online state, whatever is watched over it.
LEMMA ListenKeepsOnline ==
  ASSUME NEW c, ConnSound(c), NEW d \in Docs
  PROVE  W!ListenTo(c, d).online = c.online
BY DEF ConnSound, WP!Sound, WP!Connection, WP!OnlineFollowsStream, WP!TimersFollowStream,
   WP!IsStarted, WP!IsOpen, WP!StreamStates,
   W!ListenTo, W!ShouldStartWatchStream, W!IsStarted, W!IsOpen, W!StartWatchStream,
   W!HandleWatchStreamStart, W!StartStream, W!Asserted, W!Write

\* ... nor when something is not watched any more.
LEMMA StopKeepsOnline ==
  ASSUME NEW c, ConnSound(c), W!IsOpen(c), NEW d \in Docs
  PROVE  W!StopListeningTo(c, d).online = c.online
BY DEF ConnSound, WP!Sound, WP!Connection,
   W!StopListeningTo, W!IsOpen, W!Asserted, W!Write, W!MarkIdle

\* Whatever the backend says, the client is online.
LEMMA MessageOnline ==
  ASSUME NEW c, ConnSound(c), W!IsOpen(c)
  PROVE  /\ W!OnMessage(c).online = "Online"
         /\ \A d : W!OnTargetError(c, d).online = "Online"
BY DEF ConnSound, WP!Sound, WP!Connection,
   W!OnMessage, W!OnTargetError, W!UpdateState, W!Asserted, W!IsOpen, W!IsStarted

\* Credentials of a stream that is open change nothing of it.
LEMMA CredentialsKeepOnline ==
  ASSUME NEW c, ConnSound(c), W!IsOpen(c), NEW current \in BOOLEAN, NEW ok \in BOOLEAN,
         IF current THEN c.token ELSE c.stale > 0
  PROVE  W!OnCredentials(c, current, ok).online = c.online
BY DEF ConnSound, WP!Sound, WP!Connection, WP!TimersFollowStream,
   W!IsOpen, W!OnCredentials

\* Where nothing is gathered, and no stream is open, little is asked.
LEMMA NothingServed ==
  ASSUME BackendTyped, VersionsBounded, ~W!IsOpen(conn'),
         UNCHANGED <<db, store>>,
         \/ Disconnect
         \/ /\ UNCHANGED <<wire, agg>>
            /\ \A d \in Docs : agg[d].update = None
  PROVE  TokensSound'
<1>1. \A d \in Docs : agg'[d].update = None
  BY DEF Disconnect, NoTarget
<1>2. ASSUME NEW d \in Docs
      PROVE  Bounded(wire'[d], agg'[d], store'[d], db'[d])
  <2>1. Bounded(wire[d], agg[d], store[d], db[d])
    BY DEF VersionsBounded
  <2>2. CASE wire'[d] = wire[d]
    BY <1>1, <2>1, <2>2, DataAssumption DEF Bounded
  <2>3. CASE wire'[d] = NotServed
    <3>1. wire'[d].told = None /\ wire'[d].requests = <<>> /\ Len(wire'[d].requests) = 0
      BY <2>3, EmptySeq DEF NotServed
    <3> QED BY <1>1, <2>1, <3>1, DataAssumption DEF Bounded, Known
  <2> QED BY <2>2, <2>3 DEF Disconnect
<1>3. VersionsBounded'
  BY <1>2 DEF VersionsBounded, Bounded, Known
<1>4. GatheredOnline' /\ TokensResumed'
  BY <1>1 DEF GatheredOnline, TokensResumed, W!IsOpen
<1> QED BY <1>3, <1>4 DEF TokensSound

\* What is under way for one target changes, while the stream stays open.
LEMMA OneTargetTokens ==
  ASSUME BackendTyped, TokensSound, W!IsOpen(conn), W!IsOpen(conn'),
         UNCHANGED <<db, store>>,
         NEW d \in Docs, NEW v, NEW b,
         wire' = [wire EXCEPT ![d] = v], agg' = [agg EXCEPT ![d] = b],
         Bounded(v, b, store[d], db[d]), Resumed(v, b, store[d], d \in conn'.targets),
         conn.online = "Online" => conn'.online = "Online",
         b.update # None => conn'.online = "Online",
         \A e \in Docs \ {d} : e \in conn'.targets <=> e \in conn.targets
  PROVE  TokensSound'
<1>1. /\ wire'[d] = v /\ agg'[d] = b
      /\ \A e \in Docs \ {d} : wire'[e] = wire[e] /\ agg'[e] = agg[e]
  BY DEF BackendTyped
<1>2. VersionsBounded'
  <2>1. SUFFICES ASSUME NEW e \in Docs
                 PROVE  Bounded(wire'[e], agg'[e], store[e], db[e])
    BY DEF VersionsBounded, Bounded, Known
  <2>2. CASE e = d
    BY <1>1, <2>2
  <2>3. CASE e # d
    BY <1>1, <2>3 DEF TokensSound, VersionsBounded
  <2> QED BY <2>2, <2>3
<1>3. TokensResumed'
  <2>1. SUFFICES ASSUME NEW e \in Docs
                 PROVE  Resumed(wire'[e], agg'[e], store[e], e \in conn'.targets)
    BY DEF TokensResumed, Resumed, Reaches
  <2>2. CASE e = d
    BY <1>1, <2>2
  <2>3. CASE e # d
    <3>1. Resumed(wire[e], agg[e], store[e], e \in conn.targets)
      BY DEF TokensSound, TokensResumed
    <3> QED BY <1>1, <2>3, <3>1 DEF Resumed
  <2> QED BY <2>2, <2>3
<1>4. GatheredOnline'
  <2>1. SUFFICES ASSUME NEW e \in Docs, agg'[e].update # None
                 PROVE  conn'.online = "Online"
    BY DEF GatheredOnline, W!IsOpen
  <2>2. CASE e = d
    BY <1>1, <2>1, <2>2
  <2>3. CASE e # d
    BY <1>1, <2>1, <2>3 DEF TokensSound, GatheredOnline
  <2> QED BY <2>2, <2>3
<1> QED BY <1>2, <1>3, <1>4 DEF TokensSound

\* A message that raises no snapshot leaves the client online.
LEMMA HeardOnline ==
  ASSUME IInv, W!IsOpen(conn), Heard
  PROVE  /\ W!IsOpen(conn') /\ conn'.targets = conn.targets /\ conn'.online = "Online"
         /\ conn.online = "Online" => client' = client
<1>1. ConnSound(conn) /\ client.online = conn.online
  BY DEF IInv, ClientTyped
<1>2. conn' = W!OnMessage(conn) /\ client' = HandleOnlineStateChange(client, conn'.online)
  BY DEF Heard, Connect
<1>3. W!OnMessage(conn).online = "Online"
  BY <1>1, MessageOnline
<1> QED BY <1>1, <1>2, <1>3, MessageSound DEF HandleOnlineStateChange

\* The requests under way, when the first is answered.
LEMMA RequestsByTail ==
  ASSUME NEW w \in Wire, w.requests # <<>>
  PROVE  LET q == w.requests
             t == Tail(w.requests)
         IN /\ t \in Seq(Request) /\ Head(q) \in Request /\ Head(q) = q[1]
            /\ Len(q) \in Nat /\ Len(q) > 0 /\ Len(t) = Len(q) - 1
            /\ t = <<>> <=> Len(q) = 1
            /\ t # <<>> => t[Len(t)] = q[Len(q)]
            /\ \A i \in 1..Len(t) : i + 1 \in 1..Len(q) /\ t[i] = q[i + 1]
<1> DEFINE q == w.requests
           t == Tail(w.requests)
<1>1. /\ q \in Seq(Request) /\ t \in Seq(Request) /\ Head(q) \in Request /\ Head(q) = q[1]
      /\ Len(q) \in Nat /\ Len(q) > 0 /\ Len(t) = Len(q) - 1
      /\ \A i \in 1..Len(t) : t[i] = q[i + 1]
  BY HeadTailProperties, LenProperties, EmptySeq DEF Wire
<1> HIDE DEF q, t
<1>2. t = <<>> <=> Len(t) = 0
  BY <1>1, EmptySeq
<1>3. t # <<>> => t[Len(t)] = q[Len(q)]
  <2>1. SUFFICES ASSUME t # <<>> PROVE t[Len(t)] = q[Len(q)]
    OBVIOUS
  <2>2. Len(t) \in 1..Len(t) /\ Len(t) + 1 = Len(q)
    BY <1>1, <1>2, <2>1
  <2> QED BY <1>1, <2>2
<1>4. \A i \in 1..Len(t) : i + 1 \in 1..Len(q) /\ t[i] = q[i + 1]
  BY <1>1
<1> QED BY <1>1, <1>2, <1>3, <1>4 DEF q, t

\* The backend resumes from the token of the last watch, or from nothing.
LEMMA AddedKeepsTokens ==
  ASSUME IInv, TokensSound, NothingCrossed, NEW d \in Docs, TargetAdded(d)
  PROVE  TokensSound'
<1> DEFINE w == wire[d]
           a == agg[d]
           resume == Head(w.requests).resume
           told == IF resume = None /\ db[d] \in Deletions THEN db[d] ELSE resume
           v == [w EXCEPT !.requests = Tail(w.requests), !.on = TRUE, !.caughtUp = FALSE,
                          !.told = told]
           b == [a EXCEPT !.out = a.out - 1,
                          !.member = IF a.out = 1 THEN "same" ELSE a.member]
<1>1. /\ W!IsOpen(conn) /\ w.requests # <<>> /\ Heard /\ UNCHANGED <<db, store>>
  BY DEF TargetAdded, Answers
<1>2. W!IsOpen(conn') /\ conn'.targets = conn.targets /\ conn'.online = "Online"
  BY <1>1, HeardOnline
<1>3. BackendTyped /\ AnswersOwed /\ w \in Wire /\ a \in Gathered /\ db[d] \in Versions
      /\ store[d] \in Stored
  BY DEF IInv, BackendTyped
<1>4. wire' = [wire EXCEPT ![d] = v] /\ agg' = [agg EXCEPT ![d] = b]
  <2>1. wire' = [wire EXCEPT ![d] = v]
    BY DEF TargetAdded
  <2>2. agg' = [agg EXCEPT ![d] = b]
    BY <1>3 DEF TargetAdded, BackendTyped, Gathered
  <2> QED BY <2>1, <2>2
<1>5. /\ Bounded(w, a, store[d], db[d]) /\ Resumed(w, a, store[d], d \in conn.targets)
      /\ a.out = Len(w.requests)
  BY <1>1, <1>3 DEF TokensSound, VersionsBounded, TokensResumed, AnswersOwed, Owed,
     NothingCrossed
<1> HIDE DEF w, a
<1>6. LET q == w.requests
          t == Tail(w.requests)
      IN /\ t \in Seq(Request) /\ Head(q) \in Request /\ Head(q) = q[1]
         /\ Len(q) \in Nat /\ Len(q) > 0 /\ Len(t) = Len(q) - 1
         /\ t = <<>> <=> Len(q) = 1
         /\ t # <<>> => t[Len(t)] = q[Len(q)]
         /\ \A i \in 1..Len(t) : i + 1 \in 1..Len(q) /\ t[i] = q[i + 1]
  BY <1>1, <1>3, RequestsByTail
<1>7. b.out = a.out - 1 /\ b.update = a.update
  BY <1>3 DEF Gathered
<1>8. v.requests = Tail(w.requests) /\ v.told = told
  <2> HIDE DEF told
  <2> QED BY <1>3 DEF Wire
<1>9. Known(resume, db[d]) /\ Known(told, db[d])
  <2>1. 1 \in 1..Len(w.requests)
    BY <1>6
  <2>2. Known(resume, db[d])
    BY <1>5, <1>6, <2>1 DEF Bounded
  <2>3. db[d] \in Nat
    BY <1>3 DEF Versions
  <2> QED BY <2>2, <2>3 DEF Known
<1>10. Len(w.requests) = 1 /\ d \in conn.targets => Reaches(told, store[d].resume)
  <2>1. SUFFICES ASSUME Len(w.requests) = 1, d \in conn.targets
                 PROVE  Reaches(told, store[d].resume)
    OBVIOUS
  <2>2. resume = store[d].resume
    BY <1>1, <1>5, <1>6, <2>1 DEF Resumed
  <2>3. store[d].resume \in Versions \cup {None}
    BY <1>3 DEF Stored
  <2> QED BY <2>2, <2>3, DataAssumption DEF Reaches, Versions
<1> HIDE DEF v, b, told
<1>11. Bounded(v, b, store[d], db[d])
  BY <1>5, <1>6, <1>7, <1>8, <1>9 DEF Bounded
<1>12. Resumed(v, b, store[d], d \in conn'.targets)
  <2>1. b.out = 0 => Len(w.requests) = 1
    BY <1>5, <1>6, <1>7
  <2> QED BY <1>2, <1>5, <1>6, <1>7, <1>8, <1>10, <2>1 DEF Resumed
<1> QED BY <1>1, <1>2, <1>3, <1>4, <1>11, <1>12, OneTargetTokens

\* An unwatch answered leaves the requests after it.
LEMMA RemovedKeepsTokens ==
  ASSUME IInv, TokensSound, NothingCrossed, NEW d \in Docs, TargetRemoved(d)
  PROVE  TokensSound'
<1> DEFINE w == wire[d]
           a == agg[d]
           v == [NotServed EXCEPT !.requests = Tail(w.requests), !.crossed = w.crossed]
           b == IF a.out = 1 THEN [NoTarget EXCEPT !.update = a.update]
                             ELSE [a EXCEPT !.out = a.out - 1]
<1>1. /\ W!IsOpen(conn) /\ w.requests # <<>> /\ Head(w.requests).op = "unwatch"
      /\ Heard /\ UNCHANGED <<db, store>>
  BY DEF TargetRemoved, Answers
<1>2. W!IsOpen(conn') /\ conn'.targets = conn.targets /\ conn'.online = "Online"
  BY <1>1, HeardOnline
<1>3. BackendTyped /\ AnswersOwed /\ w \in Wire /\ a \in Gathered
  BY DEF IInv, BackendTyped
<1>4. wire' = [wire EXCEPT ![d] = v] /\ agg' = [agg EXCEPT ![d] = b]
  <2>1. wire' = [wire EXCEPT ![d] = v]
    BY DEF TargetRemoved
  <2>2. agg' = [agg EXCEPT ![d] = IF agg[d].out = 1
                                    THEN [NoTarget EXCEPT !.update = agg[d].update]
                                    ELSE [agg[d] EXCEPT !.out = agg[d].out - 1]]
    BY <1>3 DEF TargetRemoved, BackendTyped, Gathered
  <2> QED BY <2>1, <2>2
<1>5. /\ Bounded(w, a, store[d], db[d]) /\ Resumed(w, a, store[d], d \in conn.targets)
      /\ Owed(w, a, d \in conn.targets) /\ ~w.crossed
  BY <1>1, <1>3 DEF TokensSound, VersionsBounded, TokensResumed, AnswersOwed, NothingCrossed
<1> HIDE DEF w, a
<1>6. LET q == w.requests
          t == Tail(w.requests)
      IN /\ t \in Seq(Request) /\ Head(q) \in Request /\ Head(q) = q[1]
         /\ Len(q) \in Nat /\ Len(q) > 0 /\ Len(t) = Len(q) - 1
         /\ t = <<>> <=> Len(q) = 1
         /\ t # <<>> => t[Len(t)] = q[Len(q)]
         /\ \A i \in 1..Len(t) : i + 1 \in 1..Len(q) /\ t[i] = q[i + 1]
  BY <1>1, <1>3, RequestsByTail
<1>7. b.update = a.update /\ (b.out = 0 => Len(w.requests) = 1)
  BY <1>3, <1>5, <1>6 DEF Gathered, NoTarget, Owed
<1>8. v.requests = Tail(w.requests) /\ v.told = None
  BY DEF NotServed
<1>9. Len(w.requests) = 1 => d \notin conn.targets
  BY <1>1, <1>5, <1>6 DEF Owed
<1> HIDE DEF v, b
<1>10. Bounded(v, b, store[d], db[d])
  BY <1>5, <1>6, <1>7, <1>8 DEF Bounded, Known
<1>11. Resumed(v, b, store[d], d \in conn'.targets)
  BY <1>2, <1>5, <1>6, <1>7, <1>8, <1>9 DEF Resumed
<1> QED BY <1>1, <1>2, <1>3, <1>4, <1>10, <1>11, OneTargetTokens

\* A refusal that crosses no unwatch ends its target, and nothing is under way.
LEMMA FailsPlainly ==
  ASSUME IInv, NEW d \in Docs, TargetFails(d), NothingCrossed'
  PROVE  /\ d \in conn.targets /\ HandleRejectedListen(d)
         /\ wire' = [wire EXCEPT ![d] = NotServed]
<1>1. wire \in [Docs -> Wire]
  BY DEF IInv, BackendTyped
<1>2. PICK left \in LeftBy(d) :
        wire' = [wire EXCEPT ![d] = [NotServed EXCEPT
          !.requests = left,
          !.crossed = wire[d].crossed \/ d \notin conn.targets \/ left # <<>>]]
  BY DEF TargetFails
<1>3. wire'[d].crossed = (wire[d].crossed \/ d \notin conn.targets \/ left # <<>>)
  BY <1>1, <1>2 DEF NotServed
<1>4. ~wire'[d].crossed
  BY DEF NothingCrossed
<1>5. wire[d].crossed \in BOOLEAN
  BY <1>1 DEF Wire
<1>6. d \in conn.targets /\ left = <<>> /\ wire[d].crossed = FALSE
  BY <1>3, <1>4, <1>5
<1> DEFINE x == wire[d].crossed \/ d \notin conn.targets \/ left # <<>>
<1>7. x = FALSE
  BY <1>6
<1>8. wire' = [wire EXCEPT ![d] = [NotServed EXCEPT !.requests = left, !.crossed = x]]
  BY <1>2
<1> HIDE DEF x
<1>9. ASSUME NEW y, y = FALSE
      PROVE  [NotServed EXCEPT !.requests = left, !.crossed = y] = NotServed
  <2> DEFINE n == NotServed
  <2>1. n.requests = left /\ n.crossed = y
    BY <1>6, <1>9 DEF NotServed
  <2>2. n = [n EXCEPT !.requests = n.requests, !.crossed = n.crossed]
    BY DEF NotServed
  <2> HIDE DEF n
  <2> QED BY <2>1, <2>2 DEF n
<1> QED BY <1>6, <1>7, <1>8, <1>9 DEF TargetFails

\* A target that failed is watched no more.
LEMMA FailsKeepsTokens ==
  ASSUME IInv, TokensSound, NEW d \in Docs, TargetFails(d), NothingCrossed'
  PROVE  TokensSound'
<1> DEFINE b == [NoTarget EXCEPT !.update = agg[d].update]
<1>1. /\ W!IsOpen(conn) /\ conn' = W!OnTargetError(conn, d) /\ UNCHANGED <<db, store>>
      /\ wire' = [wire EXCEPT ![d] = NotServed] /\ agg' = [agg EXCEPT ![d] = b]
  BY FailsPlainly DEF TargetFails, HandleRejectedListen
<1>2. ConnSound(conn) /\ BackendTyped
  BY DEF IInv
<1>3. W!IsOpen(conn') /\ conn'.targets = conn.targets \ {d} /\ conn'.online = "Online"
  BY <1>1, <1>2, TargetErrorSound, MessageOnline
<1>4. NotServed.told = None /\ NotServed.requests = <<>> /\ b.update = agg[d].update
      /\ Len(<<>>) = 0
  BY EmptySeq DEF NotServed, NoTarget
<1> HIDE DEF b
<1>5. /\ Bounded(wire[d], agg[d], store[d], db[d])
      /\ Resumed(wire[d], agg[d], store[d], d \in conn.targets)
  BY <1>1 DEF TokensSound, VersionsBounded, TokensResumed
<1>6. Bounded(NotServed, b, store[d], db[d])
  BY <1>4, <1>5 DEF Bounded, Known
<1>7. Resumed(NotServed, b, store[d], d \in conn'.targets)
  BY <1>3, <1>4, <1>5 DEF Resumed
<1> QED BY <1>1, <1>2, <1>3, <1>6, <1>7, OneTargetTokens

\* What the aggregator takes of an active target, and only of such a one.
LEMMA GatherTakes ==
  ASSUME BackendTyped, NEW d \in Docs, NEW content,
         NEW update \in Content \cup {None, Purge}, Gather(d, content, update)
  PROVE  \E b \in Gathered : /\ agg' = [agg EXCEPT ![d] = b]
                             /\ b.out = agg[d].out
                             /\ b.update = IF IsActive(d) THEN update ELSE agg[d].update
<1> DEFINE member == IF Exists(content) THEN "added"
                     ELSE IF store[d].member THEN "removed" ELSE "same"
           b == [agg[d] EXCEPT !.update = update, !.member = member]
<1>1. agg[d] \in Gathered /\ agg \in [Docs -> Gathered]
  BY DEF BackendTyped
<1>2. CASE ~IsActive(d)
  <2>1. agg' = [agg EXCEPT ![d] = agg[d]]
    BY <1>1, <1>2 DEF Gather
  <2> QED BY <1>1, <1>2, <2>1
<1>3. CASE IsActive(d)
  <2>1. agg' = [agg EXCEPT ![d] = b]
    BY <1>1, <1>3 DEF Gather, Gathered
  <2>2. member \in {"same", "added", "removed"}
    OBVIOUS
  <2> HIDE DEF member
  <2>3. b \in Gathered /\ b.out = agg[d].out /\ b.update = update
    BY <1>1, <2>2 DEF Gathered
  <2> QED BY <1>3, <2>1, <2>3
<1> QED BY <1>2, <1>3

\* The backend tells of a version of the document: more than it told so far, and
\* more than the token says, if the target is active.
LEMMA ToldKeepsTokens ==
  ASSUME IInv, TokensSound, NEW d \in Docs, W!IsOpen(conn), Heard,
         UNCHANGED <<db, store>>, NEW v \in 0..db[d],
         wire[d].told = None \/ wire[d].told < v,
         wire' = [wire EXCEPT ![d].told = v],
         NEW content, NEW update \in {At(v), Purge}, Gather(d, content, update)
  PROVE  TokensSound'
<1>1. W!IsOpen(conn') /\ conn'.targets = conn.targets /\ conn'.online = "Online"
  BY HeardOnline
<1>2. /\ BackendTyped /\ wire \in [Docs -> Wire] /\ wire[d] \in Wire
      /\ db[d] \in Versions /\ store[d] \in Stored
  BY DEF IInv, BackendTyped
<1>3. v \in Versions /\ v <= db[d] /\ v \in Nat
  BY <1>2, ReadersAssumption DEF Versions
<1>4. At(v) \in Content /\ At(v).version = v
  BY <1>3 DEF At, Content
<1>5. PICK b \in Gathered :
        /\ agg' = [agg EXCEPT ![d] = b] /\ b.out = agg[d].out
        /\ b.update = IF IsActive(d) THEN update ELSE agg[d].update
  BY <1>2, <1>4, GatherTakes
<1> DEFINE w == [wire[d] EXCEPT !.told = v]
<1>6. w.requests = wire[d].requests /\ w.told = v /\ wire' = [wire EXCEPT ![d] = w]
  BY <1>2, <1>3 DEF Wire
<1> HIDE DEF w
<1>7. /\ Bounded(wire[d], agg[d], store[d], db[d])
      /\ Resumed(wire[d], agg[d], store[d], d \in conn.targets)
  BY DEF TokensSound, VersionsBounded, TokensResumed
<1>8. update \in Content => update.version = v
  BY <1>4, DataAssumption
<1>9. Bounded(w, b, store[d], db[d])
  <2>1. b.update \in Content => b.update.version <= db[d]
    BY <1>3, <1>5, <1>7, <1>8 DEF Bounded
  <2> QED BY <1>3, <1>6, <1>7, <2>1 DEF Bounded, Known
<1>10. d \in conn.targets /\ agg[d].out = 0
         => Reaches(v, store[d].resume) /\ (store[d].resume = None \/ v > store[d].resume)
  <2>1. SUFFICES ASSUME d \in conn.targets, agg[d].out = 0
                 PROVE  store[d].resume = None \/ v > store[d].resume
    <3>1. v # None
      BY <1>3, DataAssumption
    <3>2. store[d].resume \in Versions \cup {None}
      BY <1>2 DEF Stored
    <3> QED BY <1>3, <3>1, <3>2 DEF Reaches, Versions
  <2>2. Reaches(wire[d].told, store[d].resume)
    BY <1>7, <2>1 DEF Resumed
  <2>3. store[d].resume \in Versions \cup {None} /\ wire[d].told \in Versions \cup {None}
    BY <1>2 DEF Stored, Wire
  <2> QED BY <1>3, <2>2, <2>3, ReadersAssumption DEF Reaches, Versions
<1>11. Resumed(w, b, store[d], d \in conn'.targets)
  <2>1. b.update \in Content => store[d].resume = None \/ b.update.version > store[d].resume
    BY <1>5, <1>7, <1>8, <1>10 DEF Resumed, IsActive
  <2> QED BY <1>1, <1>5, <1>6, <1>7, <1>10, <2>1 DEF Resumed
<1> QED BY <1>1, <1>2, <1>5, <1>6, <1>9, <1>11, OneTargetTokens

\* A version told in a document change.
LEMMA DocumentKeepsTokens ==
  ASSUME IInv, TokensSound, NEW d \in Docs, DocumentChanges(d)
  PROVE  TokensSound'
<1>1. PICK v \in {w \in 0..db[d] : wire[d].told = None \/ wire[d].told < w} :
        wire' = [wire EXCEPT ![d].told = v] /\ Gather(d, At(v), At(v))
  BY DEF DocumentChanges
<1> QED BY <1>1, ToldKeepsTokens DEF DocumentChanges

\* The last version, told in an existence filter.
LEMMA FilterKeepsTokens ==
  ASSUME IInv, TokensSound, NEW d \in Docs, ExistenceFilter(d)
  PROVE  TokensSound'
<1>1. wire[d] \in Wire /\ db[d] \in Versions /\ Bounded(wire[d], agg[d], store[d], db[d])
  BY DEF IInv, BackendTyped, TokensSound, VersionsBounded
<1>2. db[d] \in 0..db[d]
  BY <1>1 DEF Versions
<1>3. wire[d].told \in Nat /\ wire[d].told < db[d]
  BY <1>1 DEF ExistenceFilter, Wire, Versions, Bounded, Known
<1> QED BY <1>2, <1>3, ToldKeepsTokens DEF ExistenceFilter

\* CURRENT tells of no version.
LEMMA CurrentKeepsTokens ==
  ASSUME IInv, TokensSound, NEW d \in Docs, TargetCurrent(d)
  PROVE  TokensSound'
<1> DEFINE w == [wire[d] EXCEPT !.caughtUp = TRUE]
           b == [agg[d] EXCEPT !.current = IF IsActive(d) THEN TRUE ELSE agg[d].current]
<1>1. wire[d] \in Wire /\ agg[d] \in Gathered /\ BackendTyped
      /\ wire \in [Docs -> Wire] /\ agg \in [Docs -> Gathered]
  BY DEF IInv, BackendTyped
<1>2. w.told = wire[d].told /\ w.requests = wire[d].requests
      /\ wire' = [wire EXCEPT ![d] = w]
  BY <1>1 DEF Wire, TargetCurrent
<1>3. b.update = agg[d].update /\ b.out = agg[d].out /\ agg' = [agg EXCEPT ![d] = b]
  BY <1>1 DEF Gathered, TargetCurrent
<1> HIDE DEF w, b
<1>4. W!IsOpen(conn) /\ Heard /\ UNCHANGED <<db, store>>
  BY DEF TargetCurrent
<1>5. W!IsOpen(conn') /\ conn'.targets = conn.targets /\ conn'.online = "Online"
  BY <1>4, HeardOnline
<1>6. /\ Bounded(wire[d], agg[d], store[d], db[d])
      /\ Resumed(wire[d], agg[d], store[d], d \in conn.targets)
  BY <1>4 DEF TokensSound, VersionsBounded, TokensResumed
<1>7. Bounded(w, b, store[d], db[d])
  BY <1>2, <1>3, <1>6 DEF Bounded
<1>8. Resumed(w, b, store[d], d \in conn'.targets)
  BY <1>2, <1>3, <1>5, <1>6 DEF Resumed
<1> QED BY <1>1, <1>2, <1>3, <1>4, <1>5, <1>7, <1>8, OneTargetTokens

\* A watch is sent with the token of the store, an unwatch with none.
LEMMA SendKeepsTokens ==
  ASSUME IInv, TokensSound, NothingCrossed, NEW d \in Docs,
         NEW request \in {Watch(d), Unwatch}, SendRequest(d, request),
         UNCHANGED <<db, store>>,
         W!IsOpen(conn') <=> W!IsOpen(conn), conn'.online = conn.online \/ ~W!IsOpen(conn),
         d \in conn'.targets <=> request = Watch(d),
         \A e \in Docs \ {d} : e \in conn'.targets <=> e \in conn.targets
  PROVE  TokensSound'
<1>1. CASE W!IsOpen(conn)
  <2> DEFINE v == [wire[d] EXCEPT !.requests = Append(wire[d].requests, request)]
             b == [agg[d] EXCEPT !.out = agg[d].out + 1]
  <2>1. wire[d] \in Wire /\ agg[d] \in Gathered /\ BackendTyped /\ store[d] \in Stored
        /\ wire \in [Docs -> Wire] /\ agg \in [Docs -> Gathered]
    BY DEF IInv, BackendTyped
  <2>2. wire' = [wire EXCEPT ![d] = v] /\ agg' = [agg EXCEPT ![d] = b]
    BY <1>1, <2>1 DEF SendRequest, Wire, Gathered
  <2>3. /\ Bounded(wire[d], agg[d], store[d], db[d])
        /\ Resumed(wire[d], agg[d], store[d], d \in conn.targets)
        /\ agg[d].out \in Nat
    <3>1. agg[d].out = Len(wire[d].requests)
      BY <1>1 DEF IInv, AnswersOwed, Owed, NothingCrossed
    <3>2. agg[d].out \in Nat
      BY <2>1, <3>1, LenProperties DEF Wire
    <3> QED BY <1>1, <3>2 DEF TokensSound, VersionsBounded, TokensResumed
  <2> DEFINE q == wire[d].requests
             a == Append(wire[d].requests, request)
  <2>4. request \in Request /\ request.resume \in {None, store[d].resume}
        /\ (d \in conn'.targets => request.resume = store[d].resume)
    BY <2>1 DEF Watch, Unwatch, Request, Stored
  <2>5. q \in Seq(Request)
    BY <2>1 DEF Wire
  <2>6. /\ Len(q) \in Nat /\ Len(a) = Len(q) + 1 /\ a[Len(q) + 1] = request /\ a # <<>>
        /\ \A i \in 1..Len(q) : a[i] = q[i]
    BY <2>4, <2>5, AppendProperties, LenProperties
  <2>7. v.told = wire[d].told /\ v.requests = a
    BY <2>1 DEF Wire
  <2>8. b.update = agg[d].update /\ b.out # 0
    BY <2>1, <2>3 DEF Gathered
  <2> HIDE DEF v, b, a
  <2>9. Bounded(v, b, store[d], db[d])
    <3>1. ASSUME NEW i \in 1..Len(a)
          PROVE  Known(a[i].resume, db[d])
      <4>1. CASE i = Len(q) + 1
        BY <2>3, <2>4, <2>6, <4>1 DEF Bounded, Known
      <4>2. CASE i \in 1..Len(q)
        BY <2>3, <2>6, <4>2 DEF Bounded
      <4> QED BY <2>6, <4>1, <4>2
    <3> QED BY <2>3, <2>7, <2>8, <3>1 DEF Bounded
  <2>10. Resumed(v, b, store[d], d \in conn'.targets)
    BY <2>3, <2>4, <2>6, <2>7, <2>8 DEF Resumed
  <2>11. b.update # None => conn'.online = "Online"
    BY <1>1, <2>8 DEF TokensSound, GatheredOnline
  <2> QED BY <1>1, <2>1, <2>2, <2>9, <2>10, <2>11, OneTargetTokens
<1>2. CASE ~W!IsOpen(conn)
  <2>1. UNCHANGED <<wire, agg>>
    BY <1>2 DEF SendRequest
  <2>2. \A e \in Docs : agg[e].update = None
    BY <1>2 DEF TokensSound, GatheredOnline
  <2> QED BY <1>2, <2>1, <2>2, NothingServed DEF IInv, TokensSound
<1> QED BY <1>1, <1>2

\* A new view watches with the token of the store.
LEMMA AddKeepsTokens ==
  ASSUME IInv, TokensSound, NothingCrossed, NEW r \in Readers, AddQueryListener(r)
  PROVE  TokensSound'
<1> DEFINE d == DocOf[r]
<1>1. d \in Docs /\ ConnSound(conn) /\ UNCHANGED <<db, store>>
  BY ReadersAssumption DEF IInv, AddQueryListener
<1>2. CASE client.views[d].on
  <2>1. UNCHANGED <<conn, wire, agg>>
    BY <1>2 DEF AddQueryListener
  <2> QED BY <1>1, <2>1 DEF TokensSound, VersionsBounded, TokensResumed, GatheredOnline,
         Bounded, Resumed, Known, Reaches, W!IsOpen
<1>3. CASE ~client.views[d].on
  <2>1. conn' = W!ListenTo(conn, d) /\ SendRequest(d, Watch(d))
    BY <1>3 DEF AddQueryListener, Connect
  <2>2. /\ conn'.targets = conn.targets \cup {d} /\ (W!IsOpen(conn') <=> W!IsOpen(conn))
        /\ conn'.online = conn.online
    BY <1>1, <2>1, ListenSound, ListenKeepsOnline
  <2> HIDE DEF d
  <2> QED BY <1>1, <2>1, <2>2, SendKeepsTokens
<1> QED BY <1>2, <1>3

\* The last listener's removal withdraws the watch.
LEMMA RemoveKeepsTokens ==
  ASSUME IInv, TokensSound, NothingCrossed, NEW r \in Readers, RemoveQueryListener(r)
  PROVE  TokensSound'
<1> DEFINE d == DocOf[r]
<1>1. d \in Docs /\ ConnSound(conn) /\ UNCHANGED <<db, store>>
      /\ TableOf(client.views[d], d \in conn.targets, store[d].cache)
  BY ReadersAssumption DEF IInv, RemoveQueryListener, Tables
<1>2. CASE UNCHANGED <<conn, wire, agg>>
  BY <1>1, <1>2 DEF TokensSound, VersionsBounded, TokensResumed, GatheredOnline,
     Bounded, Resumed, Known, Reaches, W!IsOpen
<1>3. CASE /\ client.views[d].on
           /\ conn' = W!StopListeningTo(conn, d) /\ SendRequest(d, Unwatch)
  <2>1. d \in conn.targets
    BY <1>1, <1>3 DEF TableOf
  <2>2. /\ conn'.targets = conn.targets \ {d} /\ (W!IsOpen(conn') <=> W!IsOpen(conn))
        /\ W!IsOpen(conn) => conn'.online = conn.online
    BY <1>1, <1>3, <2>1, StopListeningSound, StopKeepsOnline
  <2>3. Unwatch # Watch(d)
    BY DEF Unwatch, Watch
  <2> HIDE DEF d
  <2> QED BY <1>1, <1>3, <2>2, <2>3, SendKeepsTokens
<1> QED BY <1>2, <1>3 DEF RemoveQueryListener, Connect

\* A stream that opens watches with the tokens of the store.
LEMMA CredentialsKeepTokens ==
  ASSUME IInv, TokensSound, CredentialsArrive
  PROVE  TokensSound'
<1>1. PICK current \in BOOLEAN, ok \in BOOLEAN :
        /\ IF current THEN conn.token ELSE conn.stale > 0
        /\ conn' = W!OnCredentials(conn, current, ok)
  BY DEF CredentialsArrive, W!CredentialsArrive
<1>2. /\ conn'.targets = conn.targets /\ (W!IsOpen(conn) => W!IsOpen(conn'))
      /\ W!IsOpen(conn) => conn'.online = conn.online
      /\ UNCHANGED <<db, store>>
  BY <1>1, CredentialsSound, CredentialsKeepOnline DEF IInv, CredentialsArrive
<1>3. CASE W!IsOpen(conn') /\ ~W!IsOpen(conn)
  <2> DEFINE w(d) == IF d \in conn.targets
                       THEN [NotServed EXCEPT !.requests = <<Watch(d)>>] ELSE NotServed
             a(d) == IF d \in conn.targets THEN [NoTarget EXCEPT !.out = 1] ELSE NoTarget
  <2>1. wire' = [d \in Docs |-> w(d)] /\ agg' = [d \in Docs |-> a(d)]
    BY <1>3 DEF CredentialsArrive
  <2>2. ASSUME NEW d \in Docs
        PROVE  /\ Bounded(w(d), a(d), store[d], db[d])
               /\ Resumed(w(d), a(d), store[d], d \in conn.targets)
               /\ a(d).update = None
    <3>1. Bounded(wire[d], agg[d], store[d], db[d]) /\ Watch(d).resume = store[d].resume
      BY DEF TokensSound, VersionsBounded, Watch
    <3>2. /\ <<Watch(d)>> # <<>> /\ Len(<<Watch(d)>>) = 1 /\ Len(<<>>) = 0
          /\ <<Watch(d)>>[1] = Watch(d)
      BY EmptySeq
    <3> HIDE DEF Watch
    <3>3. CASE d \in conn.targets
      <4>1. /\ w(d).requests = <<Watch(d)>> /\ w(d).told = None
            /\ a(d).out = 1 /\ a(d).update = None
        BY <3>3 DEF NotServed, NoTarget
      <4> HIDE DEF w, a
      <4> QED BY <3>1, <3>2, <4>1, DataAssumption DEF Bounded, Resumed, Known
    <3>4. CASE d \notin conn.targets
      <4>1. w(d).requests = <<>> /\ w(d).told = None /\ a(d).update = None
        BY <3>4 DEF NotServed, NoTarget
      <4> HIDE DEF w, a
      <4> QED BY <3>1, <3>2, <3>4, <4>1, DataAssumption DEF Bounded, Resumed, Known
    <3> QED BY <3>3, <3>4
  <2> HIDE DEF w, a
  <2>3. \A d \in Docs : wire'[d] = w(d) /\ agg'[d] = a(d)
    BY <2>1
  <2>4. VersionsBounded'
    BY <1>2, <2>2, <2>3 DEF VersionsBounded, Bounded, Known
  <2>5. TokensResumed'
    BY <1>2, <2>2, <2>3 DEF TokensResumed, Resumed, Reaches
  <2>6. GatheredOnline'
    BY <2>2, <2>3 DEF GatheredOnline
  <2> QED BY <2>4, <2>5, <2>6 DEF TokensSound
<1>4. CASE ~(W!IsOpen(conn') /\ ~W!IsOpen(conn))
  <2>1. UNCHANGED <<wire, agg>>
    BY <1>4 DEF CredentialsArrive
  <2>2. CASE W!IsOpen(conn)
    BY <1>2, <2>1, <2>2 DEF TokensSound, VersionsBounded, TokensResumed, GatheredOnline,
       Bounded, Resumed, Known, Reaches, W!IsOpen
  <2>3. CASE ~W!IsOpen(conn)
    <3>1. ~W!IsOpen(conn') /\ \A d \in Docs : agg[d].update = None
      BY <1>4, <2>3 DEF TokensSound, GatheredOnline
    <3> QED BY <1>2, <2>1, <3>1, NothingServed DEF IInv, TokensSound
  <2> QED BY <2>2, <2>3
<1> QED BY <1>3, <1>4

\* What a snapshot applies to the store: an active target is served and owes
\* nothing, so that what it was told is a version, and what it was resumed from.
LEMMA AppliedActive ==
  ASSUME IInv, TokensSound, NothingCrossed, W!IsOpen(conn), NEW d \in Docs, IsActive(d),
         wire[d].on => wire[d].told # None
  PROVE  /\ wire[d].on /\ wire[d].told \in Versions /\ wire[d].told \in Nat
         /\ wire[d].requests = <<>> /\ Reaches(wire[d].told, store[d].resume)
         /\ wire[d].told <= db[d]
<1>1. wire[d] \in Wire /\ db[d] \in Versions
  BY DEF IInv, BackendTyped
<1>2. d \in conn.targets /\ Owed(wire[d], agg[d], d \in conn.targets) /\ agg[d].out = 0
      /\ ~wire[d].crossed
  BY DEF IsActive, IInv, AnswersOwed, NothingCrossed
<1>3. wire[d].requests = <<>>
  BY <1>1, <1>2, EmptySeq DEF Owed, Wire
<1>4. wire[d].on /\ wire[d].told \in Versions /\ wire[d].told # None
  BY <1>1, <1>2, <1>3 DEF Owed, Wire
<1>5. /\ Bounded(wire[d], agg[d], store[d], db[d])
      /\ Resumed(wire[d], agg[d], store[d], d \in conn.targets)
  BY DEF TokensSound, VersionsBounded, TokensResumed
<1> QED BY <1>2, <1>3, <1>4, <1>5 DEF Bounded, Resumed, Known, Versions

\* The cases of what a snapshot makes of the document in the cache.
LEMMA AppliedCache ==
  ASSUME IInv, TokensSound, NothingCrossed, W!IsOpen(conn), NEW d \in Docs,
         wire[d].on => wire[d].told # None
  PROVE  /\ Applied(d) \in Stored
         /\ Applied(d).resume = IF IsActive(d) THEN wire[d].told ELSE store[d].resume
         /\ \/ Applied(d).cache = store[d].cache
            \/ Applied(d).cache = None /\ agg[d].update = Purge
            \/ /\ Applied(d).cache \in Content /\ Applied(d).cache # None
               /\ Applied(d).cache.version <= db[d]
               /\ store[d].cache # None
                    => Applied(d).cache.version > store[d].cache.version
               /\ Reaches(Applied(d).cache.version, store[d].resume)
         /\ agg[d].update = Purge => Applied(d).cache = None
<1> DEFINE update == Updated(d)
<1>1. /\ wire[d] \in Wire /\ agg[d] \in Gathered /\ store[d] \in Stored /\ db[d] \in Versions
      /\ store[d].cache \in Content \cup {None} /\ store[d].resume \in Versions \cup {None}
  BY DEF IInv, BackendTyped, Stored
<1>2. Applied(d) \in Stored
  BY AppliedStored DEF IInv
<1>3. Applied(d).resume = IF IsActive(d) THEN wire[d].told ELSE store[d].resume
  BY AppliedActive DEF Applied
<1>4. Applied(d).cache = IF update = Purge THEN None
                         ELSE IF update # None /\ (store[d].cache = None
                                                   \/ update.version > store[d].cache.version)
                           THEN update ELSE store[d].cache
  BY DEF Applied
<1>5. /\ Bounded(wire[d], agg[d], store[d], db[d])
      /\ Resumed(wire[d], agg[d], store[d], d \in conn.targets)
  BY DEF TokensSound, VersionsBounded, TokensResumed
<1>6. CASE Synthesized(d)
  <2>1. /\ wire[d].on /\ wire[d].told \in Versions /\ wire[d].told \in Nat
        /\ Reaches(wire[d].told, store[d].resume) /\ wire[d].told <= db[d]
    BY <1>6, AppliedActive DEF Synthesized
  <2>2. update = [version |-> wire[d].told, exists |-> FALSE] /\ agg[d].update = None
    BY <1>6, <2>1 DEF Updated, Synthesized
  <2>3. update \in Content /\ update # None /\ update # Purge /\ update.version = wire[d].told
    <3> DEFINE absent == [version |-> wire[d].told, exists |-> FALSE]
    <3>1. absent \in Content /\ absent.version = wire[d].told
      BY <2>1 DEF Content
    <3> HIDE DEF absent
    <3>2. absent # None /\ absent # Purge
      BY <3>1, DataAssumption
    <3> QED BY <2>2, <3>1, <3>2 DEF absent
  <2> HIDE DEF update
  <2> QED BY <1>2, <1>3, <1>4, <2>1, <2>2, <2>3, DataAssumption
<1>7. CASE ~Synthesized(d)
  <2>1. update = agg[d].update
    BY <1>7 DEF Updated
  <2>2. agg[d].update \in Content \cup {None, Purge}
    BY <1>1 DEF Gathered
  <2> HIDE DEF update
  <2>3. CASE update = Purge
    BY <1>2, <1>3, <1>4, <2>1, <2>3
  <2>4. CASE update = None
    BY <1>2, <1>3, <1>4, <2>1, <2>4, DataAssumption
  <2>5. CASE update \in Content
    <3>1. /\ update.version \in Versions /\ update # None /\ update # Purge
          /\ update.version # None /\ update.version \in Nat
      BY <2>5, DataAssumption DEF Content, Versions
    <3>2. update.version <= db[d]
      BY <1>5, <2>1, <2>5 DEF Bounded
    <3>3. Reaches(update.version, store[d].resume)
      BY <1>1, <1>5, <2>1, <2>5, <3>1, ReadersAssumption DEF Resumed, Reaches, Versions
    <3> QED BY <1>2, <1>3, <1>4, <2>1, <2>5, <3>1, <3>2, <3>3
  <2> QED BY <2>1, <2>2, <2>3, <2>4, <2>5
<1> QED BY <1>6, <1>7

\* After a snapshot the tokens are those the backend has told of.
LEMMA SnapshotKeepsTokens ==
  ASSUME IInv, TokensSound, NothingCrossed, Snapshot
  PROVE  TokensSound'
<1>1. /\ W!IsOpen(conn) /\ conn' = W!OnMessage(conn)
      /\ \A d \in Docs : wire[d].on => wire[d].told # None
      /\ store' = [d \in Docs |-> Applied(d)]
      /\ agg' = [d \in Docs |-> [agg[d] EXCEPT !.update = None,
                                               !.member = IF IsActive(d) THEN "same" ELSE @]]
      /\ UNCHANGED <<db, wire>>
  BY DEF Snapshot
<1>2. W!IsOpen(conn') /\ conn'.targets = conn.targets /\ conn'.online = "Online"
  BY <1>1, MessageSound, MessageOnline DEF IInv
<1>3. \A d \in Docs : agg'[d].update = None /\ agg'[d].out = agg[d].out
  <2>1. \A d \in Docs : agg[d] \in Gathered
    BY DEF IInv, BackendTyped
  <2> QED BY <1>1, <2>1 DEF Gathered
<1>4. \A d \in Docs : store'[d] = Applied(d)
  BY <1>1
<1>5. ASSUME NEW d \in Docs
      PROVE  /\ Bounded(wire[d], agg'[d], store'[d], db[d])
             /\ Resumed(wire[d], agg'[d], store'[d], d \in conn.targets)
  <2>1. /\ Bounded(wire[d], agg[d], store[d], db[d])
        /\ Resumed(wire[d], agg[d], store[d], d \in conn.targets)
    BY <1>1 DEF TokensSound, VersionsBounded, TokensResumed
  <2>2. /\ Applied(d).resume = IF IsActive(d) THEN wire[d].told ELSE store[d].resume
        /\ \/ Applied(d).cache = store[d].cache
           \/ Applied(d).cache = None
           \/ Applied(d).cache.version <= db[d]
    BY <1>1, AppliedCache
  <2>3. Bounded(wire[d], agg'[d], store'[d], db[d])
    BY <1>3, <1>4, <2>1, <2>2, DataAssumption DEF Bounded
  <2>4. Resumed(wire[d], agg'[d], store'[d], d \in conn.targets)
    <3>1. CASE IsActive(d)
      <4>1. wire[d].told \in Nat /\ wire[d].requests = <<>> /\ store'[d].resume = wire[d].told
        BY <1>1, <1>4, <2>2, <3>1, AppliedActive
      <4>2. wire[d].told # None
        BY <1>1, <3>1, AppliedActive, DataAssumption
      <4> QED BY <1>3, <4>1, <4>2, DataAssumption DEF Resumed, Reaches
    <3>2. CASE ~IsActive(d)
      <4>1. store'[d].resume = store[d].resume /\ ~(d \in conn.targets /\ agg[d].out = 0)
        BY <1>4, <2>2, <3>2 DEF IsActive
      <4> QED BY <1>3, <2>1, <4>1, DataAssumption DEF Resumed
    <3> QED BY <3>1, <3>2
  <2> QED BY <2>3, <2>4
<1>6. VersionsBounded'
  BY <1>1, <1>5 DEF VersionsBounded, Bounded, Known
<1>7. TokensResumed'
  BY <1>1, <1>2, <1>5 DEF TokensResumed, Resumed, Reaches
<1>8. GatheredOnline'
  BY <1>3 DEF GatheredOnline
<1> QED BY <1>6, <1>7, <1>8 DEF TokensSound

\* A write makes the document newer.
LEMMA WriteKeepsTokens ==
  ASSUME IInv, TokensSound, NEW d \in Docs, Write(d)
  PROVE  TokensSound'
<1>1. db \in [Docs -> Versions] /\ db' = [db EXCEPT ![d] = @ + 1]
      /\ UNCHANGED <<conn, wire, agg, store>>
  BY DEF IInv, BackendTyped, Write
<1>2. ASSUME NEW e \in Docs
      PROVE  Bounded(wire[e], agg[e], store[e], db'[e])
  <2>1. Bounded(wire[e], agg[e], store[e], db[e])
    BY DEF TokensSound, VersionsBounded
  <2>2. db[e] \in Nat /\ db'[e] \in Nat /\ db[e] <= db'[e]
    BY <1>1 DEF Versions
  <2>3. \A v \in Versions \cup {None} : Known(v, db[e]) => Known(v, db'[e])
    BY <2>2 DEF Known, Versions
  <2>4. wire[e] \in Wire /\ store[e] \in Stored /\ agg[e] \in Gathered
    BY DEF IInv, BackendTyped
  <2>5. \A i \in 1..Len(wire[e].requests) : wire[e].requests[i].resume \in Versions \cup {None}
    <3>1. wire[e].requests \in Seq(Request)
      BY <2>4 DEF Wire
    <3>2. \A i \in 1..Len(wire[e].requests) : wire[e].requests[i] \in Request
      BY <3>1, ElementOfSeq
    <3> QED BY <3>2 DEF Request
  <2>6. \A content \in Content : content.version \in Versions
    BY DEF Content
  <2>7. store[e].cache # None => store[e].cache.version <= db'[e]
    BY <2>1, <2>2, <2>4, <2>6 DEF Bounded, Stored, Versions
  <2>8. agg[e].update \in Content => agg[e].update.version <= db'[e]
    BY <2>1, <2>2, <2>6 DEF Bounded, Versions
  <2>9. Known(wire[e].told, db'[e]) /\ Known(store[e].resume, db'[e])
    BY <2>1, <2>3, <2>4 DEF Bounded, Wire, Stored
  <2> QED BY <2>1, <2>3, <2>5, <2>7, <2>8, <2>9 DEF Bounded
<1>3. VersionsBounded'
  BY <1>1, <1>2 DEF VersionsBounded, Bounded, Known
<1>4. TokensResumed' /\ GatheredOnline'
  BY <1>1 DEF TokensSound, TokensResumed, GatheredOnline, Resumed, Reaches, W!IsOpen
<1> QED BY <1>3, <1>4 DEF TokensSound

\* Every step keeps what is said of versions and tokens, while no refusal crosses
\* an unwatch.
LEMMA NextKeepsTokens ==
  ASSUME IInv, TokensSound, NothingCrossed, NothingCrossed', [Next]_vars
  PROVE  TokensSound'
<1>1. ASSUME UNCHANGED <<db, conn, wire, agg, store>>
      PROVE  TokensSound'
  BY <1>1 DEF TokensSound, VersionsBounded, TokensResumed, GatheredOnline,
     Bounded, Resumed, Known, Reaches, W!IsOpen
<1>2. ASSUME NEW r \in Readers, Call(r) \/ Deliver(r) \/ Worker(r)
      PROVE  TokensSound'
  BY <1>1, <1>2, AddKeepsTokens, RemoveKeepsTokens DEF Call, Deliver, Worker
<1>3. ASSUME NEW d \in Docs, Message(d) \/ Write(d)
      PROVE  TokensSound'
  BY <1>3, AddedKeepsTokens, RemovedKeepsTokens, FailsKeepsTokens, DocumentKeepsTokens,
     FilterKeepsTokens, CurrentKeepsTokens, WriteKeepsTokens DEF Message
<1>4. VersionsBounded /\ ConnSound(conn) /\ BackendTyped
  BY DEF IInv, TokensSound
<1>5. CASE BackoffElapses
  <2>1. ~W!IsOpen(conn') /\ ~W!IsOpen(conn)
    BY <1>4, <1>5, BackoffSound DEF BackoffElapses, Connect
  <2>2. \A d \in Docs : agg[d].update = None
    BY <2>1 DEF TokensSound, GatheredOnline
  <2> QED BY <1>4, <1>5, <2>1, <2>2, NothingServed DEF BackoffElapses
<1>6. CASE TimerFires
  <2>1. conn' = W!OnlineStateTimeout(conn) /\ conn.timer /\ UNCHANGED <<db, wire, agg, store>>
    BY <1>6 DEF TimerFires, Connect
  <2>2. (W!IsOpen(conn') <=> W!IsOpen(conn)) /\ conn'.targets = conn.targets
    BY <1>4, <2>1, TimeoutSound
  <2>3. conn.online # "Online"
    BY <1>4, <2>1 DEF ConnSound, WP!Sound, WP!OnlineFollowsStream
  <2>4. \A d \in Docs : agg[d].update = None
    BY <2>3 DEF TokensSound, GatheredOnline
  <2> QED BY <2>1, <2>2, <2>4 DEF TokensSound, VersionsBounded, TokensResumed,
         GatheredOnline, Bounded, Resumed, Known, Reaches
<1>7. CASE StreamIdle \/ StreamBreaks \/ NetworkRestarts
  <2>1. ~W!IsOpen(conn')
    BY <1>4, <1>7, IdleSound, BreakSound, RestartSound
       DEF StreamIdle, StreamBreaks, NetworkRestarts, Connect, W!NetworkRestarts
  <2>2. Disconnect /\ UNCHANGED <<db, store>>
    BY <1>7 DEF StreamIdle, StreamBreaks, NetworkRestarts
  <2> QED BY <1>4, <2>1, <2>2, NothingServed
<1>8. CASE Snapshot \/ CredentialsArrive
  BY <1>8, SnapshotKeepsTokens, CredentialsKeepTokens
<1>9. CASE UNCHANGED vars
  BY <1>1, <1>9 DEF vars
<1> QED BY <1>2, <1>3, <1>5, <1>6, <1>7, <1>8, <1>9 DEF Next

-----------------------------------------------------------------------------
(* Who is given what.                                                      *)

\* From k to n, Informed: views may lose their sync state, a reader that is given
\* a snapshot is raised from then on, and no one else is.  The first snapshot of
\* a get is from the cache only if the client is offline.
News(k, n) ==
  /\ Informed(k, n)
  /\ \A d \in Docs : n.views[d].synced => k.views[d].synced
  /\ k.raised \subseteq n.raised
  /\ \A r \in Readers :
       \/ n.inbox[r] = k.inbox[r] /\ (r \in n.raised => r \in k.raised)
       \/ /\ r \in n.raised /\ r \in k.views[DocOf[r]].listeners
          /\ n.inbox[r] = Append(k.inbox[r], SnapshotOf(k, r, ~n.views[DocOf[r]].synced))
          /\ r \in Gets \ k.raised => n.views[DocOf[r]].synced \/ n.online = "Offline"

\* What the listeners of views that changed or came in sync are given.
LEMMA SnapshotsNews ==
  ASSUME NEW k \in Clients, OwnListeners(k),
         NEW changed \in SUBSET Docs, NEW resynced \in SUBSET Docs
  PROVE  LET n == OnViewSnapshots(k, changed, resynced)
         IN /\ News(k, n) /\ n.views = k.views /\ n.online = k.online
            /\ \A d \in changed \cup resynced : \A r \in k.views[d].listeners :
                 /\ k.views[d].synced => r \in n.raised
                 /\ d \in changed /\ r \in k.raised
                      => n.inbox[r] = Append(k.inbox[r], SnapshotOf(k, r, ~k.views[d].synced))
            /\ \A r \in n.raised \ k.raised : ShouldRaiseInitialEvent(k, r)
<1> DEFINE S == {r \in ListenersOf(k, changed \cup resynced) :
                   IF r \notin k.raised
                     THEN ShouldRaiseInitialEvent(k, r)
                     ELSE DocOf[r] \in changed \/ r \in Gets}
           n == Raise(k, S)
<1>1. OnViewSnapshots(k, changed, resynced) = n
  BY DEF OnViewSnapshots
<1>2. \A d \in Docs : k.views[d].listeners \in SUBSET Readers
  BY DEF Clients, View
<1>3. \A r \in S : /\ r \in Readers /\ r \in k.views[DocOf[r]].listeners
                   /\ r \notin k.raised => ShouldRaiseInitialEvent(k, r)
  <2>1. TAKE r \in S
  <2>2. PICK d \in changed \cup resynced : r \in k.views[d].listeners
    BY DEF ListenersOf
  <2> QED BY <1>2, <2>2 DEF OwnListeners
<1>4. ASSUME NEW d \in changed \cup resynced, NEW r \in k.views[d].listeners
      PROVE  /\ k.views[d].synced => r \in S \/ r \in k.raised
             /\ d \in changed /\ r \in k.raised => r \in S
  <2>1. DocOf[r] = d /\ r \in ListenersOf(k, changed \cup resynced)
    BY DEF ListenersOf, OwnListeners
  <2> QED BY <2>1 DEF ShouldRaiseInitialEvent
<1> HIDE DEF S
<1>5. S \in SUBSET Readers
  BY <1>3
<1>6. /\ n \in Clients /\ n.views = k.views /\ n.online = k.online
      /\ n.raised = k.raised \cup S
      /\ \A r \in Readers \ S : n.inbox[r] = k.inbox[r]
      /\ \A r \in S :
           n.inbox[r] = Append(k.inbox[r], SnapshotOf(k, r, ~k.views[DocOf[r]].synced))
  BY <1>5, RaiseGives
<1>7. Informed(k, n)
  BY <1>1, SnapshotsHeard
<1> HIDE DEF n
<1>8. ASSUME NEW r \in S
      PROVE  /\ n.inbox[r] = Append(k.inbox[r], SnapshotOf(k, r, ~n.views[DocOf[r]].synced))
             /\ r \in Gets \ k.raised => n.views[DocOf[r]].synced \/ n.online = "Offline"
  <2>1. r \in Gets \ k.raised /\ ~k.views[DocOf[r]].synced => k.online = "Offline"
    BY <1>3 DEF ShouldRaiseInitialEvent
  <2> QED BY <1>6, <2>1
<1>9. News(k, n)
  BY <1>3, <1>6, <1>7, <1>8 DEF News
<1>10. \A d \in changed \cup resynced : \A r \in k.views[d].listeners :
         /\ k.views[d].synced => r \in n.raised
         /\ d \in changed /\ r \in k.raised
              => n.inbox[r] = Append(k.inbox[r], SnapshotOf(k, r, ~k.views[d].synced))
  <2>1. TAKE d \in changed \cup resynced
  <2>2. TAKE r \in k.views[d].listeners
  <2>3. DocOf[r] = d
    BY DEF OwnListeners
  <2> QED BY <1>4, <1>6, <1>8, <2>3
<1>11. \A r \in n.raised \ k.raised : ShouldRaiseInitialEvent(k, r)
  BY <1>3, <1>6
<1> QED BY <1>1, <1>6, <1>9, <1>10, <1>11

\* The listeners of other views are given nothing.
LEMMA SnapshotsElsewhere ==
  ASSUME NEW k \in Clients, OwnListeners(k),
         NEW changed \in SUBSET Docs, NEW resynced \in SUBSET Docs
  PROVE  LET n == OnViewSnapshots(k, changed, resynced)
         IN \A r \in Readers : DocOf[r] \notin changed \cup resynced
              => n.inbox[r] = k.inbox[r] /\ (r \in n.raised => r \in k.raised)
<1> DEFINE S == {r \in ListenersOf(k, changed \cup resynced) :
                   IF r \notin k.raised
                     THEN ShouldRaiseInitialEvent(k, r)
                     ELSE DocOf[r] \in changed \/ r \in Gets}
           n == Raise(k, S)
<1>1. OnViewSnapshots(k, changed, resynced) = n
  BY DEF OnViewSnapshots
<1>2. \A r \in S : r \in Readers /\ DocOf[r] \in changed \cup resynced
  <2>1. TAKE r \in S
  <2>2. PICK d \in changed \cup resynced : r \in k.views[d].listeners
    BY DEF ListenersOf
  <2>3. k.views[d].listeners \in SUBSET Readers
    BY DEF Clients, View
  <2> QED BY <2>2, <2>3 DEF OwnListeners
<1> HIDE DEF S
<1>3. S \in SUBSET Readers
  BY <1>2
<1>4. /\ n.raised = k.raised \cup S
      /\ \A r \in Readers \ S : n.inbox[r] = k.inbox[r]
  BY <1>3, RaiseGives
<1> QED BY <1>1, <1>2, <1>4

\* What a change of the online state tells: only the loss of the connection makes
\* a get be answered from the cache.
LEMMA OnlineNews ==
  ASSUME NEW k \in Clients, OwnListeners(k), NEW online \in W!OnlineStates
  PROVE  LET n == HandleOnlineStateChange(k, online)
         IN /\ News(k, n) /\ n.online = online
            /\ online = k.online => n = k
            /\ online # "Offline" => \A d \in Docs : n.views[d].synced = k.views[d].synced
<1>1. CASE online = k.online
  <2>1. HandleOnlineStateChange(k, online) = k
    BY <1>1 DEF HandleOnlineStateChange
  <2> QED BY <1>1, <2>1 DEF News, Informed
<1>2. CASE online # k.online
  <2> DEFINE lost == {d \in Docs : k.views[d].synced /\ online = "Offline"}
             views == [d \in Docs |-> IF d \in lost
                         THEN [k.views[d] EXCEPT !.synced = FALSE] ELSE k.views[d]]
             dropped == [k EXCEPT !.views = views]
             given == OnViewSnapshots(dropped, {}, lost)
             heard == [given EXCEPT !.online = online]
             S == {r \in ListenersOf(heard, Docs) \ heard.raised :
                     ShouldRaiseInitialEvent(heard, r)}
             n == Raise(heard, S)
  <2>1. HandleOnlineStateChange(k, online) = n
    BY <1>2 DEF HandleOnlineStateChange
  <2>2. Informed(k, n) /\ n.online = online
    BY <2>1, OnlineStateHeard
  <2>3. \A d \in Docs : /\ views[d] \in View
                        /\ views[d].listeners = k.views[d].listeners
                        /\ views[d].content = k.views[d].content
                        /\ views[d].synced => k.views[d].synced
                        /\ online # "Offline" => views[d].synced = k.views[d].synced
    <3>1. TAKE d \in Docs
    <3>2. k.views[d] \in View
      BY DEF Clients
    <3> QED BY <3>2 DEF View
  <2>4. views \in [Docs -> View]
    BY <2>3
  <2> HIDE DEF views
  <2>5. /\ dropped \in Clients /\ dropped.views = views /\ dropped.inbox = k.inbox
        /\ dropped.raised = k.raised
    BY <2>4 DEF Clients
  <2> HIDE DEF dropped
  <2>6. OwnListeners(dropped)
    BY <2>3, <2>5 DEF OwnListeners
  <2>7. lost \in SUBSET Docs /\ {} \in SUBSET Docs /\ (online # "Offline" => lost = {})
    OBVIOUS
  <2> HIDE DEF lost
  <2>8. News(dropped, given) /\ given.views = dropped.views
    BY <2>5, <2>6, <2>7, SnapshotsNews
  <2>9. online # "Offline" => /\ given.raised = dropped.raised
                              /\ given.inbox = dropped.inbox
    <3>1. SUFFICES ASSUME lost = {}
                   PROVE  given.raised = dropped.raised /\ given.inbox = dropped.inbox
      BY <2>7
    <3>2. given = Raise(dropped, {})
      BY <3>1 DEF OnViewSnapshots, ListenersOf
    <3> DEFINE inbox == [r \in Readers |-> dropped.inbox[r]]
    <3>3. Raise(dropped, {}) = [dropped EXCEPT !.raised = dropped.raised \cup {},
                                               !.inbox = inbox]
      BY DEF Raise
    <3>4. inbox = dropped.inbox
      BY <2>5 DEF Clients
    <3> HIDE DEF inbox, given
    <3> QED BY <2>5, <3>2, <3>3, <3>4 DEF Clients
  <2> HIDE DEF given
  <2>10. /\ heard \in Clients /\ heard.views = views /\ heard.online = online
         /\ heard.inbox = given.inbox /\ heard.raised = given.raised
    BY <2>5, <2>8 DEF News, Informed, Clients
  <2> HIDE DEF heard
  <2>11. \A r \in S : /\ r \in Readers /\ r \notin given.raised
                      /\ r \in k.views[DocOf[r]].listeners
                      /\ ShouldRaiseInitialEvent(heard, r)
    <3>1. TAKE r \in S
    <3>2. PICK d \in Docs : r \in heard.views[d].listeners
      BY DEF ListenersOf
    <3> QED BY <2>3, <2>10, <3>2 DEF OwnListeners, View
  <2> HIDE DEF S
  <2>12. /\ n \in Clients /\ n.views = heard.views /\ n.raised = heard.raised \cup S
         /\ \A r \in Readers \ S : n.inbox[r] = heard.inbox[r]
         /\ \A r \in S :
              n.inbox[r] = Append(heard.inbox[r],
                                  SnapshotOf(heard, r, ~heard.views[DocOf[r]].synced))
    <3>1. S \in SUBSET Readers
      BY <2>11
    <3> QED BY <2>10, <3>1, RaiseGives
  <2> HIDE DEF n
  <2>13. ASSUME NEW r \in Readers
         PROVE  \A cached : /\ SnapshotOf(heard, r, cached) = SnapshotOf(k, r, cached)
                            /\ SnapshotOf(dropped, r, cached) = SnapshotOf(k, r, cached)
    BY <2>3, <2>5, <2>10, ReadersAssumption DEF SnapshotOf
  <2>14. ASSUME NEW r \in S
         PROVE  /\ r \in n.raised /\ r \in k.views[DocOf[r]].listeners
                /\ n.inbox[r] = Append(k.inbox[r],
                                       SnapshotOf(k, r, ~n.views[DocOf[r]].synced))
                /\ r \in Gets \ k.raised
                     => n.views[DocOf[r]].synced \/ n.online = "Offline"
    <3>1. heard.inbox[r] = k.inbox[r]
      BY <2>5, <2>8, <2>10, <2>11 DEF News
    <3>2. SnapshotOf(heard, r, ~heard.views[DocOf[r]].synced)
            = SnapshotOf(k, r, ~heard.views[DocOf[r]].synced)
      BY <2>11, <2>13
    <3>3. r \in Gets /\ ~heard.views[DocOf[r]].synced => heard.online = "Offline"
      BY <2>11 DEF ShouldRaiseInitialEvent
    <3> QED BY <2>2, <2>10, <2>11, <2>12, <3>1, <3>2, <3>3
  <2>15. ASSUME NEW r \in Readers \ S
         PROVE  \/ n.inbox[r] = k.inbox[r] /\ (r \in n.raised => r \in k.raised)
                \/ /\ r \in n.raised /\ r \in k.views[DocOf[r]].listeners
                   /\ n.inbox[r] = Append(k.inbox[r],
                                          SnapshotOf(k, r, ~n.views[DocOf[r]].synced))
                   /\ r \in Gets \ k.raised
                        => n.views[DocOf[r]].synced \/ n.online = "Offline"
    <3>1. /\ n.inbox[r] = given.inbox[r] /\ dropped.inbox[r] = k.inbox[r]
          /\ r \in n.raised <=> r \in given.raised
      BY <2>5, <2>10, <2>12
    <3>2. dropped.views[DocOf[r]].listeners = k.views[DocOf[r]].listeners
      BY <2>3, <2>5, ReadersAssumption
    <3>3. CASE online = "Offline"
      BY <2>2, <2>5, <2>8, <2>10, <2>12, <2>13, <3>1, <3>2, <3>3 DEF News
    <3>4. CASE online # "Offline"
      BY <2>5, <2>9, <3>1, <3>4
    <3> QED BY <3>3, <3>4
  <2>16. \A r \in Readers :
           \/ n.inbox[r] = k.inbox[r] /\ (r \in n.raised => r \in k.raised)
           \/ /\ r \in n.raised /\ r \in k.views[DocOf[r]].listeners
              /\ n.inbox[r] = Append(k.inbox[r],
                                     SnapshotOf(k, r, ~n.views[DocOf[r]].synced))
              /\ r \in Gets \ k.raised
                   => n.views[DocOf[r]].synced \/ n.online = "Offline"
    BY <2>14, <2>15
  <2>17. k.raised \subseteq n.raised
    BY <2>5, <2>8, <2>10, <2>12 DEF News
  <2>18. \A d \in Docs : /\ n.views[d].synced => k.views[d].synced
                         /\ online # "Offline" => n.views[d].synced = k.views[d].synced
    BY <2>3, <2>10, <2>12
  <2>19. News(k, n)
    BY <2>2, <2>16, <2>17, <2>18 DEF News
  <2> QED BY <1>2, <2>1, <2>2, <2>18, <2>19
<1> QED BY <1>1, <1>2

\* Only a view there is can be in sync, and all its listeners have been given a
\* snapshot then.
SyncedRaised(k) ==
  \A d \in Docs :
    k.views[d].synced => k.views[d].on /\ k.views[d].listeners \subseteq k.raised

\* A listener that joins a view is given the snapshot there is.
LEMMA JoinNews ==
  ASSUME NEW k \in Clients, NEW r \in Readers, r \in k.views[DocOf[r]].listeners,
         ShouldRaiseInitialEvent(k, r)
  PROVE  LET n == Raise(k, {r})
         IN /\ News(k, n) /\ n.views = k.views /\ n.online = k.online
            /\ n.raised = k.raised \cup {r}
            /\ \A q \in Readers \ {r} : n.inbox[q] = k.inbox[q]
<1> DEFINE n == Raise(k, {r})
<1>1. /\ n \in Clients /\ n.views = k.views /\ n.online = k.online
      /\ n.raised = k.raised \cup {r}
      /\ \A q \in Readers \ {r} : n.inbox[q] = k.inbox[q]
      /\ n.inbox[r] = Append(k.inbox[r], SnapshotOf(k, r, ~k.views[DocOf[r]].synced))
  <2>1. {r} \in SUBSET Readers
    OBVIOUS
  <2> QED BY <2>1, RaiseGives
<1> HIDE DEF n
<1>2. \E cached \in BOOLEAN : n.inbox[r] = Append(k.inbox[r], SnapshotOf(k, r, cached))
  BY <1>1
<1>3. Informed(k, n)
  BY <1>1, <1>2 DEF Informed
<1>4. r \in Gets => n.views[DocOf[r]].synced \/ n.online = "Offline"
  BY <1>1 DEF ShouldRaiseInitialEvent
<1>5. News(k, n)
  BY <1>1, <1>3, <1>4 DEF News
<1> QED BY <1>1, <1>5 DEF n

\* Listening: one more listener of its view, which shows the store, and it alone
\* may be given a first snapshot.
Listening(r, k) ==
  LET d == DocOf[r]
  IN /\ k \in Clients /\ OwnListeners(k)
     /\ k.inbox = client.inbox /\ k.online = client.online /\ k.raised = client.raised
     /\ k.views[d].listeners = client.views[d].listeners \cup {r}
     /\ k.views[d].synced = client.views[d].synced
     /\ k.views[d].on = TRUE /\ k.views[d].content = store[d].cache
     /\ \A e \in Docs \ {d} : k.views[e] = client.views[e]

\* The task that adds a listener is one of Listening, and of what the connection
\* that it may start makes of the online state.
LEMMA AddListens ==
  ASSUME IInv, SyncedRaised(client), NEW r \in Readers, AddQueryListener(r)
  PROVE  /\ work # <<>> /\ Head(work) = [op |-> "add", reader |-> r] /\ work' = Tail(work)
         /\ UNCHANGED <<db, store, muted, reads>>
         /\ conn'.online = conn.online
         /\ \E k : /\ Listening(r, k)
                   /\ News(k, client') /\ client'.views = k.views
                   /\ client'.online = k.online
                   /\ \A q \in Readers \ {r} : client'.inbox[q] = client.inbox[q]
                   /\ client'.raised \subseteq client.raised \cup {r}
                   /\ r \in client'.raised \ client.raised => ShouldRaiseInitialEvent(k, r)
                   /\ k.views[DocOf[r]].synced => r \in client'.raised
<1> DEFINE d == DocOf[r]
           view == client.views[d]
           joined == [view EXCEPT !.listeners = view.listeners \cup {r}]
           opened == [joined EXCEPT !.on = TRUE, !.content = store[d].cache]
           added == [client EXCEPT !.views = [client.views EXCEPT ![d] = joined]]
           viewed == [client EXCEPT !.views = [client.views EXCEPT ![d] = opened]]
<1>1. /\ work # <<>> /\ Head(work) = [op |-> "add", reader |-> r] /\ work' = Tail(work)
      /\ UNCHANGED <<db, store, muted, reads>>
  BY DEF AddQueryListener
<1>2. /\ d \in Docs /\ client \in Clients /\ client.views \in [Docs -> View]
      /\ view \in View /\ store[d] \in Stored /\ client.online = conn.online
      /\ OwnListeners(client) /\ ConnSound(conn)
      /\ TableOf(view, d \in conn.targets, store[d].cache)
  BY ReadersAssumption DEF IInv, ClientTyped, BackendTyped, Clients, Tables
<1>3. joined \in View /\ joined.listeners = view.listeners \cup {r}
      /\ joined.on = view.on /\ joined.content = view.content
      /\ joined.synced = view.synced
  BY <1>2 DEF View
<1>4. opened \in View /\ opened.listeners = view.listeners \cup {r}
      /\ opened.on = TRUE /\ opened.content = store[d].cache
      /\ opened.synced = view.synced
  BY <1>2 DEF View, Stored
<1> HIDE DEF joined, opened
<1>5. /\ added \in Clients /\ added.inbox = client.inbox /\ added.views[d] = joined
      /\ added.online = client.online /\ added.raised = client.raised
      /\ \A e \in Docs \ {d} : added.views[e] = client.views[e]
  BY <1>2, <1>3 DEF Clients
<1>6. /\ viewed \in Clients /\ viewed.inbox = client.inbox /\ viewed.views[d] = opened
      /\ viewed.online = client.online /\ viewed.raised = client.raised
      /\ \A e \in Docs \ {d} : viewed.views[e] = client.views[e]
  BY <1>2, <1>4 DEF Clients
<1>7. /\ [client EXCEPT !.views[d].listeners = client.views[d].listeners \cup {r}] = added
      /\ [added EXCEPT !.views[d].on = TRUE, !.views[d].content = store[d].cache] = viewed
  <2>1. [client EXCEPT !.views[d].listeners = client.views[d].listeners \cup {r}] = added
    BY DEF joined
  <2> DEFINE seen == [joined EXCEPT !.on = TRUE]
             seeing == [added EXCEPT !.views = [added.views EXCEPT ![d] = seen]]
  <2>2. [added EXCEPT !.views[d].on = TRUE] = seeing
    BY <1>5
  <2>3. seeing.views[d] = seen
    BY <1>2, <1>5 DEF Clients
  <2>4. [seeing EXCEPT !.views[d].content = store[d].cache] = viewed
    BY <1>2, <1>3, <1>5 DEF Clients, opened
  <2>5. [added EXCEPT !.views[d].on = TRUE, !.views[d].content = store[d].cache]
          = [seeing EXCEPT !.views[d].content = store[d].cache]
    BY <2>2
  <2> QED BY <2>1, <2>4, <2>5
<1> HIDE DEF added, viewed
<1>8. CASE view.on
  <2>1. /\ client' = IF ShouldRaiseInitialEvent(added, r) THEN Raise(added, {r}) ELSE added
        /\ UNCHANGED conn
    BY <1>7, <1>8 DEF AddQueryListener
  <2>2. Listening(r, added)
    <3>1. OwnListeners(added)
      BY <1>2, <1>3, <1>5 DEF OwnListeners
    <3>2. joined.content = store[d].cache /\ joined.on = TRUE
      BY <1>2, <1>3, <1>8 DEF TableOf, View
    <3> QED BY <1>3, <1>5, <3>1, <3>2 DEF Listening
  <2>3. CASE ShouldRaiseInitialEvent(added, r)
    <3>1. LET n == Raise(added, {r})
          IN /\ News(added, n) /\ n.views = added.views /\ n.online = added.online
             /\ n.raised = added.raised \cup {r}
             /\ \A q \in Readers \ {r} : n.inbox[q] = added.inbox[q]
      <4>1. r \in added.views[DocOf[r]].listeners
        BY <1>3, <1>5
      <4> QED BY <1>5, <2>3, <4>1, JoinNews
    <3>2. client' = Raise(added, {r})
      BY <2>1, <2>3
    <3> QED BY <1>1, <1>5, <2>1, <2>2, <2>3, <3>1, <3>2
  <2>4. CASE ~ShouldRaiseInitialEvent(added, r)
    <3>1. client' = added
      BY <2>1, <2>4
    <3>2. News(added, added)
      BY <1>5 DEF News, Informed
    <3>3. ~added.views[DocOf[r]].synced
      BY <2>4 DEF ShouldRaiseInitialEvent
    <3> QED BY <1>1, <1>5, <2>1, <2>2, <3>1, <3>2, <3>3
  <2> QED BY <2>3, <2>4
<1>9. CASE ~view.on
  <2> DEFINE c == W!ListenTo(conn, d)
             known == IF Exists(store[d].cache) THEN {d} ELSE {}
             given == OnViewSnapshots(viewed, known, {d})
  <2>1. Connect(given, c)
    BY <1>7, <1>9 DEF AddQueryListener
  <2>2. conn' = c /\ client' = HandleOnlineStateChange(given, c.online)
    BY <2>1 DEF Connect
  <2>3. c.online = conn.online
    BY <1>2, ListenKeepsOnline
  <2> HIDE DEF c
  <2>4. OwnListeners(viewed)
    BY <1>2, <1>4, <1>6 DEF OwnListeners
  <2>5. Listening(r, viewed)
    BY <1>4, <1>6, <2>4 DEF Listening
  <2>6. known \in SUBSET Docs /\ {d} \in SUBSET Docs /\ known \cup {d} = {d}
    BY <1>2
  <2> HIDE DEF known
  <2>7. /\ News(viewed, given) /\ given.views = viewed.views /\ given.online = viewed.online
        /\ \A q \in given.raised \ viewed.raised : ShouldRaiseInitialEvent(viewed, q)
    BY <1>6, <2>4, <2>6, SnapshotsNews
  <2>12. \A q \in Readers : DocOf[q] # d
           => given.inbox[q] = viewed.inbox[q] /\ (q \in given.raised => q \in viewed.raised)
    BY <1>6, <2>4, <2>6, SnapshotsElsewhere
  <2> HIDE DEF given
  <2>8. client' = given
    BY <1>2, <1>6, <2>2, <2>3, <2>7 DEF HandleOnlineStateChange
  <2>9. ~viewed.views[d].synced /\ viewed.views[d].listeners = {r}
    BY <1>2, <1>4, <1>6, <1>9 DEF SyncedRaised, TableOf, View
  <2>10. \A q \in Readers \ {r} : given.inbox[q] = client.inbox[q]
                                  /\ (q \in given.raised => q \in client.raised)
    <3>1. TAKE q \in Readers \ {r}
    <3>2. q \notin viewed.views[d].listeners
      BY <2>9
    <3> QED BY <1>6, <2>7, <2>12, <3>2 DEF News
  <2>11. given.raised \subseteq client.raised \cup {r}
    <3>1. given.raised \subseteq Readers
      BY <2>7 DEF News, Informed, Clients
    <3> QED BY <2>10, <3>1
  <2> QED BY <1>1, <1>6, <2>2, <2>3, <2>5, <2>7, <2>8, <2>9, <2>10, <2>11
<1> QED BY <1>8, <1>9

\* Listening no more: one listener less, and with the last the view.  Over an open
\* stream the online state stays.
Parting(r, k) ==
  LET d == DocOf[r]
  IN /\ k \in Clients /\ OwnListeners(k)
     /\ k.inbox = client.inbox /\ k.online = client.online /\ k.raised = client.raised
     /\ k.views[d].listeners = client.views[d].listeners \ {r}
     /\ k.views[d].synced => client.views[d].synced /\ k.views[d].on
     /\ k.views[d].on => client.views[d].on /\ k.views[d].content = client.views[d].content
     /\ \A e \in Docs \ {d} : k.views[e] = client.views[e]

\* The task that removes a listener is one of Parting, unless the connection it
\* closes has more to say.
LEMMA RemoveParts ==
  ASSUME IInv, SyncedRaised(client), NEW r \in Readers, RemoveQueryListener(r)
  PROVE  /\ work # <<>> /\ Head(work) = [op |-> "remove", reader |-> r] /\ work' = Tail(work)
         /\ UNCHANGED <<db, store, muted, reads>>
         /\ \E k : /\ Parting(r, k)
                   /\ News(k, client') /\ client'.online = conn'.online
                   /\ W!IsOpen(conn) => client' = k
<1> DEFINE d == DocOf[r]
           view == client.views[d]
           left == view.listeners \ {r}
           parted == [view EXCEPT !.listeners = left]
           stayed == [client EXCEPT !.views = [client.views EXCEPT ![d] = parted]]
           closed == [client EXCEPT !.views = [client.views EXCEPT ![d] = NoView]]
<1>1. /\ work # <<>> /\ Head(work) = [op |-> "remove", reader |-> r] /\ work' = Tail(work)
      /\ UNCHANGED <<db, store, muted, reads>>
  BY DEF RemoveQueryListener
<1>2. /\ d \in Docs /\ client \in Clients /\ client.views \in [Docs -> View]
      /\ view \in View /\ client.online = conn.online /\ ConnSound(conn)
      /\ OwnListeners(client) /\ TableOf(view, d \in conn.targets, store[d].cache)
      /\ view.synced => view.on
  BY ReadersAssumption DEF IInv, ClientTyped, Clients, Tables, SyncedRaised
<1>3. parted \in View /\ parted.listeners = left
      /\ parted.on = view.on /\ parted.content = view.content
      /\ parted.synced = view.synced
  BY <1>2 DEF View
<1>4. NoView \in View /\ NoView.listeners = {} /\ NoView.on = FALSE /\ NoView.synced = FALSE
  BY DEF NoView, View
<1> HIDE DEF parted
<1>5. /\ stayed \in Clients /\ stayed.inbox = client.inbox /\ stayed.views[d] = parted
      /\ stayed.online = client.online /\ stayed.raised = client.raised
      /\ \A e \in Docs \ {d} : stayed.views[e] = client.views[e]
  BY <1>2, <1>3 DEF Clients
<1>6. /\ closed \in Clients /\ closed.inbox = client.inbox /\ closed.views[d] = NoView
      /\ closed.online = client.online /\ closed.raised = client.raised
      /\ \A e \in Docs \ {d} : closed.views[e] = client.views[e]
  BY <1>2, <1>4 DEF Clients
<1>7. [client EXCEPT !.views[d].listeners = left] = stayed
      /\ [client EXCEPT !.views[d] = NoView] = closed
  BY DEF parted
<1> HIDE DEF stayed, closed
<1>8. CASE view.on /\ left = {}
  <2> DEFINE c == W!StopListeningTo(conn, d)
  <2>1. conn' = c /\ client' = HandleOnlineStateChange(closed, c.online)
    BY <1>7, <1>8 DEF RemoveQueryListener, Connect
  <2>2. d \in conn.targets
    BY <1>2, <1>8 DEF TableOf
  <2>3. ConnSound(c) /\ (W!IsOpen(conn) => c.online = conn.online)
    BY <1>2, <2>2, StopListeningSound, StopKeepsOnline
  <2> HIDE DEF c
  <2>4. c.online \in W!OnlineStates
    BY <2>3 DEF ConnSound, WP!Sound, WP!Connection, WP!OnlineStates, W!OnlineStates
  <2>5. OwnListeners(closed)
    BY <1>2, <1>4, <1>6 DEF OwnListeners
  <2>6. Parting(r, closed)
    BY <1>4, <1>6, <1>8, <2>5 DEF Parting
  <2>7. /\ News(closed, client') /\ client'.online = c.online
        /\ c.online = closed.online => client' = closed
    BY <1>6, <2>1, <2>4, <2>5, OnlineNews
  <2> QED BY <1>1, <1>2, <1>6, <2>1, <2>3, <2>6, <2>7
<1>9. CASE ~(view.on /\ left = {})
  <2>1. client' = stayed /\ UNCHANGED conn
    BY <1>7, <1>9 DEF RemoveQueryListener
  <2>2. OwnListeners(stayed)
    BY <1>2, <1>3, <1>5 DEF OwnListeners
  <2>3. Parting(r, stayed)
    BY <1>2, <1>3, <1>5, <2>2 DEF Parting
  <2>4. News(stayed, stayed)
    BY <1>5 DEF News, Informed
  <2> QED BY <1>1, <1>2, <1>5, <2>1, <2>3, <2>4
<1> QED BY <1>8, <1>9

\* The connection changes and nothing else is done: the views hear of it.
LEMMA ConnectNews ==
  ASSUME IInv, NEW c, ConnSound(c), Connect(client, c)
  PROVE  /\ News(client, client') /\ client'.online = conn'.online /\ conn' = c
         /\ conn'.online = conn.online => client' = client
<1>1. client \in Clients /\ OwnListeners(client) /\ client.online = conn.online
  BY DEF IInv, ClientTyped
<1>2. conn' = c /\ client' = HandleOnlineStateChange(client, c.online)
  BY DEF Connect
<1>3. c.online \in W!OnlineStates
  BY DEF ConnSound, WP!Sound, WP!Connection, WP!OnlineStates, W!OnlineStates
<1> QED BY <1>1, <1>2, <1>3, OnlineNews

\* The steps that change the connection alone.
ConnectionStep ==
  \/ CredentialsArrive \/ BackoffElapses \/ TimerFires
  \/ StreamIdle \/ StreamBreaks \/ NetworkRestarts
  \/ \E d \in Docs : \/ TargetAdded(d) \/ TargetRemoved(d)
                     \/ DocumentChanges(d) \/ ExistenceFilter(d) \/ TargetCurrent(d)
                     \/ d \notin conn.targets /\ TargetFails(d)

\* They are news to the views only through the online state, and nothing else
\* changes.
LEMMA ConnectionStepNews ==
  ASSUME IInv, ConnectionStep
  PROVE  /\ News(client, client') /\ client'.online = conn'.online
         /\ conn'.online = conn.online => client' = client
         /\ UNCHANGED <<db, store, work, muted, reads>>
<1>1. ConnSound(conn)
  BY DEF IInv
<1>2. \A c : ConnSound(c) /\ Connect(client, c)
        => /\ News(client, client') /\ client'.online = conn'.online
           /\ conn'.online = conn.online => client' = client
  BY ConnectNews
<1>3. CASE CredentialsArrive
  <2>1. PICK current \in BOOLEAN, ok \in BOOLEAN :
          /\ IF current THEN conn.token ELSE conn.stale > 0
          /\ conn' = W!OnCredentials(conn, current, ok)
    BY <1>3 DEF CredentialsArrive, W!CredentialsArrive
  <2>2. ConnSound(W!OnCredentials(conn, current, ok))
    BY <1>1, <2>1, CredentialsSound
  <2>3. Connect(client, W!OnCredentials(conn, current, ok))
    BY <1>3, <2>1 DEF CredentialsArrive, Connect
  <2> QED BY <1>2, <1>3, <2>2, <2>3 DEF CredentialsArrive
<1>4. CASE BackoffElapses
  BY <1>1, <1>2, <1>4, BackoffSound DEF BackoffElapses
<1>5. CASE TimerFires
  BY <1>1, <1>2, <1>5, TimeoutSound DEF TimerFires
<1>6. CASE StreamIdle
  BY <1>1, <1>2, <1>6, IdleSound DEF StreamIdle
<1>7. CASE StreamBreaks
  BY <1>1, <1>2, <1>7, BreakSound DEF StreamBreaks
<1>8. CASE NetworkRestarts
  <2>1. conn' = W!RestartNetwork(conn) /\ client' = HandleOnlineStateChange(client, conn'.online)
    BY <1>8 DEF NetworkRestarts, W!NetworkRestarts
  <2>2. Connect(client, W!RestartNetwork(conn))
    BY <2>1 DEF Connect
  <2> QED BY <1>1, <1>2, <1>8, <2>2, RestartSound DEF NetworkRestarts
<1>9. ASSUME NEW d \in Docs,
             \/ TargetAdded(d) \/ TargetRemoved(d)
             \/ DocumentChanges(d) \/ ExistenceFilter(d) \/ TargetCurrent(d)
             \/ d \notin conn.targets /\ TargetFails(d)
      PROVE  /\ News(client, client') /\ client'.online = conn'.online
             /\ conn'.online = conn.online => client' = client
             /\ UNCHANGED <<db, store, work, muted, reads>>
  <2>1. W!IsOpen(conn) /\ Heard /\ UNCHANGED <<db, store, work, muted, reads>>
    BY <1>9 DEF TargetAdded, TargetRemoved, DocumentChanges, ExistenceFilter, TargetCurrent,
       TargetFails, Answers
  <2> QED BY <1>1, <1>2, <2>1, MessageSound DEF Heard
<1> QED BY <1>3, <1>4, <1>5, <1>6, <1>7, <1>8, <1>9 DEF ConnectionStep

\* A refused target: the views hear that the client is online, then the listeners
\* of its document are given the error, and nobody listens to it any more.
Failure == [content |-> None, cached |-> FALSE, ok |-> FALSE]

Refused(d, heard) ==
  /\ News(client, heard) /\ heard.online = "Online"
  /\ conn.online = "Online" => heard = client
  /\ client' \in Clients /\ client'.raised = heard.raised
  /\ client'.views[d] = NoView
  /\ \A e \in Docs \ {d} : client'.views[e] = heard.views[e]
  /\ \A r \in Readers :
       client'.inbox[r] = IF r \in client.views[d].listeners
                            THEN Append(heard.inbox[r], Failure) ELSE heard.inbox[r]

\* The refusal of a target does just that, if it is still watched.
LEMMA FailsNews ==
  ASSUME IInv, NEW d \in Docs, d \in conn.targets, TargetFails(d)
  PROVE  /\ conn'.online = "Online" /\ UNCHANGED <<db, store, work, muted, reads>>
         /\ \E heard : Refused(d, heard)
<1> DEFINE c == W!OnTargetError(conn, d)
           heard == HandleOnlineStateChange(client, c.online)
           failing == [content |-> None, cached |-> FALSE, ok |-> FALSE]
           told == client.views[d].listeners
           inbox == [r \in Readers |-> IF r \in told THEN Append(heard.inbox[r], failing)
                                       ELSE heard.inbox[r]]
           views == [heard.views EXCEPT ![d] = NoView]
           n == [heard EXCEPT !.views = views, !.inbox = inbox]
<1>1. /\ W!IsOpen(conn) /\ conn' = c /\ UNCHANGED <<db, store, work, muted, reads>>
      /\ client' = n
  BY DEF TargetFails, HandleRejectedListen
<1>2. client' \in Clients /\ client \in Clients /\ OwnListeners(client)
      /\ client.online = conn.online
  BY FailsKeepsInv DEF IInv, ClientTyped
<1>3. c.online = "Online"
  BY <1>1, MessageOnline DEF IInv
<1>4. c.online \in W!OnlineStates
  BY <1>3 DEF W!OnlineStates
<1> HIDE DEF c
<1>5. News(client, heard) /\ (c.online = client.online => heard = client)
      /\ heard.online = c.online
  BY <1>2, <1>4, OnlineNews
<1> HIDE DEF heard
<1>6. heard \in Clients
  BY <1>5 DEF News, Informed
<1>7. views[d] = NoView /\ \A e \in Docs \ {d} : views[e] = heard.views[e]
  BY <1>6 DEF Clients
<1>8. \A r \in Readers : inbox[r] = IF r \in told THEN Append(heard.inbox[r], failing)
                                    ELSE heard.inbox[r]
  OBVIOUS
<1> HIDE DEF views, inbox, failing
<1>9. n.views = views /\ n.inbox = inbox /\ n.raised = heard.raised
  BY <1>6 DEF Clients
<1> HIDE DEF n
<1>10. Refused(d, heard)
  BY <1>1, <1>2, <1>3, <1>5, <1>7, <1>8, <1>9 DEF failing, Refused, Failure
<1> QED BY <1>1, <1>3, <1>10

\* The views of n show what the store keeps; those of k are what they were.
Following(k, n) ==
  /\ n \in Clients /\ OwnListeners(n)
  /\ n.inbox = k.inbox /\ n.raised = k.raised /\ n.online = k.online
  /\ \A d \in Docs : /\ n.views[d].on = k.views[d].on
                     /\ n.views[d].listeners = k.views[d].listeners
                     /\ n.views[d].on => n.views[d].content = store'[d].cache
                     /\ ~n.views[d].on => n.views[d] = k.views[d]

\* A snapshot: the views hear that the client is online, follow the store, and
\* tell their listeners of what has changed.
LEMMA SnapshotNews ==
  ASSUME IInv, Snapshot
  PROVE  /\ W!IsOpen(conn) /\ \A d \in Docs : wire[d].on => wire[d].told # None
         /\ \A d \in Docs : store'[d] = Applied(d) /\ agg'[d].update = None
         /\ conn'.online = "Online" /\ UNCHANGED <<db, work, muted, reads>>
         /\ \E heard, applied :
              /\ News(client, heard) /\ heard.online = "Online"
              /\ conn.online = "Online" => heard = client
              /\ \A d \in Docs : heard.views[d].synced = client.views[d].synced
              /\ Following(heard, applied)
              /\ News(applied, client') /\ client'.views = applied.views
              /\ \A d \in Docs : \A r \in applied.views[d].listeners :
                   /\ /\ heard.views[d].content # applied.views[d].content
                      /\ Exists(heard.views[d].content) \/ Exists(applied.views[d].content)
                      /\ r \in heard.raised
                      => client'.inbox[r] =
                           Append(heard.inbox[r],
                                  SnapshotOf(applied, r, ~applied.views[d].synced))
                   /\ applied.views[d].synced /\ ~heard.views[d].synced
                        => r \in client'.raised
<1> DEFINE c == W!OnMessage(conn)
           heard == HandleOnlineStateChange(client, c.online)
           views == [d \in Docs |->
             IF ~heard.views[d].on THEN heard.views[d] ELSE
             [heard.views[d] EXCEPT
                !.content = store'[d].cache,
                !.synced = IF IsActive(d) THEN agg[d].current ELSE @]]
           applied == [heard EXCEPT !.views = views]
           before(d) == heard.views[d]
           after(d) == applied.views[d]
           changed == {d \in Docs : /\ before(d).content # after(d).content
                                    /\ Exists(before(d).content) \/ Exists(after(d).content)}
           resynced == {d \in Docs : before(d).synced # after(d).synced}
<1>1. /\ W!IsOpen(conn) /\ conn' = c
      /\ \A d \in Docs : wire[d].on => wire[d].told # None
      /\ store' = [d \in Docs |-> Applied(d)]
      /\ agg' = [d \in Docs |-> [agg[d] EXCEPT !.update = None,
                                               !.member = IF IsActive(d) THEN "same" ELSE @]]
      /\ UNCHANGED <<db, work, muted, reads>>
  BY DEF Snapshot
<1>2. client' = OnViewSnapshots(applied, changed, resynced)
  BY DEF Snapshot
<1>3. client \in Clients /\ OwnListeners(client) /\ client.online = conn.online
      /\ BackendTyped /\ AnswersOwed
  BY DEF IInv, ClientTyped
<1>4. c.online = "Online"
  BY <1>1, MessageOnline DEF IInv
<1>5. c.online \in W!OnlineStates
  BY <1>4 DEF W!OnlineStates
<1> HIDE DEF c
<1>6. /\ News(client, heard) /\ heard.online = "Online"
      /\ conn.online = "Online" => heard = client
      /\ \A d \in Docs : heard.views[d].synced = client.views[d].synced
  BY <1>3, <1>4, <1>5, OnlineNews
<1> HIDE DEF heard
<1>7. heard \in Clients /\ OwnListeners(heard)
  BY <1>3, <1>6, InformedKeeps DEF News
<1>8. \A d \in Docs : store'[d] = Applied(d) /\ agg'[d].update = None
                      /\ store'[d].cache \in Content \cup {None}
  <2>1. \A d \in Docs : Applied(d) \in Stored /\ agg[d] \in Gathered
    BY <1>1, <1>3, AppliedStored DEF BackendTyped
  <2> QED BY <1>1, <2>1 DEF Stored, Gathered
<1>9. ASSUME NEW d \in Docs
      PROVE  /\ views[d] \in View /\ views[d].on = heard.views[d].on
             /\ views[d].listeners = heard.views[d].listeners
             /\ views[d].on => views[d].content = store'[d].cache
             /\ ~views[d].on => views[d] = heard.views[d]
  <2>1. heard.views[d] \in View /\ agg[d] \in Gathered
    BY <1>3, <1>7 DEF BackendTyped, Clients
  <2> QED BY <1>8, <2>1 DEF View, Gathered
<1>10. views \in [Docs -> View]
  BY <1>9
<1> HIDE DEF views
<1>11. applied \in Clients /\ applied.views = views /\ applied.inbox = heard.inbox
       /\ applied.online = heard.online /\ applied.raised = heard.raised
  BY <1>7, <1>10 DEF Clients
<1>12. changed \in SUBSET Docs /\ resynced \in SUBSET Docs
  OBVIOUS
<1>13. /\ \A d \in Docs : /\ heard.views[d].content # applied.views[d].content
                          /\ Exists(heard.views[d].content) \/ Exists(applied.views[d].content)
                          => d \in changed
       /\ \A d \in Docs : applied.views[d].synced /\ ~heard.views[d].synced => d \in resynced
  OBVIOUS
<1> HIDE DEF applied, changed, resynced
<1>14. OwnListeners(applied)
  BY <1>7, <1>9, <1>11 DEF OwnListeners
<1>15. Following(heard, applied)
  BY <1>9, <1>11, <1>14 DEF Following
<1>16. /\ News(applied, client') /\ client'.views = applied.views
       /\ \A d \in changed \cup resynced : \A r \in applied.views[d].listeners :
            /\ applied.views[d].synced => r \in client'.raised
            /\ d \in changed /\ r \in applied.raised
                 => client'.inbox[r] = Append(applied.inbox[r],
                                              SnapshotOf(applied, r, ~applied.views[d].synced))
  <2> DEFINE n == OnViewSnapshots(applied, changed, resynced)
  <2>1. /\ News(applied, n) /\ n.views = applied.views
        /\ \A d \in changed \cup resynced : \A r \in applied.views[d].listeners :
             /\ applied.views[d].synced => r \in n.raised
             /\ d \in changed /\ r \in applied.raised
                  => n.inbox[r] = Append(applied.inbox[r],
                                         SnapshotOf(applied, r, ~applied.views[d].synced))
    BY <1>11, <1>12, <1>14, SnapshotsNews
  <2> QED BY <1>2, <2>1
<1>17. \A d \in Docs : \A r \in applied.views[d].listeners :
         /\ /\ heard.views[d].content # applied.views[d].content
            /\ Exists(heard.views[d].content) \/ Exists(applied.views[d].content)
            /\ r \in heard.raised
            => client'.inbox[r] =
                 Append(heard.inbox[r], SnapshotOf(applied, r, ~applied.views[d].synced))
         /\ applied.views[d].synced /\ ~heard.views[d].synced => r \in client'.raised
  BY <1>11, <1>13, <1>16
<1> QED BY <1>1, <1>4, <1>6, <1>8, <1>15, <1>16, <1>17

-----------------------------------------------------------------------------
(* A get is answered from the cache only offline.                          *)

\* The event that came last.
LEMMA LastAppended ==
  ASSUME NEW q \in Seq(Event), NEW e \in Event
  PROVE  Append(q, e)[Len(Append(q, e))] = e
BY AppendProperties, LenProperties

\* Whoever is raised in a step is told the truth: in sync, or offline.
RaisedInSync(k, n) ==
  \A r \in Gets \cap (n.raised \ k.raised) :
    n.inbox[r][Len(n.inbox[r])].cached => n.online = "Offline"

\* What a listener is given is an event.
LEMMA SnapshotTyped ==
  ASSUME NEW k \in Clients, NEW r \in Readers, NEW cached \in BOOLEAN
  PROVE  /\ SnapshotOf(k, r, cached) \in Event
         /\ SnapshotOf(k, r, cached).cached = cached /\ SnapshotOf(k, r, cached).ok = TRUE
         /\ SnapshotOf(k, r, cached).content = k.views[DocOf[r]].content
<1>1. k.views[DocOf[r]] \in View
  BY ReadersAssumption DEF Clients
<1> QED BY <1>1 DEF SnapshotOf, Event, View

\* News keep the views' promise, and tell gets no lie.
LEMMA NewsInSync ==
  ASSUME NEW k \in Clients, NEW n, News(k, n)
  PROVE  /\ SyncedRaised(k) => SyncedRaised(n)
         /\ RaisedInSync(k, n)
<1>1. n \in Clients
  BY DEF News, Informed
<1>2. SyncedRaised(k) => SyncedRaised(n)
  BY DEF News, Informed, SyncedRaised
<1>3. ASSUME NEW r \in Gets, r \in n.raised, r \notin k.raised,
             n.inbox[r][Len(n.inbox[r])].cached
      PROVE  n.online = "Offline"
  <2>1. r \in Readers
    BY ReadersAssumption
  <2>2. /\ n.inbox[r] = Append(k.inbox[r], SnapshotOf(k, r, ~n.views[DocOf[r]].synced))
        /\ n.views[DocOf[r]].synced \/ n.online = "Offline"
    BY <1>3, <2>1 DEF News
  <2>3. k.inbox[r] \in Seq(Event)
    BY <2>1 DEF Clients
  <2>4. (~n.views[DocOf[r]].synced) \in BOOLEAN
    OBVIOUS
  <2>5. /\ SnapshotOf(k, r, ~n.views[DocOf[r]].synced) \in Event
        /\ SnapshotOf(k, r, ~n.views[DocOf[r]].synced).cached = ~n.views[DocOf[r]].synced
    BY <2>1, <2>4, SnapshotTyped
  <2>6. n.inbox[r][Len(n.inbox[r])] = SnapshotOf(k, r, ~n.views[DocOf[r]].synced)
    BY <2>2, <2>3, <2>5, LastAppended
  <2> QED BY <1>3, <2>2, <2>5, <2>6
<1>4. RaisedInSync(k, n)
  BY <1>3 DEF RaisedInSync
<1> QED BY <1>2, <1>4

\* Any step.
LEMMA NextInSync ==
  ASSUME IInv, SyncedRaised(client), [Next]_vars
  PROVE  SyncedRaised(client') /\ RaisedInSync(client, client') /\ client'.online = conn'.online
<1>1. client \in Clients /\ client.online = conn.online
  BY DEF IInv, ClientTyped
<1>2. client' \in Clients /\ client'.online = conn'.online
  BY NextReads DEF IInv, ClientTyped
<1>3. ASSUME client'.views = client.views, client'.raised = client.raised
      PROVE  SyncedRaised(client') /\ RaisedInSync(client, client')
  BY <1>3 DEF SyncedRaised, RaisedInSync
<1>4. ASSUME NEW r \in Readers, Deliver(r)
      PROVE  SyncedRaised(client') /\ RaisedInSync(client, client')
  <2>1. client'.views = client.views /\ client'.raised = client.raised
    BY <1>1, <1>4 DEF Deliver, Clients
  <2> QED BY <1>3, <2>1
<1>5. ASSUME NEW r \in Readers, AddQueryListener(r)
      PROVE  SyncedRaised(client') /\ RaisedInSync(client, client')
  <2>1. PICK k : /\ Listening(r, k) /\ News(k, client') /\ client'.views = k.views
                 /\ client'.raised \subseteq client.raised \cup {r}
                 /\ k.views[DocOf[r]].synced => r \in client'.raised
    BY <1>5, AddListens
  <2>2. RaisedInSync(k, client')
    BY <2>1, NewsInSync DEF Listening
  <2>3. RaisedInSync(client, client')
    BY <2>1, <2>2 DEF RaisedInSync, Listening
  <2>4. ASSUME NEW d \in Docs, k.views[d].synced
        PROVE  k.views[d].on /\ k.views[d].listeners \subseteq client'.raised
    <3>1. k.raised \subseteq client'.raised /\ k.raised = client.raised
      BY <2>1 DEF News, Listening
    <3>2. CASE d = DocOf[r]
      BY <2>1, <2>4, <3>1, <3>2 DEF Listening, SyncedRaised
    <3>3. CASE d # DocOf[r]
      BY <2>1, <2>4, <3>1, <3>3 DEF Listening, SyncedRaised
    <3> QED BY <3>2, <3>3
  <2> QED BY <2>1, <2>3, <2>4 DEF SyncedRaised
<1>6. ASSUME NEW r \in Readers, RemoveQueryListener(r)
      PROVE  SyncedRaised(client') /\ RaisedInSync(client, client')
  <2>1. PICK k : Parting(r, k) /\ News(k, client')
    BY <1>6, RemoveParts
  <2>2. SyncedRaised(k)
    <3>1. SUFFICES ASSUME NEW d \in Docs, k.views[d].synced
                   PROVE  k.views[d].on /\ k.views[d].listeners \subseteq k.raised
      BY DEF SyncedRaised
    <3>2. CASE d = DocOf[r]
      BY <2>1, <3>1, <3>2 DEF Parting, SyncedRaised
    <3>3. CASE d # DocOf[r]
      BY <2>1, <3>1, <3>3 DEF Parting, SyncedRaised
    <3> QED BY <3>2, <3>3
  <2>3. SyncedRaised(client') /\ RaisedInSync(k, client')
    BY <2>1, <2>2, NewsInSync DEF Parting
  <2> QED BY <2>1, <2>3 DEF RaisedInSync, Parting
<1>7. CASE ConnectionStep
  BY <1>1, <1>7, ConnectionStepNews, NewsInSync
<1>8. ASSUME NEW d \in Docs, d \in conn.targets, TargetFails(d)
      PROVE  SyncedRaised(client') /\ RaisedInSync(client, client')
  <2>1. PICK heard : Refused(d, heard)
    BY <1>8, FailsNews
  <2>2. Failure \in Event /\ Failure.cached = FALSE
    BY DEF Event, Failure
  <2>3. SyncedRaised(heard) /\ RaisedInSync(client, heard) /\ heard \in Clients
    BY <1>1, <2>1, NewsInSync DEF Refused, News, Informed
  <2>4. SyncedRaised(client')
    <3>1. ~NoView.synced
      BY DEF NoView
    <3> QED BY <2>1, <2>3, <3>1 DEF Refused, SyncedRaised
  <2>5. ASSUME NEW r \in Gets, r \in client'.raised, r \notin client.raised,
               client'.inbox[r][Len(client'.inbox[r])].cached
        PROVE  FALSE
    <3>1. r \in Readers /\ heard.inbox[r] \in Seq(Event)
      BY <2>3, ReadersAssumption DEF Clients
    <3>2. CASE r \in client.views[d].listeners
      <4>1. client'.inbox[r] = Append(heard.inbox[r], Failure)
        BY <2>1, <3>1, <3>2 DEF Refused
      <4>2. Append(heard.inbox[r], Failure)[Len(Append(heard.inbox[r], Failure))] = Failure
        BY <2>2, <3>1, LastAppended
      <4> QED BY <2>2, <2>5, <4>1, <4>2
    <3>3. CASE r \notin client.views[d].listeners
      BY <2>1, <2>3, <2>5, <3>1, <3>3 DEF Refused, RaisedInSync
    <3> QED BY <3>2, <3>3
  <2> QED BY <2>4, <2>5 DEF RaisedInSync
<1>9. CASE Snapshot
  <2>1. PICK heard, applied :
          /\ News(client, heard) /\ heard.online = "Online"
          /\ \A d \in Docs : heard.views[d].synced = client.views[d].synced
          /\ Following(heard, applied)
          /\ News(applied, client') /\ client'.views = applied.views
          /\ \A d \in Docs : \A r \in applied.views[d].listeners :
               applied.views[d].synced /\ ~heard.views[d].synced => r \in client'.raised
    BY <1>9, SnapshotNews
  <2>2. SyncedRaised(heard) /\ applied \in Clients
    BY <1>1, <2>1, NewsInSync DEF Following
  <2>3. RaisedInSync(applied, client')
    BY <2>1, <2>2, NewsInSync
  <2>4. SyncedRaised(client')
    <3>1. SUFFICES ASSUME NEW d \in Docs, applied.views[d].synced
                   PROVE  applied.views[d].on /\ applied.views[d].listeners \subseteq client'.raised
      BY <2>1 DEF SyncedRaised
    <3>2. applied.raised \subseteq client'.raised
      BY <2>1 DEF News
    <3>3. CASE heard.views[d].synced
      BY <2>1, <2>2, <3>2, <3>3 DEF Following, SyncedRaised
    <3>4. CASE ~heard.views[d].synced
      <4>1. applied.views[d].on
        BY <2>1, <3>1, <3>4 DEF Following
      <4> QED BY <2>1, <3>1, <3>4, <4>1
    <3> QED BY <3>3, <3>4
  <2>5. ASSUME NEW r \in Gets
        PROVE  r \in heard.raised => r \in client.raised
    <3>1. SUFFICES ASSUME r \in heard.raised, r \notin client.raised
                   PROVE  FALSE
      OBVIOUS
    <3>2. r \in Readers /\ DocOf[r] \in Docs
      BY ReadersAssumption
    <3>3. heard.views[DocOf[r]].synced /\ r \in client.views[DocOf[r]].listeners
      BY <2>1, <3>1, <3>2 DEF News
    <3> QED BY <2>1, <3>1, <3>2, <3>3 DEF SyncedRaised
  <2>6. RaisedInSync(client, client')
    BY <2>1, <2>3, <2>5 DEF RaisedInSync, Following
  <2> QED BY <1>2, <2>4, <2>6
<1>10. ASSUME UNCHANGED client
       PROVE  SyncedRaised(client') /\ RaisedInSync(client, client')
  BY <1>3, <1>10
<1>11. CASE UNCHANGED vars \/ (\E r \in Readers : Call(r)) \/ (\E d \in Docs : Write(d))
  <2>1. UNCHANGED client
    BY <1>11 DEF vars, Call, Write
  <2> QED BY <1>2, <1>10, <2>1
<1> QED BY <1>2, <1>4, <1>5, <1>6, <1>7, <1>8, <1>9, <1>11
     DEF Next, Worker, Message, ConnectionStep

\* Before the first call no view is in sync.
LEMMA InitInSync == Init => SyncedRaised(client)
BY DEF Init, NoView, SyncedRaised

\* A get is answered from the cache only when the client is offline: while the
\* backend may still answer, it waits (CachedOnlyOffline).
THEOREM GetsWaitForSync == Spec => CachedOnlyOffline
<1> DEFINE Safe == IInv /\ SyncedRaised(client)
           Waits == \A r \in Gets \cap (client'.raised \ client.raised) :
                        client'.inbox[r][Len(client'.inbox[r])].cached
                          => conn'.online = "Offline"
<1>1. Init => Safe
  BY InitReads, InitInSync
<1>2. Safe /\ [Next]_vars => Safe'
  BY NextReads, NextInSync
<1>3. Safe /\ [Next]_vars => [Waits]_vars
  BY NextInSync DEF RaisedInSync
<1> HIDE DEF Safe, Waits
<1>4. Spec => [][Waits]_vars
  BY <1>1, <1>2, <1>3, PTL DEF Spec
<1> QED BY <1>4 DEF CachedOnlyOffline, Waits
=============================================================================
