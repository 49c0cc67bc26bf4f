----------------------- MODULE FirestoreRefinementProofs -----------------------
(***************************************************************************)
(* FirestoreReads keeps the promises of DocumentReads, for any documents,  *)
(* readers and bounds: whatever the connection does, no reader is given a  *)
(* version the document has not had, nor one older than it was given, and  *)
(* a get that was answered is not answered again.  This is proved for      *)
(* executions in which no refusal crosses an unwatch (NothingCrossed): the *)
(* answers to watches that were forgotten may take a token back.           *)
(***************************************************************************)
EXTENDS FirestoreEventsProofs

-----------------------------------------------------------------------------
(* The inductive invariant.  Two ways lead back to an older version, and   *)
(* both go through an empty cache: the token then stands for what readers  *)
(* were shown, and a purge is applied before its token only if the readers *)
(* are told of it, or have been told of nothing.                           *)

\* What the store stands for: the version in its cache or else that of its token.
KnownVersion(s) == IF s.cache = None THEN s.resume ELSE s.cache.version

\* The version a reader has been given or is about to be.
LastGiven(k, rs, r) == LastOf(k.inbox[r], rs[r].given)

\* The events of a reader follow each other and what it was given; who listens
\* is raised once it was given something, and the store stands for that at least.
ReaderFollows(k, w, rs, s, latest, r) ==
  LET listens == r \in k.views[DocOf[r]].listeners
  IN /\ Follow(k.inbox[r], rs[r].given, latest)
     /\ rs[r].status = "done" => k.inbox[r] = <<>> /\ ~listens
     /\ listens => /\ Reaches(KnownVersion(s), LastGiven(k, rs, r))
                   /\ LastGiven(k, rs, r) # None => r \in k.raised
     /\ rs[r].status = "idle" \/ Queued(w, "add", r) => rs[r].given = None /\ r \notin k.raised

ReadersFollow ==
  \A r \in Readers \ muted :
    ReaderFollows(client, work, reads, store[DocOf[r]], db[DocOf[r]], r)

\* Out of sync, a view tells of a purge, or nobody was given anything by it.
Unshown(d) ==
  /\ ~client.views[d].synced
  /\ \/ Exists(store[d].cache)
     \/ \A r \in client.views[d].listeners \ muted : LastGiven(client, reads, r) = None

\* A document is purged with a token that stands for what it was, or else while
\* that is unshown.
PurgeSound(d) ==
  agg[d].update = Purge =>
    \/ IsActive(d) /\ Reaches(wire[d].told, VersionOf(store[d].cache))
    \/ Unshown(d)

PurgesSound == \A d \in Docs : PurgeSound(d)

\* With the tables, tokens and views of before, all that the refinement rests on.
EventsSound ==
  /\ IInv /\ TokensSound /\ SyncedRaised(client)
  /\ ReadersFollow /\ PurgesSound

-----------------------------------------------------------------------------
(* Readers that are given news.                                            *)

\* The orders of versions are transitive.
LEMMA ReachesThrough ==
  ASSUME NEW a \in Versions \cup {None}, NEW b \in Versions \cup {None},
         NEW c \in Versions \cup {None}, Reaches(a, b), Reaches(b, c)
  PROVE  Reaches(a, c)
BY ReadersAssumption, DataAssumption DEF Reaches, Versions

\* What reaches a version is not older.
LEMMA ReachesIsNewer ==
  ASSUME NEW a \in Versions \cup {None}, NEW b \in Versions \cup {None}, Reaches(a, b)
  PROVE  IsNewer(a, b)
BY DEF Reaches, IsNewer

\* What the store stands for, and what a reader was given last, are versions.
LEMMA KnownTyped ==
  ASSUME NEW s \in Stored
  PROVE  /\ KnownVersion(s) \in Versions \cup {None}
         /\ VersionOf(s.cache) \in Versions \cup {None}
         /\ s.cache # None => KnownVersion(s) = VersionOf(s.cache) /\ VersionOf(s.cache) # None
         /\ s.cache = None => KnownVersion(s) = s.resume /\ VersionOf(s.cache) = None
         /\ Reaches(KnownVersion(s), VersionOf(s.cache))
<1>1. s.cache \in Content \cup {None} /\ s.resume \in Versions \cup {None}
  BY DEF Stored
<1>2. /\ VersionOf(s.cache) \in Versions \cup {None}
      /\ s.cache # None => VersionOf(s.cache) = s.cache.version /\ s.cache.version \in Nat
      /\ VersionOf(s.cache) = None <=> s.cache = None
  BY <1>1, VersionTyped
<1> QED BY <1>1, <1>2 DEF KnownVersion, Reaches

\* ... and so is what a reader was given last.
LEMMA LastTyped ==
  ASSUME NEW q \in Seq(Event), NEW given \in Versions \cup {None}
  PROVE  /\ LastOf(q, given) \in Versions \cup {None}
         /\ q = <<>> => LastOf(q, given) = given
<1>1. CASE q = <<>>
  BY <1>1 DEF LastOf
<1>2. CASE q # <<>>
  <2>1. Len(q) \in 1..Len(q)
    BY <1>2, LenProperties, EmptySeq
  <2>2. q[Len(q)] \in Event
    BY <2>1, ElementOfSeq
  <2>3. q[Len(q)].content \in Content \cup {None}
    BY <2>2 DEF Event
  <2>4. VersionOf(q[Len(q)].content) \in Versions \cup {None}
    BY <2>3, VersionTyped
  <2> QED BY <1>2, <2>4 DEF LastOf
<1> QED BY <1>1, <1>2

\* A reader that is given what the store holds follows it.
LEMMA SnapshotFollows ==
  ASSUME NEW q \in Seq(Event), NEW e \in Event, NEW given \in Versions \cup {None},
         NEW latest, NEW s \in Stored,
         Follow(q, given, latest), ~Failing(q), e.content = s.cache,
         Known(VersionOf(s.cache), latest),
         s.cache = None \/ Reaches(KnownVersion(s), LastOf(q, given))
  PROVE  /\ Follow(Append(q, e), given, latest)
         /\ LastOf(Append(q, e), given) = VersionOf(s.cache)
<1>1. /\ KnownVersion(s) \in Versions \cup {None} /\ LastOf(q, given) \in Versions \cup {None}
      /\ s.cache # None => KnownVersion(s) = VersionOf(s.cache)
      /\ s.cache = None => VersionOf(s.cache) = None
  BY KnownTyped, LastTyped
<1>2. IsNewer(VersionOf(e.content), LastOf(q, given))
  BY <1>1, ReachesIsNewer DEF IsNewer
<1> QED BY <1>2, FollowByAppend

\* News leave readers as they were, or give them what the store holds.
LEMMA NewsFollows ==
  ASSUME NEW k \in Clients, NEW n, News(k, n), NEW r \in Readers,
         NEW w, NEW rs \in [Readers -> Read], NEW s \in Stored, NEW latest,
         ReaderFollows(k, w, rs, s, latest, r), Known(VersionOf(s.cache), latest),
         r \in k.views[DocOf[r]].listeners =>
           /\ n.views[DocOf[r]].content = s.cache /\ ~Failing(k.inbox[r])
           /\ rs[r].status # "idle" /\ ~Queued(w, "add", r)
  PROVE  ReaderFollows(n, w, rs, s, latest, r)
<1> DEFINE listens == r \in k.views[DocOf[r]].listeners
           given == rs[r].given
           e == SnapshotOf(k, r, ~n.views[DocOf[r]].synced)
<1>1. /\ (r \in n.views[DocOf[r]].listeners) <=> listens
      /\ n.views[DocOf[r]].content = k.views[DocOf[r]].content
      /\ n \in Clients /\ k.raised \subseteq n.raised
  BY ReadersAssumption DEF News, Informed
<1>2. CASE n.inbox[r] = k.inbox[r] /\ (r \in n.raised => r \in k.raised)
  BY <1>1, <1>2 DEF ReaderFollows, LastGiven
<1>3. CASE r \in n.raised /\ listens /\ n.inbox[r] = Append(k.inbox[r], e)
  <2>1. k.inbox[r] \in Seq(Event) /\ given \in Versions \cup {None}
    BY DEF Clients, Read
  <2>2. (~n.views[DocOf[r]].synced) \in BOOLEAN
    OBVIOUS
  <2>3. e \in Event /\ e.content = k.views[DocOf[r]].content
    BY <2>2, SnapshotTyped
  <2>4. e.content = s.cache
    BY <1>1, <1>3, <2>3
  <2> HIDE DEF e, given
  <2>5. /\ Follow(k.inbox[r], given, latest) /\ ~Failing(k.inbox[r])
        /\ Reaches(KnownVersion(s), LastOf(k.inbox[r], given))
        /\ rs[r].status # "done" /\ rs[r].status # "idle" /\ ~Queued(w, "add", r)
    BY <1>3 DEF ReaderFollows, LastGiven, given
  <2>6. /\ Follow(n.inbox[r], given, latest)
        /\ LastOf(n.inbox[r], given) = VersionOf(s.cache)
    BY <1>3, <2>1, <2>3, <2>4, <2>5, SnapshotFollows
  <2>7. Reaches(KnownVersion(s), VersionOf(s.cache))
    BY KnownTyped
  <2> QED BY <1>3, <2>5, <2>6, <2>7 DEF ReaderFollows, LastGiven, given
<1> QED BY <1>2, <1>3 DEF News

\* What the invariant of the state says of a reader and the document it reads.
LEMMA ReaderFacts ==
  ASSUME IInv, TokensSound, NEW r \in Readers
  PROVE  LET d == DocOf[r]
             listens == r \in client.views[d].listeners
         IN /\ d \in Docs /\ store[d] \in Stored /\ reads[r] \in Read
            /\ client.inbox[r] \in Seq(Event) /\ client.views[d] \in View
            /\ Known(VersionOf(store[d].cache), db[d])
            /\ listens => /\ client.views[d].on /\ d \in conn.targets
                          /\ client.views[d].content = store[d].cache
                          /\ ~Failing(client.inbox[r])
                          /\ reads[r].status # "idle" /\ ~Queued(work, "add", r)
            /\ reads[r].status = "idle" \/ Queued(work, "add", r) => client.inbox[r] = <<>>
<1> DEFINE d == DocOf[r]
<1>1. d \in Docs
  BY ReadersAssumption
<1>2. /\ store[d] \in Stored /\ reads[r] \in Read
      /\ client.inbox[r] \in Seq(Event) /\ client.views[d] \in View
  BY <1>1 DEF IInv, BackendTyped, ClientTyped, Clients
<1>3. TableOf(client.views[d], d \in conn.targets, store[d].cache)
  BY <1>1 DEF IInv, Tables
<1>4. ReaderSound(client, work, reads, r)
  BY DEF IInv, ReadersSound
<1>5. Known(VersionOf(store[d].cache), db[d])
  <2>1. Bounded(wire[d], agg[d], store[d], db[d])
    BY <1>1 DEF TokensSound, VersionsBounded
  <2> QED BY <2>1 DEF Bounded, Known, VersionOf
<1> QED BY <1>1, <1>2, <1>3, <1>4, <1>5 DEF TableOf, ReaderSound

\* A step that ends in news, as to the documents and the store there are.
LEMMA StepFollows ==
  ASSUME IInv, TokensSound, IInv', UNCHANGED <<db, store, reads>>,
         NEW k \in Clients, News(k, client'), NEW r \in Readers,
         ReaderFollows(k, work', reads, store[DocOf[r]], db[DocOf[r]], r)
  PROVE  ReaderFollows(client', work', reads', store'[DocOf[r]], db'[DocOf[r]], r)
<1> DEFINE d == DocOf[r]
<1>1. /\ d \in Docs /\ store[d] \in Stored /\ Known(VersionOf(store[d].cache), db[d])
      /\ reads \in [Readers -> Read]
  BY ReaderFacts DEF IInv, ClientTyped
<1>2. client' \in Clients
  BY DEF IInv, ClientTyped
<1>3. (r \in client'.views[d].listeners) <=> (r \in k.views[d].listeners)
  BY <1>1 DEF News, Informed
<1>4. ASSUME r \in client'.views[d].listeners
      PROVE  /\ client'.views[d].content = store[d].cache /\ ~Failing(client'.inbox[r])
             /\ reads[r].status # "idle" /\ ~Queued(work', "add", r)
  <2>1. TableOf(client'.views[d], d \in conn'.targets, store'[d].cache)
    BY <1>1 DEF IInv, Tables, TableOf
  <2>2. ReaderSound(client', work', reads', r)
    BY DEF IInv, ReadersSound, ReaderSound, Queued, Failing
  <2> QED BY <1>4, <2>1, <2>2 DEF TableOf, ReaderSound
<1>5. ~Failing(client'.inbox[r]) => ~Failing(k.inbox[r])
  <2> DEFINE e == SnapshotOf(k, r, ~client'.views[d].synced)
  <2>1. client'.inbox[r] = k.inbox[r] \/ client'.inbox[r] = Append(k.inbox[r], e)
    BY DEF News
  <2>2. (~client'.views[d].synced) \in BOOLEAN
    OBVIOUS
  <2>3. e \in Event /\ k.inbox[r] \in Seq(Event)
    BY <2>2, SnapshotTyped DEF Clients
  <2> HIDE DEF e
  <2> QED BY <2>1, <2>3, FailingByAppend
<1> HIDE DEF d
<1>6. ReaderFollows(client', work', reads, store[d], db[d], r)
  BY <1>1, <1>3, <1>4, <1>5, NewsFollows DEF d
<1> QED BY <1>6 DEF d

-----------------------------------------------------------------------------
(* Readers, step by step.                                                  *)

\* A call queues a reader that was given nothing.
LEMMA CallFollows ==
  ASSUME EventsSound, NEW c \in Readers, Call(c)
  PROVE  ReadersFollow'
<1> DEFINE task == [op |-> "add", reader |-> c]
<1>1. /\ reads[c].status = "idle" /\ reads' = [reads EXCEPT ![c].status = "waiting"]
      /\ work' = Append(work, task) /\ UNCHANGED <<db, store, client, muted>>
  BY DEF Call
<1>2. task \in Task /\ \A q : task = [op |-> "add", reader |-> q] <=> q = c
  BY SameTask DEF Task
<1> HIDE DEF task
<1>3. work \in Seq(Task) /\ reads \in [Readers -> Read]
  BY DEF EventsSound, IInv, ClientTyped
<1>4. \A q : Queued(work', "add", q) <=> Queued(work, "add", q) \/ q = c
  BY <1>1, <1>2, <1>3, QueuedByAppend
<1>5. /\ reads'[c].status = "waiting" /\ reads'[c].given = reads[c].given
      /\ \A q \in Readers \ {c} : reads'[q] = reads[q]
  BY <1>1, <1>3 DEF Read
<1>6. ASSUME NEW r \in Readers \ muted
      PROVE  ReaderFollows(client, work', reads', store[DocOf[r]], db[DocOf[r]], r)
  <2>1. ReaderFollows(client, work, reads, store[DocOf[r]], db[DocOf[r]], r)
    BY DEF EventsSound, ReadersFollow
  <2>2. CASE r = c
    BY <1>1, <1>4, <1>5, <2>1, <2>2 DEF ReaderFollows, LastGiven
  <2>3. CASE r # c
    BY <1>4, <1>5, <2>1, <2>3 DEF ReaderFollows, LastGiven
  <2> QED BY <2>2, <2>3
<1> QED BY <1>1, <1>6 DEF ReadersFollow, ReaderFollows, LastGiven, Queued, Follow

\* A write makes every version known so far an older one.
LEMMA WriteFollows ==
  ASSUME EventsSound, NEW w \in Docs, Write(w)
  PROVE  ReadersFollow'
<1>1. db' = [db EXCEPT ![w] = @ + 1] /\ UNCHANGED <<store, client, work, muted, reads>>
  BY DEF Write
<1>2. ASSUME NEW r \in Readers \ muted
      PROVE  ReaderFollows(client, work, reads, store[DocOf[r]], db'[DocOf[r]], r)
  <2> DEFINE d == DocOf[r]
  <2>1. ReaderFollows(client, work, reads, store[d], db[d], r)
    BY DEF EventsSound, ReadersFollow
  <2>2. d \in Docs /\ db \in [Docs -> Versions] /\ client.inbox[r] \in Seq(Event)
    BY ReadersAssumption DEF EventsSound, IInv, BackendTyped, ClientTyped, Clients
  <2>3. db[d] \in Nat /\ db'[d] \in Nat /\ db[d] <= db'[d]
    BY <1>1, <2>2, ReadersAssumption DEF Versions
  <2>4. ASSUME NEW i \in 1..Len(client.inbox[r])
        PROVE  Known(VersionOf(client.inbox[r][i].content), db'[d])
    <3>1. client.inbox[r][i] \in Event
      BY <2>2, <2>4, ElementOfSeq
    <3>2. client.inbox[r][i].content \in Content \cup {None}
      BY <3>1 DEF Event
    <3>3. VersionOf(client.inbox[r][i].content) \in Versions \cup {None}
      BY <3>2, VersionTyped
    <3>4. Known(VersionOf(client.inbox[r][i].content), db[d])
      BY <2>1, <2>4 DEF ReaderFollows, Follow
    <3> QED BY <2>3, <3>3, <3>4 DEF Known, Versions
  <2>5. Follow(client.inbox[r], reads[r].given, db'[d])
    BY <2>1, <2>4 DEF ReaderFollows, Follow
  <2> QED BY <2>1, <2>5 DEF ReaderFollows
<1> QED BY <1>1, <1>2 DEF ReadersFollow, ReaderFollows, LastGiven, Queued, Follow

\* What taking an event leaves alone.
LEMMA DeliverElsewhere ==
  ASSUME IInv, NEW r \in Readers, Deliver(r)
  PROVE  /\ UNCHANGED <<db, conn, wire, agg, store>> /\ muted \subseteq muted'
         /\ client'.views = client.views /\ client'.raised = client.raised
         /\ \A q \in Readers \ {r} : client'.inbox[q] = client.inbox[q] /\ reads'[q] = reads[q]
         /\ \A q : Queued(work', "add", q) <=> Queued(work, "add", q)
         /\ r \in muted => r \in muted'
<1> DEFINE task == [op |-> "remove", reader |-> r]
<1>1. /\ client' = [client EXCEPT !.inbox[r] = Tail(client.inbox[r])]
      /\ UNCHANGED <<db, conn, wire, agg, store>> /\ muted \subseteq muted'
      /\ \A q \in Readers \ {r} : reads'[q] = reads[q]
      /\ work' = work \/ work' = Append(work, task)
  BY DEF Deliver, IInv, ClientTyped
<1>2. client'.views = client.views /\ client'.raised = client.raised
      /\ \A q \in Readers \ {r} : client'.inbox[q] = client.inbox[q]
  BY <1>1 DEF IInv, ClientTyped, Clients
<1>3. task \in Task /\ \A q : task # [op |-> "add", reader |-> q]
  BY SameTask DEF Task
<1> HIDE DEF task
<1>4. \A q : Queued(work', "add", q) <=> Queued(work, "add", q)
  <2>1. work \in Seq(Task)
    BY DEF IInv, ClientTyped
  <2>2. \A op, q : Queued(Append(work, task), op, q)
                     <=> Queued(work, op, q) \/ task = [op |-> op, reader |-> q]
    BY <1>3, <2>1, QueuedByAppend, Zenon
  <2> QED BY <1>1, <1>3, <2>2
<1> QED BY <1>1, <1>2, <1>4

\* An event reaches a reader that waits: it is given a version the document has
\* had, none older than before, and the events left follow it.  After an error
\* none is left.
LEMMA Delivered ==
  ASSUME EventsSound, NEW r \in Readers, Deliver(r), r \notin muted
  PROVE  LET q == client.inbox[r]
             v == VersionOf(Head(q).content)
         IN /\ reads[r].status = "waiting"
            /\ Head(q) \in Event /\ v \in Versions \cup {None}
            /\ Known(v, db[DocOf[r]]) /\ IsNewer(v, reads[r].given)
            /\ client'.inbox[r] = Tail(q) /\ Follow(Tail(q), v, db[DocOf[r]])
            /\ LastOf(Tail(q), v) = LastGiven(client, reads, r)
            /\ reads' = [reads EXCEPT ![r] = Given(r, Head(q))]
            /\ r \in Gets /\ Head(q).ok => r \in muted'
            /\ ~Head(q).ok => Tail(q) = <<>> /\ r \notin client.views[DocOf[r]].listeners
            /\ ~Queued(work, "add", r)
<1> DEFINE q == client.inbox[r]
           v == VersionOf(Head(q).content)
<1>1. /\ q # <<>> /\ client' = [client EXCEPT !.inbox[r] = Tail(q)]
      /\ reads' = [reads EXCEPT ![r] = Given(r, Head(q))]
      /\ r \in Gets /\ Head(q).ok => r \in muted'
  BY DEF Deliver
<1>2. /\ client \in Clients /\ q \in Seq(Event) /\ reads[r] \in Read
      /\ reads[r].status = "idle" \/ Queued(work, "add", r) => q = <<>>
      /\ r \in client.views[DocOf[r]].listeners => ~Failing(q)
  BY ReaderFacts DEF EventsSound, IInv, ClientTyped
<1>3. ReaderFollows(client, work, reads, store[DocOf[r]], db[DocOf[r]], r)
  BY DEF EventsSound, ReadersFollow
<1>4. reads[r].status = "waiting" /\ ~Queued(work, "add", r)
  BY <1>1, <1>2, <1>3 DEF ReaderFollows, Read
<1>5. client'.inbox[r] = Tail(q)
  BY <1>1, <1>2 DEF Clients
<1>6. Follow(q, reads[r].given, db[DocOf[r]])
  BY <1>3 DEF ReaderFollows
<1>7. ~Head(q).ok => r \notin client.views[DocOf[r]].listeners
  BY <1>1, <1>2, FailingByTail
<1> HIDE DEF q
<1>8. /\ Head(q) \in Event /\ Tail(q) \in Seq(Event)
      /\ Known(v, db[DocOf[r]]) /\ IsNewer(v, reads[r].given)
      /\ Follow(Tail(q), v, db[DocOf[r]])
      /\ LastOf(Tail(q), v) = LastOf(q, reads[r].given)
      /\ ~Head(q).ok => Tail(q) = <<>>
  BY <1>1, <1>2, <1>6, FollowByTail
<1>9. v \in Versions \cup {None}
  <2>1. Head(q).content \in Content \cup {None}
    BY <1>8 DEF Event
  <2> QED BY <2>1, VersionTyped
<1> QED BY <1>1, <1>4, <1>5, <1>7, <1>8, <1>9 DEF q, LastGiven

\* A reader that takes an event still follows.
LEMMA DeliverFollows ==
  ASSUME EventsSound, NEW c \in Readers, Deliver(c)
  PROVE  ReadersFollow'
<1>1. IInv /\ reads \in [Readers -> Read]
  BY DEF EventsSound, IInv, ClientTyped
<1>2. /\ UNCHANGED <<db, store>> /\ muted \subseteq muted'
      /\ client'.views = client.views /\ client'.raised = client.raised
      /\ \A q \in Readers \ {c} : client'.inbox[q] = client.inbox[q] /\ reads'[q] = reads[q]
      /\ \A q : Queued(work', "add", q) <=> Queued(work, "add", q)
  BY <1>1, DeliverElsewhere
<1>3. ASSUME NEW r \in Readers \ muted'
      PROVE  ReaderFollows(client', work', reads', store[DocOf[r]], db[DocOf[r]], r)
  <2>1. ReaderFollows(client, work, reads, store[DocOf[r]], db[DocOf[r]], r)
    BY <1>2 DEF EventsSound, ReadersFollow
  <2>2. CASE r # c
    BY <1>2, <2>1, <2>2 DEF ReaderFollows, LastGiven
  <2>3. CASE r = c
    <3> DEFINE q == client.inbox[c]
               v == VersionOf(Head(q).content)
    <3>1. c \notin muted
      BY <1>2, <2>3
    <3>2. /\ reads[c].status = "waiting" /\ ~Queued(work, "add", c)
          /\ client'.inbox[c] = Tail(q) /\ Follow(Tail(q), v, db[DocOf[c]])
          /\ LastOf(Tail(q), v) = LastGiven(client, reads, c)
          /\ reads' = [reads EXCEPT ![c] = Given(c, Head(q))]
          /\ r \in Gets /\ Head(q).ok => r \in muted'
          /\ ~Head(q).ok => Tail(q) = <<>> /\ c \notin client.views[DocOf[c]].listeners
      BY <2>3, <3>1, Delivered
    <3> HIDE DEF q, v
    <3>3. CASE Head(q).ok
      <4>1. c \notin Gets /\ reads'[c] = [status |-> "waiting", given |-> v]
        BY <1>1, <2>3, <3>2, <3>3 DEF Given, v
      <4> QED BY <1>2, <2>1, <2>3, <3>2, <4>1 DEF ReaderFollows, LastGiven
    <3>4. CASE ~Head(q).ok
      <4>1. reads'[c].status = "done"
        BY <1>1, <3>2, <3>4 DEF Given, Read
      <4>2. Follow(<<>>, reads'[c].given, db[DocOf[c]])
        BY EmptySeq DEF Follow
      <4> QED BY <1>2, <2>3, <3>2, <3>4, <4>1, <4>2 DEF ReaderFollows
    <3> QED BY <3>3, <3>4
  <2> QED BY <2>2, <2>3
<1> QED BY <1>2, <1>3 DEF ReadersFollow, ReaderFollows, LastGiven, Queued, Follow

\* A reader that joins was given nothing, so that it may be given anything.
LEMMA AddFollows ==
  ASSUME EventsSound, IInv', NEW c \in Readers, AddQueryListener(c)
  PROVE  ReadersFollow'
<1>1. IInv /\ TokensSound /\ SyncedRaised(client)
  BY DEF EventsSound
<1>2. /\ work # <<>> /\ Head(work) = [op |-> "add", reader |-> c] /\ work' = Tail(work)
      /\ UNCHANGED <<db, store, muted, reads>>
      /\ \E k : Listening(c, k) /\ News(k, client')
  BY <1>1, AddListens
<1>3. PICK k : Listening(c, k) /\ News(k, client')
  BY <1>2
<1>4. /\ \A op, q : Queued(work', op, q) => Queued(work, op, q)
      /\ Queued(work, "add", c) /\ ~Queued(work', "add", c)
  <2>1. work \in Seq(Task) /\ AddedOnce(work)
    BY <1>1 DEF IInv, ClientTyped
  <2>2. /\ \A op, r : Queued(work, op, r)
                        <=> Queued(Tail(work), op, r) \/ Head(work) = [op |-> op, reader |-> r]
        /\ Head(work).op = "add" => ~Queued(Tail(work), "add", Head(work).reader)
    BY <1>2, <2>1, QueuedByTail
  <2> QED BY <1>2, <2>2
<1>5. ASSUME NEW r \in Readers \ muted
      PROVE  ReaderFollows(k, work', reads, store[DocOf[r]], db[DocOf[r]], r)
  <2> DEFINE d == DocOf[r]
  <2>1. ReaderFollows(client, work, reads, store[d], db[d], r)
    BY DEF EventsSound, ReadersFollow
  <2>2. k.inbox = client.inbox /\ k.raised = client.raised /\ d \in Docs
    BY <1>3, ReadersAssumption DEF Listening
  <2>3. CASE r = c
    <3>1. client.inbox[r] = <<>> /\ reads[r].given = None /\ reads[r].status = "waiting"
      <4>1. ReaderSound(client, work, reads, r)
        BY <1>1 DEF IInv, ReadersSound
      <4> QED BY <1>4, <2>1, <2>3, <4>1 DEF ReaderSound, ReaderFollows
    <3>2. LastGiven(k, reads, r) = None
      BY <2>2, <3>1 DEF LastGiven, LastOf
    <3> QED BY <1>4, <2>1, <2>2, <2>3, <3>1, <3>2 DEF ReaderFollows, Reaches
  <2>4. CASE r # c
    <3>1. r \in k.views[d].listeners => r \in client.views[d].listeners
      BY <1>3, <2>2, <2>4 DEF Listening
    <3> QED BY <1>4, <2>1, <2>2, <3>1 DEF ReaderFollows, LastGiven
  <2> QED BY <2>3, <2>4
<1>6. \A r \in Readers \ muted :
        ReaderFollows(client', work', reads', store'[DocOf[r]], db'[DocOf[r]], r)
  BY <1>1, <1>2, <1>3, <1>5, StepFollows DEF Listening
<1> QED BY <1>2, <1>6 DEF ReadersFollow, ReaderFollows, LastGiven, Queued, Follow

\* A reader that leaves follows no view any more, and the others follow theirs.
LEMMA RemoveFollows ==
  ASSUME EventsSound, IInv', NEW c \in Readers, RemoveQueryListener(c)
  PROVE  ReadersFollow'
<1>1. IInv /\ TokensSound /\ SyncedRaised(client)
  BY DEF EventsSound
<1>2. /\ work # <<>> /\ work' = Tail(work) /\ UNCHANGED <<db, store, muted, reads>>
      /\ \E k : Parting(c, k) /\ News(k, client')
  BY <1>1, RemoveParts
<1>3. PICK k : Parting(c, k) /\ News(k, client')
  BY <1>2
<1>4. \A op, q : Queued(work', op, q) => Queued(work, op, q)
  <2>1. work \in Seq(Task)
    BY <1>1 DEF IInv, ClientTyped
  <2>2. \A op, r : Queued(work, op, r)
                     <=> Queued(Tail(work), op, r) \/ Head(work) = [op |-> op, reader |-> r]
    BY <1>2, <2>1, QueuedByTail
  <2> QED BY <1>2, <2>2
<1>5. ASSUME NEW r \in Readers \ muted
      PROVE  ReaderFollows(k, work', reads, store[DocOf[r]], db[DocOf[r]], r)
  <2> DEFINE d == DocOf[r]
  <2>1. ReaderFollows(client, work, reads, store[d], db[d], r)
    BY DEF EventsSound, ReadersFollow
  <2>2. k.inbox = client.inbox /\ k.raised = client.raised /\ d \in Docs
    BY <1>3, ReadersAssumption DEF Parting
  <2>3. r \in k.views[d].listeners => r \in client.views[d].listeners
    BY <1>3, <2>2 DEF Parting
  <2> QED BY <1>4, <2>1, <2>2, <2>3 DEF ReaderFollows, LastGiven
<1>6. \A r \in Readers \ muted :
        ReaderFollows(client', work', reads', store'[DocOf[r]], db'[DocOf[r]], r)
  BY <1>1, <1>2, <1>3, <1>5, StepFollows DEF Parting
<1> QED BY <1>2, <1>6 DEF ReadersFollow, ReaderFollows, LastGiven, Queued, Follow

\* A step of the connection brings news at most.
LEMMA ConnectionFollows ==
  ASSUME EventsSound, IInv', ConnectionStep
  PROVE  ReadersFollow'
<1>1. IInv /\ TokensSound /\ client \in Clients
  BY DEF EventsSound, IInv, ClientTyped
<1>2. News(client, client') /\ UNCHANGED <<db, store, work, muted, reads>>
  BY <1>1, ConnectionStepNews
<1>3. \A r \in Readers \ muted :
        ReaderFollows(client, work', reads, store[DocOf[r]], db[DocOf[r]], r)
  BY <1>2 DEF EventsSound, ReadersFollow
<1>4. \A r \in Readers \ muted :
        ReaderFollows(client', work', reads', store'[DocOf[r]], db'[DocOf[r]], r)
  BY <1>1, <1>2, <1>3, StepFollows
<1> QED BY <1>2, <1>4 DEF ReadersFollow, ReaderFollows, LastGiven, Queued, Follow

\* What is heard before a refusal or a snapshot keeps readers following the store
\* as it is.
LEMMA HeardFollows ==
  ASSUME EventsSound, NEW heard, News(client, heard), NEW r \in Readers \ muted
  PROVE  /\ ReaderFollows(heard, work, reads, store[DocOf[r]], db[DocOf[r]], r)
         /\ ReaderSound(heard, work, reads, r)
         /\ heard \in Clients /\ heard.inbox[r] \in Seq(Event)
         /\ heard.views[DocOf[r]].listeners = client.views[DocOf[r]].listeners
         /\ heard.views[DocOf[r]].content = client.views[DocOf[r]].content
<1> DEFINE d == DocOf[r]
<1>1. IInv /\ TokensSound /\ client \in Clients /\ reads \in [Readers -> Read]
      /\ ReaderSound(client, work, reads, r)
      /\ ReaderFollows(client, work, reads, store[d], db[d], r)
  BY DEF EventsSound, IInv, ClientTyped, ReadersSound, ReadersFollow
<1>2. /\ d \in Docs /\ store[d] \in Stored /\ Known(VersionOf(store[d].cache), db[d])
      /\ r \in client.views[d].listeners =>
           /\ client.views[d].content = store[d].cache /\ ~Failing(client.inbox[r])
           /\ reads[r].status # "idle" /\ ~Queued(work, "add", r)
  BY <1>1, ReaderFacts
<1>3. /\ heard \in Clients /\ heard.views[d].listeners = client.views[d].listeners
      /\ heard.views[d].content = client.views[d].content
  BY <1>2 DEF News, Informed
<1>4. ReaderSound(heard, work, reads, r)
  BY <1>1, InformedKeeps DEF News
<1>5. heard.inbox[r] \in Seq(Event)
  BY <1>3 DEF Clients
<1> HIDE DEF d
<1>6. ReaderFollows(heard, work, reads, store[d], db[d], r)
  BY <1>1, <1>2, <1>3, NewsFollows DEF d
<1> QED BY <1>3, <1>4, <1>5, <1>6 DEF d

\* A refusal is the last event of those that listened.
LEMMA FailsFollows ==
  ASSUME EventsSound, NothingCrossed', NEW c \in Docs, TargetFails(c)
  PROVE  ReadersFollow'
<1>1. IInv /\ client \in Clients /\ OwnListeners(client)
  BY DEF EventsSound, IInv, ClientTyped
<1>2. UNCHANGED <<db, store, work, muted, reads>> /\ \E heard : Refused(c, heard)
  BY <1>1, FailsPlainly, FailsNews
<1>3. PICK heard : Refused(c, heard)
  BY <1>2
<1>4. Failure \in Event /\ Failure.content = None /\ VersionOf(None) = None
  BY DEF Failure, Event, VersionOf
<1>5. ASSUME NEW r \in Readers \ muted
      PROVE  ReaderFollows(client', work, reads, store[DocOf[r]], db[DocOf[r]], r)
  <2> DEFINE d == DocOf[r]
  <2>1. /\ ReaderFollows(heard, work, reads, store[d], db[d], r)
        /\ ReaderSound(heard, work, reads, r) /\ heard.inbox[r] \in Seq(Event)
        /\ heard.views[d].listeners = client.views[d].listeners
    BY <1>3, HeardFollows DEF Refused
  <2>2. d \in Docs
    BY ReadersAssumption
  <2>3. CASE r \in client.views[c].listeners
    <3>1. d = c /\ client'.inbox[r] = Append(heard.inbox[r], Failure)
          /\ client'.views[d] = NoView /\ client'.raised = heard.raised
      BY <1>1, <1>3, <2>3 DEF Refused, OwnListeners
    <3>2. r \notin client'.views[d].listeners
      BY <3>1 DEF NoView
    <3>3. r \in heard.views[d].listeners
      BY <2>1, <2>3, <3>1
    <3>4. ~Failing(heard.inbox[r]) /\ Follow(heard.inbox[r], reads[r].given, db[d])
          /\ reads[r].status \notin {"done", "idle"} /\ ~Queued(work, "add", r)
      BY <2>1, <3>3 DEF ReaderSound, ReaderFollows
    <3>5. Known(None, db[d]) /\ IsNewer(None, LastOf(heard.inbox[r], reads[r].given))
      BY DEF Known, IsNewer
    <3>6. Follow(client'.inbox[r], reads[r].given, db[d])
      BY <1>4, <2>1, <3>1, <3>4, <3>5, FollowByAppend
    <3> QED BY <3>2, <3>4, <3>6 DEF ReaderFollows
  <2>4. CASE r \notin client.views[c].listeners
    <3>1. client'.inbox[r] = heard.inbox[r] /\ client'.raised = heard.raised
      BY <1>3, <2>4 DEF Refused
    <3>2. r \in client'.views[d].listeners => r \in heard.views[d].listeners
      BY <1>3, <2>1, <2>2 DEF Refused, NoView
    <3> QED BY <2>1, <3>1, <3>2 DEF ReaderFollows, LastGiven
  <2> QED BY <2>3, <2>4
<1> QED BY <1>2, <1>5 DEF ReadersFollow, ReaderFollows, LastGiven, Queued, Follow

\* What a snapshot makes of the store stands for as much as before, unless a
\* document that exists is purged, or nobody was given anything.
LEMMA AppliedReaches ==
  ASSUME EventsSound, NothingCrossed, W!IsOpen(conn), NEW r \in Readers \ muted,
         \A d \in Docs : wire[d].on => wire[d].told # None,
         r \in client.views[DocOf[r]].listeners,
         NEW last \in Versions \cup {None}, Reaches(KnownVersion(store[DocOf[r]]), last),
         agg[DocOf[r]].update = Purge => last = LastGiven(client, reads, r)
  PROVE  \/ Reaches(KnownVersion(Applied(DocOf[r])), last)
         \/ Exists(store[DocOf[r]].cache) /\ Applied(DocOf[r]).cache = None
<1> DEFINE d == DocOf[r]
           s == store[d]
           n == Applied(d)
<1>1. IInv /\ TokensSound /\ d \in Docs
  BY ReadersAssumption DEF EventsSound
<1>2. /\ n \in Stored
      /\ n.resume = IF IsActive(d) THEN wire[d].told ELSE s.resume
      /\ \/ n.cache = s.cache
         \/ n.cache = None /\ agg[d].update = Purge
         \/ /\ n.cache \in Content /\ n.cache # None
            /\ s.cache # None => n.cache.version > s.cache.version
            /\ Reaches(n.cache.version, s.resume)
  BY <1>1, AppliedCache
<1>3. IsActive(d) => /\ wire[d].told \in Versions
                    /\ Reaches(wire[d].told, s.resume)
  BY <1>1, AppliedActive
<1>4. s \in Stored
  BY <1>1, ReaderFacts
<1>5. Reaches(KnownVersion(s), last)
  OBVIOUS
<1>7. PurgeSound(d)
  BY <1>1 DEF EventsSound, PurgesSound
<1> HIDE DEF n, s, d
<1>8. /\ KnownVersion(s) \in Versions \cup {None} /\ VersionOf(s.cache) \in Versions \cup {None}
      /\ s.cache # None => KnownVersion(s) = VersionOf(s.cache)
      /\ s.cache = None => KnownVersion(s) = s.resume
  BY <1>4, KnownTyped
<1>9. /\ KnownVersion(n) \in Versions \cup {None}
      /\ n.cache # None => KnownVersion(n) = VersionOf(n.cache)
      /\ n.cache = None => KnownVersion(n) = n.resume
  BY <1>2, KnownTyped
<1>10. CASE n.cache = s.cache /\ s.cache # None
  BY <1>5, <1>8, <1>9, <1>10 DEF n, d
<1>11. CASE n.cache = None /\ s.cache = None
  <2>1. IsActive(d) => Reaches(wire[d].told, last)
    BY <1>3, <1>5, <1>8, <1>11, ReachesThrough
  <2> QED BY <1>2, <1>5, <1>8, <1>9, <1>11, <2>1 DEF n, d
<1>12. CASE n.cache = None /\ agg[d].update = Purge /\ s.cache # None
  <2>1. CASE IsActive(d) /\ Reaches(wire[d].told, VersionOf(s.cache))
    <3>1. Reaches(VersionOf(s.cache), last)
      BY <1>5, <1>8, <1>12
    <3>2. Reaches(wire[d].told, last)
      BY <1>3, <1>8, <2>1, <3>1, ReachesThrough
    <3> QED BY <1>2, <1>9, <1>12, <2>1, <3>2 DEF n, d
  <2>2. CASE Exists(s.cache)
    BY <1>12, <2>2 DEF n, s, d
  <2>3. CASE \A q \in client.views[d].listeners \ muted : LastGiven(client, reads, q) = None
    <3>1. last = None
      BY <1>12, <2>3 DEF d
    <3> QED BY <3>1 DEF Reaches
  <2> QED BY <1>7, <1>12, <2>1, <2>2, <2>3 DEF PurgeSound, Unshown, s
<1>13. CASE /\ n.cache \in Content /\ n.cache # None
            /\ s.cache # None => n.cache.version > s.cache.version
            /\ Reaches(n.cache.version, s.resume)
  <2>1. n.cache.version \in Versions /\ n.cache.version \in Nat /\ VersionOf(n.cache) = n.cache.version
    BY <1>13, VersionTyped
  <2>2. Reaches(n.cache.version, KnownVersion(s))
    <3>1. CASE s.cache = None
      BY <1>8, <1>13, <3>1
    <3>2. CASE s.cache # None
      <4>1. s.cache \in Content \cup {None}
        BY <1>4 DEF Stored
      <4>2. VersionOf(s.cache) = s.cache.version /\ s.cache.version \in Nat
        BY <3>2, <4>1, VersionTyped
      <4> QED BY <1>8, <1>13, <2>1, <3>2, <4>2, DataAssumption DEF Reaches
    <3> QED BY <3>1, <3>2
  <2>3. Reaches(n.cache.version, last)
    BY <1>5, <1>8, <2>1, <2>2, ReachesThrough
  <2> QED BY <1>9, <1>13, <2>1, <2>3 DEF n, d
<1> QED BY <1>2, <1>10, <1>11, <1>12, <1>13 DEF n, s, d

\* After a snapshot the views show what the store has become.
LEMMA SnapshotFollowsStore ==
  ASSUME EventsSound, NothingCrossed, IInv', TokensSound', Snapshot
  PROVE  ReadersFollow'
<1>1. IInv /\ TokensSound /\ client \in Clients /\ reads \in [Readers -> Read]
  BY DEF EventsSound, IInv, ClientTyped
<1>2. /\ W!IsOpen(conn) /\ \A d \in Docs : wire[d].on => wire[d].told # None
      /\ \A d \in Docs : store'[d] = Applied(d)
      /\ UNCHANGED <<db, work, muted, reads>>
  BY <1>1, SnapshotNews
<1>3. PICK heard, applied :
        /\ News(client, heard)
        /\ conn.online = "Online" => heard = client
        /\ Following(heard, applied) /\ News(applied, client')
        /\ \A d \in Docs : \A r \in applied.views[d].listeners :
             /\ heard.views[d].content # applied.views[d].content
             /\ Exists(heard.views[d].content) \/ Exists(applied.views[d].content)
             /\ r \in heard.raised
             => client'.inbox[r] =
                  Append(heard.inbox[r], SnapshotOf(applied, r, ~applied.views[d].synced))
  BY <1>1, SnapshotNews
<1>4. ASSUME NEW r \in Readers \ muted
      PROVE  ReaderFollows(client', work', reads', store'[DocOf[r]], db'[DocOf[r]], r)
  <2> DEFINE d == DocOf[r]
             listens == r \in client.views[d].listeners
             last == LastGiven(heard, reads, r)
  <2>1. /\ ReaderFollows(heard, work, reads, store[d], db[d], r)
        /\ ReaderSound(heard, work, reads, r) /\ heard.inbox[r] \in Seq(Event)
        /\ r \in heard.views[d].listeners <=> listens
        /\ heard.views[d].content = client.views[d].content
    BY <1>3, HeardFollows
  <2>2. /\ d \in Docs /\ store[d] \in Stored
        /\ listens => client.views[d].content = store[d].cache /\ client.views[d].on
    BY <1>1, ReaderFacts
  <2>3. /\ applied \in Clients /\ applied.inbox = heard.inbox /\ applied.raised = heard.raised
        /\ r \in applied.views[d].listeners <=> listens
    BY <1>3, <2>1, <2>2 DEF Following
  <2>4. listens => applied.views[d].content = store'[d].cache
    <3>1. listens => applied.views[d].on
      BY <1>3, <2>2 DEF Following, News, Informed
    <3> QED BY <1>3, <2>2, <3>1 DEF Following
  <2>5. /\ r \in client'.views[d].listeners <=> listens
        /\ client' \in Clients /\ applied.raised \subseteq client'.raised
    BY <1>3, <2>2, <2>3 DEF News, Informed
  <2>6. store'[d] \in Stored /\ Known(VersionOf(store'[d].cache), db[d])
    <3>1. store'[d] \in Stored
      BY <2>2 DEF IInv, BackendTyped
    <3>2. Bounded(wire'[d], agg'[d], store'[d], db'[d])
      BY <2>2 DEF TokensSound, VersionsBounded, Bounded
    <3> QED BY <1>2, <3>1, <3>2 DEF Bounded, Known, VersionOf
  <2>7. listens => /\ ~Failing(heard.inbox[r]) /\ reads[r].status # "idle"
                   /\ ~Queued(work, "add", r)
    BY <2>1 DEF ReaderSound
  <2>8. CASE listens => Reaches(KnownVersion(store'[d]), last)
    <3>1. ReaderFollows(applied, work, reads, store'[d], db[d], r)
      BY <2>1, <2>3, <2>8 DEF ReaderFollows, LastGiven
    <3>2. listens => client'.views[d].content = store'[d].cache
      BY <1>3, <2>2, <2>4 DEF News, Informed
    <3> HIDE DEF d, listens, last
    <3>3. ReaderFollows(client', work, reads, store'[d], db[d], r)
      BY <1>1, <1>3, <2>3, <2>6, <2>7, <3>1, <3>2, NewsFollows DEF d, listens
    <3> QED BY <1>2, <3>3 DEF d, ReaderFollows, Queued, LastGiven
  <2>9. CASE listens /\ Exists(store[d].cache) /\ store'[d].cache = None /\ last # None
    <3> DEFINE e == SnapshotOf(applied, r, ~applied.views[d].synced)
    <3>1. r \in heard.raised
      BY <2>1, <2>9 DEF ReaderFollows
    <3>2. heard.views[d].content = store[d].cache /\ applied.views[d].content = None
      BY <2>1, <2>2, <2>4, <2>9
    <3>3. heard.views[d].content # applied.views[d].content /\ Exists(heard.views[d].content)
      BY <2>9, <3>2 DEF Exists
    <3>4. client'.inbox[r] = Append(heard.inbox[r], e)
      BY <1>3, <2>2, <2>3, <2>9, <3>1, <3>3
    <3>5. (~applied.views[d].synced) \in BOOLEAN
      OBVIOUS
    <3>6. e \in Event /\ e.content = None
      BY <2>3, <3>2, <3>5, SnapshotTyped
    <3> HIDE DEF e
    <3>7. VersionOf(e.content) = None
      BY <3>6 DEF VersionOf
    <3>8. Known(None, db[d]) /\ IsNewer(None, LastOf(heard.inbox[r], reads[r].given))
      BY DEF Known, IsNewer
    <3>9. Follow(heard.inbox[r], reads[r].given, db[d]) /\ ~Failing(heard.inbox[r])
      BY <2>1, <2>7, <2>9 DEF ReaderFollows
    <3>10. /\ Follow(client'.inbox[r], reads[r].given, db[d])
           /\ LastGiven(client', reads, r) = None
      BY <2>1, <3>4, <3>6, <3>7, <3>8, <3>9, FollowByAppend DEF LastGiven
    <3>11. reads[r].status # "done"
      BY <2>1, <2>9 DEF ReaderFollows
    <3> QED BY <1>2, <2>5, <2>7, <2>9, <3>10, <3>11 DEF ReaderFollows, Reaches, Queued, LastGiven
  <2>10. listens /\ ~Reaches(KnownVersion(store'[d]), last)
           => Exists(store[d].cache) /\ store'[d].cache = None /\ last # None
    <3>1. SUFFICES ASSUME listens, ~Reaches(KnownVersion(store'[d]), last)
                   PROVE  Exists(store[d].cache) /\ store'[d].cache = None /\ last # None
      OBVIOUS
    <3>2. last # None
      BY <3>1 DEF Reaches
    <3>3. last \in Versions \cup {None} /\ Reaches(KnownVersion(store[d]), last)
      BY <1>1, <2>1, <3>1, LastTyped DEF LastGiven, Read, ReaderFollows
    <3>4. agg[d].update = Purge => last = LastGiven(client, reads, r)
      <4>1. agg[d].update # None => conn.online = "Online"
        BY <1>1, <2>2 DEF TokensSound, GatheredOnline
      <4> QED BY <1>3, <4>1, DataAssumption
    <3> HIDE DEF last, listens
    <3>5. \/ Reaches(KnownVersion(Applied(d)), last)
          \/ Exists(store[d].cache) /\ Applied(d).cache = None
      BY <1>2, <3>1, <3>3, <3>4, AppliedReaches DEF listens
    <3> QED BY <1>2, <2>2, <3>1, <3>2, <3>5
  <2> QED BY <2>8, <2>9, <2>10
<1> QED BY <1>2, <1>4 DEF ReadersFollow, ReaderFollows, LastGiven, Queued, Follow

-----------------------------------------------------------------------------
(* Purges, step by step.                                                   *)

\* A purge that was sound still is, when its target, the store and the views stay.
LEMMA PurgeKept ==
  ASSUME EventsSound, NEW d \in Docs, UNCHANGED <<store, muted, reads>>,
         client'.views[d] = client.views[d],
         \A r \in client.views[d].listeners : client'.inbox[r] = client.inbox[r],
         agg[d].update = Purge,
         IsActive(d) => IsActive(d)' /\ wire'[d].told = wire[d].told
  PROVE  PurgeSound(d)'
<1>1. PurgeSound(d)
  BY DEF EventsSound, PurgesSound
<1>2. CASE IsActive(d) /\ Reaches(wire[d].told, VersionOf(store[d].cache))
  BY <1>2 DEF PurgeSound, Reaches, VersionOf
<1>3. CASE Unshown(d)
  BY <1>3 DEF PurgeSound, Unshown, Exists, LastGiven, LastOf, VersionOf
<1> QED BY <1>1, <1>2, <1>3 DEF PurgeSound

\* Readers take events, and are left with what they were to be left with.
LEMMA DeliverPurges ==
  ASSUME EventsSound, NEW c \in Readers, Deliver(c)
  PROVE  PurgesSound'
<1>1. IInv /\ reads \in [Readers -> Read] /\ client \in Clients
  BY DEF EventsSound, IInv, ClientTyped
<1>2. /\ UNCHANGED <<db, conn, wire, agg, store>> /\ muted \subseteq muted'
      /\ client'.views = client.views
      /\ \A q \in Readers \ {c} : client'.inbox[q] = client.inbox[q] /\ reads'[q] = reads[q]
      /\ c \in muted => c \in muted'
  BY <1>1, DeliverElsewhere
<1>3. ASSUME NEW d \in Docs, Unshown(d)
      PROVE  Unshown(d)'
  <2>1. ASSUME NEW r \in client.views[d].listeners \ muted',
               LastGiven(client, reads, r) = None
        PROVE  LastGiven(client', reads', r) = None
    <3>1. r \in Readers /\ DocOf[r] = d
      BY <1>1 DEF Clients, View, IInv, ClientTyped, OwnListeners
    <3>2. CASE r # c
      BY <1>2, <2>1, <3>1, <3>2 DEF LastGiven
    <3>3. CASE r = c
      <4> DEFINE q == client.inbox[c]
                 v == VersionOf(Head(q).content)
      <4>1. c \notin muted
        BY <1>2, <3>3
      <4>2. /\ client'.inbox[c] = Tail(q)
            /\ LastOf(Tail(q), v) = LastGiven(client, reads, c)
            /\ reads' = [reads EXCEPT ![c] = Given(c, Head(q))]
            /\ c \in Gets /\ Head(q).ok => c \in muted'
            /\ ~Head(q).ok => c \notin client.views[DocOf[c]].listeners
        BY <4>1, Delivered
      <4> HIDE DEF q, v
      <4>3. Head(q).ok /\ c \notin Gets
        BY <2>1, <3>1, <3>3, <4>2
      <4>4. reads'[c].given = v
        BY <1>1, <4>2, <4>3 DEF Given, v
      <4> QED BY <2>1, <3>3, <4>2, <4>4 DEF LastGiven
    <3> QED BY <3>2, <3>3
  <2> QED BY <1>2, <1>3, <2>1 DEF Unshown, Exists, LastGiven, LastOf, VersionOf
<1> QED BY <1>2, <1>3 DEF EventsSound, PurgesSound, PurgeSound, IsActive, Reaches, VersionOf

\* A request changes what is under way, for its target, and nothing gathered.
LEMMA SendElsewhere ==
  ASSUME NEW e \in Docs, NEW request, SendRequest(e, request),
         wire \in [Docs -> Wire], agg \in [Docs -> Gathered]
  PROVE  \A d \in Docs : /\ agg'[d].update = agg[d].update /\ wire'[d].told = wire[d].told
                         /\ d # e => agg'[d] = agg[d]
<1>1. CASE W!IsOpen(conn)
  <2> DEFINE w == [wire[e] EXCEPT !.requests = Append(wire[e].requests, request)]
             a == [agg[e] EXCEPT !.out = agg[e].out + 1]
  <2>1. wire' = [wire EXCEPT ![e] = w] /\ agg' = [agg EXCEPT ![e] = a]
    BY <1>1 DEF SendRequest
  <2>2. w.told = wire[e].told /\ a.update = agg[e].update
    BY DEF Wire, Gathered
  <2> HIDE DEF w, a
  <2> QED BY <2>1, <2>2
<1>2. CASE ~W!IsOpen(conn)
  BY <1>2 DEF SendRequest
<1> QED BY <1>1, <1>2

\* A reader that joins a view whose document is to be purged unshown was given
\* nothing, and is given nothing as long as the client is online.
LEMMA AddPurges ==
  ASSUME EventsSound, NEW c \in Readers, AddQueryListener(c)
  PROVE  PurgesSound'
<1> DEFINE e == DocOf[c]
<1>1. IInv /\ TokensSound /\ SyncedRaised(client) /\ client \in Clients /\ OwnListeners(client)
      /\ e \in Docs /\ ConnSound(conn)
  BY ReadersAssumption DEF EventsSound, IInv, ClientTyped
<1>2. /\ UNCHANGED <<db, store, muted, reads>> /\ Queued(work, "add", c)
  <2>1. /\ work # <<>> /\ Head(work) = [op |-> "add", reader |-> c]
        /\ UNCHANGED <<db, store, muted, reads>>
    BY <1>1, AddListens
  <2>2. work \in Seq(Task)
    BY <1>1 DEF IInv, ClientTyped
  <2>3. \A op, r : Queued(work, op, r)
                     <=> Queued(Tail(work), op, r) \/ Head(work) = [op |-> op, reader |-> r]
    BY <2>1, <2>2, QueuedByTail
  <2> QED BY <2>1, <2>3
<1>3. PICK k : /\ Listening(c, k) /\ News(k, client') /\ client'.views = k.views
               /\ \A q \in Readers \ {c} : client'.inbox[q] = client.inbox[q]
               /\ c \in client'.raised \ client.raised => ShouldRaiseInitialEvent(k, c)
  BY <1>1, AddListens
<1>4. \/ UNCHANGED <<conn, wire, agg>>
      \/ /\ ~client.views[e].on /\ conn' = W!ListenTo(conn, e)
         /\ SendRequest(e, Watch(e))
  BY DEF AddQueryListener, Connect
<1>5. \A d \in Docs : /\ agg'[d].update = agg[d].update
                      /\ IsActive(d) => IsActive(d)' /\ wire'[d].told = wire[d].told
  <2>1. CASE UNCHANGED <<conn, wire, agg>>
    BY <2>1 DEF IsActive
  <2>2. CASE /\ ~client.views[e].on /\ conn' = W!ListenTo(conn, e)
             /\ SendRequest(e, Watch(e))
    <3>1. conn'.targets = conn.targets \cup {e}
      BY <1>1, <2>2, ListenSound
    <3>2. e \notin conn.targets
      BY <1>1, <2>2 DEF IInv, Tables, TableOf
    <3>3. wire \in [Docs -> Wire] /\ agg \in [Docs -> Gathered]
      BY <1>1 DEF IInv, BackendTyped
    <3>4. \A d \in Docs : /\ agg'[d].update = agg[d].update /\ wire'[d].told = wire[d].told
                          /\ d # e => agg'[d] = agg[d]
      BY <1>1, <2>2, <3>3, SendElsewhere
    <3> QED BY <3>1, <3>2, <3>4 DEF IsActive
  <2> QED BY <1>4, <2>1, <2>2
<1>6. ASSUME NEW d \in Docs, agg'[d].update = Purge
      PROVE  PurgeSound(d)'
  <2>1. agg[d].update = Purge /\ PurgeSound(d)
    BY <1>5, <1>6 DEF EventsSound, PurgesSound
  <2>2. client.online = "Online"
    BY <1>1, <2>1, DataAssumption DEF TokensSound, GatheredOnline, IInv, ClientTyped
  <2>3. CASE d # e
    <3>1. client'.views[d] = client.views[d]
      BY <1>3, <2>3 DEF Listening
    <3>2. \A r \in client.views[d].listeners : r \in Readers \ {c}
      BY <1>1, <2>3 DEF OwnListeners, Clients, View
    <3> QED BY <1>2, <1>3, <1>5, <2>1, <3>1, <3>2, PurgeKept
  <2>4. CASE d = e
    <3>1. CASE IsActive(d) /\ Reaches(wire[d].told, VersionOf(store[d].cache))
      BY <1>2, <1>5, <3>1 DEF PurgeSound, Reaches, VersionOf
    <3>2. CASE Unshown(d)
      <4>1. /\ ~client'.views[d].synced /\ ~k.views[d].synced
            /\ k.views[d].content = store[d].cache /\ k.online = "Online"
            /\ client'.views[d].listeners = client.views[d].listeners \cup {c}
        BY <1>3, <2>2, <2>4, <3>2 DEF Listening, Unshown
      <4>2. CASE Exists(store[d].cache)
        BY <1>2, <4>1, <4>2 DEF PurgeSound, Unshown, Exists
      <4>3. CASE /\ ~Exists(store[d].cache)
                 /\ \A r \in client.views[d].listeners \ muted : LastGiven(client, reads, r) = None
        <5>1. ASSUME c \notin muted
              PROVE  LastGiven(client', reads', c) = None
          <6>1. /\ ReaderFollows(client, work, reads, store[e], db[e], c)
                /\ client.inbox[c] = <<>>
            BY <1>1, <1>2, <5>1, ReaderFacts DEF EventsSound, ReadersFollow
          <6>2. reads[c].given = None /\ c \notin client.raised
            BY <1>2, <6>1 DEF ReaderFollows
          <6>3. ~ShouldRaiseInitialEvent(k, c)
            BY <2>4, <4>1, <4>3 DEF ShouldRaiseInitialEvent, Exists
          <6>4. c \notin client'.raised
            BY <1>3, <6>2, <6>3
          <6>5. client'.inbox[c] = <<>>
            BY <1>3, <6>1, <6>4 DEF News, Listening
          <6> QED BY <1>2, <6>2, <6>5 DEF LastGiven, LastOf
        <5>2. ASSUME NEW r \in client'.views[d].listeners \ muted'
              PROVE  LastGiven(client', reads', r) = None
          <6>1. CASE r = c
            BY <1>2, <5>1, <5>2, <6>1
          <6>2. CASE r # c
            <7>1. r \in client.views[d].listeners \ muted
              BY <1>2, <4>1, <5>2, <6>2
            <7>2. r \in Readers
              BY <1>1, <7>1 DEF Clients, View
            <7> QED BY <1>2, <1>3, <4>3, <6>2, <7>1, <7>2 DEF LastGiven
          <6> QED BY <6>1, <6>2
        <5> QED BY <4>1, <5>2 DEF PurgeSound, Unshown, LastGiven, LastOf, VersionOf
      <4> QED BY <3>2, <4>2, <4>3 DEF Unshown
    <3> QED BY <2>1, <3>1, <3>2 DEF PurgeSound
  <2> QED BY <2>3, <2>4
<1> QED BY <1>6 DEF PurgesSound, PurgeSound

\* A reader that leaves over an open stream changes its own view only; a purge of
\* a document nobody reads any more is shown to no one.
LEMMA RemovePurges ==
  ASSUME EventsSound, IInv', SyncedRaised(client'), NEW c \in Readers, RemoveQueryListener(c)
  PROVE  PurgesSound'
<1> DEFINE e == DocOf[c]
<1>1. IInv /\ TokensSound /\ SyncedRaised(client) /\ client \in Clients /\ OwnListeners(client)
      /\ e \in Docs /\ ConnSound(conn) /\ wire \in [Docs -> Wire] /\ agg \in [Docs -> Gathered]
  BY ReadersAssumption DEF EventsSound, IInv, ClientTyped, BackendTyped
<1>2. UNCHANGED <<db, store, muted, reads>>
  BY <1>1, RemoveParts
<1>3. PICK k : Parting(c, k) /\ (W!IsOpen(conn) => client' = k)
  BY <1>1, RemoveParts
<1>4. \/ UNCHANGED <<conn, wire, agg>>
      \/ /\ client.views[e].on /\ client.views[e].listeners \ {c} = {}
         /\ conn' = W!StopListeningTo(conn, e) /\ SendRequest(e, Unwatch)
  BY DEF RemoveQueryListener, Connect
<1>5. \A d \in Docs : /\ agg'[d].update = agg[d].update
                      /\ d # e /\ IsActive(d) => IsActive(d)' /\ wire'[d].told = wire[d].told
  <2>1. CASE UNCHANGED <<conn, wire, agg>>
    BY <2>1 DEF IsActive
  <2>2. CASE /\ client.views[e].on
             /\ conn' = W!StopListeningTo(conn, e) /\ SendRequest(e, Unwatch)
    <3>1. e \in conn.targets
      BY <1>1, <2>2 DEF IInv, Tables, TableOf
    <3>2. conn'.targets = conn.targets \ {e}
      BY <1>1, <2>2, <3>1, StopListeningSound
    <3>3. \A d \in Docs : /\ agg'[d].update = agg[d].update /\ wire'[d].told = wire[d].told
                          /\ d # e => agg'[d] = agg[d]
      BY <1>1, <2>2, SendElsewhere
    <3> QED BY <3>2, <3>3 DEF IsActive
  <2> QED BY <1>4, <2>1, <2>2
<1>6. ASSUME NEW d \in Docs, agg'[d].update = Purge
      PROVE  PurgeSound(d)'
  <2>1. agg[d].update = Purge /\ PurgeSound(d)
    BY <1>5, <1>6 DEF EventsSound, PurgesSound
  <2>2. W!IsOpen(conn)
    BY <1>1, <2>1, DataAssumption DEF TokensSound, GatheredOnline
  <2>3. client'.inbox = client.inbox
    BY <1>3, <2>2 DEF Parting
  <2>4. CASE d # e
    <3>1. client'.views[d] = client.views[d]
      BY <1>3, <2>2, <2>4 DEF Parting
    <3> QED BY <1>2, <1>5, <2>1, <2>3, <2>4, <3>1, PurgeKept
  <2>5. CASE d = e
    <3>1. /\ client'.views[d].listeners = client.views[d].listeners \ {c}
          /\ client'.views[d].synced => client.views[d].synced
      BY <1>3, <2>2, <2>5 DEF Parting
    <3>2. CASE Unshown(d)
      <4>1. \A r \in client'.views[d].listeners \ muted' : r \in client.views[d].listeners \ muted
        BY <1>2, <3>1
      <4> QED BY <1>2, <2>3, <3>1, <3>2, <4>1 DEF PurgeSound, Unshown, Exists, LastGiven, LastOf,
                 VersionOf
    <3>3. CASE IsActive(d) /\ Reaches(wire[d].told, VersionOf(store[d].cache))
      <4>1. CASE UNCHANGED <<conn, wire, agg>>
        BY <1>2, <3>3, <4>1 DEF PurgeSound, IsActive, Reaches, VersionOf
      <4>2. CASE client.views[e].listeners \ {c} = {}
        <5>1. client'.views[d].listeners = {}
          BY <2>5, <3>1, <4>2
        <5>2. ~client'.views[d].on
          BY <5>1 DEF IInv, Tables, TableOf
        <5>3. ~client'.views[d].synced
          BY <5>2 DEF SyncedRaised
        <5> QED BY <5>1, <5>3 DEF PurgeSound, Unshown
      <4> QED BY <1>4, <4>1, <4>2
    <3> QED BY <2>1, <3>2, <3>3 DEF PurgeSound
  <2> QED BY <2>4, <2>5
<1> QED BY <1>6 DEF PurgesSound, PurgeSound

\* A refusal clears the view of its target and leaves the others.
LEMMA FailsPurges ==
  ASSUME EventsSound, NothingCrossed', NEW c \in Docs, TargetFails(c)
  PROVE  PurgesSound'
<1>1. IInv /\ TokensSound /\ client \in Clients /\ OwnListeners(client) /\ ConnSound(conn)
      /\ agg \in [Docs -> Gathered]
  BY DEF EventsSound, IInv, ClientTyped, BackendTyped
<1>2. UNCHANGED <<db, store, muted, reads>>
  BY DEF TargetFails
<1>3. PICK heard : Refused(c, heard)
  BY <1>1, FailsPlainly, FailsNews
<1>4. /\ W!IsOpen(conn) /\ conn' = W!OnTargetError(conn, c)
      /\ \A d \in Docs \ {c} : agg'[d] = agg[d] /\ wire'[d] = wire[d]
  BY <1>1, FailsPlainly DEF TargetFails, HandleRejectedListen, IInv, BackendTyped
<1>5. agg'[c].update = agg[c].update
  <2> DEFINE b == [NoTarget EXCEPT !.update = agg[c].update]
  <2>1. agg' = [agg EXCEPT ![c] = b]
    BY <1>1, FailsPlainly DEF HandleRejectedListen
  <2>2. b.update = agg[c].update
    BY DEF NoTarget
  <2> HIDE DEF b
  <2> QED BY <1>1, <2>1, <2>2
<1>6. conn'.targets = conn.targets \ {c}
  BY <1>1, <1>4, TargetErrorSound
<1>7. ASSUME NEW d \in Docs, agg'[d].update = Purge
      PROVE  PurgeSound(d)'
  <2>1. agg[d].update = Purge
    BY <1>4, <1>5, <1>7
  <2>2. heard = client
    BY <1>1, <1>3, <2>1, DataAssumption DEF TokensSound, GatheredOnline, Refused
  <2>3. CASE d = c
    <3>1. client'.views[d] = NoView
      BY <1>3, <2>3 DEF Refused
    <3> QED BY <3>1 DEF PurgeSound, Unshown, NoView
  <2>4. CASE d # c
    <3>1. client'.views[d] = client.views[d]
      BY <1>3, <2>2, <2>4 DEF Refused
    <3>2. \A r \in client.views[d].listeners : r \in Readers /\ r \notin client.views[c].listeners
      BY <1>1, <2>4 DEF OwnListeners, Clients, View
    <3>3. \A r \in client.views[d].listeners : client'.inbox[r] = client.inbox[r]
      BY <1>3, <2>2, <3>2 DEF Refused
    <3>4. IsActive(d) => IsActive(d)' /\ wire'[d].told = wire[d].told
      BY <1>4, <1>6, <2>4 DEF IsActive
    <3> QED BY <1>2, <2>1, <3>1, <3>3, <3>4, PurgeKept
  <2> QED BY <2>3, <2>4
<1> QED BY <1>7 DEF PurgesSound, PurgeSound

\* A step of the connection that gathers nothing keeps what was gathered online,
\* where the views hear nothing new.
LEMMA ConnectionKeepsPurge ==
  ASSUME EventsSound, TokensSound', ConnectionStep, NEW d \in Docs, agg'[d].update = Purge,
         agg[d].update = Purge, IsActive(d) => IsActive(d)' /\ wire'[d].told = wire[d].told
  PROVE  PurgeSound(d)'
<1>1. IInv /\ TokensSound
  BY DEF EventsSound
<1>2. conn.online = "Online" /\ conn'.online = "Online"
  BY <1>1, DataAssumption DEF TokensSound, GatheredOnline
<1>3. client' = client /\ UNCHANGED <<store, muted, reads>>
  BY <1>1, <1>2, ConnectionStepNews
<1> QED BY <1>3, PurgeKept

\* Of all messages an existence filter alone makes a purge: of an active target,
\* with the version as of which there is no document.
LEMMA MessagePurges ==
  ASSUME EventsSound, NothingCrossed, TokensSound', NEW c \in Docs,
         TargetAdded(c) \/ TargetRemoved(c) \/ DocumentChanges(c)
           \/ ExistenceFilter(c) \/ TargetCurrent(c),
         NEW d \in Docs, agg'[d].update = Purge
  PROVE  PurgeSound(d)'
<1>1. IInv /\ TokensSound /\ ConnectionStep
  BY DEF EventsSound, ConnectionStep
<1>2. /\ wire \in [Docs -> Wire] /\ agg \in [Docs -> Gathered] /\ BackendTyped
      /\ db[d] \in Versions /\ store[d] \in Stored
  BY <1>1 DEF IInv, BackendTyped
<1>3. W!IsOpen(conn) /\ Heard /\ UNCHANGED <<db, store>>
  BY DEF TargetAdded, TargetRemoved, DocumentChanges, ExistenceFilter, TargetCurrent, Answers
<1>4. conn'.targets = conn.targets
  BY <1>1, <1>3, HeardOnline
<1>5. CASE d # c
  <2>1. wire'[d] = wire[d]
    BY <1>2, <1>5 DEF TargetAdded, TargetRemoved, DocumentChanges, ExistenceFilter, TargetCurrent
  <2>2. agg'[d] = agg[d]
    BY <1>2, <1>5 DEF TargetAdded, TargetRemoved, DocumentChanges, ExistenceFilter, TargetCurrent,
       Gather
  <2> QED BY <1>1, <1>4, <2>1, <2>2, ConnectionKeepsPurge DEF IsActive
<1>6. CASE d = c /\ (TargetAdded(c) \/ TargetRemoved(c))
  <2>1. wire[c].requests # <<>> /\ wire[c].requests \in Seq(Request)
        /\ (IF W!IsOpen(conn) THEN Owed(wire[c], agg[c], c \in conn.targets)
                              ELSE wire[c] = NotServed /\ agg[c].out = 0)
        /\ ~wire[c].crossed
    BY <1>1, <1>2, <1>6 DEF TargetAdded, TargetRemoved, Answers, IInv, AnswersOwed, Wire,
       NothingCrossed
  <2>2. ~IsActive(c)
    BY <1>3, <2>1, LenProperties, EmptySeq DEF IsActive, Owed
  <2>3. agg'[c].update = agg[c].update
    <3>1. agg[c] \in Gathered
      BY <1>2
    <3> QED BY <1>2, <1>6, <3>1 DEF TargetAdded, TargetRemoved, NoTarget, Gathered
  <2> QED BY <1>1, <1>6, <2>2, <2>3, ConnectionKeepsPurge
<1>7. CASE d = c /\ DocumentChanges(c)
  <2>1. PICK v \in {w \in 0..db[c] : wire[c].told = None \/ wire[c].told < w} :
          Gather(c, At(v), At(v))
    BY <1>7 DEF DocumentChanges
  <2>2. At(v) \in Content
    BY <1>2, <1>7, ReadersAssumption DEF At, Content, Versions
  <2>3. PICK b \in Gathered :
          /\ agg' = [agg EXCEPT ![c] = b] /\ b.out = agg[c].out
          /\ b.update = IF IsActive(c) THEN At(v) ELSE agg[c].update
    BY <1>2, <2>1, <2>2, GatherTakes
  <2>4. b.update = Purge
    BY <1>2, <1>7, <2>3
  <2>5. ~IsActive(c) /\ agg[c].update = Purge
    BY <2>2, <2>3, <2>4, DataAssumption
  <2> QED BY <1>1, <1>7, <2>5, ConnectionKeepsPurge
<1>8. CASE d = c /\ ExistenceFilter(c)
  <2>1. PICK b \in Gathered :
          /\ agg' = [agg EXCEPT ![c] = b] /\ b.out = agg[c].out
          /\ b.update = IF IsActive(c) THEN Purge ELSE agg[c].update
    BY <1>2, <1>8, GatherTakes DEF ExistenceFilter
  <2>2. CASE ~IsActive(c)
    BY <1>1, <1>2, <1>8, <2>1, <2>2, ConnectionKeepsPurge
  <2>3. CASE IsActive(c)
    <3>1. IsActive(c)'
      BY <1>2, <1>4, <2>1, <2>3 DEF IsActive
    <3>2. wire'[c].told = db[c]
      <4>1. wire[c] \in Wire
        BY <1>2
      <4> QED BY <1>2, <1>8, <4>1 DEF ExistenceFilter, Wire
    <3>3. store[c].cache # None
            => /\ store[c].cache.version <= db[c] /\ VersionOf(store[c].cache) = store[c].cache.version
               /\ store[c].cache.version \in Nat
      <4>1. store[c].cache \in Content \cup {None}
        BY <1>2, <1>8 DEF Stored
      <4>2. Bounded(wire[c], agg[c], store[c], db[c])
        BY <1>1 DEF TokensSound, VersionsBounded
      <4> QED BY <4>1, <4>2, VersionTyped DEF Bounded
    <3>4. db[c] # None /\ db[c] \in Nat
      BY <1>2, <1>8, DataAssumption DEF Versions
    <3>5. Reaches(db[c], VersionOf(store[c].cache))
      BY <3>3, <3>4 DEF Reaches, VersionOf
    <3> QED BY <1>3, <1>8, <3>1, <3>2, <3>5 DEF PurgeSound, Reaches, VersionOf
  <2> QED BY <2>2, <2>3
<1>9. CASE d = c /\ TargetCurrent(c)
  <2>1. wire[c] \in Wire /\ agg[c] \in Gathered
    BY <1>2
  <2>2. /\ wire'[c].told = wire[c].told /\ agg'[c].update = agg[c].update
        /\ agg'[c].out = agg[c].out
    BY <1>2, <1>9, <2>1 DEF TargetCurrent, Wire, Gathered
  <2> QED BY <1>1, <1>4, <1>9, <2>2, ConnectionKeepsPurge DEF IsActive
<1> QED BY <1>5, <1>6, <1>7, <1>8, <1>9

\* Any step of the connection.
LEMMA ConnectionPurges ==
  ASSUME EventsSound, NothingCrossed, NothingCrossed', TokensSound', ConnectionStep
  PROVE  PurgesSound'
<1>1. IInv /\ TokensSound /\ ConnSound(conn)
  BY DEF EventsSound, IInv
<1>2. ASSUME NEW d \in Docs, agg'[d].update = Purge
      PROVE  PurgeSound(d)'
  <2>1. CASE UNCHANGED <<wire, agg>> /\ conn'.targets = conn.targets
    BY <1>2, <2>1, ConnectionKeepsPurge DEF IsActive
  <2>2. CASE CredentialsArrive
    <3>1. conn'.targets = conn.targets
      <4>1. PICK current \in BOOLEAN, ok \in BOOLEAN :
              /\ IF current THEN conn.token ELSE conn.stale > 0
              /\ conn' = W!OnCredentials(conn, current, ok)
        BY <2>2 DEF CredentialsArrive, W!CredentialsArrive
      <4> QED BY <1>1, <4>1, CredentialsSound
    <3>2. CASE W!IsOpen(conn') /\ ~W!IsOpen(conn)
      <4>1. agg' = [e \in Docs |-> IF e \in conn.targets THEN [NoTarget EXCEPT !.out = 1]
                                                          ELSE NoTarget]
        BY <2>2, <3>2 DEF CredentialsArrive
      <4>2. agg'[d].update = None
        BY <4>1 DEF NoTarget
      <4> QED BY <1>2, <4>2, DataAssumption
    <3>3. CASE ~(W!IsOpen(conn') /\ ~W!IsOpen(conn))
      BY <2>1, <2>2, <3>1, <3>3 DEF CredentialsArrive
    <3> QED BY <3>2, <3>3
  <2>3. CASE BackoffElapses
    BY <1>1, <2>1, <2>3, BackoffSound DEF BackoffElapses, Connect
  <2>4. CASE TimerFires
    BY <1>1, <2>1, <2>4, TimeoutSound DEF TimerFires, Connect
  <2>5. CASE StreamIdle \/ StreamBreaks \/ NetworkRestarts
    <3>1. agg'[d].update = None
      <4>1. Disconnect
        BY <2>5 DEF StreamIdle, StreamBreaks, NetworkRestarts
      <4>2. agg'[d] = NoTarget
        BY <4>1 DEF Disconnect
      <4> QED BY <4>2 DEF NoTarget
    <3> QED BY <1>2, <3>1, DataAssumption
  <2>6. CASE \E c \in Docs : TargetAdded(c) \/ TargetRemoved(c) \/ DocumentChanges(c)
                              \/ ExistenceFilter(c) \/ TargetCurrent(c)
    BY <1>2, <2>6, MessagePurges
  <2>7. \A c \in Docs : ~(c \notin conn.targets /\ TargetFails(c))
    BY <1>1, FailsPlainly
  <2> QED BY <2>2, <2>3, <2>4, <2>5, <2>6, <2>7 DEF ConnectionStep
<1> QED BY <1>2 DEF PurgesSound, PurgeSound

-----------------------------------------------------------------------------
(* The invariant holds.                                                    *)

\* No stream is open before the first call.
LEMMA InitClosed == Init => ~W!IsOpen(conn)
<1> SUFFICES ASSUME Init
             PROVE  ~W!IsOpen(conn)
  OBVIOUS
<1>1. conn = W!EnableNetwork(W!Connected)
  BY DEF Init, W!Init
<1>2. W!Connected = WP!Connected
  BY DEF W!Connected, WP!Connected
<1>3. conn = WP!EnableNetwork(WP!Connected)
  BY <1>1, <1>2, SameConnection
<1> QED BY <1>3 DEF WP!EnableNetwork, WP!Connected, WP!ShouldStartWatchStream,
           WP!UpdateState, W!IsOpen

\* Nobody has asked for anything, and nothing is known.
LEMMA InitEvents == Init => EventsSound
<1> SUFFICES ASSUME Init
             PROVE  EventsSound
  OBVIOUS
<1>1. IInv /\ SyncedRaised(client)
  BY InitReads, InitInSync
<1>2. /\ \A d \in Docs : /\ wire[d] = NotServed /\ agg[d] = NoTarget
                        /\ store[d] = [cache |-> None, resume |-> None, member |-> FALSE]
                        /\ client.views[d] = NoView
  BY DEF Init
<1>3. \A d \in Docs : Bounded(wire[d], agg[d], store[d], db[d]) /\ agg[d].update = None
  <2>1. /\ NotServed.told = None /\ NotServed.requests = <<>> /\ NoTarget.update = None
        /\ 1..Len(<<>>) = {}
    BY EmptySeq DEF NotServed, NoTarget
  <2>2. None \notin Content
    BY DataAssumption
  <2>3. ASSUME NEW d \in Docs
        PROVE  Bounded(wire[d], agg[d], store[d], db[d]) /\ agg[d].update = None
    <3>1. /\ wire[d].told = None /\ wire[d].requests = <<>> /\ agg[d].update = None
          /\ store[d].cache = None /\ store[d].resume = None
      BY <1>2, <2>1
    <3> QED BY <2>1, <2>2, <3>1 DEF Bounded, Known
  <2> QED BY <2>3
<1>4. ~W!IsOpen(conn)
  BY <1>1, InitClosed
<1>5. TokensSound
  BY <1>3, <1>4 DEF TokensSound, VersionsBounded, TokensResumed, GatheredOnline
<1>6. PurgesSound
  BY <1>3, DataAssumption DEF PurgesSound, PurgeSound
<1>7. ASSUME NEW r \in Readers
      PROVE  ReaderFollows(client, work, reads, store[DocOf[r]], db[DocOf[r]], r)
  <2>1. /\ client.inbox[r] = <<>> /\ r \notin client.raised
        /\ reads[r].status = "idle" /\ reads[r].given = None
    BY DEF Init
  <2>2. r \notin client.views[DocOf[r]].listeners
    BY <1>2, ReadersAssumption DEF NoView
  <2>3. Follow(<<>>, None, db[DocOf[r]])
    BY EmptySeq DEF Follow
  <2> QED BY <2>1, <2>2, <2>3 DEF ReaderFollows
<1>8. ReadersFollow
  BY <1>7 DEF ReadersFollow
<1> QED BY <1>1, <1>5, <1>6, <1>8 DEF EventsSound

\* Every step keeps the invariant, while no refusal crosses an unwatch.
LEMMA NextEvents ==
  ASSUME EventsSound, NothingCrossed, NothingCrossed', [Next]_vars
  PROVE  EventsSound'
<1>1. IInv /\ TokensSound /\ SyncedRaised(client) /\ PurgesSound /\ ReadersFollow
  BY DEF EventsSound
<1>2. IInv' /\ TokensSound' /\ SyncedRaised(client')
  BY <1>1, NextReads, NextKeepsTokens, NextInSync
<1>3. SyncedRaised(client)'
  BY <1>2 DEF SyncedRaised
<1>4. ASSUME NEW r \in Readers, Call(r)
      PROVE  ReadersFollow' /\ PurgesSound'
  <2>1. /\ UNCHANGED <<db, conn, wire, agg, store, client, muted>>
        /\ \A q \in Readers : reads'[q].given = reads[q].given
    BY <1>1, <1>4 DEF Call, IInv, ClientTyped, Read
  <2>2. \A d \in Docs : client.views[d].listeners \subseteq Readers
    BY <1>1 DEF IInv, ClientTyped, Clients, View
  <2>3. \A d \in Docs : Unshown(d) => Unshown(d)'
    BY <2>1, <2>2 DEF Unshown, Exists, LastGiven, LastOf, VersionOf
  <2>4. PurgesSound'
    BY <1>1, <2>1, <2>3 DEF PurgesSound, PurgeSound, IsActive, Reaches, VersionOf
  <2> QED BY <1>4, <2>4, CallFollows
<1>5. ASSUME NEW d \in Docs, Write(d)
      PROVE  ReadersFollow' /\ PurgesSound'
  <2>1. UNCHANGED <<conn, wire, agg, store, client, muted, reads>>
    BY <1>5 DEF Write
  <2>2. PurgesSound'
    BY <1>1, <2>1 DEF PurgesSound, PurgeSound, Unshown, IsActive, Reaches, VersionOf, Exists,
       LastGiven, LastOf
  <2> QED BY <1>5, <2>2, WriteFollows
<1>6. ASSUME NEW r \in Readers, Deliver(r)
      PROVE  ReadersFollow' /\ PurgesSound'
  BY <1>6, DeliverFollows, DeliverPurges
<1>7. ASSUME NEW r \in Readers, Worker(r)
      PROVE  ReadersFollow' /\ PurgesSound'
  BY <1>2, <1>7, AddFollows, AddPurges, RemoveFollows, RemovePurges DEF Worker
<1>8. ASSUME ConnectionStep
      PROVE  ReadersFollow' /\ PurgesSound'
  BY <1>2, <1>8, ConnectionFollows, ConnectionPurges
<1>9. ASSUME NEW d \in Docs, TargetFails(d)
      PROVE  ReadersFollow' /\ PurgesSound'
  BY <1>9, FailsFollows, FailsPurges
<1>10. ASSUME Snapshot
       PROVE  ReadersFollow' /\ PurgesSound'
  <2>1. \A d \in Docs : agg'[d].update = None
    BY <1>1, <1>10, SnapshotNews
  <2>2. PurgesSound'
    BY <2>1, DataAssumption DEF PurgesSound, PurgeSound
  <2> QED BY <1>2, <1>10, <2>2, SnapshotFollowsStore
<1>11. ASSUME UNCHANGED vars
       PROVE  ReadersFollow' /\ PurgesSound'
  <2>1. UNCHANGED <<db, conn, wire, agg, store, client, work, muted, reads>>
    BY <1>11 DEF vars
  <2>2. PurgesSound'
    BY <1>1, <2>1 DEF PurgesSound, PurgeSound, Unshown, IsActive, Reaches, VersionOf, Exists,
       LastGiven, LastOf
  <2>3. ReadersFollow'
    BY <1>1, <2>1 DEF ReadersFollow, ReaderFollows, LastGiven, Queued, Follow
  <2> QED BY <2>2, <2>3
<1>12. ReadersFollow' /\ PurgesSound'
  BY <1>4, <1>5, <1>6, <1>7, <1>8, <1>9, <1>10, <1>11
     DEF Next, Message, ConnectionStep
<1> QED BY <1>2, <1>3, <1>12 DEF EventsSound

\* The inductive invariant of the events, of any documents, readers and bounds, as
\* long as no refusal crosses an unwatch (remote_store.cc 357-365).
THEOREM EventsAlwaysSound == Spec /\ []NothingCrossed => []EventsSound
<1>1. EventsSound /\ NothingCrossed /\ NothingCrossed' /\ [Next]_vars => EventsSound'
  BY NextEvents
<1> QED BY <1>1, InitEvents, PTL DEF Spec

-----------------------------------------------------------------------------
(* The refinement: a read is asked, given a version, or failed.            *)

\* An event that is taken gives or fails a read, or reaches nobody.
LEMMA DeliverRefines ==
  ASSUME EventsSound, NEW r \in Readers, Deliver(r)
  PROVE  R!Give(r) \/ R!Fail(r) \/ UNCHANGED <<db, reads>>
<1>1. IInv /\ db' = db
  BY DEF EventsSound, Deliver
<1>2. CASE r \in muted
  BY <1>2 DEF Deliver
<1>3. CASE r \notin muted
  <2> DEFINE event == Head(client.inbox[r])
             v == VersionOf(event.content)
  <2>1. /\ reads[r].status = "waiting" /\ v \in Versions \cup {None}
        /\ Known(v, db[DocOf[r]]) /\ IsNewer(v, reads[r].given)
        /\ reads' = [reads EXCEPT ![r] = Given(r, event)]
    BY <1>3, Delivered
  <2> HIDE DEF event, v
  <2>2. CASE ~event.ok \/ (r \in Gets /\ event.cached /\ ~Exists(event.content))
    <3>1. reads' = [reads EXCEPT ![r].status = "done"]
      BY <2>1, <2>2 DEF Given
    <3> QED BY <1>1, <2>1, <3>1 DEF R!Fail
  <2>3. CASE ~(~event.ok \/ (r \in Gets /\ event.cached /\ ~Exists(event.content)))
    <3>1. reads' = [reads EXCEPT ![r] =
            [status |-> IF r \in Gets THEN "done" ELSE "waiting", given |-> v]]
      BY <2>1, <2>3 DEF Given, v
    <3>2. v \in R!Given /\ (v # None => v <= db[DocOf[r]]) /\ R!IsNewer(v, reads[r].given)
      BY <2>1 DEF R!Given, R!IsNewer, IsNewer, Known, Versions
    <3> QED BY <1>1, <2>1, <3>1, <3>2 DEF R!Give
  <2> QED BY <2>2, <2>3
<1> QED BY <1>2, <1>3

\* Every step is one of DocumentReads, or leaves documents and reads alone.
LEMMA NextRefines ==
  ASSUME EventsSound, [Next]_vars
  PROVE  [R!Next]_<<db, reads>>
<1>1. IInv /\ TokensSound /\ SyncedRaised(client)
  BY DEF EventsSound
<1>2. ASSUME NEW r \in Readers, Call(r)
      PROVE  R!Next
  BY <1>2 DEF Call, R!Next, R!Ask
<1>3. ASSUME NEW d \in Docs, Write(d)
      PROVE  R!Next
  BY <1>3 DEF Write, R!Next, R!Write
<1>4. ASSUME NEW r \in Readers, Deliver(r)
      PROVE  [R!Next]_<<db, reads>>
  BY <1>4, DeliverRefines DEF R!Next
<1>5. ASSUME NEW r \in Readers, Worker(r)
      PROVE  UNCHANGED <<db, reads>>
  BY <1>5 DEF Worker, AddQueryListener, RemoveQueryListener
<1>6. CASE ConnectionStep
  BY <1>1, <1>6, ConnectionStepNews
<1>7. ASSUME NEW d \in Docs, TargetFails(d)
      PROVE  UNCHANGED <<db, reads>>
  BY <1>7 DEF TargetFails
<1>8. CASE Snapshot
  BY <1>8 DEF Snapshot
<1>9. CASE UNCHANGED vars
  BY <1>9 DEF vars
<1> QED BY <1>2, <1>3, <1>4, <1>5, <1>6, <1>7, <1>8, <1>9 DEF Next, Message, ConnectionStep

\* Reads keep the promises of DocumentReads (ReadsRefined): a read is given only
\* versions its document has had, none older than the one before, a get once; as
\* long as no refusal crosses an unwatch.
THEOREM ReadsKeepPromises == Spec /\ []NothingCrossed => ReadsRefined
<1>1. Init => R!Init
  BY DEF Init, R!Init
<1>2. EventsSound /\ [Next]_vars => [R!Next]_<<db, reads>>
  BY NextRefines
<1> QED BY <1>1, <1>2, EventsAlwaysSound, PTL DEF Spec, ReadsRefined, R!Spec
=============================================================================
