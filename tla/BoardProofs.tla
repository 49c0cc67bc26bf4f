----------------------------- MODULE BoardProofs -----------------------------
(***************************************************************************)
(* Every invariant of Board, for any documents and any bounds.             *)
(*                                                                         *)
(* What a Home shows rests on user, what a Results screen shows on what it *)
(* has been given and still waits for, and that the screens were notified  *)
(* in the order they were made on each having been notified at least once. *)
(***************************************************************************)
EXTENDS Board, FiniteSetTheorems, SequenceTheorems, TLAPS

HomeScreens == [rows : Nat, dirty : BOOLEAN, binds : Nat]
StackScreens == [kind : {"results", "detail"}, of : Nat, filled : BOOLEAN]

\* Before the first snapshot there is nothing to show.
NothingUnknown ==
  ~user.known => /\ user = Unknown
                 /\ \A i \in DOMAIN homes : homes[i].rows = 0

\* What a Results screen knows of its scores: the own one is asked for once, and
\* the pair's not before it.
ScoresSound(r) ==
  /\ r.ranks \in {<<>>, <<"own">>, <<"own", "pair">>}
  /\ r.uid <=> r.ranks # <<>>
  /\ ~r.uid => r.asked["own"] <= 1 /\ r.asked["pair"] = 0
  /\ r.uid => r.asked["own"] = 0 /\ Len(r.ranks) + r.asked["pair"] = 2

\* ... of its résumés ...
NoticesSound(r) ==
  Notices(r) = Count(r, "user2") + r.asked["user2"] /\ Notices(r) > 0

\* ... and what its table shows of both.
TableSound(r) ==
  /\ Len(r.rows) <= Len(r.users)
  /\ Len(r.ranks) = 2 /\ ~r.dirty /\ r.rows # <<>> =>
       /\ r.rows[1].rank = "pair"
       /\ Len(r.rows) > 1 => r.rows[2].rank = "own"

ScreenSound(r) == ScoresSound(r) /\ NoticesSound(r) /\ TableSound(r)

\* An older screen was notified more often than a younger one.
InOrder == \A i, j \in DOMAIN results : i < j => Notices(results[i]) > Notices(results[j])

\* The inductive invariant: nothing is shown that is not known, each Results
\* screen is sound on its own, and they were notified in the order they were made.
IInv ==
  /\ TypeOK
  /\ NothingUnknown /\ HomeShowsVacancies /\ NotifiedAfterSnapshot
  /\ \A i \in DOMAIN homes : ~homes[i].dirty => homes[i].rows <= user.vacancies
  /\ \A i \in DOMAIN results : ScreenSound(results[i])
  /\ InOrder
  /\ DetailsServed

----------------------------------------------------------------------------
(* One Results screen.                                                     *)

Screen(r) == r \in ResultsScreens /\ ScreenSound(r)

\* A list defined row by row has as many rows.
LEMMA RowByRow ==
  ASSUME NEW S, NEW n \in Nat, NEW rows \in [1 .. n -> S]
  PROVE  rows \in Seq(S) /\ Len(rows) = n
<1>1. rows \in Seq(S)
  BY SeqDef
<1>2. Len(rows) \in Nat /\ 1 .. Len(rows) = 1 .. n
  BY <1>1, LenProperties
<1>3. Len(rows) = n
  <2>1. n > Len(rows) => n \in 1 .. n /\ n \notin 1 .. Len(rows)
    BY <1>2
  <2>2. Len(rows) > n => Len(rows) \in 1 .. Len(rows) /\ Len(rows) \notin 1 .. n
    BY <1>2
  <2> QED BY <1>2, <2>1, <2>2
<1> QED BY <1>1, <1>3

\* How often a résumé was received.
LEMMA CountType ==
  ASSUME NEW r \in ResultsScreens, NEW resume
  PROVE  Count(r, resume) \in Nat
<1>1. Len(r.users) \in Nat /\ DOMAIN r.users = 1 .. Len(r.users)
  BY LenProperties DEF ResultsScreens
<1>2. IsFiniteSet(DOMAIN r.users)
  BY <1>1, FS_Interval
<1>3. {k \in DOMAIN r.users : r.users[k] = resume} \subseteq DOMAIN r.users
  OBVIOUS
<1> QED BY <1>2, <1>3, FS_Subset, FS_CardinalityType DEF Count

\* A résumé appended is received once more.
LEMMA CountByAppend ==
  ASSUME NEW r \in ResultsScreens, NEW s, NEW got \in {"user1", "user2"},
         s.users = Append(r.users, got), NEW resume
  PROVE  Count(s, resume) = IF got = resume THEN Count(r, resume) + 1 ELSE Count(r, resume)
<1> DEFINE n == Len(r.users)
           before == {k \in DOMAIN r.users : r.users[k] = resume}
           after == {k \in DOMAIN s.users : s.users[k] = resume}
<1>1. r.users \in Seq({"user1", "user2"})
  BY DEF ResultsScreens
<1>2. n \in Nat /\ DOMAIN r.users = 1 .. n
  BY <1>1, LenProperties
<1>3. /\ s.users \in Seq({"user1", "user2"}) /\ Len(s.users) = n + 1 /\ s.users[n + 1] = got
      /\ \A k \in 1 .. n : s.users[k] = r.users[k]
  BY <1>1, AppendProperties
<1>4. DOMAIN s.users = 1 .. n + 1
  BY <1>3, LenProperties
<1>5. IsFiniteSet(before)
  <2>1. before \subseteq 1 .. n
    BY <1>2
  <2>2. IsFiniteSet(1 .. n)
    BY <1>2, FS_Interval
  <2> QED BY <2>1, <2>2, FS_Subset
<1>6. CASE got = resume
  <2>1. after = before \cup {n + 1} /\ n + 1 \notin before
    BY <1>2, <1>3, <1>4, <1>6
  <2> QED BY <1>5, <1>6, <2>1, FS_AddElement DEF Count
<1>7. CASE got # resume
  <2>1. after = before
    BY <1>2, <1>3, <1>4, <1>7
  <2> QED BY <1>7, <2>1 DEF Count
<1> QED BY <1>6, <1>7

\* A notification asks for both résumés once more and leaves the rest.
LEMMA AskGives ==
  ASSUME NEW r \in ResultsScreens, NEW n \in Nat
  PROVE  LET s == Ask(r, n)
         IN /\ s \in ResultsScreens /\ s.users = r.users /\ s.ranks = r.ranks
            /\ s.uid = r.uid /\ s.rows = r.rows /\ s.dirty = r.dirty /\ s.taps = r.taps
            /\ s.asked["user1"] = r.asked["user1"] + n
            /\ s.asked["user2"] = r.asked["user2"] + n
            /\ \A k \in {"own", "pair", "metrics"} : s.asked[k] = r.asked[k]
<1> DEFINE s == Ask(r, n)
           asked == [k \in Kinds |->
              IF k \in {"user1", "user2"} THEN r.asked[k] + n ELSE r.asked[k]]
<1>1. r.asked \in [Kinds -> Nat]
  BY DEF ResultsScreens
<1>2. s = [r EXCEPT !.asked = asked]
  BY <1>1 DEF Ask, ResultsScreens, Kinds
<1>3. /\ asked \in [Kinds -> Nat]
      /\ asked["user1"] = r.asked["user1"] + n /\ asked["user2"] = r.asked["user2"] + n
      /\ \A k \in {"own", "pair", "metrics"} : asked[k] = r.asked[k]
  BY <1>1 DEF Kinds
<1> HIDE DEF asked
<1> QED BY <1>2, <1>3 DEF ResultsScreens

\* It leaves a sound screen sound.
LEMMA AskSound ==
  ASSUME NEW r, Screen(r), NEW n \in Nat
  PROVE  LET s == Ask(r, n)
         IN /\ Screen(s) /\ Notices(s) = Notices(r) + n
            /\ s.asked["metrics"] = r.asked["metrics"]
<1> DEFINE s == Ask(r, n)
<1>1. r \in ResultsScreens
  BY DEF Screen
<1>2. /\ s \in ResultsScreens /\ s.users = r.users /\ s.ranks = r.ranks
      /\ s.uid = r.uid /\ s.rows = r.rows /\ s.dirty = r.dirty
      /\ s.asked["user1"] = r.asked["user1"] + n /\ s.asked["user2"] = r.asked["user2"] + n
      /\ \A k \in {"own", "pair", "metrics"} : s.asked[k] = r.asked[k]
  BY <1>1, AskGives
<1> HIDE DEF s
<1>3. \A k : Count(s, k) = Count(r, k) /\ Count(r, k) \in Nat
  BY <1>1, <1>2, CountType DEF Count
<1>4. r.asked["user1"] \in Nat /\ r.asked["user2"] \in Nat
  BY <1>1 DEF ResultsScreens, Kinds
<1>5. NoticesSound(s) /\ Notices(s) = Notices(r) + n
  BY <1>2, <1>3, <1>4 DEF Screen, ScreenSound, NoticesSound, Notices
<1>6. ScoresSound(s) /\ TableSound(s)
  BY <1>2 DEF Screen, ScreenSound, ScoresSound, TableSound
<1> QED BY <1>2, <1>5, <1>6 DEF Screen, ScreenSound, s

\* A new screen that is notified at once.
LEMMA NewSound ==
  ASSUME NEW n \in Nat \ {0}
  PROVE  LET s == Ask(NewResults, n)
         IN /\ Screen(s) /\ Notices(s) = n
            /\ s.asked["metrics"] = 0
<1> DEFINE r == NewResults
           s == Ask(r, n)
<1>1. <<>> \in Seq({"user1", "user2"}) /\ <<>> \in Seq({"own", "pair"}) /\ <<>> \in Seq(Rows)
      /\ Len(<<>>) = 0 /\ DOMAIN <<>> = {}
  BY EmptySeq
<1>2. r \in ResultsScreens
  BY <1>1 DEF NewResults, ResultsScreens, Kinds
<1>3. /\ r.users = <<>> /\ r.ranks = <<>> /\ ~r.uid /\ r.rows = <<>>
      /\ r.asked["own"] = 1
      /\ \A k \in {"pair", "user1", "user2", "metrics"} : r.asked[k] = 0
  BY DEF NewResults, Kinds
<1> HIDE DEF r
<1>4. /\ s \in ResultsScreens /\ s.users = r.users /\ s.ranks = r.ranks
      /\ s.uid = r.uid /\ s.rows = r.rows
      /\ s.asked["user1"] = r.asked["user1"] + n /\ s.asked["user2"] = r.asked["user2"] + n
      /\ \A k \in {"own", "pair", "metrics"} : s.asked[k] = r.asked[k]
  BY <1>2, AskGives
<1> HIDE DEF s
<1>5. \A k : Count(s, k) = 0
  BY <1>1, <1>3, <1>4, FS_EmptySet DEF Count
<1>6. NoticesSound(s) /\ Notices(s) = n
  BY <1>3, <1>4, <1>5 DEF NoticesSound, Notices
<1>7. ScoresSound(s) /\ TableSound(s)
  BY <1>1, <1>3, <1>4 DEF ScoresSound, TableSound
<1> QED BY <1>3, <1>4, <1>6, <1>7 DEF Screen, ScreenSound, s, r

\* An answer or an error ends one read and leaves the rest.
LEMMA GotGives ==
  ASSUME NEW r \in ResultsScreens, NEW kind \in Kinds, r.asked[kind] > 0
  PROVE  LET s == Got(r, kind)
         IN /\ s \in ResultsScreens /\ s.users = r.users /\ s.ranks = r.ranks
            /\ s.uid = r.uid /\ s.rows = r.rows /\ s.dirty = r.dirty /\ s.taps = r.taps
            /\ s.asked[kind] = r.asked[kind] - 1
            /\ \A k \in Kinds \ {kind} : s.asked[k] = r.asked[k]
<1> DEFINE s == Got(r, kind)
           asked == [k \in Kinds |-> IF k = kind THEN r.asked[k] - 1 ELSE r.asked[k]]
<1>1. r.asked \in [Kinds -> Nat]
  BY DEF ResultsScreens
<1>2. s = [r EXCEPT !.asked = asked]
  BY <1>1 DEF Got, ResultsScreens
<1>3. /\ asked \in [Kinds -> Nat] /\ asked[kind] = r.asked[kind] - 1
      /\ \A k \in Kinds \ {kind} : asked[k] = r.asked[k]
  BY <1>1
<1> HIDE DEF asked
<1> QED BY <1>2, <1>3 DEF ResultsScreens

\* The own score: the first one, and the pair's is asked for.
OwnScore(r) ==
  [Got(r, "own") EXCEPT !.uid = TRUE, !.ranks = Append(@, "own"), !.asked["pair"] = @ + 1]

\* The first score leaves the screen sound: its pair is now asked for.
LEMMA OwnScoreSound ==
  ASSUME NEW r, Screen(r), r.asked["own"] > 0
  PROVE  LET s == OwnScore(r)
         IN /\ Screen(s) /\ Notices(s) = Notices(r)
            /\ s.asked["metrics"] = r.asked["metrics"]
<1> DEFINE g == Got(r, "own")
           s == OwnScore(r)
           asked == [k \in Kinds |-> IF k = "pair" THEN g.asked[k] + 1 ELSE g.asked[k]]
<1>1. r \in ResultsScreens /\ ScreenSound(r)
  BY DEF Screen
<1>2. ~r.uid /\ r.asked["own"] = 1 /\ r.asked["pair"] = 0 /\ r.ranks = <<>>
  <2>1. r.asked \in [Kinds -> Nat] /\ r.uid \in BOOLEAN
    BY <1>1 DEF ResultsScreens
  <2>2. r.asked["own"] \in Nat
    BY <2>1 DEF Kinds
  <2> QED BY <1>1, <2>1, <2>2 DEF ScreenSound, ScoresSound
<1>3. /\ g \in ResultsScreens /\ g.users = r.users /\ g.ranks = <<>>
      /\ g.rows = r.rows /\ g.asked["own"] = 0 /\ g.asked["pair"] = 0
      /\ \A k \in {"user1", "user2", "metrics"} : g.asked[k] = r.asked[k]
  BY <1>1, <1>2, GotGives DEF Kinds
<1>4. s = [g EXCEPT !.uid = TRUE, !.ranks = Append(g.ranks, "own"), !.asked = asked]
  BY <1>3 DEF OwnScore, ResultsScreens
<1> HIDE DEF g, s
<1>5. /\ asked \in [Kinds -> Nat] /\ asked["own"] = 0 /\ asked["pair"] = 1
      /\ \A k \in {"user1", "user2", "metrics"} : asked[k] = r.asked[k]
  <2>1. g.asked \in [Kinds -> Nat]
    BY <1>3 DEF ResultsScreens
  <2> QED BY <1>3, <2>1 DEF Kinds
<1> HIDE DEF asked
<1>6. Append(g.ranks, "own") = <<"own">> /\ <<"own">> \in Seq({"own", "pair"})
  BY <1>3
<1>7. /\ s \in ResultsScreens /\ s.users = r.users /\ s.rows = r.rows
      /\ s.uid = TRUE /\ s.ranks = <<"own">> /\ s.asked = asked
  BY <1>3, <1>4, <1>5, <1>6 DEF ResultsScreens
<1>8. NoticesSound(s) /\ Notices(s) = Notices(r)
  BY <1>1, <1>5, <1>7 DEF ScreenSound, NoticesSound, Notices, Count
<1>9. ScoresSound(s) /\ TableSound(s)
  BY <1>1, <1>5, <1>7 DEF ScreenSound, ScoresSound, TableSound
<1> QED BY <1>5, <1>7, <1>8, <1>9 DEF Screen, ScreenSound, s

\* The pair's score: the second one, and the table is laid out again.
PairScore(r) == [Got(r, "pair") EXCEPT !.ranks = Append(@, "pair"), !.dirty = TRUE]

\* The second score leaves the screen sound and its notices as they were.
LEMMA PairScoreSound ==
  ASSUME NEW r, Screen(r), r.asked["pair"] > 0
  PROVE  LET s == PairScore(r)
         IN /\ Screen(s) /\ Notices(s) = Notices(r)
            /\ s.asked["metrics"] = r.asked["metrics"]
<1> DEFINE g == Got(r, "pair")
           s == PairScore(r)
<1>1. r \in ResultsScreens /\ ScreenSound(r)
  BY DEF Screen
<1>2. r.uid /\ r.asked["own"] = 0 /\ r.asked["pair"] = 1 /\ r.ranks = <<"own">>
  <2>1. r.asked \in [Kinds -> Nat] /\ r.uid \in BOOLEAN
    BY <1>1 DEF ResultsScreens
  <2>2. r.asked["pair"] \in Nat
    BY <2>1 DEF Kinds
  <2>3. r.uid /\ r.ranks # <<>> /\ r.asked["own"] = 0 /\ Len(r.ranks) + r.asked["pair"] = 2
    BY <1>1, <2>1, <2>2 DEF ScreenSound, ScoresSound
  <2>4. CASE r.ranks = <<"own", "pair">>
    <3>1. Len(r.ranks) = 2
      BY <2>4
    <3> QED BY <2>2, <2>3, <3>1
  <2>5. CASE r.ranks = <<"own">>
    <3>1. Len(r.ranks) = 1
      BY <2>5
    <3> QED BY <2>2, <2>3, <2>5, <3>1
  <2> QED BY <1>1, <2>3, <2>4, <2>5 DEF ScreenSound, ScoresSound
<1>3. /\ g \in ResultsScreens /\ g.users = r.users /\ g.ranks = <<"own">> /\ g.uid = TRUE
      /\ g.rows = r.rows /\ g.asked["own"] = 0 /\ g.asked["pair"] = 0
      /\ \A k \in {"user1", "user2", "metrics"} : g.asked[k] = r.asked[k]
  BY <1>1, <1>2, GotGives DEF Kinds, ResultsScreens
<1>4. s = [g EXCEPT !.ranks = Append(g.ranks, "pair"), !.dirty = TRUE]
  BY <1>3 DEF PairScore, ResultsScreens
<1>5. /\ Append(g.ranks, "pair") = <<"own", "pair">>
      /\ <<"own", "pair">> \in Seq({"own", "pair"}) /\ Len(<<"own", "pair">>) = 2
  <2>1. Append(<<"own">>, "pair") = <<"own", "pair">>
    <3> DEFINE got == Append(<<"own">>, "pair")
               both == <<"own", "pair">>
    <3>1. /\ <<"own">> \in Seq({"own", "pair"}) /\ Len(<<"own">>) = 1
          /\ <<"own">>[1] = "own"
      OBVIOUS
    <3>2. got \in Seq({"own", "pair"}) /\ Len(got) = 2 /\ got[1] = "own" /\ got[2] = "pair"
      BY <3>1, AppendProperties
    <3>3. both \in Seq({"own", "pair"}) /\ Len(both) = 2 /\ both[1] = "own" /\ both[2] = "pair"
      OBVIOUS
    <3> HIDE DEF got, both
    <3>4. \A k \in 1 .. Len(got) : got[k] = both[k]
      BY <3>2, <3>3
    <3>5. got = both
      BY <3>2, <3>3, <3>4, SeqEqual
    <3> QED BY <3>5 DEF got, both
  <2>2. <<"own", "pair">> \in Seq({"own", "pair"})
    OBVIOUS
  <2>3. Len(<<"own", "pair">>) = 2
    OBVIOUS
  <2> QED BY <1>3, <2>1, <2>2, <2>3
<1> HIDE DEF g, s
<1>6. /\ s \in ResultsScreens /\ s.users = r.users /\ s.rows = r.rows
      /\ s.uid = TRUE /\ s.ranks = <<"own", "pair">> /\ s.asked = g.asked /\ s.dirty = TRUE
  BY <1>3, <1>4, <1>5 DEF ResultsScreens
<1>7. NoticesSound(s) /\ Notices(s) = Notices(r)
  BY <1>1, <1>3, <1>6 DEF ScreenSound, NoticesSound, Notices, Count
<1>8. ScoresSound(s) /\ TableSound(s)
  BY <1>1, <1>3, <1>5, <1>6 DEF ScreenSound, ScoresSound, TableSound
<1> QED BY <1>3, <1>6, <1>7, <1>8 DEF Screen, ScreenSound, s

\* A résumé is added below those there are; nothing forgets how often one was
\* asked for.
Resume(r, resume) ==
  [Got(r, resume) EXCEPT !.users = Append(@, resume), !.dirty = @ \/ resume = "user1"]

\* A résumé that arrives leaves the screen sound: what was asked for it counts as
\* arrived.
LEMMA ResumeSound ==
  ASSUME NEW r, Screen(r), NEW resume \in {"user1", "user2"}, r.asked[resume] > 0
  PROVE  LET s == Resume(r, resume)
         IN /\ Screen(s) /\ Notices(s) = Notices(r)
            /\ s.asked["metrics"] = r.asked["metrics"]
<1> DEFINE g == Got(r, resume)
           s == Resume(r, resume)
<1>1. r \in ResultsScreens /\ ScreenSound(r)
  BY DEF Screen
<1>2. /\ g \in ResultsScreens /\ g.users = r.users /\ g.ranks = r.ranks /\ g.uid = r.uid
      /\ g.rows = r.rows /\ g.dirty = r.dirty
      /\ g.asked[resume] = r.asked[resume] - 1
      /\ \A k \in Kinds \ {resume} : g.asked[k] = r.asked[k]
  BY <1>1, GotGives DEF Kinds
<1>3. s = [g EXCEPT !.users = Append(g.users, resume), !.dirty = g.dirty \/ resume = "user1"]
  BY <1>2 DEF Resume, ResultsScreens
<1>4. r.users \in Seq({"user1", "user2"}) /\ Len(r.users) \in Nat
  BY <1>1, LenProperties DEF ResultsScreens
<1>5. Append(g.users, resume) \in Seq({"user1", "user2"}) /\ Len(Append(g.users, resume)) = Len(r.users) + 1
  BY <1>2, <1>4, AppendProperties
<1> HIDE DEF g
<1>6. /\ s \in ResultsScreens /\ s.users = Append(r.users, resume) /\ s.rows = r.rows
      /\ s.uid = r.uid /\ s.ranks = r.ranks /\ s.asked = g.asked
      /\ s.dirty = (r.dirty \/ resume = "user1")
  BY <1>2, <1>3, <1>5 DEF ResultsScreens
<1> HIDE DEF s
<1>7. \A k : /\ Count(r, k) \in Nat
             /\ Count(s, k) = IF resume = k THEN Count(r, k) + 1 ELSE Count(r, k)
  BY <1>1, <1>6, CountType, CountByAppend
<1>8. r.asked["user1"] \in Nat /\ r.asked["user2"] \in Nat
  BY <1>1 DEF ResultsScreens, Kinds
<1>9. NoticesSound(s) /\ Notices(s) = Notices(r)
  <2>1. Notices(r) = Count(r, "user2") + r.asked["user2"] /\ Notices(r) > 0
    BY <1>1 DEF ScreenSound, NoticesSound
  <2>2. CASE resume = "user1"
    <3>1. s.asked["user1"] = r.asked["user1"] - 1 /\ s.asked["user2"] = r.asked["user2"]
      BY <1>2, <1>6, <2>2 DEF Kinds
    <3>2. Count(s, "user1") = Count(r, "user1") + 1 /\ Count(s, "user2") = Count(r, "user2")
      BY <1>7, <2>2
    <3> QED BY <1>7, <1>8, <2>1, <3>1, <3>2 DEF NoticesSound, Notices
  <2>3. CASE resume = "user2"
    <3>1. s.asked["user1"] = r.asked["user1"] /\ s.asked["user2"] = r.asked["user2"] - 1
      BY <1>2, <1>6, <2>3 DEF Kinds
    <3>2. Count(s, "user1") = Count(r, "user1") /\ Count(s, "user2") = Count(r, "user2") + 1
      BY <1>7, <2>3
    <3> QED BY <1>7, <1>8, <2>1, <3>1, <3>2 DEF NoticesSound, Notices
  <2> QED BY <2>2, <2>3
<1>10. ScoresSound(s)
  BY <1>1, <1>2, <1>6 DEF ScreenSound, ScoresSound, Kinds
<1>11. TableSound(s)
  <2>1. Len(r.rows) \in Nat /\ r.dirty \in BOOLEAN /\ Len(s.users) = Len(r.users) + 1
    BY <1>1, <1>2, <1>5, <1>6, LenProperties DEF ResultsScreens
  <2>2. s.rows = r.rows /\ s.ranks = r.ranks /\ (~s.dirty => ~r.dirty)
    BY <1>6
  <2> QED BY <1>1, <1>4, <2>1, <2>2 DEF ScreenSound, TableSound
<1> QED BY <1>2, <1>6, <1>9, <1>10, <1>11 DEF Screen, ScreenSound, s, Kinds

\* A layout shows the résumés there are, the pair's score first.
LaidOut(r) ==
  [r EXCEPT !.dirty = FALSE,
            !.rows = [k \in 1 .. Len(r.users) |->
                        [user |-> r.users[k], rank |-> Rank(r.ranks, k)]]]

\* The table laid out agrees with the résumés and the scores there are.
LEMMA LaidOutSound ==
  ASSUME NEW r, Screen(r)
  PROVE  LET s == LaidOut(r)
         IN /\ Screen(s) /\ Notices(s) = Notices(r)
            /\ s.asked["metrics"] = r.asked["metrics"]
<1> DEFINE n == Len(r.users)
           rows == [k \in 1 .. n |-> [user |-> r.users[k], rank |-> Rank(r.ranks, k)]]
           s == LaidOut(r)
<1>1. r \in ResultsScreens /\ ScreenSound(r)
  BY DEF Screen
<1>2. n \in Nat /\ \A k \in 1 .. n : r.users[k] \in {"user1", "user2"}
  BY <1>1, LenProperties, ElementOfSeq DEF ResultsScreens
<1>3. \A k \in 1 .. n : Rank(r.ranks, k) \in {"own", "pair", "none"}
  <2> TAKE k \in 1 .. n
  <2>1. r.ranks \in Seq({"own", "pair"}) /\ Len(r.ranks) \in Nat
    BY <1>1, LenProperties DEF ResultsScreens
  <2>2. CASE k <= Len(r.ranks)
    <3>1. Len(r.ranks) + 1 - k \in 1 .. Len(r.ranks)
      BY <1>2, <2>1, <2>2
    <3>2. r.ranks[Len(r.ranks) + 1 - k] \in {"own", "pair"}
      BY <2>1, <3>1, ElementOfSeq
    <3> QED BY <2>2, <3>2 DEF Rank
  <2> QED BY <2>2 DEF Rank
<1>4. \A k \in 1 .. n : rows[k] \in Rows
  BY <1>2, <1>3 DEF Rows
<1>5. rows \in Seq(Rows) /\ Len(rows) = n
  <2>1. rows \in [1 .. n -> Rows]
    BY <1>4
  <2> QED BY <1>2, <2>1, RowByRow
<1>6. Len(r.ranks) = 2 => /\ \A k \in 1 .. n : k = 1 => rows[k].rank = "pair"
                          /\ \A k \in 1 .. n : k = 2 => rows[k].rank = "own"
  <2> SUFFICES ASSUME Len(r.ranks) = 2
               PROVE  Rank(r.ranks, 1) = "pair" /\ Rank(r.ranks, 2) = "own"
    OBVIOUS
  <2>1. r.ranks = <<"own", "pair">>
    <3>1. Len(<<>>) = 0 /\ Len(<<"own">>) = 1
      OBVIOUS
    <3>2. r.ranks \in {<<>>, <<"own">>, <<"own", "pair">>}
      BY <1>1 DEF ScreenSound, ScoresSound
    <3>3. r.ranks # <<>> /\ r.ranks # <<"own">>
      BY <3>1
    <3> QED BY <3>2, <3>3
  <2> QED BY <2>1 DEF Rank
<1>7. s = [r EXCEPT !.dirty = FALSE, !.rows = rows]
  BY DEF LaidOut
<1> HIDE DEF rows, s
<1>8. /\ s \in ResultsScreens /\ s.users = r.users /\ s.ranks = r.ranks /\ s.uid = r.uid
      /\ s.asked = r.asked /\ s.rows = rows
  BY <1>1, <1>5, <1>7 DEF ResultsScreens
<1>9. NoticesSound(s) /\ Notices(s) = Notices(r) /\ ScoresSound(s)
  BY <1>1, <1>8 DEF ScreenSound, NoticesSound, Notices, Count, ScoresSound
<1>10. TableSound(s)
  <2>1. rows # <<>> => n > 0
    BY <1>2, <1>5, EmptySeq
  <2> QED BY <1>2, <1>5, <1>6, <1>8, <2>1 DEF TableSound
<1> QED BY <1>8, <1>9, <1>10 DEF Screen, ScreenSound, s

\* A tap reads the metrics once for each subscription.
Tapped(r) == [r EXCEPT !.asked["metrics"] = @ + r.taps]

\* A tap leaves the screen sound and asks for the metrics as often as it is bound.
LEMMA TappedSound ==
  ASSUME NEW r, Screen(r)
  PROVE  LET s == Tapped(r)
         IN /\ Screen(s) /\ Notices(s) = Notices(r)
            /\ s.asked["metrics"] = r.asked["metrics"] + r.taps
<1> DEFINE asked == [k \in Kinds |-> IF k = "metrics" THEN r.asked[k] + r.taps ELSE r.asked[k]]
           s == Tapped(r)
<1>1. r \in ResultsScreens /\ ScreenSound(r)
  BY DEF Screen
<1>2. r.asked \in [Kinds -> Nat] /\ r.taps \in Nat
  BY <1>1 DEF ResultsScreens
<1>3. s = [r EXCEPT !.asked = asked]
  BY <1>1, <1>2 DEF Tapped, ResultsScreens, Kinds
<1>4. /\ asked \in [Kinds -> Nat] /\ asked["metrics"] = r.asked["metrics"] + r.taps
      /\ \A k \in {"own", "pair", "user1", "user2"} : asked[k] = r.asked[k]
  BY <1>2 DEF Kinds
<1> HIDE DEF asked, s
<1>5. /\ s \in ResultsScreens /\ s.users = r.users /\ s.ranks = r.ranks /\ s.uid = r.uid
      /\ s.asked = asked /\ s.rows = r.rows /\ s.dirty = r.dirty
  BY <1>1, <1>3, <1>4 DEF ResultsScreens
<1>6. NoticesSound(s) /\ Notices(s) = Notices(r) /\ ScoresSound(s) /\ TableSound(s)
  BY <1>1, <1>4, <1>5 DEF ScreenSound, NoticesSound, Notices, Count, ScoresSound, TableSound
<1> QED BY <1>4, <1>5, <1>6 DEF Screen, ScreenSound, s

\* The metrics arrive, or the read of the own score fails: nothing else changes.
LEMMA GotSound ==
  ASSUME NEW r, Screen(r), NEW kind \in {"own", "metrics"}, r.asked[kind] > 0
  PROVE  LET s == Got(r, kind)
         IN /\ Screen(s) /\ Notices(s) = Notices(r)
            /\ s.asked["metrics"] = IF kind = "metrics" THEN r.asked["metrics"] - 1
                                                        ELSE r.asked["metrics"]
<1> DEFINE s == Got(r, kind)
<1>1. r \in ResultsScreens /\ ScreenSound(r)
  BY DEF Screen
<1>2. /\ s \in ResultsScreens /\ s.users = r.users /\ s.ranks = r.ranks /\ s.uid = r.uid
      /\ s.rows = r.rows /\ s.dirty = r.dirty
      /\ s.asked[kind] = r.asked[kind] - 1
      /\ \A k \in Kinds \ {kind} : s.asked[k] = r.asked[k]
  BY <1>1, GotGives DEF Kinds
<1> HIDE DEF s
<1>3. r.asked["own"] \in Nat
  BY <1>1 DEF ResultsScreens, Kinds
<1>4. NoticesSound(s) /\ Notices(s) = Notices(r) /\ TableSound(s)
  BY <1>1, <1>2 DEF ScreenSound, NoticesSound, Notices, Count, TableSound, Kinds
<1>5. ScoresSound(s)
  BY <1>1, <1>2, <1>3 DEF ScreenSound, ScoresSound, Kinds
<1> QED BY <1>2, <1>4, <1>5 DEF Screen, ScreenSound, Kinds, s

\* A Results screen that appears again only binds its table once more.
Bound(r) == [r EXCEPT !.taps = More(@)]

\* A further binding leaves the screen sound.
LEMMA BoundSound ==
  ASSUME NEW r, Screen(r)
  PROVE  LET s == Bound(r)
         IN /\ Screen(s) /\ Notices(s) = Notices(r) /\ s.asked["metrics"] = r.asked["metrics"]
<1> DEFINE s == Bound(r)
<1>1. r \in ResultsScreens /\ ScreenSound(r)
  BY DEF Screen
<1>2. More(r.taps) \in Nat
  BY <1>1 DEF ResultsScreens, More
<1>3. /\ s \in ResultsScreens /\ s.users = r.users /\ s.ranks = r.ranks /\ s.uid = r.uid
      /\ s.rows = r.rows /\ s.dirty = r.dirty /\ s.asked = r.asked
  BY <1>1, <1>2 DEF Bound, ResultsScreens
<1> HIDE DEF s
<1>4. NoticesSound(s) /\ Notices(s) = Notices(r) /\ ScoresSound(s) /\ TableSound(s)
  BY <1>1, <1>3 DEF ScreenSound, NoticesSound, Notices, Count, ScoresSound, TableSound
<1> QED BY <1>3, <1>4 DEF Screen, ScreenSound, s

----------------------------------------------------------------------------
(* All of them.                                                            *)

\* A step that only replaces one screen by a sound one, notified as often.
LEMMA UpdateKeeps ==
  ASSUME TypeOK, \A k \in DOMAIN results : ScreenSound(results[k]), InOrder,
         NEW i \in DOMAIN results, NEW r, Screen(r), Notices(r) = Notices(results[i]),
         Update(i, r)
  PROVE  /\ results' \in Seq(ResultsScreens) /\ DOMAIN results' = DOMAIN results
         /\ \A k \in DOMAIN results' : ScreenSound(results'[k])
         /\ InOrder'
         /\ results'[i] = r /\ \A k \in DOMAIN results \ {i} : results'[k] = results[k]
<1>1. results \in Seq(ResultsScreens) /\ r \in ResultsScreens /\ ScreenSound(r)
  BY DEF TypeOK, Screen
<1>2. results' = [results EXCEPT ![i] = r]
  BY DEF Update
<1>3. DOMAIN results = 1 .. Len(results) /\ i \in 1 .. Len(results)
  BY <1>1, LenProperties
<1>4. /\ results' \in Seq(ResultsScreens) /\ Len(results') = Len(results)
      /\ \A k \in 1 .. Len(results) : results'[k] = IF k = i THEN r ELSE results[k]
  BY <1>1, <1>2, <1>3, ExceptSeq
<1>5. DOMAIN results' = DOMAIN results
  BY <1>2
<1>6. \A k \in DOMAIN results : Notices(results'[k]) = Notices(results[k])
  BY <1>3, <1>4
<1>7. InOrder'
  BY <1>5, <1>6 DEF InOrder
<1> QED BY <1>1, <1>3, <1>4, <1>5, <1>7

\* The screens that wait for their metrics are finitely many.
LEMMA WaitingFinite ==
  ASSUME TypeOK, NEW i
  PROVE  IsFiniteSet(Waiting(i)) /\ Cardinality(Waiting(i)) \in Nat
<1>1. Len(stack) \in Nat /\ DOMAIN stack = 1 .. Len(stack)
  BY LenProperties DEF TypeOK
<1>2. IsFiniteSet(DOMAIN stack)
  BY <1>1, FS_Interval
<1>3. Waiting(i) \subseteq DOMAIN stack
  BY DEF Waiting
<1> QED BY <1>2, <1>3, FS_Subset, FS_CardinalityType

\* A step of one Results screen that leaves the rest of the app, and the metrics
\* it waits for, alone.
LEMMA ScreenStep ==
  ASSUME IInv, NEW i \in DOMAIN results, NEW r,
         Screen(r), Notices(r) = Notices(results[i]),
         r.asked["metrics"] = results[i].asked["metrics"], Update(i, r),
         UNCHANGED <<stored, fresh, user, homes, stack, trap>>
  PROVE  IInv'
<1>1. /\ TypeOK /\ \A k \in DOMAIN results : ScreenSound(results[k])
      /\ InOrder /\ DetailsServed
  BY DEF IInv
<1>2. /\ results' \in Seq(ResultsScreens) /\ DOMAIN results' = DOMAIN results
      /\ \A k \in DOMAIN results' : ScreenSound(results'[k])
      /\ InOrder'
      /\ results'[i] = r /\ \A k \in DOMAIN results \ {i} : results'[k] = results[k]
  BY <1>1, UpdateKeeps
<1>3. TypeOK'
  BY <1>1, <1>2 DEF TypeOK
<1>4. DetailsServed'
  <2> SUFFICES ASSUME NEW k \in DOMAIN results
               PROVE  Cardinality(Waiting(k)') <= results'[k].asked["metrics"]
    BY <1>2 DEF DetailsServed
  <2>1. Waiting(k)' = Waiting(k)
    BY DEF Waiting
  <2>2. results'[k].asked["metrics"] = results[k].asked["metrics"]
    BY <1>2
  <2> QED BY <1>1, <2>1, <2>2 DEF DetailsServed
<1>5. /\ NothingUnknown' /\ HomeShowsVacancies' /\ NotifiedAfterSnapshot'
      /\ (\A k \in DOMAIN homes : ~homes[k].dirty => homes[k].rows <= user.vacancies)'
  BY DEF IInv, NothingUnknown, HomeShowsVacancies, Running, NotifiedAfterSnapshot
<1> QED BY <1>2, <1>3, <1>4, <1>5 DEF IInv

\* A process that starts shows nothing and waits for nothing.
LEMMA EndProcessKeeps ==
  ASSUME IInv, NEW why \in {"none", "noVacancy", "unmatched", "readFailed", "emptyPath"},
         EndProcess(why)
  PROVE  IInv'
<1>1. /\ trap' = why /\ fresh' = TRUE /\ user' = Unknown /\ stored' = stored
      /\ homes' = <<NewHome>> /\ results' = <<>> /\ stack' = <<>>
  BY DEF EndProcess
<1>2. NewHome \in HomeScreens /\ Unknown \in [known : BOOLEAN, hr : BOOLEAN, vacancies : Nat]
  BY DEF NewHome, HomeScreens, Unknown
<1>3. homes' \in Seq(HomeScreens) /\ homes' # <<>> /\ DOMAIN homes' = {1}
  BY <1>1, <1>2
<1>4. DOMAIN results' = {} /\ DOMAIN stack' = {}
  BY <1>1
<1>5. results' \in Seq(ResultsScreens) /\ stack' \in Seq(StackScreens)
  BY <1>1, EmptySeq
<1>6. TypeOK'
  BY <1>1, <1>2, <1>3, <1>4, <1>5 DEF IInv, TypeOK, HomeScreens, StackScreens
<1>7. homes'[1] = NewHome
  BY <1>1
<1>8. NothingUnknown' /\ HomeShowsVacancies' /\ NotifiedAfterSnapshot'
  BY <1>1, <1>3, <1>7
     DEF NothingUnknown, HomeShowsVacancies, NotifiedAfterSnapshot, NewHome, Unknown
<1>9. \A k \in DOMAIN homes' : ~homes'[k].dirty => homes'[k].rows <= user'.vacancies
  BY <1>3, <1>7 DEF NewHome
<1>10. InOrder' /\ DetailsServed' /\ \A k \in DOMAIN results' : ScreenSound(results'[k])
  BY <1>4 DEF InOrder, DetailsServed
<1> QED BY <1>6, <1>8, <1>9, <1>10 DEF IInv

\* Every Home is told, and only if there are vacancies to show.
LEMMA NotifyKeeps ==
  ASSUME TypeOK, NEW u \in [known : BOOLEAN, hr : BOOLEAN, vacancies : Nat], NotifyHomes(u)
  PROVE  /\ homes' \in Seq(HomeScreens) /\ homes' # <<>> /\ DOMAIN homes' = DOMAIN homes
         /\ \A i \in DOMAIN homes : /\ homes'[i].rows = homes[i].rows
                                    /\ IF u.hr THEN homes'[i].dirty ELSE homes'[i] = homes[i]
<1> DEFINE n == Len(homes)
<1>1. homes \in Seq(HomeScreens) /\ homes # <<>>
  BY DEF TypeOK, HomeScreens
<1>2. n \in Nat \ {0} /\ DOMAIN homes = 1 .. n
  BY <1>1, LenProperties, EmptySeq
<1>3. \A i \in 1 .. n : homes[i] \in HomeScreens
  BY <1>1, ElementOfSeq
<1>4. homes' = [i \in 1 .. n |-> IF u.hr THEN [homes[i] EXCEPT !.dirty = TRUE] ELSE homes[i]]
  BY <1>2 DEF NotifyHomes
<1>5. homes' \in [1 .. n -> HomeScreens]
  BY <1>3, <1>4 DEF HomeScreens
<1>6. homes' \in Seq(HomeScreens) /\ Len(homes') = n
  BY <1>2, <1>5, RowByRow
<1>7. homes' # <<>>
  BY <1>2, <1>6, EmptySeq
<1>8. \A i \in 1 .. n : /\ homes'[i].rows = homes[i].rows
                        /\ IF u.hr THEN homes'[i].dirty ELSE homes'[i] = homes[i]
  BY <1>3, <1>4 DEF HomeScreens
<1> QED BY <1>2, <1>4, <1>6, <1>7, <1>8

\* A sound screen was notified at least once.
LEMMA NoticesType ==
  ASSUME NEW r, Screen(r)
  PROVE  Notices(r) \in Nat \ {0}
<1>1. r \in ResultsScreens /\ Count(r, "user1") \in Nat
  BY CountType DEF Screen
<1>2. r.asked["user1"] \in Nat
  BY <1>1 DEF ResultsScreens, Kinds
<1> QED BY <1>1, <1>2 DEF Screen, ScreenSound, NoticesSound, Notices

\* The subscribers are told n times, and m screens come to be while they are:
\* the first of the new ones is told each time, the last one once.
AskAll(n, m) ==
  results' = [i \in 1 .. Len(results) + m |->
                IF i <= Len(results) THEN Ask(results[i], n)
                ELSE Ask(NewResults, Len(results) + m + 1 - i)]

\* Telling the screens keeps every one of them sound, and the older ones have been
\* told more often.
LEMMA AskAllKeeps ==
  ASSUME TypeOK, \A k \in DOMAIN results : ScreenSound(results[k]), InOrder,
         NEW n \in Nat, NEW m \in {0, n}, AskAll(n, m)
  PROVE  /\ results' \in Seq(ResultsScreens) /\ DOMAIN results' = 1 .. Len(results) + m
         /\ DOMAIN results \subseteq DOMAIN results'
         /\ \A k \in DOMAIN results' : ScreenSound(results'[k])
         /\ InOrder'
         /\ \A k \in DOMAIN results : results'[k].asked["metrics"] = results[k].asked["metrics"]
<1> DEFINE old == Len(results)
<1>1. results \in Seq(ResultsScreens)
  BY DEF TypeOK
<1>2. old \in Nat /\ m \in Nat /\ DOMAIN results = 1 .. old
  BY <1>1, LenProperties
<1>3. \A k \in 1 .. old : Screen(results[k])
  BY <1>1, <1>2, ElementOfSeq DEF Screen
<1>4. \A k \in 1 .. old :
        /\ Screen(results'[k]) /\ Notices(results'[k]) = Notices(results[k]) + n
        /\ results'[k].asked["metrics"] = results[k].asked["metrics"]
  <2> TAKE k \in 1 .. old
  <2>1. results'[k] = Ask(results[k], n)
    BY <1>2 DEF AskAll
  <2>2. Screen(results[k])
    BY <1>3
  <2> QED BY <2>1, <2>2, AskSound
<1>5. \A k \in old + 1 .. old + m :
        Screen(results'[k]) /\ Notices(results'[k]) = old + m + 1 - k
  <2> TAKE k \in old + 1 .. old + m
  <2>1. results'[k] = Ask(NewResults, old + m + 1 - k) /\ old + m + 1 - k \in Nat \ {0}
    BY <1>2 DEF AskAll
  <2> QED BY <2>1, NewSound
<1>6. \A k \in 1 .. old + m : Screen(results'[k])
  BY <1>2, <1>4, <1>5
<1>7. results' \in [1 .. old + m -> ResultsScreens]
  BY <1>6 DEF Screen, AskAll
<1>8. results' \in Seq(ResultsScreens) /\ DOMAIN results' = 1 .. old + m
  BY <1>2, <1>7, RowByRow
<1>9. InOrder'
  <2> SUFFICES ASSUME NEW i \in 1 .. old + m, NEW j \in 1 .. old + m, i < j
               PROVE  Notices(results'[i]) > Notices(results'[j])
    BY <1>8 DEF InOrder
  <2>1. CASE j <= old
    <3>1. Notices(results[i]) > Notices(results[j])
      BY <1>2, <2>1 DEF InOrder
    <3>2. Notices(results[i]) \in Nat /\ Notices(results[j]) \in Nat
      BY <1>2, <1>3, <2>1, NoticesType
    <3> QED BY <1>2, <1>4, <2>1, <3>1, <3>2
  <2>2. CASE i <= old /\ j > old
    <3>1. Notices(results[i]) \in Nat \ {0} /\ Notices(results'[i]) = Notices(results[i]) + n
      BY <1>2, <1>3, <1>4, <2>2, NoticesType
    <3>2. Notices(results'[j]) = old + m + 1 - j /\ m = n
      BY <1>2, <1>5, <2>2
    <3> QED BY <1>2, <2>2, <3>1, <3>2
  <2>3. CASE i > old
    BY <1>2, <1>5, <2>3
  <2> QED BY <1>2, <2>1, <2>2, <2>3
<1> QED BY <1>2, <1>4, <1>6, <1>8, <1>9 DEF Screen

----------------------------------------------------------------------------
(* The actions.                                                            *)

\* A snapshot names the account before it notifies a Home.
LEMMA SnapshotKeeps ==
  ASSUME IInv, Snapshot
  PROVE  IInv'
<1>1. CASE stored = NoDocument
  <2>1. UNCHANGED <<stored, user, homes, results, stack, trap>> /\ fresh' = FALSE
    BY <1>1 DEF Snapshot
  <2>2. \A i : Waiting(i)' = Waiting(i)
    BY <2>1 DEF Waiting
  <2>3. TypeOK' /\ InOrder' /\ DetailsServed'
    BY <2>1, <2>2 DEF IInv, TypeOK, InOrder, DetailsServed
  <2> QED BY <2>1, <2>3
          DEF IInv, NothingUnknown, HomeShowsVacancies, Running, NotifiedAfterSnapshot
<1>2. CASE stored # NoDocument
  <2> DEFINE u == Decode(stored)
  <2>1. u \in [known : {TRUE}, hr : BOOLEAN, vacancies : Nat]
    BY <1>2, DocumentsAssumption DEF IInv, TypeOK, Contents, Decode
  <2>2. u.known = TRUE /\ (~u.hr => u.vacancies = user.vacancies)
    BY DEF Decode
  <2> HIDE DEF u
  <2>3. CASE Unreadable(u) # "none"
    <3>1. Unreadable(u) = "noVacancy"
      BY <2>2, <2>3 DEF Unreadable
    <3>2. EndProcess("noVacancy")
      BY <1>2, <2>3, <3>1 DEF Snapshot, u
    <3> QED BY <3>2, EndProcessKeeps
  <2>4. CASE Unreadable(u) = "none"
    <3>1. /\ fresh' = FALSE /\ user' = u /\ NotifyHomes(u)
          /\ results' = [i \in DOMAIN results |-> Ask(results[i], 1)]
          /\ UNCHANGED <<stored, stack, trap>>
      BY <1>2, <2>4 DEF Snapshot, u
    <3>2. /\ TypeOK /\ InOrder /\ DetailsServed
          /\ \A k \in DOMAIN results : ScreenSound(results[k])
      BY DEF IInv
    <3>3. Len(results) \in Nat /\ DOMAIN results = 1 .. Len(results)
      BY <3>2, LenProperties DEF TypeOK
    <3>4. AskAll(1, 0)
      BY <3>1, <3>3 DEF AskAll
    <3>5. /\ results' \in Seq(ResultsScreens) /\ DOMAIN results' = DOMAIN results
          /\ \A k \in DOMAIN results' : ScreenSound(results'[k])
          /\ InOrder'
          /\ \A k \in DOMAIN results :
               results'[k].asked["metrics"] = results[k].asked["metrics"]
      BY <3>1, <3>2, <3>4, AskAllKeeps
    <3>6. u \in [known : BOOLEAN, hr : BOOLEAN, vacancies : Nat]
      BY <2>1
    <3>7. /\ homes' \in Seq(HomeScreens) /\ homes' # <<>> /\ DOMAIN homes' = DOMAIN homes
          /\ \A i \in DOMAIN homes : /\ homes'[i].rows = homes[i].rows
                                     /\ IF u.hr THEN homes'[i].dirty ELSE homes'[i] = homes[i]
      BY <3>1, <3>2, <3>6, NotifyKeeps
    <3>8. TypeOK'
      BY <3>1, <3>2, <3>5, <3>6, <3>7 DEF TypeOK, HomeScreens
    <3>9. NothingUnknown' /\ HomeShowsVacancies' /\ NotifiedAfterSnapshot'
      BY <2>2, <3>1, <3>7
         DEF IInv, NothingUnknown, HomeShowsVacancies, NotifiedAfterSnapshot
    <3>10. \A i \in DOMAIN homes' : ~homes'[i].dirty => homes'[i].rows <= user'.vacancies
      BY <2>1, <2>2, <3>1, <3>7 DEF IInv
    <3>11. DetailsServed'
      <4>1. \A i : Waiting(i)' = Waiting(i)
        BY <3>1 DEF Waiting
      <4> QED BY <3>2, <3>5, <4>1 DEF DetailsServed
    <3> QED BY <3>5, <3>8, <3>9, <3>10, <3>11 DEF IInv
  <2> QED BY <2>3, <2>4
<1> QED BY <1>1, <1>2

\* The document changes before the app hears of it.
LEMMA ChangeKeeps ==
  ASSUME IInv, NEW d \in Documents, Change(d)
  PROVE  IInv'
<1>1. /\ stored' = d /\ fresh' = TRUE
      /\ UNCHANGED <<user, homes, results, stack, trap>>
  BY DEF Change
<1>2. \A i : Waiting(i)' = Waiting(i)
  BY <1>1 DEF Waiting
<1>3. TypeOK' /\ InOrder' /\ DetailsServed'
  BY <1>1, <1>2 DEF IInv, TypeOK, InOrder, DetailsServed
<1> QED BY <1>1, <1>3
        DEF IInv, NothingUnknown, HomeShowsVacancies, Running, NotifiedAfterSnapshot

\* A new root; the Results screens of the old one live on.
LEMMA ShowHomeKeeps ==
  ASSUME IInv, ShowHome
  PROVE  IInv'
<1> DEFINE n == Len(homes)
<1>1. /\ homes' = Append(homes, NewHome) /\ stack' = <<>>
      /\ UNCHANGED <<stored, fresh, user, results, trap>>
  BY DEF ShowHome
<1>2. homes \in Seq(HomeScreens) /\ NewHome \in HomeScreens
  BY DEF IInv, TypeOK, HomeScreens, NewHome
<1>3. n \in Nat /\ DOMAIN homes = 1 .. n
  BY <1>2, LenProperties
<1>4. /\ homes' \in Seq(HomeScreens) /\ Len(homes') = n + 1 /\ homes'[n + 1] = NewHome
      /\ \A k \in 1 .. n : homes'[k] = homes[k]
  BY <1>1, <1>2, AppendProperties
<1>5. DOMAIN homes' = 1 .. n + 1 /\ homes' # <<>>
  BY <1>3, <1>4, LenProperties, EmptySeq
<1>6. stack' \in Seq(StackScreens) /\ DOMAIN stack' = {}
  BY <1>1, EmptySeq
<1>7. TypeOK'
  BY <1>1, <1>4, <1>5, <1>6 DEF IInv, TypeOK, HomeScreens, StackScreens
<1>8. \A k \in DOMAIN homes' : \/ k \in DOMAIN homes /\ homes'[k] = homes[k]
                               \/ homes'[k] = NewHome
  BY <1>3, <1>4, <1>5
<1>9. NewHome.rows = 0 /\ NewHome.dirty = TRUE
  BY DEF NewHome
<1>10. NothingUnknown'
  BY <1>1, <1>8, <1>9 DEF IInv, NothingUnknown
<1>11. HomeShowsVacancies' /\ NotifiedAfterSnapshot'
  BY <1>1, <1>8, <1>9 DEF IInv, HomeShowsVacancies, Running, NotifiedAfterSnapshot
<1>12. \A k \in DOMAIN homes' : ~homes'[k].dirty => homes'[k].rows <= user'.vacancies
  BY <1>1, <1>8, <1>9 DEF IInv
<1>13. DetailsServed'
  <2> SUFFICES ASSUME NEW k \in DOMAIN results
               PROVE  Cardinality(Waiting(k)') <= results'[k].asked["metrics"]
    BY <1>1 DEF DetailsServed
  <2>1. Waiting(k)' = {}
    BY <1>6 DEF Waiting
  <2>2. results[k] \in ResultsScreens
    BY ElementOfSeq, LenProperties DEF IInv, TypeOK
  <2>3. results'[k].asked["metrics"] \in Nat
    BY <1>1, <2>2 DEF ResultsScreens, Kinds
  <2> QED BY <2>1, <2>3, FS_EmptySet
<1>14. InOrder' /\ \A k \in DOMAIN results' : ScreenSound(results'[k])
  BY <1>1 DEF IInv, InOrder
<1> QED BY <1>7, <1>10, <1>11, <1>12, <1>13, <1>14 DEF IInv

\* The root lists the vacancies there are.
LEMMA LayoutHomeKeeps ==
  ASSUME IInv, LayoutHome
  PROVE  IInv'
<1> DEFINE n == Len(homes)
           rows == IF user.hr THEN user.vacancies ELSE 0
           binds == IF rows > 0 THEN More(homes[n].binds) ELSE homes[n].binds
           root == [rows |-> rows, dirty |-> FALSE, binds |-> binds]
<1>1. UNCHANGED <<stored, fresh, user, results, stack, trap>>
  BY DEF LayoutHome
<1>2. homes \in Seq(HomeScreens) /\ user \in [known : BOOLEAN, hr : BOOLEAN, vacancies : Nat]
  BY DEF IInv, TypeOK, HomeScreens
<1>3. n \in Nat \ {0} /\ DOMAIN homes = 1 .. n
  BY <1>2, LenProperties, EmptySeq DEF IInv, TypeOK
<1>4. homes' = [homes EXCEPT ![n] = root]
  BY <1>3 DEF LayoutHome
<1>5. homes[n] \in HomeScreens
  BY <1>2, <1>3, ElementOfSeq
<1>6. root \in HomeScreens
  <2>1. rows \in Nat
    BY <1>2
  <2>2. binds \in Nat
    BY <1>5 DEF HomeScreens, More
  <2> QED BY <2>1, <2>2 DEF HomeScreens
<1>7. root.rows = rows /\ root.dirty = FALSE
  OBVIOUS
<1> HIDE DEF root
<1>8. /\ homes' \in Seq(HomeScreens) /\ DOMAIN homes' = DOMAIN homes /\ homes' # <<>>
      /\ \A k \in DOMAIN homes : homes'[k] = IF k = n THEN root ELSE homes[k]
  <2>1. /\ homes' \in Seq(HomeScreens) /\ Len(homes') = n
        /\ \A k \in 1 .. n : homes'[k] = IF k = n THEN root ELSE homes[k]
    BY <1>2, <1>3, <1>4, <1>6, ExceptSeq
  <2> QED BY <1>3, <2>1, LenProperties, EmptySeq
<1>9. rows <= user.vacancies /\ (user.hr => rows = user.vacancies)
  BY <1>2
<1>10. ~user.known => rows = 0
  BY DEF IInv, NothingUnknown, Unknown
<1> HIDE DEF rows
<1>11. TypeOK'
  BY <1>1, <1>8 DEF IInv, TypeOK, HomeScreens
<1>12. NothingUnknown'
  BY <1>1, <1>7, <1>8, <1>10 DEF IInv, NothingUnknown
<1>13. HomeShowsVacancies' /\ NotifiedAfterSnapshot'
  BY <1>1, <1>7, <1>8, <1>9 DEF IInv, HomeShowsVacancies, Running, NotifiedAfterSnapshot
<1>14. \A k \in DOMAIN homes' : ~homes'[k].dirty => homes'[k].rows <= user'.vacancies
  BY <1>1, <1>7, <1>8, <1>9 DEF IInv
<1>15. InOrder' /\ DetailsServed' /\ \A k \in DOMAIN results' : ScreenSound(results'[k])
  <2>1. \A i : Waiting(i)' = Waiting(i)
    BY <1>1 DEF Waiting
  <2> QED BY <1>1, <2>1 DEF IInv, InOrder, DetailsServed
<1> QED BY <1>11, <1>12, <1>13, <1>14, <1>15 DEF IInv

\* A vacancy on the screen means that the names are there to be unwrapped, and
\* every screen is told as often as there are new ones after it.
LEMMA TapSearchKeeps ==
  ASSUME IInv, NEW n \in 1 .. MaxBinds, TapSearch(n)
  PROVE  IInv'
<1>1. /\ TypeOK /\ InOrder /\ \A k \in DOMAIN results : ScreenSound(results[k])
  BY DEF IInv
<1>2. user.known
  <2>1. Len(homes) \in DOMAIN homes
    BY <1>1, LenProperties, EmptySeq DEF TypeOK
  <2>2. homes[Len(homes)].rows > 0
    BY DEF TapSearch, Root
  <2> QED BY <2>1, <2>2 DEF IInv, NothingUnknown
<1>3. CASE Unreadable(user) # "none"
  <2>1. Unreadable(user) = "noVacancy" /\ EndProcess("noVacancy")
    BY <1>2, <1>3 DEF Unreadable, TapSearch
  <2> QED BY <2>1, EndProcessKeeps
<1>4. CASE Unreadable(user) = "none"
  <2> DEFINE old == Len(results)
  <2>1. /\ AskAll(n, n) /\ NotifyHomes(user)
        /\ stack' = [i \in 1 .. n |-> ResultsScreen(old + i)]
        /\ UNCHANGED <<stored, fresh, user, trap>>
    BY <1>4 DEF TapSearch, AskAll
  <2>2. n \in Nat /\ old \in Nat /\ DOMAIN results = 1 .. old
    BY <1>1, BoundsAssumption, LenProperties DEF TypeOK
  <2>3. /\ results' \in Seq(ResultsScreens) /\ DOMAIN results' = 1 .. old + n
        /\ \A k \in DOMAIN results' : ScreenSound(results'[k])
        /\ InOrder'
    BY <1>1, <2>1, <2>2, AskAllKeeps
  <2>4. user \in [known : BOOLEAN, hr : BOOLEAN, vacancies : Nat]
    BY <1>1 DEF TypeOK
  <2>5. /\ homes' \in Seq(HomeScreens) /\ homes' # <<>> /\ DOMAIN homes' = DOMAIN homes
        /\ \A i \in DOMAIN homes : /\ homes'[i].rows = homes[i].rows
                                   /\ IF user.hr THEN homes'[i].dirty ELSE homes'[i] = homes[i]
    BY <1>1, <2>1, <2>4, NotifyKeeps
  <2>6. stack' \in [1 .. n -> StackScreens]
    BY <2>1, <2>2 DEF ResultsScreen, StackScreens
  <2>7. stack' \in Seq(StackScreens) /\ DOMAIN stack' = 1 .. n
    BY <2>2, <2>6, RowByRow
  <2>8. \A j \in 1 .. n : stack'[j].of = old + j /\ stack'[j].kind = "results"
    BY <2>1 DEF ResultsScreen
  <2>9. \A j \in 1 .. n : stack'[j].of \in DOMAIN results'
    BY <2>2, <2>3, <2>8
  <2>10. TypeOK'
    BY <1>1, <2>1, <2>3, <2>5, <2>7, <2>9 DEF TypeOK, HomeScreens, StackScreens
  <2>11. NothingUnknown' /\ HomeShowsVacancies' /\ NotifiedAfterSnapshot'
    BY <1>2, <2>1, <2>5 DEF IInv, NothingUnknown, HomeShowsVacancies, NotifiedAfterSnapshot
  <2>12. \A k \in DOMAIN homes' : ~homes'[k].dirty => homes'[k].rows <= user'.vacancies
    BY <2>1, <2>5 DEF IInv
  <2>13. DetailsServed'
    <3> SUFFICES ASSUME NEW k \in DOMAIN results'
                 PROVE  Cardinality(Waiting(k)') <= results'[k].asked["metrics"]
      BY DEF DetailsServed
    <3>1. Waiting(k)' = {}
      BY <2>7, <2>8 DEF Waiting, DetailScreen
    <3>2. results'[k] \in ResultsScreens
      BY <2>3, ElementOfSeq, LenProperties
    <3>3. results'[k].asked["metrics"] \in Nat
      BY <3>2 DEF ResultsScreens, Kinds
    <3> QED BY <3>1, <3>3, FS_EmptySet
  <2> QED BY <2>3, <2>10, <2>11, <2>12, <2>13 DEF IInv
<1> QED BY <1>3, <1>4

\* Every Results screen of a sound board is sound.
LEMMA ScreenAt ==
  ASSUME IInv, NEW i \in DOMAIN results
  PROVE  Screen(results[i])
<1>1. results \in Seq(ResultsScreens) /\ ScreenSound(results[i])
  BY DEF IInv, TypeOK
<1>2. results[i] \in ResultsScreens
  BY <1>1, ElementOfSeq, LenProperties
<1> QED BY <1>1, <1>2 DEF Screen

\* The answer to the read of the own document keeps the invariant.
LEMMA AnswerOwnKeeps ==
  ASSUME IInv, NEW i \in DOMAIN results, AnswerOwn(i)
  PROVE  IInv'
<1>1. Screen(results[i]) /\ results[i].asked["own"] > 0
  BY ScreenAt DEF AnswerOwn
<1>2. CASE stored = NoDocument \/ ~stored.matched
  <2>1. EndProcess("unmatched")
    BY <1>2 DEF AnswerOwn
  <2> QED BY <2>1, EndProcessKeeps
<1>3. CASE ~(stored = NoDocument \/ ~stored.matched)
  <2>1. /\ Update(i, OwnScore(results[i]))
        /\ UNCHANGED <<stored, fresh, user, homes, stack, trap>>
    BY <1>3 DEF AnswerOwn, OwnScore
  <2> DEFINE s == OwnScore(results[i])
  <2>2. /\ Screen(s) /\ Notices(s) = Notices(results[i])
        /\ s.asked["metrics"] = results[i].asked["metrics"]
    BY <1>1, OwnScoreSound
  <2> HIDE DEF s
  <2> QED BY <2>1, <2>2, ScreenStep DEF s
<1> QED BY <1>2, <1>3

\* The answer to the read of the pair keeps the invariant.
LEMMA AnswerPairKeeps ==
  ASSUME IInv, NEW i \in DOMAIN results, AnswerPair(i)
  PROVE  IInv'
<1> DEFINE s == PairScore(results[i])
<1>1. Screen(results[i]) /\ results[i].asked["pair"] > 0
  BY ScreenAt DEF AnswerPair
<1>2. Update(i, s) /\ UNCHANGED <<stored, fresh, user, homes, stack, trap>>
  BY DEF AnswerPair, PairScore
<1>3. /\ Screen(s) /\ Notices(s) = Notices(results[i])
      /\ s.asked["metrics"] = results[i].asked["metrics"]
  BY <1>1, PairScoreSound
<1> HIDE DEF s
<1> QED BY <1>2, <1>3, ScreenStep

\* The answer to the read of a résumé keeps the invariant.
LEMMA AnswerResumeKeeps ==
  ASSUME IInv, NEW i \in DOMAIN results, NEW resume \in {"user1", "user2"},
         AnswerResume(i, resume)
  PROVE  IInv'
<1> DEFINE s == Resume(results[i], resume)
<1>1. Screen(results[i]) /\ results[i].asked[resume] > 0
  BY ScreenAt DEF AnswerResume
<1>2. Update(i, s) /\ UNCHANGED <<stored, fresh, user, homes, stack, trap>>
  BY DEF AnswerResume, Resume
<1>3. /\ Screen(s) /\ Notices(s) = Notices(results[i])
      /\ s.asked["metrics"] = results[i].asked["metrics"]
  BY <1>1, ResumeSound
<1> HIDE DEF s
<1> QED BY <1>2, <1>3, ScreenStep

\* The read of the own score may fail; every other one traps.
LEMMA FailKeeps ==
  ASSUME IInv, NEW i \in DOMAIN results, NEW kind \in Kinds, Fail(i, kind)
  PROVE  IInv'
<1>1. CASE kind = "own"
  <2> DEFINE s == Got(results[i], "own")
  <2>1. Screen(results[i]) /\ results[i].asked["own"] > 0
    BY <1>1, ScreenAt DEF Fail
  <2>2. Update(i, s) /\ UNCHANGED <<stored, fresh, user, homes, stack, trap>>
    BY <1>1 DEF Fail
  <2>3. /\ Screen(s) /\ Notices(s) = Notices(results[i])
        /\ s.asked["metrics"] = results[i].asked["metrics"]
    BY <2>1, GotSound
  <2> HIDE DEF s
  <2> QED BY <2>2, <2>3, ScreenStep
<1>2. CASE kind # "own"
  <2>1. EndProcess("readFailed")
    BY <1>2 DEF Fail
  <2> QED BY <2>1, EndProcessKeeps
<1> QED BY <1>1, <1>2

\* The screen on top is one of those there are.
LEMMA TopExists ==
  ASSUME IInv, ~AtHome
  PROVE  /\ stack \in Seq(StackScreens) /\ Len(stack) \in Nat \ {0}
         /\ DOMAIN stack = 1 .. Len(stack) /\ Top.of \in DOMAIN results
<1>1. stack \in Seq(StackScreens) /\ stack # <<>>
  BY DEF IInv, TypeOK, StackScreens, AtHome
<1>2. Len(stack) \in Nat \ {0} /\ DOMAIN stack = 1 .. Len(stack)
  BY <1>1, EmptySeq, LenProperties
<1>3. Len(stack) \in DOMAIN stack
  BY <1>2
<1> QED BY <1>1, <1>2, <1>3 DEF IInv, TypeOK, Top

\* A layout of the Results screen on top keeps the invariant.
LEMMA LayoutResultsKeeps ==
  ASSUME IInv, LayoutResults
  PROVE  IInv'
<1> DEFINE i == Top.of
           s == LaidOut(results[i])
<1>1. i \in DOMAIN results
  BY TopExists DEF LayoutResults
<1>2. Update(i, s) /\ UNCHANGED <<stored, fresh, user, homes, stack, trap>>
  BY DEF LayoutResults, LaidOut
<1> HIDE DEF i
<1>3. /\ Screen(s) /\ Notices(s) = Notices(results[i])
      /\ s.asked["metrics"] = results[i].asked["metrics"]
  BY <1>1, ScreenAt, LaidOutSound
<1> HIDE DEF s
<1> QED BY <1>1, <1>2, <1>3, ScreenStep

----------------------------------------------------------------------------
(* The screens that wait for metrics.                                      *)

\* A step that changes the stack and one Results screen, where the screen waits
\* for as many answers as there are unfilled details of it.
LEMMA StackStep ==
  ASSUME IInv, NEW i \in DOMAIN results, NEW r,
         Screen(r), Notices(r) = Notices(results[i]), Update(i, r),
         UNCHANGED <<stored, fresh, user, homes, trap>>,
         stack' \in Seq(StackScreens), \A j \in DOMAIN stack' : stack'[j].of \in DOMAIN results,
         Cardinality(Waiting(i)') <= r.asked["metrics"],
         \A k \in DOMAIN results \ {i} : Cardinality(Waiting(k)') <= Cardinality(Waiting(k)),
         \A k : Cardinality(Waiting(k)') \in Nat
  PROVE  IInv'
<1>1. /\ TypeOK /\ \A k \in DOMAIN results : ScreenSound(results[k])
      /\ InOrder /\ DetailsServed
  BY DEF IInv
<1>2. /\ results' \in Seq(ResultsScreens) /\ DOMAIN results' = DOMAIN results
      /\ \A k \in DOMAIN results' : ScreenSound(results'[k])
      /\ InOrder'
      /\ results'[i] = r /\ \A k \in DOMAIN results \ {i} : results'[k] = results[k]
  BY <1>1, UpdateKeeps
<1>3. TypeOK'
  BY <1>1, <1>2 DEF TypeOK, StackScreens
<1>4. DetailsServed'
  <2> SUFFICES ASSUME NEW k \in DOMAIN results, k # i
               PROVE  Cardinality(Waiting(k)') <= results[k].asked["metrics"]
    BY <1>2 DEF DetailsServed
  <2>1. Cardinality(Waiting(k)') <= Cardinality(Waiting(k))
    OBVIOUS
  <2>2. Cardinality(Waiting(k)) \in Nat /\ Cardinality(Waiting(k)') \in Nat
    BY <1>1, WaitingFinite
  <2>3. results[k].asked["metrics"] \in Nat
    BY ScreenAt DEF Screen, ResultsScreens, Kinds
  <2> QED BY <1>1, <2>1, <2>2, <2>3 DEF DetailsServed
<1>5. /\ NothingUnknown' /\ HomeShowsVacancies' /\ NotifiedAfterSnapshot'
      /\ (\A k \in DOMAIN homes : ~homes[k].dirty => homes[k].rows <= user.vacancies)'
  BY DEF IInv, NothingUnknown, HomeShowsVacancies, Running, NotifiedAfterSnapshot
<1> QED BY <1>2, <1>3, <1>4, <1>5 DEF IInv

\* As many details are pushed as reads are started.
LEMMA TapRowKeeps ==
  ASSUME IInv, TapRow
  PROVE  IInv'
<1>0. PICK i \in DOMAIN results : i = Top.of
  BY TopExists DEF TapRow
<1> DEFINE r == results[i]
           n == Len(stack)
<1>1. i \in DOMAIN results /\ Screen(r)
  BY ScreenAt
<1>2. stack \in Seq(StackScreens) /\ n \in Nat /\ DOMAIN stack = 1 .. n
  BY TopExists DEF TapRow
<1>3. CASE ~r.uid
  <2>1. EndProcess("emptyPath")
    BY <1>0, <1>3 DEF TapRow
  <2> QED BY <2>1, EndProcessKeeps
<1>4. CASE r.uid
  <2> DEFINE m == r.taps
             s == Tapped(r)
             pushed == [k \in 1 .. m |-> DetailScreen(i)]
  <2>1. /\ stack' = stack \o pushed /\ Update(i, s)
        /\ UNCHANGED <<stored, fresh, user, homes, trap>>
    BY <1>0, <1>4 DEF TapRow, Tapped
  <2>2. /\ Screen(s) /\ Notices(s) = Notices(r)
        /\ s.asked["metrics"] = r.asked["metrics"] + m
    BY <1>1, TappedSound
  <2>3. m \in Nat /\ r.asked["metrics"] \in Nat
    BY <1>1 DEF Screen, ResultsScreens, Kinds
  <2>4. i \in Nat
    BY <1>1, LenProperties DEF IInv, TypeOK
  <2> HIDE DEF s
  <2>5. pushed \in Seq(StackScreens) /\ Len(pushed) = m
    <3>1. pushed \in [1 .. m -> StackScreens]
      BY <2>4 DEF DetailScreen, StackScreens
    <3> QED BY <2>3, <3>1, RowByRow
  <2>6. \A k \in 1 .. m : pushed[k] = DetailScreen(i)
    OBVIOUS
  <2> HIDE DEF pushed
  <2>7. /\ stack' \in Seq(StackScreens) /\ Len(stack') = n + m
        /\ \A k \in 1 .. n : stack'[k] = stack[k]
        /\ \A k \in n + 1 .. n + m : stack'[k] = DetailScreen(i)
    <3>1. /\ stack' \in Seq(StackScreens) /\ Len(stack') = n + m
          /\ \A k \in 1 .. n + m : stack'[k] = IF k <= n THEN stack[k] ELSE pushed[k - n]
      <4>1. /\ stack \o pushed \in Seq(StackScreens)
            /\ Len(stack \o pushed) = Len(stack) + Len(pushed)
            /\ \A k \in 1 .. Len(stack) + Len(pushed) : (stack \o pushed)[k] =
                 IF k <= Len(stack) THEN stack[k] ELSE pushed[k - Len(stack)]
        BY <1>2, <2>5, ConcatProperties
      <4> QED BY <2>1, <2>5, <4>1
    <3>2. \A k \in n + 1 .. n + m : k - n \in 1 .. m
      BY <1>2, <2>3
    <3>3. \A k \in n + 1 .. n + m : stack'[k] = pushed[k - n]
      BY <1>2, <2>3, <3>1
    <3>4. \A k \in n + 1 .. n + m : stack'[k] = DetailScreen(i)
      BY <2>6, <3>2, <3>3
    <3>5. \A k \in 1 .. n : stack'[k] = stack[k]
      BY <1>2, <2>3, <3>1
    <3> QED BY <3>1, <3>4, <3>5
  <2>8. DOMAIN stack' = 1 .. n + m
    BY <2>7, LenProperties
  <2>9. \A k \in 1 .. n + m : k \in 1 .. n \/ k \in n + 1 .. n + m
    BY <1>2, <2>3
  <2>10. \A k \in 1 .. n : k \in 1 .. n + m
    BY <1>2, <2>3
  <2>11. \A k \in DOMAIN stack' : stack'[k].of \in DOMAIN results
    BY <1>1, <1>2, <2>7, <2>8, <2>9 DEF IInv, TypeOK, DetailScreen
  <2>12. \A k : k # i => Waiting(k)' = Waiting(k)
    <3> SUFFICES ASSUME NEW k, k # i
                 PROVE  Waiting(k)' = Waiting(k)
      OBVIOUS
    <3>1. DetailScreen(i) # DetailScreen(k)
      BY DEF DetailScreen
    <3> QED BY <1>2, <2>7, <2>8, <2>9, <2>10, <3>1 DEF Waiting
  <2>13. Waiting(i)' = Waiting(i) \cup (n + 1 .. n + m)
    <3>1. \A k \in n + 1 .. n + m : k \in 1 .. n + m
      BY <1>2, <2>3
    <3> QED BY <1>2, <2>7, <2>8, <2>9, <2>10, <3>1 DEF Waiting
  <2>14. \A k : IsFiniteSet(Waiting(k)) /\ Cardinality(Waiting(k)) \in Nat
    BY WaitingFinite DEF IInv
  <2>15. Cardinality(Waiting(i)') <= Cardinality(Waiting(i)) + m /\ Cardinality(Waiting(i)') \in Nat
    <3>1. IsFiniteSet(n + 1 .. n + m) /\ Cardinality(n + 1 .. n + m) = m
      <4>1. n + 1 \in Int /\ n + m \in Int
        BY <1>2, <2>3
      <4>2. /\ IsFiniteSet(n + 1 .. n + m)
            /\ Cardinality(n + 1 .. n + m)
                 = IF n + 1 > n + m THEN 0 ELSE (n + m) - (n + 1) + 1
        BY <4>1, FS_Interval
      <4> QED BY <1>2, <2>3, <4>2
    <3>2. Waiting(i) \cap (n + 1 .. n + m) = {}
      BY <1>2 DEF Waiting
    <3>3. /\ IsFiniteSet(Waiting(i) \cup (n + 1 .. n + m))
          /\ Cardinality(Waiting(i) \cup (n + 1 .. n + m))
               = Cardinality(Waiting(i)) + Cardinality(n + 1 .. n + m) - Cardinality({})
      <4>1. IsFiniteSet(Waiting(i))
        BY <2>14
      <4>2. /\ IsFiniteSet(Waiting(i) \cup (n + 1 .. n + m))
            /\ Cardinality(Waiting(i) \cup (n + 1 .. n + m))
                 = Cardinality(Waiting(i)) + Cardinality(n + 1 .. n + m)
                     - Cardinality(Waiting(i) \cap (n + 1 .. n + m))
        BY <3>1, <4>1, FS_Union
      <4> QED BY <3>2, <4>2
    <3> QED BY <2>3, <2>13, <2>14, <3>1, <3>3, FS_EmptySet
  <2>16. Cardinality(Waiting(i)') <= s.asked["metrics"]
    <3>1. Cardinality(Waiting(i)) <= r.asked["metrics"]
      BY <1>1 DEF IInv, DetailsServed
    <3> QED BY <2>2, <2>3, <2>14, <2>15, <3>1
  <2>17. \A k : Cardinality(Waiting(k)') \in Nat
    BY <2>12, <2>14, <2>15
  <2>18. \A k \in DOMAIN results \ {i} : Cardinality(Waiting(k)') <= Cardinality(Waiting(k))
    BY <2>12, <2>14
  <2> QED BY <1>1, <2>1, <2>2, <2>7, <2>11, <2>16, <2>17, <2>18, StackStep
<1> QED BY <1>3, <1>4

\* One answer fills one detail, or arrives for one that was popped.
LEMMA AnswerMetricsKeeps ==
  ASSUME IInv, NEW i \in DOMAIN results, AnswerMetrics(i)
  PROVE  IInv'
<1> DEFINE r == results[i]
           s == Got(r, "metrics")
<1>1. Screen(r) /\ r.asked["metrics"] > 0
  BY ScreenAt DEF AnswerMetrics
<1>2. Update(i, s) /\ UNCHANGED <<stored, fresh, user, homes, trap>>
  BY DEF AnswerMetrics
<1>3. /\ Screen(s) /\ Notices(s) = Notices(r)
      /\ s.asked["metrics"] = r.asked["metrics"] - 1
  BY <1>1, GotSound
<1> HIDE DEF s
<1>4. stack \in Seq(StackScreens) /\ DOMAIN stack = 1 .. Len(stack)
  BY LenProperties DEF IInv, TypeOK, StackScreens
<1>5. \A k \in DOMAIN stack : stack[k].of \in DOMAIN results
  BY DEF IInv, TypeOK
<1>6. \A k : IsFiniteSet(Waiting(k)) /\ Cardinality(Waiting(k)) \in Nat
  BY WaitingFinite DEF IInv
<1>7. r.asked["metrics"] \in Nat /\ Cardinality(Waiting(i)) <= r.asked["metrics"]
  BY <1>1 DEF Screen, ResultsScreens, Kinds, IInv, DetailsServed
<1>8. CASE r.asked["metrics"] > Cardinality(Waiting(i)) /\ UNCHANGED stack
  <2>1. \A k : Waiting(k)' = Waiting(k)
    BY <1>8 DEF Waiting
  <2>2. Cardinality(Waiting(i)') <= s.asked["metrics"]
    BY <1>3, <1>6, <1>7, <1>8, <2>1
  <2>3. /\ stack' \in Seq(StackScreens)
        /\ \A j \in DOMAIN stack' : stack'[j].of \in DOMAIN results
        /\ \A k \in DOMAIN results \ {i} : Cardinality(Waiting(k)') <= Cardinality(Waiting(k))
        /\ \A k : Cardinality(Waiting(k)') \in Nat
    BY <1>4, <1>5, <1>6, <1>8, <2>1
  <2> QED BY <1>2, <1>3, <2>2, <2>3, StackStep
<1>9. ASSUME NEW j \in Waiting(i), stack' = [stack EXCEPT ![j].filled = TRUE]
      PROVE  IInv'
  <2> DEFINE d == [stack[j] EXCEPT !.filled = TRUE]
  <2>1. j \in 1 .. Len(stack) /\ stack[j] = DetailScreen(i)
    BY <1>4 DEF Waiting
  <2>2. i \in Nat
    BY LenProperties DEF IInv, TypeOK
  <2>3. stack[j] \in StackScreens
    BY <1>4, <2>1, ElementOfSeq
  <2>4. d \in StackScreens /\ d.of = i /\ \A k : d # DetailScreen(k)
    <3>1. d \in StackScreens /\ d.of = stack[j].of /\ d.filled = TRUE
      BY <2>3 DEF StackScreens
    <3>2. stack[j].of = i /\ \A k : DetailScreen(k).filled = FALSE
      BY <2>1 DEF DetailScreen
    <3> HIDE DEF d
    <3>3. \A k : d # DetailScreen(k)
      BY <3>1, <3>2
    <3> QED BY <3>1, <3>2, <3>3
  <2>5. stack' = [stack EXCEPT ![j] = d]
    BY <1>4, <1>9, <2>1
  <2> HIDE DEF d
  <2>6. /\ stack' \in Seq(StackScreens) /\ Len(stack') = Len(stack)
        /\ \A k \in 1 .. Len(stack) : stack'[k] = IF k = j THEN d ELSE stack[k]
    BY <1>4, <2>1, <2>4, <2>5, ExceptSeq
  <2>7. DOMAIN stack' = DOMAIN stack
    BY <2>5
  <2>8. \A k \in DOMAIN stack' : stack'[k].of \in DOMAIN results
    BY <1>4, <1>5, <2>4, <2>6, <2>7
  <2>9. \A k : k # i => Waiting(k)' = Waiting(k)
    <3> SUFFICES ASSUME NEW k, k # i
                 PROVE  Waiting(k)' = Waiting(k)
      OBVIOUS
    <3>1. DetailScreen(i) # DetailScreen(k)
      BY DEF DetailScreen
    <3> QED BY <1>4, <2>1, <2>4, <2>6, <2>7, <3>1 DEF Waiting
  <2>10. Waiting(i)' = Waiting(i) \ {j}
    BY <1>4, <2>1, <2>4, <2>6, <2>7 DEF Waiting
  <2>11. Cardinality(Waiting(i)') = Cardinality(Waiting(i)) - 1 /\ IsFiniteSet(Waiting(i)')
    BY <1>6, <1>9, <2>10, FS_RemoveElement
  <2>12. Cardinality(Waiting(i)') \in Nat
    BY <2>11, FS_CardinalityType
  <2>13. Cardinality(Waiting(i)') <= s.asked["metrics"]
    BY <1>3, <1>6, <1>7, <2>11
  <2>14. \A k : Cardinality(Waiting(k)') \in Nat
    BY <1>6, <2>9, <2>12
  <2>15. \A k \in DOMAIN results \ {i} : Cardinality(Waiting(k)') <= Cardinality(Waiting(k))
    BY <1>6, <2>9
  <2> QED BY <1>2, <1>3, <2>6, <2>8, <2>13, <2>14, <2>15, StackStep
<1> QED BY <1>8, <1>9 DEF AnswerMetrics

\* A screen popped waits for nothing any more.
LEMMA BackKeeps ==
  ASSUME IInv, Back
  PROVE  IInv'
<1> DEFINE n == Len(stack)
<1>1. stack \in Seq(StackScreens) /\ n \in Nat \ {0} /\ DOMAIN stack = 1 .. n
  BY TopExists DEF Back
<1>2. stack' = SubSeq(stack, 1, n - 1) /\ UNCHANGED <<stored, fresh, user, homes, trap>>
  BY DEF Back
<1>3. \A k \in 1 .. n - 1 : k \in 1 .. n /\ stack[k] \in StackScreens
  BY <1>1, ElementOfSeq
<1>4. /\ stack' \in Seq(StackScreens) /\ Len(stack') = n - 1
      /\ \A k \in 1 .. n - 1 : stack'[k] = stack[k]
  <2>1. n - 1 \in Int /\ (1 <= n - 1 \/ n = 1)
    BY <1>1
  <2>2. /\ stack' \in Seq(StackScreens)
        /\ Len(stack') = IF 1 <= n - 1 THEN (n - 1) - 1 + 1 ELSE 0
        /\ \A k \in 1 .. (n - 1) - 1 + 1 : stack'[k] = stack[1 + k - 1]
    BY <1>2, <1>3, <2>1, SubSeqProperties
  <2>3. (n - 1) - 1 + 1 = n - 1 /\ \A k \in 1 .. n - 1 : 1 + k - 1 = k
    BY <1>1
  <2>4. Len(stack') = n - 1
    <3>1. Len(stack') = IF 1 <= n - 1 THEN (n - 1) - 1 + 1 ELSE 0
      BY <2>2
    <3>2. CASE 1 <= n - 1
      BY <1>1, <3>1, <3>2
    <3>3. CASE n = 1
      BY <3>1, <3>3
    <3> QED BY <2>1, <3>2, <3>3
  <2>5. \A k \in 1 .. n - 1 : stack'[k] = stack[k]
    BY <2>2, <2>3
  <2> QED BY <2>2, <2>4, <2>5
<1>5. DOMAIN stack' = 1 .. n - 1
  BY <1>4, LenProperties
<1>6. \A k \in DOMAIN stack' : stack'[k].of \in DOMAIN results
  BY <1>1, <1>3, <1>4, <1>5 DEF IInv, TypeOK
<1>7. \A k : /\ Cardinality(Waiting(k)) \in Nat /\ Cardinality(Waiting(k)') \in Nat
             /\ Cardinality(Waiting(k)') <= Cardinality(Waiting(k))
  <2> TAKE k
  <2>1. Waiting(k)' \subseteq Waiting(k)
    BY <1>1, <1>3, <1>4, <1>5 DEF Waiting
  <2>2. IsFiniteSet(Waiting(k)) /\ Cardinality(Waiting(k)) \in Nat
    BY WaitingFinite DEF IInv
  <2>3. IsFiniteSet(Waiting(k)') /\ Cardinality(Waiting(k)') <= Cardinality(Waiting(k))
    BY <2>1, <2>2, FS_Subset
  <2> QED BY <2>2, <2>3, FS_CardinalityType
<1>8. CASE stack' # <<>> /\ stack'[Len(stack')].kind = "results"
  <2>1. Len(stack') \in DOMAIN stack'
    BY <1>4, <1>8, EmptySeq, LenProperties
  <2>2. PICK i \in DOMAIN results : i = stack'[Len(stack')].of
    BY <1>6, <2>1
  <2> DEFINE s == Bound(results[i])
  <2>3. Update(i, s)
    BY <1>8, <2>2 DEF Back, Bound
  <2>4. /\ Screen(s) /\ Notices(s) = Notices(results[i])
        /\ s.asked["metrics"] = results[i].asked["metrics"]
    BY <2>2, ScreenAt, BoundSound
  <2> HIDE DEF s
  <2>5. results[i].asked["metrics"] \in Nat
    BY <2>2, ScreenAt DEF Screen, ResultsScreens, Kinds
  <2>6. Cardinality(Waiting(i)') <= s.asked["metrics"]
    BY <1>7, <2>2, <2>4, <2>5 DEF IInv, DetailsServed
  <2>7. \A k : Cardinality(Waiting(k)') \in Nat
    BY <1>7
  <2>8. \A k \in DOMAIN results \ {i} : Cardinality(Waiting(k)') <= Cardinality(Waiting(k))
    BY <1>7
  <2> QED BY <1>2, <1>4, <1>6, <2>2, <2>3, <2>4, <2>6, <2>7, <2>8, StackStep
<1>9. CASE ~(stack' # <<>> /\ stack'[Len(stack')].kind = "results")
  <2>1. UNCHANGED results
    BY <1>9 DEF Back
  <2>2. TypeOK' /\ InOrder' /\ \A k \in DOMAIN results' : ScreenSound(results'[k])
    BY <1>2, <1>4, <1>6, <2>1 DEF IInv, TypeOK, InOrder, StackScreens
  <2>3. DetailsServed'
    <3> SUFFICES ASSUME NEW k \in DOMAIN results
                 PROVE  Cardinality(Waiting(k)') <= results[k].asked["metrics"]
      BY <2>1 DEF DetailsServed
    <3>1. results[k].asked["metrics"] \in Nat
      BY ScreenAt DEF Screen, ResultsScreens, Kinds
    <3> QED BY <1>7, <3>1 DEF IInv, DetailsServed
  <2> QED BY <1>2, <2>2, <2>3
          DEF IInv, NothingUnknown, HomeShowsVacancies, Running, NotifiedAfterSnapshot
<1> QED BY <1>8, <1>9

----------------------------------------------------------------------------
(* The invariant.                                                          *)

\* A board whose first screen has just come up satisfies the invariant.
LEMMA InitKeeps == Init => IInv
<1> SUFFICES ASSUME Init
             PROVE  IInv
  OBVIOUS
<1>1. /\ stored \in Documents \cup {NoDocument} /\ fresh = TRUE /\ user = Unknown
      /\ homes = <<NewHome>> /\ results = <<>> /\ stack = <<>> /\ trap = "none"
  BY DEF Init
<1>2. NewHome \in HomeScreens /\ Unknown \in [known : BOOLEAN, hr : BOOLEAN, vacancies : Nat]
  BY DEF NewHome, HomeScreens, Unknown
<1>3. homes \in Seq(HomeScreens) /\ homes # <<>> /\ DOMAIN homes = {1} /\ homes[1] = NewHome
  BY <1>1, <1>2
<1>4. DOMAIN results = {} /\ DOMAIN stack = {}
  BY <1>1
<1>5. results \in Seq(ResultsScreens) /\ stack \in Seq(StackScreens)
  BY <1>1, EmptySeq
<1>6. TypeOK
  BY <1>1, <1>2, <1>3, <1>4, <1>5 DEF TypeOK, HomeScreens, StackScreens
<1>7. NothingUnknown /\ HomeShowsVacancies /\ NotifiedAfterSnapshot
  BY <1>1, <1>3 DEF NothingUnknown, HomeShowsVacancies, NotifiedAfterSnapshot, NewHome, Unknown
<1>8. \A k \in DOMAIN homes : ~homes[k].dirty => homes[k].rows <= user.vacancies
  BY <1>3 DEF NewHome
<1>9. InOrder /\ DetailsServed /\ \A k \in DOMAIN results : ScreenSound(results[k])
  BY <1>4 DEF InOrder, DetailsServed
<1> QED BY <1>6, <1>7, <1>8, <1>9 DEF IInv

\* Whatever read a Results screen made, its answer keeps the invariant.
LEMMA AnswerReadKeeps ==
  ASSUME IInv, NEW i \in DOMAIN results, NEW kind \in Kinds, AnswerRead(i, kind)
  PROVE  IInv'
<1>1. CASE kind = "own"
  BY <1>1, AnswerOwnKeeps DEF AnswerRead
<1>2. CASE kind = "pair"
  BY <1>2, AnswerPairKeeps DEF AnswerRead
<1>3. CASE kind = "metrics"
  BY <1>3, AnswerMetricsKeeps DEF AnswerRead
<1>4. CASE kind \in {"user1", "user2"}
  <2>1. AnswerResume(i, kind)
    BY <1>4 DEF AnswerRead
  <2> QED BY <1>4, <2>1, AnswerResumeKeeps
<1> QED BY <1>1, <1>2, <1>3, <1>4 DEF Kinds

\* No step of the board falsifies the invariant.
LEMMA NextKeeps == IInv /\ [Next]_vars => IInv'
<1> SUFFICES ASSUME IInv, [Next]_vars
             PROVE  IInv'
  OBVIOUS
<1>1. CASE Snapshot
  BY <1>1, SnapshotKeeps
<1>2. ASSUME NEW d \in Documents, Change(d)
      PROVE  IInv'
  BY <1>2, ChangeKeeps
<1>3. ASSUME NEW i \in DOMAIN results, NEW kind \in Kinds, AnswerRead(i, kind)
      PROVE  IInv'
  BY <1>3, AnswerReadKeeps
<1>4. ASSUME NEW i \in DOMAIN results, NEW kind \in Kinds, Fail(i, kind)
      PROVE  IInv'
  BY <1>4, FailKeeps
<1>5. CASE ShowHome
  BY <1>5, ShowHomeKeeps
<1>6. CASE LayoutHome
  BY <1>6, LayoutHomeKeeps
<1>7. CASE LayoutResults
  BY <1>7, LayoutResultsKeeps
<1>8. ASSUME NEW n \in 1 .. MaxBinds, TapSearch(n)
      PROVE  IInv'
  BY <1>8, TapSearchKeeps
<1>9. CASE TapRow
  BY <1>9, TapRowKeeps
<1>10. CASE Back
  BY <1>10, BackKeeps
<1>11. CASE Relaunch
  BY <1>11, EndProcessKeeps DEF Relaunch
<1>12. CASE UNCHANGED vars
  <2>1. \A i : Waiting(i)' = Waiting(i)
    BY <1>12 DEF Waiting, vars
  <2>2. TypeOK' /\ InOrder' /\ DetailsServed'
    BY <1>12, <2>1 DEF IInv, TypeOK, InOrder, DetailsServed, vars
  <2> QED BY <1>12, <2>2
          DEF IInv, NothingUnknown, HomeShowsVacancies, Running, NotifiedAfterSnapshot, vars
<1> QED BY <1>1, <1>2, <1>3, <1>4, <1>5, <1>6, <1>7, <1>8, <1>9, <1>10, <1>11, <1>12
        DEF Next, Firestore

\* The invariant holds in every reachable state, whatever the documents, vacancies
\* and bounds.
THEOREM Invariant == Spec => []IInv
<1> QED BY InitKeeps, NextKeeps, PTL DEF Spec

----------------------------------------------------------------------------
(* What the screens show.                                                  *)

\* Every variable keeps its type; in particular every screen pushed above the
\* root belongs to a Results screen that exists.
THEOREM BoardTypeCorrect == Spec => []TypeOK
<1>1. IInv => TypeOK
  BY DEF IInv
<1> QED BY <1>1, Invariant, PTL

\* A table laid out never asks for a vacancy or a résumé that is not there, even
\* if hrcvs and users changed while it was covered.
THEOREM TablesStayInBounds == Spec => []TablesInBounds
<1>1. IInv => TablesInBounds
  BY DEF IInv, TablesInBounds, ScreenSound, TableSound
<1> QED BY <1>1, Invariant, PTL

\* Every Home ever shown, replaced or covered ones included, lists the vacancies
\* DatabaseManager holds unless it is about to be laid out again.
THEOREM HomesShowVacancies == Spec => []HomeShowsVacancies
<1>1. IInv => HomeShowsVacancies
  BY DEF IInv
<1> QED BY <1>1, Invariant, PTL

\* Nobody unwraps the names of an account before its first snapshot: a search
\* can be tapped only where a snapshot has laid out a vacancy.
THEOREM NamesKnownWhenNotified == Spec => []NotifiedAfterSnapshot
<1>1. IInv => NotifiedAfterSnapshot
  BY DEF IInv
<1> QED BY <1>1, Invariant, PTL

\* However often a Results screen is notified, it reads its own score once and
\* then the pair's once.
THEOREM EachScoreReadOnce == Spec => []ScoresReadOnce
<1>1. IInv => ScoresReadOnce
  <2> SUFFICES ASSUME IInv, NEW i \in DOMAIN results
               PROVE  LET r == results[i] IN
                      /\ r.ranks \in {<<>>, <<"own">>, <<"own", "pair">>}
                      /\ r.uid <=> r.ranks # <<>>
                      /\ r.asked["own"] + Len(r.ranks) + r.asked["pair"] <= 2
                      /\ r.uid => r.asked["own"] = 0 /\ Len(r.ranks) + r.asked["pair"] = 2
    BY DEF ScoresReadOnce
  <2> DEFINE r == results[i]
  <2>1. ScoresSound(r) /\ r \in ResultsScreens
    BY ScreenAt DEF Screen, ScreenSound
  <2>2. /\ r.asked["own"] \in Nat /\ r.asked["pair"] \in Nat /\ r.uid \in BOOLEAN
        /\ Len(r.ranks) \in Nat /\ Len(<<>>) = 0
    BY <2>1, LenProperties, EmptySeq DEF ResultsScreens, Kinds
  <2>3. r.asked["own"] + Len(r.ranks) + r.asked["pair"] <= 2
    BY <2>1, <2>2 DEF ScoresSound
  <2> QED BY <2>1, <2>3 DEF ScoresSound
<1> QED BY <1>1, Invariant, PTL

\* No answer is dropped: both résumés were asked for, and received or awaited,
\* once for each notification, and an older screen had more of them.
THEOREM NoticesAreServed == Spec => []EveryNoticeServed
<1>1. IInv => EveryNoticeServed
  BY DEF IInv, EveryNoticeServed, ScreenSound, NoticesSound, InOrder
<1> QED BY <1>1, Invariant, PTL

\* Whatever order the reads are answered in, a table laid out after both scores
\* shows the pair's in its first row and the own one in its second.
THEOREM MatchIsSettled == Spec => []MatchSettles
<1>1. IInv => MatchSettles
  BY DEF IInv, MatchSettles, ScreenSound, TableSound
<1> QED BY <1>1, Invariant, PTL

\* However many DetailUser screens one tap pushes, each on the stack shows its
\* metrics or waits for a read of its own.
THEOREM DetailsAreServed == Spec => []DetailsServed
<1>1. IInv => DetailsServed
  BY DEF IInv
<1> QED BY <1>1, Invariant, PTL

=============================================================================
