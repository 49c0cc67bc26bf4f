------------------------------- MODULE Board -------------------------------
(***************************************************************************)
(* What a recruiter sees once signed in: Home lists the vacancies of the   *)
(* account's Firestore document, a tap on "Поиск" pushes Results, a tap on *)
(* one of its rows pushes DetailUser.                                      *)
(*                                                                         *)
(* DatabaseManager copies each snapshot of the document into the static    *)
(* user and calls every subscriber; nothing ever unsubscribes.  A Results  *)
(* screen reads its two scores once, when its view is loaded, and both     *)
(* résumés again each time it is notified; Firestore answers the reads in  *)
(* any order.  A table shows what it read at its last layout.              *)
(***************************************************************************)
EXTENDS Integers, Sequences, FiniteSets

CONSTANTS Documents,    \* the contents the account's document can have
          NoDocument,   \* the document does not exist
          MaxHomes,     \* bound: Home screens made in one life of the process
          MaxResults,   \* bound: Results screens made in one life of the process
          MaxAsked,     \* bound: notifications one Results screen gets
          MaxBinds,     \* bound: Rx subscriptions of one button or table
          MaxDetails    \* bound: DetailUser reads one Results screen waits for

Contents == [hr : BOOLEAN, vacancies : Nat, matched : BOOLEAN]
ASSUME DocumentsAssumption == Documents \subseteq Contents /\ NoDocument \notin Documents
ASSUME BoundsAssumption ==
  /\ MaxHomes \in Nat /\ MaxResults \in Nat /\ MaxAsked \in Nat /\ MaxBinds \in Nat
  /\ MaxDetails \in Nat

VARIABLES
  stored,    \* the document users/<uid> on the server
  fresh,     \* the snapshot listener has not delivered it yet
  user,      \* DatabaseManager.user: decoded once, type HR, length of hrcvs
  homes,     \* the Home screens, oldest first; the last one is the root
  results,   \* the Results screens, oldest first
  stack,     \* the screens pushed above the root
  trap       \* why the process trapped, or "none"

vars == <<stored, fresh, user, homes, results, stack, trap>>

----------------------------------------------------------------------------
(* State *)

Kinds == {"own", "pair", "user1", "user2", "metrics"}

Unknown == [known |-> FALSE, hr |-> FALSE, vacancies |-> 0]

\* rows: the cells laid out; binds: subscriptions of a cell's search button.
NewHome == [rows |-> 0, dirty |-> TRUE, binds |-> 0]

\* A Results screen whose view has just been loaded and has appeared.  taps:
\* subscriptions of its table; asked: reads it waits for.
NewResults ==
  [users |-> <<>>, ranks |-> <<>>, uid |-> FALSE, rows |-> <<>>, dirty |-> TRUE,
   taps |-> 1, asked |-> [k \in Kinds |-> IF k = "own" THEN 1 ELSE 0]]

ResultsScreen(i) == [kind |-> "results", of |-> i, filled |-> TRUE]
DetailScreen(i)  == [kind |-> "detail", of |-> i, filled |-> FALSE]

AtHome == stack = <<>>
Top    == stack[Len(stack)]
Root   == homes[Len(homes)]
Running == trap = "none"

More(n) == IF n < MaxBinds THEN n + 1 ELSE n

Init ==
  /\ stored \in Documents \cup {NoDocument}
  /\ fresh = TRUE /\ user = Unknown
  /\ homes = <<NewHome>> /\ results = <<>> /\ stack = <<>>
  /\ trap = "none"

\* The memory of the process is gone; the next one starts with Home.
EndProcess(why) ==
  /\ trap' = why
  /\ fresh' = TRUE /\ user' = Unknown
  /\ homes' = <<NewHome>> /\ results' = <<>> /\ stack' = <<>>
  /\ UNCHANGED stored

----------------------------------------------------------------------------
(* DatabaseManager *)

\* Mutant: the vacancies are forgotten when the type is not HR.
DecodeReset(d) == [known |-> TRUE, hr |-> d.hr, vacancies |-> IF d.hr THEN d.vacancies ELSE 0]

\* startListen copies the fields; hrcvs keeps its value unless the type is HR.
Decode(d) ==
  [known |-> TRUE, hr |-> d.hr, vacancies |-> IF d.hr THEN d.vacancies ELSE user.vacancies]

\* Mutant: a covered Home is not reloaded.
NotifyHomesShown(u) ==
  homes' = [i \in DOMAIN homes |->
              IF u.hr /\ AtHome THEN [homes[i] EXCEPT !.dirty = TRUE] ELSE homes[i]]

\* HomeViewController.notified unwraps the names and shows the first vacancy.
Unreadable(u) ==
  IF ~u.known THEN "unnamed" ELSE IF u.hr /\ u.vacancies = 0 THEN "noVacancy" ELSE "none"

NotifyHomes(u) ==
  homes' = [i \in DOMAIN homes |->
              IF u.hr THEN [homes[i] EXCEPT !.dirty = TRUE] ELSE homes[i]]

\* Mutant: the scores are read again with the résumés.
AskScores(r, n) ==
  [r EXCEPT !.asked["own"] = @ + n, !.asked["user1"] = @ + n, !.asked["user2"] = @ + n]

\* ResultsViewController.notified, n times: both résumés are read again.
Ask(r, n) == [r EXCEPT !.asked["user1"] = @ + n, !.asked["user2"] = @ + n]

Count(r, resume) == Cardinality({k \in DOMAIN r.users : r.users[k] = resume})
Notices(r) == Count(r, "user1") + r.asked["user1"]
HasRoomFor(n) == \A i \in DOMAIN results : Notices(results[i]) + n <= MaxAsked

\* Mutant: the subscribers are notified of a document that does not exist.
SnapshotAlways ==
  /\ Running /\ fresh /\ HasRoomFor(1)
  /\ LET u == IF stored = NoDocument THEN user ELSE Decode(stored) IN
     IF Unreadable(u) # "none" THEN EndProcess(Unreadable(u))
     ELSE /\ fresh' = FALSE /\ user' = u
          /\ NotifyHomes(u)
          /\ results' = [i \in DOMAIN results |-> Ask(results[i], 1)]
          /\ UNCHANGED <<stored, stack, trap>>

Snapshot ==
  /\ Running /\ fresh /\ HasRoomFor(1)
  /\ IF stored = NoDocument
     THEN fresh' = FALSE /\ UNCHANGED <<stored, user, homes, results, stack, trap>>
     ELSE LET u == Decode(stored) IN
          IF Unreadable(u) # "none" THEN EndProcess(Unreadable(u))
          ELSE /\ fresh' = FALSE /\ user' = u
               /\ NotifyHomes(u)
               /\ results' = [i \in DOMAIN results |-> Ask(results[i], 1)]
               /\ UNCHANGED <<stored, stack, trap>>

\* The document is rewritten: by the app, the notebook, or the console.
Change(d) ==
  /\ stored' = d /\ fresh' = TRUE
  /\ UNCHANGED <<user, homes, results, stack, trap>>

----------------------------------------------------------------------------
(* Home *)

\* Another sign-in completes: a new Home becomes the root, the screens above
\* the old root are gone, their subscriptions are not.
ShowHome ==
  /\ Running /\ Len(homes) < MaxHomes
  /\ homes' = Append(homes, NewHome) /\ stack' = <<>>
  /\ UNCHANGED <<stored, fresh, user, results, trap>>

\* The table counts its sections, and binds each cell it dequeues.
LayoutHome ==
  /\ Running /\ AtHome /\ Root.dirty
  /\ LET rows == IF user.hr THEN user.vacancies ELSE 0 IN
     homes' = [homes EXCEPT ![Len(homes)] =
                 [rows |-> rows, dirty |-> FALSE,
                  binds |-> IF rows > 0 THEN More(@.binds) ELSE @.binds]]
  /\ UNCHANGED <<stored, fresh, user, results, stack, trap>>

\* A tap on "Поиск" runs every subscription of the cell: each pushes a Results
\* screen, whose viewDidLoad notifies all the subscribers there are by then.
TapSearch(n) ==
  /\ Running /\ AtHome /\ Root.rows > 0 /\ n <= Root.binds
  /\ Len(results) + n <= MaxResults /\ n <= MaxAsked /\ HasRoomFor(n)
  /\ IF Unreadable(user) # "none" THEN EndProcess(Unreadable(user))
     ELSE LET old == Len(results) IN
          /\ results' = [i \in 1 .. old + n |->
                           IF i <= old THEN Ask(results[i], n)
                           ELSE Ask(NewResults, old + n + 1 - i)]
          /\ stack' = [i \in 1 .. n |-> ResultsScreen(old + i)]
          /\ NotifyHomes(user)
          /\ UNCHANGED <<stored, fresh, user, trap>>

----------------------------------------------------------------------------
(* Results *)

Update(i, r) == results' = [results EXCEPT ![i] = r]
Got(r, kind) == [r EXCEPT !.asked[kind] = @ - 1]

\* The own document names the pair, whose score is read next; the field is
\* unwrapped by force.
AnswerOwn(i) ==
  /\ results[i].asked["own"] > 0
  /\ IF stored = NoDocument \/ ~stored.matched THEN EndProcess("unmatched")
     ELSE /\ LET r == Got(results[i], "own") IN
             Update(i, [r EXCEPT !.uid = TRUE, !.ranks = Append(@, "own"),
                                 !.asked["pair"] = @ + 1])
          /\ UNCHANGED <<stored, fresh, user, homes, stack, trap>>

\* Mutant: the score of the pair arrives, the table is not reloaded.
AnswerPairSilently(i) ==
  /\ results[i].asked["pair"] > 0
  /\ Update(i, [Got(results[i], "pair") EXCEPT !.ranks = Append(@, "pair")])
  /\ UNCHANGED <<stored, fresh, user, homes, stack, trap>>

AnswerPair(i) ==
  /\ results[i].asked["pair"] > 0
  /\ Update(i, [Got(results[i], "pair") EXCEPT !.ranks = Append(@, "pair"), !.dirty = TRUE])
  /\ UNCHANGED <<stored, fresh, user, homes, stack, trap>>

\* Mutant: the second résumé replaces the list.
AnswerResumeReplaces(i, resume) ==
  /\ results[i].asked[resume] > 0
  /\ Update(i, [Got(results[i], resume) EXCEPT
                  !.users = IF resume = "user2" THEN <<resume>> ELSE Append(@, resume),
                  !.dirty = @ \/ resume = "user1"])
  /\ UNCHANGED <<stored, fresh, user, homes, stack, trap>>

\* Only the answer for the first résumé reloads the table.
AnswerResume(i, resume) ==
  /\ results[i].asked[resume] > 0
  /\ Update(i, [Got(results[i], resume) EXCEPT
                  !.users = Append(@, resume), !.dirty = @ \/ resume = "user1"])
  /\ UNCHANGED <<stored, fresh, user, homes, stack, trap>>

\* Mutant: one failed read is reported more than once.
FailAgain(i, kind) ==
  /\ Running
  /\ IF kind = "own"
     THEN Update(i, Got(results[i], "own")) /\ UNCHANGED <<stored, fresh, user, homes, stack, trap>>
     ELSE EndProcess("readFailed")

\* The read of the own document reports its error; the other completions
\* unwrap the snapshot by force.
Fail(i, kind) ==
  /\ Running /\ results[i].asked[kind] > 0
  /\ IF kind = "own"
     THEN Update(i, Got(results[i], "own")) /\ UNCHANGED <<stored, fresh, user, homes, stack, trap>>
     ELSE EndProcess("readFailed")

\* Mutant: the scores are taken in the order they arrive in.
RankForwards(ranks, row) == IF row <= Len(ranks) THEN ranks[row] ELSE "none"

\* usersTotalRank.reversed()[safe: row] ?? -1
Rank(ranks, row) == IF row <= Len(ranks) THEN ranks[Len(ranks) + 1 - row] ELSE "none"

LayoutResults ==
  /\ Running /\ ~AtHome /\ Top.kind = "results" /\ results[Top.of].dirty
  /\ LET r == results[Top.of] IN
     Update(Top.of,
            [r EXCEPT !.dirty = FALSE,
                      !.rows = [k \in 1 .. Len(r.users) |->
                                  [user |-> r.users[k], rank |-> Rank(r.ranks, k)]]])
  /\ UNCHANGED <<stored, fresh, user, homes, stack, trap>>

\* Mutant: the screens pushed together share one read.
TapRowReadsOnce ==
  /\ Running /\ ~AtHome /\ Top.kind = "results" /\ results[Top.of].rows # <<>>
  /\ LET i == Top.of  r == results[i] IN
     IF ~r.uid THEN EndProcess("emptyPath")
     ELSE /\ stack' = stack \o [k \in 1 .. r.taps |-> DetailScreen(i)]
          /\ Update(i, [r EXCEPT !.asked["metrics"] = @ + 1])
          /\ r.asked["metrics"] < MaxDetails
          /\ UNCHANGED <<stored, fresh, user, homes, trap>>

\* A tap on any row runs every subscription of the table: each pushes a
\* DetailUser for the uid of the pair.  An empty uid is not a document path.
TapRow ==
  /\ Running /\ ~AtHome /\ Top.kind = "results" /\ results[Top.of].rows # <<>>
  /\ LET i == Top.of  r == results[i] IN
     IF ~r.uid THEN EndProcess("emptyPath")
     ELSE /\ stack' = stack \o [k \in 1 .. r.taps |-> DetailScreen(i)]
          /\ Update(i, [r EXCEPT !.asked["metrics"] = @ + r.taps])
          /\ r.asked["metrics"] + r.taps <= MaxDetails
          /\ UNCHANGED <<stored, fresh, user, homes, trap>>

----------------------------------------------------------------------------
(* DetailUser *)

Waiting(i) == {j \in DOMAIN stack : stack[j] = DetailScreen(i)}

\* The presenter holds its screen weakly: the answer for one that was popped
\* changes nothing.
AnswerMetrics(i) ==
  /\ results[i].asked["metrics"] > 0
  /\ \/ \E j \in Waiting(i) : stack' = [stack EXCEPT ![j].filled = TRUE]
     \/ results[i].asked["metrics"] > Cardinality(Waiting(i)) /\ UNCHANGED stack
  /\ Update(i, Got(results[i], "metrics"))
  /\ UNCHANGED <<stored, fresh, user, homes, trap>>

----------------------------------------------------------------------------
(* The user *)

\* The screen under the top one appears: Results binds its table once more.
Back ==
  /\ Running /\ ~AtHome
  /\ stack' = SubSeq(stack, 1, Len(stack) - 1)
  /\ IF stack' # <<>> /\ stack'[Len(stack')].kind = "results"
     THEN LET i == stack'[Len(stack')].of IN
          Update(i, [results[i] EXCEPT !.taps = More(@)])
     ELSE UNCHANGED results
  /\ UNCHANGED <<stored, fresh, user, homes, trap>>

\* The app is killed, or has trapped, and is launched again.
Relaunch == EndProcess("none")

----------------------------------------------------------------------------
(* The specification *)

AnswerRead(i, kind) ==
  /\ Running
  /\ CASE kind = "own" -> AnswerOwn(i)
       [] kind = "pair" -> AnswerPair(i)
       [] kind = "metrics" -> AnswerMetrics(i)
       [] OTHER -> AnswerResume(i, kind)

Firestore ==
  \/ Snapshot \/ \E d \in Documents : Change(d)
  \/ \E i \in DOMAIN results, kind \in Kinds : AnswerRead(i, kind) \/ Fail(i, kind)

Next ==
  \/ Firestore
  \/ ShowHome \/ LayoutHome \/ LayoutResults
  \/ \E n \in 1 .. MaxBinds : TapSearch(n)
  \/ TapRow \/ Back \/ Relaunch

Spec == Init /\ [][Next]_vars

\* Tables are laid out, and every read ends in an answer or an error.
Fairness ==
  /\ WF_vars(LayoutResults)
  /\ \A i \in 1 .. MaxResults, kind \in Kinds :
       WF_vars(i \in DOMAIN results /\ (AnswerRead(i, kind) \/ Fail(i, kind)))

FairSpec == Spec /\ Fairness

----------------------------------------------------------------------------
(* Properties *)

Rows == [user : {"user1", "user2"}, rank : {"own", "pair", "none"}]
ResultsScreens ==
  [users : Seq({"user1", "user2"}), ranks : Seq({"own", "pair"}), uid : BOOLEAN,
   rows : Seq(Rows), dirty : BOOLEAN, taps : Nat, asked : [Kinds -> Nat]]

\* Every variable keeps its type.
TypeOK ==
  /\ stored \in Documents \cup {NoDocument} /\ fresh \in BOOLEAN
  /\ user \in [known : BOOLEAN, hr : BOOLEAN, vacancies : Nat]
  /\ homes \in Seq([rows : Nat, dirty : BOOLEAN, binds : Nat]) /\ homes # <<>>
  /\ results \in Seq(ResultsScreens)
  /\ stack \in Seq([kind : {"results", "detail"}, of : Nat, filled : BOOLEAN])
  /\ \A j \in DOMAIN stack : stack[j].of \in DOMAIN results
  /\ trap \in {"none", "unnamed", "noVacancy", "unmatched", "readFailed", "emptyPath"}

\* A table never asks for a vacancy or a résumé that is not there, although
\* hrcvs and users change while it is covered (HomeViewController.swift 66,
\* ResultsViewController.swift 97): a table laid out has no more rows than
\* the array it indexes, until the next layout.
TablesInBounds ==
  /\ \A i \in DOMAIN homes : ~homes[i].dirty => homes[i].rows <= user.vacancies
  /\ \A i \in DOMAIN results : Len(results[i].rows) <= Len(results[i].users)

\* Whichever screen was on top when a snapshot came, and whichever Home was
\* replaced since, a Home that needs no layout lists the vacancies of user.
HomeShowsVacancies ==
  Running /\ user.hr => \A i \in DOMAIN homes : ~homes[i].dirty => homes[i].rows = user.vacancies

\* HomeViewController.notified (74) unwraps names that only a snapshot sets:
\* nobody notifies a Home before the first one, not even the Results screens.
NotifiedAfterSnapshot == trap # "unnamed"

\* A Results screen reads its own score once, and then the pair's once, however
\* often it is notified: the two never mix, and none is read for nothing.
ScoresReadOnce ==
  \A i \in DOMAIN results :
    LET r == results[i] IN
    /\ r.ranks \in {<<>>, <<"own">>, <<"own", "pair">>}
    /\ r.uid <=> r.ranks # <<>>
    /\ r.asked["own"] + Len(r.ranks) + r.asked["pair"] <= 2
    /\ r.uid => r.asked["own"] = 0 /\ Len(r.ranks) + r.asked["pair"] = 2

\* No answer is dropped: both résumés have been asked for, and received or
\* awaited, equally often; an older screen has asked more often than a newer.
EveryNoticeServed ==
  /\ \A i \in DOMAIN results :
       Notices(results[i]) = Count(results[i], "user2") + results[i].asked["user2"]
  /\ \A i, j \in DOMAIN results : i < j => Notices(results[i]) > Notices(results[j])

\* Whatever order the reads are answered in, the table settles on the pair's
\* score in its first row and the own score in its second.
MatchSettles ==
  \A i \in DOMAIN results :
    LET r == results[i] IN
    (Len(r.ranks) = 2 /\ ~r.dirty /\ r.rows # <<>>) =>
      /\ r.rows[1].rank = "pair"
      /\ Len(r.rows) > 1 => r.rows[2].rank = "own"

\* A DetailUser screen on the stack shows its metrics or waits for them.
DetailsServed ==
  \A i \in DOMAIN results : Cardinality(Waiting(i)) <= results[i].asked["metrics"]

\* DetailUser reads the document of a uid that has arrived: Firestore asserts
\* an even number of path segments (document_reference.cc 63).
DetailHasPath == trap # "emptyPath"

\* A Results screen that has received the own document and stays on top shows
\* the pair's score sooner or later, unless a read traps the process.
MatchIsShown ==
  \A i \in 1 .. MaxResults :
    (~AtHome /\ Top = ResultsScreen(i) /\ i \in DOMAIN results /\ results[i].uid)
      ~> (~Running \/ AtHome \/ Top # ResultsScreen(i)
          \/ (results[i].rows # <<>> /\ results[i].rows[1].rank = "pair"))
=============================================================================
