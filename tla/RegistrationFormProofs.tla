----------------------- MODULE RegistrationFormProofs -----------------------
(***************************************************************************)
(* Proofs about RegistrationForm, for any texts, addresses and passwords.  *)
(*                                                                         *)
(* That the fields agree with texts rests on which cell writes where, so   *)
(* the inductive invariant IInv says of the bindings that each cell on     *)
(* screen is bound to its own row, that no binding is ever lost, and that  *)
(* texts is empty between a switch and the layout that follows.            *)
(***************************************************************************)
EXTENDS RegistrationForm, SequenceTheorems, TLAPS

\* A new form binds each cell to one row, and bindings only accumulate.
BindingsInv ==
  /\ \A c \in Cells : c \in bound[c]
  /\ laidOut => /\ \A i \in DOMAIN cells : i \in bound[cells[i]]
                /\ \A i, j \in DOMAIN cells : cells[i] = cells[j] => i = j

SwitchInv == ~laidOut => texts = <<>>

\* No cell on screen is bound to the row of another.
Separate == \A i, j \in DOMAIN cells : i \in bound[cells[j]] => i = j

IInv ==
  /\ TypeOK /\ TextsMatchRows /\ BindingsInv /\ SwitchInv
  /\ FieldsAgree /\ SentIsValid /\ ConfirmedOnFirstForm /\ TrapsOnlyInSwitch

----------------------------------------------------------------------------
(* Operators *)

\* The rows of a form are the numbers up to two or three.
LEMMA RowsRange ==
  ASSUME NEW m
  PROVE  /\ m = "registration" => Rows(m) = 1 .. 3
         /\ m # "registration" => Rows(m) = 1 .. 2
BY DEF Rows

\* A function on the rows of a form is a sequence.
LEMMA RowsSeq ==
  ASSUME NEW S, NEW m, NEW f \in [Rows(m) -> S]
  PROVE  f \in Seq(S) /\ DOMAIN f = Rows(m)
<1>1. CASE m = "registration"
  BY <1>1, RowsRange, SeqDef
<1>2. CASE m # "registration"
  BY <1>2, RowsRange, SeqDef
<1> QED BY <1>1, <1>2

\* Writing a text at any rows changes no length and no other row.
LEMMA ReplaceAtSeq ==
  ASSUME NEW ts \in Seq(Texts), NEW text \in Texts, NEW rows
  PROVE  /\ ReplaceAt(ts, text, rows) \in Seq(Texts)
         /\ DOMAIN ReplaceAt(ts, text, rows) = DOMAIN ts
         /\ \A i \in DOMAIN ts :
              ReplaceAt(ts, text, rows)[i] = IF i \in rows THEN text ELSE ts[i]
<1> DEFINE new == [i \in DOMAIN ts |-> IF i \in rows THEN text ELSE ts[i]]
<1>1. PICK n \in Nat : ts \in [1 .. n -> Texts]
  BY SeqDef
<1>2. new \in [1 .. n -> Texts]
  BY <1>1
<1> QED BY <1>1, <1>2, SeqDef DEF ReplaceAt

\* A switch leaves no text, and the layout adds an empty one for each row.
LEMMA EmptyTexts ==
  ASSUME NEW m
  PROVE  << >> \o [i \in Rows(m) |-> Empty] = [i \in Rows(m) |-> Empty]
<1>1. [i \in Rows(m) |-> Empty] \in [Rows(m) -> Texts]
  BY TextsAssumption
<1>2. [i \in Rows(m) |-> Empty] \in Seq(Texts)
  BY <1>1, RowsSeq
<1> QED BY <1>2, ConcatEmptySeq

----------------------------------------------------------------------------
(* The initial states *)

\* A form that appears satisfies the invariant.
LEMMA InvInit == Init => IInv
<1> SUFFICES ASSUME Init PROVE IInv
  OBVIOUS
<1>1. Empty \in Texts
  BY TextsAssumption
<1>2. <<Empty, Empty, Empty>> \in Seq(Texts) /\ << >> \in Seq(Texts) /\ <<1, 2, 3>> \in Seq(Cells)
  BY <1>1 DEF Cells
<1>3. TypeOK
  BY <1>1, <1>2 DEF Init, TypeOK, Cells, Calls, NoCall, NoAccount
<1>4. TextsMatchRows
  BY RowsRange DEF Init, TextsMatchRows
<1>5. DOMAIN cells = 1 .. 3 /\ cells[1] = 1 /\ cells[2] = 2 /\ cells[3] = 3
  BY DEF Init
<1>6. \A i \in 1 .. 3 : i = 1 \/ i = 2 \/ i = 3
  OBVIOUS
<1>7. BindingsInv
  BY <1>5, <1>6 DEF Init, BindingsInv, Cells
<1>8. FieldsAgree
  <2>1. texts[1] = Empty /\ texts[2] = Empty /\ texts[3] = Empty
    BY DEF Init
  <2>2. \A i \in DOMAIN cells : texts[i] = Empty /\ cells[i] \in Cells
    BY <1>5, <1>6, <2>1 DEF Cells
  <2> QED BY <2>2 DEF Init, FieldsAgree
<1> QED
  BY <1>3, <1>4, <1>7, <1>8
  DEF Init, IInv, SwitchInv, SentIsValid, ConfirmedOnFirstForm, TrapsOnlyInSwitch, NoCall, NoAccount

----------------------------------------------------------------------------
(* The steps *)

\* A laid-out form has a text and a cell for each of its rows, which are two at
\* least.
LEMMA LaidOutRows ==
  ASSUME IInv, laidOut
  PROVE  /\ DOMAIN texts = Rows(mode) /\ DOMAIN cells = Rows(mode)
         /\ {1, 2} \subseteq DOMAIN texts
         /\ \A i \in DOMAIN cells : cells[i] \in Cells
         /\ \A i \in DOMAIN texts : texts[i] \in Texts
<1>1. DOMAIN texts = Rows(mode) /\ DOMAIN cells = Rows(mode)
  BY DEF IInv, TextsMatchRows
<1>2. {1, 2} \subseteq Rows(mode)
  BY RowsRange
<1>3. texts \in Seq(Texts) /\ cells \in Seq(Cells)
  BY DEF IInv, TypeOK
<1> QED BY <1>1, <1>2, <1>3

\* Typing in a field changes texts at the rows its cell is bound to, and on
\* screen these are its own row alone wherever the fields are to agree.
LEMMA EditInv ==
  ASSUME IInv, NEW row \in 1 .. 3, NEW text \in Texts, Edit(row, text)
  PROVE  IInv'
<1> DEFINE c == cells[row]
<1>1. /\ laidOut /\ row \in DOMAIN cells /\ c \in Cells
      /\ shown' = [shown EXCEPT ![c] = text] /\ texts' = ReplaceAt(texts, text, bound[c])
      /\ UNCHANGED <<mode, cells, bound, laidOut, call, account, screen>>
  BY LaidOutRows DEF Edit
<1>2. /\ texts' \in Seq(Texts) /\ DOMAIN texts' = DOMAIN texts
      /\ \A i \in DOMAIN texts : texts'[i] = IF i \in bound[c] THEN text ELSE texts[i]
  BY <1>1, ReplaceAtSeq DEF IInv, TypeOK
<1>3. shown' \in [Cells -> Texts]
  BY <1>1 DEF IInv, TypeOK
<1>4. TypeOK'
  BY <1>1, <1>2, <1>3 DEF IInv, TypeOK
<1>5. TextsMatchRows'
  BY <1>1, <1>2, LaidOutRows DEF TextsMatchRows
<1>6. FieldsAgree'
  <2> SUFFICES ASSUME Separate, NEW i \in DOMAIN cells
               PROVE  texts'[i] = shown'[cells[i]]
    BY <1>1 DEF FieldsAgree, Separate
  <2>1. texts[i] = shown[cells[i]] /\ i \in DOMAIN texts /\ cells[i] \in Cells
    BY <1>1, LaidOutRows DEF IInv, FieldsAgree, Separate
  <2>2. CASE i = row
    BY <1>1, <1>2, <2>1, <2>2 DEF IInv, TypeOK, BindingsInv
  <2>3. CASE i # row
    <3>1. i \notin bound[c]
      BY <1>1, <2>3 DEF Separate
    <3>2. cells[i] # c
      BY <1>1, <2>3 DEF IInv, BindingsInv
    <3> QED BY <1>1, <1>2, <2>1, <3>1, <3>2 DEF IInv, TypeOK
  <2> QED BY <2>2, <2>3
<1>7. BindingsInv' /\ SwitchInv'
  BY <1>1 DEF IInv, BindingsInv, SwitchInv
<1> QED
  BY <1>1, <1>4, <1>5, <1>6, <1>7
  DEF IInv, SentIsValid, ConfirmedOnFirstForm, TrapsOnlyInSwitch

\* A switch clears texts and leaves the cells to the next layout.
LEMMA SwitchStep == IInv /\ Switch => IInv'
<1> SUFFICES ASSUME IInv, Switch PROVE IInv'
  OBVIOUS
<1>1. << >> \in Seq(Texts)
  OBVIOUS
<1>2. TypeOK'
  BY <1>1 DEF IInv, TypeOK, Switch
<1> QED
  BY <1>2
  DEF IInv, Switch, TextsMatchRows, BindingsInv, SwitchInv, FieldsAgree, SentIsValid,
      ConfirmedOnFirstForm, TrapsOnlyInSwitch

\* A layout shows empty fields in different cells, each bound to its row.
LEMMA LayoutInv == IInv /\ Layout => IInv'
<1> SUFFICES ASSUME IInv, Layout PROVE IInv'
  OBVIOUS
<1>1. /\ cells' \in [Rows(mode) -> Cells]
      /\ \A i, j \in Rows(mode) : cells'[i] = cells'[j] => i = j
      /\ mode' = mode /\ screen = "form" /\ screen' = screen /\ laidOut' = TRUE
      /\ call' = call /\ account' = account
  BY DEF Layout
<1>2. cells' \in Seq(Cells) /\ DOMAIN cells' = Rows(mode)
  BY <1>1, RowsSeq
<1>3. texts' = [i \in Rows(mode) |-> Empty]
  BY EmptyTexts DEF IInv, SwitchInv, Layout
<1>4. texts' \in Seq(Texts) /\ DOMAIN texts' = Rows(mode)
  BY <1>3, RowsSeq, TextsAssumption
<1>5. shown' = [c \in Cells |-> Empty] /\ shown' \in [Cells -> Texts]
  BY TextsAssumption DEF Layout
<1>6. /\ bound' \in [Cells -> SUBSET (1 .. 3)]
      /\ \A c \in Cells : bound'[c] = bound[c] \cup {i \in Rows(mode) : cells'[i] = c}
  <2>1. Rows(mode) \subseteq 1 .. 3
    BY RowsRange
  <2> QED BY <2>1 DEF IInv, TypeOK, Layout
<1>7. TypeOK'
  BY <1>1, <1>2, <1>4, <1>5, <1>6 DEF IInv, TypeOK
<1>8. TextsMatchRows' /\ SwitchInv'
  BY <1>1, <1>2, <1>4 DEF TextsMatchRows, SwitchInv
<1>9. BindingsInv'
  <2>1. \A i \in DOMAIN cells' : i \in bound'[cells'[i]]
    BY <1>1, <1>2, <1>6
  <2> QED BY <1>1, <1>2, <1>6, <2>1 DEF IInv, BindingsInv
<1>10. FieldsAgree'
  BY <1>1, <1>2, <1>3, <1>5 DEF FieldsAgree
<1>11. ConfirmedOnFirstForm'
  <2> SUFFICES ASSUME call.mode = "registration", \A c \in Cells : bound'[c] = {c}
               PROVE  call.shown[2] = call.shown[3]
    BY <1>1 DEF ConfirmedOnFirstForm
  <2>1. \A c \in Cells : bound[c] = {c}
    BY <1>6 DEF IInv, BindingsInv
  <2> QED BY <2>1 DEF IInv, ConfirmedOnFirstForm
<1> QED
  BY <1>1, <1>7, <1>8, <1>9, <1>10, <1>11 DEF IInv, SentIsValid, TrapsOnlyInSwitch

\* The button is enabled for an address and a password only, as there are at
\* least two fields; on a form that was never switched the fields are texts.
LEMMA SubmitInv == IInv /\ Submit => IInv'
<1> SUFFICES ASSUME IInv, Submit PROVE IInv'
  OBVIOUS
<1>1. /\ laidOut /\ Enabled /\ screen = "form"
      /\ UNCHANGED <<mode, texts, cells, shown, bound, laidOut, account>>
  BY DEF Submit
<1>2. /\ DOMAIN texts = Rows(mode) /\ DOMAIN cells = Rows(mode)
      /\ {1, 2} \subseteq DOMAIN texts
      /\ \A i \in DOMAIN cells : cells[i] \in Cells
      /\ \A i \in DOMAIN texts : texts[i] \in Texts
  BY <1>1, LaidOutRows
<1>3. /\ call' = [mode |-> mode, email |-> texts[1], password |-> texts[2],
                  shown |-> [i \in DOMAIN cells |-> shown[cells[i]]]]
      /\ screen' = screen
  BY <1>2 DEF Submit
<1>4. texts[1] \in Emails /\ texts[2] \in Passwords
  BY <1>1, <1>2 DEF Enabled
<1>5. [i \in Rows(mode) |-> shown[cells[i]]] \in Seq(Texts)
  <2>1. [i \in Rows(mode) |-> shown[cells[i]]] \in [Rows(mode) -> Texts]
    BY <1>2 DEF IInv, TypeOK
  <2> QED BY <2>1, RowsSeq
<1>6. call' \in Calls
  BY <1>2, <1>3, <1>5 DEF IInv, TypeOK, Calls
<1>7. TypeOK'
  BY <1>1, <1>3, <1>6 DEF IInv, TypeOK
<1>8. SentIsValid'
  BY <1>1, <1>3, <1>4 DEF IInv, SentIsValid
<1>9. ConfirmedOnFirstForm'
  <2> SUFFICES ASSUME mode = "registration", \A c \in Cells : bound[c] = {c}
               PROVE  call'.shown[2] = call'.shown[3]
    BY <1>1, <1>3 DEF ConfirmedOnFirstForm
  <2>1. Rows(mode) = 1 .. 3
    BY RowsRange
  <2>2. \A i \in 1 .. 3 : cells[i] = i
    BY <1>1, <1>2, <2>1 DEF IInv, BindingsInv
  <2>3. Separate
    BY <1>2, <2>1, <2>2 DEF Separate, Cells
  <2>4. texts[2] = shown[cells[2]] /\ texts[3] = shown[cells[3]]
    BY <1>1, <1>2, <2>1, <2>3 DEF IInv, FieldsAgree, Separate
  <2>5. texts[2] = texts[3]
    BY <1>1, <1>2, <2>1 DEF Enabled
  <2>6. call'.shown = [i \in 1 .. 3 |-> shown[cells[i]]]
    BY <1>2, <1>3, <2>1
  <2>7. call'.shown[2] = shown[cells[2]] /\ call'.shown[3] = shown[cells[3]]
    BY <2>6
  <2> QED BY <2>4, <2>5, <2>7
<1> QED
  BY <1>1, <1>3, <1>7, <1>8, <1>9
  DEF IInv, TextsMatchRows, BindingsInv, SwitchInv, FieldsAgree, TrapsOnlyInSwitch

\* The call is answered: only the completion of createUser writes an account,
\* and only one that runs before the layout can miss its text.
LEMMA AnswerInv == IInv /\ (Refused \/ SignedUp \/ SignedIn) => IInv'
<1> SUFFICES ASSUME IInv, Refused \/ SignedUp \/ SignedIn PROVE IInv'
  OBVIOUS
<1>1. /\ UNCHANGED <<mode, texts, cells, shown, bound, laidOut>>
      /\ call' = NoCall /\ screen = "form"
  BY DEF Refused, SignedUp, SignedIn
<1>2. /\ NoCall \in Calls /\ NoCall.mode = "none"
  <2>1. Empty \in Texts /\ << >> \in Seq(Texts)
    BY TextsAssumption
  <2> QED BY <2>1 DEF NoCall, Calls
<1>3. /\ account' \in [password : Texts, onFile : Texts]
      /\ account'.password # Empty => account'.password \in Passwords
  <2>1. CASE account' = account
    BY <2>1 DEF IInv, TypeOK, SentIsValid
  <2>2. CASE account' # account
    <3>1. /\ call.mode = "registration" /\ 2 \in DOMAIN texts
          /\ account' = [password |-> call.password, onFile |-> texts[2]]
      BY <2>2 DEF Refused, SignedUp, SignedIn
    <3>2. call.password \in Texts /\ texts[2] \in Texts
      <4>1. call.password \in Texts
        BY DEF IInv, TypeOK, Calls
      <4>2. texts[2] \in Texts
        BY <3>1 DEF IInv, TypeOK
      <4> QED BY <4>1, <4>2
    <3>3. call # NoCall
      BY <3>1, <1>2
    <3> QED BY <3>1, <3>2, <3>3 DEF IInv, SentIsValid
  <2> QED BY <2>1, <2>2
<1>4. screen' \in {"form", "left", "trapped"} /\ (screen' = "trapped" => ~laidOut)
  BY <1>1, LaidOutRows DEF Refused, SignedUp, SignedIn
<1>5. TypeOK'
  BY <1>1, <1>2, <1>3, <1>4 DEF IInv, TypeOK
<1> QED
  BY <1>1, <1>2, <1>3, <1>4, <1>5
  DEF IInv, TextsMatchRows, BindingsInv, SwitchInv, FieldsAgree, SentIsValid,
      ConfirmedOnFirstForm, TrapsOnlyInSwitch

\* A new launch shows the form the program starts with.
LEMMA ReopenInv == Reopen => IInv'
<1>1. Reopen => Init'
  BY DEF Reopen, Init
<1>2. Init' => IInv'
  BY InvInit, PTL
<1> QED BY <1>1, <1>2

\* Every step keeps the invariant.
LEMMA InvStep == IInv /\ [Next]_vars => IInv'
<1> SUFFICES ASSUME IInv, [Next]_vars PROVE IInv'
  OBVIOUS
<1>1. CASE UNCHANGED vars
  BY <1>1
  DEF vars, IInv, TypeOK, TextsMatchRows, BindingsInv, SwitchInv, FieldsAgree,
      SentIsValid, ConfirmedOnFirstForm, TrapsOnlyInSwitch
<1>2. CASE Next
  BY <1>2, EditInv, SwitchStep, LayoutInv, SubmitInv, AnswerInv, ReopenInv DEF Next
<1> QED BY <1>1, <1>2

----------------------------------------------------------------------------
(* Theorems *)

\* In every reachable state of the form, for any texts, the invariant holds.
THEOREM FormInvariant == Spec => []IInv
BY InvInit, InvStep, PTL DEF Spec

\* Every variable of the form keeps its type.
THEOREM FormTypeCorrect == Spec => []TypeOK
<1>1. IInv => TypeOK
  BY DEF IInv
<1> QED BY <1>1, FormInvariant, PTL

\* texts has one entry for each field of a laid-out form (append, 45).
THEOREM TextsMatch == Spec => []TextsMatchRows
<1>1. IInv => TextsMatchRows
  BY DEF IInv
<1> QED BY <1>1, FormInvariant, PTL

\* The fields agree with texts while no cell on screen is bound to the row of
\* another (the bindings of line 56).
THEOREM FieldsAgreeAlways == Spec => []FieldsAgree
<1>1. IInv => FieldsAgree
  BY DEF IInv
<1> QED BY <1>1, FormInvariant, PTL

\* Only an address and a password are sent (bindTexts, 113-121).
THEOREM OnlyValidSent == Spec => []SentIsValid
<1>1. IInv => SentIsValid
  BY DEF IInv
<1> QED BY <1>1, FormInvariant, PTL

\* A form never switched sends the password typed twice.
THEOREM Confirmed == Spec => []ConfirmedOnFirstForm
<1>1. IInv => ConfirmedOnFirstForm
  BY DEF IInv
<1> QED BY <1>1, FormInvariant, PTL

\* Nothing but a completion between a switch and its layout traps (132).
THEOREM TrapsInSwitch == Spec => []TrapsOnlyInSwitch
<1>1. IInv => TrapsOnlyInSwitch
  BY DEF IInv
<1> QED BY <1>1, FormInvariant, PTL
=============================================================================
