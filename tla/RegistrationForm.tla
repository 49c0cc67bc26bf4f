-------------------------- MODULE RegistrationForm --------------------------
(***************************************************************************)
(* The form of the Registration screen: three text fields to sign up, two  *)
(* to sign in, and the relay texts the buttons read instead of the fields. *)
(*                                                                         *)
(* The fields are cells of a table.  A switch between the two forms clears *)
(* texts and reloads the table; at the next layout the old cells come back *)
(* for any row.  A cell's text is bound to texts[row] each time the cell   *)
(* is configured, and the binding is disposed only with the whole form: a  *)
(* reused cell goes on writing at the rows it was once used for.           *)
(***************************************************************************)
EXTENDS Integers, Sequences, FiniteSets

CONSTANTS Texts,       \* what a field can hold
          Empty,       \* the empty text
          Emails,      \* texts for which isEmail holds
          Passwords    \* texts for which isPassword holds

\* Six characters make a password, and the shortest address has six.
ASSUME TextsAssumption ==
  /\ Empty \in Texts \ Passwords
  /\ Emails \subseteq Passwords /\ Passwords \subseteq Texts

VARIABLES
  mode,      \* title: "registration" or "authorization"
  texts,     \* the relay
  cells,     \* the cell that shows each row
  shown,     \* the text in each cell
  bound,     \* the rows each cell's text is bound to
  laidOut,   \* the table has been laid out since its last reload
  call,      \* the request in flight, with the texts the fields showed
  account,   \* the password of the account signed up, and the one on file
  screen     \* "form", "left" or "trapped"

vars == <<mode, texts, cells, shown, bound, laidOut, call, account, screen>>

----------------------------------------------------------------------------
(* State *)

Cells == 1 .. 3
Rows(m) == 1 .. IF m = "registration" THEN 3 ELSE 2

NoCall    == [mode |-> "none", email |-> Empty, password |-> Empty, shown |-> <<>>]
NoAccount == [password |-> Empty, onFile |-> Empty]

\* The form appears: three new cells, each bound to its own row.
Init ==
  /\ mode = "registration" /\ texts = <<Empty, Empty, Empty>>
  /\ cells = <<1, 2, 3>>
  /\ shown = [c \in Cells |-> Empty]
  /\ bound = [c \in Cells |-> {c}]
  /\ laidOut = TRUE /\ call = NoCall /\ account = NoAccount
  /\ screen = "form"

----------------------------------------------------------------------------
(* Fields *)

\* Mutant: the text is inserted, and the old one stays.
InsertAt(ts, text, rows) ==
  LET i == CHOOSE j \in rows : TRUE IN
  IF i \in DOMAIN ts THEN SubSeq(ts, 1, i - 1) \o <<text>> \o SubSeq(ts, i, Len(ts)) ELSE ts

\* Mutant: the row under the field is written.
ReplaceBelow(ts, text, rows) == [i \in DOMAIN ts |-> IF i - 1 \in rows THEN text ELSE ts[i]]

\* replace(_:at:) for each row the cell is bound to, where there is one.
ReplaceAt(ts, text, rows) == [i \in DOMAIN ts |-> IF i \in rows THEN text ELSE ts[i]]

\* The user edits a field; every editing event emits its text.
Edit(row, text) ==
  /\ screen = "form" /\ laidOut /\ row \in DOMAIN cells
  /\ LET c == cells[row] IN
     /\ shown' = [shown EXCEPT ![c] = text]
     /\ texts' = ReplaceAt(texts, text, bound[c])
  /\ UNCHANGED <<mode, cells, bound, laidOut, call, account, screen>>

\* A tap on the lower button switches the form.
Switch ==
  /\ screen = "form" /\ laidOut
  /\ mode' = IF mode = "registration" THEN "authorization" ELSE "registration"
  /\ texts' = <<>>
  /\ laidOut' = FALSE
  /\ UNCHANGED <<cells, shown, bound, call, account, screen>>

\* Mutant: a cell is bound to the row below its own.
LayoutBindsNext ==
  /\ screen = "form" /\ ~laidOut
  /\ cells' \in {f \in [Rows(mode) -> Cells] : \A i, j \in Rows(mode) : f[i] = f[j] => i = j}
  /\ shown' = [c \in Cells |-> Empty]
  /\ bound' = [c \in Cells |-> bound[c] \cup {i + 1 : i \in {k \in Rows(mode) : cells'[k] = c}}]
  /\ texts' = texts \o [i \in Rows(mode) |-> Empty]
  /\ laidOut' = TRUE
  /\ UNCHANGED <<mode, call, account, screen>>

\* Mutant: texts is not extended for the rows.
LayoutKeepsTexts ==
  /\ screen = "form" /\ ~laidOut
  /\ cells' \in {f \in [Rows(mode) -> Cells] : \A i, j \in Rows(mode) : f[i] = f[j] => i = j}
  /\ shown' = [c \in Cells |-> Empty]
  /\ bound' = [c \in Cells |-> bound[c] \cup {i \in Rows(mode) : cells'[i] = c}]
  /\ laidOut' = TRUE
  /\ UNCHANGED <<mode, texts, call, account, screen>>

\* The table takes any cells from the reuse queue; prepareForReuse empties
\* their fields.  Each row appends an empty text, then binds its cell, which
\* emits at once.
Layout ==
  /\ screen = "form" /\ ~laidOut
  /\ cells' \in {f \in [Rows(mode) -> Cells] : \A i, j \in Rows(mode) : f[i] = f[j] => i = j}
  /\ shown' = [c \in Cells |-> Empty]
  /\ bound' = [c \in Cells |-> bound[c] \cup {i \in Rows(mode) : cells'[i] = c}]
  /\ texts' = texts \o [i \in Rows(mode) |-> Empty]
  /\ laidOut' = TRUE
  /\ UNCHANGED <<mode, call, account, screen>>

----------------------------------------------------------------------------
(* Buttons *)

\* Mutant: the second password is not compared.
EnabledUnconfirmed ==
  /\ 1 \in DOMAIN texts => texts[1] \in Emails
  /\ 2 \in DOMAIN texts => texts[2] \in Passwords
  /\ 3 \in DOMAIN texts => texts[3] \in Passwords

\* Mutant: only the repeated password is checked for its length.
EnabledShort ==
  /\ 1 \in DOMAIN texts => texts[1] \in Emails
  /\ 3 \in DOMAIN texts => texts[3] \in Passwords /\ texts[2] = texts[3]

\* signUpButton.isEnabled, recomputed whenever texts changes.
Enabled ==
  /\ 1 \in DOMAIN texts => texts[1] \in Emails
  /\ 2 \in DOMAIN texts => texts[2] \in Passwords
  /\ 3 \in DOMAIN texts => texts[3] \in Passwords /\ texts[2] = texts[3]

\* A tap on the upper button, which indexes texts by force: the table has been
\* laid out before the event.  One request is in flight at a time, a bound.
Submit ==
  /\ screen = "form" /\ laidOut /\ Enabled /\ call = NoCall
  /\ IF {1, 2} \subseteq DOMAIN texts
     THEN /\ call' = [mode |-> mode, email |-> texts[1], password |-> texts[2],
                      shown |-> [i \in DOMAIN cells |-> shown[cells[i]]]]
          /\ UNCHANGED screen
     ELSE screen' = "trapped" /\ UNCHANGED call
  /\ UNCHANGED <<mode, texts, cells, shown, bound, laidOut, account>>

\* The call failed: an alert.
Refused ==
  /\ screen = "form" /\ call # NoCall
  /\ call' = NoCall
  /\ UNCHANGED <<mode, texts, cells, shown, bound, laidOut, account, screen>>

\* The account exists: texts is read once more, for the document.  The main
\* queue may run this before the layout of a form just switched.
SignedUp ==
  /\ screen = "form" /\ call.mode = "registration"
  /\ call' = NoCall
  /\ IF 2 \in DOMAIN texts
     THEN /\ account' = [password |-> call.password, onFile |-> texts[2]]
          /\ screen' = "left"
     ELSE screen' = "trapped" /\ UNCHANGED account
  /\ UNCHANGED <<mode, texts, cells, shown, bound, laidOut>>

\* The account is signed in: Home is shown.
SignedIn ==
  /\ screen = "form" /\ call.mode = "authorization"
  /\ call' = NoCall /\ screen' = "left"
  /\ UNCHANGED <<mode, texts, cells, shown, bound, laidOut, account>>

\* Another launch shows a new form.
Reopen ==
  /\ screen # "form"
  /\ mode' = "registration" /\ texts' = <<Empty, Empty, Empty>>
  /\ cells' = <<1, 2, 3>>
  /\ shown' = [c \in Cells |-> Empty]
  /\ bound' = [c \in Cells |-> {c}]
  /\ laidOut' = TRUE /\ call' = NoCall /\ account' = NoAccount
  /\ screen' = "form"

Next ==
  \/ \E row \in 1 .. 3, text \in Texts : Edit(row, text)
  \/ Switch \/ Layout
  \/ Submit \/ Refused \/ SignedUp \/ SignedIn
  \/ Reopen

Spec == Init /\ [][Next]_vars

----------------------------------------------------------------------------
(* Properties *)

Calls == [mode : {"none", "registration", "authorization"}, email : Texts,
          password : Texts, shown : Seq(Texts)]

\* Every variable keeps its type.
TypeOK ==
  /\ mode \in {"registration", "authorization"}
  /\ texts \in Seq(Texts)
  /\ cells \in Seq(Cells)
  /\ shown \in [Cells -> Texts]
  /\ bound \in [Cells -> SUBSET (1 .. 3)]
  /\ laidOut \in BOOLEAN /\ call \in Calls
  /\ account \in [password : Texts, onFile : Texts]
  /\ screen \in {"form", "left", "trapped"}

\* Appended row by row, cleared by every switch and written by bindings of
\* former rows, texts still has one entry for each field on screen: the buttons
\* never read a field that is not there (RegistrationBinder.swift 45, 108).
TextsMatchRows ==
  laidOut => /\ DOMAIN texts = Rows(mode)
             /\ DOMAIN cells = Rows(mode)

\* While no cell on screen is bound to the row of another, whatever the other
\* cells were used for before, texts holds what the fields show.
FieldsAgree ==
  (laidOut /\ \A i, j \in DOMAIN cells : i \in bound[cells[j]] => i = j) =>
    \A i \in DOMAIN cells : texts[i] = shown[cells[i]]

\* What is sent is an address and a password even when the fields disagree with
\* texts, on either form: neither an account nor a sign-in has a password that
\* is empty or shorter than six characters (RegistrationBinder.swift 116-119).
SentIsValid ==
  /\ call # NoCall => call.email \in Emails /\ call.password \in Passwords
  /\ account.password # Empty => account.password \in Passwords

\* A new form that has never been switched sends the password that was typed
\* twice.
ConfirmedOnFirstForm ==
  (call.mode = "registration" /\ \A c \in Cells : bound[c] = {c}) =>
    call.shown[2] = call.shown[3]

\* The buttons (127, 138) and the completion of createUser (132) index texts by
\* force, and a missing entry counts as valid: nothing traps but a completion
\* that runs between a switch of the form and its layout.
TrapsOnlyInSwitch == screen = "trapped" => ~laidOut

\* createUser and signIn get the texts of the fields with the placeholders
\* .email and .password (RegistrationBinder.swift 24-25, 127, 138).
ShownIsSent ==
  call # NoCall => call.email = call.shown[1] /\ call.password = call.shown[2]
=============================================================================
