---------------------------- MODULE DocumentReads ----------------------------
(***************************************************************************)
(* What reading documents promises HRApp, whatever the connection does:    *)
(* a get is answered once, with a state the document has had; a listener   *)
(* is shown such states, never one older than the last (unless it was told *)
(* in between that there is none), until an error ends it.                 *)
(***************************************************************************)
EXTENDS Naturals

CONSTANTS
  Docs,
  Readers,      \* the reads of an execution
  Gets,         \* those that ask once
  DocOf,        \* the document each reads
  MaxVersion,   \* bound: writes of a document
  None          \* no version known

VARIABLES
  db,           \* the version of each document at the server
  reads         \* how far each read is, and the version it was last given

Given == {None} \cup (0..MaxVersion)
IsNewer(v, old) == old = None \/ v = None \/ v >= old

Init ==
  /\ db = [d \in Docs |-> 0]
  /\ reads = [r \in Readers |-> [status |-> "idle", given |-> None]]

Write(d) == db[d] < MaxVersion /\ db' = [db EXCEPT ![d] = @ + 1] /\ UNCHANGED reads

Ask(r) ==
  /\ reads[r].status = "idle"
  /\ reads' = [reads EXCEPT ![r].status = "waiting"]
  /\ UNCHANGED db

Give(r) ==
  /\ reads[r].status = "waiting"
  /\ \E v \in Given :
       /\ v # None => v <= db[DocOf[r]]
       /\ IsNewer(v, reads[r].given)
       /\ reads' = [reads EXCEPT ![r] =
            [status |-> IF r \in Gets THEN "done" ELSE "waiting", given |-> v]]
  /\ UNCHANGED db

Fail(r) ==
  /\ reads[r].status = "waiting"
  /\ reads' = [reads EXCEPT ![r].status = "done"]
  /\ UNCHANGED db

Next ==
  \/ \E d \in Docs : Write(d)
  \/ \E r \in Readers : Ask(r) \/ Give(r) \/ Fail(r)

Spec == Init /\ [][Next]_<<db, reads>>
=============================================================================
