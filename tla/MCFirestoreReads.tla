-------------------------- MODULE MCFirestoreReads --------------------------
(* HRApp's reads of the recruiter's own document: DatabaseManager.listen    *)
(* keeps a listener on it, Home and Results ask for it once more.           *)
EXTENDS FirestoreReads

CONSTANTS own, listener, get1, get2

OwnReads == [r \in Readers |-> own]
=============================================================================
