------------------------------ MODULE MCBoard ------------------------------
EXTENDS Board

Document(hr, vacancies, matched) ==
  [hr |-> hr, vacancies |-> vacancies, matched |-> matched]

\* A worker's document, and documents of a recruiter with no, one and two
\* vacancies, before and after the notebook has written the scores.
SomeDocuments ==
  {Document(FALSE, 0, FALSE), Document(TRUE, 0, FALSE), Document(TRUE, 1, TRUE),
   Document(TRUE, 2, TRUE)}
OneDocument == {Document(TRUE, 1, TRUE)}
=============================================================================
