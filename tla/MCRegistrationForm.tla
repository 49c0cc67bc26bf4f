------------------------- MODULE MCRegistrationForm -------------------------
EXTENDS RegistrationForm, TLC

CONSTANTS mail, secret, secret2

AllTexts     == {Empty, mail, secret, secret2}
AllEmails    == {mail}
AllPasswords == {mail, secret, secret2}
Symmetry     == Permutations({secret, secret2})
=============================================================================
