CONSTANTS
  mail = mail
  secret = secret
  secret2 = secret2
  Empty = Empty
  Texts <- AllTexts
  Emails <- AllEmails
  Passwords <- AllPasswords
SPECIFICATION Spec
SYMMETRY Symmetry
INVARIANTS
  TypeOK
  TextsMatchRows
  FieldsAgree
  SentIsValid
  ConfirmedOnFirstForm
  TrapsOnlyInSwitch
