CONSTANTS
  Clients = {c1}
  Minors <- AllMinors
  ViewerMinors <- AllMinors
  Passwords <- ThreePasswords
  PasswordList <- FullThenView
  FirstViewOnly = 1
  ByList = TRUE
  AlwaysShared = FALSE
  NeverShared = FALSE
SPECIFICATION FairSpec
INVARIANT InSync
INVARIANT Proven
PROPERTY Answered
