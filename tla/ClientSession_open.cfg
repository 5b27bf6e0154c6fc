CONSTANTS
  Clients = {c1, c2}
  Minors <- SevenAndEight
  ViewerMinors <- OldNewAndMac
  Passwords <- OnePassword
  PasswordList <- NoPassword
  FirstViewOnly = 0
  ByList = FALSE
  AlwaysShared = FALSE
  NeverShared = FALSE
SPECIFICATION FairSpec
INVARIANT TypeOK
INVARIANT InSync
PROPERTY OthersAnswered
CHECK_DEADLOCK FALSE
