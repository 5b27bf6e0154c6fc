CONSTANTS
  Clients = {c1}
  Minors <- SevenAndEight
  ViewerMinors <- OnlyMac
  Passwords <- OnePassword
  PasswordList <- NoPassword
  FirstViewOnly = 0
  ByList = FALSE
  AlwaysShared = FALSE
  NeverShared = FALSE
SPECIFICATION FairSpec
PROPERTY Answered
CHECK_DEADLOCK FALSE
