CONSTANTS
  Clients = {c1, c2}
  Minors <- Newest
  ViewerMinors <- Newest
  Passwords <- OnePassword
  PasswordList <- NoPassword
  FirstViewOnly = 0
  ByList = FALSE
  AlwaysShared = FALSE
  NeverShared = FALSE
SPECIFICATION FairSpec
PROPERTY NotShared
