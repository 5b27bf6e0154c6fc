CONSTANTS
  Clients = {c1, c2}
  Nobody = nobody
  Buttons <- UpOrDown
  Points <- TwoPoints
  None = none
  Sizes <- SmallOrLarge
  DeferPtr = TRUE
SPECIFICATION FairSpec
INVARIANT TypeOK
INVARIANT OneDown
INVARIANT NoMoveMissed
PROPERTY DeferredArrives
