CONSTANTS
  Traffic <- Session
  Lengths <- AskLengths
  BufSize = 24
  Extended = 12
  Long = 16
  Wide = 1024
SPECIFICATION FairSpec
INVARIANT TypeOK
INVARIANT BufferBounded
PROPERTY StreamSpec
PROPERTY AllDelivered
CHECK_DEADLOCK FALSE
