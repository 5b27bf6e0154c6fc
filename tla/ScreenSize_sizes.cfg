CONSTANTS
  Client = {c1, c2}
  Sizes = {4, 1}
  Scales = {1, 2}
  Areas = {left}
  NoAnswer = NoAnswer
  Refused = 1
SYMMETRY Anyone
SPECIFICATION Spec
INVARIANT TypeOK
INVARIANT RefsMatch
INVARIANT ScaledFollows
INVARIANT SizeTold
INVARIANT AnswersOwn
CHECK_DEADLOCK FALSE
