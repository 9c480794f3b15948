SPECIFICATION SessionSpec
CONSTANTS
  Requests = {q, r}
  MaxPairs = 3
INVARIANT SamePair
