SPECIFICATION Spec
CONSTANTS
  Requests = {r1, r2}
  MaxPairs = 3
  Phones = {phone}
  Browsers = {}
  Skewed = {}
  Killed = {}
SYMMETRY Symmetry
INVARIANTS
  RememberedPairWorks
  KilledForACause
  OneRefresherPerPhone
  LeftOnlyTheDead
