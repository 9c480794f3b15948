SPECIFICATION Spec
CONSTANTS
  Requests = {r1, r2}
  MaxPairs = 2
  Phones = {phone}
  Browsers = {browser}
  Skewed = {}
  Killed = {phone}
SYMMETRY Symmetry
INVARIANTS
  EndedStaysEnded
PROPERTY SessionsArePerDevice
