\* Two overlapping reports of one lesson.
SPECIFICATION Spec
CONSTANTS
  N = 1
  Requests = {r1, r2}
  Strays = {}
  MaxRequests = 2
  MaxCrashes = 0
PROPERTY
  CompletedIsMonotone
