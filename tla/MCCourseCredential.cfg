\* A course of one lesson, completed by its quiz and a look at the progress
\* screen.
SPECIFICATION Spec
CONSTANTS
  N = 1
  Requests = {r1}
  Strays = {}
  MaxRequests = 3
  MaxCrashes = 0
INVARIANT
  CourseCredentialQueued
