\* Safety: a course of two lessons, two handlers at a time, reports that name
\* another course; four requests, or three of which one is cut short.
SPECIFICATION Spec
CONSTANTS
  N = 2
  Requests = {r1, r2}
  Strays = {2}
  MaxRequests = 4
  MaxCrashes = 1
SYMMETRY Symmetry
CONSTRAINT Budget
INVARIANTS
  TypeOK
  CompletionIsEarned
  LockRespected
  LessonCredentialQueued
  LearnerCanProceed
  CertificateLinked
PROPERTY
  LostOnlyToRival
