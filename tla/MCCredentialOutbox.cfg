\* Safety: two API instances, two concurrent requests, one
\* credential (a course's: it may be completed in silence too), two attempts
\* before giving up, one crash.
SPECIFICATION Spec
CONSTANTS
  ana = ana
  c1 = c1
  lesson = lesson
  course = course
  Learners = {ana}
  Courses = {c1}
  Credentials = {course}
  Owner <- MCOwner
  CourseOf <- MCCourseOf
  CourseCreds = {course}
  Instances = {i1, i2}
  Requests = {r1, r2}
  MaxAttempts = 2
  DrainBatch = 1
  MaxRequests = 2
  MaxCrashes = 1
  NoCred = NoCred
SYMMETRY Symmetry
INVARIANTS
  TypeOK
  PublishedIsRecorded
  RecordsAreTracked
  ExclusiveClaim
  RetryBudget
  NoCredentialMissed
PROPERTY
  LedgerSpec
