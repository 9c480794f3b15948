\* Two credentials and a batch of one, so that a row has to wait for the next
\* round; one instance, two attempts, one crash.  A lesson of four steps that
\* is opened twice, a report every two steps.
SPECIFICATION LiveSpec
CONSTANTS
  ana = ana
  c1 = c1
  lesson = lesson
  course = course
  Learners = {ana}
  Courses = {c1}
  Credentials = {lesson, course}
  Owner <- MCOwner
  CourseOf <- MCCourseOf
  CourseCreds = {course}
  Instances = {i1}
  Requests = {r1}
  MaxAttempts = 2
  DrainBatch = 1
  MaxRequests = 1
  MaxCrashes = 1
  NoCred = NoCred
  Length = 3
  Interval = 2
  ResumeFrom = 1
  NearlyEnd = 3
  MaxTurns = 2
INVARIANTS
  KeptFollowsPlayer
PROPERTIES
  QueuedSettles
  WatchingCompletes
