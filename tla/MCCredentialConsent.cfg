\* The consent race: an opt-out while a drain holds a row.
SPECIFICATION Spec
CONSTANTS
  ana = ana
  c1 = c1
  lesson = lesson
  course = course
  Learners = {ana}
  Courses = {c1}
  Credentials = {lesson}
  Owner <- MCOwner
  CourseOf <- MCCourseOf
  CourseCreds = {}
  Instances = {i1, i2}
  Requests = {r1, r2}
  MaxAttempts = 2
  DrainBatch = 1
  MaxRequests = 2
  MaxCrashes = 1
  NoCred = NoCred
PROPERTY
  OnlyWithConsent
