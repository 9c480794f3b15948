SPECIFICATION MCSpec
CONSTANTS
  Requests = {r1, r2, r3}
  MaxBreaks = 1
  Nothing = nothing
  MaxLessons = 2
  MaxItems = 2
  QuizLessons = {1, 2}
  CourseLessons = {1, 2}
  Keys = {a}
  MaxEvents = 3
  MaxFaults = 1
  Entries = {1, 2}
  CommandKeys = {k1, k2}
  Founding = founding
  PilotLessons = 2
  QuizLesson = 1
  ScreenWidths = {240, 280, 281, 320, 365, 366, 367, 390, 400, 679, 680, 681, 768, 1200}
  MaxNodes = 3
  RoadLessons = 2
  RoadQuizzes = {1}
SYMMETRY Symmetry
CONSTRAINT FewWrites
INVARIANTS
  AppsTypeOK
  EditorObeys
  QuizzesKeepApart
  PublicationIsOne
  IndexFollowsNetwork
  SavedEntriesStay
  PilotIsConsistent
  RoadIsCurrent
  RoadReads
  QueuedIsKept
