------------------------------ MODULE LearnerApp ------------------------------
(***************************************************************************)
(* A learner with the mobile app: the screens of one course, and the query *)
(* `course-progress` whose data the lesson road shows.                     *)
(*                                                                         *)
(* Each request is one completion, quiz submission or progress report of   *)
(* the app; the API reads its rows and writes one of them later            *)
(* (CourseProgress has its handlers), which may undo what a call before it *)
(* recorded.                                                               *)
(* The query cache is external (TanStack Query): a refetch takes the place *)
(* of the fetch in flight when there are data, an invalidated query that   *)
(* no screen shows is fetched when one does, and the callbacks that a      *)
(* screen passes to mutate() are not run once the screen is gone.          *)
(***************************************************************************)
EXTENDS Handlers

CONSTANTS
  RoadLessons,   \* the course has the lessons 1..RoadLessons
  RoadQuizzes    \* those of them that have a quiz

RoadSet == 1..RoadLessons
Facts == [done : SUBSET RoadSet, passed : SUBSET RoadQuizzes]

ASSUME LearnerAssumption ==
  /\ RoadLessons \in Nat \ {0} /\ RoadQuizzes \subseteq RoadSet
  /\ \A f \in Facts : f # Nothing
  /\ \A m \in [what : {"mark", "submit", "report"}, lesson : RoadSet, good : BOOLEAN] :
       m # Nothing

VARIABLES
  facts,         \* what the API knows: lessons done, quizzes passed
  road,          \* the query's data, Nothing before
  invalid,       \* the query was invalidated since they were fetched
  fetching,      \* its fetch: asked, served by the API, or idle
  screen,        \* the screen on top, and its lesson
  marked,        \* the player's `completed`
  submitting,    \* the mutation that the quiz screen waits for
  result         \* the quiz screen shows a result, and what it is

\* History.
VARIABLE unseen  \* facts that changed since the app was last told of them

roadQuery == <<road, invalid, fetching>>
screens == <<screen, marked, submitting, result>>
learnerVars == <<facts, roadQuery, screens, unseen, handlers>>

None == [done |-> {}, passed |-> {}]

\* good: a completion, a quiz that is passed, a report of a completed lesson.
LearnerMemory ==
  [what : {"mark", "submit", "report"}, lesson : RoadSet, good : BOOLEAN]

LearnerTypeOK ==
  /\ facts \in Facts /\ unseen \in Facts /\ road \in Facts \union {Nothing}
  /\ invalid \in BOOLEAN /\ marked \in BOOLEAN
  /\ fetching \in [at : {"idle", "asked", "served"}, has : Facts]
  /\ screen \in [at : {"home", "road", "player", "quiz"}, lesson : 0..RoadLessons]
  /\ submitting \in Requests \union {Nothing}
  /\ result \in {"none", "passed", "failed"}
  /\ step \in [Requests -> {"free", "sent", "read", "answered", "done"}]
  /\ mem \in [Requests -> LearnerMemory \union {Nothing}]
  /\ \A r \in Requests : step[r] \notin {"free", "done"} => mem[r] # Nothing
  /\ breaks \in 0..MaxBreaks

More(a, b) == [done |-> a.done \union b.done, passed |-> a.passed \union b.passed]
Less(a, b) == [done |-> a.done \ b.done, passed |-> a.passed \ b.passed]
Within(a, b) == a.done \subseteq b.done /\ a.passed \subseteq b.passed
Differing(a, b) == More(Less(a, b), Less(b, a))

\* computeLessonProgress: a lesson opens with the one before it satisfied.
Opens(f, l) ==
  \/ l = 1 \/ l \in f.done
  \/ l - 1 \in f.done /\ (l - 1 \in RoadQuizzes => l - 1 \in f.passed)

\* LessonRoad: how the node of a lesson is shown.
Node(f, l) ==
  CASE l \in f.done /\ (l \in RoadQuizzes => l \in f.passed) -> "completed"
    [] l \in f.done /\ l \in RoadQuizzes \ f.passed            -> "quiz pending"
    [] l \notin f.done /\ Opens(f, l)                          -> "available"
    [] l \notin f.done /\ ~Opens(f, l)                         -> "locked"

-----------------------------------------------------------------------------
\* The query.

\* Mutant of Refetched: the fetch in flight is left to end.
RefetchedOnce(f) == IF f.at = "idle" THEN [at |-> "asked", has |-> None] ELSE f

\* A refetch starts anew, except while the first data are awaited.
Refetched(f) ==
  IF road = Nothing /\ f.at # "idle" THEN f ELSE [at |-> "asked", has |-> None]

Refetch == fetching' = Refetched(fetching) /\ UNCHANGED <<road, invalid>>

\* invalidateQueries.
Invalidate ==
  /\ invalid' = TRUE /\ UNCHANGED road
  /\ IF screen.at = "home" THEN UNCHANGED fetching
     ELSE fetching' = Refetched(fetching)

ServeRoad ==
  /\ fetching.at = "asked"
  /\ fetching' = [at |-> "served", has |-> facts]
  /\ unseen' = None
  /\ UNCHANGED <<facts, road, invalid, screens, handlers>>

GotRoad ==
  /\ fetching.at = "served"
  /\ road' = fetching.has /\ invalid' = FALSE
  /\ fetching' = [at |-> "idle", has |-> None]
  /\ UNCHANGED <<facts, screens, unseen, handlers>>

\* The fetch fails, for the third time.
RoadFails ==
  /\ fetching.at # "idle" /\ breaks < MaxBreaks /\ breaks' = breaks + 1
  /\ fetching' = [at |-> "idle", has |-> None]
  /\ unseen' = IF road = Nothing THEN unseen ELSE More(unseen, Differing(facts, road))
  /\ UNCHANGED <<facts, road, invalid, screens, step, mem>>

-----------------------------------------------------------------------------
\* The screens.

\* The course is opened: a query that is invalidated, or older than its
\* staleTime, is fetched.
OpenRoad ==
  /\ screen.at = "home"
  /\ screen' = [at |-> "road", lesson |-> 0]
  /\ \/ Refetch
     \/ road # Nothing /\ ~invalid /\ UNCHANGED roadQuery
  /\ UNCHANGED <<facts, marked, submitting, result, unseen, handlers>>

\* A lesson that the road shows as open is pressed, or the player's "next".
Play(l) ==
  /\ road # Nothing
  /\ screen.at \in {"road", "player"} /\ screen.lesson < l
  /\ Node(road, l) # "locked"
  /\ screen' = [at |-> "player", lesson |-> l] /\ marked' = FALSE
  /\ UNCHANGED <<facts, roadQuery, submitting, result, unseen, handlers>>

TakeQuiz ==
  /\ screen.at = "player" /\ screen.lesson \in RoadQuizzes
  /\ screen' = [screen EXCEPT !.at = "quiz"]
  /\ submitting' = Nothing /\ result' = "none"
  /\ UNCHANGED <<facts, roadQuery, marked, unseen, handlers>>

Back ==
  /\ screen.at # "home"
  /\ screen' = CASE screen.at = "quiz"   -> [screen EXCEPT !.at = "player"]
                 [] screen.at = "player" -> [at |-> "road", lesson |-> 0]
                 [] screen.at = "road"   -> [at |-> "home", lesson |-> 0]
  /\ submitting' = Nothing /\ result' = "none"
  /\ marked' = (marked /\ screen.at = "quiz")
  /\ UNCHANGED <<facts, roadQuery, unseen, handlers>>

\* The system kills the app.
Killed ==
  /\ breaks < MaxBreaks /\ breaks' = breaks + 1
  /\ road' = Nothing /\ invalid' = FALSE /\ fetching' = [at |-> "idle", has |-> None]
  /\ screen' = [at |-> "home", lesson |-> 0]
  /\ marked' = FALSE /\ submitting' = Nothing /\ result' = "none"
  /\ step' = [r \in Requests |-> IF step[r] = "free" THEN "free" ELSE "done"]
  /\ mem' = [r \in Requests |-> Nothing]
  /\ UNCHANGED <<facts, unseen>>

-----------------------------------------------------------------------------
\* A call for the lesson on the screen.
Sends(r, what, good) ==
  /\ step[r] = "free"
  /\ GoesWith(r, "sent", [what |-> what, lesson |-> screen.lesson, good |-> good])

\* handleComplete: the button, or the end of the video.
Mark(r) ==
  /\ screen.at = "player"
  /\ ~marked /\ screen.lesson \notin road.done
  /\ Sends(r, "mark", TRUE)
  /\ marked' = TRUE
  /\ Refetch
  /\ UNCHANGED <<facts, screen, submitting, result, unseen, breaks>>

\* handleProgress: the position is reported (the model has no positions).
Report(r) ==
  /\ screen.at = "player"
  /\ Sends(r, "report", FALSE)
  /\ UNCHANGED <<facts, roadQuery, screens, unseen, breaks>>

\* handleSubmit: of a quiz that was passed before, too.
Submit(r) ==
  /\ screen.at = "quiz" /\ submitting = Nothing /\ result = "none"
  /\ \E good \in BOOLEAN : Sends(r, "submit", good)
  /\ submitting' = r
  /\ UNCHANGED <<facts, roadQuery, screen, marked, result, unseen, breaks>>

TryAgain ==
  /\ screen.at = "quiz" /\ result = "failed"
  /\ result' = "none"
  /\ UNCHANGED <<facts, roadQuery, screen, marked, submitting, unseen, handlers>>

\* The call ends in an error.
Fails(r) ==
  /\ Goes(r, "done")
  /\ submitting' = IF submitting = r THEN Nothing ELSE submitting

\* The API refuses a completion or a quiz whose lesson is not open, and a
\* report sees whether its lesson is completed.
ReadRow(r) ==
  /\ step[r] = "sent"
  /\ LET l == mem[r].lesson IN
     \/ /\ mem[r].what = "report" \/ Opens(facts, l)
        /\ GoesWith(r, "read", [mem[r] EXCEPT !.good = IF mem[r].what = "report"
                                                      THEN l \in facts.done ELSE @])
        /\ UNCHANGED submitting
     \/ mem[r].what # "report" /\ ~Opens(facts, l) /\ Fails(r)
  /\ UNCHANGED <<facts, roadQuery, screen, marked, result, unseen, breaks>>

\* The row as the call has it: a quiz that is failed takes the place of a pass,
\* a report that read the row before it was completed undoes that.
Set(lessons, l, on) == IF on THEN lessons \union {l} ELSE lessons \ {l}
Upserted(r) ==
  IF mem[r].what = "submit"
  THEN [facts EXCEPT !.passed = Set(@, mem[r].lesson, mem[r].good)]
  ELSE [facts EXCEPT !.done = Set(@, mem[r].lesson, mem[r].good)]

\* The row is written; the answer may be lost.
WriteRow(r) ==
  /\ step[r] = "read"
  /\ facts' = Upserted(r)
  /\ unseen' = More(unseen, Differing(facts, Upserted(r)))
  /\ \/ Goes(r, "answered") /\ UNCHANGED <<submitting, breaks>>
     \/ breaks < MaxBreaks /\ breaks' = breaks + 1 /\ Fails(r)
  /\ UNCHANGED <<roadQuery, screen, marked, result>>

\* The call is lost, or fails in the API.
Lose(r) ==
  /\ step[r] \in {"sent", "read"} /\ breaks < MaxBreaks /\ breaks' = breaks + 1
  /\ Fails(r)
  /\ UNCHANGED <<facts, roadQuery, screen, marked, result, unseen>>

\* The app is told of the row.  A fetch that the API answered before and that
\* goes on while no screen shows the query will count as fresh nevertheless.
Told(r) ==
  IF screen.at = "home" /\ fetching.at = "served" THEN unseen
  ELSE Less(unseen, [done   |-> {x \in {mem[r].lesson} : mem[r].what # "submit"},
                     passed |-> {x \in {mem[r].lesson} : mem[r].what = "submit"}])

\* Mutant of AfterVideo: as after a quiz, its own query is invalidated only.
AfterVideoOnly == UNCHANGED roadQuery

\* useMarkVideoComplete, useReportVideoProgress: onSuccess of the hook.
AfterVideo == Invalidate

VideoAnswered(r) ==
  /\ step[r] = "answered" /\ mem[r].what # "submit"
  /\ AfterVideo
  /\ unseen' = Told(r)
  /\ Goes(r, "done")
  /\ UNCHANGED <<facts, screens, breaks>>

\* QuizScreen's onSuccess is run while the screen is there.
QuizAnswered(r) ==
  /\ step[r] = "answered" /\ mem[r].what = "submit"
  /\ Goes(r, "done")
  /\ \/ /\ submitting = r
        /\ Invalidate /\ unseen' = Told(r)
        /\ submitting' = Nothing /\ result' = IF mem[r].good THEN "passed" ELSE "failed"
     \/ submitting # r /\ UNCHANGED <<roadQuery, submitting, result, unseen>>
  /\ UNCHANGED <<facts, screen, marked, breaks>>

-----------------------------------------------------------------------------
LearnerCall(r) ==
  \/ Mark(r) \/ Report(r) \/ Submit(r) \/ ReadRow(r) \/ WriteRow(r) \/ Lose(r)
  \/ VideoAnswered(r) \/ QuizAnswered(r)

LearnerNext ==
  \/ \E r \in Requests : LearnerCall(r)
  \/ \E l \in RoadSet : Play(l)
  \/ OpenRoad \/ TakeQuiz \/ TryAgain \/ Back \/ ServeRoad \/ GotRoad \/ RoadFails \/ Killed

LearnerInit ==
  /\ \E n \in 0..RoadLessons : facts = [done |-> 1..n, passed |-> RoadQuizzes \intersect 1..n]
  /\ road = Nothing /\ invalid = FALSE /\ fetching = [at |-> "idle", has |-> None]
  /\ screen = [at |-> "home", lesson |-> 0]
  /\ marked = FALSE /\ submitting = Nothing /\ result = "none"
  /\ unseen = None
  /\ step = [r \in Requests |-> "free"] /\ mem = [r \in Requests |-> Nothing] /\ breaks = 0

LearnerSpec == LearnerInit /\ [][LearnerNext]_learnerVars

-----------------------------------------------------------------------------
\* Properties.

\* Unless it is fetched or to be fetched, the lesson road shows what the API
\* has recorded, no less and, after a failed retake or a late report, no more,
\* except what the app was not told: an answer that was lost or is on its way,
\* a quiz whose screen was left before the answer, a failed fetch, an answer to
\* no screen while an older fetch ends (the comments of useVideoDelivery and
\* CourseDetailScreen).
RoadIsCurrent ==
  road # Nothing /\ ~invalid /\ fetching.at = "idle" => Within(Differing(facts, road), unseen)
=============================================================================
