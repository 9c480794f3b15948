--------------------------- MODULE CourseProgress ---------------------------
(***************************************************************************)
(* A learner's way through a course in apps/api: reports of the player     *)
(* (recordLessonProgress), quiz attempts, the progress screen, which       *)
(* writes what it reads, the certificate, and an admin who attaches and    *)
(* removes quizzes meanwhile.                                              *)
(*                                                                         *)
(* One learner, one course with the lessons 1..N in course order.  Every   *)
(* database statement of a handler that writes is a step of its own.       *)
(* watchedSeconds takes the same way as completed and is left out.         *)
(***************************************************************************)
EXTENDS Integers, FiniteSets

CONSTANTS
  N,           \* the number of lessons
  Requests,    \* handlers in flight at the same time
  Strays,      \* lessons that may be reported under another course's id
  MaxRequests, \* bound: requests that are ever started
  MaxCrashes   \* bound: requests cut short

ASSUME ProgressAssumption ==
  /\ N \in Nat \ {0}
  /\ Strays \subseteq 1..N
  /\ MaxRequests \in Nat
  /\ MaxCrashes \in Nat

Lessons == 1..N

\* The tables.
VARIABLES
  enrollment,    \* the learner's enrollment in the course
  progress,      \* its percentage
  home, away,    \* lessons with a row under this, or another, enrollment
  done,          \* lessons whose row says completed
  passed,        \* lessons whose quiz row says passed
  checkpoints,   \* lessons with isCheckpoint
  quizzes,       \* lessons with a quiz
  certificate    \* claimed, then given its download link

\* Credentials handed to enqueueCredential: lessons, and CourseCredential.
VARIABLE queued

\* The requests: where each is and what it was sent.
VARIABLES
  step, lesson,
  positive,      \* reports with completed = true, answers that reach 70%
  elsewhere      \* reports that name another course

\* What each has read.
VARIABLES
  sawEnrollment, sawProgress,
  sawDone,          \* requests that found the lesson's row completed
  sawCheckpoints, sawPassed, sawCompleted

VARIABLES
  requests,      \* how many requests were started
  crashes,       \* how many requests were cut short
  everDone,      \* history: lessons that were completed once
  everPassed,    \* history: lessons whose quiz was passed once
  outside,       \* history: lessons completed under another course's id
  edited,        \* history: lessons whose isCheckpoint was changed
  contested      \* history: lessons completed while another report of the
                 \* same lesson had read it as not completed

tables    == <<enrollment, progress, home, away, done, passed, checkpoints,
               quizzes, certificate>>
inputs    == <<lesson, positive, elsewhere>>
snapshots == <<sawEnrollment, sawProgress, sawDone, sawCheckpoints, sawPassed,
               sawCompleted>>
histories == <<everDone, everPassed, outside, edited, contested>>
bounds    == <<requests, crashes>>
vars == <<tables, queued, step, inputs, snapshots, bounds, histories>>

CourseCredential == 0

Enrollments == {"none", "open", "completed"}
Steps == {"idle",
          "existing", "lessons", "passed", "prior", "write", "settle",
          "announce",
          "syncPassed", "sync",
          "context", "quizDone", "quizPassed", "answer",
          "lookup", "issue", "link",
          "attach"}

TypeOK ==
  /\ enrollment \in Enrollments /\ progress \in 0..100
  /\ home \subseteq Lessons /\ away \subseteq Lessons
  /\ done \subseteq Lessons /\ passed \subseteq Lessons
  /\ checkpoints \subseteq Lessons /\ quizzes \subseteq Lessons
  /\ certificate \in {"none", "issued", "linked"}
  /\ queued \subseteq Lessons \union {CourseCredential}
  /\ step \in [Requests -> Steps]
  /\ lesson \in [Requests -> Lessons]
  /\ positive \subseteq Requests /\ elsewhere \subseteq Requests
  /\ sawEnrollment \in [Requests -> Enrollments]
  /\ sawProgress \in [Requests -> 0..100]
  /\ sawDone \subseteq Requests
  /\ sawCheckpoints \in [Requests -> SUBSET Lessons]
  /\ sawPassed \in [Requests -> SUBSET Lessons]
  /\ sawCompleted \in [Requests -> SUBSET Lessons]
  /\ requests \in 0..MaxRequests /\ crashes \in 0..MaxCrashes
  /\ everDone \subseteq Lessons /\ everPassed \subseteq Lessons
  /\ outside \subseteq Lessons /\ edited \subseteq Lessons
  /\ contested \subseteq Lessons

\* A published course nobody has started; its quizzes are already attached.
Init ==
  /\ enrollment = "none" /\ progress = 0
  /\ home = {} /\ away = {} /\ done = {} /\ passed = {}
  /\ checkpoints \in SUBSET Lessons /\ quizzes = checkpoints
  /\ certificate = "none" /\ queued = {}
  /\ step = [r \in Requests |-> "idle"]
  /\ lesson = [r \in Requests |-> 1]
  /\ positive = {} /\ elsewhere = {}
  /\ sawEnrollment = [r \in Requests |-> "none"]
  /\ sawProgress = [r \in Requests |-> 0]
  /\ sawDone = {}
  /\ sawCheckpoints = [r \in Requests |-> {}]
  /\ sawPassed = [r \in Requests |-> {}]
  /\ sawCompleted = [r \in Requests |-> {}]
  /\ requests = 0 /\ crashes = 0
  /\ everDone = {} /\ everPassed = {} /\ outside = {}
  /\ edited = {} /\ contested = {}

-----------------------------------------------------------------------------
\* progress.rules.ts: the rules, over the completed lessons c, the passed
\* quizzes p and the checkpoints k a handler has read.

\* Mutant of Satisfied: a checkpoint's quiz is forgotten.
SatisfiedByVideo(c, p, k) == c

Satisfied(c, p, k) == c \intersect ((Lessons \ k) \union p)

\* Mutant of Available: a checkpoint opens only after its own quiz.
AvailableAfterQuiz(c, p, k) ==
  {l \in Lessons : /\ l = 1 \/ l - 1 \in Satisfied(c, p, k) \/ l \in c
                   /\ l \in k => l \in p}

\* A lesson is open if the one before it is satisfied or it was completed.
Available(c, p, k) ==
  {l \in Lessons : l = 1 \/ l - 1 \in Satisfied(c, p, k) \/ l \in c}

\* Mutant of Percent: divided by half the number of lessons.
PercentOfHalf(S) == (200 * Cardinality(S) + N) \div N

\* Math.round(100 * |S| / N)
Percent(S) == (200 * Cardinality(S) + N) \div (2 * N)

\* courseCompleted: the rounded percentage reaches 100.
CourseCompleted(S) == Percent(S) >= 100

-----------------------------------------------------------------------------
\* Helpers

Idle == \A r \in Requests : step[r] = "idle"

\* A request between the read of its lesson's row and the write of it.
Reporting(r) == step[r] \in {"lessons", "passed", "prior", "write"}

\* A new request takes a free slot and continues at s.
Begin(r, s, l) ==
  /\ step[r] = "idle"
  /\ requests < MaxRequests
  /\ requests' = requests + 1
  /\ step' = [step EXCEPT ![r] = s]
  /\ lesson' = [lesson EXCEPT ![r] = l]

Goto(r, s) == step' = [step EXCEPT ![r] = s]

\* The handler of r is over and its local values are gone.
End(r) ==
  /\ step' = [step EXCEPT ![r] = "idle"]
  /\ lesson' = [lesson EXCEPT ![r] = 1]
  /\ positive' = positive \ {r}
  /\ elsewhere' = elsewhere \ {r}
  /\ sawEnrollment' = [sawEnrollment EXCEPT ![r] = "none"]
  /\ sawProgress' = [sawProgress EXCEPT ![r] = 0]
  /\ sawDone' = sawDone \ {r}
  /\ sawCheckpoints' = [sawCheckpoints EXCEPT ![r] = {}]
  /\ sawPassed' = [sawPassed EXCEPT ![r] = {}]
  /\ sawCompleted' = [sawCompleted EXCEPT ![r] = {}]

\* The handler answers with an error and has written nothing.
Refuse(r) ==
  /\ End(r)
  /\ UNCHANGED <<tables, queued, bounds, histories>>

\* What a step that only reads leaves alone.
OnlyReads == UNCHANGED <<tables, queued, inputs, bounds, histories>>

-----------------------------------------------------------------------------
\* recordLessonProgress, for updateProgress, reportVideoProgress and
\* markLessonComplete

\* The enrollment is created if it is missing, and read.
BeginReport(r, l, completed) ==
  /\ Begin(r, "existing", l)
  /\ positive' = IF completed THEN positive \union {r} ELSE positive
  /\ enrollment' = IF enrollment = "none" THEN "open" ELSE enrollment
  /\ sawEnrollment' = [sawEnrollment EXCEPT ![r] = enrollment']
  /\ sawProgress' = [sawProgress EXCEPT ![r] = progress]
  /\ UNCHANGED <<progress, home, away, done, passed, checkpoints, quizzes,
                 certificate, queued, elsewhere, sawDone, sawCheckpoints,
                 sawPassed, sawCompleted, crashes, histories>>

\* updateProgress takes the course's id from the caller: the enrollment, the
\* lessons and the lock are then those of another course.
BeginStrayReport(r, l, completed) ==
  /\ l \in Strays
  /\ Begin(r, "existing", l)
  /\ positive' = IF completed THEN positive \union {r} ELSE positive
  /\ elsewhere' = elsewhere \union {r}
  /\ UNCHANGED <<tables, queued, snapshots, crashes, histories>>

\* The row of the lesson.
ReadExisting(r) ==
  /\ step[r] = "existing"
  /\ Goto(r, IF r \in elsewhere THEN "write" ELSE "lessons")
  /\ sawDone' = IF lesson[r] \in done THEN sawDone \union {r} ELSE sawDone
  /\ UNCHANGED <<sawEnrollment, sawProgress, sawCheckpoints, sawPassed,
                 sawCompleted>>
  /\ OnlyReads

\* The lessons of the course, in order.
ReadLessons(r) ==
  /\ step[r] = "lessons"
  /\ Goto(r, "passed")
  /\ sawCheckpoints' = [sawCheckpoints EXCEPT ![r] = checkpoints]
  /\ UNCHANGED <<sawEnrollment, sawProgress, sawDone, sawPassed, sawCompleted>>
  /\ OnlyReads

ReadPassed(r) ==
  /\ step[r] = "passed"
  /\ Goto(r, "prior")
  /\ sawPassed' = [sawPassed EXCEPT ![r] = passed]
  /\ UNCHANGED <<sawEnrollment, sawProgress, sawDone, sawCheckpoints,
                 sawCompleted>>
  /\ OnlyReads

\* Mutant of Locked: the lock is left to the client.
NeverLocked(r, completed) == FALSE

\* The lesson is to be completed, was not before, and is not open yet.
Locked(r, completed) ==
  /\ r \in positive
  /\ r \notin sawDone
  /\ lesson[r] \notin Available(completed, sawPassed[r], sawCheckpoints[r])

\* The completed lessons of the course, and the lock (423).
ReadPrior(r) ==
  /\ step[r] = "prior"
  /\ \/ /\ Locked(r, done)
        /\ Refuse(r)
     \/ /\ ~ Locked(r, done)
        /\ Goto(r, "write")
        /\ sawCompleted' = [sawCompleted EXCEPT ![r] = done]
        /\ UNCHANGED <<sawEnrollment, sawProgress, sawDone, sawCheckpoints,
                       sawPassed>>
        /\ OnlyReads

\* Mutant of NextCompleted: what the row said is not taken into account.
NextAsReported(r) == r \in positive

NextCompleted(r) == r \in positive \/ r \in sawDone

\* The lesson's row gets the value computed from the row read before,
\* whatever it has become; the enrollment of a row never changes.
StoreLesson(r) ==
  LET l == lesson[r]
      rivals == {q \in Requests \ {r} : Reporting(q) /\ lesson[q] = l
                                          /\ q \notin sawDone} IN
    \/ /\ NextCompleted(r)
       /\ done' = done \union {l}
       /\ everDone' = everDone \union {l}
       /\ contested' = IF rivals = {} THEN contested ELSE contested \union {l}
       /\ outside' = IF r \in elsewhere \ sawDone THEN outside \union {l}
                                                  ELSE outside
    \/ /\ ~ NextCompleted(r)
       /\ done' = done \ {l}
       /\ UNCHANGED <<everDone, contested, outside>>

WriteLesson(r) ==
  /\ step[r] = "write"
  /\ r \notin elsewhere
  /\ StoreLesson(r)
  /\ home' = IF lesson[r] \in away THEN home ELSE home \union {lesson[r]}
  /\ Goto(r, "settle")
  /\ sawCompleted' = [sawCompleted EXCEPT ![r] =
                        IF NextCompleted(r) THEN @ \union {lesson[r]} ELSE @]
  /\ UNCHANGED <<enrollment, progress, away, passed, checkpoints, quizzes,
                 certificate, queued, inputs, sawEnrollment, sawProgress,
                 sawDone, sawCheckpoints, sawPassed, bounds, everPassed,
                 edited>>

\* What follows for a report under another course concerns that course.
WriteStrayLesson(r) ==
  /\ step[r] = "write"
  /\ r \in elsewhere
  /\ StoreLesson(r)
  /\ away' = IF lesson[r] \in home THEN away ELSE away \union {lesson[r]}
  /\ End(r)
  /\ UNCHANGED <<enrollment, progress, home, passed, checkpoints, quizzes,
                 certificate, queued, bounds, everPassed, edited>>

\* What r counts as satisfied.
Counted(r) == Satisfied(sawCompleted[r], sawPassed[r], sawCheckpoints[r])

\* The enrollment row as r would have it.
Verdict(r) == IF CourseCompleted(Counted(r)) THEN "completed" ELSE "open"

Differs(r) ==
  Percent(Counted(r)) # sawProgress[r] \/ Verdict(r) # sawEnrollment[r]

\* The enrollment is updated if it differs from what was read at first.
StoreEnrollment(r) ==
  \/ /\ Differs(r)
     /\ enrollment' = Verdict(r)
     /\ progress' = Percent(Counted(r))
  \/ /\ ~ Differs(r)
     /\ UNCHANGED <<enrollment, progress>>

\* Mutant of Settle: returns early when the enrollment needs no update.
SettleOrReturn(r) ==
  /\ step[r] = "settle"
  /\ StoreEnrollment(r)
  /\ \/ /\ Differs(r)
        /\ Goto(r, "announce")
        /\ UNCHANGED <<inputs, snapshots>>
     \/ /\ ~ Differs(r)
        /\ End(r)
  /\ UNCHANGED <<home, away, done, passed, checkpoints, quizzes, certificate,
                 queued, bounds, histories>>

Settle(r) ==
  /\ step[r] = "settle"
  /\ StoreEnrollment(r)
  /\ Goto(r, "announce")
  /\ UNCHANGED <<home, away, done, passed, checkpoints, quizzes, certificate,
                 queued, inputs, snapshots, bounds, histories>>

\* The credentials of what was just completed go to the outbox.
Announce(r) ==
  /\ step[r] = "announce"
  /\ LET lessonCreds == IF r \in positive \ sawDone THEN {lesson[r]} ELSE {}
         courseCreds == IF /\ Verdict(r) = "completed"
                           /\ sawEnrollment[r] # "completed"
                        THEN {CourseCredential} ELSE {} IN
       queued' = queued \union lessonCreds \union courseCreds
  /\ End(r)
  /\ UNCHANGED <<tables, bounds, histories>>

-----------------------------------------------------------------------------
\* getProgress: the screen reads the course with the rows of its enrollment,
\* and stores the progress it computed; nothing is announced

BeginSync(r) ==
  /\ enrollment # "none"
  /\ Begin(r, "syncPassed", 1)
  /\ sawEnrollment' = [sawEnrollment EXCEPT ![r] = enrollment]
  /\ sawProgress' = [sawProgress EXCEPT ![r] = progress]
  /\ sawCompleted' = [sawCompleted EXCEPT ![r] = done \intersect home]
  /\ sawCheckpoints' = [sawCheckpoints EXCEPT ![r] = checkpoints]
  /\ UNCHANGED <<tables, queued, positive, elsewhere, sawDone, sawPassed,
                 crashes, histories>>

SyncPassed(r) ==
  /\ step[r] = "syncPassed"
  /\ Goto(r, "sync")
  /\ sawPassed' = [sawPassed EXCEPT ![r] = passed]
  /\ UNCHANGED <<sawEnrollment, sawProgress, sawDone, sawCheckpoints,
                 sawCompleted>>
  /\ OnlyReads

Sync(r) ==
  /\ step[r] = "sync"
  /\ StoreEnrollment(r)
  /\ End(r)
  /\ UNCHANGED <<home, away, done, passed, checkpoints, quizzes, certificate,
                 queued, bounds, histories>>

-----------------------------------------------------------------------------
\* submitQuiz

\* An attempt at an existing quiz, graded against the questions read here.
BeginQuiz(r, l, right) ==
  /\ l \in quizzes
  /\ Begin(r, "context", l)
  /\ positive' = IF right THEN positive \union {r} ELSE positive
  /\ UNCHANGED <<tables, queued, elsewhere, snapshots, crashes, histories>>

\* loadLessonContext: without an enrollment the attempt is refused (403).
ReadContext(r) ==
  /\ step[r] = "context"
  /\ \/ /\ enrollment = "none"
        /\ Refuse(r)
     \/ /\ enrollment # "none"
        /\ Goto(r, "quizDone")
        /\ sawCheckpoints' = [sawCheckpoints EXCEPT ![r] = checkpoints]
        /\ UNCHANGED <<sawEnrollment, sawProgress, sawDone, sawPassed,
                       sawCompleted>>
        /\ OnlyReads

ReadCompleted(r) ==
  /\ step[r] = "quizDone"
  /\ Goto(r, "quizPassed")
  /\ sawCompleted' = [sawCompleted EXCEPT ![r] = done]
  /\ UNCHANGED <<sawEnrollment, sawProgress, sawDone, sawCheckpoints,
                 sawPassed>>
  /\ OnlyReads

\* The lock again (423): a quiz is open when its lesson is.
CheckQuizOpen(r) ==
  /\ step[r] = "quizPassed"
  /\ LET open == lesson[r] \in Available(sawCompleted[r], passed,
                                         sawCheckpoints[r]) IN
       \/ ~ open /\ Refuse(r)
       \/ open /\ Goto(r, "answer") /\ UNCHANGED snapshots /\ OnlyReads

\* The result replaces the one of the last attempt, for better or worse.
StoreAnswer(r) ==
  /\ step[r] = "answer"
  /\ \/ /\ r \in positive
        /\ passed' = passed \union {lesson[r]}
        /\ everPassed' = everPassed \union {lesson[r]}
     \/ /\ r \notin positive
        /\ passed' = passed \ {lesson[r]}
        /\ UNCHANGED everPassed
  /\ End(r)
  /\ UNCHANGED <<enrollment, progress, home, away, done, checkpoints, quizzes,
                 certificate, queued, bounds, everDone, outside, edited,
                 contested>>

-----------------------------------------------------------------------------
\* claimCertificate

BeginClaim(r) ==
  /\ enrollment = "completed"
  /\ Begin(r, "lookup", 1)
  /\ UNCHANGED <<tables, queued, positive, elsewhere, snapshots, crashes,
                 histories>>

LookUpCertificate(r) ==
  /\ step[r] = "lookup"
  /\ \/ /\ certificate # "none"
        /\ Refuse(r)
     \/ /\ certificate = "none"
        /\ Goto(r, "issue")
        /\ UNCHANGED snapshots /\ OnlyReads

\* Mutant of IssueCertificate: without the unique key.
IssueUnkeyed(r) ==
  /\ step[r] = "issue"
  /\ certificate' = "issued"
  /\ Goto(r, "link")
  /\ UNCHANGED <<enrollment, progress, home, away, done, passed, checkpoints,
                 quizzes, queued, inputs, snapshots, bounds, histories>>

\* The unique key refuses a second certificate.
IssueCertificate(r) ==
  /\ step[r] = "issue"
  /\ \/ /\ certificate # "none"
        /\ Refuse(r)
     \/ /\ certificate = "none"
        /\ certificate' = "issued"
        /\ Goto(r, "link")
        /\ UNCHANGED <<enrollment, progress, home, away, done, passed,
                       checkpoints, quizzes, queued, inputs, snapshots,
                       bounds, histories>>

\* The download link contains the id of the row.
LinkCertificate(r) ==
  /\ step[r] = "link"
  /\ certificate' = "linked"
  /\ End(r)
  /\ UNCHANGED <<enrollment, progress, home, away, done, passed, checkpoints,
                 quizzes, queued, bounds, histories>>

-----------------------------------------------------------------------------
\* enrollFree, and the order that pays for a course: one upsert.
Enroll ==
  /\ enrollment = "none"
  /\ enrollment' = "open"
  /\ UNCHANGED <<progress, home, away, done, passed, checkpoints, quizzes,
                 certificate, queued, step, inputs, snapshots, bounds,
                 histories>>

\* createQuiz: first the lesson becomes a checkpoint ...
MarkCheckpoint(r, l) ==
  /\ Begin(r, "attach", l)
  /\ checkpoints' = checkpoints \union {l}
  /\ edited' = IF l \in checkpoints THEN edited ELSE edited \union {l}
  /\ UNCHANGED <<enrollment, progress, home, away, done, passed, quizzes,
                 certificate, queued, positive, elsewhere, snapshots, crashes,
                 everDone, everPassed, outside, contested>>

\* ... then the quiz is stored.
AttachQuiz(r) ==
  /\ step[r] = "attach"
  /\ quizzes' = quizzes \union {lesson[r]}
  /\ End(r)
  /\ UNCHANGED <<enrollment, progress, home, away, done, passed, checkpoints,
                 certificate, queued, bounds, histories>>

\* deleteQuiz: one transaction; the attempts are kept.
DeleteQuiz(l) ==
  /\ l \in quizzes
  /\ quizzes' = quizzes \ {l}
  /\ checkpoints' = checkpoints \ {l}
  /\ edited' = IF l \in checkpoints THEN edited \union {l} ELSE edited
  /\ UNCHANGED <<enrollment, progress, home, away, done, passed, certificate,
                 queued, step, inputs, snapshots, bounds, everDone,
                 everPassed, outside, contested>>

\* The process dies or a statement fails between two awaits.
DropRequest(r) ==
  /\ step[r] # "idle"
  /\ crashes < MaxCrashes
  /\ crashes' = crashes + 1
  /\ End(r)
  /\ UNCHANGED <<tables, queued, requests, histories>>

\* Nothing is under way and the bound on requests is reached; any other stop
\* is a deadlock.
Rest ==
  /\ Idle
  /\ requests = MaxRequests
  /\ UNCHANGED vars

-----------------------------------------------------------------------------
NewRequest(r) ==
  \/ \E l \in Lessons, answer \in BOOLEAN :
       \/ BeginReport(r, l, answer)
       \/ BeginStrayReport(r, l, answer)
       \/ BeginQuiz(r, l, answer)
  \/ \E l \in Lessons : MarkCheckpoint(r, l)
  \/ BeginSync(r)
  \/ BeginClaim(r)

RequestStep(r) ==
  \/ ReadExisting(r) \/ ReadLessons(r) \/ ReadPassed(r) \/ ReadPrior(r)
  \/ WriteLesson(r) \/ WriteStrayLesson(r) \/ Settle(r) \/ Announce(r)
  \/ SyncPassed(r) \/ Sync(r)
  \/ ReadContext(r) \/ ReadCompleted(r) \/ CheckQuizOpen(r) \/ StoreAnswer(r)
  \/ LookUpCertificate(r) \/ IssueCertificate(r) \/ LinkCertificate(r)
  \/ AttachQuiz(r)

Next ==
  \/ \E r \in Requests : NewRequest(r) \/ RequestStep(r) \/ DropRequest(r)
  \/ Enroll
  \/ \E l \in Lessons : DeleteQuiz(l)
  \/ Rest

Spec == Init /\ [][Next]_vars

-----------------------------------------------------------------------------
\* Properties

\* Was finished at some time: completed and, for a checkpoint that was one
\* all along, its quiz passed.
FinishedOnce(l) ==
  l \in everDone /\ (l \in checkpoints \ edited => l \in everPassed)

\* A course counts as completed, and a certificate is issued, only when every
\* lesson was finished, whatever the interleaving of reports, attempts and
\* progress reads, all of which write from snapshots (recordLessonProgress,
\* getProgress, claimCertificate).  From 200 lessons on the rounded
\* percentage reaches 100 one lesson early.
CompletionIsEarned ==
  N < 200 /\ (enrollment = "completed" \/ certificate # "none")
    => \A l \in Lessons : FinishedOnce(l)

\* The sequential lock holds against concurrent requests: a lesson was
\* completed in this course only after the one before it was finished.
LockRespected ==
  \A l \in everDone \ outside : l > 1 => FinishedOnce(l - 1)

\* "completed only ever transitions false -> true", as far as it holds: a
\* completion is lost only to a report of the same lesson that had read the
\* row before the completion was written.
LostOnlyToRival ==
  [][done \ done' \subseteq contested]_vars

\* Every lesson completed in the course was handed to the credential outbox
\* when the requests have run to their end, also when several reports
\* completed it at once.
LessonCredentialQueued ==
  Idle /\ crashes = 0 => everDone \ outside \subseteq queued

\* A learner is never locked out ("a deadlock, not a feature"): some lesson
\* is open and not satisfied, and if only its quiz is missing there is a quiz
\* to take, whatever the admin attached or removed meanwhile.
LearnerCanProceed ==
  crashes = 0 /\ (\A r \in Requests : step[r] # "attach") =>
    LET finished == Satisfied(done, passed, checkpoints) IN
      finished = Lessons
      \/ \E l \in Available(done, passed, checkpoints) \ finished :
           l \in done => l \in quizzes

\* Of concurrent claims exactly one issues the certificate, and it ends with
\* a download link.
CertificateLinked ==
  /\ Idle /\ crashes = 0 => certificate # "issued"
  /\ Cardinality({r \in Requests : step[r] = "link"}) <= 1

\* "completed only ever transitions false -> true" (recordLessonProgress).
\* It does not hold: see README.
CompletedIsMonotone ==
  [][done \subseteq done']_vars

\* "Every credential therefore has a status you can query": a completed
\* course was handed to the outbox.  It does not hold: see README.
CourseCredentialQueued ==
  Idle /\ crashes = 0 /\ enrollment = "completed"
    => CourseCredential \in queued
=============================================================================
