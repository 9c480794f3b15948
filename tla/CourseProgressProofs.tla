------------------------ MODULE CourseProgressProofs ------------------------
(***************************************************************************)
(* Course progress for any number of lessons and concurrent requests: what *)
(* the enrollment and the certificate say is earned, and the sequential    *)
(* lock holds, although every handler writes from snapshots.  And where    *)
(* the reports come from, the player, for any length of the lesson.        *)
(***************************************************************************)
EXTENDS CourseProgress, Playback, FiniteSetTheorems, WellFoundedInduction, TLAPS

-----------------------------------------------------------------------------
\* The rules

\* Counting lessons: at most N of them, and N only if they are all.
LEMMA LessonCount ==
  ASSUME NEW S \in SUBSET Lessons
  PROVE  /\ Cardinality(S) \in 0..N
         /\ Cardinality(S) = N => S = Lessons
<1>1. IsFiniteSet(Lessons) /\ Cardinality(Lessons) = N
  BY ProgressAssumption, FS_Interval DEF Lessons
<1>2. /\ IsFiniteSet(S)
      /\ Cardinality(S) <= Cardinality(Lessons)
      /\ Cardinality(S) = Cardinality(Lessons) => S = Lessons
  BY <1>1, FS_Subset
<1>3. Cardinality(S) \in Nat
  BY <1>2, FS_CardinalityType
<1>4. QED BY <1>1, <1>2, <1>3, ProgressAssumption

\* Rounding k of n lessons to a percentage.
LEMMA Rounding ==
  ASSUME NEW n \in Nat \ {0}, NEW k \in 0..n
  PROVE  /\ (200 * k + n) \div (2 * n) \in 0..100
         /\ n < 200 /\ (200 * k + n) \div (2 * n) >= 100 => k = n
<1> DEFINE q == (200 * k + n) \div (2 * n)
<1>1. /\ q \in Int
      /\ (2 * n) * q <= 200 * k + n
      /\ 200 * k + n < (2 * n) * q + 2 * n
  OBVIOUS
<1> HIDE DEF q
<1>2. q >= 0
  <2> SUFFICES ASSUME q <= -1 PROVE FALSE
    BY <1>1
  <2>1. n * q <= -n
    BY <1>1
  <2>2. QED BY <1>1, <2>1
<1>3. q <= 100
  <2> SUFFICES ASSUME q >= 101 PROVE FALSE
    BY <1>1
  <2>1. n * q >= 101 * n
    BY <1>1
  <2>2. QED BY <1>1, <2>1
<1>4. ASSUME n < 200, q >= 100 PROVE k = n
  <2>1. n * q >= 100 * n
    BY <1>1, <1>4
  <2>2. QED BY <1>1, <1>4, <2>1
<1>5. QED BY <1>1, <1>2, <1>3, <1>4 DEF q

\* The percentage is one, and 100 of it mean every lesson as long as the
\* course has fewer than 200.
LEMMA PercentIsSound ==
  ASSUME NEW S \in SUBSET Lessons
  PROVE  /\ Percent(S) \in 0..100
         /\ N < 200 /\ CourseCompleted(S) => S = Lessons
BY LessonCount, Rounding, ProgressAssumption DEF Percent, CourseCompleted

-----------------------------------------------------------------------------
\* Types

LEMMA FirstLesson == 1 \in Lessons
BY ProgressAssumption DEF Lessons

LEMMA TypeInit == Init => TypeOK
BY ProgressAssumption, FirstLesson DEF Init, TypeOK, Steps, Enrollments

\* A handler that ends leaves types as they are.
LEMMA EndTypes ==
  ASSUME TypeOK, NEW r \in Requests, End(r)
  PROVE  /\ step' \in [Requests -> Steps]
         /\ lesson' \in [Requests -> Lessons]
         /\ positive' \subseteq Requests /\ elsewhere' \subseteq Requests
         /\ sawEnrollment' \in [Requests -> Enrollments]
         /\ sawProgress' \in [Requests -> 0..100]
         /\ sawDone' \subseteq Requests
         /\ sawCheckpoints' \in [Requests -> SUBSET Lessons]
         /\ sawPassed' \in [Requests -> SUBSET Lessons]
         /\ sawCompleted' \in [Requests -> SUBSET Lessons]
BY FirstLesson DEF TypeOK, End, Steps, Enrollments

\* The update of the enrollment row keeps its types.
LEMMA StoreEnrollmentTypes ==
  ASSUME TypeOK, NEW r \in Requests, StoreEnrollment(r)
  PROVE  enrollment' \in Enrollments /\ progress' \in 0..100
<1>1. Counted(r) \in SUBSET Lessons
  BY DEF Counted, Satisfied, TypeOK
<1>2. Percent(Counted(r)) \in 0..100
  BY <1>1, PercentIsSound
<1>3. QED BY <1>2 DEF StoreEnrollment, Verdict, Enrollments, TypeOK

LEMMA StoreLessonTypes ==
  ASSUME TypeOK, NEW r \in Requests, StoreLesson(r)
  PROVE  /\ done' \subseteq Lessons /\ everDone' \subseteq Lessons
         /\ contested' \subseteq Lessons /\ outside' \subseteq Lessons
<1>1. lesson[r] \in Lessons
  BY DEF TypeOK
<1>2. QED BY <1>1 DEF StoreLesson, TypeOK

\* Each step keeps the types.
LEMMA TypeNext == TypeOK /\ [Next]_vars => TypeOK'
<1> SUFFICES ASSUME TypeOK, [Next]_vars PROVE TypeOK'
  OBVIOUS
<1> USE ProgressAssumption, FirstLesson
    DEF TypeOK, tables, inputs, snapshots, bounds, histories, Refuse, Goto,
        OnlyReads, Begin
<1>1. ASSUME NEW r \in Requests, NewRequest(r) PROVE TypeOK'
  <2> USE DEF Steps
  <2>1. ASSUME NEW l \in Lessons, NEW answer \in BOOLEAN,
               BeginReport(r, l, answer) PROVE TypeOK'
    <3>1. enrollment' \in Enrollments
      BY <2>1 DEF BeginReport, Enrollments
    <3>2. QED BY <2>1, <3>1 DEF BeginReport
  <2>2. ASSUME NEW l \in Lessons, NEW answer \in BOOLEAN,
               BeginStrayReport(r, l, answer) PROVE TypeOK'
    BY <2>2 DEF BeginStrayReport
  <2>3. ASSUME NEW l \in Lessons, NEW answer \in BOOLEAN,
               BeginQuiz(r, l, answer) PROVE TypeOK'
    BY <2>3 DEF BeginQuiz
  <2>4. ASSUME NEW l \in Lessons, MarkCheckpoint(r, l) PROVE TypeOK'
    BY <2>4 DEF MarkCheckpoint
  <2>5. CASE BeginSync(r)
    BY <2>5 DEF BeginSync
  <2>6. CASE BeginClaim(r)
    BY <2>6 DEF BeginClaim
  <2>7. QED BY <1>1, <2>1, <2>2, <2>3, <2>4, <2>5, <2>6 DEF NewRequest
<1>2. ASSUME NEW r \in Requests, RequestStep(r) PROVE TypeOK'
  <2>1. CASE ReadExisting(r)
    BY <2>1 DEF ReadExisting, Steps
  <2>2. CASE ReadLessons(r)
    BY <2>2 DEF ReadLessons, Steps
  <2>3. CASE ReadPassed(r)
    BY <2>3 DEF ReadPassed, Steps
  <2>4. CASE ReadPrior(r)
    <3>1. CASE Refuse(r)
      BY <3>1, EndTypes
    <3>2. CASE ~ Locked(r, done)
      BY <2>4, <3>1, <3>2 DEF ReadPrior, Steps
    <3>3. QED BY <2>4, <3>1, <3>2 DEF ReadPrior
  <2>5. CASE WriteLesson(r)
    BY <2>5, StoreLessonTypes DEF WriteLesson, Steps
  <2>6. CASE WriteStrayLesson(r)
    BY <2>6, StoreLessonTypes, EndTypes DEF WriteStrayLesson
  <2>7. CASE Settle(r)
    BY <2>7, StoreEnrollmentTypes DEF Settle, Steps
  <2>8. CASE Announce(r)
    BY <2>8, EndTypes DEF Announce
  <2>9. CASE SyncPassed(r)
    BY <2>9 DEF SyncPassed, Steps
  <2>10. CASE Sync(r)
    BY <2>10, StoreEnrollmentTypes, EndTypes DEF Sync
  <2>11. CASE ReadContext(r)
    <3>1. CASE Refuse(r)
      BY <3>1, EndTypes
    <3>2. CASE enrollment # "none"
      BY <2>11, <3>1, <3>2 DEF ReadContext, Steps
    <3>3. QED BY <2>11, <3>1, <3>2 DEF ReadContext
  <2>12. CASE ReadCompleted(r)
    BY <2>12 DEF ReadCompleted, Steps
  <2>13. CASE CheckQuizOpen(r)
    <3>1. CASE Refuse(r)
      BY <3>1, EndTypes
    <3>2. CASE Goto(r, "answer") /\ UNCHANGED snapshots /\ OnlyReads
      BY <3>2 DEF Steps
    <3>3. QED BY <2>13, <3>1, <3>2 DEF CheckQuizOpen
  <2>14. CASE StoreAnswer(r)
    BY <2>14, EndTypes DEF StoreAnswer
  <2>15. CASE LookUpCertificate(r)
    <3>1. CASE Refuse(r)
      BY <3>1, EndTypes
    <3>2. CASE certificate = "none"
      BY <2>15, <3>1, <3>2 DEF LookUpCertificate, Steps
    <3>3. QED BY <2>15, <3>1, <3>2 DEF LookUpCertificate
  <2>16. CASE IssueCertificate(r)
    <3>1. CASE Refuse(r)
      BY <3>1, EndTypes
    <3>2. CASE certificate = "none"
      BY <2>16, <3>1, <3>2 DEF IssueCertificate, Steps
    <3>3. QED BY <2>16, <3>1, <3>2 DEF IssueCertificate
  <2>17. CASE LinkCertificate(r)
    BY <2>17, EndTypes DEF LinkCertificate
  <2>18. CASE AttachQuiz(r)
    BY <2>18, EndTypes DEF AttachQuiz
  <2>19. QED
    BY <1>2, <2>1, <2>2, <2>3, <2>4, <2>5, <2>6, <2>7, <2>8, <2>9, <2>10,
       <2>11, <2>12, <2>13, <2>14, <2>15, <2>16, <2>17, <2>18
    DEF RequestStep
<1>3. ASSUME NEW r \in Requests, DropRequest(r) PROVE TypeOK'
  BY <1>3, EndTypes DEF DropRequest
<1>4. CASE Enroll
  BY <1>4 DEF Enroll, Enrollments
<1>5. ASSUME NEW l \in Lessons, DeleteQuiz(l) PROVE TypeOK'
  BY <1>5 DEF DeleteQuiz
<1>6. CASE UNCHANGED vars
  BY <1>6 DEF vars
<1>7. QED
  BY <1>1, <1>2, <1>3, <1>4, <1>5, <1>6 DEF Next, Rest

\* Every variable keeps its type, the rounded percentages among them.
THEOREM TypeCorrect == Spec => []TypeOK
BY TypeInit, TypeNext, PTL DEF Spec

-----------------------------------------------------------------------------
\* Snapshots against histories

\* The lessons known to be checkpoints all along.
Unedited == checkpoints \ edited

HistoryStep ==
  /\ everDone \subseteq everDone' /\ everPassed \subseteq everPassed'
  /\ outside \subseteq outside' /\ contested \subseteq contested'
  /\ Unedited' \subseteq Unedited

\* What was once completed or passed stays so in the histories, and no
\* lesson joins the unedited checkpoints.
LEMMA HistoriesGrow == TypeOK /\ [Next]_vars => HistoryStep
<1> SUFFICES ASSUME TypeOK, [Next]_vars PROVE HistoryStep
  OBVIOUS
<1> USE DEF tables, histories, Refuse, OnlyReads, Unedited, HistoryStep
<1>1. ASSUME NEW r \in Requests, NewRequest(r) PROVE HistoryStep
  BY <1>1
  DEF NewRequest, BeginReport, BeginStrayReport, BeginQuiz, MarkCheckpoint,
      BeginSync, BeginClaim
<1>2. ASSUME NEW r \in Requests,
             \/ ReadExisting(r) \/ ReadLessons(r) \/ ReadPassed(r)
             \/ ReadPrior(r) \/ Settle(r) \/ Announce(r) \/ SyncPassed(r)
             \/ Sync(r) \/ ReadContext(r) \/ ReadCompleted(r)
             \/ CheckQuizOpen(r) \/ LookUpCertificate(r)
             \/ IssueCertificate(r) \/ LinkCertificate(r) \/ AttachQuiz(r)
      PROVE HistoryStep
  BY <1>2
  DEF ReadExisting, ReadLessons, ReadPassed, ReadPrior, Settle, Announce,
      SyncPassed, Sync, ReadContext, ReadCompleted, CheckQuizOpen,
      LookUpCertificate, IssueCertificate, LinkCertificate, AttachQuiz
<1>3. ASSUME NEW r \in Requests,
             WriteLesson(r) \/ WriteStrayLesson(r) \/ StoreAnswer(r)
      PROVE HistoryStep
  BY <1>3 DEF WriteLesson, WriteStrayLesson, StoreLesson, StoreAnswer
<1>4. ASSUME NEW r \in Requests, DropRequest(r) PROVE HistoryStep
  BY <1>4 DEF DropRequest
<1>5. CASE Enroll
  BY <1>5 DEF Enroll
<1>6. ASSUME NEW l \in Lessons, DeleteQuiz(l) PROVE HistoryStep
  BY <1>6 DEF DeleteQuiz
<1>7. CASE UNCHANGED vars
  BY <1>7 DEF vars
<1>8. QED
  BY <1>1, <1>2, <1>3, <1>4, <1>5, <1>6, <1>7 DEF Next, RequestStep, Rest

\* Steps at which a handler holds a list of the course's lessons.
Informed == {"passed", "prior", "write", "settle", "announce",
             "syncPassed", "sync", "quizDone", "quizPassed"}

\* What r has read was true once.
Honest(r) ==
  /\ sawCompleted[r] \subseteq everDone
  /\ sawPassed[r] \subseteq everPassed
  /\ r \in sawDone => lesson[r] \in everDone /\ step[r] # "idle"
  /\ r \in elsewhere => step[r] \in {"existing", "write"}
  /\ step[r] \in Informed /\ r \notin elsewhere
       => Unedited \subseteq sawCheckpoints[r]

HonestInv ==
  /\ done \subseteq everDone
  /\ passed \subseteq everPassed
  /\ \A r \in Requests : Honest(r)

LEMMA HonestInit == Init => HonestInv
BY DEF Init, HonestInv, Honest, Informed

\* A handler that ends keeps nothing it could be wrong about.
LEMMA EndHonest ==
  ASSUME TypeOK, HonestInv, HistoryStep, NEW r \in Requests, End(r)
  PROVE  \A q \in Requests : Honest(q)'
<1> SUFFICES ASSUME NEW q \in Requests PROVE Honest(q)'
  OBVIOUS
<1>1. CASE q = r
  BY <1>1 DEF End, Honest, Informed, TypeOK
<1>2. CASE q # r
  <2>1. /\ step'[q] = step[q] /\ lesson'[q] = lesson[q]
        /\ sawCompleted'[q] = sawCompleted[q]
        /\ sawPassed'[q] = sawPassed[q]
        /\ sawCheckpoints'[q] = sawCheckpoints[q]
        /\ q \in sawDone' <=> q \in sawDone
        /\ q \in elsewhere' <=> q \in elsewhere
    BY <1>2 DEF End, TypeOK
  <2>2. QED BY <2>1 DEF Honest, HonestInv, HistoryStep
<1>3. QED BY <1>1, <1>2

LEMMA HonestNext == TypeOK /\ HonestInv /\ [Next]_vars => HonestInv'
<1> SUFFICES ASSUME TypeOK, HonestInv, [Next]_vars PROVE HonestInv'
  OBVIOUS
<1>0. HistoryStep
  BY HistoriesGrow
\* The tables: completions and passes are recorded as they are written.
<1>1. done' \subseteq everDone' /\ passed' \subseteq everPassed'
  <2> USE <1>0 DEF HonestInv, HistoryStep, tables, Refuse, OnlyReads
  <2>1. ASSUME NEW r \in Requests, NewRequest(r)
        PROVE done' = done /\ passed' = passed
    BY <2>1
    DEF NewRequest, BeginReport, BeginStrayReport, BeginQuiz, MarkCheckpoint,
        BeginSync, BeginClaim
  <2>2. ASSUME NEW r \in Requests,
               \/ ReadExisting(r) \/ ReadLessons(r) \/ ReadPassed(r)
               \/ ReadPrior(r) \/ Settle(r) \/ Announce(r) \/ SyncPassed(r)
               \/ Sync(r) \/ ReadContext(r) \/ ReadCompleted(r)
               \/ CheckQuizOpen(r) \/ LookUpCertificate(r)
               \/ IssueCertificate(r) \/ LinkCertificate(r) \/ AttachQuiz(r)
        PROVE done' = done /\ passed' = passed
    BY <2>2
    DEF ReadExisting, ReadLessons, ReadPassed, ReadPrior, Settle, Announce,
        SyncPassed, Sync, ReadContext, ReadCompleted, CheckQuizOpen,
        LookUpCertificate, IssueCertificate, LinkCertificate, AttachQuiz
  <2>3. ASSUME NEW r \in Requests, WriteLesson(r) \/ WriteStrayLesson(r)
        PROVE done' \subseteq everDone' /\ passed' = passed
    BY <2>3 DEF WriteLesson, WriteStrayLesson, StoreLesson
  <2>4. ASSUME NEW r \in Requests, StoreAnswer(r)
        PROVE done' = done /\ passed' \subseteq everPassed'
    BY <2>4 DEF StoreAnswer
  <2>5. ASSUME NEW r \in Requests, DropRequest(r)
        PROVE done' = done /\ passed' = passed
    BY <2>5 DEF DropRequest
  <2>6. CASE Enroll
    BY <2>6 DEF Enroll
  <2>7. ASSUME NEW l \in Lessons, DeleteQuiz(l)
        PROVE done' = done /\ passed' = passed
    BY <2>7 DEF DeleteQuiz
  <2>8. CASE UNCHANGED vars
    BY <2>8 DEF vars
  <2>9. QED
    BY <2>1, <2>2, <2>3, <2>4, <2>5, <2>6, <2>7, <2>8
    DEF Next, RequestStep, Rest
\* The snapshots: they are taken from those tables.
<1>2. \A q \in Requests : Honest(q)'
  <2> SUFFICES ASSUME NEW q \in Requests PROVE Honest(q)'
    OBVIOUS
  <2> USE <1>0 DEF HonestInv, HistoryStep, TypeOK
  <2>1. ASSUME NEW r \in Requests, NewRequest(r) PROVE Honest(q)'
    <3> USE DEF Begin, snapshots, histories, Honest, Informed
    <3>1. ASSUME NEW l \in Lessons, NEW answer \in BOOLEAN,
                 BeginReport(r, l, answer) PROVE Honest(q)'
      BY <3>1 DEF BeginReport
    <3>2. ASSUME NEW l \in Lessons, NEW answer \in BOOLEAN,
                 BeginStrayReport(r, l, answer) PROVE Honest(q)'
      BY <3>2 DEF BeginStrayReport
    <3>3. ASSUME NEW l \in Lessons, NEW answer \in BOOLEAN,
                 BeginQuiz(r, l, answer) PROVE Honest(q)'
      BY <3>3 DEF BeginQuiz
    <3>4. ASSUME NEW l \in Lessons, MarkCheckpoint(r, l) PROVE Honest(q)'
      BY <3>4 DEF MarkCheckpoint
    <3>5. CASE BeginSync(r)
      BY <3>5 DEF BeginSync, Unedited, tables
    <3>6. CASE BeginClaim(r)
      BY <3>6 DEF BeginClaim
    <3>7. QED BY <2>1, <3>1, <3>2, <3>3, <3>4, <3>5, <3>6 DEF NewRequest
  <2>2. ASSUME NEW r \in Requests, RequestStep(r) PROVE Honest(q)'
    <3>1. CASE End(r)
      BY <3>1, EndHonest
    <3> USE DEF Goto, OnlyReads, inputs, snapshots, tables, histories, Honest,
                Informed, Refuse
    <3>2. CASE ReadExisting(r)
      BY <3>2 DEF ReadExisting
    <3>3. CASE ReadLessons(r)
      BY <3>3 DEF ReadLessons, Unedited
    <3>4. CASE ReadPassed(r)
      BY <3>4 DEF ReadPassed
    <3>5. CASE ReadPrior(r)
      BY <3>1, <3>5 DEF ReadPrior
    <3>6. CASE WriteLesson(r)
      BY <3>6 DEF WriteLesson, StoreLesson, NextCompleted
    <3>7. CASE Settle(r)
      BY <3>7 DEF Settle
    <3>8. CASE SyncPassed(r)
      BY <3>8 DEF SyncPassed
    <3>9. CASE ReadContext(r)
      BY <3>1, <3>9 DEF ReadContext, Unedited
    <3>10. CASE ReadCompleted(r)
      BY <3>10 DEF ReadCompleted
    <3>11. CASE CheckQuizOpen(r)
      BY <3>1, <3>11 DEF CheckQuizOpen
    <3>12. CASE LookUpCertificate(r)
      BY <3>1, <3>12 DEF LookUpCertificate
    <3>13. CASE IssueCertificate(r)
      BY <3>1, <3>13 DEF IssueCertificate
    <3>14. QED
      BY <2>2, <3>1, <3>2, <3>3, <3>4, <3>5, <3>6, <3>7, <3>8, <3>9, <3>10,
         <3>11, <3>12, <3>13
      DEF RequestStep, WriteStrayLesson, Announce, Sync, StoreAnswer,
          LinkCertificate, AttachQuiz
  <2>3. ASSUME NEW r \in Requests, DropRequest(r) PROVE Honest(q)'
    BY <2>3, EndHonest DEF DropRequest
  <2>4. ASSUME UNCHANGED <<step, inputs, snapshots>> PROVE Honest(q)'
    BY <2>4 DEF Honest, inputs, snapshots
  <2>5. QED
    BY <2>1, <2>2, <2>3, <2>4 DEF Next, Rest, Enroll, DeleteQuiz, vars
<1>3. QED BY <1>1, <1>2 DEF HonestInv

THEOREM HonestReads == Spec => []HonestInv
BY HonestInit, HonestNext, TypeCorrect, PTL DEF Spec

-----------------------------------------------------------------------------
\* Completion is earned

AllFinished == \A l \in Lessons : FinishedOnce(l)

\* The course counts as completed somewhere: in the enrollment, in a
\* certificate, or for a handler that is about to issue one.
Reached ==
  \/ enrollment = "completed"
  \/ certificate # "none"
  \/ \E r \in Requests : step[r] \in {"lookup", "issue", "link"}

EarnedInv == N < 200 /\ Reached => AllFinished

LEMMA FinishedStays ==
  ASSUME HistoryStep, NEW l, FinishedOnce(l)
  PROVE  FinishedOnce(l)'
BY DEF HistoryStep, FinishedOnce, Unedited

\* A handler finds the course completed only if it is.
LEMMA VerdictIsEarned ==
  ASSUME TypeOK, HonestInv, N < 200, NEW r \in Requests,
         step[r] \in {"settle", "sync"}, Verdict(r) = "completed"
  PROVE  AllFinished
<1>1. Counted(r) \in SUBSET Lessons
  BY DEF Counted, Satisfied, TypeOK
<1>2. CourseCompleted(Counted(r))
  BY DEF Verdict
<1>3. Counted(r) = Lessons
  BY <1>1, <1>2, PercentIsSound
<1>4. /\ sawCompleted[r] \subseteq everDone
      /\ sawPassed[r] \subseteq everPassed
      /\ Unedited \subseteq sawCheckpoints[r]
  BY DEF HonestInv, Honest, Informed
<1>5. QED
  BY <1>3, <1>4 DEF Counted, Satisfied, AllFinished, FinishedOnce, Unedited

\* Nothing is reached that was not, unless it is earned.
LEMMA ReachedIsEarned ==
  ASSUME TypeOK, HonestInv, N < 200, [Next]_vars, Reached'
  PROVE  Reached \/ AllFinished
<1> USE DEF Reached, TypeOK
<1>1. ASSUME NEW r \in Requests, End(r),
             certificate' = certificate \/ step[r] = "link",
             enrollment' = enrollment
      PROVE Reached
  BY <1>1 DEF End
<1>2. ASSUME NEW r \in Requests, NewRequest(r) PROVE Reached
  <2> USE DEF Begin, tables
  <2>1. ASSUME NEW l \in Lessons, NEW answer \in BOOLEAN,
               BeginReport(r, l, answer) PROVE Reached
    BY <2>1 DEF BeginReport
  <2>2. ASSUME NEW l \in Lessons, NEW answer \in BOOLEAN,
               BeginStrayReport(r, l, answer) PROVE Reached
    BY <2>2 DEF BeginStrayReport
  <2>3. ASSUME NEW l \in Lessons, NEW answer \in BOOLEAN,
               BeginQuiz(r, l, answer) PROVE Reached
    BY <2>3 DEF BeginQuiz
  <2>4. ASSUME NEW l \in Lessons, MarkCheckpoint(r, l) PROVE Reached
    BY <2>4 DEF MarkCheckpoint
  <2>5. CASE BeginSync(r)
    BY <2>5 DEF BeginSync
  <2>6. CASE BeginClaim(r)
    BY <2>6 DEF BeginClaim
  <2>7. QED BY <1>2, <2>1, <2>2, <2>3, <2>4, <2>5, <2>6 DEF NewRequest
<1>3. ASSUME NEW r \in Requests, RequestStep(r) PROVE Reached \/ AllFinished
  <2> USE DEF Goto, OnlyReads, tables, Refuse
  <2>1. CASE ReadExisting(r) \/ ReadLessons(r) \/ ReadPassed(r)
    BY <2>1 DEF ReadExisting, ReadLessons, ReadPassed
  <2>2. CASE SyncPassed(r) \/ ReadCompleted(r)
    BY <2>2 DEF SyncPassed, ReadCompleted
  <2>3. CASE ReadPrior(r)
    BY <1>1, <2>3 DEF ReadPrior
  <2>4. CASE ReadContext(r)
    BY <1>1, <2>4 DEF ReadContext
  <2>5. CASE CheckQuizOpen(r)
    BY <1>1, <2>5 DEF CheckQuizOpen
  <2>6. CASE WriteLesson(r)
    BY <2>6 DEF WriteLesson
  <2>7. CASE Settle(r) \/ Sync(r)
    <3>1. CASE Verdict(r) = "completed"
      BY <2>7, <3>1, VerdictIsEarned DEF Settle, Sync
    <3>2. CASE enrollment' # "completed"
      BY <2>7, <3>2 DEF Settle, Sync, End
    <3>3. CASE enrollment' = enrollment
      BY <2>7, <3>3 DEF Settle, Sync, End
    <3>4. QED BY <2>7, <3>1, <3>2, <3>3 DEF Settle, Sync, StoreEnrollment
  <2>8. CASE WriteStrayLesson(r) \/ Announce(r) \/ StoreAnswer(r)
             \/ AttachQuiz(r)
    BY <1>1, <2>8 DEF WriteStrayLesson, Announce, StoreAnswer, AttachQuiz
  <2>9. CASE LookUpCertificate(r) \/ IssueCertificate(r) \/ LinkCertificate(r)
    BY <2>9 DEF LookUpCertificate, IssueCertificate, LinkCertificate
  <2>10. QED
    BY <1>3, <2>1, <2>2, <2>3, <2>4, <2>5, <2>6, <2>7, <2>8, <2>9
    DEF RequestStep
<1>4. ASSUME NEW r \in Requests, DropRequest(r) PROVE Reached
  BY <1>1, <1>4 DEF DropRequest, tables
<1>5. ASSUME step' = step, certificate' = certificate,
             enrollment' = enrollment \/ enrollment' = "open"
      PROVE Reached
  BY <1>5
<1>6. QED
  BY <1>2, <1>3, <1>4, <1>5 DEF Next, Rest, Enroll, DeleteQuiz, vars, tables

LEMMA EarnedNext == TypeOK /\ HonestInv /\ EarnedInv /\ [Next]_vars => EarnedInv'
<1> SUFFICES ASSUME TypeOK, HonestInv, EarnedInv, [Next]_vars, N < 200, Reached'
             PROVE  AllFinished'
  BY DEF EarnedInv
<1>1. AllFinished
  BY ReachedIsEarned DEF EarnedInv
<1>2. HistoryStep
  BY HistoriesGrow
<1>3. QED BY <1>1, <1>2, FinishedStays DEF AllFinished

\* The enrollment says completed, and a certificate is issued, only if every
\* lesson was finished: for every number of lessons below 200, of concurrent
\* requests and of crashes.
THEOREM CompletionEarned == Spec => []CompletionIsEarned
<1>1. Init => EarnedInv
  BY DEF Init, EarnedInv, Reached
<1>2. EarnedInv => CompletionIsEarned
  BY DEF EarnedInv, CompletionIsEarned, Reached, AllFinished
<1>3. QED
  BY <1>1, <1>2, EarnedNext, TypeCorrect, HonestReads, PTL DEF Spec

-----------------------------------------------------------------------------
\* The sequential lock

\* A report that passed the lock and is about to complete its lesson.
Unlocked(r) ==
  /\ step[r] = "write" /\ r \notin elsewhere
  /\ r \in positive /\ r \notin sawDone
  /\ lesson[r] > 1

\* The lesson before it was finished, or its own lesson had been completed
\* under another course.
LockInv ==
  /\ LockRespected
  /\ \A r \in Requests :
       Unlocked(r) => FinishedOnce(lesson[r] - 1) \/ lesson[r] \in outside

\* The lesson before an open lesson is satisfied, or the lesson is completed.
LEMMA OpenAfterSatisfied ==
  ASSUME NEW c, NEW p, NEW k, NEW l \in Available(c, p, k), l > 1
  PROVE  l - 1 \in Satisfied(c, p, k) \/ l \in c
BY ProgressAssumption DEF Available, Lessons

\* The lock is checked against snapshots, each of which was true once.
LEMMA LockChecked ==
  ASSUME TypeOK, HonestInv, LockInv, NEW r \in Requests,
         step[r] = "prior", r \in positive, r \notin sawDone, lesson[r] > 1,
         ~ Locked(r, done)
  PROVE  FinishedOnce(lesson[r] - 1) \/ lesson[r] \in outside
<1> DEFINE l == lesson[r]
<1>1. l \in Available(done, sawPassed[r], sawCheckpoints[r])
  BY DEF Locked
<1>2. CASE l \in done
  BY <1>2 DEF HonestInv, LockInv, LockRespected
<1>3. CASE l - 1 \in Satisfied(done, sawPassed[r], sawCheckpoints[r])
  <2>1. /\ done \subseteq everDone
        /\ sawPassed[r] \subseteq everPassed
        /\ Unedited \subseteq sawCheckpoints[r]
    BY DEF HonestInv, Honest, Informed
  <2>2. QED BY <1>3, <2>1 DEF Satisfied, FinishedOnce, Unedited
<1>4. QED BY <1>1, <1>2, <1>3, OpenAfterSatisfied

LEMMA LockInit == Init => LockInv
BY DEF Init, LockInv, LockRespected, Unlocked

\* A step that completes nothing new leaves the order as it is.
LEMMA LockStays ==
  ASSUME HistoryStep, LockInv, everDone' \ outside' \subseteq everDone \ outside
  PROVE  LockRespected'
BY FinishedStays DEF LockInv, LockRespected

LEMMA LockNext == TypeOK /\ HonestInv /\ LockInv /\ [Next]_vars => LockInv'
<1> SUFFICES ASSUME TypeOK, HonestInv, LockInv, [Next]_vars PROVE LockInv'
  OBVIOUS
<1>0. HistoryStep
  BY HistoriesGrow
\* Completions: by a report that passed the lock, or was not the first.
<1>1. LockRespected'
  <2> USE DEF tables, histories, Refuse, OnlyReads
  <2>1. ASSUME NEW r \in Requests, WriteLesson(r) PROVE LockRespected'
    <3> DEFINE l == lesson[r]
    <3>1. /\ everDone' \subseteq everDone \union {l}
          /\ outside' = outside
      BY <2>1 DEF WriteLesson, StoreLesson
    <3>2. CASE l \in everDone \/ everDone' = everDone
      BY <1>0, <3>1, <3>2, LockStays
    <3>3. CASE l \notin everDone /\ everDone' # everDone
      <4>1. r \notin sawDone
        BY <3>3 DEF HonestInv, Honest
      <4>2. r \in positive
        BY <2>1, <3>3, <4>1 DEF WriteLesson, StoreLesson, NextCompleted
      <4>3. l > 1 => FinishedOnce(l - 1) \/ l \in outside
        BY <2>1, <4>1, <4>2 DEF LockInv, Unlocked, WriteLesson
      <4>4. SUFFICES ASSUME NEW m \in everDone' \ outside', m > 1
                     PROVE  FinishedOnce(m - 1)'
        BY DEF LockRespected
      <4>5. FinishedOnce(m - 1)
        BY <3>1, <4>3, <4>4 DEF LockInv, LockRespected
      <4>6. QED BY <1>0, <4>5, FinishedStays
    <3>4. QED BY <3>2, <3>3
  <2>2. ASSUME NEW r \in Requests, WriteStrayLesson(r)
        PROVE everDone' \ outside' \subseteq everDone \ outside
    <3>1. r \in elsewhere
      BY <2>2 DEF WriteStrayLesson
    <3>2. r \in sawDone => lesson[r] \in everDone
      BY DEF HonestInv, Honest
    <3>3. QED BY <2>2, <3>1, <3>2 DEF WriteStrayLesson, StoreLesson
  <2>3. ASSUME NEW r \in Requests, NewRequest(r)
        PROVE everDone' = everDone /\ outside' = outside
    BY <2>3
    DEF NewRequest, BeginReport, BeginStrayReport, BeginQuiz, MarkCheckpoint,
        BeginSync, BeginClaim
  <2>4. ASSUME NEW r \in Requests,
               \/ ReadExisting(r) \/ ReadLessons(r) \/ ReadPassed(r)
               \/ ReadPrior(r) \/ Settle(r) \/ Announce(r) \/ SyncPassed(r)
               \/ Sync(r) \/ ReadContext(r) \/ ReadCompleted(r)
               \/ CheckQuizOpen(r) \/ StoreAnswer(r) \/ LookUpCertificate(r)
               \/ IssueCertificate(r) \/ LinkCertificate(r) \/ AttachQuiz(r)
               \/ DropRequest(r)
        PROVE everDone' = everDone /\ outside' = outside
    BY <2>4
    DEF ReadExisting, ReadLessons, ReadPassed, ReadPrior, Settle, Announce,
        SyncPassed, Sync, ReadContext, ReadCompleted, CheckQuizOpen,
        StoreAnswer, LookUpCertificate, IssueCertificate, LinkCertificate,
        AttachQuiz, DropRequest
  <2>5. ASSUME NEW l \in Lessons, DeleteQuiz(l)
        PROVE everDone' = everDone /\ outside' = outside
    BY <2>5 DEF DeleteQuiz
  <2>6. CASE Enroll \/ UNCHANGED vars
    BY <1>0, <2>6, LockStays DEF Enroll, vars
  <2>7. QED
    BY <1>0, <2>1, <2>2, <2>3, <2>4, <2>5, <2>6, LockStays
    DEF Next, RequestStep, Rest
\* Reports past the lock: only ReadPrior adds one.
<1>2. ASSUME NEW q \in Requests, Unlocked(q)'
      PROVE  (FinishedOnce(lesson[q] - 1) \/ lesson[q] \in outside)'
  <2>1. SUFFICES /\ FinishedOnce(lesson[q] - 1) \/ lesson[q] \in outside
                 /\ lesson'[q] = lesson[q]
    BY <1>0, FinishedStays DEF HistoryStep
  <2> USE <1>2 DEF Unlocked, TypeOK
  <2>2. ASSUME /\ step'[q] = step[q] /\ lesson'[q] = lesson[q]
               /\ q \in positive' => q \in positive
               /\ q \in sawDone => q \in sawDone'
               /\ q \in elsewhere => q \in elsewhere'
        PROVE  /\ FinishedOnce(lesson[q] - 1) \/ lesson[q] \in outside
               /\ lesson'[q] = lesson[q]
    BY <2>2 DEF LockInv
  <2>3. ASSUME NEW r \in Requests, End(r)
        PROVE  /\ FinishedOnce(lesson[q] - 1) \/ lesson[q] \in outside
               /\ lesson'[q] = lesson[q]
    BY <2>2, <2>3 DEF End
  <2>4. ASSUME NEW r \in Requests, NewRequest(r)
        PROVE  /\ FinishedOnce(lesson[q] - 1) \/ lesson[q] \in outside
               /\ lesson'[q] = lesson[q]
    BY <2>2, <2>4
    DEF NewRequest, BeginReport, BeginStrayReport, BeginQuiz, MarkCheckpoint,
        BeginSync, BeginClaim, Begin, snapshots
  <2>5. ASSUME NEW r \in Requests, RequestStep(r)
        PROVE  /\ FinishedOnce(lesson[q] - 1) \/ lesson[q] \in outside
               /\ lesson'[q] = lesson[q]
    <3> USE DEF Goto, OnlyReads, inputs, snapshots, Refuse
    <3>1. CASE ReadPrior(r)
      <4>1. CASE Refuse(r)
        BY <2>3, <4>1
      <4>2. CASE ~ Locked(r, done) /\ q = r
        BY <3>1, <4>2, LockChecked, <2>3 DEF ReadPrior
      <4>3. CASE ~ Locked(r, done) /\ q # r
        BY <3>1, <4>3, <2>2, <2>3 DEF ReadPrior
      <4>4. QED BY <3>1, <4>1, <4>2, <4>3 DEF ReadPrior
    <3>2. CASE ReadExisting(r)
      BY <3>2, <2>2 DEF ReadExisting
    <3>3. CASE ReadLessons(r) \/ ReadPassed(r) \/ SyncPassed(r)
               \/ ReadCompleted(r)
      BY <3>3, <2>2 DEF ReadLessons, ReadPassed, SyncPassed, ReadCompleted
    <3>4. CASE WriteLesson(r) \/ Settle(r)
      BY <3>4, <2>2 DEF WriteLesson, Settle
    <3>5. CASE ReadContext(r) \/ CheckQuizOpen(r)
      BY <3>5, <2>2, <2>3 DEF ReadContext, CheckQuizOpen
    <3>6. CASE LookUpCertificate(r) \/ IssueCertificate(r)
      BY <3>6, <2>2, <2>3 DEF LookUpCertificate, IssueCertificate
    <3>7. QED
      BY <2>5, <2>3, <3>1, <3>2, <3>3, <3>4, <3>5, <3>6
      DEF RequestStep, WriteStrayLesson, Announce, Sync, StoreAnswer,
          LinkCertificate, AttachQuiz
  <2>6. ASSUME UNCHANGED <<step, inputs, snapshots>>
        PROVE  /\ FinishedOnce(lesson[q] - 1) \/ lesson[q] \in outside
               /\ lesson'[q] = lesson[q]
    BY <2>2, <2>6 DEF inputs, snapshots
  <2>7. QED
    BY <2>3, <2>4, <2>5, <2>6
    DEF Next, DropRequest, Rest, Enroll, DeleteQuiz, vars
<1>3. QED BY <1>1, <1>2 DEF LockInv

\* A lesson is completed in the course only after the one before it was
\* finished, for every number of lessons and of concurrent requests.
THEOREM LockHolds == Spec => []LockRespected
<1>1. LockInv => LockRespected
  BY DEF LockInv
<1>2. QED BY <1>1, LockInit, LockNext, TypeCorrect, HonestReads, PTL DEF Spec

-----------------------------------------------------------------------------
\* Lost completions

\* A report that read its lesson as not completed, while it is by now, has a
\* contested completion before it.
RivalInv ==
  \A r \in Requests :
    Reporting(r) /\ r \notin sawDone /\ lesson[r] \in done
      => lesson[r] \in contested

LEMMA RivalInit == Init => RivalInv
BY DEF Init, RivalInv, Reporting

LEMMA RivalNext == TypeOK /\ RivalInv /\ [Next]_vars => RivalInv'
<1> SUFFICES ASSUME TypeOK, RivalInv, [Next]_vars,
                    NEW q \in Requests, Reporting(q)', q \notin sawDone',
                    (lesson[q] \in done)'
             PROVE  (lesson[q] \in contested)'
  BY DEF RivalInv
<1>0. HistoryStep
  BY HistoriesGrow
<1> USE <1>0 DEF RivalInv, Reporting, HistoryStep, TypeOK
<1>1. ASSUME done' \subseteq done,
             step'[q] = step[q] \/ (Reporting(q) /\ Reporting(q)'),
             lesson'[q] = lesson[q], q \in sawDone => q \in sawDone'
      PROVE lesson'[q] \in contested'
  BY <1>1
<1>2. ASSUME NEW r \in Requests, End(r), done' = done
      PROVE lesson'[q] \in contested'
  BY <1>2 DEF End
<1>3. ASSUME NEW r \in Requests, NewRequest(r)
      PROVE lesson'[q] \in contested'
  BY <1>3, <1>1
  DEF NewRequest, BeginReport, BeginStrayReport, BeginQuiz, MarkCheckpoint,
      BeginSync, BeginClaim, Begin, snapshots, tables
\* Only a write completes a lesson, and it marks those it overtakes.
<1>4. ASSUME NEW r \in Requests, WriteLesson(r) \/ WriteStrayLesson(r)
      PROVE lesson'[q] \in contested'
  <2>1. /\ q # r /\ Reporting(q) /\ lesson'[q] = lesson[q]
        /\ q \notin sawDone
    BY <1>4 DEF WriteLesson, WriteStrayLesson, Goto, End, inputs
  <2>2. CASE NextCompleted(r) /\ lesson[q] = lesson[r]
    BY <1>4, <2>1, <2>2 DEF WriteLesson, WriteStrayLesson, StoreLesson
  <2>3. CASE ~ NextCompleted(r) \/ lesson[q] # lesson[r]
    <3>1. lesson[q] \in done
      BY <1>4, <2>1, <2>3 DEF WriteLesson, WriteStrayLesson, StoreLesson
    <3>2. QED BY <2>1, <3>1
  <2>4. QED BY <2>2, <2>3
<1>5. ASSUME NEW r \in Requests, RequestStep(r)
      PROVE lesson'[q] \in contested'
  <2> USE DEF Goto, OnlyReads, inputs, snapshots, tables, Refuse
  <2>1. CASE ReadExisting(r)
    BY <1>1, <2>1 DEF ReadExisting
  <2>2. CASE ReadLessons(r) \/ ReadPassed(r)
    BY <1>1, <2>2 DEF ReadLessons, ReadPassed
  <2>3. CASE ReadPrior(r)
    BY <1>1, <1>2, <2>3 DEF ReadPrior
  <2>4. CASE Settle(r) \/ SyncPassed(r) \/ ReadCompleted(r)
    BY <1>1, <2>4 DEF Settle, SyncPassed, ReadCompleted
  <2>5. CASE ReadContext(r) \/ CheckQuizOpen(r)
    BY <1>1, <1>2, <2>5 DEF ReadContext, CheckQuizOpen
  <2>6. CASE LookUpCertificate(r) \/ IssueCertificate(r)
    BY <1>1, <1>2, <2>6 DEF LookUpCertificate, IssueCertificate
  <2>7. CASE Announce(r) \/ Sync(r) \/ StoreAnswer(r) \/ LinkCertificate(r)
             \/ AttachQuiz(r)
    BY <1>2, <2>7 DEF Announce, Sync, StoreAnswer, LinkCertificate, AttachQuiz
  <2>8. QED
    BY <1>4, <1>5, <2>1, <2>2, <2>3, <2>4, <2>5, <2>6, <2>7 DEF RequestStep
<1>6. ASSUME UNCHANGED <<step, done, inputs, snapshots>>
      PROVE lesson'[q] \in contested'
  BY <1>1, <1>6 DEF inputs, snapshots
<1>7. QED
  BY <1>2, <1>3, <1>5, <1>6
  DEF Next, DropRequest, Rest, Enroll, DeleteQuiz, vars, tables

\* A completion is taken back only by a report that read before it was
\* written.
LEMMA LossStep ==
  TypeOK /\ RivalInv /\ [Next]_vars => done \ done' \subseteq contested
<1> SUFFICES ASSUME TypeOK, RivalInv, [Next]_vars, NEW l \in done \ done'
             PROVE  l \in contested
  OBVIOUS
<1>1. ASSUME NEW r \in Requests, WriteLesson(r) \/ WriteStrayLesson(r)
      PROVE l \in contested
  <2>1. l = lesson[r] /\ r \notin sawDone /\ Reporting(r)
    BY <1>1
    DEF WriteLesson, WriteStrayLesson, StoreLesson, NextCompleted, Reporting
  <2>2. QED BY <2>1 DEF RivalInv
<1> USE DEF tables, Refuse, OnlyReads
<1>2. ASSUME NEW r \in Requests, NewRequest(r) PROVE done' = done
  BY <1>2
  DEF NewRequest, BeginReport, BeginStrayReport, BeginQuiz, MarkCheckpoint,
      BeginSync, BeginClaim
<1>3. ASSUME NEW r \in Requests,
             \/ ReadExisting(r) \/ ReadLessons(r) \/ ReadPassed(r)
             \/ ReadPrior(r) \/ Settle(r) \/ Announce(r) \/ SyncPassed(r)
             \/ Sync(r) \/ ReadContext(r) \/ ReadCompleted(r)
             \/ CheckQuizOpen(r) \/ StoreAnswer(r) \/ LookUpCertificate(r)
             \/ IssueCertificate(r) \/ LinkCertificate(r) \/ AttachQuiz(r)
             \/ DropRequest(r)
      PROVE done' = done
  BY <1>3
  DEF ReadExisting, ReadLessons, ReadPassed, ReadPrior, Settle, Announce,
      SyncPassed, Sync, ReadContext, ReadCompleted, CheckQuizOpen,
      StoreAnswer, LookUpCertificate, IssueCertificate, LinkCertificate,
      AttachQuiz, DropRequest
<1>4. QED
  BY <1>1, <1>2, <1>3 DEF Next, RequestStep, Rest, Enroll, DeleteQuiz, vars

\* What is left of "completed only ever transitions false to true".
THEOREM LossesAreContested == Spec => LostOnlyToRival
<1>1. TypeOK /\ RivalInv /\ [Next]_vars => [done \ done' \subseteq contested]_vars
  BY LossStep
<1>2. Spec => []RivalInv
  BY RivalInit, RivalNext, TypeCorrect, PTL DEF Spec
<1>3. QED BY <1>1, <1>2, TypeCorrect, PTL DEF Spec, LostOnlyToRival

-----------------------------------------------------------------------------
\* Nobody is locked out by the rules

\* The first lesson that is not satisfied is open: a checkpoint never waits
\* for its own quiz.
LEMMA SomeLessonIsOpen ==
  ASSUME NEW c \in SUBSET Lessons, NEW p, NEW k, Satisfied(c, p, k) # Lessons
  PROVE  \E m \in Available(c, p, k) : m \notin Satisfied(c, p, k)
<1> DEFINE missing == Lessons \ Satisfied(c, p, k)
           before  == OpToRel(<, Nat)
<1>1. missing \subseteq Nat /\ missing # {}
  <2>1. Lessons \subseteq Nat
    BY ProgressAssumption DEF Lessons
  <2>2. Satisfied(c, p, k) \subseteq Lessons
    BY DEF Satisfied
  <2>3. QED BY <2>1, <2>2
<1>2. IsWellFoundedOn(before, Nat)
  BY NatLessThanWellFounded
<1>3. PICK m \in missing : \A l \in missing : ~ (<<l, m>> \in before)
  <2> HIDE DEF missing, before
  <2>1. QED BY <1>1, <1>2, WFMin
<1>4. \A l \in missing : ~ (l < m)
  BY <1>1, <1>3 DEF OpToRel
<1>5. m = 1 \/ m - 1 \in Satisfied(c, p, k)
  <2> SUFFICES ASSUME m # 1 PROVE m - 1 \in Satisfied(c, p, k)
    OBVIOUS
  <2>1. m - 1 \in Lessons /\ m - 1 < m
    BY ProgressAssumption DEF Lessons
  <2>2. m - 1 \notin missing
    BY <1>4, <2>1
  <2>3. QED BY <2>1, <2>2
<1>6. m \in Available(c, p, k)
  BY <1>5 DEF Available
<1>7. QED BY <1>6

\* A checkpoint has a quiz, or createQuiz is about to store it.
QuizInv ==
  crashes = 0 =>
    \A l \in checkpoints :
      l \in quizzes \/ \E r \in Requests : step[r] = "attach" /\ lesson[r] = l

LEMMA QuizNext == TypeOK /\ QuizInv /\ [Next]_vars => QuizInv'
<1> SUFFICES ASSUME TypeOK, QuizInv, [Next]_vars, crashes' = 0,
                    NEW l \in checkpoints'
             PROVE  \/ l \in quizzes'
                    \/ \E r \in Requests : step'[r] = "attach" /\ lesson'[r] = l
  BY DEF QuizInv
<1> DEFINE Pending == \E r \in Requests : step'[r] = "attach" /\ lesson'[r] = l
<1> USE DEF TypeOK
<1>1. ASSUME NEW r \in Requests, step[r] # "attach", crashes' = crashes,
             l \in checkpoints, quizzes' = quizzes,
             \A q \in Requests \ {r} : /\ step'[q] = step[q]
                                      /\ lesson'[q] = lesson[q]
      PROVE l \in quizzes' \/ Pending
  BY <1>1 DEF QuizInv
<1>2. ASSUME NEW r \in Requests, NewRequest(r)
      PROVE l \in quizzes' \/ Pending
  <2> USE DEF Begin, tables, bounds
  <2>1. ASSUME NEW m \in Lessons, MarkCheckpoint(r, m)
        PROVE l \in quizzes' \/ Pending
    <3>1. CASE l = m
      BY <2>1, <3>1 DEF MarkCheckpoint
    <3>2. CASE l # m
      BY <1>1, <2>1, <3>2 DEF MarkCheckpoint
    <3>3. QED BY <3>1, <3>2
  <2>2. ASSUME NEW m \in Lessons, NEW answer \in BOOLEAN,
               \/ BeginReport(r, m, answer) \/ BeginStrayReport(r, m, answer)
               \/ BeginQuiz(r, m, answer)
        PROVE l \in quizzes' \/ Pending
    BY <1>1, <2>2 DEF BeginReport, BeginStrayReport, BeginQuiz
  <2>3. CASE BeginSync(r) \/ BeginClaim(r)
    BY <1>1, <2>3 DEF BeginSync, BeginClaim
  <2>4. QED BY <1>2, <2>1, <2>2, <2>3 DEF NewRequest
<1>3. ASSUME NEW r \in Requests, AttachQuiz(r)
      PROVE l \in quizzes' \/ Pending
  BY <1>3 DEF AttachQuiz, End, QuizInv, bounds
<1>4. ASSUME NEW r \in Requests, RequestStep(r)
      PROVE l \in quizzes' \/ Pending
  <2> USE DEF Goto, OnlyReads, inputs, tables, bounds, Refuse, End
  <2>1. CASE ReadExisting(r) \/ ReadLessons(r) \/ ReadPassed(r) \/ ReadPrior(r)
    BY <1>1, <2>1 DEF ReadExisting, ReadLessons, ReadPassed, ReadPrior
  <2>2. CASE WriteLesson(r) \/ WriteStrayLesson(r) \/ Settle(r) \/ Announce(r)
    BY <1>1, <2>2 DEF WriteLesson, WriteStrayLesson, Settle, Announce
  <2>3. CASE SyncPassed(r) \/ Sync(r) \/ ReadContext(r) \/ ReadCompleted(r)
    BY <1>1, <2>3 DEF SyncPassed, Sync, ReadContext, ReadCompleted
  <2>4. CASE CheckQuizOpen(r) \/ StoreAnswer(r)
    BY <1>1, <2>4 DEF CheckQuizOpen, StoreAnswer
  <2>5. CASE LookUpCertificate(r) \/ IssueCertificate(r) \/ LinkCertificate(r)
    BY <1>1, <2>5 DEF LookUpCertificate, IssueCertificate, LinkCertificate
  <2>6. QED
    BY <1>3, <1>4, <2>1, <2>2, <2>3, <2>4, <2>5 DEF RequestStep
\* A request cut short may leave a checkpoint behind.
<1>5. ASSUME NEW r \in Requests, DropRequest(r) PROVE FALSE
  BY <1>5 DEF DropRequest
<1>6. ASSUME NEW m \in Lessons, DeleteQuiz(m)
      PROVE l \in quizzes' \/ Pending
  BY <1>6 DEF DeleteQuiz, QuizInv, inputs, bounds
<1>7. CASE Enroll \/ UNCHANGED vars
  BY <1>7 DEF Enroll, vars, tables, inputs, bounds, QuizInv
<1>8. QED
  BY <1>2, <1>4, <1>5, <1>6, <1>7 DEF Next, Rest

\* A learner always has a lesson to open and, if that lesson waits for its
\* quiz only, the quiz to take.
THEOREM NobodyLockedOut == Spec => []LearnerCanProceed
<1>1. Init => QuizInv
  BY DEF Init, QuizInv
<1>2. TypeOK /\ QuizInv => LearnerCanProceed
  <2> SUFFICES ASSUME TypeOK, QuizInv, crashes = 0,
                      \A r \in Requests : step[r] # "attach",
                      Satisfied(done, passed, checkpoints) # Lessons
               PROVE  \E l \in Available(done, passed, checkpoints)
                              \ Satisfied(done, passed, checkpoints) :
                        l \in done => l \in quizzes
    BY DEF LearnerCanProceed
  <2>1. PICK m \in Available(done, passed, checkpoints) :
          m \notin Satisfied(done, passed, checkpoints)
    BY SomeLessonIsOpen DEF TypeOK
  <2>2. m \in done => m \in checkpoints
    BY <2>1 DEF Satisfied, TypeOK
  <2>3. m \in done => m \in quizzes
    BY <2>2 DEF QuizInv
  <2>4. QED BY <2>1, <2>3
<1>3. QED BY <1>1, <1>2, QuizNext, TypeCorrect, PTL DEF Spec

-----------------------------------------------------------------------------
\* Every completed lesson reaches the outbox

\* A report that was the first to complete its lesson and has not announced
\* it yet.
Announcing(r) ==
  step[r] \in {"settle", "announce"} /\ r \in positive /\ r \notin sawDone

AnnounceInv ==
  crashes = 0 =>
    \A l \in everDone \ outside :
      l \in queued \/ \E r \in Requests : Announcing(r) /\ lesson[r] = l

LEMMA AnnounceNext ==
  TypeOK /\ HonestInv /\ AnnounceInv /\ [Next]_vars => AnnounceInv'
<1> DEFINE Heard(l) ==
             l \in queued \/ \E r \in Requests : Announcing(r) /\ lesson[r] = l
<1> SUFFICES ASSUME TypeOK, HonestInv, AnnounceInv, [Next]_vars, crashes' = 0,
                    NEW l \in everDone' \ outside'
             PROVE  Heard(l)'
  BY DEF AnnounceInv
<1> USE DEF TypeOK, Announcing
\* A handler that is not announcing does not matter.
<1>1. ASSUME NEW r \in Requests, crashes' = crashes, l \in everDone \ outside,
             step[r] \notin {"settle", "announce"}, queued \subseteq queued',
             \A q \in Requests \ {r} :
               /\ step'[q] = step[q] /\ lesson'[q] = lesson[q]
               /\ q \in positive => q \in positive'
               /\ q \in sawDone' => q \in sawDone
      PROVE Heard(l)'
  BY <1>1 DEF AnnounceInv
<1>2. ASSUME NEW r \in Requests, NewRequest(r) PROVE Heard(l)'
  <2> USE DEF Begin, tables, snapshots, histories
  <2>1. ASSUME NEW m \in Lessons, NEW answer \in BOOLEAN,
               \/ BeginReport(r, m, answer) \/ BeginStrayReport(r, m, answer)
               \/ BeginQuiz(r, m, answer) \/ MarkCheckpoint(r, m)
        PROVE Heard(l)'
    BY <1>1, <2>1 DEF BeginReport, BeginStrayReport, BeginQuiz, MarkCheckpoint
  <2>2. CASE BeginSync(r) \/ BeginClaim(r)
    BY <1>1, <2>2 DEF BeginSync, BeginClaim
  <2>3. QED BY <1>2, <2>1, <2>2 DEF NewRequest
<1>3. ASSUME NEW r \in Requests, RequestStep(r) PROVE Heard(l)'
  <2> USE DEF Goto, OnlyReads, inputs, tables, bounds, histories, Refuse, End
  <2>1. CASE ReadExisting(r) \/ ReadLessons(r) \/ ReadPassed(r) \/ ReadPrior(r)
    BY <1>1, <2>1 DEF ReadExisting, ReadLessons, ReadPassed, ReadPrior
  <2>2. CASE WriteLesson(r)
    <3>1. CASE l \in everDone
      BY <1>1, <2>2, <3>1 DEF WriteLesson, StoreLesson
    <3>2. CASE l \notin everDone
      <4>1. l = lesson[r] /\ NextCompleted(r)
        BY <2>2, <3>2 DEF WriteLesson, StoreLesson
      <4>2. r \notin sawDone
        BY <3>2, <4>1 DEF HonestInv, Honest
      <4>3. r \in positive
        BY <4>1, <4>2 DEF NextCompleted
      <4>4. Announcing(r)' /\ lesson'[r] = l
        BY <2>2, <4>1, <4>2, <4>3 DEF WriteLesson
      <4>5. QED BY <4>4
    <3>3. QED BY <3>1, <3>2
  <2>3. CASE WriteStrayLesson(r)
    <3>1. l \in everDone \ outside
      <4>1. r \in sawDone => lesson[r] \in everDone
        BY DEF HonestInv, Honest
      <4>2. QED BY <2>3, <4>1 DEF WriteStrayLesson, StoreLesson
    <3>2. QED BY <1>1, <2>3, <3>1 DEF WriteStrayLesson
  <2>4. CASE Settle(r)
    BY <2>4 DEF Settle, AnnounceInv, snapshots
  <2>5. CASE Announce(r)
    <3>1. \/ l \in queued
          \/ Announcing(r) /\ lesson[r] = l
          \/ \E q \in Requests \ {r} : Announcing(q) /\ lesson[q] = l
      BY <2>5 DEF Announce, AnnounceInv
    <3>2. QED BY <2>5, <3>1 DEF Announce
  <2>6. CASE SyncPassed(r) \/ Sync(r) \/ ReadContext(r) \/ ReadCompleted(r)
    BY <1>1, <2>6 DEF SyncPassed, Sync, ReadContext, ReadCompleted
  <2>7. CASE CheckQuizOpen(r) \/ StoreAnswer(r) \/ AttachQuiz(r)
    BY <1>1, <2>7 DEF CheckQuizOpen, StoreAnswer, AttachQuiz, snapshots
  <2>8. CASE LookUpCertificate(r) \/ IssueCertificate(r) \/ LinkCertificate(r)
    BY <1>1, <2>8
    DEF LookUpCertificate, IssueCertificate, LinkCertificate, snapshots
  <2>9. QED
    BY <1>3, <2>1, <2>2, <2>3, <2>4, <2>5, <2>6, <2>7, <2>8 DEF RequestStep
<1>4. ASSUME NEW r \in Requests, DropRequest(r) PROVE FALSE
  BY <1>4 DEF DropRequest
<1>5. ASSUME UNCHANGED <<queued, step, inputs, snapshots, bounds, everDone, outside>>
      PROVE Heard(l)'
  BY <1>5 DEF AnnounceInv, inputs, snapshots, bounds
<1>6. QED
  BY <1>2, <1>3, <1>4, <1>5
  DEF Next, Rest, Enroll, DeleteQuiz, vars, tables, histories

\* When all requests have run to their end, each lesson completed in the
\* course was handed to the credential outbox.
THEOREM LessonsAnnounced == Spec => []LessonCredentialQueued
<1>1. Init => AnnounceInv
  BY DEF Init, AnnounceInv
<1>2. AnnounceInv => LessonCredentialQueued
  BY DEF AnnounceInv, Announcing, LessonCredentialQueued, Idle
<1>3. QED
  BY <1>1, <1>2, AnnounceNext, TypeCorrect, HonestReads, PTL DEF Spec

-----------------------------------------------------------------------------
\* Of concurrent claims one issues the certificate

\* A claim between its two writes is the only one, and the certificate has no
\* link as long as it is there; without a crash it is there as long as that.
Linking(r) == step[r] = "link"

LinkInv ==
  /\ \A r, q \in Requests : Linking(r) /\ Linking(q) => r = q
  /\ \A r \in Requests : Linking(r) => certificate = "issued"
  /\ crashes = 0 /\ certificate = "issued" => \E r \in Requests : Linking(r)

\* Requests that go elsewhere, or end, before the second write.
LEMMA LinkFrame ==
  ASSUME LinkInv, UNCHANGED <<certificate, crashes>>,
         \A r \in Requests : Linking(r)' <=> Linking(r)
  PROVE  LinkInv'
BY DEF LinkInv

LEMMA LinkNext == TypeOK /\ LinkInv /\ [Next]_vars => LinkInv'
<1> SUFFICES ASSUME TypeOK, LinkInv, [Next]_vars PROVE LinkInv'
  OBVIOUS
<1> USE DEF TypeOK, Linking
<1>1. ASSUME NEW r \in Requests, NewRequest(r) PROVE LinkInv'
  <2> USE DEF Begin, tables, snapshots, histories
  <2>1. ASSUME NEW m \in Lessons, NEW answer \in BOOLEAN,
               \/ BeginReport(r, m, answer) \/ BeginStrayReport(r, m, answer)
               \/ BeginQuiz(r, m, answer) \/ MarkCheckpoint(r, m)
        PROVE LinkInv'
    BY <2>1, LinkFrame DEF BeginReport, BeginStrayReport, BeginQuiz, MarkCheckpoint
  <2>2. CASE BeginSync(r) \/ BeginClaim(r)
    BY <2>2, LinkFrame DEF BeginSync, BeginClaim
  <2>3. QED BY <1>1, <2>1, <2>2 DEF NewRequest
<1>2. ASSUME NEW r \in Requests, RequestStep(r) PROVE LinkInv'
  <2> USE DEF Goto, OnlyReads, inputs, tables, bounds, histories, Refuse, End
  <2>1. CASE ReadExisting(r) \/ ReadLessons(r) \/ ReadPassed(r) \/ ReadPrior(r)
    BY <2>1, LinkFrame DEF ReadExisting, ReadLessons, ReadPassed, ReadPrior
  <2>2. CASE WriteLesson(r) \/ WriteStrayLesson(r) \/ Settle(r) \/ Announce(r)
    BY <2>2, LinkFrame DEF WriteLesson, WriteStrayLesson, Settle, Announce
  <2>3. CASE SyncPassed(r) \/ Sync(r) \/ ReadContext(r) \/ ReadCompleted(r)
    BY <2>3, LinkFrame DEF SyncPassed, Sync, ReadContext, ReadCompleted
  <2>4. CASE CheckQuizOpen(r) \/ StoreAnswer(r) \/ AttachQuiz(r) \/ LookUpCertificate(r)
    BY <2>4, LinkFrame DEF CheckQuizOpen, StoreAnswer, AttachQuiz, LookUpCertificate
  <2>5. CASE IssueCertificate(r)
    <3>1. CASE Refuse(r)
      BY <2>5, <3>1, LinkFrame DEF IssueCertificate
    <3>2. CASE certificate = "none" /\ certificate' = "issued"
      <4>1. \A q \in Requests : ~Linking(q)
        BY <3>2 DEF LinkInv
      <4>2. \A q \in Requests : Linking(q)' <=> q = r
        BY <2>5, <3>2, <4>1 DEF IssueCertificate
      <4>3. QED BY <3>2, <4>2 DEF LinkInv
    <3>3. QED BY <2>5, <3>1, <3>2 DEF IssueCertificate
  <2>6. CASE LinkCertificate(r)
    <3>1. \A q \in Requests : ~Linking(q)'
      BY <2>6 DEF LinkCertificate, LinkInv
    <3>2. QED BY <2>6, <3>1 DEF LinkCertificate, LinkInv
  <2>7. QED
    BY <1>2, <2>1, <2>2, <2>3, <2>4, <2>5, <2>6 DEF RequestStep
<1>3. ASSUME NEW r \in Requests, DropRequest(r) PROVE LinkInv'
  <2>1. \A q \in Requests : Linking(q)' => Linking(q)
    BY <1>3 DEF DropRequest, End
  <2>2. crashes' # 0 /\ certificate' = certificate
    BY <1>3 DEF DropRequest, tables
  <2>3. QED BY <2>1, <2>2 DEF LinkInv
<1>4. ASSUME UNCHANGED <<certificate, crashes, step>> PROVE LinkInv'
  BY <1>4, LinkFrame
<1>5. QED
  BY <1>1, <1>2, <1>3, <1>4
  DEF Next, Rest, Enroll, DeleteQuiz, vars, tables, bounds, histories

\* Of the claims that found no certificate the unique key lets one through;
\* when all have run to their end the certificate has its download link.
THEOREM CertificateAlwaysLinked == Spec => []CertificateLinked
<1>1. Init => LinkInv
  BY DEF Init, LinkInv, Linking
<1>2. LinkInv => CertificateLinked
  <2> SUFFICES ASSUME LinkInv PROVE CertificateLinked
    OBVIOUS
  <2> DEFINE linkers == {r \in Requests : step[r] = "link"}
  <2>1. Idle /\ crashes = 0 => certificate # "issued"
    BY DEF LinkInv, Linking, Idle
  <2>2. Cardinality(linkers) <= 1
    <3>1. CASE linkers = {}
      BY <3>1, FS_EmptySet
    <3>2. CASE linkers # {}
      <4>1. PICK r \in Requests : linkers = {r}
        BY <3>2 DEF LinkInv, Linking
      <4>2. Cardinality({r}) = 1
        BY FS_Singleton
      <4>3. QED BY <4>1, <4>2
    <3>3. QED BY <3>1, <3>2
  <2>3. QED BY <2>1, <2>2 DEF CertificateLinked
<1>3. QED
  BY <1>1, <1>2, LinkNext, TypeCorrect, PTL DEF Spec

-----------------------------------------------------------------------------
\* The player and its reports

\* A video is shown on an open screen, from a URL.
PlayerInv ==
  /\ ~open => at = NoUrl /\ ~crashed
  /\ at # NoUrl => url # NoUrl

\* The types of all but the flags.
PlaybackNumbers ==
  /\ kept \in Positions /\ reach \in Positions /\ reportedAt \in Positions
  /\ setting \in Settings /\ reading \subseteq Records
  /\ url \in Positions \union {NoUrl} /\ at \in Positions \union {NoUrl}
  /\ fetch \in {"idle", "asked"} \X {0} \union {"answered"} \X Positions
  /\ sent \subseteq Positions \union {Done} /\ answers \in Nat
  /\ turns \in 0..MaxTurns

\* And of the flags.
PlaybackFlags ==
  /\ completed \in BOOLEAN /\ entitled \in BOOLEAN
  /\ open \in BOOLEAN /\ old \in BOOLEAN /\ broken \in BOOLEAN /\ crashed \in BOOLEAN
  /\ ended \in BOOLEAN /\ ticked \in BOOLEAN /\ lost \in BOOLEAN
  /\ raced \in BOOLEAN

LEMMA ShapesAreTypes == PlaybackNumbers /\ PlaybackFlags => PlaybackTypeOK
BY DEF PlaybackNumbers, PlaybackFlags, PlaybackTypeOK

LEMMA FlagsKept ==
  PlaybackNumbers /\ PlaybackFlags /\ [PlaybackNext]_playbackVars => PlaybackFlags'
<1> SUFFICES ASSUME PlaybackNumbers, PlaybackFlags, [PlaybackNext]_playbackVars
    PROVE  PlaybackFlags'
  OBVIOUS
<1> USE DEF PlaybackFlags, playbackApi, playbackQuery, playerVars, watching, playbackNotes
<1>1. CASE UNCHANGED playbackVars
  BY <1>1, Zenon DEF playbackVars
<1>2. CASE ServePlayback \/ Entitle \/ DropUrl
  BY <1>2, Zenon DEF ServePlayback, Entitle, DropUrl
<1>3. CASE Refused \/ Unresolved
  BY <1>3, Zenon DEF Refused, Unresolved, FetchFails
<1>4. CASE GotPlayback
  BY <1>4, Zenon DEF GotPlayback
<1>5. ASSUME NEW w \in reading, WriteRow(w) PROVE PlaybackFlags'
  <2>1. w.was \in BOOLEAN /\ w.done \in BOOLEAN
    BY DEF PlaybackNumbers, Records
  <2>2. completed' \in BOOLEAN /\ raced' \in BOOLEAN
    BY <1>5, <2>1, Zenon DEF WriteRow
  <2> QED
    BY <1>5, <2>2, Zenon DEF WriteRow
<1>6. CASE ReportAnswered \/ \E p \in sent : ReadRow(p)
  <2>1. /\ old' \in {old, TRUE}
        /\ UNCHANGED <<completed, entitled, open, broken, crashed, ended, ticked, lost, raced>>
    BY <1>6 DEF ReadRow, ReportAnswered
  <2> QED
    BY <2>1, Zenon
<1>7. CASE OpenLesson \/ CloseLesson
  BY <1>7, Zenon DEF OpenLesson, CloseLesson
<1>8. CASE PressComplete
  BY <1>8, Zenon DEF PressComplete, Completes
<1>9. CASE PlayOn \/ \E p \in Positions : Seek(p)
  <2>1. ASSUME NEW p, Shows(p) PROVE PlaybackFlags'
    BY <2>1, Zenon DEF Shows, Completes
  <2> QED
    BY <1>9, <2>1 DEF PlayOn, Seek
<1>10. CASE PlaysAgain \/ Retry \/ PlayerFails \/ CallFails
  BY <1>10, Zenon DEF PlaysAgain, Retry, PlayerFails, CallFails
<1> QED
  BY <1>1, <1>2, <1>3, <1>4, <1>5, <1>6, <1>7, <1>8, <1>9, <1>10, Zenon
  DEF PlaybackNext, Answers, RestPlayback

PlaybackTyped == PlaybackNumbers /\ PlayerInv

\* What the player leaves behind at a position.
LEMMA ShownTypes ==
  ASSUME PlaybackTyped, NEW p \in Positions, at # NoUrl, Shows(p), turns' \in 0..MaxTurns
  PROVE  PlaybackTyped'
<1> USE PlaybackAssumption DEF PlaybackTyped, PlaybackNumbers, Positions, NoUrl, Done
<1>1. open /\ url \in Positions
  BY DEF PlayerInv
<1>2. Due(p) => Told(p) \in Positions
  BY <1>1 DEF Due, Told
<1>3. reach' \in Positions /\ at' = p
  BY DEF Shows, Larger
<1>4. reportedAt' \in Positions
  BY <1>2 DEF Shows, Reported
<1>5. sent' \subseteq Positions \union {Done}
  <2>1. {q \in {Told(p)} : Due(p)} \subseteq Positions
    BY <1>2
  <2> QED
    BY <2>1 DEF Shows, Completes
<1>6. UNCHANGED <<kept, reading, setting, url, fetch, crashed, open, answers>>
  BY DEF Shows, playbackApi, playbackQuery
<1>7. PlaybackNumbers'
  BY <1>3, <1>4, <1>5, <1>6
<1>8. PlayerInv'
  BY <1>1, <1>6 DEF PlayerInv
<1> QED
  BY <1>7, <1>8

\* A player that comes to an open screen, or goes.
LEMMA PlayerComes ==
  ASSUME PlayerInv, open, open' = open, at' = NoUrl \/ url' # NoUrl
  PROVE  PlayerInv'
BY Zenon DEF PlayerInv

LEMMA PlayerStays ==
  ASSUME PlayerInv, open' = open, at' = at, crashed' = crashed,
         at = NoUrl \/ url' # NoUrl
  PROVE  PlayerInv'
BY Zenon DEF PlayerInv

\* Without a screen there is no player.
LEMMA NoPlayer == ASSUME PlayerInv, at # NoUrl \/ crashed PROVE open
BY Zenon DEF PlayerInv

LEMMA NumbersKept ==
  PlaybackFlags /\ PlaybackTyped /\ [PlaybackNext]_playbackVars => PlaybackTyped'
<1> SUFFICES ASSUME PlaybackFlags, PlaybackTyped, [PlaybackNext]_playbackVars
    PROVE  PlaybackTyped'
  OBVIOUS
<1>0. completed \in BOOLEAN
  BY Zenon DEF PlaybackFlags
<1> USE PlaybackAssumption
    DEF PlaybackTyped, PlaybackNumbers, Positions, NoUrl, Idle0,
        playbackApi, playbackQuery, playerVars, watching, playbackNotes, Done
<1>1. CASE UNCHANGED playbackVars
  BY <1>1 DEF playbackVars, PlayerInv
<1>2. CASE ServePlayback
  <2>1. Resume \in Positions
    BY DEF Resume
  <2> QED
    BY <1>2, <2>1 DEF ServePlayback, PlayerInv
<1>3. CASE Refused \/ Unresolved
  <2>1. /\ fetch' = Idle0 /\ at' = NoUrl /\ crashed' = FALSE /\ turns' \in 0..MaxTurns
        /\ UNCHANGED <<kept, reading, setting, url, open, reportedAt, sent, answers, reach>>
    BY <1>3 DEF Refused, Unresolved, FetchFails
  <2>2. PlaybackNumbers'
    BY <2>1
  <2>3. PlayerInv'
    BY <2>1, Zenon DEF PlayerInv
  <2> QED
    BY <2>2, <2>3
<1>4. CASE GotPlayback
  <2>1. /\ fetch[2] \in Positions /\ url' = fetch[2] /\ fetch' = Idle0
        /\ UNCHANGED <<kept, reading, setting, open, reportedAt, sent, answers, turns, reach>>
    BY <1>4 DEF GotPlayback
  <2>2. \/ UNCHANGED <<at, crashed>>
        \/ open /\ at' = url' /\ UNCHANGED crashed
    BY <1>4, Zenon DEF GotPlayback
  <2>3. PlaybackNumbers'
    BY <2>1, <2>2
  <2>4. url' # NoUrl /\ UNCHANGED open
    BY <2>1
  <2>5. CASE UNCHANGED <<at, crashed>>
    BY <2>3, <2>4, <2>5, PlayerStays
  <2>6. CASE open /\ at' = url' /\ UNCHANGED crashed
    BY <2>3, <2>4, <2>6, PlayerComes
  <2> QED
    BY <2>2, <2>3, <2>5, <2>6
<1>5. CASE Entitle \/ PressComplete
  <2>1. /\ sent' \subseteq sent \union {Done}
        /\ UNCHANGED <<kept, reading, setting, url, at, fetch, reportedAt, answers, turns, reach>>
    BY <1>5 DEF Entitle, PressComplete, Completes
  <2>2. UNCHANGED <<url, at, open, crashed>>
    BY <1>5 DEF Entitle, PressComplete
  <2>3. PlaybackNumbers'
    BY <2>1
  <2>4. PlayerInv'
    BY <2>2, Zenon DEF PlayerInv
  <2> QED
    BY <2>3, <2>4
<1>6. ASSUME NEW p \in sent, ReadRow(p) PROVE PlaybackTyped'
  <2> DEFINE pos == IF p # Done THEN p ELSE IF setting.declared THEN Length ELSE 0
  <2>1. /\ reading' = reading \union {[pos |-> pos, seen |-> kept, was |-> completed,
                                        done |-> (p = Done)]}
        /\ sent' = sent \ {p} /\ UNCHANGED <<kept, setting, url, at, fetch, reportedAt,
                                              answers, turns, reach, open, crashed>>
    BY <1>6 DEF ReadRow
  <2>2. pos \in Positions /\ completed \in BOOLEAN
    BY <1>0
  <2>3. reading' \subseteq Records
    <3> HIDE DEF pos
    <3>1. (p = Done) \in BOOLEAN /\ kept \in Positions
      OBVIOUS
    <3>2. [pos |-> pos, seen |-> kept, was |-> completed, done |-> (p = Done)] \in Records
      BY <2>2, <3>1, Zenon DEF Records
    <3> QED BY <2>1, <3>2
  <2>4. PlaybackNumbers'
    <3> HIDE DEF pos
    <3> QED BY <2>1, <2>3
  <2>5. PlayerInv'
    BY <2>1, Zenon DEF PlayerInv
  <2> QED
    BY <2>4, <2>5
<1>7. CASE ReportAnswered
  <2>1. fetch' \in {fetch, <<"asked", 0>>}
    BY <1>7 DEF ReportAnswered, Refetching
  <2> QED
    BY <1>7, <2>1 DEF ReportAnswered, PlayerInv
<1>8. ASSUME NEW w \in reading, WriteRow(w) PROVE PlaybackTyped'
  <2>1. w.seen \in Positions /\ w.pos \in Positions
    BY DEF Records
  <2>2. /\ kept' \in Positions /\ reading' \subseteq reading /\ answers' = answers + 1
        /\ UNCHANGED <<setting, url, at, fetch, reportedAt, sent, turns, reach, open, crashed>>
    BY <1>8, <2>1 DEF WriteRow, Larger
  <2>3. PlaybackNumbers'
    BY <2>2
  <2>4. PlayerInv'
    BY <2>2, Zenon DEF PlayerInv
  <2> QED
    BY <2>3, <2>4
<1>9. CASE OpenLesson
  <2>1. /\ at' \in {NoUrl, url} /\ open' = TRUE /\ ~open
        /\ UNCHANGED <<kept, reading, setting, url, crashed, sent, answers, reach>>
    BY <1>9 DEF OpenLesson
  <2>2. fetch' \in {fetch, <<"asked", 0>>} /\ turns' \in 0..MaxTurns /\ reportedAt' = 0
    BY <1>9 DEF OpenLesson
  <2>3. PlaybackNumbers'
    BY <2>1, <2>2
  <2>4. PlayerInv'
    BY <2>1, Zenon DEF PlayerInv
  <2> QED
    BY <2>3, <2>4
<1>10. CASE CloseLesson
  <2>1. /\ at' = NoUrl /\ crashed' = FALSE
        /\ UNCHANGED <<kept, reading, setting, url, fetch, reportedAt, sent, answers, turns,
                       reach>>
    BY <1>10 DEF CloseLesson
  <2>2. PlaybackNumbers'
    BY <2>1
  <2>3. PlayerInv'
    BY <2>1, Zenon DEF PlayerInv
  <2> QED
    BY <2>2, <2>3
<1>11. CASE PlayOn
  BY <1>11, ShownTypes DEF PlayOn
<1>12. ASSUME NEW p \in Positions, Seek(p) PROVE PlaybackTyped'
  BY <1>12, ShownTypes DEF Seek
<1>13. CASE PlaysAgain \/ Retry \/ PlayerFails
  <2>1. UNCHANGED <<kept, reading, setting, url, fetch, open, reportedAt, sent, answers, reach>>
    BY <1>13 DEF PlaysAgain, Retry, PlayerFails
  <2>2. turns' \in 0..MaxTurns /\ at' \in {at, url, NoUrl}
    BY <1>13 DEF PlaysAgain, Retry, PlayerFails
  <2>3. PlaybackNumbers'
    BY <2>1, <2>2
  <2>4. CASE PlaysAgain
    <3>1. at # NoUrl /\ UNCHANGED <<at, crashed>>
      BY <2>4, Zenon DEF PlaysAgain
    <3>2. url' # NoUrl
      BY <2>1, <3>1 DEF PlayerInv
    <3> QED
      BY <2>1, <2>3, <3>1, <3>2, PlayerStays
  <2>5. CASE Retry \/ PlayerFails
    <3>1. open
      BY <2>5, NoPlayer, Zenon DEF Retry, PlayerFails
    <3>2. at' = url' \/ at' = NoUrl
      BY <2>1, <2>5, Zenon DEF Retry, PlayerFails
    <3> QED
      BY <2>1, <2>3, <3>1, <3>2, PlayerComes
  <2> QED
    BY <1>13, <2>3, <2>4, <2>5
<1>14. CASE CallFails
  <2>1. sent' \subseteq sent /\ reading' \subseteq reading /\ answers' \in Nat
    BY <1>14 DEF CallFails
  <2> QED
    BY <1>14, <2>1 DEF CallFails, PlayerInv
<1>15. CASE DropUrl
  <2>1. /\ ~open /\ at = NoUrl /\ url' = NoUrl
        /\ UNCHANGED <<kept, reading, setting, fetch, at, crashed, open, reportedAt, sent,
                       answers, turns, reach>>
    BY <1>15, Zenon DEF DropUrl, PlayerInv
  <2>2. PlaybackNumbers'
    BY <2>1
  <2>3. PlayerInv'
    BY <2>1, Zenon DEF PlayerInv
  <2> QED
    BY <2>2, <2>3
<1> QED
  BY <1>1, <1>2, <1>3, <1>4, <1>5, <1>6, <1>7, <1>8, <1>9, <1>10, <1>11, <1>12, <1>13, <1>14,
     <1>15
  DEF PlaybackNext, Answers, RestPlayback

\* The API has, or is being sent, what was last reported and a position less
\* than an interval behind the furthest.
Behind(x) == reach - x < Interval
Known == (sent \ {Done}) \union {w.pos : w \in reading} \union {kept}

ReportInv ==
  TellsPosition /\ ~lost /\ ~raced =>
    /\ \E x \in Known : reportedAt <= x
    /\ \E x \in Known : Behind(x)

LEMMA KnownIsTyped == PlaybackNumbers => Known \subseteq Positions
BY DEF PlaybackNumbers, Known, Records

\* What only grows keeps what the API knows.
LEMMA KnownGrows ==
  ASSUME PlaybackTyped, ReportInv, UNCHANGED <<setting, reach>>,
         lost' = FALSE => ~lost, raced' = FALSE => ~raced, reportedAt' \in {reportedAt, 0},
         \A x \in Known : \E y \in Known' : y \in Positions /\ x <= y,
         lost' \in BOOLEAN, raced' \in BOOLEAN
  PROVE  ReportInv'
<1> USE PlaybackAssumption DEF PlaybackTyped, PlaybackNumbers, Positions
<1> SUFFICES ASSUME TellsPosition', ~lost', ~raced'
    PROVE  /\ \E x \in Known' : reportedAt' <= x
           /\ \E x \in Known' : Behind(x)'
  BY DEF ReportInv
<1>1. TellsPosition /\ ~lost /\ ~raced
  BY DEF TellsPosition
<1>2. PICK x \in Known : reportedAt <= x
  BY <1>1 DEF ReportInv
<1>3. PICK y \in Known : Behind(y)
  BY <1>1 DEF ReportInv
<1>4. x \in Positions /\ y \in Positions
  BY KnownIsTyped
<1>5. PICK v \in Known' : v \in Positions /\ x <= v
  OBVIOUS
<1>6. PICK z \in Known' : z \in Positions /\ y <= z
  OBVIOUS
<1>7. reportedAt' <= v
  BY <1>2, <1>4, <1>5
<1>8. Behind(z)'
  BY <1>3, <1>4, <1>6 DEF Behind
<1> QED
  BY <1>7, <1>8

LEMMA ShownReports ==
  ASSUME PlaybackTyped, ReportInv, NEW p \in Positions, Shows(p)
  PROVE  ReportInv'
<1> USE PlaybackAssumption DEF PlaybackTyped, PlaybackNumbers, Positions
<1> SUFFICES ASSUME TellsPosition', ~lost', ~raced'
    PROVE  /\ \E x \in Known' : reportedAt' <= x
           /\ \E x \in Known' : Behind(x)'
  BY DEF ReportInv
<1>0. /\ TellsPosition /\ ~lost /\ ~raced /\ UNCHANGED <<kept, reading>>
      /\ reach' = Larger(reach, p)
  BY DEF Shows, TellsPosition, playbackApi
<1>1. PICK x \in Known : reportedAt <= x
  BY <1>0 DEF ReportInv
<1>2. PICK y \in Known : Behind(y)
  BY <1>0 DEF ReportInv
<1>3. Told(p) = p /\ Tells
  BY <1>0 DEF Told, Tells, TellsPosition
<1>4. x \in Positions /\ y \in Positions
  BY KnownIsTyped
<1>5. sent \union {q \in {p} : Due(p)} \subseteq sent'
  BY <1>3 DEF Shows, Completes
<1>6. Known \subseteq Known'
  BY <1>0, <1>5 DEF Known
<1>7. CASE Due(p)
  <2>1. p \in Known' /\ reportedAt' = p
    <3>1. p \in sent' /\ p # Done
      BY <1>5, <1>7 DEF Done
    <3> QED
      BY <1>3, <1>7, <3>1 DEF Shows, Reported, Known
  <2>2. Behind(p)' \/ Behind(y)'
    BY <1>0, <1>2, <1>4 DEF Behind, Larger
  <2>3. reportedAt' <= p /\ y \in Known'
    BY <1>6, <2>1
  <2> QED
    BY <2>1, <2>2, <2>3
<1>8. CASE ~Due(p)
  <2>1. reportedAt' = reportedAt /\ p - reportedAt < Interval
    BY <1>3, <1>8 DEF Shows, Reported, Due
  <2>2. Behind(x)' \/ Behind(y)'
    BY <1>0, <1>1, <1>2, <1>4, <2>1 DEF Behind, Larger
  <2> QED
    BY <1>1, <1>6, <2>1, <2>2
<1> QED
  BY <1>7, <1>8

LEMMA ReportsKept ==
  PlaybackFlags /\ PlaybackTyped /\ ReportInv /\ [PlaybackNext]_playbackVars => ReportInv'
<1> SUFFICES ASSUME PlaybackFlags, PlaybackTyped, ReportInv, [PlaybackNext]_playbackVars
    PROVE  ReportInv'
  OBVIOUS
<1> USE PlaybackAssumption
    DEF PlaybackTyped, PlaybackNumbers, Positions, playbackApi, playbackQuery, playerVars,
        watching, playbackNotes
<1>0. lost \in BOOLEAN /\ raced \in BOOLEAN
  BY Zenon DEF PlaybackFlags
<1>1. ASSUME UNCHANGED <<kept, reading, reach, setting, lost, raced>>,
             sent' \in {sent, sent \union {Done}}, reportedAt' \in {reportedAt, 0}
      PROVE  ReportInv'
  <2>1. Known' = Known
    BY <1>1 DEF Known
  <2>2. \A x \in Known : \E y \in Known' : y \in Positions /\ x <= y
    BY <2>1, KnownIsTyped
  <2>3. (lost' = FALSE => ~lost) /\ (raced' = FALSE => ~raced)
        /\ lost' \in BOOLEAN /\ raced' \in BOOLEAN
    BY <1>0, <1>1
  <2> QED
    BY <1>1, <2>2, <2>3, KnownGrows
<1>2. CASE UNCHANGED playbackVars \/ ServePlayback \/ Refused \/ Unresolved \/ GotPlayback
  BY <1>1, <1>2 DEF playbackVars, ServePlayback, Refused, Unresolved, FetchFails, GotPlayback
<1>3. CASE Entitle \/ CloseLesson \/ DropUrl \/ PlaysAgain \/ Retry \/ PlayerFails
  BY <1>1, <1>3 DEF Entitle, CloseLesson, DropUrl, PlaysAgain, Retry, PlayerFails
<1>4. CASE ReportAnswered \/ OpenLesson
  BY <1>1, <1>4 DEF ReportAnswered, OpenLesson
<1>5. CASE PressComplete
  BY <1>1, <1>5 DEF PressComplete, Completes
<1>6. ASSUME NEW p \in sent, ReadRow(p) PROVE ReportInv'
  <2>1. /\ UNCHANGED <<kept, reportedAt, reach, setting, lost, raced>> /\ reading \subseteq reading'
        /\ sent' = sent \ {p}
    BY <1>6 DEF ReadRow
  <2>2. p # Done => p \in {w.pos : w \in reading'}
    <3>1. ASSUME p # Done PROVE \E w \in reading' : w.pos = p
      <4> DEFINE w == [pos |-> p, seen |-> kept, was |-> completed, done |-> (p = Done)]
      <4>1. w \in reading' /\ w.pos = p
        BY <1>6, <3>1 DEF ReadRow
      <4> QED
        BY <4>1
    <3> QED
      BY <3>1
  <2>3. Known \subseteq Known'
    BY <2>1, <2>2 DEF Known
  <2>4. \A x \in Known : \E y \in Known' : y \in Positions /\ x <= y
    BY <2>3, KnownIsTyped
  <2> QED
    BY <1>0, <2>1, <2>4, KnownGrows
<1>7. ASSUME NEW w \in reading, WriteRow(w) PROVE ReportInv'
  <2>1. /\ kept' = Larger(w.seen, w.pos) /\ reading' = reading \ {w}
        /\ UNCHANGED <<sent, reportedAt, reach, setting, lost>>
        /\ raced' = (raced \/ w.seen # kept \/ w.was # completed)
    BY <1>7 DEF WriteRow
  <2>2. CASE w.seen # kept
    BY <2>1, <2>2 DEF ReportInv
  <2>3. CASE w.seen = kept
    <3>1. w.pos \in Positions
      BY DEF Records
    <3>2. kept' \in Positions /\ kept <= kept' /\ w.pos <= kept' /\ kept' \in Known'
      BY <2>1, <2>3, <3>1 DEF Larger, Known
    <3>3. ASSUME NEW x \in Known PROVE \E y \in Known' : y \in Positions /\ x <= y
      <4>1. x \in Positions
        BY KnownIsTyped
      <4>2. CASE x \in sent \ {Done}
        <5>1. x \in Known'
          BY <2>1, <4>2 DEF Known
        <5> QED
          BY <4>1, <5>1
      <4>3. CASE x = kept
        BY <3>2, <4>3
      <4>4. ASSUME NEW v \in reading, x = v.pos PROVE \E y \in Known' : y \in Positions /\ x <= y
        <5>1. CASE v = w
          BY <3>2, <4>4, <5>1
        <5>2. CASE v # w
          <6>1. x \in Known'
            BY <2>1, <4>4, <5>2 DEF Known
          <6> QED
            BY <4>1, <6>1
        <5> QED
          BY <5>1, <5>2
      <4> QED
        BY <4>2, <4>3, <4>4 DEF Known
    <3>4. (raced' = FALSE => ~raced) /\ raced' \in BOOLEAN
      BY <1>0, <2>1, Zenon
    <3> QED
      BY <1>0, <2>1, <3>3, <3>4, KnownGrows
  <2> QED
    BY <2>2, <2>3
<1>8. CASE PlayOn \/ \E p \in Positions : Seek(p)
  BY <1>8, ShownReports DEF PlayOn, Seek
<1>9. CASE CallFails
  BY <1>9 DEF CallFails, ReportInv
<1> QED
  BY <1>2, <1>3, <1>4, <1>5, <1>6, <1>7, <1>8, <1>9 DEF PlaybackNext, Answers, RestPlayback

LEMMA PlaybackBegins == PlaybackInit => PlaybackNumbers /\ PlaybackFlags /\ PlayerInv /\ ReportInv
<1> SUFFICES ASSUME PlaybackInit
    PROVE  PlaybackNumbers /\ PlaybackFlags /\ PlayerInv /\ ReportInv
  OBVIOUS
<1> USE PlaybackAssumption DEF PlaybackInit, Positions, NoUrl, Idle0
<1>1. PlaybackNumbers
  <2>1. /\ kept \in Positions /\ reach = kept /\ reportedAt = 0 /\ url = NoUrl /\ at = NoUrl
        /\ setting \in Settings /\ reading = {}
        /\ fetch = <<"idle", 0>> /\ sent = {} /\ answers = 0 /\ turns = 0
    BY Zenon
  <2> QED
    BY <2>1 DEF PlaybackNumbers
<1>2. PlaybackFlags
  BY Zenon DEF PlaybackFlags
<1>3. PlayerInv
  BY Zenon DEF PlayerInv
<1>4. ReportInv
  <2>1. kept \in Positions /\ reach = kept /\ reportedAt = 0
    OBVIOUS
  <2>2. reportedAt <= kept /\ Behind(kept) /\ kept \in Known
    BY <2>1 DEF Behind, Known
  <2> QED
    BY <2>2 DEF ReportInv
<1> QED
  BY <1>1, <1>2, <1>3, <1>4

\* The endpoint, the query, the screen and the players keep their types, for
\* any length of the lesson.
THEOREM PlaybackTypeCorrect == PlaybackSpec => []PlaybackTypeOK
BY PlaybackBegins, ShapesAreTypes, FlagsKept, NumbersKept, PTL DEF PlaybackSpec, PlaybackTyped

\* However the video begins anew, is scrubbed and fails, the API knows where
\* the learner was to less than an interval once nothing is on its way, unless
\* a report failed or was written over one that it had not read.
THEOREM KeptAlwaysFollows == PlaybackSpec => []KeptFollowsPlayer
<1>1. ReportInv => KeptFollowsPlayer
  <2>1. ASSUME sent = {}, reading = {} PROVE Known = {kept}
    BY <2>1 DEF Known
  <2> QED
    BY <2>1 DEF ReportInv, Behind, KeptFollowsPlayer
<1>2. PlaybackInit => PlaybackFlags /\ PlaybackTyped /\ ReportInv
  BY PlaybackBegins DEF PlaybackTyped
<1>3. PlaybackFlags /\ PlaybackTyped /\ [PlaybackNext]_playbackVars => PlaybackFlags'
  BY FlagsKept DEF PlaybackTyped
<1> QED
  BY <1>1, <1>2, <1>3, NumbersKept, ReportsKept, PTL DEF PlaybackSpec

\* What is on its way was reached, and so was what the API has read.
ReachInv ==
  /\ kept <= reach \/ completed
  /\ \A x \in sent \ {Done} : x <= reach
  /\ \A w \in reading : (w.pos <= reach \/ w.done) /\ (w.seen <= reach \/ w.was)

LEMMA ReachKept ==
  PlaybackTyped /\ ReachInv /\ [PlaybackNext]_playbackVars => ReachInv'
<1> SUFFICES ASSUME PlaybackTyped, ReachInv, [PlaybackNext]_playbackVars PROVE ReachInv'
  OBVIOUS
<1> USE PlaybackAssumption
    DEF PlaybackTyped, PlaybackNumbers, Positions, playbackApi, playbackQuery, playerVars,
        watching, playbackNotes
<1>1. ASSUME UNCHANGED <<kept, reach, completed>>, sent' \subseteq sent \union {Done},
             reading' \subseteq reading
      PROVE  ReachInv'
  <2>1. \A w \in reading' : (w.pos <= reach \/ w.done) /\ (w.seen <= reach \/ w.was)
    BY <1>1, Zenon DEF ReachInv
  <2> QED
    BY <1>1, <2>1, Zenon DEF ReachInv
<1>2. CASE UNCHANGED playbackVars \/ ServePlayback \/ Refused \/ Unresolved \/ GotPlayback
  BY <1>1, <1>2 DEF playbackVars, ServePlayback, Refused, Unresolved, FetchFails, GotPlayback
<1>3. CASE Entitle \/ OpenLesson \/ CloseLesson \/ DropUrl \/ PressComplete
  BY <1>1, <1>3 DEF Entitle, OpenLesson, CloseLesson, DropUrl, PressComplete, Completes
<1>4. CASE PlaysAgain \/ Retry \/ PlayerFails \/ CallFails \/ ReportAnswered
  BY <1>1, <1>4 DEF PlaysAgain, Retry, PlayerFails, CallFails, ReportAnswered
<1>5. ASSUME NEW p \in sent, ReadRow(p) PROVE ReachInv'
  <2>1. UNCHANGED <<kept, reach, completed>> /\ sent' \subseteq sent
    BY <1>5 DEF ReadRow
  <2>2. ASSUME NEW w \in reading'
        PROVE  (w.pos <= reach \/ w.done) /\ (w.seen <= reach \/ w.was)
    <3>1. CASE w \in reading
      BY <3>1 DEF ReachInv
    <3>2. CASE w \notin reading
      <4>1. /\ w.seen = kept /\ w.was = completed /\ w.done = (p = Done)
            /\ p # Done => w.pos = p
        BY <1>5, <3>2 DEF ReadRow
      <4>2. p # Done => p <= reach
        BY DEF ReachInv
      <4> QED
        BY <4>1, <4>2 DEF ReachInv
    <3> QED
      BY <3>1, <3>2
  <2> QED
    BY <2>1, <2>2 DEF ReachInv
<1>6. ASSUME NEW w \in reading, WriteRow(w) PROVE ReachInv'
  <2>1. /\ kept' = Larger(w.seen, w.pos) /\ completed' = (w.was \/ w.done)
        /\ reading' \subseteq reading /\ UNCHANGED <<sent, reach>>
    BY <1>6 DEF WriteRow
  <2>2. (w.pos <= reach \/ w.done) /\ (w.seen <= reach \/ w.was)
    BY DEF ReachInv
  <2>3. kept' <= reach \/ completed'
    BY <2>1, <2>2 DEF Larger
  <2> QED
    BY <2>1, <2>3 DEF ReachInv
<1>7. ASSUME NEW p \in Positions, at # NoUrl, Shows(p) PROVE ReachInv'
  <2>1. url \in Positions
    BY <1>7 DEF PlayerInv
  <2>2. reach' = Larger(reach, p) /\ UNCHANGED <<kept, completed, reading>> /\ Told(p) <= p
    BY <1>7, <2>1 DEF Shows, Told
  <2>3. sent' \subseteq sent \union {Told(p)} \union {Done}
    BY <1>7 DEF Shows, Completes
  <2>4. reach <= reach' /\ p <= reach' /\ Told(p) \in Int /\ reach' \in Positions
    BY <2>1, <2>2 DEF Larger, Told
  <2>5. \A x \in sent' \ {Done} : x <= reach'
    BY <2>2, <2>3, <2>4 DEF ReachInv
  <2>6. \A w \in reading' : (w.pos <= reach' \/ w.done) /\ (w.seen <= reach' \/ w.was)
    <3>1. \A w \in reading : w.pos \in Positions /\ w.seen \in Positions
      BY DEF Records
    <3> QED
      BY <2>2, <2>4, <3>1 DEF ReachInv
  <2> QED
    BY <2>2, <2>4, <2>5, <2>6 DEF ReachInv
<1>8. CASE PlayOn \/ \E p \in Positions : Seek(p)
  BY <1>7, <1>8 DEF PlayOn, Seek, NoUrl
<1> QED
  BY <1>2, <1>3, <1>4, <1>5, <1>6, <1>8 DEF PlaybackNext, Answers, RestPlayback

\* No report and no delay makes the API keep a position of the lesson that the
\* player was never at, while the lesson is not completed.
THEOREM KeptWasAlwaysReached == PlaybackSpec => []KeptWasReached
<1>1. PlaybackInit => PlaybackFlags /\ PlaybackTyped /\ ReachInv
  <2>1. PlaybackInit => PlaybackFlags /\ PlaybackTyped
    BY PlaybackBegins DEF PlaybackTyped
  <2>2. PlaybackInit => sent = {} /\ reading = {} /\ kept \in Positions /\ reach = kept
    BY DEF PlaybackInit
  <2> QED
    BY <2>1, <2>2, PlaybackAssumption DEF ReachInv, Positions
<1>2. ReachInv => KeptWasReached
  BY DEF ReachInv, KeptWasReached
<1>3. PlaybackFlags /\ PlaybackTyped /\ [PlaybackNext]_playbackVars => PlaybackFlags'
  BY FlagsKept DEF PlaybackTyped
<1> QED
  BY <1>1, <1>2, <1>3, NumbersKept, ReachKept, PTL DEF PlaybackSpec
=============================================================================
