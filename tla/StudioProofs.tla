---------------------------- MODULE StudioProofs ----------------------------
(***************************************************************************)
(* Proofs about the parts of apps/admin in which a course is made: the     *)
(* quiz panel, the publications, the layouts of the site and the course    *)
(* editor; and how the scenes of MCApps put the apps together.             *)
(***************************************************************************)
EXTENDS MCApps, NetworkProofs, LearnerProofs, FiniteSetTheorems, SequenceTheorems,
        WellFoundedInduction, TLAPS

-----------------------------------------------------------------------------
\* The quiz panel.

\* Questions qs may be kept for the lesson l.
Apart(l, qs) == l \in mixed \/ qs \subseteq {l}

\* What was read for a lesson, or is being saved for it.
BodiesKeepApart ==
  \A r \in Requests : step[r] \in {"loaded", "reading", "save"} => Apart(mem[r].of, mem[r].body)

\* The load that is heeded is for the lesson that is shown.
AskedIsShown ==
  asking # Nothing =>
    /\ step[asking] \in {"load", "loaded", "reading", "failed"} /\ mem[asking].of = shownLesson
    /\ expanded /\ shownLesson # 0 /\ loading

\* A body that is read is that of the load that runs, or of one cancelled meanwhile.
ReadingIsKnown == \A r \in Requests : step[r] = "reading" => asking = r \/ r \in halfRead

\* The form of a lesson whose load has ended.
FormKeepsApart == FormShown => Apart(shownLesson, questions)

QuizInv ==
  /\ QuizTypeOK /\ BodiesKeepApart /\ AskedIsShown /\ ReadingIsKnown /\ FormKeepsApart
  /\ QuizzesKeepApart

LEMMA QuizInvInit == QuizInit => QuizInv
<1> SUFFICES ASSUME QuizInit PROVE QuizInv
  OBVIOUS
<1>1. expanded \in BOOLEAN /\ loading \in BOOLEAN /\ hasQuiz \in BOOLEAN
  BY DEF QuizInit
<1>2. breaks \in 0..MaxBreaks
  BY HandlersAssumption DEF QuizInit
<1>3. QuizTypeOK
  BY <1>1, <1>2 DEF QuizInit, QuizTypeOK, QuizSteps
<1> QED
  BY <1>3 DEF QuizInit, QuizInv, BodiesKeepApart, AskedIsShown, ReadingIsKnown,
              FormKeepsApart, FormShown, QuizzesKeepApart

\* A request that goes on leaves the types alone.
LEMMA QuizGoes ==
  ASSUME QuizTypeOK, NEW r \in Requests, NEW to \in QuizSteps,
         NEW m \in QuizMemory \union {Nothing}, GoesWith(r, to, m),
         to \notin {"free", "done"} => m \in QuizMemory
  PROVE  /\ step' \in [Requests -> QuizSteps]
         /\ mem' \in [Requests -> QuizMemory \union {Nothing}]
         /\ \A q \in Requests : step'[q] \notin {"free", "done"} => mem'[q] \in QuizMemory
         /\ step'[r] = to /\ (to # "done" => mem'[r] = m)
         /\ \A q \in Requests \ {r} : step'[q] = step[q] /\ mem'[q] = mem[q]
BY DEF QuizTypeOK, GoesWith

\* Mixed lessons stay mixed; what was apart stays apart.
LEMMA ApartStays ==
  ASSUME NEW l, NEW qs, Apart(l, qs), mixed \subseteq mixed'
  PROVE  l \in mixed' \/ qs \subseteq {l}
BY DEF Apart

LEMMA QuizEffect ==
  ASSUME QuizInv, NEW r \in Requests, NEW l \in QuizLessons \union {0},
         NEW open \in BOOLEAN, Effect(r, l, open)
  PROVE  QuizInv'
<1>0. QuizTypeOK
  BY DEF QuizInv
<1>a. /\ UNCHANGED <<quizRows, hasQuiz, questions, saving, deleting, breaks, mixed>>
      /\ shownLesson' = l /\ expanded' = open
      /\ halfRead' = halfRead \union {q \in Requests : q = asking /\ step[q] = "reading"}
  BY DEF Effect
<1>b. \A q \in Requests : step[q] = "reading" => q \in halfRead'
  BY <1>a DEF QuizInv, ReadingIsKnown
<1>c. QuizzesKeepApart'
  BY <1>a DEF QuizzesKeepApart, QuizInv
<1>d. halfRead' \subseteq Requests
  BY <1>0, <1>a DEF QuizTypeOK
<1>1. CASE open /\ l # 0
  <2>1. [of |-> l, body |-> {}] \in QuizMemory
    BY <1>1 DEF QuizMemory
  <2>2. GoesWith(r, "load", [of |-> l, body |-> {}]) /\ asking' = r /\ loading' = TRUE
        /\ step[r] = "free"
    BY <1>1 DEF Effect
  <2>5. QuizTypeOK'
    BY <1>0, <1>a, <1>d, <2>1, <2>2, QuizGoes DEF QuizTypeOK, QuizSteps
  <2>6. BodiesKeepApart'
    BY <1>0, <1>a, <2>1, <2>2, QuizGoes DEF BodiesKeepApart, QuizInv, Apart, QuizSteps
  <2>7. AskedIsShown' /\ ReadingIsKnown'
    BY <1>0, <1>1, <1>a, <1>b, <2>1, <2>2, QuizGoes DEF AskedIsShown, ReadingIsKnown, QuizSteps
  <2>8. FormKeepsApart'
    BY <2>2 DEF FormKeepsApart, FormShown
  <2> QED
    BY <1>c, <2>5, <2>6, <2>7, <2>8 DEF QuizInv
<1>2. CASE ~(open /\ l # 0)
  <2>1. UNCHANGED <<step, mem, loading>> /\ asking' = Nothing
    BY <1>2 DEF Effect
  <2>2. QuizTypeOK'
    BY <1>0, <1>a, <1>d, <2>1 DEF QuizTypeOK
  <2>3. AskedIsShown' /\ ReadingIsKnown'
    BY <1>b, <2>1 DEF AskedIsShown, ReadingIsKnown
  <2> QED
    BY <1>2, <1>a, <1>c, <2>1, <2>2, <2>3
    DEF QuizInv, BodiesKeepApart, FormKeepsApart, FormShown, Apart
<1> QED
  BY <1>1, <1>2

\* The server answers a load.
LEMMA QuizServed ==
  ASSUME QuizInv, NEW r \in Requests, ServeLoad(r)
  PROVE  QuizInv'
<1>0. QuizTypeOK
  BY DEF QuizInv
<1>1. mem[r] \in QuizMemory /\ step[r] = "load"
  BY <1>0 DEF ServeLoad, QuizTypeOK
<1>2. PICK to \in {"loaded", "failed"}, m \in QuizMemory :
        /\ GoesWith(r, to, m) /\ m.of = mem[r].of
        /\ to = "loaded" => Apart(m.of, m.body)
  <2>1. [mem[r] EXCEPT !.body = quizRows[mem[r].of]] \in QuizMemory
    BY <1>0, <1>1 DEF QuizTypeOK, QuizMemory
  <2>2. Apart(mem[r].of, quizRows[mem[r].of])
    BY <1>1 DEF QuizInv, QuizzesKeepApart, Apart, QuizMemory
  <2> QED
    BY <1>1, <2>1, <2>2 DEF ServeLoad, Goes, QuizMemory
<1>3. UNCHANGED <<quizRows, quizPanel, breaks, quizMarks>>
  BY DEF ServeLoad
<1>4. QuizTypeOK'
  BY <1>0, <1>2, <1>3, QuizGoes DEF QuizTypeOK, QuizSteps, quizPanel, quizMarks
<1>5. BodiesKeepApart'
  BY <1>0, <1>2, <1>3, QuizGoes DEF QuizInv, BodiesKeepApart, Apart, QuizSteps, quizMarks
<1>6. AskedIsShown'
  BY <1>0, <1>1, <1>2, <1>3, QuizGoes DEF QuizInv, QuizTypeOK, AskedIsShown, QuizSteps, quizPanel
<1>7. ReadingIsKnown'
  BY <1>0, <1>2, <1>3, QuizGoes DEF QuizInv, ReadingIsKnown, QuizSteps, quizPanel, quizMarks
<1>8. FormKeepsApart' /\ QuizzesKeepApart'
  BY <1>3 DEF QuizInv, FormKeepsApart, FormShown, QuizzesKeepApart, Apart, quizPanel, quizMarks
<1> QED
  BY <1>4, <1>5, <1>6, <1>7, <1>8 DEF QuizInv

\* What the promise of a load does when it is settled.
LEMMA QuizSettled ==
  ASSUME QuizInv, NEW r \in Requests, Settles(r)
  PROVE  /\ loading' \in BOOLEAN /\ asking' \in Requests \union {Nothing}
         /\ asking' = (IF asking = r THEN Nothing ELSE asking)
         /\ loading' = (IF asking = r THEN FALSE ELSE loading)
         /\ asking' # r
BY HandlersAssumption DEF Settles, QuizInv, QuizTypeOK

\* The answer of a load is looked at.
LEMMA QuizLoaded ==
  ASSUME QuizInv, NEW r \in Requests, Loaded(r)
  PROVE  QuizInv'
<1>0. QuizTypeOK
  BY DEF QuizInv
<1>1. mem[r] \in QuizMemory /\ step[r] = "loaded" /\ Apart(mem[r].of, mem[r].body)
  BY <1>0 DEF Loaded, QuizTypeOK, QuizInv, BodiesKeepApart
<1>2. UNCHANGED <<quizRows, shownLesson, expanded, saving, deleting, breaks, halfRead, mixed>>
  BY DEF Loaded, quizMarks
<1>3. CASE asking = r /\ mem[r].body # {}
  <2>1. GoesWith(r, "reading", mem[r]) /\ UNCHANGED <<questions, hasQuiz, loading, asking>>
    BY <1>3 DEF Loaded, Heeded, Goes
  <2>2. QuizTypeOK'
    BY <1>0, <1>1, <1>2, <2>1, QuizGoes DEF QuizTypeOK, QuizSteps
  <2>3. BodiesKeepApart'
    BY <1>0, <1>1, <1>2, <2>1, QuizGoes DEF QuizInv, BodiesKeepApart, Apart, QuizSteps
  <2>4. AskedIsShown' /\ ReadingIsKnown'
    BY <1>0, <1>1, <1>2, <1>3, <2>1, QuizGoes
    DEF QuizInv, QuizTypeOK, AskedIsShown, ReadingIsKnown, QuizSteps
  <2> QED
    BY <1>2, <2>1, <2>2, <2>3, <2>4
    DEF QuizInv, FormKeepsApart, FormShown, QuizzesKeepApart, Apart
<1>4. CASE ~(asking = r /\ mem[r].body # {})
  <2>1. GoesWith(r, "done", mem[r])
    BY <1>4 DEF Loaded, Heeded, Goes
  <2>2. \/ asking = r /\ questions' = {} /\ hasQuiz' = FALSE /\ Settles(r)
        \/ asking # r /\ UNCHANGED <<questions, hasQuiz, loading, asking>>
    BY <1>4 DEF Loaded, Heeded
  <2>3. /\ loading' \in BOOLEAN /\ asking' \in Requests \union {Nothing}
        /\ hasQuiz' \in BOOLEAN /\ questions' \subseteq QuizLessons
        /\ asking' = (IF asking = r THEN Nothing ELSE asking) /\ asking' # r
    BY <1>0, <2>2, QuizSettled DEF QuizTypeOK
  <2>4. QuizTypeOK'
    BY <1>0, <1>1, <1>2, <2>1, <2>3, QuizGoes DEF QuizTypeOK, QuizSteps
  <2>5. BodiesKeepApart'
    BY <1>0, <1>1, <1>2, <2>1, QuizGoes DEF QuizInv, BodiesKeepApart, Apart, QuizSteps
  <2>6. AskedIsShown'
    BY <1>0, <1>2, <2>1, <2>2, <2>3, QuizGoes
    DEF QuizInv, QuizTypeOK, AskedIsShown, QuizSteps
  <2>7. ReadingIsKnown'
    BY <1>0, <1>1, <1>2, <2>1, <2>3, QuizGoes DEF QuizInv, ReadingIsKnown, QuizSteps
  <2>8. FormKeepsApart'
    BY <1>2, <2>2 DEF QuizInv, FormKeepsApart, FormShown, Apart
  <2> QED
    BY <1>2, <2>4, <2>5, <2>6, <2>7, <2>8 DEF QuizInv, QuizzesKeepApart
<1> QED
  BY <1>3, <1>4

\* What a load leaves when it ends.
LEMMA QuizLoadEnds ==
  ASSUME QuizInv, NEW r \in Requests, Settles(r), GoesWith(r, "done", mem[r]),
         mem[r] \in QuizMemory, step[r] \in {"failed", "reading"},
         UNCHANGED <<quizRows, shownLesson, expanded, saving, deleting, breaks>>,
         hasQuiz' \in BOOLEAN, questions' \subseteq QuizLessons,
         halfRead' = halfRead \ {r}, mixed \subseteq mixed', mixed' \subseteq QuizLessons
  PROVE  /\ QuizTypeOK' /\ BodiesKeepApart' /\ AskedIsShown' /\ ReadingIsKnown'
         /\ QuizzesKeepApart'
<1>0. QuizTypeOK
  BY DEF QuizInv
<1>1. /\ loading' \in BOOLEAN /\ asking' \in Requests \union {Nothing}
      /\ asking' = (IF asking = r THEN Nothing ELSE asking) /\ asking' # r
      /\ loading' = (IF asking = r THEN FALSE ELSE loading)
  BY QuizSettled
<1>2. QuizTypeOK'
  BY <1>0, <1>1, QuizGoes DEF QuizTypeOK, QuizSteps
<1>3. BodiesKeepApart'
  BY <1>0, QuizGoes DEF QuizInv, BodiesKeepApart, Apart, QuizSteps
<1>4. AskedIsShown'
  BY <1>0, <1>1, QuizGoes DEF QuizInv, QuizTypeOK, AskedIsShown, QuizSteps
<1>5. ReadingIsKnown'
  BY <1>0, <1>1, QuizGoes DEF QuizInv, ReadingIsKnown, QuizSteps
<1>6. QuizzesKeepApart'
  BY DEF QuizInv, QuizzesKeepApart
<1> QED
  BY <1>2, <1>3, <1>4, <1>5, <1>6

LEMMA QuizFilled ==
  ASSUME QuizInv, NEW r \in Requests, BodyRead(r) \/ LoadFails(r)
  PROVE  QuizInv'
<1>0. QuizTypeOK
  BY DEF QuizInv
<1>1. mem[r] \in QuizMemory /\ step[r] \in {"failed", "reading"}
  BY <1>0 DEF BodyRead, LoadFails, QuizTypeOK
<1>2. /\ Settles(r) /\ GoesWith(r, "done", mem[r]) /\ halfRead' = halfRead \ {r}
      /\ UNCHANGED <<quizRows, shownLesson, expanded, saving, deleting, breaks>>
  BY DEF BodyRead, LoadFails, Goes
<1>3. hasQuiz' \in BOOLEAN /\ questions' \subseteq QuizLessons
  BY <1>0, <1>1 DEF BodyRead, LoadFails, QuizTypeOK, QuizMemory
<1>4. mixed \subseteq mixed' /\ mixed' \subseteq QuizLessons
  BY <1>0, <1>1 DEF BodyRead, LoadFails, QuizTypeOK, QuizMemory, FormShown
<1>5. QuizTypeOK' /\ BodiesKeepApart' /\ AskedIsShown' /\ ReadingIsKnown' /\ QuizzesKeepApart'
  BY <1>1, <1>2, <1>3, <1>4, QuizLoadEnds
<1>6. asking = r => mem[r].of = shownLesson
  BY HandlersAssumption DEF QuizInv, AskedIsShown
<1>7. asking # r => loading' = loading
  BY <1>2 DEF Settles
<1>8. CASE BodyRead(r)
  <2>1. Apart(mem[r].of, mem[r].body) /\ (asking # r => r \in halfRead)
    BY <1>8 DEF BodyRead, QuizInv, BodiesKeepApart, ReadingIsKnown
  <2>2. questions' = mem[r].body
    BY <1>8 DEF BodyRead
  <2>3. ASSUME mem[r].of = shownLesson PROVE FormKeepsApart'
    BY <1>2, <1>4, <2>1, <2>2, <2>3 DEF FormKeepsApart, Apart
  <2>4. ASSUME mem[r].of # shownLesson PROVE FormKeepsApart'
    <3>1. asking # r /\ r \in halfRead
      BY <1>6, <2>1, <2>4
    <3>2. FormShown => shownLesson \in mixed'
      BY <1>8, <2>4, <3>1 DEF BodyRead
    <3> QED
      BY <1>2, <1>7, <3>1, <3>2 DEF FormKeepsApart, FormShown, Apart
  <2>5. FormKeepsApart'
    BY <2>3, <2>4
  <2> QED
    BY <1>5, <2>5 DEF QuizInv
<1>9. CASE LoadFails(r)
  <2>1. questions' = questions
    BY <1>9 DEF LoadFails
  <2>2. ASSUME asking = r PROVE FormKeepsApart'
    BY <1>2, <1>6, <1>9, <2>1, <2>2 DEF LoadFails, FormKeepsApart, Apart
  <2>3. ASSUME asking # r PROVE FormKeepsApart'
    BY <1>2, <1>4, <1>7, <2>1, <2>3 DEF QuizInv, FormKeepsApart, FormShown, Apart
  <2>4. FormKeepsApart'
    BY <2>2, <2>3
  <2> QED
    BY <1>5, <2>4 DEF QuizInv
<1> QED
  BY <1>8, <1>9

LEMMA QuizSaves ==
  ASSUME QuizInv, NEW r \in Requests, BeginSave(r) \/ ServeSave(r) \/ Saved(r)
  PROVE  QuizInv'
<1>0. QuizTypeOK
  BY DEF QuizInv
<1>1. CASE BeginSave(r)
  <2>1. [of |-> shownLesson, body |-> questions] \in QuizMemory
    BY <1>0, <1>1 DEF BeginSave, FormShown, QuizMemory, QuizTypeOK
  <2>2. GoesWith(r, "save", [of |-> shownLesson, body |-> questions]) /\ step[r] = "free"
    BY <1>1 DEF BeginSave
  <2>3. UNCHANGED <<quizRows, shownLesson, expanded, loading, asking, hasQuiz, questions,
                    deleting, breaks, halfRead, mixed>>
    BY <1>1 DEF BeginSave, quizMarks
  <2>4. QuizTypeOK'
    BY <1>0, <1>1, <2>1, <2>2, <2>3, QuizGoes DEF QuizTypeOK, QuizSteps, BeginSave
  <2>5. Apart(shownLesson, questions)
    BY <1>1 DEF BeginSave, QuizInv, FormKeepsApart
  <2>6. BodiesKeepApart'
    BY <1>0, <2>1, <2>2, <2>3, <2>5, QuizGoes DEF QuizInv, BodiesKeepApart, Apart, QuizSteps
  <2>7. AskedIsShown' /\ ReadingIsKnown'
    BY <1>0, <2>1, <2>2, <2>3, QuizGoes DEF QuizInv, QuizTypeOK, AskedIsShown, ReadingIsKnown,
        QuizSteps
  <2> QED
    BY <2>3, <2>4, <2>6, <2>7 DEF QuizInv, QuizzesKeepApart, FormKeepsApart, FormShown, Apart
<1>2. CASE ServeSave(r)
  <2>0. mem[r] \in QuizMemory /\ step[r] = "save" /\ Apart(mem[r].of, mem[r].body)
    BY <1>0, <1>2 DEF ServeSave, QuizTypeOK, QuizInv, BodiesKeepApart
  <2>1. PICK to \in {"saved", "done"} : GoesWith(r, to, mem[r])
    BY <1>2 DEF ServeSave, Goes
  <2>2. UNCHANGED <<shownLesson, expanded, loading, asking, hasQuiz, questions, deleting,
                    breaks, halfRead, mixed>>
    BY <1>2 DEF ServeSave, quizMarks
  <2>3. \/ quizRows' = [quizRows EXCEPT ![mem[r].of] = mem[r].body]
        \/ quizRows' = quizRows
    BY <1>2 DEF ServeSave
  <2>4. QuizTypeOK'
    BY <1>0, <1>2, <2>0, <2>1, <2>2, <2>3, QuizGoes
    DEF QuizTypeOK, QuizSteps, ServeSave, QuizMemory
  <2>5. BodiesKeepApart'
    BY <1>0, <2>0, <2>1, <2>2, QuizGoes DEF QuizInv, BodiesKeepApart, Apart, QuizSteps
  <2>6. AskedIsShown' /\ ReadingIsKnown'
    BY <1>0, <2>0, <2>1, <2>2, QuizGoes DEF QuizInv, QuizTypeOK, AskedIsShown, ReadingIsKnown,
        QuizSteps
  <2>7. QuizzesKeepApart'
    BY <1>0, <2>0, <2>2, <2>3 DEF QuizInv, QuizzesKeepApart, Apart, QuizTypeOK
  <2> QED
    BY <2>2, <2>4, <2>5, <2>6, <2>7 DEF QuizInv, FormKeepsApart, FormShown, Apart
<1>3. CASE Saved(r)
  <2>0. mem[r] \in QuizMemory /\ step[r] = "saved"
    BY <1>0, <1>3 DEF Saved, QuizTypeOK
  <2>1. GoesWith(r, "done", mem[r])
    BY <1>3 DEF Saved, Goes
  <2>2. UNCHANGED <<quizRows, shownLesson, expanded, loading, asking, questions, deleting,
                    breaks, halfRead, mixed>>
    BY <1>3 DEF Saved, quizMarks
  <2>3. QuizTypeOK'
    BY <1>0, <1>3, <2>0, <2>1, <2>2, QuizGoes DEF QuizTypeOK, QuizSteps, Saved
  <2>4. BodiesKeepApart'
    BY <1>0, <2>0, <2>1, <2>2, QuizGoes DEF QuizInv, BodiesKeepApart, Apart, QuizSteps
  <2>5. AskedIsShown' /\ ReadingIsKnown'
    BY <1>0, <2>0, <2>1, <2>2, QuizGoes DEF QuizInv, QuizTypeOK, AskedIsShown, ReadingIsKnown,
        QuizSteps
  <2> QED
    BY <2>2, <2>3, <2>4, <2>5 DEF QuizInv, QuizzesKeepApart, FormKeepsApart, FormShown, Apart
<1> QED
  BY <1>1, <1>2, <1>3

LEMMA QuizDeletes ==
  ASSUME QuizInv, NEW r \in Requests, BeginDeleteQuiz(r) \/ ServeDelete(r) \/ Deleted(r)
  PROVE  QuizInv'
<1>0. QuizTypeOK
  BY DEF QuizInv
<1>1. CASE BeginDeleteQuiz(r)
  <2>1. [of |-> shownLesson, body |-> {}] \in QuizMemory
    BY <1>0, <1>1 DEF BeginDeleteQuiz, FormShown, QuizMemory, QuizTypeOK
  <2>2. GoesWith(r, "delete", [of |-> shownLesson, body |-> {}]) /\ step[r] = "free"
    BY <1>1 DEF BeginDeleteQuiz
  <2>3. UNCHANGED <<quizRows, shownLesson, expanded, loading, asking, hasQuiz, questions,
                    saving, breaks, halfRead, mixed>>
    BY <1>1 DEF BeginDeleteQuiz, quizMarks
  <2>4. QuizTypeOK'
    BY <1>0, <1>1, <2>1, <2>2, <2>3, QuizGoes DEF QuizTypeOK, QuizSteps, BeginDeleteQuiz
  <2>5. BodiesKeepApart'
    BY <1>0, <2>1, <2>2, <2>3, QuizGoes DEF QuizInv, BodiesKeepApart, Apart, QuizSteps
  <2>6. AskedIsShown' /\ ReadingIsKnown'
    BY <1>0, <2>1, <2>2, <2>3, QuizGoes DEF QuizInv, QuizTypeOK, AskedIsShown, ReadingIsKnown,
        QuizSteps
  <2> QED
    BY <2>3, <2>4, <2>5, <2>6 DEF QuizInv, QuizzesKeepApart, FormKeepsApart, FormShown, Apart
<1>2. CASE ServeDelete(r)
  <2>0. mem[r] \in QuizMemory /\ step[r] = "delete"
    BY <1>0, <1>2 DEF ServeDelete, QuizTypeOK
  <2>1. PICK to \in {"deleted", "done"} : GoesWith(r, to, mem[r])
    BY <1>2 DEF ServeDelete, Goes
  <2>2. UNCHANGED <<shownLesson, expanded, loading, asking, hasQuiz, questions, saving,
                    breaks, halfRead, mixed>>
    BY <1>2 DEF ServeDelete, quizMarks
  <2>3. quizRows' = [quizRows EXCEPT ![mem[r].of] = {}] \/ quizRows' = quizRows
    BY <1>2 DEF ServeDelete
  <2>4. QuizTypeOK'
    BY <1>0, <1>2, <2>0, <2>1, <2>2, <2>3, QuizGoes
    DEF QuizTypeOK, QuizSteps, ServeDelete, QuizMemory
  <2>5. BodiesKeepApart'
    BY <1>0, <2>0, <2>1, <2>2, QuizGoes DEF QuizInv, BodiesKeepApart, Apart, QuizSteps
  <2>6. AskedIsShown' /\ ReadingIsKnown'
    BY <1>0, <2>0, <2>1, <2>2, QuizGoes DEF QuizInv, QuizTypeOK, AskedIsShown, ReadingIsKnown,
        QuizSteps
  <2>7. QuizzesKeepApart'
    BY <1>0, <2>0, <2>2, <2>3 DEF QuizInv, QuizzesKeepApart, QuizTypeOK
  <2> QED
    BY <2>2, <2>4, <2>5, <2>6, <2>7 DEF QuizInv, FormKeepsApart, FormShown, Apart
<1>3. CASE Deleted(r)
  <2>0. mem[r] \in QuizMemory /\ step[r] = "deleted"
    BY <1>0, <1>3 DEF Deleted, QuizTypeOK
  <2>1. GoesWith(r, "done", mem[r])
    BY <1>3 DEF Deleted, Goes
  <2>2. UNCHANGED <<quizRows, shownLesson, expanded, loading, asking, saving, breaks, halfRead, mixed>>
        /\ questions' = {}
    BY <1>3 DEF Deleted, quizMarks
  <2>a. hasQuiz' \in BOOLEAN
    BY <1>3 DEF Deleted
  <2>b. deleting' \in Requests \union {Nothing}
    BY <1>3 DEF Deleted
  <2>3. QuizTypeOK'
    BY <1>0, <2>0, <2>1, <2>2, <2>a, <2>b, QuizGoes DEF QuizTypeOK, QuizSteps
  <2>4. BodiesKeepApart'
    BY <1>0, <2>0, <2>1, <2>2, QuizGoes DEF QuizInv, BodiesKeepApart, Apart, QuizSteps
  <2>5. AskedIsShown' /\ ReadingIsKnown'
    BY <1>0, <2>0, <2>1, <2>2, QuizGoes DEF QuizInv, QuizTypeOK, AskedIsShown, ReadingIsKnown,
        QuizSteps
  <2> QED
    BY <2>2, <2>3, <2>4, <2>5 DEF QuizInv, QuizzesKeepApart, FormKeepsApart, FormShown, Apart
<1> QED
  BY <1>1, <1>2, <1>3

LEMMA QuizDraft ==
  ASSUME QuizInv, Draft
  PROVE  QuizInv'
<1>1. Apart(shownLesson, questions)
  BY DEF Draft, QuizInv, FormKeepsApart
<1>2. Apart(shownLesson, questions')
  BY <1>1 DEF Draft, Apart
<1>3. QuizTypeOK'
  BY DEF Draft, FormShown, QuizInv, QuizTypeOK, handlers, quizMarks
<1> QED
  BY <1>2, <1>3
  DEF Draft, QuizInv, BodiesKeepApart, AskedIsShown, ReadingIsKnown, FormKeepsApart,
      FormShown, QuizzesKeepApart, Apart, handlers, quizMarks

LEMMA QuizInvStep == QuizInv /\ [QuizNext]_quizVars => QuizInv'
<1> SUFFICES ASSUME QuizInv, [QuizNext]_quizVars PROVE QuizInv'
  OBVIOUS
<1>1. CASE UNCHANGED quizVars
  BY <1>1
  DEF quizVars, quizPanel, quizMarks, handlers, QuizInv, QuizTypeOK, BodiesKeepApart,
      AskedIsShown, ReadingIsKnown, FormKeepsApart, FormShown, QuizzesKeepApart, Apart
<1>2. ASSUME NEW r \in Requests, Toggle(r) PROVE QuizInv'
  <2>0. shownLesson \in QuizLessons \union {0} /\ expanded \in BOOLEAN
    BY DEF QuizInv, QuizTypeOK
  <2>1. (~expanded) \in BOOLEAN
    BY <2>0
  <2>2. Effect(r, shownLesson, ~expanded)
    BY <1>2 DEF Toggle
  <2> QED
    BY <2>0, <2>1, <2>2, QuizEffect
<1>3. ASSUME NEW r \in Requests, NEW l \in QuizLessons \union {0}, Shift(r, l)
      PROVE  QuizInv'
  <2>1. expanded \in BOOLEAN
    BY DEF QuizInv, QuizTypeOK
  <2>2. Effect(r, l, expanded) /\ l # shownLesson
    BY <1>3 DEF Shift
  <2> QED
    BY <2>1, <2>2, QuizEffect
<1> QED
  BY <1>1, <1>2, <1>3, QuizServed, QuizLoaded, QuizFilled, QuizSaves, QuizDeletes, QuizDraft
  DEF QuizNext, QuizCall, RestQuiz

\* The panel keeps its types, for any requests and lessons.
THEOREM QuizTypeCorrect == QuizSpec => []QuizTypeOK
<1>1. QuizInv => QuizTypeOK
  BY DEF QuizInv
<1> QED
  BY <1>1, QuizInvInit, QuizInvStep, PTL DEF QuizSpec

\* Whatever is shown, loaded, saved and deleted in whatever order, a lesson
\* gets no other lesson's questions unless its load failed under them.
THEOREM QuizzesAreApart == QuizSpec => []QuizzesKeepApart
<1>1. QuizInv => QuizzesKeepApart
  BY DEF QuizInv
<1> QED
  BY <1>1, QuizInvInit, QuizInvStep, PTL DEF QuizSpec

-----------------------------------------------------------------------------
\* The publications.

Past  == {"course", "read", "patch", "register"}
Loops == {"video", "lesson", "read", "patch"}

\* How far a publication is: the lessons it has come to have their records, the
\* course record lists what was read, and the records patched point back.
PublicationProgress ==
  \A p \in Requests : step[p] \notin {"free", "done"} =>
    /\ step[p] \in Loops => mem[p].left # {}
    /\ mem[p].left \subseteq mem[p].told
    /\ \A l \in mem[p].told :
         (l \notin mem[p].left \/ step[p] \in Past) => <<p, l>> \in lessonRecords
    /\ step[p] = "course" => mem[p].left = mem[p].told
    /\ step[p] \in {"read", "patch", "register"} => courseRecords[p] = mem[p].told
    /\ \A l \in mem[p].told :
         (step[p] = "register" \/ (step[p] \in {"read", "patch"} /\ l \notin mem[p].left))
           => <<p, l>> \in backRefs \union unread

\* The course names publications that have ended: their records stay.
NamedIsDone == courseUri # Nothing => step[courseUri] = "done"

PublishingInv ==
  /\ PublishingTypeOK /\ PublicationProgress /\ NamedIsDone
  /\ NamedPublicationIsWhole /\ RefsOfOnePublication

LEMMA PublishingInvInit == PublishingInit => PublishingInv
<1> SUFFICES ASSUME PublishingInit PROVE PublishingInv
  OBVIOUS
<1>1. byService \in BOOLEAN
  BY DEF PublishingInit
<1>2. breaks \in 0..MaxBreaks
  BY HandlersAssumption DEF PublishingInit
<1>3. \A some \in {videoRecords, lessonRecords, backRefs, unread} :
        some \subseteq Requests \X CourseLessons
  BY DEF PublishingInit
<1>4. courseRecords \in [Requests -> (SUBSET CourseLessons) \union {Nothing}]
  <2> DEFINE Listed == (SUBSET CourseLessons) \union {Nothing}
  <2>1. Nothing \in Listed
    OBVIOUS
  <2>2. courseRecords = [p \in Requests |-> Nothing]
    BY Zenon DEF PublishingInit
  <2> HIDE DEF Listed
  <2>3. courseRecords \in [Requests -> Listed]
    BY <2>1, <2>2
  <2> QED
    BY <2>3 DEF Listed
<1>5. PublishingTypeOK
  BY <1>1, <1>2, <1>3, <1>4 DEF PublishingInit, PublishingTypeOK, PublishingSteps
<1> QED
  BY <1>5 DEF PublishingInit, PublishingInv, PublicationProgress, NamedIsDone,
              NamedPublicationIsWhole, RefsOfOnePublication

LEMMA PublishingGoes ==
  ASSUME PublishingTypeOK, NEW p \in Requests, NEW to \in PublishingSteps,
         NEW m \in PublishingMemory \union {Nothing}, GoesWith(p, to, m),
         to \notin {"free", "done"} => m \in PublishingMemory
  PROVE  /\ step' \in [Requests -> PublishingSteps]
         /\ mem' \in [Requests -> PublishingMemory \union {Nothing}]
         /\ \A q \in Requests : step'[q] \notin {"free", "done"} => mem'[q] \in PublishingMemory
         /\ step'[p] = to /\ (to # "done" => mem'[p] = m)
         /\ \A q \in Requests \ {p} : step'[q] = step[q] /\ mem'[q] = mem[q]
BY DEF PublishingTypeOK, GoesWith

\* A publication in a loop has a lesson to come to, and what it goes on with
\* afterwards.
LEMMA PublishingTurns ==
  ASSUME PublishingInv, NEW p \in Requests, step[p] \in Loops
  PROVE  /\ mem[p] \in PublishingMemory
         /\ ItsLesson(p) \in mem[p].left /\ ItsLesson(p) \in mem[p].told
         /\ <<p, ItsLesson(p)>> \in Requests \X CourseLessons
<1>1. mem[p] \in PublishingMemory /\ mem[p].left # {} /\ mem[p].left \subseteq mem[p].told
  BY DEF PublishingInv, PublishingTypeOK, PublicationProgress, Loops
<1>2. ItsLesson(p) \in mem[p].left
  BY <1>1 DEF ItsLesson
<1> QED
  BY <1>1, <1>2 DEF PublishingMemory

LEMMA PublishingOnwards ==
  ASSUME PublishingInv, NEW p \in Requests, step[p] \in Loops,
         NEW again, NEW after, Onwards(p, again, after)
  PROVE  \E m \in PublishingMemory :
           /\ m.own = mem[p].own /\ m.told = mem[p].told /\ m.films = mem[p].films
           /\ m.left # {} /\ m.left \subseteq m.told
           /\ \/ /\ GoesWith(p, again, m)
                 /\ m.left = mem[p].left \ {ItsLesson(p)}
              \/ /\ GoesWith(p, after, m)
                 /\ m.left = m.told /\ mem[p].left = {ItsLesson(p)}
<1> DEFINE rest == mem[p].left \ {ItsLesson(p)}
           m1 == [mem[p] EXCEPT !.left = mem[p].told]
           m2 == [mem[p] EXCEPT !.left = rest]
<1>1. /\ mem[p] \in PublishingMemory
      /\ ItsLesson(p) \in mem[p].left /\ ItsLesson(p) \in mem[p].told
      /\ mem[p].left \subseteq mem[p].told
  BY PublishingTurns DEF PublishingInv, PublicationProgress, Loops
<1>2. CASE rest = {}
  <2>1. m1 \in PublishingMemory /\ m1.own = mem[p].own /\ m1.told = mem[p].told
        /\ m1.films = mem[p].films /\ m1.left = mem[p].told
    BY <1>1 DEF PublishingMemory
  <2>2. GoesWith(p, after, m1)
    BY <1>2 DEF Onwards
  <2> QED
    BY <1>1, <1>2, <2>1, <2>2
<1>3. CASE rest # {}
  <2>1. m2 \in PublishingMemory /\ m2.own = mem[p].own /\ m2.told = mem[p].told
        /\ m2.films = mem[p].films /\ m2.left = rest
    BY <1>1 DEF PublishingMemory
  <2>2. GoesWith(p, again, m2)
    BY <1>3 DEF Onwards
  <2> QED
    BY <1>1, <1>3, <2>1, <2>2
<1> QED
  BY <1>2, <1>3

\* A publication under way is not the one that the course names.
LEMMA NamedStays ==
  ASSUME PublishingInv, NEW p \in Requests, step[p] # "done",
         \A q \in Requests \ {p} : step'[q] = step[q] /\ courseRecords'[q] = courseRecords[q],
         lessonRecords \subseteq lessonRecords', backRefs \subseteq backRefs',
         unread \subseteq unread',
         courseUri' = courseUri, lessonRefs' = lessonRefs, byService' = byService
  PROVE  (NamedIsDone /\ NamedPublicationIsWhole /\ RefsOfOnePublication)'
<1>1. courseUri # Nothing => courseUri \in Requests \ {p}
  BY DEF PublishingInv, PublishingTypeOK, NamedIsDone
<1>2. NamedIsDone'
  BY <1>1 DEF PublishingInv, NamedIsDone
<1>3. NamedPublicationIsWhole'
  BY <1>1 DEF PublishingInv, NamedPublicationIsWhole
<1>4. RefsOfOnePublication'
  BY <1>1 DEF PublishingInv, RefsOfOnePublication
<1> QED
  BY <1>2, <1>3, <1>4

\* Publications other than p are as far as they were.
LEMMA OthersProgress ==
  ASSUME PublishingInv, NEW p \in Requests,
         \A q \in Requests \ {p} :
           step'[q] = step[q] /\ mem'[q] = mem[q] /\ courseRecords'[q] = courseRecords[q],
         lessonRecords \subseteq lessonRecords', backRefs \subseteq backRefs',
         unread \subseteq unread',
         step'[p] \notin {"free", "done"} =>
           /\ step'[p] \in Loops => mem'[p].left # {}
           /\ mem'[p].left \subseteq mem'[p].told
           /\ \A l \in mem'[p].told :
                (l \notin mem'[p].left \/ step'[p] \in Past) => <<p, l>> \in lessonRecords'
           /\ step'[p] = "course" => mem'[p].left = mem'[p].told
           /\ step'[p] \in {"read", "patch", "register"} => courseRecords'[p] = mem'[p].told
           /\ \A l \in mem'[p].told :
                (step'[p] = "register"
                   \/ (step'[p] \in {"read", "patch"} /\ l \notin mem'[p].left))
                  => <<p, l>> \in backRefs' \union unread'
  PROVE  PublicationProgress'
BY DEF PublishingInv, PublicationProgress

LEMMA PublishBegins ==
  ASSUME PublishingInv, NEW p \in Requests, BeginPublish(p)
  PROVE  PublishingInv'
<1>1. PICK own \in BOOLEAN :
        GoesWith(p, IF content = {} THEN "course" ELSE "video",
                 [own |-> own, told |-> content, films |-> filmed, left |-> content])
  BY DEF BeginPublish
<1> DEFINE m == [own |-> own, told |-> content, films |-> filmed, left |-> content]
<1>2. m \in PublishingMemory
  BY DEF PublishingInv, PublishingTypeOK, PublishingMemory
<1>3. PublishingTypeOK
  BY DEF PublishingInv
<1>4. UNCHANGED <<base, records, unread, byService, breaks>> /\ step[p] = "free"
  BY DEF BeginPublish
<1>5. /\ step' \in [Requests -> PublishingSteps]
      /\ mem' \in [Requests -> PublishingMemory \union {Nothing}]
      /\ \A q \in Requests : step'[q] \notin {"free", "done"} => mem'[q] \in PublishingMemory
      /\ step'[p] = (IF content = {} THEN "course" ELSE "video") /\ mem'[p] = m
      /\ \A q \in Requests \ {p} : step'[q] = step[q] /\ mem'[q] = mem[q]
  BY <1>1, <1>2, <1>3, PublishingGoes DEF PublishingSteps
<1>6. PublishingTypeOK'
  BY <1>3, <1>4, <1>5 DEF PublishingTypeOK, base, records
<1>7. PublicationProgress'
  BY <1>4, <1>5, OthersProgress DEF base, records, Past, Loops
<1>8. (NamedIsDone /\ NamedPublicationIsWhole /\ RefsOfOnePublication)'
  BY <1>4, <1>5, NamedStays DEF base, records
<1> QED
  BY <1>6, <1>7, <1>8 DEF PublishingInv

LEMMA PublishPuts ==
  ASSUME PublishingInv, NEW p \in Requests, PutVideo(p) \/ PutLesson(p) \/ PutCourse(p)
  PROVE  PublishingInv'
<1>0. /\ PublishingTypeOK /\ step[p] \notin {"free", "done"}
      /\ mem[p] \in PublishingMemory
  BY DEF PublishingInv, PublishingTypeOK, PutVideo, PutLesson, PutCourse
<1>1. step[p] \in Loops =>
        /\ ItsLesson(p) \in mem[p].left /\ ItsLesson(p) \in mem[p].told
        /\ <<p, ItsLesson(p)>> \in Requests \X CourseLessons
  BY <1>0, PublishingTurns
<1>2. CASE PutVideo(p)
  <2>1. GoesWith(p, "lesson", mem[p]) /\ step[p] = "video"
    BY <1>2 DEF PutVideo, Goes
  <2>2. UNCHANGED <<base, lessonRecords, backRefs, courseRecords, unread, byService, breaks>>
    BY <1>2 DEF PutVideo
  <2>3. videoRecords' \subseteq Requests \X CourseLessons
    BY <1>0, <1>1, <1>2 DEF PutVideo, PublishingTypeOK, Loops
  <2>4. /\ step' \in [Requests -> PublishingSteps]
        /\ mem' \in [Requests -> PublishingMemory \union {Nothing}]
        /\ \A q \in Requests : step'[q] \notin {"free", "done"} => mem'[q] \in PublishingMemory
        /\ step'[p] = "lesson" /\ mem'[p] = mem[p]
        /\ \A q \in Requests \ {p} : step'[q] = step[q] /\ mem'[q] = mem[q]
    BY <1>0, <1>1, <2>1, PublishingGoes DEF PublishingSteps
  <2>5. PublishingTypeOK'
    BY <1>0, <2>2, <2>3, <2>4 DEF PublishingTypeOK, base
  <2>6. PublicationProgress'
    BY <2>1, <2>2, <2>4, OthersProgress DEF PublishingInv, PublicationProgress, Past, Loops
  <2>7. (NamedIsDone /\ NamedPublicationIsWhole /\ RefsOfOnePublication)'
    BY <2>1, <2>2, <2>4, NamedStays DEF base
  <2> QED
    BY <2>5, <2>6, <2>7 DEF PublishingInv
<1>3. CASE PutLesson(p)
  <2>1. step[p] = "lesson" /\ lessonRecords' = lessonRecords \union {<<p, ItsLesson(p)>>}
    BY <1>3 DEF PutLesson
  <2>2. UNCHANGED <<base, videoRecords, backRefs, courseRecords, unread, byService, breaks>>
    BY <1>3 DEF PutLesson
  <2>3. PICK m \in PublishingMemory, to \in {"video", "course"} :
          /\ m.told = mem[p].told /\ m.left # {} /\ m.left \subseteq m.told
          /\ GoesWith(p, to, m)
          /\ \/ to = "video" /\ m.left = mem[p].left \ {ItsLesson(p)}
             \/ to = "course" /\ m.left = m.told /\ mem[p].left = {ItsLesson(p)}
    BY <1>0, <1>3, PublishingOnwards DEF PutLesson, Loops
  <2>4. /\ step' \in [Requests -> PublishingSteps]
        /\ mem' \in [Requests -> PublishingMemory \union {Nothing}]
        /\ \A q \in Requests : step'[q] \notin {"free", "done"} => mem'[q] \in PublishingMemory
        /\ step'[p] = to /\ mem'[p] = m
        /\ \A q \in Requests \ {p} : step'[q] = step[q] /\ mem'[q] = mem[q]
    BY <1>0, <2>3, PublishingGoes DEF PublishingSteps
  <2>5. PublishingTypeOK'
    <3>1. lessonRecords' \subseteq Requests \X CourseLessons
      BY <1>0, <1>1, <2>1 DEF PublishingTypeOK, Loops
    <3> QED
      BY <1>0, <2>1, <2>2, <2>4, <3>1 DEF PublishingTypeOK, base
  <2>6. PublicationProgress'
    <3>1. \A l \in mem[p].told : l \notin mem[p].left => <<p, l>> \in lessonRecords
      BY <1>0 DEF PublishingInv, PublicationProgress
    <3>2. \A l \in m.told : (l \notin m.left \/ to = "course") => <<p, l>> \in lessonRecords'
      BY <2>1, <2>3, <3>1
    <3> QED
      BY <2>1, <2>2, <2>3, <2>4, <3>2, OthersProgress DEF Past, Loops
  <2>7. (NamedIsDone /\ NamedPublicationIsWhole /\ RefsOfOnePublication)'
    BY <2>1, <2>2, <2>4, NamedStays DEF base
  <2> QED
    BY <2>5, <2>6, <2>7 DEF PublishingInv
<1>4. CASE PutCourse(p)
  <2> DEFINE to == IF mem[p].told = {} THEN "register" ELSE "read"
  <2>1. GoesWith(p, to, mem[p]) /\ step[p] = "course"
    BY <1>4 DEF PutCourse, Goes, AfterCourse
  <2>2. UNCHANGED <<base, videoRecords, lessonRecords, backRefs, unread, byService, breaks>>
    BY <1>4 DEF PutCourse
  <2>3. courseRecords' = [courseRecords EXCEPT ![p] = mem[p].told]
    BY <1>4 DEF PutCourse
  <2>4. /\ step' \in [Requests -> PublishingSteps]
        /\ mem' \in [Requests -> PublishingMemory \union {Nothing}]
        /\ \A q \in Requests : step'[q] \notin {"free", "done"} => mem'[q] \in PublishingMemory
        /\ step'[p] = to /\ mem'[p] = mem[p]
        /\ \A q \in Requests \ {p} : step'[q] = step[q] /\ mem'[q] = mem[q]
    BY <1>0, <2>1, PublishingGoes DEF PublishingSteps
  <2>5. PublishingTypeOK'
    <3>1. mem[p].told \in SUBSET CourseLessons
      BY <1>0 DEF PublishingMemory
    <3>2. courseRecords' \in [Requests -> (SUBSET CourseLessons) \union {Nothing}]
      BY <1>0, <2>3, <3>1 DEF PublishingTypeOK
    <3> QED
      BY <1>0, <2>2, <2>4, <3>2 DEF PublishingTypeOK, base
  <2>6. PublicationProgress'
    <3>1. courseRecords'[p] = mem[p].told
          /\ \A q \in Requests \ {p} : courseRecords'[q] = courseRecords[q]
      BY <1>0, <2>3 DEF PublishingTypeOK
    <3>2. /\ mem[p].left = mem[p].told
          /\ \A l \in mem[p].told : <<p, l>> \in lessonRecords
      BY <2>1 DEF PublishingInv, PublicationProgress, Past
    <3> QED
      BY <2>1, <2>2, <2>4, <3>1, <3>2, OthersProgress DEF Past, Loops
  <2>7. (NamedIsDone /\ NamedPublicationIsWhole /\ RefsOfOnePublication)'
    <3>1. \A q \in Requests \ {p} : courseRecords'[q] = courseRecords[q]
      BY <1>0, <2>3 DEF PublishingTypeOK
    <3> QED
      BY <2>1, <2>2, <2>4, <3>1, NamedStays DEF base
  <2> QED
    BY <2>5, <2>6, <2>7 DEF PublishingInv
<1> QED
  BY <1>2, <1>3, <1>4

LEMMA PublishPatches ==
  ASSUME PublishingInv, NEW p \in Requests, ReadLesson(p) \/ PatchLesson(p)
  PROVE  PublishingInv'
<1>0. PublishingTypeOK /\ step[p] \in {"read", "patch"}
  BY DEF PublishingInv, ReadLesson, PatchLesson
<1>1. /\ mem[p] \in PublishingMemory
      /\ ItsLesson(p) \in mem[p].left /\ ItsLesson(p) \in mem[p].told
      /\ <<p, ItsLesson(p)>> \in Requests \X CourseLessons
  BY <1>0, PublishingTurns DEF Loops
<1>2. /\ mem[p].left # {} /\ mem[p].left \subseteq mem[p].told
      /\ \A l \in mem[p].told : <<p, l>> \in lessonRecords
      /\ courseRecords[p] = mem[p].told
      /\ \A l \in mem[p].told : l \notin mem[p].left => <<p, l>> \in backRefs \union unread
  BY <1>0 DEF PublishingInv, PublicationProgress, Past, Loops
<1>3. UNCHANGED <<base, videoRecords, lessonRecords, courseRecords, byService, breaks>>
  BY DEF ReadLesson, PatchLesson, records
\* The lesson is read, and patched next.
<1>4. CASE step[p] = "read" /\ GoesWith(p, "patch", mem[p]) /\ UNCHANGED <<backRefs, unread>>
  <2>1. /\ step' \in [Requests -> PublishingSteps]
        /\ mem' \in [Requests -> PublishingMemory \union {Nothing}]
        /\ \A q \in Requests : step'[q] \notin {"free", "done"} => mem'[q] \in PublishingMemory
        /\ step'[p] = "patch" /\ mem'[p] = mem[p]
        /\ \A q \in Requests \ {p} : step'[q] = step[q] /\ mem'[q] = mem[q]
    BY <1>0, <1>1, <1>4, PublishingGoes DEF PublishingSteps
  <2>2. PublishingTypeOK'
    BY <1>0, <1>3, <1>4, <2>1 DEF PublishingTypeOK, base
  <2>3. PublicationProgress'
    BY <1>2, <1>3, <1>4, <2>1, OthersProgress DEF Past, Loops
  <2>4. (NamedIsDone /\ NamedPublicationIsWhole /\ RefsOfOnePublication)'
    BY <1>3, <1>4, <2>1, NamedStays DEF base
  <2> QED
    BY <2>2, <2>3, <2>4 DEF PublishingInv
\* It is patched, or could not be read, and the loop goes on.
<1>5. CASE /\ Onwards(p, "read", "register")
           /\ backRefs \subseteq backRefs' /\ unread \subseteq unread'
           /\ backRefs' \union unread' = backRefs \union unread \union {<<p, ItsLesson(p)>>}
  <2>1. PICK m \in PublishingMemory, to \in {"read", "register"} :
          /\ m.told = mem[p].told /\ m.left # {} /\ m.left \subseteq m.told
          /\ GoesWith(p, to, m)
          /\ \/ to = "read" /\ m.left = mem[p].left \ {ItsLesson(p)}
             \/ to = "register" /\ mem[p].left = {ItsLesson(p)}
    BY <1>0, <1>5, PublishingOnwards DEF Loops
  <2>2. /\ step' \in [Requests -> PublishingSteps]
        /\ mem' \in [Requests -> PublishingMemory \union {Nothing}]
        /\ \A q \in Requests : step'[q] \notin {"free", "done"} => mem'[q] \in PublishingMemory
        /\ step'[p] = to /\ mem'[p] = m
        /\ \A q \in Requests \ {p} : step'[q] = step[q] /\ mem'[q] = mem[q]
    BY <1>0, <2>1, PublishingGoes DEF PublishingSteps
  <2>3. PublishingTypeOK'
    <3>1. backRefs' \subseteq Requests \X CourseLessons /\ unread' \subseteq Requests \X CourseLessons
      BY <1>0, <1>1, <1>5 DEF PublishingTypeOK
    <3>2. <<p, ItsLesson(p)>> \in lessonRecords
      BY <1>1, <1>2
    <3>3. backRefs' \subseteq lessonRecords'
      BY <1>0, <1>3, <3>2 DEF PublishingTypeOK, ReadLesson, PatchLesson, records
    <3> QED
      BY <1>0, <1>3, <2>2, <3>1, <3>3 DEF PublishingTypeOK, base
  <2>4. PublicationProgress'
    <3>1. \A l \in m.told : (to = "register" \/ l \notin m.left) =>
                              <<p, l>> \in backRefs' \union unread'
      BY <1>2, <1>5, <2>1
    <3> QED
      BY <1>2, <1>3, <1>5, <2>1, <2>2, <3>1, OthersProgress DEF Past, Loops
  <2>5. (NamedIsDone /\ NamedPublicationIsWhole /\ RefsOfOnePublication)'
    BY <1>0, <1>3, <1>5, <2>2, NamedStays DEF base
  <2> QED
    BY <2>3, <2>4, <2>5 DEF PublishingInv
<1> QED
  BY <1>4, <1>5 DEF ReadLesson, PatchLesson, Goes, records

LEMMA PublishRegisters ==
  ASSUME PublishingInv, NEW p \in Requests, Register(p)
  PROVE  PublishingInv'
<1>0. PublishingTypeOK /\ step[p] = "register" /\ mem[p] \in PublishingMemory
  BY DEF PublishingInv, Register, PublishingTypeOK
<1>1. /\ GoesWith(p, "done", mem[p]) /\ courseUri' = p /\ byService' = ~mem[p].own
      /\ lessonRefs' = IF mem[p].own THEN Registered(p) ELSE lessonRefs
      /\ UNCHANGED <<content, filmed, records, unread, breaks>>
  BY DEF Register, Goes
<1>2. /\ step' \in [Requests -> PublishingSteps]
      /\ mem' \in [Requests -> PublishingMemory \union {Nothing}]
      /\ \A q \in Requests : step'[q] \notin {"free", "done"} => mem'[q] \in PublishingMemory
      /\ step'[p] = "done"
      /\ \A q \in Requests \ {p} : step'[q] = step[q] /\ mem'[q] = mem[q]
  BY <1>0, <1>1, PublishingGoes DEF PublishingSteps
<1>3. /\ \A l \in mem[p].told : <<p, l>> \in lessonRecords /\ <<p, l>> \in backRefs \union unread
      /\ courseRecords[p] = mem[p].told
  BY <1>0 DEF PublishingInv, PublicationProgress, Past
<1>4. byService' \in BOOLEAN
  BY <1>0, <1>1 DEF PublishingMemory
<1>5. lessonRefs' \in [CourseLessons -> Requests \union {Nothing}]
  BY <1>0, <1>1 DEF PublishingTypeOK, Registered
<1>6. PublishingTypeOK'
  BY <1>0, <1>1, <1>2, <1>4, <1>5 DEF PublishingTypeOK, records
<1>7. PublicationProgress'
  BY <1>1, <1>2, OthersProgress DEF records, Loops
<1>8. NamedIsDone'
  BY <1>1, <1>2 DEF NamedIsDone
<1>9. NamedPublicationIsWhole'
  <2>1. mem[p].told # Nothing
    BY <1>0, PublishingAssumption DEF PublishingMemory
  <2> QED
    BY <1>1, <1>3, <2>1 DEF NamedPublicationIsWhole, records
<1>10. RefsOfOnePublication'
  <2>1. CASE mem[p].own
    <3>1. lessonRefs' = [l \in CourseLessons |-> IF l \in mem[p].told THEN p ELSE Nothing]
      BY <1>1, <2>1 DEF Registered
    <3> QED
      BY <1>1, <1>3, <3>1 DEF RefsOfOnePublication, records
  <2>2. CASE ~mem[p].own
    BY <1>1, <2>2 DEF RefsOfOnePublication
  <2> QED
    BY <2>1, <2>2
<1> QED
  BY <1>6, <1>7, <1>8, <1>9, <1>10 DEF PublishingInv

LEMMA PublishStops ==
  ASSUME PublishingInv, NEW p \in Requests, Abandon(p)
  PROVE  PublishingInv'
<1>0. PublishingTypeOK /\ step[p] \notin {"free", "done"} /\ mem[p] \in PublishingMemory
  BY DEF PublishingInv, Abandon, PublishingTypeOK
<1>1. /\ GoesWith(p, "done", mem[p]) /\ breaks < MaxBreaks /\ breaks' = breaks + 1
      /\ UNCHANGED <<base, records, unread, byService>>
  BY DEF Abandon, Goes
<1>2. /\ step' \in [Requests -> PublishingSteps]
      /\ mem' \in [Requests -> PublishingMemory \union {Nothing}]
      /\ \A q \in Requests : step'[q] \notin {"free", "done"} => mem'[q] \in PublishingMemory
      /\ step'[p] = "done"
      /\ \A q \in Requests \ {p} : step'[q] = step[q] /\ mem'[q] = mem[q]
  BY <1>0, <1>1, PublishingGoes DEF PublishingSteps
<1>3. breaks' \in 0..MaxBreaks
  BY <1>0, <1>1, HandlersAssumption DEF PublishingTypeOK
<1>4. PublishingTypeOK'
  BY <1>0, <1>1, <1>2, <1>3 DEF PublishingTypeOK, base, records
<1>5. PublicationProgress'
  BY <1>1, <1>2, OthersProgress DEF records, Loops
<1>6. (NamedIsDone /\ NamedPublicationIsWhole /\ RefsOfOnePublication)'
  BY <1>0, <1>1, <1>2, NamedStays DEF base, records
<1> QED
  BY <1>4, <1>5, <1>6 DEF PublishingInv

LEMMA PublishingInvStep == PublishingInv /\ [PublishingNext]_publishingVars => PublishingInv'
<1> SUFFICES ASSUME PublishingInv, [PublishingNext]_publishingVars PROVE PublishingInv'
  OBVIOUS
<1>1. CASE UNCHANGED publishingVars
  BY <1>1
  DEF publishingVars, base, records, handlers, PublishingInv, PublishingTypeOK,
      PublicationProgress, NamedIsDone, NamedPublicationIsWhole, RefsOfOnePublication
<1>2. CASE EditContent
  BY <1>2
  DEF EditContent, records, handlers, PublishingInv, PublishingTypeOK,
      PublicationProgress, NamedIsDone, NamedPublicationIsWhole, RefsOfOnePublication
<1> QED
  BY <1>1, <1>2, PublishBegins, PublishPuts, PublishPatches, PublishRegisters, PublishStops
  DEF PublishingNext, Publish

\* Publications keep their types, for any lessons and any number of them.
THEOREM PublishingTypeCorrect == PublishingSpec => []PublishingTypeOK
<1>1. PublishingInv => PublishingTypeOK
  BY DEF PublishingInv
<1> QED
  BY <1>1, PublishingInvInit, PublishingInvStep, PTL DEF PublishingSpec

\* However publications overlap, fail and follow edits, the one that the course
\* names is whole and the lesson refs are its own.
THEOREM PublicationsAreOne == PublishingSpec => []PublicationIsOne
<1>1. PublishingInv => PublicationIsOne
  BY DEF PublishingInv, PublicationIsOne
<1> QED
  BY <1>1, PublishingInvInit, PublishingInvStep, PTL DEF PublishingSpec

-----------------------------------------------------------------------------
\* The layout editors.

\* At most one save is under way, and at most one row of the type.
OneAtATime ==
  /\ excused \/ \A r, q \in Saving : r = q
  /\ excused \/ \A v, w \in Rows : v = w

\* A save under way sends all that is kept and was not taken out, to a row that
\* is there; the form has what it sends, but for what was taken out since.
SavesKeep ==
  \A r \in Saving :
    /\ data.known
    /\ excused \/ kept \ mem[r].without \subseteq mem[r].body
    /\ ~stale => mem[r].body \ removed \subseteq draft
    /\ step[r] = "write" => mem[r].row \in Rows

\* The form has what is kept and what was loaded, but for what was taken out.
FormKeeps ==
  /\ ~stale => excused \/ kept \ removed \subseteq draft
  /\ data.known => data.has \ removed \subseteq draft

\* Nothing is loaded, and hence nothing kept, before there is a row.
RowsComeFirst ==
  /\ (\E q \in Requests : step[q] = "got") \/ data.known => Rows # {}
  /\ kept # {} => data.known

LayoutInv ==
  /\ LayoutTypeOK /\ OneAtATime /\ SavesKeep /\ FormKeeps /\ RowsComeFirst
  /\ SavedEntriesStay

LEMMA LayoutInvInit == LayoutInit => LayoutInv
<1> SUFFICES ASSUME LayoutInit PROVE LayoutInv
  OBVIOUS
<1>1. refetches \in BOOLEAN /\ stale \in BOOLEAN /\ excused \in BOOLEAN
  BY DEF LayoutInit
<1>2. breaks \in 0..MaxBreaks
  BY HandlersAssumption DEF LayoutInit
<1>3. layouts \in [Makers -> [row : BOOLEAN, has : Contents]]
  <2>1. PICK made \in SUBSET {Nothing}, body \in Contents :
          layouts = [m \in Makers |-> [row |-> m \in made,
                                       has |-> IF m \in made THEN body ELSE {}]]
    BY DEF LayoutInit
  <2> QED
    BY <2>1 DEF Contents
<1>4. \A v, w \in Rows : v = w
  <2>1. PICK made \in SUBSET {Nothing}, body \in Contents :
          layouts = [m \in Makers |-> [row |-> m \in made,
                                       has |-> IF m \in made THEN body ELSE {}]]
    BY DEF LayoutInit
  <2> QED
    BY <2>1 DEF Rows
<1>5. data \in [known : BOOLEAN, has : Contents] /\ ~data.known /\ data.has = {}
  BY DEF LayoutInit, Contents
<1>6. draft \in Contents /\ removed \in Contents /\ kept \in Contents
  BY DEF LayoutInit, Contents
<1>7. LayoutTypeOK
  BY <1>1, <1>2, <1>3, <1>5, <1>6 DEF LayoutInit, LayoutTypeOK, LayoutSteps, Makers
<1>8. Saving = {}
  BY DEF LayoutInit, Saving
<1>9. kept = {} /\ \A q \in Requests : step[q] = "free"
  BY DEF LayoutInit
<1> QED
  BY <1>4, <1>5, <1>7, <1>8, <1>9 DEF LayoutInv, OneAtATime, SavesKeep, FormKeeps,
     RowsComeFirst, SavedEntriesStay

\* A request that goes on leaves the types and the others alone.
LEMMA LayoutGoes ==
  ASSUME LayoutTypeOK, NEW r \in Requests, NEW to \in LayoutSteps,
         NEW m \in LayoutMemory \union {Nothing}, GoesWith(r, to, m),
         to \notin {"free", "done"} => m \in LayoutMemory
  PROVE  /\ step' \in [Requests -> LayoutSteps]
         /\ mem' \in [Requests -> LayoutMemory \union {Nothing}]
         /\ \A q \in Requests : step'[q] \notin {"free", "done"} => mem'[q] \in LayoutMemory
         /\ step'[r] = to /\ (to # "done" => mem'[r] = m)
         /\ \A q \in Requests \ {r} : step'[q] = step[q] /\ mem'[q] = mem[q]
         /\ Saving' \ {r} = Saving \ {r}
         /\ r \in Saving' <=> to \in {"edit", "write"}
BY DEF LayoutTypeOK, GoesWith, Saving

LEMMA SentTyped ==
  ASSUME NEW body \in Contents
  PROVE  Sent(body) \in LayoutMemory /\ Sent(body).body = body /\ Sent(body).row = Nothing
BY DEF Sent, LayoutMemory, Makers, Contents

LEMMA LayoutMemTyped ==
  ASSUME LayoutTypeOK, NEW r \in Requests, step[r] \notin {"free", "done"}
  PROVE  /\ mem[r] \in LayoutMemory /\ mem[r].body \in Contents
         /\ mem[r].without \in Contents /\ mem[r].row \in Makers
BY DEF LayoutTypeOK, LayoutMemory

\* What the form, the rows and what is kept owe each other, when none changes.
LEMMA FormStays ==
  ASSUME FormKeeps, UNCHANGED <<data, draft, removed, kept, stale, excused>>
  PROVE  FormKeeps'
BY DEF FormKeeps

LEMMA RowsStay ==
  ASSUME RowsComeFirst, Rows \subseteq Rows', UNCHANGED <<data, kept>>,
         NEW r \in Requests, \A q \in Requests \ {r} : step'[q] = step[q],
         step'[r] # "got"
  PROVE  RowsComeFirst'
BY DEF RowsComeFirst

LEMMA EntriesStay ==
  ASSUME SavedEntriesStay, UNCHANGED <<layouts, kept, excused>>
  PROVE  SavedEntriesStay'
BY DEF SavedEntriesStay, Rows

\* Data that are not outdated have all that is kept.
LEMMA DataAreKept ==
  ASSUME SavedEntriesStay, NEW entries, ~Outdated(entries)
  PROVE  Saving = {} /\ (excused \/ kept \subseteq entries)
BY DEF SavedEntriesStay, Outdated

\* A save that goes on with what it sends.
LEMMA SavesStay ==
  ASSUME SavesKeep, UNCHANGED <<data, draft, removed, kept, stale, excused>>,
         Rows \subseteq Rows',
         NEW r \in Requests, Saving' \subseteq Saving \ {r},
         \A q \in Requests \ {r} : step'[q] = step[q] /\ mem'[q] = mem[q]
  PROVE  SavesKeep'
BY DEF SavesKeep, Saving

LEMMA LayoutBegin ==
  ASSUME LayoutInv, NEW r \in Requests, NEW body \in Contents, BeginLayout(r, body)
  PROVE  LayoutInv'
<1>1. Sent(body) \in LayoutMemory  BY SentTyped
<1>2. /\ step' \in [Requests -> LayoutSteps]
      /\ mem' \in [Requests -> LayoutMemory \union {Nothing}]
      /\ \A q \in Requests : step'[q] \notin {"free", "done"} => mem'[q] \in LayoutMemory
      /\ step'[r] = "insert"
      /\ \A q \in Requests \ {r} : step'[q] = step[q] /\ mem'[q] = mem[q]
      /\ Saving' \ {r} = Saving \ {r} /\ r \notin Saving' /\ r \notin Saving
  BY <1>1, LayoutGoes DEF BeginLayout, LayoutInv, LayoutSteps, Saving
<1>3. UNCHANGED <<layouts, refetches, data, draft, latestSave, outcome, removed, kept,
                  stale, excused, breaks>>
  BY DEF BeginLayout, hook, layoutNotes
<1>4. Saving' = Saving /\ Rows' = Rows
  BY <1>2, <1>3 DEF Rows
<1>5. LayoutTypeOK'
  BY <1>2, <1>3 DEF LayoutInv, LayoutTypeOK
<1>6. OneAtATime'
  BY <1>3, <1>4 DEF LayoutInv, OneAtATime
<1>7. SavesKeep'
  BY <1>2, <1>3, <1>4, SavesStay DEF LayoutInv
<1>8. FormKeeps' /\ SavedEntriesStay' /\ RowsComeFirst'
  BY <1>2, <1>3, <1>4, FormStays, EntriesStay, RowsStay DEF LayoutInv
<1> QED  BY <1>5, <1>6, <1>7, <1>8 DEF LayoutInv

LEMMA LayoutInsert ==
  ASSUME LayoutInv, NEW r \in Requests, InsertLayout(r)
  PROVE  LayoutInv'
<1>1. mem[r] \in LayoutMemory /\ mem[r].body \in Contents
  BY LayoutMemTyped DEF InsertLayout, LayoutInv
<1>2. /\ step' \in [Requests -> LayoutSteps]
      /\ mem' \in [Requests -> LayoutMemory \union {Nothing}]
      /\ \A q \in Requests : step'[q] \notin {"free", "done"} => mem'[q] \in LayoutMemory
      /\ step'[r] = "done"
      /\ \A q \in Requests \ {r} : step'[q] = step[q] /\ mem'[q] = mem[q]
      /\ Saving' \ {r} = Saving \ {r} /\ r \notin Saving' /\ r \notin Saving
  BY <1>1, LayoutGoes DEF InsertLayout, LayoutInv, LayoutSteps, Saving, Goes
<1>3. /\ UNCHANGED <<refetches, data, draft, latestSave, outcome, removed, kept, stale, breaks>>
      /\ layouts' = [layouts EXCEPT ![r] = [row |-> TRUE, has |-> mem[r].body]]
      /\ excused' = (excused \/ Rows # {})
  BY DEF InsertLayout, hook
<1>4. layouts' \in [Makers -> [row : BOOLEAN, has : Contents]] /\ r \in Makers
      /\ Rows' = Rows \union {r} /\ Saving' = Saving
  <2>1. layouts \in [Makers -> [row : BOOLEAN, has : Contents]] /\ r \in Makers
    BY DEF LayoutInv, LayoutTypeOK, Makers
  <2>2. \A m \in Makers : layouts'[m] = IF m = r THEN [row |-> TRUE, has |-> mem[r].body] ELSE layouts[m]
    BY <1>3, <2>1
  <2>3. layouts' \in [Makers -> [row : BOOLEAN, has : Contents]]
    BY <1>1, <1>3, <2>1
  <2>4. Rows' = Rows \union {r}
    BY <2>1, <2>2 DEF Rows
  <2>5. Saving' = Saving
    BY <1>2
  <2> QED
    BY <2>1, <2>3, <2>4, <2>5
<1>5. LayoutTypeOK'
  <2>1. excused' \in BOOLEAN
    BY <1>3 DEF LayoutInv, LayoutTypeOK
  <2> QED
    BY <1>2, <1>3, <1>4, <2>1 DEF LayoutInv, LayoutTypeOK
<1>6. OneAtATime'
  BY <1>3, <1>4 DEF LayoutInv, OneAtATime
<1>7. SavesKeep'
  <2>1. excused => excused'
    BY <1>3
  <2> QED
    BY <1>2, <1>3, <1>4, <2>1 DEF LayoutInv, SavesKeep, Saving
<1>8. FormKeeps' /\ RowsComeFirst'
  <2>1. FormKeeps'
    BY <1>3 DEF LayoutInv, FormKeeps
  <2> QED
    BY <1>2, <1>3, <1>4, <2>1, RowsStay DEF LayoutInv
<1>9. SavedEntriesStay'
  <2>1. ~excused' => kept' = {}
    BY <1>3 DEF LayoutInv, RowsComeFirst
  <2> QED
    BY <2>1 DEF SavedEntriesStay
<1> QED  BY <1>5, <1>6, <1>7, <1>8, <1>9 DEF LayoutInv

LEMMA LayoutMount ==
  ASSUME LayoutInv, NEW r \in Requests, Mount(r)
  PROVE  LayoutInv'
<1>1. Sent({}) \in LayoutMemory
  BY SentTyped DEF Contents
<1>2. /\ step' \in [Requests -> LayoutSteps]
      /\ mem' \in [Requests -> LayoutMemory \union {Nothing}]
      /\ \A q \in Requests : step'[q] \notin {"free", "done"} => mem'[q] \in LayoutMemory
      /\ step'[r] # "got"
      /\ \A q \in Requests \ {r} : step'[q] = step[q] /\ mem'[q] = mem[q]
      /\ Saving' = Saving /\ r \notin Saving
  <2>1. CASE Fetching
    BY <2>1 DEF Mount, LayoutInv, LayoutTypeOK, Saving
  <2>2. CASE ~Fetching
    BY <2>2, <1>1, LayoutGoes DEF Mount, LayoutInv, LayoutSteps, Saving
  <2> QED
    BY <2>1, <2>2
<1>3. /\ UNCHANGED <<layouts, refetches, data, kept, excused, breaks>>
      /\ draft' = data.has /\ latestSave' = Nothing /\ outcome' = "none"
      /\ removed' = {} /\ stale' = Outdated(data.has)
  BY DEF Mount
<1>4. Rows' = Rows
  BY <1>3 DEF Rows
<1>5. LayoutTypeOK'
  <2>1. data.has \in Contents /\ stale' \in BOOLEAN /\ removed' \in Contents /\ Nothing \in Makers
    BY <1>3 DEF LayoutInv, LayoutTypeOK, Contents, Makers, Outdated
  <2> QED
    BY <1>2, <1>3, <2>1 DEF LayoutInv, LayoutTypeOK
<1>6. OneAtATime'
  BY <1>2, <1>3, <1>4 DEF LayoutInv, OneAtATime
<1>7. SavesKeep'
  <2>1. \A q \in Saving : q # r /\ mem'[q] = mem[q] /\ step'[q] = step[q]
    BY <1>2 DEF Saving
  <2>2. Saving # {} => stale'
    BY <1>3 DEF Outdated
  <2> QED
    BY <1>2, <1>3, <1>4, <2>1, <2>2 DEF LayoutInv, SavesKeep
<1>8. FormKeeps'
  BY <1>3, DataAreKept DEF LayoutInv, FormKeeps
<1>9. SavedEntriesStay' /\ RowsComeFirst'
  BY <1>2, <1>3, <1>4, EntriesStay, RowsStay DEF LayoutInv
<1> QED  BY <1>5, <1>6, <1>7, <1>8, <1>9 DEF LayoutInv

\* Steps that go on without touching a save, the form or the rows.
LEMMA LayoutQuiet ==
  ASSUME LayoutInv, NEW r \in Requests, NEW to \in LayoutSteps \ {"edit", "write"},
         NEW m \in LayoutMemory \union {Nothing}, GoesWith(r, to, m),
         to \notin {"free", "done"} => m \in LayoutMemory,
         to = "got" => Rows # {},
         UNCHANGED <<layouts, refetches, data, draft, latestSave, outcome, removed, kept,
                     stale, excused>>,
         breaks' \in 0..MaxBreaks
  PROVE  LayoutInv'
<1>2. /\ step' \in [Requests -> LayoutSteps]
      /\ mem' \in [Requests -> LayoutMemory \union {Nothing}]
      /\ \A q \in Requests : step'[q] \notin {"free", "done"} => mem'[q] \in LayoutMemory
      /\ step'[r] = to
      /\ \A q \in Requests \ {r} : step'[q] = step[q] /\ mem'[q] = mem[q]
      /\ Saving' \ {r} = Saving \ {r} /\ r \notin Saving'
  BY LayoutGoes DEF LayoutInv
<1>3. Rows' = Rows /\ Saving' \subseteq Saving \ {r}
  BY <1>2 DEF Rows
<1>4. LayoutTypeOK'
  BY <1>2 DEF LayoutInv, LayoutTypeOK
<1>5. OneAtATime'
  BY <1>3 DEF LayoutInv, OneAtATime
<1>6. SavesKeep'
  BY <1>2, <1>3, SavesStay DEF LayoutInv
<1>7. FormKeeps'
  BY FormStays DEF LayoutInv
<1>8. SavedEntriesStay'
  BY EntriesStay DEF LayoutInv
<1>9. RowsComeFirst'
  BY <1>2, <1>3 DEF LayoutInv, RowsComeFirst
<1> QED  BY <1>4, <1>5, <1>6, <1>7, <1>8, <1>9 DEF LayoutInv

LEMMA LayoutServe ==
  ASSUME LayoutInv, NEW r \in Requests, ServeGet(r)
  PROVE  LayoutInv'
<1>1. /\ UNCHANGED <<layouts, refetches, data, draft, latestSave, outcome, removed, kept,
                     stale, excused>>
      /\ breaks' \in 0..MaxBreaks /\ step[r] = "get"
  BY DEF ServeGet, hook, layoutNotes, LayoutInv, LayoutTypeOK
<1>2. ASSUME NEW w \in Rows, GoesWith(r, "got", [Sent(layouts[w].has) EXCEPT !.row = w])
      PROVE  LayoutInv'
  <2>1. layouts[w].has \in Contents /\ w \in Makers
    BY DEF LayoutInv, LayoutTypeOK, Rows
  <2>2. [Sent(layouts[w].has) EXCEPT !.row = w] \in LayoutMemory
    BY <2>1, SentTyped DEF LayoutMemory
  <2> QED
    BY <1>1, <1>2, <2>2, LayoutQuiet DEF LayoutSteps
<1>3. CASE Rows = {} /\ Goes(r, "done")
  <2>1. mem[r] \in LayoutMemory
    BY <1>1, LayoutMemTyped DEF LayoutInv
  <2> QED
    BY <1>1, <1>3, <2>1, LayoutQuiet DEF LayoutSteps, Goes
<1> QED  BY <1>2, <1>3 DEF ServeGet

LEMMA LayoutGot ==
  ASSUME LayoutInv, NEW r \in Requests, Got(r)
  PROVE  LayoutInv'
<1>1. mem[r] \in LayoutMemory /\ mem[r].body \in Contents
  BY LayoutMemTyped DEF Got, LayoutInv
<1>t. PICK to \in {"get", "done"}, m \in LayoutMemory : GoesWith(r, to, m)
  BY <1>1, SentTyped DEF Got, Goes, Contents
<1>2. /\ step' \in [Requests -> LayoutSteps]
      /\ mem' \in [Requests -> LayoutMemory \union {Nothing}]
      /\ \A q \in Requests : step'[q] \notin {"free", "done"} => mem'[q] \in LayoutMemory
      /\ step'[r] # "got"
      /\ \A q \in Requests \ {r} : step'[q] = step[q] /\ mem'[q] = mem[q]
      /\ Saving' \ {r} = Saving \ {r} /\ r \notin Saving' /\ r \notin Saving
  <2>1. to \in LayoutSteps /\ m \in LayoutMemory \union {Nothing} /\ r \notin Saving
    BY DEF LayoutSteps, Got, Saving
  <2> QED
    BY <1>t, <2>1, LayoutGoes DEF LayoutInv
<1>3. /\ UNCHANGED <<layouts, refetches, latestSave, outcome, kept, excused, breaks>>
      /\ data' = [known |-> TRUE, has |-> mem[r].body]
      /\ draft' = Filled(r)
      /\ removed' = IF data' = data THEN removed ELSE {}
      /\ stale' = Outdated(mem[r].body)
  BY DEF Got, hook
<1>4. Saving' = Saving /\ Rows' = Rows
  BY <1>2, <1>3 DEF Rows
<1>5. /\ draft' \in Contents /\ removed' \in Contents /\ stale' \in BOOLEAN
      /\ data' \in [known : BOOLEAN, has : Contents]
  BY <1>1, <1>3 DEF LayoutInv, LayoutTypeOK, Contents, Filled, Outdated
<1>6. LayoutTypeOK'
  BY <1>2, <1>3, <1>5 DEF LayoutInv, LayoutTypeOK
<1>7. data'.has \ removed' \subseteq draft'
  <2>1. data'.has = mem[r].body /\ data'.known
    BY <1>3
  <2>2. CASE data.known /\ data.has = mem[r].body
    <3>1. data' = data
      BY <1>3, <2>2 DEF LayoutInv, LayoutTypeOK
    <3> QED
      BY <1>3, <2>2, <3>1 DEF LayoutInv, FormKeeps, Filled
  <2>3. CASE ~(data.known /\ data.has = mem[r].body)
    BY <1>3, <2>1, <2>3 DEF Filled
  <2> QED
    BY <2>2, <2>3
<1>8. FormKeeps'
  <2>1. ASSUME ~stale', ~excused  PROVE kept' \ removed' \subseteq draft'
    <3>2. kept \subseteq mem[r].body
      BY <1>3, <2>1, DataAreKept DEF LayoutInv
    <3> QED
      BY <1>3, <1>7, <3>2
  <2> QED
    BY <1>3, <1>7, <2>1 DEF FormKeeps
<1>9. OneAtATime' /\ SavedEntriesStay'
  BY <1>3, <1>4, EntriesStay DEF LayoutInv, OneAtATime
<1>10. SavesKeep'
  <2>1. \A q \in Saving : q # r /\ mem'[q] = mem[q] /\ step'[q] = step[q]
    BY <1>2 DEF Saving
  <2>2. Saving # {} => stale'
    BY <1>3 DEF Outdated
  <2> QED
    BY <1>3, <1>4, <2>1, <2>2 DEF LayoutInv, SavesKeep
<1>11. RowsComeFirst'
  <2>1. Rows # {}
    BY DEF LayoutInv, RowsComeFirst, Got
  <2> QED
    BY <1>3, <1>4, <2>1 DEF RowsComeFirst
<1> QED  BY <1>6, <1>8, <1>9, <1>10, <1>11 DEF LayoutInv

LEMMA LayoutCompose ==
  ASSUME LayoutInv, NEW x \in Entries, Compose(x)
  PROVE  LayoutInv'
<1>1. /\ UNCHANGED <<layouts, refetches, data, latestSave, outcome, kept, stale, excused,
                     step, mem, breaks>>
      /\ data.known
      /\ \/ x \notin draft /\ draft' = draft \union {x} /\ removed' = removed \ {x}
         \/ x \in draft /\ draft' = draft \ {x} /\ removed' = removed \union {x}
  BY DEF Compose, hook, handlers
<1>2. draft' \in Contents /\ removed' \in Contents
  BY <1>1 DEF LayoutInv, LayoutTypeOK, Contents
<1>3. LayoutTypeOK'
  BY <1>1, <1>2 DEF LayoutInv, LayoutTypeOK
<1>4. Saving' = Saving /\ Rows' = Rows
  BY <1>1 DEF Saving, Rows
<1>c. \A some : some \ removed \subseteq draft => some \ removed' \subseteq draft'
  BY <1>1
<1>5. OneAtATime' /\ SavesKeep'
  BY <1>1, <1>4, <1>c DEF LayoutInv, OneAtATime, SavesKeep
<1>6. FormKeeps'
  BY <1>1, <1>c DEF LayoutInv, FormKeeps
<1>7. RowsComeFirst' /\ SavedEntriesStay'
  BY <1>1, <1>4, EntriesStay DEF LayoutInv, RowsComeFirst
<1> QED  BY <1>3, <1>5, <1>6, <1>7 DEF LayoutInv

LEMMA LayoutSave ==
  ASSUME LayoutInv, NEW r \in Requests, SaveLayout(r)
  PROVE  LayoutInv'
<1> DEFINE saved == [Sent(draft) EXCEPT !.without = removed]
<1>1. saved \in LayoutMemory /\ saved.body = draft /\ saved.without = removed
  BY SentTyped DEF LayoutInv, LayoutTypeOK, LayoutMemory
<1>g. GoesWith(r, "edit", saved) /\ r \notin Saving
  BY DEF SaveLayout, Saving
<1> HIDE DEF saved
<1>2. /\ step' \in [Requests -> LayoutSteps]
      /\ mem' \in [Requests -> LayoutMemory \union {Nothing}]
      /\ \A q \in Requests : step'[q] \notin {"free", "done"} => mem'[q] \in LayoutMemory
      /\ step'[r] = "edit" /\ mem'[r] = saved
      /\ \A q \in Requests \ {r} : step'[q] = step[q] /\ mem'[q] = mem[q]
      /\ Saving' \ {r} = Saving \ {r} /\ r \in Saving' /\ r \notin Saving
  BY <1>1, <1>g, LayoutGoes DEF LayoutInv, LayoutSteps
<1>3. /\ UNCHANGED <<layouts, refetches, data, kept, breaks>>
      /\ data.known
      /\ latestSave' = r /\ outcome' = "none"
      /\ draft' = IF outcome # "none" THEN data.has ELSE draft
      /\ removed' = IF outcome # "none" THEN {} ELSE removed
      /\ stale' = (stale \/ outcome # "none")
      /\ excused' = (excused \/ stale \/ Saving # {})
  BY DEF SaveLayout, Reset
<1>4. Saving' = Saving \union {r} /\ Rows' = Rows
  BY <1>2, <1>3 DEF Rows
<1>5. LayoutTypeOK'
  <2>1. draft' \in Contents /\ removed' \in Contents
    BY <1>3 DEF LayoutInv, LayoutTypeOK, Contents
  <2>2. stale' \in BOOLEAN /\ excused' \in BOOLEAN /\ latestSave' \in Makers
    BY <1>3 DEF LayoutInv, LayoutTypeOK, Makers
  <2> QED
    BY <1>2, <1>3, <2>1, <2>2 DEF LayoutInv, LayoutTypeOK
<1>6. OneAtATime'
  BY <1>3, <1>4 DEF LayoutInv, OneAtATime
<1>7. ~excused' => kept \ removed \subseteq draft
  BY <1>3 DEF LayoutInv, FormKeeps
<1>8. SavesKeep'
  <2>1. \A q \in Saving : mem'[q] = mem[q] /\ step'[q] = step[q]
    BY <1>2 DEF Saving
  <2>2. \A q \in Saving : excused'
    BY <1>3
  <2>3. ASSUME NEW q \in Saving, ~stale'  PROVE mem'[q].body \ removed' \subseteq draft'
    BY <1>3, <2>1, <2>3 DEF LayoutInv, SavesKeep
  <2>4. ASSUME NEW q \in Saving, step'[q] = "write"  PROVE mem'[q].row \in Rows'
    BY <1>4, <2>1, <2>4 DEF LayoutInv, SavesKeep
  <2>5. ~stale' => mem'[r].body \ removed' \subseteq draft'
    BY <1>1, <1>2, <1>3
  <2>6. excused' \/ kept' \ mem'[r].without \subseteq mem'[r].body
    BY <1>1, <1>2, <1>3, <1>7
  <2> QED
    BY <1>2, <1>3, <1>4, <2>2, <2>3, <2>4, <2>5, <2>6 DEF SavesKeep
<1>9. FormKeeps'
  BY <1>3, <1>7 DEF LayoutInv, FormKeeps
<1>10. RowsComeFirst' /\ SavedEntriesStay'
  BY <1>2, <1>3, <1>4 DEF LayoutInv, RowsComeFirst, SavedEntriesStay, Rows
<1> QED  BY <1>5, <1>6, <1>8, <1>9, <1>10 DEF LayoutInv

LEMMA LayoutFind ==
  ASSUME LayoutInv, NEW r \in Requests, FindLayout(r)
  PROVE  LayoutInv'
<1>1. /\ UNCHANGED <<layouts, refetches, data, draft, latestSave, outcome, removed, kept,
                     stale, excused, breaks>>
      /\ step[r] = "edit" /\ r \in Saving
  BY DEF FindLayout, hook, layoutNotes, Saving
<1>2. mem[r] \in LayoutMemory /\ mem[r].body \in Contents
  BY <1>1, LayoutMemTyped DEF LayoutInv
<1>3. ASSUME NEW w \in Rows, GoesWith(r, "write", [mem[r] EXCEPT !.row = w])
      PROVE  LayoutInv'
  <2> DEFINE m == [mem[r] EXCEPT !.row = w]
  <2>1. m \in LayoutMemory /\ m.body = mem[r].body /\ m.without = mem[r].without /\ m.row = w
    BY <1>2 DEF LayoutMemory, Rows
  <2>g. GoesWith(r, "write", m)
    BY <1>3
  <2> HIDE DEF m
  <2>2. /\ step' \in [Requests -> LayoutSteps]
        /\ mem' \in [Requests -> LayoutMemory \union {Nothing}]
        /\ \A q \in Requests : step'[q] \notin {"free", "done"} => mem'[q] \in LayoutMemory
        /\ step'[r] = "write" /\ mem'[r] = m
        /\ \A q \in Requests \ {r} : step'[q] = step[q] /\ mem'[q] = mem[q]
        /\ Saving' \ {r} = Saving \ {r} /\ r \in Saving'
    BY <2>g, <2>1, LayoutGoes DEF LayoutInv, LayoutSteps
  <2>s. Saving' = Saving
    BY <1>1, <2>2
  <2>3. Rows' = Rows
    BY <1>1 DEF Rows
  <2>4. LayoutTypeOK'
    BY <1>1, <2>2 DEF LayoutInv, LayoutTypeOK
  <2>5. OneAtATime' /\ SavedEntriesStay' /\ FormKeeps'
    BY <1>1, <2>s, <2>3, EntriesStay, FormStays DEF LayoutInv, OneAtATime
  <2>6. SavesKeep'
    <3>1. \A q \in Saving : q # r => mem'[q] = mem[q] /\ step'[q] = step[q]
      BY <2>2 DEF Saving
    <3> QED
      BY <1>1, <2>1, <2>2, <2>3, <2>s, <3>1 DEF LayoutInv, SavesKeep
  <2>7. RowsComeFirst'
    BY <1>1, <2>2, <2>3, RowsStay DEF LayoutInv
  <2> QED  BY <2>4, <2>5, <2>6, <2>7 DEF LayoutInv
<1>4. CASE Rows = {} /\ Goes(r, "refused")
  <2>1. breaks' \in 0..MaxBreaks
    BY <1>1 DEF LayoutInv, LayoutTypeOK
  <2> QED
    BY <1>1, <1>2, <1>4, <2>1, LayoutQuiet DEF LayoutSteps, Goes
<1> QED  BY <1>3, <1>4 DEF FindLayout

LEMMA LayoutFails ==
  ASSUME LayoutInv, NEW r \in Requests, SaveFails(r)
  PROVE  LayoutInv'
<1>1. /\ UNCHANGED <<layouts, refetches, data, draft, latestSave, outcome, removed, kept,
                     stale, excused>>
      /\ GoesWith(r, "refused", mem[r])
  BY DEF SaveFails, Goes, hook, layoutNotes
<1>2. mem[r] \in LayoutMemory
  BY LayoutMemTyped DEF SaveFails, LayoutInv
<1>3. breaks' \in 0..MaxBreaks
  BY HandlersAssumption DEF SaveFails, LayoutInv, LayoutTypeOK
<1> QED
  BY <1>1, <1>2, <1>3, LayoutQuiet DEF LayoutSteps

LEMMA LayoutWrite ==
  ASSUME LayoutInv, NEW r \in Requests, WriteLayout(r)
  PROVE  LayoutInv'
<1>1. /\ UNCHANGED <<refetches, data, draft, latestSave, outcome, removed, stale, excused>>
      /\ step[r] = "write" /\ r \in Saving
      /\ layouts' = [layouts EXCEPT ![mem[r].row].has = mem[r].body]
      /\ kept' = (kept \ mem[r].without) \union mem[r].body
  BY DEF WriteLayout, hook, Saving
<1>2. /\ mem[r] \in LayoutMemory /\ mem[r].body \in Contents
      /\ mem[r].without \in Contents /\ mem[r].row \in Makers
  BY <1>1, LayoutMemTyped DEF LayoutInv
<1>3. PICK to \in {"edited", "refused"} : GoesWith(r, to, mem[r])
  BY DEF WriteLayout, Goes
<1>4. /\ step' \in [Requests -> LayoutSteps]
      /\ mem' \in [Requests -> LayoutMemory \union {Nothing}]
      /\ \A q \in Requests : step'[q] \notin {"free", "done"} => mem'[q] \in LayoutMemory
      /\ step'[r] # "got"
      /\ \A q \in Requests \ {r} : step'[q] = step[q] /\ mem'[q] = mem[q]
      /\ Saving' \ {r} = Saving \ {r} /\ r \notin Saving'
  BY <1>2, <1>3, LayoutGoes DEF LayoutInv, LayoutSteps
<1>5. /\ layouts' \in [Makers -> [row : BOOLEAN, has : Contents]]
      /\ \A w \in Makers : layouts'[w].row = layouts[w].row
      /\ layouts'[mem[r].row].has = mem[r].body
  <2>1. layouts \in [Makers -> [row : BOOLEAN, has : Contents]]
    BY DEF LayoutInv, LayoutTypeOK
  <2> QED
    BY <1>1, <1>2, <2>1
<1>6. Rows' = Rows /\ Saving' \subseteq Saving \ {r}
  BY <1>4, <1>5 DEF Rows
<1>7. LayoutTypeOK'
  <2>1. breaks' \in 0..MaxBreaks
    BY HandlersAssumption DEF WriteLayout, LayoutInv, LayoutTypeOK
  <2>2. kept' \in Contents
    BY <1>1, <1>2 DEF LayoutInv, LayoutTypeOK, Contents
  <2> QED
    BY <1>1, <1>4, <1>5, <2>1, <2>2 DEF LayoutInv, LayoutTypeOK
<1>b. ~excused => kept' \subseteq mem[r].body
  BY <1>1 DEF LayoutInv, SavesKeep
<1>8. OneAtATime' /\ FormKeeps'
  <2>1. ~stale => mem[r].body \ removed \subseteq draft
    BY <1>1 DEF LayoutInv, SavesKeep
  <2>2. FormKeeps'
    BY <1>1, <1>b, <2>1 DEF LayoutInv, FormKeeps
  <2> QED
    BY <1>1, <1>6, <2>2 DEF LayoutInv, OneAtATime
<1>9. SavesKeep' /\ RowsComeFirst'
  <2>1. SavesKeep'
    <3>1. \A q \in Saving' : excused /\ q \in Saving /\ mem'[q] = mem[q] /\ step'[q] = step[q]
      BY <1>1, <1>4, <1>6 DEF LayoutInv, OneAtATime, Saving
    <3> QED
      BY <1>1, <1>6, <3>1 DEF LayoutInv, SavesKeep
  <2>2. data.known
    BY <1>1 DEF LayoutInv, SavesKeep
  <2> QED
    BY <1>1, <1>4, <1>6, <2>1, <2>2 DEF LayoutInv, RowsComeFirst
<1>10. SavedEntriesStay'
  <2>1. ASSUME ~excused, NEW w \in Rows  PROVE kept' \subseteq layouts'[w].has
    <3>1. mem[r].row \in Rows /\ kept' \subseteq mem[r].body
      BY <1>1, <1>b, <2>1 DEF LayoutInv, SavesKeep
    <3>2. w = mem[r].row
      BY <2>1, <3>1 DEF LayoutInv, OneAtATime
    <3> QED
      BY <1>5, <3>1, <3>2
  <2> QED
    BY <1>1, <1>6, <2>1 DEF SavedEntriesStay
<1> QED  BY <1>7, <1>8, <1>9, <1>10 DEF LayoutInv

LEMMA LayoutSaved ==
  ASSUME LayoutInv, NEW r \in Requests, SavedLayout(r)
  PROVE  LayoutInv'
<1>1. /\ UNCHANGED <<layouts, refetches, data, latestSave, kept, excused, breaks>>
      /\ step[r] \in {"edited", "refused"} /\ r \notin Saving
      /\ draft' = IF r = latestSave THEN data.has ELSE draft
      /\ removed' = IF r = latestSave THEN {} ELSE removed
      /\ stale' = IF r = latestSave THEN Outdated(data.has) ELSE stale
      /\ outcome' = IF r # latestSave THEN outcome
                    ELSE IF step[r] = "edited" THEN "success" ELSE "error"
  BY DEF SavedLayout, Reset, Saving
<1>2. mem[r] \in LayoutMemory /\ Sent({}) \in LayoutMemory
  BY <1>1, LayoutMemTyped, SentTyped DEF LayoutInv, Contents
<1>3. PICK to \in {"get", "done"}, m \in LayoutMemory : GoesWith(r, to, m)
  BY <1>2 DEF SavedLayout, Goes
<1>4. /\ step' \in [Requests -> LayoutSteps]
      /\ mem' \in [Requests -> LayoutMemory \union {Nothing}]
      /\ \A q \in Requests : step'[q] \notin {"free", "done"} => mem'[q] \in LayoutMemory
      /\ step'[r] # "got"
      /\ \A q \in Requests \ {r} : step'[q] = step[q] /\ mem'[q] = mem[q]
      /\ Saving' = Saving
  <2>1. LayoutTypeOK /\ to \in LayoutSteps /\ m \in LayoutMemory \union {Nothing}
    BY DEF LayoutInv, LayoutSteps
  <2>2. /\ step' \in [Requests -> LayoutSteps]
        /\ mem' \in [Requests -> LayoutMemory \union {Nothing}]
        /\ \A q \in Requests : step'[q] \notin {"free", "done"} => mem'[q] \in LayoutMemory
        /\ step'[r] = to
        /\ \A q \in Requests \ {r} : step'[q] = step[q] /\ mem'[q] = mem[q]
        /\ Saving' \ {r} = Saving \ {r} /\ (r \in Saving' <=> to \in {"edit", "write"})
    BY <1>3, <2>1, LayoutGoes
  <2> QED
    BY <1>1, <2>2
<1>5. Rows' = Rows
  BY <1>1 DEF Rows
<1>6. LayoutTypeOK'
  <2>1. draft' \in Contents /\ removed' \in Contents /\ stale' \in BOOLEAN
        /\ outcome' \in {"none", "success", "error"}
    BY <1>1 DEF LayoutInv, LayoutTypeOK, Contents, Outdated
  <2> QED
    BY <1>1, <1>4, <2>1 DEF LayoutInv, LayoutTypeOK
<1>7. OneAtATime' /\ SavesKeep'
  <2>1. \A q \in Saving : q # r /\ mem'[q] = mem[q] /\ step'[q] = step[q]
    BY <1>1, <1>4 DEF Saving
  <2>2. Saving # {} /\ r = latestSave => stale'
    BY <1>1 DEF Outdated
  <2>3. SavesKeep'
    BY <1>1, <1>4, <1>5, <2>1, <2>2 DEF LayoutInv, SavesKeep
  <2> QED
    BY <1>1, <1>4, <1>5, <2>3 DEF LayoutInv, OneAtATime
<1>8. FormKeeps'
  <2>1. CASE r = latestSave
    <3>1. ~stale' => excused \/ kept \subseteq data.has
      BY <1>1, <2>1, DataAreKept DEF LayoutInv
    <3> QED
      BY <1>1, <2>1, <3>1 DEF FormKeeps
  <2>2. CASE r # latestSave
    BY <1>1, <2>2 DEF LayoutInv, FormKeeps
  <2> QED
    BY <2>1, <2>2
<1>9. RowsComeFirst' /\ SavedEntriesStay'
  BY <1>1, <1>4, <1>5, RowsStay, EntriesStay DEF LayoutInv
<1> QED  BY <1>6, <1>7, <1>8, <1>9 DEF LayoutInv

LEMMA LayoutInvStep == LayoutInv /\ [LayoutNext]_layoutVars => LayoutInv'
<1> SUFFICES ASSUME LayoutInv, [LayoutNext]_layoutVars PROVE LayoutInv'
  OBVIOUS
<1>1. ASSUME NEW r \in Requests, LayoutCall(r)  PROVE LayoutInv'
  BY <1>1, LayoutBegin, LayoutInsert, LayoutMount, LayoutServe, LayoutGot, LayoutSave,
     LayoutFind, LayoutFails, LayoutWrite, LayoutSaved DEF LayoutCall
<1>2. CASE UNCHANGED layoutVars
  <2>1. UNCHANGED <<layouts, refetches, data, draft, latestSave, outcome, removed, kept,
                    stale, excused, step, mem, breaks>>
    BY <1>2 DEF layoutVars, hook, layoutNotes, handlers
  <2>2. Saving' = Saving /\ Rows' = Rows
    BY <2>1 DEF Saving, Rows
  <2> QED
    BY <2>1, <2>2 DEF LayoutInv, LayoutTypeOK, OneAtATime, SavesKeep, FormKeeps,
       RowsComeFirst, SavedEntriesStay
<1> QED
  BY <1>1, <1>2, LayoutCompose DEF LayoutNext, RestLayout

\* Type correctness (cms.controller.ts, EditFaq, EditCategories, EditHero).
THEOREM LayoutTypeCorrect == LayoutSpec => []LayoutTypeOK
<1>1. LayoutInv => LayoutTypeOK
  BY DEF LayoutInv
<1> QED
  BY <1>1, LayoutInvInit, LayoutInvStep, PTL DEF LayoutSpec

\* What a save wrote and no later one took out stays in the layout: for any
\* entries and any number of saves, failed saves, refetches and reopened
\* editors, unless a save was made from a form that had gone back to the layout
\* before an earlier save, or together with another save, or into one of two
\* rows.
THEOREM EntriesAreKept == LayoutSpec => []SavedEntriesStay
<1>1. LayoutInv => SavedEntriesStay
  BY DEF LayoutInv
<1> QED
  BY <1>1, LayoutInvInit, LayoutInvStep, PTL DEF LayoutSpec

-----------------------------------------------------------------------------
\* The course editor.

\* The rows of a course: first those that were replaced, then those that are
\* there, then those that are still to be made.
RowsAre(a, b) ==
  /\ a <= b
  /\ \A l \in LessonIds :
       /\ l <= a => lessonRows[l] = "deleted"
       /\ a < l /\ l <= b => lessonRows[l] \in Videos
       /\ b < l => lessonRows[l] = "unborn"
RowsInv == \E a, b \in 0..MaxLessons : RowsAre(a, b)

\* The store's items came together, and there are only so many drafts.
StoredAre(its, a, n) ==
  \A i \in DOMAIN its : its[i].lesson # 0 <=> a < i /\ i <= a + n
ItemsInv ==
  \E a, n \in Nat :
    /\ StoredAre(items, a, n) /\ a + n <= Len(items) /\ n <= MaxLessons
    /\ Len(items) - n <= MaxItems
    /\ "content" \notin answers => n = 0

CacheInv == adminCache # Nothing => Len(adminCache) <= MaxLessons

\* A list of items, each of them once.
ListOf(list) ==
  /\ list \in Seq(DOMAIN items)
  /\ \A j, k \in DOMAIN list : list[j] = list[k] => j = k

ListsInv ==
  /\ ListOf(form) /\ wanted \in Seq(DOMAIN items)
  /\ \A u \in Mounted : ListOf(mem[u].list) /\ mem[u].at \in DOMAIN mem[u].list

\* Outside the page with the uploads their panels have gone, and outside the
\* editor they have no form to write to.
PanelsInv ==
  /\ page # "content" => Mounted \subseteq loose
  /\ page = "closed" => Mounted = {} /\ items = <<>>

\* The form is as the author left it, until an upload puts back an older one.
FormInv == overtaken \/ form = wanted

\* An upload whose cancellation was noticed in time has not published.
CancelInv ==
  /\ \A u \in Requests :
       step[u] \in {"free", "send", "poll", "asked", "publish"} => u \notin published
  /\ \A u \in aborted : step[u] \notin {"free", "attach", "spread"}
  /\ \A u \in aborted \ tooLate : step[u] \in {"send", "poll", "done"} /\ u \notin published

ScriptMemory == [video : Requests, left : SUBSET LessonIds]
MemoryInv == mem \in [Requests -> UploadMemory \union ScriptMemory \union {Nothing}]

FormItems == [lesson : 0..MaxLessons, video : Videos]

EditorInv ==
  /\ EditorTypeOK /\ MemoryInv
  /\ RowsInv /\ ItemsInv /\ CacheInv /\ ListsInv /\ PanelsInv /\ FormInv
  /\ PreviewIsWanted /\ CancelInv

-----------------------------------------------------------------------------
\* Sequences, and what the form shows of the store.

LEMMA SeqOfFunction ==
  ASSUME NEW S, NEW n \in Nat, NEW f \in [1..n -> S]
  PROVE  f \in Seq(S) /\ Len(f) = n
<1>1. f \in Seq(S)
  BY SeqDef
<1> QED
  BY <1>1, LenProperties

LEMMA IntervalCount ==
  ASSUME NEW a \in Nat, NEW b \in Nat, a <= b
  PROVE  IsFiniteSet(a + 1..b) /\ Cardinality(a + 1..b) = b - a
<1>1. PICK c \in Int : c = a + 1
  OBVIOUS
<1>2. IsFiniteSet(c..b) /\ Cardinality(c..b) = IF c > b THEN 0 ELSE b - c + 1
  BY FS_Interval
<1> QED
  BY <1>1, <1>2

\* What the form shows of the store is a list.
LEMMA ShownList ==
  ASSUME NEW its \in Seq(FormItems), NEW a \in Nat, NEW n \in Nat, StoredAre(its, a, n),
         a + n <= Len(its)
  PROVE  /\ Shown(its) \in Seq(DOMAIN its)
         /\ \A j, k \in DOMAIN Shown(its) : Shown(its)[j] = Shown(its)[k] => j = k
<1> DEFINE block == {i \in DOMAIN its : its[i].lesson # 0}
<1>1. DOMAIN its = 1..Len(its) /\ Len(its) \in Nat
  OBVIOUS
<1>2. block = a + 1..a + n
  BY <1>1 DEF StoredAre
<1>3. Cardinality(block) = n
  <2>1. a + n \in Nat /\ a <= a + n /\ (a + n) - a = n
    OBVIOUS
  <2> QED
    BY <1>2, <2>1, IntervalCount
<1>4. n > 0 => Min(block) = a + 1
  <2> SUFFICES ASSUME n > 0 PROVE Min(block) = a + 1
    OBVIOUS
  <2>1. a + 1 \in block /\ \A y \in block : a + 1 <= y
    BY <1>2
  <2>2. \A x \in block : (\A y \in block : x <= y) => x = a + 1
    BY <1>2, <2>1
  <2> HIDE DEF block
  <2> QED
    BY <2>1, <2>2 DEF Min
<1>5. Shown(its) = [k \in 1..n |-> Min(block) + k - 1]
  BY <1>3 DEF Shown
<1> HIDE DEF block
<1>6. Shown(its) = [k \in 1..n |-> a + k]
  BY <1>4, <1>5
<1>7. \A k \in 1..n : a + k \in DOMAIN its
  BY <1>1
<1> QED
  BY <1>6, <1>7

\* How many drafts there are.
LEMMA DraftCount ==
  ASSUME NEW its \in Seq(FormItems), NEW a \in Nat, NEW n \in Nat, StoredAre(its, a, n),
         a + n <= Len(its)
  PROVE  Cardinality({i \in DOMAIN its : its[i].lesson = 0}) = Len(its) - n
<1> DEFINE front == 1..a   after == a + n + 1..Len(its)
           drafts == {i \in DOMAIN its : its[i].lesson = 0}
<1>1. DOMAIN its = 1..Len(its) /\ Len(its) \in Nat
  OBVIOUS
<1>2. \A i \in DOMAIN its : its[i].lesson = 0 <=> ~(a < i /\ i <= a + n)
  BY DEF StoredAre
<1>3. drafts = front \union after
  BY <1>1, <1>2
<1>4. /\ IsFiniteSet(front) /\ Cardinality(front) = a
      /\ IsFiniteSet(after) /\ Cardinality(after) = Len(its) - (a + n)
  <2>1. a + n \in Nat
    OBVIOUS
  <2>2. IsFiniteSet(front) /\ Cardinality(front) = a
    BY FS_Interval
  <2>3. IsFiniteSet(after) /\ Cardinality(after) = Len(its) - (a + n)
    BY <1>1, <2>1, IntervalCount
  <2> QED
    BY <2>2, <2>3
<1>5. front \intersect after = {}
  OBVIOUS
<1> HIDE DEF front, after, drafts
<1>6. Cardinality(drafts) = Cardinality(front) + Cardinality(after) - Cardinality({})
  BY <1>3, <1>4, <1>5, FS_Union
<1>7. Cardinality({}) = 0
  BY FS_EmptySet
<1>8. Cardinality(drafts) = Len(its) - n
  BY <1>1, <1>4, <1>6, <1>7
<1> QED
  BY <1>8 DEF drafts

\* The rows are counted.
LEMMA RowCounts ==
  ASSUME NEW a \in 0..MaxLessons, NEW b \in 0..MaxLessons, RowsAre(a, b)
  PROVE  /\ {l \in LessonIds : lessonRows[l] = "deleted"} = 1..a
         /\ Live = a + 1..b
         /\ {l \in LessonIds : lessonRows[l] = "unborn"} = b + 1..MaxLessons
         /\ {l \in LessonIds : lessonRows[l] # "unborn"} = 1..b
         /\ Cardinality(1..a) = a /\ Cardinality(1..b) = b /\ Cardinality(a + 1..b) = b - a
         /\ Cardinality(b + 1..MaxLessons) = MaxLessons - b
<1>1. MaxLessons \in Nat /\ "unborn" \notin Videos /\ "deleted" \notin Videos
      /\ "unborn" # "deleted"
  BY EditorAssumption
<1>2. a <= b /\ a \in Nat /\ b \in Nat
  BY <1>1 DEF RowsAre
<1>3. \A l \in LessonIds :
        \/ l <= a /\ lessonRows[l] = "deleted"
        \/ a < l /\ l <= b /\ lessonRows[l] \in Videos
        \/ b < l /\ lessonRows[l] = "unborn"
  BY <1>1, <1>2 DEF RowsAre, LessonIds
<1>4. /\ {l \in LessonIds : lessonRows[l] = "deleted"} = 1..a
      /\ Live = a + 1..b
      /\ {l \in LessonIds : lessonRows[l] = "unborn"} = b + 1..MaxLessons
      /\ {l \in LessonIds : lessonRows[l] # "unborn"} = 1..b
  <2>1. \A l \in LessonIds : lessonRows[l] = "deleted" <=> l <= a
    BY <1>1, <1>2, <1>3 DEF LessonIds
  <2>2. \A l \in LessonIds : lessonRows[l] \in Videos <=> a < l /\ l <= b
    BY <1>1, <1>2, <1>3 DEF LessonIds
  <2>3. \A l \in LessonIds : lessonRows[l] = "unborn" <=> b < l
    BY <1>1, <1>2, <1>3 DEF LessonIds
  <2>4. {l \in LessonIds : lessonRows[l] = "deleted"} = 1..a
    BY <1>1, <1>2, <2>1 DEF LessonIds
  <2>5. Live = a + 1..b
    BY <1>1, <1>2, <2>2 DEF LessonIds, Live
  <2>6. {l \in LessonIds : lessonRows[l] = "unborn"} = b + 1..MaxLessons
    BY <1>1, <1>2, <2>3 DEF LessonIds
  <2>7. {l \in LessonIds : lessonRows[l] # "unborn"} = 1..b
    BY <1>1, <1>2, <2>3 DEF LessonIds
  <2> QED
    BY <2>4, <2>5, <2>6, <2>7
<1>5. /\ Cardinality(1..a) = a /\ Cardinality(1..b) = b
  BY <1>2, FS_Interval
<1>6. Cardinality(a + 1..b) = b - a
  BY <1>2, IntervalCount
<1>7. Cardinality(b + 1..MaxLessons) = MaxLessons - b
  BY <1>1, <1>2, IntervalCount
<1> QED
  BY <1>4, <1>5, <1>6, <1>7

LEMMA ContentList ==
  ASSUME RowsInv
  PROVE  Content \in Seq([lesson : LessonIds, video : Videos]) /\ Len(Content) <= MaxLessons
<1>1. PICK a \in 0..MaxLessons, b \in 0..MaxLessons : RowsAre(a, b)
  BY DEF RowsInv
<1>2. MaxLessons \in Nat /\ a \in Nat /\ b \in Nat /\ a <= b /\ b <= MaxLessons
  BY <1>1, EditorAssumption DEF RowsAre
<1>3. Content = [k \in 1..b - a |-> [lesson |-> a + k, video |-> lessonRows[a + k]]]
  <2>1. /\ Cardinality({l \in LessonIds : lessonRows[l] = "deleted"}) = a
        /\ Cardinality(Live) = b - a
    BY <1>1, RowCounts
  <2> QED
    BY <2>1 DEF Content
<1>4. \A k \in 1..b - a : a + k \in LessonIds /\ a < a + k /\ a + k <= b
  BY <1>2 DEF LessonIds
<1>5. \A k \in 1..b - a : lessonRows[a + k] \in Videos
  BY <1>1, <1>4 DEF RowsAre
<1>6. PICK n \in Nat : n = b - a /\ n <= MaxLessons
  BY <1>2
<1>7. \A k \in 1..n : Content[k] \in [lesson : LessonIds, video : Videos]
  BY <1>3, <1>4, <1>5, <1>6
<1>8. Content \in [1..n -> [lesson : LessonIds, video : Videos]]
  BY <1>3, <1>6, <1>7
<1> QED
  BY <1>6, <1>8, SeqOfFunction

LEMMA ReplacedRows ==
  ASSUME RowsInv, NEW videos \in Seq(Videos), Room(Len(videos)), lessonRows' = Replaced(videos)
  PROVE  RowsInv' /\ lessonRows' \in [LessonIds -> Videos \union {"unborn", "deleted"}]
<1>1. PICK a \in 0..MaxLessons, b \in 0..MaxLessons : RowsAre(a, b)
  BY DEF RowsInv
<1>2. MaxLessons \in Nat /\ a \in Nat /\ b \in Nat /\ a <= b /\ b <= MaxLessons
  BY <1>1, EditorAssumption DEF RowsAre
<1>3. PICK n \in Nat : n = Len(videos) /\ b + n <= MaxLessons
  <2>1. Cardinality({l \in LessonIds : lessonRows[l] = "unborn"}) = MaxLessons - b
    BY <1>1, RowCounts
  <2>2. Len(videos) \in Nat /\ Len(videos) <= MaxLessons - b
    BY <2>1 DEF Room
  <2> QED
    BY <1>2, <2>2
<1>4. lessonRows' = [l \in LessonIds |->
        IF l \in b + 1..b + n THEN videos[l - b]
        ELSE IF lessonRows[l] = "unborn" THEN "unborn" ELSE "deleted"]
  BY <1>1, <1>3, RowCounts DEF Replaced
<1>5. \A l \in b + 1..b + n : videos[l - b] \in Videos
  BY <1>2, <1>3
<1>6. \A l \in LessonIds :
        /\ l <= b => lessonRows'[l] = "deleted"
        /\ b < l /\ l <= b + n => lessonRows'[l] \in Videos
        /\ b + n < l => lessonRows'[l] = "unborn"
  <2> SUFFICES ASSUME NEW l \in LessonIds
               PROVE  /\ l <= b => lessonRows'[l] = "deleted"
                      /\ b < l /\ l <= b + n => lessonRows'[l] \in Videos
                      /\ b + n < l => lessonRows'[l] = "unborn"
    OBVIOUS
  <2>0. l \in Nat
    BY DEF LessonIds
  <2>1. l <= b => lessonRows[l] # "unborn"
    BY <1>1, <1>2, <2>0, EditorAssumption DEF RowsAre
  <2>2. b < l => lessonRows[l] = "unborn"
    BY <1>1, <1>2, <2>0 DEF RowsAre
  <2>3. l \in b + 1..b + n <=> b < l /\ l <= b + n
    BY <1>2, <1>3, <2>0
  <2> QED
    BY <1>2, <1>3, <1>4, <1>5, <2>0, <2>1, <2>2, <2>3
<1>7. b + n \in 0..MaxLessons /\ b <= b + n
  BY <1>2, <1>3
<1>8. RowsInv'
  <2> DEFINE c == b + n
  <2>1. c \in 0..MaxLessons /\ b <= c
    BY <1>7
  <2>2. RowsAre(b, c)'
    BY <1>6, <1>7 DEF RowsAre
  <2> HIDE DEF c
  <2> QED
    BY <2>1, <2>2 DEF RowsInv
<1>9. \A l \in LessonIds : lessonRows'[l] \in Videos \union {"unborn", "deleted"}
  BY <1>4, <1>5
<1> QED
  BY <1>4, <1>8, <1>9

\* Videos get into rows that are there.
LEMMA LinkedRows ==
  ASSUME RowsInv, lessonRows \in [LessonIds -> Videos \union {"unborn", "deleted"}],
         lessonRows' \in [LessonIds -> Videos \union {"unborn", "deleted"}],
         \A l \in LessonIds :
           lessonRows'[l] = lessonRows[l] \/ (l \in Live /\ lessonRows'[l] \in Requests)
  PROVE  RowsInv'
<1>1. PICK a \in 0..MaxLessons, b \in 0..MaxLessons : RowsAre(a, b)
  BY DEF RowsInv
<1>2. Live = a + 1..b
  BY <1>1, RowCounts
<1>3. Requests \subseteq Videos
  BY DEF Videos
<1>4. a \in Nat /\ b \in Nat
  BY EditorAssumption
<1>5. RowsAre(a, b)'
  BY <1>1, <1>2, <1>3, <1>4 DEF RowsAre, LessonIds
<1> QED
  BY <1>5 DEF RowsInv

LEMMA NoList ==
  /\ \A S : <<>> \in Seq(S)
  /\ DOMAIN <<>> = {} /\ Len(<<>>) = 0 /\ Range(<<>>) = {}
BY DEF Range

LEMMA EditorInvInit == EditorInit => EditorInv
<1> SUFFICES ASSUME EditorInit PROVE EditorInv
  OBVIOUS
<1> USE DEF EditorInit
<1>1. PICK n \in 0..MaxLessons :
        lessonRows = [l \in LessonIds |-> IF l <= n THEN Nothing ELSE "unborn"]
  OBVIOUS
<1>2. RowsAre(0, n) /\ 0 \in 0..MaxLessons
  BY <1>1, EditorAssumption DEF RowsAre, LessonIds, Videos
<1>3. RowsInv
  BY <1>2 DEF RowsInv
<1>4. lessonRows \in [LessonIds -> Videos \union {"unborn", "deleted"}]
  BY <1>1 DEF Videos
<1>5. EditorTypeOK
  <2>1. 0 \in 0..MaxBreaks /\ 0 <= MaxItems + MaxLessons
    BY HandlersAssumption, EditorAssumption
  <2> QED
    BY <1>4, <2>1, NoList DEF EditorTypeOK, EditorSteps, Uploading, Scripted
<1>6. MemoryInv
  BY DEF MemoryInv
<1>7. ItemsInv
  <2>1. StoredAre(items, 0, 0) /\ 0 \in Nat /\ 0 + 0 <= Len(items) /\ 0 <= MaxLessons
        /\ Len(items) - 0 <= MaxItems
    BY NoList, EditorAssumption DEF StoredAre
  <2> QED
    BY <2>1 DEF ItemsInv
<1>8. Mounted = {}
  BY DEF Mounted, Uploading
<1>9. ListsInv
  BY <1>8, NoList DEF ListsInv, ListOf
<1> QED
  BY <1>3, <1>5, <1>6, <1>7, <1>8, <1>9
  DEF EditorInv, CacheInv, PanelsInv, FormInv, PreviewIsWanted, CancelInv

-----------------------------------------------------------------------------
\* Uploads and scripts that change nothing of the editor.

LEMMA MemoryGoes ==
  ASSUME EditorTypeOK, MemoryInv, NEW u \in Requests, NEW to \in EditorSteps \ {"free"}, NEW m,
         GoesWith(u, to, m),
         to \in {"send", "poll", "asked", "publish", "link"} => m \in UploadMemory,
         to \in {"attach", "spread"} => m \in ScriptMemory
  PROVE  /\ step' \in [Requests -> EditorSteps]
         /\ MemoryInv'
         /\ \A v \in Requests : /\ Uploading(v)' => mem'[v] \in UploadMemory
                                /\ Scripted(v)' => mem'[v] \in ScriptMemory
         /\ step'[u] = to /\ (to # "done" => mem'[u] = m)
         /\ \A v \in Requests \ {u} : step'[v] = step[v] /\ mem'[v] = mem[v]
<1>1. /\ step' = [step EXCEPT ![u] = to]
      /\ mem' = [mem EXCEPT ![u] = IF to = "done" THEN Nothing ELSE m]
  BY DEF GoesWith
<1>2. step \in [Requests -> EditorSteps]
      /\ mem \in [Requests -> UploadMemory \union ScriptMemory \union {Nothing}]
  BY DEF EditorTypeOK, MemoryInv
<1>3. to # "done" => m \in UploadMemory \union ScriptMemory
  BY DEF EditorSteps
<1>4. step' \in [Requests -> EditorSteps] /\ MemoryInv'
  BY <1>1, <1>2, <1>3 DEF MemoryInv
<1>5. step'[u] = to /\ (to # "done" => mem'[u] = m)
      /\ \A v \in Requests \ {u} : step'[v] = step[v] /\ mem'[v] = mem[v]
  BY <1>1, <1>2
<1>6. \A v \in Requests : /\ Uploading(v) => mem[v] \in UploadMemory
                          /\ Scripted(v) => mem[v] \in ScriptMemory
  BY DEF EditorTypeOK, ScriptMemory
<1>7. \A v \in Requests : /\ Uploading(v)' => mem'[v] \in UploadMemory
                          /\ Scripted(v)' => mem'[v] \in ScriptMemory
  BY <1>5, <1>6 DEF Uploading, Scripted
<1> QED
  BY <1>4, <1>5, <1>7

\* u goes on with what it has, or as a script.
LEMMA UploadMoves ==
  ASSUME EditorInv, NEW u \in Requests, NEW to \in EditorSteps \ {"free"}, NEW m,
         GoesWith(u, to, m),
         UNCHANGED <<editor, aborted, loose, unmounted, breaks, editorNotes>>,
         to \in {"send", "poll", "asked", "publish", "link"} => Uploading(u) /\ m = mem[u],
         to \in {"attach", "spread"} => m \in ScriptMemory /\ u \notin aborted,
         published \subseteq published', published' \subseteq published \union {u},
         to \in {"send", "poll", "asked", "publish"} => u \notin published',
         u \in aborted \ tooLate => to \in {"send", "poll", "done"} /\ u \notin published',
         lessonRows' \in [LessonIds -> Videos \union {"unborn", "deleted"}],
         \A l \in LessonIds :
           lessonRows'[l] = lessonRows[l] \/ (l \in Live /\ lessonRows'[l] \in Requests)
  PROVE  EditorInv'
<1> USE DEF editor, editorNotes
<1>0. EditorTypeOK /\ MemoryInv
  BY DEF EditorInv
<1>1. to \in {"send", "poll", "asked", "publish", "link"} => m \in UploadMemory
  BY <1>0 DEF EditorTypeOK
<1>2. /\ step' \in [Requests -> EditorSteps]
      /\ MemoryInv'
      /\ \A v \in Requests : /\ Uploading(v)' => mem'[v] \in UploadMemory
                             /\ Scripted(v)' => mem'[v] \in ScriptMemory
      /\ step'[u] = to /\ (to # "done" => mem'[u] = m)
      /\ \A v \in Requests \ {u} : step'[v] = step[v] /\ mem'[v] = mem[v]
  BY <1>0, <1>1, MemoryGoes
<1>3. RowsInv'
  BY <1>0, LinkedRows DEF EditorInv, EditorTypeOK
<1>4. EditorTypeOK'
  BY <1>0, <1>2 DEF EditorTypeOK, ScriptMemory
<1>5. \A v \in Mounted' : v \in Mounted /\ mem'[v] = mem[v]
  BY <1>2 DEF Mounted, Uploading
<1>6. ItemsInv' /\ CacheInv' /\ FormInv' /\ PreviewIsWanted'
  BY DEF EditorInv, ItemsInv, StoredAre, CacheInv, FormInv, PreviewIsWanted, VideosOf
<1>7. ListsInv' /\ PanelsInv'
  BY <1>5 DEF EditorInv, ListsInv, ListOf, PanelsInv
<1>8. CancelInv'
  <2>1. CancelInv
    BY DEF EditorInv
  <2>2. \A v \in Requests \ {u} : v \in published' <=> v \in published
    OBVIOUS
  <2>3. \A v \in Requests :
          step'[v] \in {"free", "send", "poll", "asked", "publish"} => v \notin published'
    BY <1>2, <2>1, <2>2 DEF CancelInv
  <2>4. \A v \in aborted : step'[v] \notin {"free", "attach", "spread"}
    BY <1>0, <1>2, <2>1 DEF CancelInv, EditorTypeOK
  <2>5. \A v \in aborted \ tooLate : step'[v] \in {"send", "poll", "done"} /\ v \notin published'
    BY <1>0, <1>2, <2>1, <2>2 DEF CancelInv, EditorTypeOK
  <2> QED
    BY <2>3, <2>4, <2>5 DEF CancelInv
<1> QED
  BY <1>2, <1>3, <1>4, <1>6, <1>7, <1>8 DEF EditorInv

\* What is known of the rows, and of who is where.
LEMMA EditorKnows ==
  ASSUME EditorInv
  PROVE  /\ lessonRows \in [LessonIds -> Videos \union {"unborn", "deleted"}]
         /\ Live \subseteq LessonIds /\ published \subseteq Requests
         /\ \A u \in Requests :
              /\ Uploading(u) => mem[u] \in UploadMemory
              /\ Scripted(u) => mem[u] \in ScriptMemory /\ u \notin aborted
              /\ step[u] \in {"free", "send", "poll", "asked", "publish"} => u \notin published
              /\ step[u] = "free" => u \notin aborted
              /\ u \in aborted \ tooLate => step[u] \in {"send", "poll", "done"}
BY DEF EditorInv, EditorTypeOK, CancelInv, Live, Scripted, ScriptMemory

LEMMA UploadGoesOn ==
  ASSUME EditorInv, NEW u \in Requests, Transfer(u) \/ Poll(u) \/ Polled(u) \/ PublishVideo(u)
  PROVE  EditorInv'
<1>1. UNCHANGED <<lessonRows, editor, aborted, loose, unmounted, breaks, editorNotes>>
  BY DEF Transfer, Poll, Polled, PublishVideo, OnlyUploads, server
<1>2. Uploading(u)
  BY DEF Transfer, Poll, Polled, PublishVideo, Uploading
<1>3. CASE Transfer(u)
  <2>1. step[u] = "send" /\ published' = published
    BY <1>3 DEF Transfer, OnlyUploads, server
  <2>2. PICK to \in {"poll", "done"} : GoesWith(u, to, mem[u])
    BY <1>3 DEF Transfer, Goes
  <2> QED
    BY <1>1, <1>2, <2>1, <2>2, EditorKnows, UploadMoves DEF EditorSteps
<1>4. CASE Poll(u)
  <2>1. step[u] = "poll" /\ published' = published
    BY <1>4 DEF Poll, OnlyUploads, server
  <2>2. PICK to \in {"asked", "done"} : GoesWith(u, to, mem[u]) /\ (u \in aborted => to = "done")
    BY <1>4 DEF Poll, Looks, Goes
  <2> QED
    BY <1>1, <1>2, <2>1, <2>2, EditorKnows, UploadMoves DEF EditorSteps
<1>5. CASE Polled(u)
  <2>1. step[u] = "asked" /\ published' = published
    BY <1>5 DEF Polled, OnlyUploads, server
  <2>2. PICK to \in {"publish", "poll", "done"} : GoesWith(u, to, mem[u])
    BY <1>5 DEF Polled, Goes
  <2>3. u \notin aborted \ tooLate
    BY <2>1, EditorKnows
  <2> QED
    BY <1>1, <1>2, <2>1, <2>2, <2>3, EditorKnows, UploadMoves DEF EditorSteps
<1>6. CASE PublishVideo(u)
  <2>1. step[u] = "publish" /\ published' = published \union {u}
    BY <1>6 DEF PublishVideo
  <2>2. PICK to \in {"link", "done"} : GoesWith(u, to, mem[u])
    BY <1>6 DEF PublishVideo, Goes
  <2>3. u \notin aborted \ tooLate
    BY <2>1, EditorKnows
  <2> QED
    BY <1>1, <1>2, <2>1, <2>2, <2>3, EditorKnows, UploadMoves DEF EditorSteps
<1> QED
  BY <1>3, <1>4, <1>5, <1>6

LEMMA VideoLinked ==
  ASSUME EditorInv, NEW u \in Requests, LinkVideo(u)
  PROVE  EditorInv'
<1>1. /\ step[u] = "link" /\ Uploading(u) /\ GoesWith(u, "done", mem[u])
      /\ UNCHANGED <<published, editor, aborted, loose, unmounted, breaks, editorNotes>>
  BY DEF LinkVideo, Goes, Uploading
<1>2. lessonRows' = IF mem[u].lesson \in Live
                    THEN [lessonRows EXCEPT ![mem[u].lesson] = u] ELSE lessonRows
  BY DEF LinkVideo
<1>3. u \notin aborted \ tooLate /\ Live \subseteq LessonIds
      /\ lessonRows \in [LessonIds -> Videos \union {"unborn", "deleted"}]
  BY <1>1, EditorKnows
<1>4. /\ lessonRows' \in [LessonIds -> Videos \union {"unborn", "deleted"}]
      /\ \A l \in LessonIds :
           lessonRows'[l] = lessonRows[l] \/ (l \in Live /\ lessonRows'[l] \in Requests)
  BY <1>2, <1>3 DEF Videos
<1> QED
  BY <1>1, <1>3, <1>4, UploadMoves DEF EditorSteps

LEMMA ScriptsMove ==
  ASSUME EditorInv, NEW u \in Requests,
         PublishHeadless(u) \/ AttachByScript(u) \/ (\E v \in Requests : AttachPublished(u, v))
           \/ Spread(u)
  PROVE  EditorInv'
<1>0. /\ lessonRows \in [LessonIds -> Videos \union {"unborn", "deleted"}]
      /\ Live \subseteq LessonIds /\ published \subseteq Requests
  BY EditorKnows
<1>1. CASE PublishHeadless(u)
  <2>1. step[u] = "free" /\ u \notin aborted
        /\ UNCHANGED <<lessonRows, editor, aborted, loose, unmounted, breaks, editorNotes>>
    BY <1>1, EditorKnows DEF PublishHeadless, PublishByScript, OnlyScripts, server
  <2>2. PICK to, m :
          /\ to \in {"attach", "done"} /\ GoesWith(u, to, m)
          /\ to = "attach" => m \in ScriptMemory
          /\ published' \in {published, published \union {u}}
    <3>1. CASE Goes(u, "done")
      BY <1>1, <3>1 DEF PublishHeadless, PublishByScript, Goes, server
    <3>2. CASE \E l \in Live : GoesWith(u, "attach", Script(u, {l}))
      <4>1. PICK l \in Live : GoesWith(u, "attach", Script(u, {l}))
        BY <3>2
      <4>2. Script(u, {l}) \in ScriptMemory
        BY <1>0 DEF Script, ScriptMemory
      <4>3. published' \in {published, published \union {u}}
        BY <1>1 DEF PublishHeadless, PublishByScript, server
      <4> QED
        BY <4>1, <4>2, <4>3
    <3> QED
      BY <1>1, <3>1, <3>2 DEF PublishHeadless, PublishByScript
  <2> QED
    BY <1>0, <2>1, <2>2, UploadMoves DEF EditorSteps
<1>2. CASE AttachByScript(u)
  <2>1. /\ step[u] = "attach" /\ GoesWith(u, "done", mem[u])
        /\ UNCHANGED <<published, editor, aborted, loose, unmounted, breaks, editorNotes>>
        /\ lessonRows' = [l \in LessonIds |->
             IF l \in mem[u].left \intersect Live THEN mem[u].video ELSE lessonRows[l]]
    BY <1>2 DEF AttachByScript, Goes, OnlyScripts
  <2>2. mem[u].video \in Requests /\ u \notin aborted
    BY <2>1, EditorKnows DEF Scripted, ScriptMemory
  <2>3. /\ lessonRows' \in [LessonIds -> Videos \union {"unborn", "deleted"}]
        /\ \A l \in LessonIds :
             lessonRows'[l] = lessonRows[l] \/ (l \in Live /\ lessonRows'[l] \in Requests)
    BY <1>0, <2>1, <2>2 DEF Videos
  <2> QED
    BY <2>1, <2>2, <2>3, UploadMoves DEF EditorSteps
<1>3. CASE \E v \in Requests : AttachPublished(u, v)
  <2>1. PICK v \in Requests : AttachPublished(u, v)
    BY <1>3
  <2>2. step[u] = "free" /\ u \notin aborted
        /\ UNCHANGED <<server, editor, aborted, loose, unmounted, breaks, editorNotes>>
    BY <2>1, EditorKnows DEF AttachPublished, OnlyScripts
  <2>3. PICK targets : targets \subseteq LessonIds /\ GoesWith(u, "spread", Script(v, targets))
    BY <1>0, <2>1 DEF AttachPublished
  <2>4. Script(v, targets) \in ScriptMemory
    BY <2>3 DEF Script, ScriptMemory
  <2> QED
    BY <1>0, <2>2, <2>3, <2>4, UploadMoves DEF EditorSteps, server
<1>4. CASE Spread(u)
  <2> DEFINE ls == mem[u].left  next == CHOOSE l \in ls : \A k \in ls : l <= k
  <2>1. /\ step[u] = "spread"
        /\ UNCHANGED <<published, editor, aborted, loose, unmounted, breaks, editorNotes>>
    BY <1>4 DEF Spread, OnlyScripts
  <2>2. mem[u] \in ScriptMemory /\ u \notin aborted
    BY <2>1, EditorKnows DEF Scripted
  <2>3. PICK to, m :
          /\ to \in {"spread", "done"} /\ GoesWith(u, to, m) /\ (to = "spread" => m \in ScriptMemory)
          /\ lessonRows' = IF next \in Live THEN [lessonRows EXCEPT ![next] = mem[u].video]
                           ELSE lessonRows
    <3>1. Script(mem[u].video, ls \ {next}) \in ScriptMemory
      BY <2>2 DEF Script, ScriptMemory
    <3> HIDE DEF next
    <3> QED
      BY <1>4, <3>1 DEF Spread, Goes, next
  <2>4. mem[u].video \in Requests
    BY <2>2 DEF ScriptMemory
  <2> HIDE DEF next
  <2>5. /\ lessonRows' \in [LessonIds -> Videos \union {"unborn", "deleted"}]
        /\ \A l \in LessonIds :
             lessonRows'[l] = lessonRows[l] \/ (l \in Live /\ lessonRows'[l] \in Requests)
    BY <1>0, <2>3, <2>4 DEF Videos
  <2> QED
    BY <1>0, <2>1, <2>2, <2>3, <2>5, UploadMoves DEF EditorSteps
<1> QED
  BY <1>1, <1>2, <1>3, <1>4

-----------------------------------------------------------------------------
\* Uploads that meet the editor.

LEMMA UploadBegins ==
  ASSUME EditorInv, NEW u \in Requests, NEW k \in ItemNames, BeginUpload(u, k)
  PROVE  EditorInv'
<1> DEFINE m == [at |-> k, list |-> form, lesson |-> items[form[k]].lesson]
<1>1. /\ page = "content" /\ step[u] = "free" /\ k \in DOMAIN form
      /\ GoesWith(u, "send", m)
      /\ UNCHANGED <<server, editor, aborted, loose, unmounted, breaks, editorNotes>>
  BY DEF BeginUpload, OnlyUploads
<1>2. EditorTypeOK /\ MemoryInv /\ ListOf(form)
  BY DEF EditorInv, ListsInv
<1>3. m \in UploadMemory
  <2>1. items \in Seq(FormItems) /\ Len(items) <= MaxItems + MaxLessons
    BY <1>2 DEF EditorTypeOK, FormItems
  <2>2. DOMAIN items \subseteq ItemNames
    BY <2>1, EditorAssumption DEF ItemNames
  <2>3. form \in Seq(ItemNames) /\ form[k] \in DOMAIN items
    BY <1>1, <1>2, <2>2 DEF ListOf
  <2>4. items[form[k]].lesson \in 0..MaxLessons
    <3>1. items[form[k]] \in FormItems
      BY <2>1, <2>3
    <3> QED
      BY <3>1 DEF FormItems
  <2> QED
    BY <2>3, <2>4 DEF UploadMemory
<1> HIDE DEF m
<1>4. /\ step' \in [Requests -> EditorSteps]
      /\ MemoryInv'
      /\ \A v \in Requests : /\ Uploading(v)' => mem'[v] \in UploadMemory
                             /\ Scripted(v)' => mem'[v] \in ScriptMemory
      /\ step'[u] = "send" /\ mem'[u] = m
      /\ \A v \in Requests \ {u} : step'[v] = step[v] /\ mem'[v] = mem[v]
  BY <1>1, <1>2, <1>3, MemoryGoes DEF EditorSteps
<1> USE DEF editor, editorNotes, server
<1>5. EditorTypeOK'
  BY <1>1, <1>2, <1>4 DEF EditorTypeOK, ScriptMemory
<1>6. RowsInv' /\ ItemsInv' /\ CacheInv' /\ FormInv' /\ PreviewIsWanted'
  BY <1>1 DEF EditorInv, RowsInv, RowsAre, ItemsInv, StoredAre, CacheInv, FormInv, PreviewIsWanted,
              VideosOf
<1>7. \A v \in Mounted' : v = u \/ (v \in Mounted /\ mem'[v] = mem[v])
  BY <1>1, <1>4 DEF Mounted, Uploading
<1>8. m.list = form /\ m.at = k
  BY DEF m
<1>9. ListsInv'
  BY <1>1, <1>4, <1>7, <1>8 DEF EditorInv, ListsInv, ListOf
<1>10. PanelsInv'
  BY <1>1 DEF PanelsInv
<1>11. CancelInv'
  <2>1. u \notin published /\ u \notin aborted
    BY <1>1, EditorKnows
  <2> QED
    BY <1>1, <1>2, <1>4, <2>1 DEF EditorInv, CancelInv, EditorTypeOK
<1> QED
  BY <1>4, <1>5, <1>6, <1>9, <1>10, <1>11 DEF EditorInv

LEMMA DraftLinked ==
  ASSUME EditorInv, NEW u \in Requests, OnLinked(u)
  PROVE  EditorInv'
<1> DEFINE known == mem[u].list
<1>1. /\ step[u] = "link" /\ Uploading(u) /\ GoesWith(u, "done", mem[u])
      /\ UNCHANGED <<server, page, adminCache, answers, payload, aborted, loose, unmounted,
                     breaks, wanted, tooLate>>
  BY DEF OnLinked, Goes, Uploading
<1>2. CASE u \in unmounted
  <2>1. UNCHANGED <<items, form, overtaken>>
    BY <1>2 DEF OnLinked
  <2>2. u \notin aborted \ tooLate
    BY <1>1, EditorKnows
  <2> QED
    BY <1>1, <2>1, <2>2, EditorKnows, UploadMoves DEF EditorSteps, server, editor, editorNotes
<1>3. CASE u \notin unmounted
  <2>1. /\ items' = [items EXCEPT ![known[mem[u].at]].video = u]
        /\ form' = known
        /\ overtaken' = (overtaken \/ known # form \/ page = "preview")
    BY <1>3 DEF OnLinked
  <2>2. EditorTypeOK /\ MemoryInv /\ u \in Mounted /\ ListsInv
    BY <1>1, <1>3 DEF EditorInv, Mounted
  <2>3. ListOf(known) /\ mem[u].at \in DOMAIN known
    BY <2>2 DEF ListsInv
  <2>4. PICK i \in DOMAIN items : i = known[mem[u].at]
    BY <2>3 DEF ListOf
  <2>5. items \in Seq(FormItems) /\ DOMAIN items = 1..Len(items) /\ Len(items) \in Nat
    BY <2>2 DEF EditorTypeOK, FormItems
  <2>6. [items[i] EXCEPT !.video = u] \in FormItems /\ [items[i] EXCEPT !.video = u].lesson = items[i].lesson
    <3>1. items[i] \in FormItems
      BY <2>5
    <3> QED
      BY <3>1 DEF FormItems, Videos
  <2>7. items' = [items EXCEPT ![i] = [items[i] EXCEPT !.video = u]]
    BY <2>1, <2>4
  <2>8. /\ items' \in Seq(FormItems) /\ Len(items') = Len(items) /\ DOMAIN items' = DOMAIN items
        /\ \A j \in DOMAIN items : items'[j].lesson = items[j].lesson
    <3>1. items' \in [1..Len(items) -> FormItems]
      BY <2>5, <2>6, <2>7
    <3>2. items' \in Seq(FormItems) /\ Len(items') = Len(items)
      BY <2>5, <3>1, SeqOfFunction
    <3> QED
      BY <2>5, <2>6, <2>7, <3>2
  <2> HIDE DEF known
  <2>9. /\ step' \in [Requests -> EditorSteps]
        /\ MemoryInv'
        /\ \A v \in Requests : /\ Uploading(v)' => mem'[v] \in UploadMemory
                               /\ Scripted(v)' => mem'[v] \in ScriptMemory
        /\ step'[u] = "done"
        /\ \A v \in Requests \ {u} : step'[v] = step[v] /\ mem'[v] = mem[v]
    BY <1>1, <2>2, MemoryGoes DEF EditorSteps
  <2>10. \A v \in Mounted' : v \in Mounted /\ mem'[v] = mem[v]
    BY <1>1, <2>9 DEF Mounted, Uploading
  <2>11. ListsInv'
    <3>1. ListOf(form)'
      BY <2>1, <2>3, <2>8 DEF ListOf
    <3>2. wanted' \in Seq(DOMAIN items')
      BY <1>1, <2>2, <2>8 DEF ListsInv
    <3>3. ASSUME NEW v \in Mounted'
          PROVE  ListOf(mem[v].list)' /\ (mem[v].at \in DOMAIN mem[v].list)'
      <4>1. ListOf(mem[v].list) /\ mem[v].at \in DOMAIN mem[v].list /\ mem'[v] = mem[v]
        BY <2>2, <2>10, <3>3 DEF ListsInv
      <4> QED
        BY <2>8, <4>1 DEF ListOf
    <3> QED
      BY <3>1, <3>2, <3>3 DEF ListsInv
  <2>12. EditorTypeOK'
    <3>1. Range(form') \subseteq DOMAIN items' /\ Range(wanted') \subseteq DOMAIN items'
      BY <2>11 DEF ListsInv, ListOf, Range
    <3>2. overtaken' \in BOOLEAN
      BY <2>1, <2>2 DEF EditorTypeOK
    <3> QED
      BY <1>1, <2>2, <2>8, <2>9, <3>1, <3>2 DEF EditorTypeOK, ScriptMemory, FormItems, server
  <2>13. RowsInv' /\ CacheInv'
    BY <1>1 DEF EditorInv, RowsInv, RowsAre, CacheInv, server
  <2>14. ItemsInv'
    BY <1>1, <2>8 DEF EditorInv, ItemsInv, StoredAre
  <2>15. PanelsInv'
    <3>1. page # "closed"
      BY <2>2 DEF EditorInv, PanelsInv
    <3> QED
      BY <1>1, <2>10, <3>1 DEF EditorInv, PanelsInv
  <2>16. FormInv' /\ PreviewIsWanted'
    BY <1>1, <2>1 DEF EditorInv, FormInv, PreviewIsWanted
  <2>17. CancelInv'
    <3>1. u \notin aborted \ tooLate
      BY <1>1, EditorKnows
    <3> QED
      BY <1>1, <2>2, <2>9, <3>1 DEF EditorInv, CancelInv, EditorTypeOK, server
  <2> QED
    BY <2>9, <2>11, <2>12, <2>13, <2>14, <2>15, <2>16, <2>17 DEF EditorInv
<1> QED
  BY <1>2, <1>3

-----------------------------------------------------------------------------
\* Cancellations, and panels that go.

LEMMA AbortsKeep ==
  ASSUME EditorInv, NEW us, us \subseteq {u \in Requests : Uploading(u)}, Aborts(us),
         step' = step, published' = published
  PROVE  /\ CancelInv'
         /\ aborted' = aborted \union us /\ aborted' \subseteq Requests /\ tooLate' \subseteq aborted'
<1>1. /\ aborted' = aborted \union us
      /\ tooLate' = tooLate \union {u \in us \ aborted : step[u] \in {"asked", "publish", "link"}}
  BY DEF Aborts
<1>2. aborted \subseteq Requests /\ tooLate \subseteq aborted
  BY DEF EditorInv, EditorTypeOK
<1>3. \A u \in us : step[u] \in {"send", "poll", "asked", "publish", "link"}
  BY DEF Uploading
<1>4. CancelInv
  BY DEF EditorInv
<1>5. \A u \in aborted' \ tooLate' :
        u \in aborted \ tooLate \/ (u \in us /\ step[u] \in {"send", "poll"})
  BY <1>1, <1>3
<1>6. CancelInv'
  BY <1>1, <1>2, <1>3, <1>4, <1>5 DEF CancelInv
<1> QED
  BY <1>1, <1>2, <1>6

LEMMA PanelsGo ==
  ASSUME EditorInv, NEW u \in Requests, Cancel(u) \/ Collapse(u)
  PROVE  EditorInv'
<1>1. /\ Aborts({u}) /\ u \in Mounted /\ (loose' = loose \/ loose' = loose \union {u})
      /\ UNCHANGED <<server, editor, unmounted, handlers, wanted, overtaken>>
  BY DEF Cancel, Collapse, Unmount, Panels
<1> USE DEF server, editor, handlers
<1>2. /\ CancelInv'
      /\ aborted' = aborted \union {u} /\ aborted' \subseteq Requests
      /\ tooLate' \subseteq aborted'
  BY <1>1, AbortsKeep DEF Mounted
<1>3. EditorTypeOK'
  BY <1>1, <1>2 DEF EditorInv, EditorTypeOK, Uploading, Scripted
<1>4. Mounted' = Mounted
  BY <1>1 DEF Mounted, Uploading
<1>5. MemoryInv' /\ RowsInv' /\ ItemsInv' /\ CacheInv' /\ FormInv' /\ PreviewIsWanted'
  BY <1>1 DEF EditorInv, MemoryInv, RowsInv, RowsAre, ItemsInv, StoredAre, CacheInv, FormInv,
              PreviewIsWanted, VideosOf
<1>6. ListsInv' /\ PanelsInv'
  BY <1>1, <1>4 DEF EditorInv, ListsInv, ListOf, PanelsInv
<1> QED
  BY <1>2, <1>3, <1>5, <1>6 DEF EditorInv

\* Once the page is turned, the panels have gone.
LEMMA Turned ==
  ASSUME EditorInv, NEW to, Turn(to), step' = step, published' = published
  PROVE  /\ CancelInv' /\ page' = to
         /\ aborted \subseteq aborted' /\ aborted' \subseteq Requests /\ tooLate' \subseteq aborted'
         /\ Mounted \subseteq loose' /\ loose' \subseteq aborted'
<1>1. loose \subseteq aborted /\ aborted \subseteq Requests /\ tooLate \subseteq aborted
  BY DEF EditorInv, EditorTypeOK
<1>2. CASE page = "content"
  <2>1. Aborts(Panels) /\ loose' = loose \union Panels /\ page' = to
    BY <1>2 DEF Turn, Unmount
  <2>2. Panels \subseteq {u \in Requests : Uploading(u)} /\ Mounted \subseteq loose \union Panels
    BY DEF Panels, Mounted
  <2>3. /\ CancelInv'
        /\ aborted' = aborted \union Panels /\ aborted' \subseteq Requests
        /\ tooLate' \subseteq aborted'
    BY <2>1, <2>2, AbortsKeep
  <2> QED
    BY <1>1, <2>1, <2>2, <2>3
<1>3. CASE page # "content"
  <2>1. UNCHANGED <<aborted, loose, tooLate>> /\ page' = to
    BY <1>3 DEF Turn
  <2>2. Mounted \subseteq loose
    BY <1>3 DEF EditorInv, PanelsInv
  <2>3. CancelInv'
    BY <2>1 DEF EditorInv, CancelInv
  <2> QED
    BY <1>1, <2>1, <2>2, <2>3
<1> QED
  BY <1>2, <1>3

\* The editor closes: nothing of it is left, and its panels have gone.
LEMMA Closed ==
  ASSUME EditorInv, Closes, page' = "closed", CancelInv',
         aborted' \subseteq Requests, tooLate' \subseteq aborted', loose' \subseteq aborted',
         aborted \subseteq aborted', Mounted \subseteq loose',
         published' = published, RowsInv',
         lessonRows' \in [LessonIds -> Videos \union {"unborn", "deleted"}],
         UNCHANGED <<adminCache, handlers>>
  PROVE  EditorInv'
<1> USE DEF handlers
<1>1. /\ unmounted' = unmounted \union Mounted
      /\ answers' = {} /\ items' = <<>> /\ form' = <<>> /\ payload' = <<>>
      /\ wanted' = <<>> /\ overtaken' = FALSE
  BY DEF Closes
<1>2. Mounted' = {}
  BY <1>1 DEF Mounted, Uploading
<1>3. EditorTypeOK'
  <2>1. 0 <= MaxItems + MaxLessons
    BY EditorAssumption
  <2> QED
    BY <1>1, <2>1, NoList DEF EditorInv, EditorTypeOK, Uploading, Scripted
<1>4. ItemsInv'
  <2>1. StoredAre(items', 0, 0) /\ 0 \in Nat /\ 0 + 0 <= Len(items') /\ 0 <= MaxLessons
        /\ Len(items') - 0 <= MaxItems
    BY <1>1, NoList, EditorAssumption DEF StoredAre
  <2> QED
    BY <2>1 DEF ItemsInv, StoredAre
<1>5. ListsInv'
  BY <1>1, <1>2, NoList DEF ListsInv, ListOf
<1>6. MemoryInv' /\ CacheInv' /\ FormInv' /\ PreviewIsWanted' /\ PanelsInv'
  BY <1>1, <1>2 DEF EditorInv, MemoryInv, CacheInv, FormInv, PreviewIsWanted, PanelsInv
<1> QED
  BY <1>3, <1>4, <1>5, <1>6 DEF EditorInv

LEMMA ClosesByTurn ==
  ASSUME EditorInv, Turn("closed"), Closes, UNCHANGED <<server, adminCache, handlers>>
  PROVE  EditorInv'
<1>1. step' = step /\ published' = published /\ lessonRows' = lessonRows
  BY DEF server, handlers
<1>2. /\ CancelInv' /\ page' = "closed"
      /\ aborted \subseteq aborted' /\ aborted' \subseteq Requests /\ tooLate' \subseteq aborted'
      /\ Mounted \subseteq loose' /\ loose' \subseteq aborted'
  BY <1>1, Turned
<1>3. RowsInv' /\ lessonRows' \in [LessonIds -> Videos \union {"unborn", "deleted"}]
  BY <1>1 DEF EditorInv, EditorTypeOK, RowsInv, RowsAre
<1> QED
  BY <1>1, <1>2, <1>3, Closed

\* Another page, with the form as it is.
LEMMA TurnsTo ==
  ASSUME EditorInv, NEW to \in {"info", "content", "preview"}, Turn(to), page # "closed",
         payload' \in Seq(Videos), to = "preview" => payload' = VideosOf(form),
         UNCHANGED <<server, adminCache, answers, items, form, unmounted, handlers, wanted,
                     overtaken>>
  PROVE  EditorInv'
<1> USE DEF server, handlers
<1>1. /\ CancelInv' /\ page' = to
      /\ aborted \subseteq aborted' /\ aborted' \subseteq Requests /\ tooLate' \subseteq aborted'
      /\ Mounted \subseteq loose' /\ loose' \subseteq aborted'
  BY Turned
<1>2. Mounted' = Mounted
  BY DEF Mounted, Uploading
<1>3. EditorTypeOK'
  BY <1>1 DEF EditorInv, EditorTypeOK, Uploading, Scripted
<1>4. MemoryInv' /\ RowsInv' /\ ItemsInv' /\ CacheInv' /\ FormInv'
  BY DEF EditorInv, MemoryInv, RowsInv, RowsAre, ItemsInv, StoredAre, CacheInv, FormInv
<1>5. ListsInv' /\ PanelsInv'
  BY <1>1, <1>2 DEF EditorInv, ListsInv, ListOf, PanelsInv
<1>6. PreviewIsWanted'
  BY <1>1 DEF EditorInv, FormInv, PreviewIsWanted, VideosOf
<1> QED
  BY <1>1, <1>3, <1>4, <1>5, <1>6 DEF EditorInv

LEMMA PagesTurn ==
  ASSUME EditorInv, Leave \/ ToContent \/ ToInfo \/ ToPreview
  PROVE  EditorInv'
<1>0. payload \in Seq(Videos)
  BY DEF EditorInv, EditorTypeOK
<1>1. CASE Leave
  BY <1>1, ClosesByTurn DEF Leave
<1>2. CASE ToContent
  <2>1. CASE form = <<>>
    BY <1>2, <2>1, ClosesByTurn DEF ToContent
  <2>2. CASE form # <<>>
    <3>1. /\ Turn("content") /\ page # "closed" /\ payload' = payload
          /\ UNCHANGED <<server, adminCache, answers, items, form, unmounted, handlers, wanted,
                         overtaken>>
      BY <1>2, <2>2 DEF ToContent
    <3> QED
      BY <1>0, <3>1, TurnsTo
  <2> QED
    BY <2>1, <2>2
<1>3. CASE ToInfo
  <2>1. /\ Turn("info") /\ page # "closed" /\ payload' = payload
        /\ UNCHANGED <<server, adminCache, answers, items, form, unmounted, handlers, wanted,
                       overtaken>>
    <3>1. payload' = payload
      BY <1>3 DEF ToInfo, Turn, Unmount, Aborts
    <3> QED
      BY <1>3, <3>1 DEF ToInfo
  <2> QED
    BY <1>0, <2>1, TurnsTo
<1>4. CASE ToPreview
  <2>1. /\ Turn("preview") /\ page # "closed" /\ payload' = VideosOf(form)
        /\ UNCHANGED <<server, adminCache, answers, items, form, unmounted, handlers, wanted,
                       overtaken>>
    BY <1>4 DEF ToPreview, Submitted
  <2>2. VideosOf(form) \in Seq(Videos)
    <3>1. items \in Seq(FormItems) /\ form \in Seq(DOMAIN items)
      BY DEF EditorInv, EditorTypeOK, ListsInv, ListOf, FormItems
    <3>2. \A k \in DOMAIN form : items[form[k]] \in FormItems
      BY <3>1
    <3>3. \A k \in DOMAIN form : items[form[k]].video \in Videos
      BY <3>2 DEF FormItems
    <3>4. VideosOf(form) \in [1..Len(form) -> Videos] /\ Len(form) \in Nat
      BY <3>1, <3>3 DEF VideosOf
    <3> QED
      BY <3>4, SeqOfFunction
  <2> QED
    BY <2>1, <2>2, TurnsTo
<1> QED
  BY <1>1, <1>2, <1>3, <1>4

\* Nothing changes but the rows and what the store keeps.
LEMMA RowsChange ==
  ASSUME EditorInv, RowsInv', CacheInv',
         lessonRows' \in [LessonIds -> Videos \union {"unborn", "deleted"}],
         adminCache' = Nothing \/ adminCache' = adminCache,
         UNCHANGED <<published, page, answers, items, form, payload, aborted, loose, unmounted,
                     handlers, editorNotes>>
  PROVE  EditorInv'
<1> USE DEF handlers, editorNotes
<1>1. Mounted' = Mounted
  BY DEF Mounted, Uploading
<1>2. EditorTypeOK' /\ MemoryInv'
  BY DEF EditorInv, EditorTypeOK, Uploading, Scripted, MemoryInv
<1>3. ItemsInv' /\ ListsInv' /\ PanelsInv'
  BY <1>1 DEF EditorInv, ItemsInv, StoredAre, ListsInv, ListOf, PanelsInv
<1>4. FormInv' /\ PreviewIsWanted' /\ CancelInv'
  BY DEF EditorInv, FormInv, PreviewIsWanted, VideosOf, CancelInv
<1> QED
  BY <1>2, <1>3, <1>4 DEF EditorInv

LEMMA LessonsAreSaved ==
  ASSUME EditorInv,
         \/ SaveCourse \/ (\E v \in Requests : SaveElsewhere(v))
         \/ (\E k \in ItemNames : LinkPasted(k)) \/ DropAnswer
  PROVE  EditorInv'
<1>0. EditorTypeOK /\ RowsInv /\ CacheInv /\ PanelsInv /\ CancelInv
  BY DEF EditorInv
<1>1. CASE SaveCourse
  <2>1. /\ page = "preview" /\ Room(Len(payload)) /\ lessonRows' = Replaced(payload)
        /\ page' = "closed" /\ Closes
        /\ UNCHANGED <<published, adminCache, aborted, loose, handlers, tooLate>>
    BY <1>1 DEF SaveCourse
  <2>2. payload \in Seq(Videos) /\ Mounted \subseteq loose
    BY <1>0, <2>1 DEF EditorTypeOK, PanelsInv
  <2>3. RowsInv' /\ lessonRows' \in [LessonIds -> Videos \union {"unborn", "deleted"}]
    BY <1>0, <2>1, <2>2, ReplacedRows
  <2>4. CancelInv' /\ aborted' \subseteq Requests /\ tooLate' \subseteq aborted'
        /\ loose' \subseteq aborted' /\ aborted \subseteq aborted' /\ Mounted \subseteq loose'
    BY <1>0, <2>1, <2>2 DEF EditorTypeOK, CancelInv, handlers
  <2> QED
    BY <2>1, <2>3, <2>4, Closed
<1>2. CASE \E v \in Requests : SaveElsewhere(v)
  <2>1. PICK v \in Requests : SaveElsewhere(v)
    BY <1>2
  <2>2. <<v>> \in Seq(Videos) /\ Len(<<v>>) = 1
    BY DEF Videos
  <2>3. /\ Room(1) /\ lessonRows' = Replaced(<<v>>)
        /\ UNCHANGED <<published, editor, aborted, loose, unmounted, handlers, editorNotes>>
    BY <2>1 DEF SaveElsewhere
  <2>4. RowsInv' /\ lessonRows' \in [LessonIds -> Videos \union {"unborn", "deleted"}]
    BY <1>0, <2>2, <2>3, ReplacedRows
  <2> QED
    BY <1>0, <2>3, <2>4, RowsChange DEF editor, CacheInv
<1>3. CASE \E k \in ItemNames : LinkPasted(k)
  <2>1. PICK k \in ItemNames : LinkPasted(k)
    BY <1>3
  <2>2. PICK i : i = items[form[k]]
    OBVIOUS
  <2>3. /\ i.lesson \in Live /\ i.video \in published
        /\ lessonRows' = [lessonRows EXCEPT ![i.lesson] = i.video]
        /\ UNCHANGED <<published, editor, aborted, loose, unmounted, handlers, editorNotes>>
    BY <2>1, <2>2 DEF LinkPasted
  <2>4. i.video \in Requests /\ lessonRows \in [LessonIds -> Videos \union {"unborn", "deleted"}]
    BY <1>0, <2>3 DEF EditorTypeOK
  <2>5. lessonRows' \in [LessonIds -> Videos \union {"unborn", "deleted"}]
    BY <2>3, <2>4 DEF Videos
  <2>6. \A l \in LessonIds :
          lessonRows'[l] = lessonRows[l] \/ (l \in Live /\ lessonRows'[l] \in Requests)
    BY <2>3, <2>4
  <2>7. RowsInv'
    BY <1>0, <2>4, <2>5, <2>6, LinkedRows
  <2> QED
    BY <1>0, <2>3, <2>5, <2>7, RowsChange DEF editor, CacheInv
<1>4. CASE DropAnswer
  <2>1. /\ adminCache' = Nothing
        /\ UNCHANGED <<server, page, answers, items, form, payload, aborted, loose, unmounted,
                       handlers, editorNotes>>
    BY <1>4 DEF DropAnswer
  <2>2. RowsInv' /\ lessonRows' \in [LessonIds -> Videos \union {"unborn", "deleted"}]
    BY <1>0, <2>1 DEF RowsInv, RowsAre, EditorTypeOK, server
  <2> QED
    BY <2>1, <2>2, RowsChange DEF server, CacheInv
<1> QED
  BY <1>1, <1>2, <1>3, <1>4

-----------------------------------------------------------------------------
\* The form changes.

LEMMA FormSet ==
  ASSUME EditorInv, page' \in {"info", "content", "preview"},
         page' # "content" => Mounted \subseteq loose',
         items' \in Seq(FormItems), DOMAIN items \subseteq DOMAIN items', ItemsInv',
         ListOf(form)', wanted' \in Seq(DOMAIN items'), FormInv', PreviewIsWanted',
         CancelInv', aborted' \subseteq Requests, tooLate' \subseteq aborted',
         aborted \subseteq aborted', loose' \subseteq aborted',
         answers' \subseteq {"list", "content", "fresh"}, overtaken' \in BOOLEAN,
         adminCache' = Nothing \/ adminCache' \in Seq([lesson : LessonIds, video : Videos]),
         CacheInv',
         UNCHANGED <<server, payload, unmounted, handlers>>
  PROVE  EditorInv'
<1> USE DEF server, handlers
<1>1. Mounted' = Mounted
  BY DEF Mounted, Uploading
<1>2. Len(items') <= MaxItems + MaxLessons
  <2>1. PICK a \in Nat, n \in Nat : n <= MaxLessons /\ Len(items') - n <= MaxItems
    BY DEF ItemsInv
  <2>2. Len(items') \in Nat
    OBVIOUS
  <2> QED
    BY <2>1, <2>2, EditorAssumption
<1>3. Range(form') \subseteq DOMAIN items' /\ Range(wanted') \subseteq DOMAIN items'
  BY DEF ListOf, Range
<1>4. EditorTypeOK'
  BY <1>2, <1>3 DEF EditorInv, EditorTypeOK, FormItems, Uploading, Scripted
<1>5. MemoryInv' /\ RowsInv'
  BY DEF EditorInv, MemoryInv, RowsInv, RowsAre
<1>6. ListsInv'
  <2>1. \A u \in Mounted : ListOf(mem[u].list) /\ mem[u].at \in DOMAIN mem[u].list
    BY DEF EditorInv, ListsInv
  <2>2. \A u \in Mounted : mem[u].list \in Seq(DOMAIN items')
    BY <2>1 DEF ListOf
  <2> QED
    BY <1>1, <2>1, <2>2 DEF ListsInv, ListOf
<1>7. PanelsInv'
  BY <1>1 DEF PanelsInv
<1> QED
  BY <1>4, <1>5, <1>6, <1>7 DEF EditorInv

\* The effect of EditCourse, when the form stays.
LEMMA FormFilled ==
  ASSUME EditorInv, page # "closed", Fill(items'), ~(page = "content" /\ Shown(items') = <<>>),
         items' \in Seq(FormItems), DOMAIN items \subseteq DOMAIN items', ItemsInv',
         NEW a \in Nat, NEW n \in Nat, StoredAre(items', a, n), a + n <= Len(items'),
         answers' \subseteq {"list", "content", "fresh"},
         adminCache' = Nothing \/ adminCache' \in Seq([lesson : LessonIds, video : Videos]),
         CacheInv', UNCHANGED <<server, handlers>>
  PROVE  EditorInv'
<1>1. PICK list : list = Shown(items')
  OBVIOUS
<1>2. PICK us : us = {u \in Panels : page = "content" /\ mem[u].at > Len(list)}
  OBVIOUS
<1>3. /\ form' = list /\ wanted' = list
      /\ overtaken' = (overtaken \/ page = "preview")
      /\ Aborts(us) /\ loose' = loose \union us
      /\ UNCHANGED <<page, payload, unmounted>>
  BY <1>1, <1>2 DEF Fill, Unmount
<1>4. us \subseteq {u \in Requests : Uploading(u)}
  BY <1>2 DEF Panels, Mounted
<1>5. /\ CancelInv'
      /\ aborted' = aborted \union us /\ aborted' \subseteq Requests /\ tooLate' \subseteq aborted'
  BY <1>3, <1>4, AbortsKeep DEF server, handlers
<1>6. loose \subseteq aborted /\ page \in {"info", "content", "preview"} /\ overtaken \in BOOLEAN
  BY DEF EditorInv, EditorTypeOK
<1>7. list \in Seq(DOMAIN items') /\ \A j, k \in DOMAIN list : list[j] = list[k] => j = k
  <2>1. PICK its \in Seq(FormItems) : its = items'
    OBVIOUS
  <2>2. StoredAre(its, a, n) /\ a + n <= Len(its)
    BY <2>1
  <2> QED
    BY <1>1, <2>1, <2>2, ShownList
<1>8. ListOf(form)' /\ wanted' \in Seq(DOMAIN items')
  BY <1>3, <1>7 DEF ListOf
<1>9. FormInv' /\ PreviewIsWanted' /\ overtaken' \in BOOLEAN
  BY <1>3, <1>6 DEF FormInv, PreviewIsWanted
<1>10. page' \in {"info", "content", "preview"} /\ (page' # "content" => Mounted \subseteq loose')
  BY <1>3, <1>6 DEF EditorInv, PanelsInv
<1>11. UNCHANGED <<server, payload, unmounted, handlers>>
  BY <1>3
<1>12. aborted \subseteq aborted' /\ loose' \subseteq aborted'
  BY <1>3, <1>5, <1>6
<1> QED
  BY <1>5, <1>8, <1>9, <1>10, <1>11, <1>12, FormSet

LEMMA AnswersCome ==
  ASSUME EditorInv, ListArrives
  PROVE  EditorInv'
<1>1. /\ page # "closed" /\ Fill(items) /\ UNCHANGED <<server, adminCache, handlers>>
      /\ answers' = IF page' = "closed" THEN {} ELSE answers \union {"list", "fresh"}
  BY DEF ListArrives
<1>2. CASE page = "content" /\ Shown(items) = <<>>
  BY <1>1, <1>2, ClosesByTurn DEF Fill
<1>3. CASE ~(page = "content" /\ Shown(items) = <<>>)
  <2>1. items' = items /\ page' = page
    BY <1>1, <1>3 DEF Fill
  <2>2. answers' = answers \union {"list", "fresh"} /\ answers \subseteq {"list", "content", "fresh"}
    BY <1>1, <2>1 DEF EditorInv, EditorTypeOK
  <2>3. PICK a \in Nat, n \in Nat :
          /\ StoredAre(items, a, n) /\ a + n <= Len(items) /\ n <= MaxLessons
          /\ Len(items) - n <= MaxItems
          /\ "content" \notin answers => n = 0
    BY DEF EditorInv, ItemsInv
  <2>4. ItemsInv'
    BY <2>1, <2>2, <2>3 DEF ItemsInv, StoredAre
  <2>5. items \in Seq(FormItems)
        /\ (adminCache = Nothing \/ adminCache \in Seq([lesson : LessonIds, video : Videos]))
        /\ CacheInv
    BY DEF EditorInv, EditorTypeOK, FormItems
  <2>6. StoredAre(items', a, n) /\ a + n <= Len(items') /\ items' \in Seq(FormItems)
    BY <2>1, <2>3, <2>5
  <2>7. Fill(items') /\ ~(page = "content" /\ Shown(items') = <<>>)
    BY <1>1, <1>3, <2>1
  <2>8. CacheInv' /\ (adminCache' = Nothing \/ adminCache' \in Seq([lesson : LessonIds, video : Videos]))
    BY <1>1, <2>5 DEF CacheInv
  <2>9. answers' \subseteq {"list", "content", "fresh"} /\ DOMAIN items \subseteq DOMAIN items'
    BY <2>1, <2>2
  <2> QED
    BY <1>1, <2>4, <2>6, <2>7, <2>8, <2>9, FormFilled
<1> QED
  BY <1>2, <1>3

\* The store's items come together, after what the author has made.
LEMMA StoredAppended ==
  ASSUME NEW its \in Seq(FormItems), \A i \in DOMAIN its : its[i].lesson = 0,
         NEW list \in Seq([lesson : LessonIds, video : Videos])
  PROVE  /\ its \o list \in Seq(FormItems) /\ Len(its \o list) = Len(its) + Len(list)
         /\ DOMAIN its \subseteq DOMAIN (its \o list)
         /\ \A i \in DOMAIN its : (its \o list)[i] = its[i]
         /\ StoredAre(its \o list, Len(its), Len(list))
<1>1. LessonIds \subseteq 0..MaxLessons /\ 0 \notin LessonIds
  BY EditorAssumption DEF LessonIds
<1>2. list \in Seq(FormItems) /\ Len(list) \in Nat /\ Len(its) \in Nat
  <2>1. [lesson : LessonIds, video : Videos] \subseteq FormItems
    BY <1>1 DEF FormItems
  <2>2. list \in [1..Len(list) -> [lesson : LessonIds, video : Videos]] /\ Len(list) \in Nat
    BY LenProperties
  <2>3. list \in [1..Len(list) -> FormItems]
    BY <2>1, <2>2
  <2> QED
    BY <2>2, <2>3, SeqOfFunction
<1>3. PICK all : all = its \o list
  OBVIOUS
<1>4. /\ all \in Seq(FormItems) /\ Len(all) = Len(its) + Len(list)
      /\ \A i \in 1..Len(its) + Len(list) :
           all[i] = IF i <= Len(its) THEN its[i] ELSE list[i - Len(its)]
  BY <1>2, <1>3, ConcatProperties
<1>5. DOMAIN all = 1..Len(its) + Len(list) /\ DOMAIN its = 1..Len(its)
      /\ DOMAIN list = 1..Len(list)
  BY <1>2, <1>4
<1>6. \A i \in DOMAIN its : all[i] = its[i] /\ i \in DOMAIN all
  BY <1>2, <1>4, <1>5
<1>7. StoredAre(all, Len(its), Len(list))
  <2> SUFFICES ASSUME NEW i \in DOMAIN all
               PROVE  all[i].lesson # 0 <=> Len(its) < i /\ i <= Len(its) + Len(list)
    BY DEF StoredAre
  <2>1. CASE i <= Len(its)
    <3>1. i \in DOMAIN its
      BY <1>5, <2>1
    <3> QED
      BY <1>2, <1>6, <2>1, <3>1
  <2>2. CASE Len(its) < i
    <3>1. i - Len(its) \in DOMAIN list /\ i <= Len(its) + Len(list)
      BY <1>2, <1>5, <2>2
    <3>2. list[i - Len(its)] \in [lesson : LessonIds, video : Videos]
      BY <1>5, <3>1, ElementOfSeq
    <3>3. all[i] = list[i - Len(its)]
      BY <1>2, <1>4, <1>5, <2>2
    <3> QED
      BY <1>1, <2>2, <3>1, <3>2, <3>3
  <2> QED
    BY <1>2, <1>5, <2>1, <2>2
<1> QED
  BY <1>3, <1>4, <1>6, <1>7

LEMMA ContentComes ==
  ASSUME EditorInv, ContentArrives
  PROVE  EditorInv'
<1>1. /\ page # "closed" /\ "content" \notin answers
      /\ adminCache' = Content /\ answers' = answers \union {"content"}
      /\ UNCHANGED <<server, handlers>>
      /\ items' = items \o Content \/ (Turn("closed") /\ Closes)
      /\ \/ Fill(items \o Content)
         \/ /\ items' = items \o Content
            /\ UNCHANGED <<page, form, payload, aborted, loose, unmounted, editorNotes>>
  BY DEF ContentArrives, Fill
<1>2. EditorTypeOK /\ RowsInv /\ ItemsInv /\ ListsInv
  BY DEF EditorInv
<1>3. Content \in Seq([lesson : LessonIds, video : Videos]) /\ Len(Content) <= MaxLessons
  BY <1>2, ContentList
<1>4. PICK list : list = Content
  OBVIOUS
<1>5. items' = items \o list
  BY <1>1, <1>4 DEF Closes
<1>6. items \in Seq(FormItems) /\ answers \subseteq {"list", "content", "fresh"}
  BY <1>2 DEF EditorTypeOK, FormItems
<1>7. (\A i \in DOMAIN items : items[i].lesson = 0) /\ Len(items) <= MaxItems
  <2>1. PICK a \in Nat : StoredAre(items, a, 0) /\ Len(items) - 0 <= MaxItems
    BY <1>1, <1>2 DEF ItemsInv
  <2>2. Len(items) \in Nat /\ DOMAIN items = 1..Len(items)
    BY <1>6
  <2>3. \A i \in DOMAIN items : items[i].lesson = 0
    BY <2>1, <2>2 DEF StoredAre
  <2> QED
    BY <2>1, <2>2, <2>3, EditorAssumption
<1>8. list \in Seq([lesson : LessonIds, video : Videos]) /\ Len(list) <= MaxLessons
  BY <1>3, <1>4
<1>9. /\ items' \in Seq(FormItems) /\ Len(items') = Len(items) + Len(list)
      /\ DOMAIN items \subseteq DOMAIN items'
      /\ \A i \in DOMAIN items : items'[i] = items[i]
  BY <1>5, <1>6, <1>7, <1>8, StoredAppended
<1>10. PICK a \in Nat, n \in Nat : a = Len(items) /\ n = Len(list)
  BY <1>6, <1>8
<1>11. StoredAre(items', a, n) /\ a + n <= Len(items') /\ n <= MaxLessons
       /\ Len(items') - n <= MaxItems
  <2>1. StoredAre(items \o list, a, n)
    BY <1>6, <1>7, <1>8, <1>10, StoredAppended
  <2> QED
    BY <1>5, <1>7, <1>8, <1>9, <1>10, <2>1
<1>12. ItemsInv'
  BY <1>1, <1>11 DEF ItemsInv, StoredAre
<1>13. CacheInv' /\ adminCache' \in Seq([lesson : LessonIds, video : Videos])
       /\ answers' \subseteq {"list", "content", "fresh"}
  BY <1>1, <1>4, <1>6, <1>8 DEF CacheInv
<1>14. CASE Fill(items \o Content)
  <2>1. Fill(items')
    BY <1>4, <1>5, <1>14
  <2>2. ~(page = "content" /\ Shown(items') = <<>>)
    <3>1. answers' # {}
      BY <1>1
    <3> QED
      BY <2>1, <3>1 DEF Fill, Closes
  <2> QED
    BY <1>1, <1>9, <1>11, <1>12, <1>13, <2>1, <2>2, FormFilled
<1>15. CASE UNCHANGED <<page, form, payload, aborted, loose, unmounted, editorNotes>>
  <2> USE DEF editorNotes
  <2>1. ListOf(form)' /\ wanted' \in Seq(DOMAIN items')
    BY <1>2, <1>9, <1>15 DEF ListsInv, ListOf
  <2>2. PreviewIsWanted'
    <3>1. wanted \in Seq(DOMAIN items)
      BY <1>2 DEF ListsInv
    <3>2. \A k \in DOMAIN wanted : wanted[k] \in DOMAIN items
      BY <3>1
    <3>3. VideosOf(wanted)' = VideosOf(wanted)
      BY <1>9, <1>15, <3>2 DEF VideosOf
    <3> QED
      BY <1>15, <3>3 DEF EditorInv, PreviewIsWanted
  <2>3. FormInv' /\ CancelInv'
    BY <1>1, <1>15 DEF EditorInv, FormInv, CancelInv, server, handlers
  <2>4. page' \in {"info", "content", "preview"} /\ (page' # "content" => Mounted \subseteq loose')
    BY <1>1, <1>2, <1>15 DEF EditorInv, EditorTypeOK, PanelsInv
  <2>5. aborted' \subseteq Requests /\ tooLate' \subseteq aborted' /\ aborted \subseteq aborted'
        /\ loose' \subseteq aborted' /\ overtaken' \in BOOLEAN
    BY <1>2, <1>15 DEF EditorTypeOK
  <2>6. UNCHANGED <<server, payload, unmounted, handlers>>
    BY <1>1, <1>15
  <2> QED
    BY <1>9, <1>12, <1>13, <2>1, <2>2, <2>3, <2>4, <2>5, <2>6, FormSet
<1> QED
  BY <1>1, <1>14, <1>15

LEMMA EditorOpens ==
  ASSUME EditorInv, NEW known, Open(known)
  PROVE  EditorInv'
<1>1. PICK its, list :
        /\ its = (IF "content" \in known THEN <<Blank>> \o adminCache ELSE <<Blank>>)
        /\ list = (IF "list" \in known THEN Shown(its) ELSE <<1>>)
        /\ page' = "info" /\ answers' = known /\ items' = its /\ form' = list /\ wanted' = list
  BY DEF Open
<1>2. /\ page = "closed" /\ known \subseteq {"list", "content"}
      /\ "content" \in known => adminCache # Nothing
      /\ UNCHANGED <<server, adminCache, payload, aborted, loose, unmounted, handlers,
                     overtaken, tooLate>>
  BY DEF Open
<1>3. EditorTypeOK /\ CacheInv /\ PanelsInv
  BY DEF EditorInv
<1>4. <<Blank>> \in Seq(FormItems) /\ Len(<<Blank>>) = 1 /\ DOMAIN <<Blank>> = {1}
      /\ \A i \in DOMAIN <<Blank>> : <<Blank>>[i].lesson = 0
  BY EditorAssumption DEF Blank, FormItems, Videos
<1>5. PICK a \in Nat, n \in Nat :
        /\ its \in Seq(FormItems) /\ StoredAre(its, a, n) /\ a + n <= Len(its) /\ n <= MaxLessons
        /\ Len(its) - n <= MaxItems /\ ("content" \notin known => n = 0) /\ Len(its) > 0
  <2>1. CASE "content" \in known
    <3>1. adminCache \in Seq([lesson : LessonIds, video : Videos]) /\ Len(adminCache) <= MaxLessons
      BY <1>2, <1>3, <2>1 DEF EditorTypeOK, CacheInv
    <3>2. /\ its \in Seq(FormItems) /\ Len(its) = 1 + Len(adminCache)
          /\ StoredAre(its, 1, Len(adminCache))
      BY <1>1, <1>4, <2>1, <3>1, StoredAppended
    <3>3. Len(adminCache) \in Nat /\ MaxItems \in Nat \ {0}
      BY <3>1, EditorAssumption
    <3> QED
      BY <2>1, <3>1, <3>2, <3>3
  <2>2. CASE "content" \notin known
    <3>1. its = <<Blank>>
      BY <1>1, <2>2
    <3>2. StoredAre(its, 0, 0)
      BY <1>4, <3>1 DEF StoredAre
    <3> QED
      BY <1>4, <2>2, <3>1, <3>2, EditorAssumption
  <2> QED
    BY <2>1, <2>2
<1>6. list \in Seq(DOMAIN its) /\ \A j, k \in DOMAIN list : list[j] = list[k] => j = k
  <2>1. CASE "list" \in known
    BY <1>1, <1>5, <2>1, ShownList
  <2>2. CASE "list" \notin known
    <3>1. list = <<1>> /\ 1 \in DOMAIN its
      BY <1>1, <1>5, <2>2
    <3> QED
      BY <3>1
  <2> QED
    BY <2>1, <2>2
<1>7. ItemsInv'
  BY <1>1, <1>5 DEF ItemsInv, StoredAre
<1>8. ListOf(form)' /\ wanted' \in Seq(DOMAIN items')
  BY <1>1, <1>6 DEF ListOf
<1>9. FormInv' /\ PreviewIsWanted' /\ CancelInv' /\ CacheInv'
  BY <1>1, <1>2, <1>3 DEF EditorInv, FormInv, PreviewIsWanted, CancelInv, CacheInv, server, handlers
<1>10. items = <<>> /\ Mounted = {}
  BY <1>2, <1>3 DEF PanelsInv
<1>11. items' \in Seq(FormItems) /\ DOMAIN items \subseteq DOMAIN items'
       /\ answers' \subseteq {"list", "content", "fresh"}
  BY <1>1, <1>2, <1>5, <1>10
<1>12. /\ aborted' \subseteq Requests /\ tooLate' \subseteq aborted' /\ aborted \subseteq aborted'
       /\ loose' \subseteq aborted' /\ overtaken' \in BOOLEAN
       /\ adminCache' = Nothing \/ adminCache' \in Seq([lesson : LessonIds, video : Videos])
  BY <1>2, <1>3 DEF EditorTypeOK
<1> QED
  BY <1>1, <1>2, <1>7, <1>8, <1>9, <1>10, <1>11, <1>12, FormSet

LEMMA RemovedAt ==
  ASSUME NEW S, NEW s \in Seq(S), NEW k \in 1..Len(s)
  PROVE  /\ RemoveAt(s, k) \in Seq(S) /\ Len(RemoveAt(s, k)) = Len(s) - 1
         /\ \A i \in 1..Len(s) - 1 : RemoveAt(s, k)[i] = IF i < k THEN s[i] ELSE s[i + 1]
<1>0. Len(s) \in Nat /\ k \in Nat /\ 1 <= k /\ k <= Len(s)
  OBVIOUS
<1>1. PICK n \in Nat : n = Len(s)
  BY <1>0
<1>2. PICK p, q : p = SubSeq(s, 1, k - 1) /\ q = SubSeq(s, k + 1, n)
  OBVIOUS
<1>3. \A i \in 1..n : s[i] \in S
  BY <1>1, ElementOfSeq
<1>4. p \in Seq(S) /\ Len(p) = k - 1 /\ \A i \in 1..k - 1 : p[i] = s[i]
  <2>1. \A i \in 1..k - 1 : s[i] \in S
    BY <1>0, <1>1, <1>3
  <2>2. PICK m \in Int : m = k - 1 /\ 0 <= m
    BY <1>0
  <2>3. /\ SubSeq(s, 1, m) \in Seq(S)
        /\ Len(SubSeq(s, 1, m)) = IF 1 <= m THEN m - 1 + 1 ELSE 0
        /\ \A i \in 1..m - 1 + 1 : SubSeq(s, 1, m)[i] = s[1 + i - 1]
    BY <2>1, <2>2, SubSeqProperties
  <2> QED
    BY <1>2, <2>2, <2>3
<1>5. q \in Seq(S) /\ Len(q) = n - k /\ \A i \in 1..n - k : q[i] = s[k + i]
  <2>1. \A i \in k + 1..n : s[i] \in S
    BY <1>0, <1>1, <1>3
  <2>2. PICK m \in Int : m = k + 1
    BY <1>0
  <2>3. /\ SubSeq(s, m, n) \in Seq(S)
        /\ Len(SubSeq(s, m, n)) = IF m <= n THEN n - m + 1 ELSE 0
        /\ \A i \in 1..n - m + 1 : SubSeq(s, m, n)[i] = s[m + i - 1]
    BY <2>1, <2>2, SubSeqProperties
  <2>4. n - m + 1 = n - k /\ (m <= n <=> 1 <= n - k)
    BY <1>0, <1>1, <2>2
  <2>5. \A i \in 1..n - k : m + i - 1 = k + i
    BY <1>0, <2>2
  <2>6. Len(q) = n - k
    BY <1>0, <1>1, <1>2, <2>2, <2>3, <2>4
  <2> QED
    BY <1>2, <2>2, <2>3, <2>4, <2>5, <2>6
<1>6. RemoveAt(s, k) = p \o q
  BY <1>1, <1>2 DEF RemoveAt
<1>7. /\ p \o q \in Seq(S) /\ Len(p \o q) = Len(p) + Len(q)
      /\ \A i \in 1..Len(p) + Len(q) : (p \o q)[i] = IF i <= Len(p) THEN p[i] ELSE q[i - Len(p)]
  BY <1>4, <1>5, ConcatProperties
<1>8. Len(p) + Len(q) = n - 1
  BY <1>0, <1>1, <1>4, <1>5
<1>9. \A i \in 1..n - 1 : (p \o q)[i] = IF i < k THEN s[i] ELSE s[i + 1]
  <2> SUFFICES ASSUME NEW i \in 1..n - 1
               PROVE  (p \o q)[i] = IF i < k THEN s[i] ELSE s[i + 1]
    OBVIOUS
  <2>1. CASE i < k
    BY <1>0, <1>1, <1>4, <1>7, <1>8, <2>1
  <2>2. CASE k <= i
    <3>1. i - (k - 1) \in 1..n - k /\ ~(i <= k - 1) /\ k + (i - (k - 1)) = i + 1
      BY <1>0, <1>1, <2>2
    <3>2. q[i - (k - 1)] = s[i + 1]
      BY <1>5, <3>1
    <3> QED
      BY <1>0, <1>4, <1>7, <1>8, <2>2, <3>1, <3>2
  <2>3. i < k \/ k <= i
    BY <1>0, <1>1
  <2> QED
    BY <2>1, <2>2, <2>3
<1> QED
  BY <1>1, <1>6, <1>7, <1>8, <1>9

LEMMA RemovedFirst ==
  ASSUME NEW S, NEW s \in Seq(S), NEW e
  PROVE  /\ RemoveFirst(s, e) \in Seq(S)
         /\ \A k \in 1..Len(s) :
              (\A j \in 1..Len(s) : s[j] = e <=> j = k) => RemoveFirst(s, e) = RemoveAt(s, k)
<1> DEFINE I == {i \in 1..Len(s) : s[i] = e}
<1>0. Len(s) \in Nat
  OBVIOUS
<1>1. SelectInSeq(s, LAMBDA v : v = e) = IF I # {} THEN Min(I) ELSE 0
  BY DEF SelectInSeq
<1>2. I # {} => Min(I) \in I
  <2> SUFFICES ASSUME I # {} PROVE Min(I) \in I
    OBVIOUS
  <2>0. I # {}
    OBVIOUS
  <2>1. PICK x \in I : \A y \in I : x <= y
    <3> DEFINE less == OpToRel(<, Nat)
    <3>1. I \subseteq Nat
      BY <1>0
    <3>2. IsWellFoundedOn(less, Nat)
      BY NatLessThanWellFounded, Zenon
    <3>3. PICK x \in I : \A y \in I : ~ (<<y, x>> \in less)
      <4> HIDE DEF I, less
      <4> QED
        BY <2>0, <3>1, <3>2, WFMin
    <3> HIDE DEF I
    <3>4. \A y \in I : ~(y < x)
      <4> SUFFICES ASSUME NEW y \in I, y < x PROVE FALSE
        OBVIOUS
      <4>1. <<y, x>> \in Nat \X Nat /\ <<y, x>>[1] < <<y, x>>[2]
        BY <3>1
      <4>2. <<y, x>> \in less
        BY <4>1 DEF OpToRel
      <4> QED
        BY <3>3, <4>2
    <3> QED
      BY <3>1, <3>4
  <2> HIDE DEF I
  <2> QED
    BY <2>1 DEF Min
<1>3. I # {} <=> \E i \in 1..Len(s) : s[i] = e
  OBVIOUS
<1>4. RemoveFirst(s, e) = IF I # {} THEN RemoveAt(s, Min(I)) ELSE s
  BY <1>1, <1>3 DEF RemoveFirst
<1>5. RemoveFirst(s, e) \in Seq(S)
  <2>1. I # {} => Min(I) \in 1..Len(s)
    BY <1>2
  <2> HIDE DEF I
  <2> QED
    BY <1>4, <2>1, RemovedAt
<1>6. ASSUME NEW k \in 1..Len(s), \A j \in 1..Len(s) : s[j] = e <=> j = k
      PROVE  RemoveFirst(s, e) = RemoveAt(s, k)
  <2>1. I = {k}
    BY <1>6
  <2> HIDE DEF I
  <2> QED
    BY <1>2, <1>4, <2>1
<1> QED
  BY <1>5, <1>6

LEMMA LessonAdded ==
  ASSUME EditorInv, AddLesson
  PROVE  EditorInv'
<1>1. PICK new : /\ new = Len(items) + 1
                 /\ form' = Append(form, new) /\ wanted' = Append(wanted, new)
  BY DEF AddLesson
<1>2. /\ page = "content" /\ items' = Append(items, Blank)
      /\ Cardinality({i \in DOMAIN items : items[i].lesson = 0}) < MaxItems
      /\ UNCHANGED <<server, page, adminCache, answers, payload, aborted, loose, unmounted,
                     handlers, overtaken, tooLate>>
  BY DEF AddLesson
<1>3. EditorTypeOK /\ ListsInv /\ CacheInv
  BY DEF EditorInv
<1>4. items \in Seq(FormItems) /\ Len(items) \in Nat /\ DOMAIN items = 1..Len(items) /\ Blank \in FormItems
  BY <1>3, EditorAssumption DEF EditorTypeOK, FormItems, Blank, Videos
<1>5. /\ items' \in Seq(FormItems) /\ Len(items') = Len(items) + 1
      /\ \A i \in 1..Len(items) : items'[i] = items[i]
      /\ items'[Len(items) + 1] = Blank
  BY <1>2, <1>4, AppendProperties
<1>6. DOMAIN items' = 1..Len(items) + 1
  BY <1>5
<1>7. PICK a \in Nat, n \in Nat :
        /\ StoredAre(items, a, n) /\ a + n <= Len(items) /\ n <= MaxLessons
        /\ Len(items) - n <= MaxItems
        /\ "content" \notin answers => n = 0
  BY DEF EditorInv, ItemsInv
<1>8. Len(items) - n < MaxItems
  BY <1>2, <1>4, <1>7, DraftCount
<1>9. StoredAre(items', a, n)
  <2> SUFFICES ASSUME NEW i \in DOMAIN items'
               PROVE  items'[i].lesson # 0 <=> a < i /\ i <= a + n
    BY DEF StoredAre
  <2>1. CASE i <= Len(items)
    BY <1>4, <1>5, <1>6, <1>7, <2>1 DEF StoredAre
  <2>2. CASE i = Len(items) + 1
    BY <1>4, <1>5, <1>7, <2>2 DEF Blank
  <2> QED
    BY <1>4, <1>6, <2>1, <2>2
<1>10. ItemsInv'
  <2>1. a + n <= Len(items') /\ Len(items') - n <= MaxItems
    BY <1>4, <1>5, <1>7, <1>8, EditorAssumption
  <2> QED
    BY <1>2, <1>7, <1>9, <2>1 DEF ItemsInv, StoredAre
<1>11. DOMAIN items \subseteq DOMAIN items' /\ new \in DOMAIN items' /\ new \notin DOMAIN items
  BY <1>1, <1>4, <1>6
<1>12. form \in Seq(DOMAIN items) /\ wanted \in Seq(DOMAIN items)
       /\ \A j, k \in DOMAIN form : form[j] = form[k] => j = k
  BY <1>3 DEF ListsInv, ListOf
<1>13. form \in Seq(DOMAIN items') /\ wanted \in Seq(DOMAIN items')
  BY <1>11, <1>12
<1>14. /\ form' \in Seq(DOMAIN items') /\ wanted' \in Seq(DOMAIN items')
       /\ Len(form') = Len(form) + 1 /\ Len(form) \in Nat
       /\ \A k \in 1..Len(form) : form'[k] = form[k]
       /\ form'[Len(form) + 1] = new
  BY <1>1, <1>11, <1>13, AppendProperties
<1>15. ListOf(form)'
  <2>1. DOMAIN form = 1..Len(form) /\ DOMAIN form' = 1..Len(form) + 1
    BY <1>12, <1>14
  <2>2. \A k \in 1..Len(form) : form[k] \in DOMAIN items
    BY <1>12, ElementOfSeq
  <2>3. \A j, k \in DOMAIN form' : form'[j] = form'[k] => j = k
    <3> SUFFICES ASSUME NEW j \in DOMAIN form', NEW k \in DOMAIN form', form'[j] = form'[k]
                 PROVE  j = k
      OBVIOUS
    <3>1. j \in 1..Len(form) \/ j = Len(form) + 1
      BY <1>14, <2>1
    <3>2. k \in 1..Len(form) \/ k = Len(form) + 1
      BY <1>14, <2>1
    <3> QED
      BY <1>11, <1>12, <1>14, <2>1, <2>2, <3>1, <3>2
  <2> QED
    BY <1>14, <2>3 DEF ListOf
<1>16. FormInv' /\ PreviewIsWanted' /\ CancelInv' /\ CacheInv'
  BY <1>1, <1>2, <1>3
  DEF EditorInv, FormInv, PreviewIsWanted, CancelInv, CacheInv, server, handlers
<1>17. /\ page' \in {"info", "content", "preview"} /\ (page' # "content" => Mounted \subseteq loose')
       /\ aborted' \subseteq Requests /\ tooLate' \subseteq aborted' /\ aborted \subseteq aborted'
       /\ loose' \subseteq aborted' /\ overtaken' \in BOOLEAN
       /\ answers' \subseteq {"list", "content", "fresh"}
       /\ adminCache' = Nothing \/ adminCache' \in Seq([lesson : LessonIds, video : Videos])
  BY <1>2, <1>3 DEF EditorTypeOK
<1> QED
  BY <1>2, <1>5, <1>10, <1>11, <1>14, <1>15, <1>16, <1>17, FormSet

LEMMA LessonRemoved ==
  ASSUME EditorInv, NEW k \in ItemNames, RemoveLesson(k)
  PROVE  EditorInv'
<1>1. PICK us : us = {u \in Panels : mem[u].at = Len(form)}
  OBVIOUS
<1>2. /\ page = "content" /\ k \in 2..Len(form)
      /\ form' = RemoveAt(form, k) /\ wanted' = RemoveFirst(wanted, form[k])
      /\ Aborts(us) /\ loose' = loose \union us
      /\ UNCHANGED <<server, page, adminCache, answers, items, payload, unmounted,
                     handlers, overtaken>>
  BY <1>1 DEF RemoveLesson, Unmount
<1>3. EditorTypeOK /\ ListsInv /\ ItemsInv /\ CacheInv
  BY DEF EditorInv
<1>4. form \in Seq(DOMAIN items) /\ wanted \in Seq(DOMAIN items)
      /\ \A i, j \in DOMAIN form : form[i] = form[j] => i = j
  BY <1>3 DEF ListsInv, ListOf
<1>5. k \in 1..Len(form) /\ Len(form) \in Nat /\ DOMAIN form = 1..Len(form) /\ k \in Nat
  BY <1>2, <1>4
<1>6. /\ form' \in Seq(DOMAIN items) /\ Len(form') = Len(form) - 1
      /\ \A i \in 1..Len(form) - 1 : form'[i] = IF i < k THEN form[i] ELSE form[i + 1]
  <2>1. PICK S : S = DOMAIN items
    OBVIOUS
  <2>2. form \in Seq(S) /\ k \in 1..Len(form)
    BY <1>4, <1>5, <2>1
  <2>3. /\ RemoveAt(form, k) \in Seq(S) /\ Len(RemoveAt(form, k)) = Len(form) - 1
        /\ \A i \in 1..Len(form) - 1 :
             RemoveAt(form, k)[i] = IF i < k THEN form[i] ELSE form[i + 1]
    BY <2>2, RemovedAt
  <2> QED
    BY <1>2, <2>1, <2>3
<1>7. wanted' \in Seq(DOMAIN items)
  BY <1>2, <1>4, RemovedFirst
<1>8. form = wanted => form' = wanted'
  <2>1. \A j \in 1..Len(form) : form[j] = form[k] <=> j = k
    BY <1>4, <1>5
  <2>2. RemoveFirst(form, form[k]) = RemoveAt(form, k)
    BY <1>4, <1>5, <2>1, RemovedFirst
  <2> QED
    BY <1>2, <2>2
<1>9. ListOf(form)'
  <2>1. DOMAIN form' = 1..Len(form) - 1
    BY <1>6
  <2>2. ASSUME NEW i \in DOMAIN form', NEW j \in DOMAIN form', form'[i] = form'[j]
        PROVE  i = j
    <3>1. /\ i \in DOMAIN form /\ i + 1 \in DOMAIN form /\ i \in Nat
          /\ j \in DOMAIN form /\ j + 1 \in DOMAIN form /\ j \in Nat
      BY <1>5, <2>1
    <3>2. /\ form'[i] = IF i < k THEN form[i] ELSE form[i + 1]
          /\ form'[j] = IF j < k THEN form[j] ELSE form[j + 1]
      BY <1>6, <2>1
    <3>3. PICK x \in DOMAIN form, y \in DOMAIN form :
            /\ x = (IF i < k THEN i ELSE i + 1) /\ y = (IF j < k THEN j ELSE j + 1)
      BY <3>1
    <3>4. form[x] = form[y]
      BY <2>2, <3>2, <3>3
    <3>5. x = y
      BY <1>4, <3>4
    <3> QED
      BY <1>5, <3>1, <3>3, <3>5
  <2> QED
    BY <1>2, <1>6, <2>2 DEF ListOf
<1>10. us \subseteq {u \in Requests : Uploading(u)}
  BY <1>1 DEF Panels, Mounted
<1>11. /\ CancelInv'
       /\ aborted' = aborted \union us /\ aborted' \subseteq Requests /\ tooLate' \subseteq aborted'
  BY <1>2, <1>10, AbortsKeep DEF server, handlers
<1>12. FormInv' /\ PreviewIsWanted' /\ CacheInv' /\ ItemsInv'
  BY <1>2, <1>3, <1>8
  DEF EditorInv, FormInv, PreviewIsWanted, CacheInv, ItemsInv, StoredAre
<1>13. items' \in Seq(FormItems) /\ DOMAIN items \subseteq DOMAIN items'
       /\ wanted' \in Seq(DOMAIN items')
  BY <1>2, <1>3, <1>7 DEF EditorTypeOK, FormItems
<1>14. /\ page' \in {"info", "content", "preview"} /\ (page' # "content" => Mounted \subseteq loose')
       /\ aborted \subseteq aborted' /\ loose' \subseteq aborted' /\ overtaken' \in BOOLEAN
       /\ answers' \subseteq {"list", "content", "fresh"}
       /\ adminCache' = Nothing \/ adminCache' \in Seq([lesson : LessonIds, video : Videos])
  BY <1>2, <1>3, <1>11 DEF EditorTypeOK
<1> QED
  BY <1>2, <1>9, <1>11, <1>12, <1>13, <1>14, FormSet

LEMMA VideoPasted ==
  ASSUME EditorInv, NEW k, NEW v, Paste(k, v)
  PROVE  EditorInv'
<1>1. EditorTypeOK /\ ListsInv /\ CacheInv
  BY DEF EditorInv
<1>2. /\ page = "content" /\ k \in DOMAIN form /\ v \in published
      /\ items' = [items EXCEPT ![form[k]].video = v]
      /\ UNCHANGED <<server, page, adminCache, answers, form, payload, aborted,
                     loose, unmounted, handlers, editorNotes>>
  BY DEF Paste
<1>3. PICK i \in DOMAIN items : i = form[k]
  BY <1>1, <1>2 DEF ListsInv, ListOf
<1>4. items \in Seq(FormItems) /\ DOMAIN items = 1..Len(items) /\ Len(items) \in Nat
  BY <1>1 DEF EditorTypeOK, FormItems
<1>5. PICK item : item = [items[i] EXCEPT !.video = v]
  OBVIOUS
<1>6. item \in FormItems /\ item.lesson = items[i].lesson
  <2>1. items[i] \in FormItems /\ v \in Videos
    BY <1>1, <1>2, <1>4 DEF EditorTypeOK, Videos
  <2> QED
    BY <1>5, <2>1 DEF FormItems
<1>7. items' = [items EXCEPT ![i] = item]
  BY <1>2, <1>3, <1>5
<1>8. items' \in [1..Len(items) -> FormItems]
  BY <1>4, <1>6, <1>7
<1>9. /\ items' \in Seq(FormItems) /\ Len(items') = Len(items) /\ DOMAIN items' = DOMAIN items
      /\ \A j \in DOMAIN items : items'[j].lesson = items[j].lesson
  <2>1. items' \in Seq(FormItems) /\ Len(items') = Len(items)
    BY <1>4, <1>8, SeqOfFunction
  <2> QED
    BY <1>4, <1>6, <1>7, <2>1
<1>10. ItemsInv'
  BY <1>2, <1>9 DEF EditorInv, ItemsInv, StoredAre
<1>11. ListOf(form)' /\ wanted' \in Seq(DOMAIN items')
  BY <1>1, <1>2, <1>9 DEF ListsInv, ListOf, editorNotes
<1>12. FormInv' /\ PreviewIsWanted' /\ CancelInv' /\ CacheInv'
  BY <1>1, <1>2
  DEF EditorInv, FormInv, PreviewIsWanted, CancelInv, CacheInv, server, handlers, editorNotes
<1>13. /\ page' \in {"info", "content", "preview"} /\ (page' # "content" => Mounted \subseteq loose')
       /\ aborted' \subseteq Requests /\ tooLate' \subseteq aborted' /\ aborted \subseteq aborted'
       /\ loose' \subseteq aborted' /\ overtaken' \in BOOLEAN
       /\ answers' \subseteq {"list", "content", "fresh"}
       /\ adminCache' = Nothing \/ adminCache' \in Seq([lesson : LessonIds, video : Videos])
  BY <1>1, <1>2 DEF EditorTypeOK, editorNotes
<1>14. UNCHANGED <<server, payload, unmounted, handlers>> /\ DOMAIN items \subseteq DOMAIN items'
  BY <1>2, <1>9
<1> QED
  BY <1>9, <1>10, <1>11, <1>12, <1>13, <1>14, FormSet

LEMMA EditorInvNext == EditorInv /\ [EditorNext]_editorVars => EditorInv'
<1> SUFFICES ASSUME EditorInv, [EditorNext]_editorVars PROVE EditorInv'
  OBVIOUS
<1>1. ASSUME NEW u \in Requests, UploadStep(u) PROVE EditorInv'
  <2>1. CASE \E k \in ItemNames : BeginUpload(u, k)
    BY <2>1, UploadBegins
  <2>2. CASE Cancel(u) \/ Collapse(u)
    BY <2>2, PanelsGo
  <2>3. CASE Transfer(u) \/ Poll(u) \/ Polled(u) \/ PublishVideo(u)
    BY <2>3, UploadGoesOn
  <2>4. CASE LinkVideo(u)
    BY <2>4, VideoLinked
  <2>5. CASE OnLinked(u)
    BY <2>5, DraftLinked
  <2>6. CASE PublishHeadless(u) \/ AttachByScript(u) \/ (\E v \in Requests : AttachPublished(u, v))
             \/ Spread(u)
    BY <2>6, ScriptsMove
  <2> QED
    BY <1>1, <2>1, <2>2, <2>3, <2>4, <2>5, <2>6 DEF UploadStep
<1>2. CASE \E known \in SUBSET {"list", "content"} : Open(known)
  BY <1>2, EditorOpens
<1>3. CASE ListArrives
  BY <1>3, AnswersCome
<1>4. CASE ContentArrives
  BY <1>4, ContentComes
<1>5. CASE Leave \/ ToContent \/ ToInfo \/ ToPreview
  BY <1>5, PagesTurn
<1>6. CASE AddLesson
  BY <1>6, LessonAdded
<1>7. CASE \E k \in ItemNames : RemoveLesson(k)
  BY <1>7, LessonRemoved
<1>8. CASE \E k \in ItemNames, v \in Requests : Paste(k, v)
  BY <1>8, VideoPasted
<1>9. CASE \/ SaveCourse \/ (\E v \in Requests : SaveElsewhere(v))
           \/ (\E k \in ItemNames : LinkPasted(k)) \/ DropAnswer
  BY <1>9, LessonsAreSaved
<1>10. CASE UNCHANGED editorVars
  <2>1. CacheInv' /\ RowsInv' /\ lessonRows' \in [LessonIds -> Videos \union {"unborn", "deleted"}]
    BY <1>10 DEF EditorInv, EditorTypeOK, CacheInv, RowsInv, RowsAre, editorVars, server, editor
  <2> QED
    BY <1>10, <2>1, RowsChange DEF editorVars, server, editor
<1> QED
  BY <1>1, <1>2, <1>3, <1>4, <1>5, <1>6, <1>7, <1>8, <1>9, <1>10 DEF EditorNext, RestEditor

LEMMA EditorSafe == EditorSpec => []EditorInv
<1> QED
  BY EditorInvInit, EditorInvNext, PTL DEF EditorSpec

\* The editors, the uploads and the scripts keep their types.
THEOREM EditorTypeCorrect == EditorSpec => []EditorTypeOK
<1>1. EditorInv => EditorTypeOK
  BY DEF EditorInv
<1> QED
  BY <1>1, EditorSafe, PTL

\* What the preview saves is what the author left in the form, or an upload
\* overtook it (handleSubmit and onLinked of CourseContent); and an upload that
\* was cancelled is published only if nobody looked at its signal any more
\* (UploadCancelledError, the cleanup of StreamplaceVideoUpload).
THEOREM EditorAlwaysObeys == EditorSpec => []EditorObeys
<1>1. EditorInv => EditorObeys
  <2> SUFFICES ASSUME EditorInv PROVE CancelledAreNotPublished
    BY DEF EditorObeys, EditorInv
  <2>1. \A u \in aborted \ tooLate : u \notin published
    BY DEF EditorInv, CancelInv
  <2> QED
    BY <2>1 DEF CancelledAreNotPublished
<1> QED
  BY <1>1, EditorSafe, PTL

-----------------------------------------------------------------------------
\* The scenes.

\* In each scene the apps behave as the component that is on it: the runs check
\* the components as their modules specify them.
THEOREM AppScenes ==
  MCSpec =>
    /\ scene = "editor" => EditorSpec
    /\ scene = "quiz" => QuizSpec
    /\ scene = "publishing" => PublishingSpec
    /\ scene = "indexer" => IndexerSpec
    /\ scene = "layouts" => LayoutSpec
    /\ scene = "pilot" => PilotSpec
    /\ scene = "learner" => LearnerSpec
    /\ scene = "offline" => OfflineSpec
    /\ scene = "road" => LessonRoadSpec
<1>1. MCSpec => (scene = "editor" => EditorSpec)
  <2>1. MCInit /\ scene = "editor" => EditorInit
    BY DEF MCInit
  <2>2. scene = "editor" /\ [MCNext]_appsVars => (scene = "editor")'
    BY DEF MCNext, appsVars
  <2>3. scene = "editor" /\ [MCNext]_appsVars => [EditorNext]_editorVars
    BY DEF MCNext, appsVars, editorOwn, editorVars
  <2> QED
    BY <2>1, <2>2, <2>3, PTL DEF MCSpec, EditorSpec
<1>2. MCSpec => (scene = "quiz" => QuizSpec)
  <2>1. MCInit /\ scene = "quiz" => QuizInit
    BY DEF MCInit
  <2>2. scene = "quiz" /\ [MCNext]_appsVars => (scene = "quiz")'
    BY DEF MCNext, appsVars
  <2>3. scene = "quiz" /\ [MCNext]_appsVars => [QuizNext]_quizVars
    BY DEF MCNext, appsVars, quizOwn, quizVars, quizMarks
  <2> QED
    BY <2>1, <2>2, <2>3, PTL DEF MCSpec, QuizSpec
<1>3. MCSpec => (scene = "publishing" => PublishingSpec)
  <2>1. MCInit /\ scene = "publishing" => PublishingInit
    BY DEF MCInit
  <2>2. scene = "publishing" /\ [MCNext]_appsVars => (scene = "publishing")'
    BY DEF MCNext, appsVars
  <2>3. scene = "publishing" /\ [MCNext]_appsVars => [PublishingNext]_publishingVars
    BY DEF MCNext, appsVars, publishingOwn, publishingVars
  <2> QED
    BY <2>1, <2>2, <2>3, PTL DEF MCSpec, PublishingSpec
<1>4. MCSpec => (scene = "indexer" => IndexerSpec)
  <2>1. MCInit /\ scene = "indexer" => IndexerInit
    BY DEF MCInit
  <2>2. scene = "indexer" /\ [MCNext]_appsVars => (scene = "indexer")'
    BY DEF MCNext, appsVars
  <2>3. scene = "indexer" /\ [MCNext]_appsVars => [IndexerNext]_indexerVars
    BY DEF MCNext, appsVars, indexerVars
  <2> QED
    BY <2>1, <2>2, <2>3, PTL DEF MCSpec, IndexerSpec
<1>5. MCSpec => (scene = "layouts" => LayoutSpec)
  <2>1. MCInit /\ scene = "layouts" => LayoutInit
    BY DEF MCInit
  <2>2. scene = "layouts" /\ [MCNext]_appsVars => (scene = "layouts")'
    BY DEF MCNext, appsVars
  <2>3. scene = "layouts" /\ [MCNext]_appsVars => [LayoutNext]_layoutVars
    BY DEF MCNext, appsVars, layoutOwn, layoutVars
  <2> QED
    BY <2>1, <2>2, <2>3, PTL DEF MCSpec, LayoutSpec
<1>6. MCSpec => (scene = "pilot" => PilotSpec)
  <2>1. MCInit /\ scene = "pilot" => PilotInit
    BY DEF MCInit
  <2>2. scene = "pilot" /\ [MCNext]_appsVars => (scene = "pilot")'
    BY DEF MCNext, appsVars
  <2>3. scene = "pilot" /\ [MCNext]_appsVars => [PilotNext]_pilotVars
    BY DEF MCNext, appsVars, pilotOwn, pilotVars
  <2> QED
    BY <2>1, <2>2, <2>3, PTL DEF MCSpec, PilotSpec
<1>7. MCSpec => (scene = "learner" => LearnerSpec)
  <2>1. MCInit /\ scene = "learner" => LearnerInit
    BY DEF MCInit
  <2>2. scene = "learner" /\ [MCNext]_appsVars => (scene = "learner")'
    BY DEF MCNext, appsVars
  <2>3. scene = "learner" /\ [MCNext]_appsVars => [LearnerNext]_learnerVars
    BY DEF MCNext, appsVars, learnerOwn, learnerVars
  <2> QED
    BY <2>1, <2>2, <2>3, PTL DEF MCSpec, LearnerSpec
<1>8. MCSpec => (scene = "offline" => OfflineSpec)
  <2>1. MCInit /\ scene = "offline" => OfflineInit
    BY DEF MCInit
  <2>2. scene = "offline" /\ [MCNext]_appsVars => (scene = "offline")'
    BY DEF MCNext, appsVars
  <2>3. scene = "offline" /\ [MCNext]_appsVars => [OfflineNext]_offlineVars
    BY DEF MCNext, appsVars, offlineOwn, offlineVars
  <2> QED
    BY <2>1, <2>2, <2>3, PTL DEF MCSpec, OfflineSpec
<1>9. MCSpec => (scene = "road" => LessonRoadSpec)
  <2>1. MCInit /\ scene = "road" => LessonRoadInit
    BY DEF MCInit
  <2>2. scene = "road" /\ [MCNext]_appsVars => (scene = "road")'
    BY DEF MCNext, appsVars
  <2>3. scene = "road" /\ [MCNext]_appsVars => [LessonRoadNext]_roadVars
    BY DEF MCNext, appsVars, roadVars
  <2> QED
    BY <2>1, <2>2, <2>3, PTL DEF MCSpec, LessonRoadSpec
<1> QED
  BY <1>1, <1>2, <1>3, <1>4, <1>5, <1>6, <1>7, <1>8, <1>9

\* Every client, the publications, the indexer and the pilot keep their types.
THEOREM AppsTypeCorrect == MCSpec => []AppsTypeOK
<1>1. MCSpec => [](scene = "editor" => EditorTypeOK)
  <2>1. scene = "editor" /\ [MCNext]_appsVars => (scene = "editor")'
    BY DEF MCNext, appsVars
  <2>2. ~(scene = "editor") /\ [MCNext]_appsVars => ~(scene = "editor")'
    BY DEF MCNext, appsVars
  <2> QED
    BY <2>1, <2>2, AppScenes, EditorTypeCorrect, PTL DEF MCSpec
<1>2. MCSpec => [](scene = "quiz" => QuizTypeOK)
  <2>1. scene = "quiz" /\ [MCNext]_appsVars => (scene = "quiz")'
    BY DEF MCNext, appsVars
  <2>2. ~(scene = "quiz") /\ [MCNext]_appsVars => ~(scene = "quiz")'
    BY DEF MCNext, appsVars
  <2> QED
    BY <2>1, <2>2, AppScenes, QuizTypeCorrect, PTL DEF MCSpec
<1>3. MCSpec => [](scene = "publishing" => PublishingTypeOK)
  <2>1. scene = "publishing" /\ [MCNext]_appsVars => (scene = "publishing")'
    BY DEF MCNext, appsVars
  <2>2. ~(scene = "publishing") /\ [MCNext]_appsVars => ~(scene = "publishing")'
    BY DEF MCNext, appsVars
  <2> QED
    BY <2>1, <2>2, AppScenes, PublishingTypeCorrect, PTL DEF MCSpec
<1>4. MCSpec => [](scene = "indexer" => IndexerTypeOK)
  <2>1. scene = "indexer" /\ [MCNext]_appsVars => (scene = "indexer")'
    BY DEF MCNext, appsVars
  <2>2. ~(scene = "indexer") /\ [MCNext]_appsVars => ~(scene = "indexer")'
    BY DEF MCNext, appsVars
  <2> QED
    BY <2>1, <2>2, AppScenes, IndexerTypeCorrect, PTL DEF MCSpec
<1>5. MCSpec => [](scene = "layouts" => LayoutTypeOK)
  <2>1. scene = "layouts" /\ [MCNext]_appsVars => (scene = "layouts")'
    BY DEF MCNext, appsVars
  <2>2. ~(scene = "layouts") /\ [MCNext]_appsVars => ~(scene = "layouts")'
    BY DEF MCNext, appsVars
  <2> QED
    BY <2>1, <2>2, AppScenes, LayoutTypeCorrect, PTL DEF MCSpec
<1>6. MCSpec => [](scene = "pilot" => PilotTypeOK)
  <2>1. scene = "pilot" /\ [MCNext]_appsVars => (scene = "pilot")'
    BY DEF MCNext, appsVars
  <2>2. ~(scene = "pilot") /\ [MCNext]_appsVars => ~(scene = "pilot")'
    BY DEF MCNext, appsVars
  <2> QED
    BY <2>1, <2>2, AppScenes, PilotTypeCorrect, PTL DEF MCSpec
<1>7. MCSpec => [](scene = "learner" => LearnerTypeOK)
  <2>1. scene = "learner" /\ [MCNext]_appsVars => (scene = "learner")'
    BY DEF MCNext, appsVars
  <2>2. ~(scene = "learner") /\ [MCNext]_appsVars => ~(scene = "learner")'
    BY DEF MCNext, appsVars
  <2> QED
    BY <2>1, <2>2, AppScenes, LearnerTypeCorrect, PTL DEF MCSpec
<1>8. MCSpec => [](scene = "offline" => OfflineTypeOK)
  <2>1. scene = "offline" /\ [MCNext]_appsVars => (scene = "offline")'
    BY DEF MCNext, appsVars
  <2>2. ~(scene = "offline") /\ [MCNext]_appsVars => ~(scene = "offline")'
    BY DEF MCNext, appsVars
  <2> QED
    BY <2>1, <2>2, AppScenes, OfflineTypeCorrect, PTL DEF MCSpec
<1>9. MCSpec => [](scene = "road" => LessonRoadTypeOK)
  <2>1. scene = "road" /\ [MCNext]_appsVars => (scene = "road")'
    BY DEF MCNext, appsVars
  <2>2. ~(scene = "road") /\ [MCNext]_appsVars => ~(scene = "road")'
    BY DEF MCNext, appsVars
  <2> QED
    BY <2>1, <2>2, AppScenes, RoadTypeCorrect, PTL DEF MCSpec
<1> QED
  BY <1>1, <1>2, <1>3, <1>4, <1>5, <1>6, <1>7, <1>8, <1>9, PTL DEF AppsTypeOK
=============================================================================
