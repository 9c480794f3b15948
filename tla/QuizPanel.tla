------------------------------ MODULE QuizPanel ------------------------------
(***************************************************************************)
(* The quiz panel of apps/admin (QuizEditor) in one place of the course    *)
(* editor, whose lesson changes when lessons are removed or put back, and  *)
(* the quizzes that apps/api keeps.                                        *)
(*                                                                         *)
(* Each request is one call of the panel to /quiz.  Of questions the model *)
(* keeps for which lessons they were drafted.                              *)
(***************************************************************************)
EXTENDS Handlers

CONSTANT QuizLessons   \* lessons that have an id; 0 is a draft without one

ASSUME QuizPanelAssumption == QuizLessons \subseteq Nat \ {0} /\ Nothing \notin Nat

VARIABLES
  quizRows,    \* the questions of each lesson's quiz, {} without a quiz
  shownLesson, \* the prop lessonId, 0 for undefined
  expanded,
  loading,
  asking,      \* the load whose effect has not been cleaned up
  hasQuiz,
  questions,
  saving, deleting   \* the calls that isSaving and isDeleting wait for

\* History.
VARIABLES
  halfRead,    \* loads that were cancelled while the body of their answer was read
  mixed        \* lessons that got others' questions in the form by one of those, or
               \* kept them when their load failed

quizPanel == <<shownLesson, expanded, loading, asking, hasQuiz, questions, saving,
               deleting>>
quizMarks == <<halfRead, mixed>>
quizVars == <<quizRows, quizPanel, quizMarks, handlers>>

QuizSteps == {"free", "load", "loaded", "reading", "save", "saved", "delete", "deleted",
              "failed", "done"}

\* of: the lesson that the call is about; body: the questions sent or read.
QuizMemory == [of : QuizLessons, body : SUBSET QuizLessons]

QuizTypeOK ==
  /\ quizRows \in [QuizLessons -> SUBSET QuizLessons]
  /\ shownLesson \in QuizLessons \union {0}
  /\ expanded \in BOOLEAN /\ loading \in BOOLEAN /\ hasQuiz \in BOOLEAN
  /\ \A call \in {asking, saving, deleting} : call \in Requests \union {Nothing}
  /\ questions \subseteq QuizLessons
  /\ halfRead \subseteq Requests /\ mixed \subseteq QuizLessons
  /\ step \in [Requests -> QuizSteps]
  /\ mem \in [Requests -> QuizMemory \union {Nothing}]
  /\ \A r \in Requests : step[r] \notin {"free", "done"} => mem[r] \in QuizMemory
  /\ breaks \in 0..MaxBreaks

-----------------------------------------------------------------------------
\* The effect on [expanded, lessonId]: the load that runs is cancelled, and
\* with a lesson to show another one starts.
Effect(r, l, open) ==
  /\ shownLesson' = l /\ expanded' = open
  /\ IF open /\ l # 0
     THEN /\ step[r] = "free"
          /\ GoesWith(r, "load", [of |-> l, body |-> {}])
          /\ asking' = r /\ loading' = TRUE
     ELSE /\ asking' = Nothing
          /\ UNCHANGED <<step, mem, loading>>
  /\ halfRead' = halfRead \union {q \in Requests : q = asking /\ step[q] = "reading"}
  /\ UNCHANGED <<quizRows, hasQuiz, questions, saving, deleting, breaks, mixed>>

Toggle(r) == Effect(r, shownLesson, ~expanded)

\* A lesson before this place is removed, or an upload puts it back.
Shift(r, l) == l # shownLesson /\ Effect(r, l, expanded)

\* The server reads the quiz, or the call fails.
ServeLoad(r) ==
  /\ step[r] = "load"
  /\ \/ GoesWith(r, "loaded", [mem[r] EXCEPT !.body = quizRows[mem[r].of]])
     \/ Goes(r, "failed")
  /\ UNCHANGED <<quizRows, quizPanel, breaks, quizMarks>>

\* Mutant of Heeded: the answer of a cancelled load is used.
HeededAlways(r) == TRUE

\* `if (cancelled) return`.
Heeded(r) == asking = r

\* `if (!cancelled) setLoading(false)`.
Settles(r) ==
  IF asking = r THEN loading' = FALSE /\ asking' = Nothing ELSE UNCHANGED <<loading, asking>>

\* The answer of the load that runs: a 404 clears the form, else the body is read.
Loaded(r) ==
  /\ step[r] = "loaded"
  /\ \/ /\ Heeded(r) /\ mem[r].body # {}
        /\ Goes(r, "reading") /\ UNCHANGED <<questions, hasQuiz, loading, asking>>
     \/ /\ Heeded(r) /\ mem[r].body = {}
        /\ Goes(r, "done") /\ questions' = {} /\ hasQuiz' = FALSE /\ Settles(r)
     \/ ~Heeded(r) /\ Goes(r, "done") /\ UNCHANGED <<questions, hasQuiz, loading, asking>>
  /\ UNCHANGED <<quizRows, shownLesson, expanded, saving, deleting, breaks, quizMarks>>

\* What the panel renders.
FormShown == expanded /\ shownLesson # 0 /\ ~loading

\* The body fills the form, whatever lesson it is the form of by now.
BodyRead(r) ==
  /\ step[r] = "reading"
  /\ Goes(r, "done")
  /\ questions' = mem[r].body /\ hasQuiz' = TRUE /\ Settles(r)
  /\ mixed' = IF r \in halfRead /\ FormShown /\ mem[r].of # shownLesson
              THEN mixed \union {shownLesson} ELSE mixed
  /\ halfRead' = halfRead \ {r}
  /\ UNCHANGED <<quizRows, shownLesson, expanded, saving, deleting, breaks>>

\* Any other error, and a body that does not come, leave the form as it was.
LoadFails(r) ==
  /\ step[r] \in {"failed", "reading"}
  /\ Goes(r, "done") /\ halfRead' = halfRead \ {r}
  /\ Settles(r)
  /\ mixed' = IF asking # r \/ questions \subseteq {mem[r].of} THEN mixed
              ELSE mixed \union {mem[r].of}
  /\ UNCHANGED <<quizRows, shownLesson, expanded, hasQuiz, questions, saving, deleting, breaks>>

\* handleAddQuestion and the fields; handleRemoveQuestion.
Draft ==
  /\ FormShown
  /\ questions' \in {questions \union {shownLesson}, questions \ {shownLesson}}
  /\ UNCHANGED <<quizRows, shownLesson, expanded, loading, asking, hasQuiz, saving,
                 deleting, quizMarks, handlers>>

-----------------------------------------------------------------------------
\* handleSave, with at least one question (validate).
BeginSave(r) ==
  /\ FormShown /\ saving = Nothing /\ questions # {} /\ step[r] = "free"
  /\ GoesWith(r, "save", [of |-> shownLesson, body |-> questions])
  /\ saving' = r
  /\ UNCHANGED <<quizRows, shownLesson, expanded, loading, asking, hasQuiz, questions,
                 deleting, breaks, quizMarks>>

\* The answer of a call that was served may be lost.
ServeSave(r) ==
  /\ step[r] = "save"
  /\ \/ /\ quizRows' = [quizRows EXCEPT ![mem[r].of] = mem[r].body]
        /\ \E to \in {"saved", "done"} : Goes(r, to)
     \/ Goes(r, "done") /\ UNCHANGED quizRows
  /\ saving' = IF step'[r] = "done" THEN Nothing ELSE saving
  /\ UNCHANGED <<shownLesson, expanded, loading, asking, hasQuiz, questions, deleting,
                 breaks, quizMarks>>

Saved(r) ==
  /\ step[r] = "saved"
  /\ Goes(r, "done")
  /\ hasQuiz' = TRUE /\ saving' = Nothing
  /\ UNCHANGED <<quizRows, shownLesson, expanded, loading, asking, questions, deleting,
                 breaks, quizMarks>>

\* handleDelete, once it is confirmed.
BeginDeleteQuiz(r) ==
  /\ FormShown /\ hasQuiz /\ deleting = Nothing /\ step[r] = "free"
  /\ GoesWith(r, "delete", [of |-> shownLesson, body |-> {}])
  /\ deleting' = r
  /\ UNCHANGED <<quizRows, shownLesson, expanded, loading, asking, hasQuiz, questions,
                 saving, breaks, quizMarks>>

ServeDelete(r) ==
  /\ step[r] = "delete"
  /\ \/ /\ quizRows' = [quizRows EXCEPT ![mem[r].of] = {}]
        /\ \E to \in {"deleted", "done"} : Goes(r, to)
     \/ Goes(r, "done") /\ UNCHANGED quizRows
  /\ deleting' = IF step'[r] = "done" THEN Nothing ELSE deleting
  /\ UNCHANGED <<shownLesson, expanded, loading, asking, hasQuiz, questions, saving,
                 breaks, quizMarks>>

Deleted(r) ==
  /\ step[r] = "deleted"
  /\ Goes(r, "done")
  /\ hasQuiz' = FALSE /\ questions' = {} /\ deleting' = Nothing
  /\ UNCHANGED <<quizRows, shownLesson, expanded, loading, asking, saving, breaks, quizMarks>>

-----------------------------------------------------------------------------
QuizCall(r) ==
  \/ Toggle(r) \/ \E l \in QuizLessons \union {0} : Shift(r, l)
  \/ ServeLoad(r) \/ Loaded(r) \/ BodyRead(r) \/ LoadFails(r)
  \/ BeginSave(r) \/ ServeSave(r) \/ Saved(r)
  \/ BeginDeleteQuiz(r) \/ ServeDelete(r) \/ Deleted(r)

RestQuiz == AtRest /\ UNCHANGED quizVars

QuizNext == (\E r \in Requests : QuizCall(r)) \/ Draft \/ RestQuiz

QuizInit ==
  /\ quizRows \in [QuizLessons -> SUBSET QuizLessons]
  /\ \A l \in QuizLessons : quizRows[l] \subseteq {l}
  /\ shownLesson \in QuizLessons \union {0}
  /\ expanded = FALSE /\ loading = FALSE /\ asking = Nothing
  /\ hasQuiz = FALSE /\ questions = {} /\ saving = Nothing /\ deleting = Nothing
  /\ halfRead = {} /\ mixed = {}
  /\ step = [r \in Requests |-> "free"] /\ mem = [r \in Requests |-> Nothing]
  /\ breaks = 0

QuizSpec == QuizInit /\ [][QuizNext]_quizVars

-----------------------------------------------------------------------------
\* Properties.

\* Questions are saved for the lesson they were drafted for (the `cancelled`
\* guard of QuizEditor's effect), unless its load failed under a form that held
\* those of another lesson, or a load of another lesson filled its form: one that
\* was cancelled after the guard, while its body was read.
QuizzesKeepApart == \A l \in QuizLessons : l \in mixed \/ quizRows[l] \subseteq {l}
=============================================================================
