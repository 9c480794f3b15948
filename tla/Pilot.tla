--------------------------------- MODULE Pilot ---------------------------------
(***************************************************************************)
(* packages/pilot: the Learning runtime, the only writer of the            *)
(* institution's space, with one learner and one course.  Its operations   *)
(* are tasks of a serial queue; each await reads or writes a repository of *)
(* the PDS.  A write that the runtime gave up on (AbortSignal.timeout, a   *)
(* lost answer, a restart) is adrift: it may still land, at any time.      *)
(*                                                                         *)
(* The PDS is external.  A snapshot is one read: it is bracketed by the    *)
(* head revision, and retried when the head moved.                         *)
(***************************************************************************)
EXTENDS Handlers

CONSTANTS
  CommandKeys,   \* idempotency keys of the learner's commands
  Founding,      \* the key under which the institution creates the course
  PilotLessons,  \* the course has the lessons 1..PilotLessons
  QuizLesson     \* the lesson that has a quiz, if it is one of them

ASSUME PilotAssumption ==
  /\ PilotLessons \in Nat \ {0} /\ QuizLesson \in Nat
  /\ Founding \notin CommandKeys /\ Nothing \notin CommandKeys

VARIABLES
  requests,      \* the learner's space: request records, the input by key
  receipts,      \*   receipt records, the result by key
  intent,        \*   the record key of the completion to publish
  courseRow,     \* the institution's space: the course record
  outbox,        \*   its outbox row
  commands,      \*   command records, by key
  enrollment,    \*   the learner's enrollment
  certificate,   \*   whether its certificate exists
  site,          \* the institution's public records of the course
  completions,   \* the learner's public app.civic.progress records
  connected,     \* the runtime: it has the institution's repository
  courses,         \*   its index: the map `courses`
  adrift         \* writes given up on that have not landed

\* History.
VARIABLES
  before,        \* the quiz attempts that were there at first
  told,          \* answers given: the key and the result
  late           \* a write landed after a later task had begun

spaces == <<requests, receipts, intent, courseRow, outbox, commands, enrollment,
            certificate, site, completions>>
runtime == <<connected, courses>>
pilotNotes == <<before, told, late>>
pilotVars == <<spaces, runtime, adrift, pilotNotes, handlers>>

PilotSet == 1..PilotLessons
Inputs ==
  [do : {"enroll", "claim"}, at : {0}] \union [do : {"watch"}, at : PilotSet]
  \union [do : {"quiz"}, at : {0, 1}]        \* 1: the answers are good enough
Creation == [do |-> "create", at |-> 0]
Errands == [do : {"connect", "rebuild", "flush", "complete"}, at : {0}]

Enrollments ==
  [completed : SUBSET PilotSet, passed : BOOLEAN, attempts : Nat,
   finished : BOOLEAN, certified : BOOLEAN]
Fresh == [completed |-> {}, passed |-> FALSE, attempts |-> 0,
          finished |-> FALSE, certified |-> FALSE]

WriteSteps == {"ask", "commit", "intend", "publish", "course", "lesson", "sections", "batch"}
PilotSteps == {"free", "request", "prior", "enrollment", "certificate", "replay",
               "deliver", "snapshot", "index", "received", "done"} \union WriteSteps

\* The local variables of a task: its key and input, what it read or computed.
PilotMemory ==
  [key : CommandKeys \union {Founding}, input : Inputs \union {Creation} \union Errands,
   had : Enrollments \union {Nothing}, e : Enrollments \union {Nothing},
   mints : BOOLEAN, n : 0..PilotLessons, seen : {"none", "pending", "published"},
   tid : Requests]
Receipt == [input : Inputs \union {Creation}, e : Enrollments \union {Nothing}]
PilotWrites == [at : WriteSteps, of : Requests, with : PilotMemory, crossed : BOOLEAN]

ASSUME PilotRecordsAssumption == Nothing \notin Enrollments \union Receipt

PilotTypeOK ==
  /\ requests \in [CommandKeys -> Inputs \union {Nothing}]
  /\ receipts \in [CommandKeys -> Enrollments \union {Nothing}]
  /\ intent \in Requests \union {Nothing}
  /\ courseRow \in {"none", "pending", "published"}
  /\ outbox \in {"none", "due", "delivered"}
  /\ commands \in [CommandKeys \union {Founding} -> Receipt \union {Nothing}]
  /\ enrollment \in Enrollments \union {Nothing}
  /\ certificate \in BOOLEAN /\ connected \in BOOLEAN /\ late \in BOOLEAN
  /\ site \in [course : {"none", "bare", "whole"}, lessons : SUBSET PilotSet]
  /\ completions \subseteq Requests
  /\ courses \in {"none", "pending", "published"}
  /\ \A w \in adrift : w \in PilotWrites
  /\ before \in Nat
  /\ step \in [Requests -> PilotSteps]
  /\ \A r \in Requests : step[r] \notin {"free", "done"} => mem[r] \in PilotMemory
  /\ breaks \in 0..MaxBreaks

Satisfied(e, l) == l \in e.completed /\ (l = QuizLesson => e.passed)
Complete(e) == \A l \in PilotSet : Satisfied(e, l)
Unlocked(e, l) == \A p \in PilotSet : p < l => Satisfied(e, p)

-----------------------------------------------------------------------------
\* Mutant of Served: tasks run beside one another.
ServedAtOnce(r) == step[r] = "free"

\* The queue serves one task at a time; which one waits next is left open.
Served(r) == step[r] = "free" /\ AtRest

FirstStep(input) ==
  CASE input \in Inputs -> "request"
    [] input = Creation -> "prior"
    [] input.do \in {"connect", "rebuild", "flush"} -> "snapshot"
    [] input.do = "complete" -> "enrollment"

\* A task begins: a command of the learner or of the institution, or an errand
\* of the browser, the timer or a sign-in.  All but the sign-in need the
\* institution.
Begin(r) ==
  /\ Served(r)
  /\ \E key \in CommandKeys \union {Founding},
        input \in Inputs \union {Creation} \union Errands :
       /\ input \in Inputs <=> key \in CommandKeys
       /\ connected \/ input.do = "connect"
       /\ GoesWith(r, FirstStep(input),
            [key |-> key, input |-> input, had |-> Nothing, e |-> Nothing,
             mints |-> FALSE, n |-> 0, seen |-> "none", tid |-> r])
  /\ adrift' = {[w EXCEPT !.crossed = TRUE] : w \in adrift}
  /\ UNCHANGED <<spaces, connected, courses, pilotNotes, breaks>>

\* A read fails: the task ends with an error.
PilotReadFails(r) ==
  /\ step[r] \in {"request", "prior", "enrollment", "certificate", "replay", "snapshot"}
  /\ breaks < MaxBreaks /\ breaks' = breaks + 1
  /\ Goes(r, "done")
  /\ UNCHANGED <<spaces, runtime, adrift, pilotNotes>>

-----------------------------------------------------------------------------
\* execute.  Is there a request record of this key, with this input?
GetRequest(r) ==
  /\ step[r] = "request"
  /\ Goes(r, CASE requests[mem[r].key] = Nothing -> "ask"
               [] requests[mem[r].key] = mem[r].input -> "prior"
               [] OTHER -> "done")
  /\ UNCHANGED <<spaces, runtime, adrift, pilotNotes, breaks>>

\* Is there a command record of this key?
Known(key) == commands[key] # Nothing

GetCommand(r) ==
  LET prior == commands[mem[r].key] IN
  /\ step[r] = "prior"
  /\ \/ ~Known(mem[r].key)
        /\ Goes(r, IF mem[r].key = Founding THEN "commit" ELSE "enrollment")
     \/ Known(mem[r].key) /\ prior.input # mem[r].input /\ Goes(r, "done")
     \/ Known(mem[r].key) /\ prior.input = mem[r].input
        /\ GoesWith(r, IF mem[r].key = Founding THEN "replay" ELSE "deliver",
                    [mem[r] EXCEPT !.e = prior.e])
  /\ UNCHANGED <<spaces, runtime, adrift, pilotNotes, breaks>>

\* The answer to a creation that had been committed restores the index.
Replay(r) ==
  /\ step[r] = "replay"
  /\ courses' = courseRow
  /\ told' = told \union {<<mem[r].key, Nothing>>}
  /\ Goes(r, "done")
  /\ UNCHANGED <<spaces, connected, adrift, before, late, breaks>>

\* What the reducer makes of an enrollment.
Reduced(e, input) ==
  LET learnt ==
        CASE input.do = "watch" -> [e EXCEPT !.completed = @ \union {input.at}]
          [] input.do = "quiz"  -> [e EXCEPT !.attempts = @ + 1,
                                             !.passed = @ \/ input.at = 1]
          [] OTHER -> e
  IN [learnt EXCEPT !.finished = @ \/ Complete(learnt),
                    !.certified = @ \/ input.do = "claim"]

Accepted(e, input) ==
  CASE input.do = "watch" -> Unlocked(e, input.at)
    [] input.do = "quiz"  -> /\ QuizLesson \in PilotSet /\ Unlocked(e, QuizLesson)
                             /\ QuizLesson \in e.completed
    [] input.do = "claim" -> Complete(e)
    [] OTHER -> TRUE

\* The reducer reads the enrollment; what it refuses ends the task.
GetEnrollment(r) ==
  LET input == mem[r].input
      was   == IF enrollment = Nothing THEN Fresh ELSE enrollment
      next  == IF input.do = "enroll" THEN was ELSE Reduced(was, input)
  IN
  /\ step[r] = "enrollment" /\ input \in Inputs
  /\ IF /\ courses = "published" /\ (input.do = "enroll" \/ enrollment # Nothing)
        /\ Accepted(was, input)
     THEN GoesWith(r, IF input.do = "claim" THEN "certificate" ELSE "commit",
                   [mem[r] EXCEPT !.had = enrollment, !.e = next])
     ELSE Goes(r, "done")
  /\ UNCHANGED <<spaces, runtime, adrift, pilotNotes, breaks>>

\* claimCertificate looks for the certificate, and makes it if there is none.
GetCertificate(r) ==
  /\ step[r] = "certificate"
  /\ GoesWith(r, "commit", [mem[r] EXCEPT !.mints = ~certificate])
  /\ UNCHANGED <<spaces, runtime, adrift, pilotNotes, breaks>>

\* The copy of the result in the learner's space may fail; the answer is given.
\* (The instructor's space, with the receipt of the course, is left out.)
Deliver(r) ==
  /\ step[r] = "deliver"
  /\ told' = told \union {<<mem[r].key, mem[r].e>>}
  /\ \/ receipts' = [k \in CommandKeys |-> IF k = mem[r].key THEN mem[r].e ELSE receipts[k]]
        /\ UNCHANGED breaks
     \/ breaks < MaxBreaks /\ breaks' = breaks + 1 /\ UNCHANGED receipts
  /\ Goes(r, "done")
  /\ UNCHANGED <<requests, intent, courseRow, outbox, commands, enrollment, certificate,
                 site, completions, runtime, adrift, before, late>>

-----------------------------------------------------------------------------
\* A sign-in of the institution, a rebuild or a flush reads the whole space ...
Snapshot(r) ==
  /\ step[r] = "snapshot"
  /\ GoesWith(r, "index", [mem[r] EXCEPT !.seen = courseRow,
                                         !.n = IF outbox = "due" THEN 1 ELSE 0])
  /\ UNCHANGED <<spaces, runtime, adrift, pilotNotes, breaks>>

\* ... and rebuilds the index from it; a flush goes on with the outbox.
Rebuild(r) ==
  /\ step[r] = "index"
  /\ courses' = mem[r].seen /\ connected' = TRUE
  /\ GoesWith(r, IF mem[r].input.do = "flush" /\ mem[r].n = 1 THEN "course" ELSE "done",
              [mem[r] EXCEPT !.n = 0])
  /\ UNCHANGED <<spaces, adrift, pilotNotes, breaks>>

\* publishCompletion reads the enrollment, then the intent of an earlier call.
GetFinished(r) ==
  /\ step[r] = "enrollment" /\ mem[r].input.do = "complete"
  /\ Goes(r, IF courses # "none" /\ enrollment # Nothing /\ Complete(enrollment)
             THEN "received" ELSE "done")
  /\ UNCHANGED <<spaces, runtime, adrift, pilotNotes, breaks>>

GetIntent(r) ==
  /\ step[r] = "received"
  /\ IF intent = Nothing THEN Goes(r, "intend")
     ELSE GoesWith(r, "publish", [mem[r] EXCEPT !.tid = intent])
  /\ UNCHANGED <<spaces, runtime, adrift, pilotNotes, breaks>>

-----------------------------------------------------------------------------
\* The writes.  One that creates a record is refused when there is one.
Refused(w) ==
  LET m == w.with IN
  \/ w.at = "ask" /\ requests[m.key] # Nothing
  \/ w.at = "commit"
     /\ \/ commands[m.key] # Nothing
        \/ m.input.do = "enroll" /\ m.had = Nothing /\ enrollment # Nothing
        \/ m.mints /\ certificate

\* Mutant of Recorded: the batch leaves out the command record.
RecordedNot(m) == commands

\* The command record of a batch.
Recorded(m) == [commands EXCEPT ![m.key] = [input |-> m.input, e |-> m.e]]

\* One batch: the outcome of a command and its record.
Commit(m) ==
  /\ commands' = Recorded(m)
  /\ IF m.key = Founding
     THEN courseRow' = "pending" /\ outbox' = "due" /\ UNCHANGED <<enrollment, certificate>>
     ELSE /\ enrollment' = IF m.input.do = "enroll" /\ m.had # Nothing
                         THEN enrollment ELSE m.e
          /\ certificate' = (certificate \/ m.mints)
          /\ UNCHANGED <<courseRow, outbox>>

\* A public record is put: the course without sections, a lesson, the course.
Announced(w) ==
  CASE w.at = "course"   -> [site EXCEPT !.course = "bare"]
    [] w.at = "lesson"   -> [site EXCEPT !.lessons = @ \union {w.with.n}]
    [] w.at = "sections" -> [site EXCEPT !.course = "whole"]

Lands(w) ==
  \/ /\ w.at = "ask"
     /\ requests' = [requests EXCEPT ![w.with.key] = w.with.input]
     /\ UNCHANGED <<receipts, intent, courseRow, outbox, commands, enrollment, certificate,
                    site, completions>>
  \/ /\ w.at = "commit" /\ Commit(w.with)
     /\ UNCHANGED <<requests, receipts, intent, site, completions>>
  \/ /\ w.at = "intend" /\ intent' = w.with.tid
     /\ UNCHANGED <<requests, receipts, courseRow, outbox, commands, enrollment, certificate,
                    site, completions>>
  \/ /\ w.at = "publish" /\ completions' = completions \union {w.with.tid}
     /\ UNCHANGED <<requests, receipts, intent, courseRow, outbox, commands, enrollment,
                    certificate, site>>
  \/ /\ w.at \in {"course", "lesson", "sections"} /\ site' = Announced(w)
     /\ UNCHANGED <<requests, receipts, intent, courseRow, outbox, commands, enrollment,
                    certificate, completions>>
  \/ /\ w.at = "batch" /\ courseRow' = "published" /\ outbox' = "delivered"
     /\ UNCHANGED <<requests, receipts, intent, commands, enrollment, certificate, site,
                    completions>>

\* What the task does after its write: the index follows a durable batch.
Onward(r) ==
  LET m == mem[r] IN
  CASE step[r] = "ask"      -> Goes(r, "prior")
    [] step[r] = "commit"   -> Goes(r, "deliver")
    [] step[r] = "intend"   -> Goes(r, "publish")
    [] step[r] \in {"course", "lesson"} /\ m.n < PilotLessons ->
         GoesWith(r, "lesson", [m EXCEPT !.n = @ + 1])
    [] step[r] = "lesson" /\ m.n = PilotLessons -> Goes(r, "sections")
    [] step[r] = "sections" -> Goes(r, "batch")
    [] OTHER                -> Goes(r, "done")

Indexed(r) ==
  CASE step[r] = "commit" /\ mem[r].key = Founding -> "pending"
    [] step[r] = "batch" -> "published"
    [] OTHER -> courses

WriteOf(r) == [at |-> step[r], of |-> r, with |-> mem[r], crossed |-> FALSE]

WriteRecord(r) ==
  /\ step[r] \in WriteSteps /\ ~Refused(WriteOf(r))
  /\ Lands(WriteOf(r))
  /\ Onward(r)
  /\ courses' = Indexed(r)
  /\ UNCHANGED <<connected, adrift, pilotNotes, breaks>>

WriteRefused(r) ==
  /\ step[r] \in WriteSteps /\ Refused(WriteOf(r))
  /\ Goes(r, "done")
  /\ UNCHANGED <<spaces, runtime, adrift, pilotNotes, breaks>>

\* The write fails, or its answer is lost: it may land later, or never.
GiveUp(r) ==
  /\ step[r] \in WriteSteps
  /\ breaks < MaxBreaks /\ breaks' = breaks + 1
  /\ adrift' = adrift \union {WriteOf(r)}
  /\ Goes(r, "done")
  /\ UNCHANGED <<spaces, runtime, pilotNotes>>

Land(w) ==
  /\ adrift' = adrift \ {w}
  /\ IF Refused(w) THEN UNCHANGED <<spaces, late>>
     ELSE Lands(w) /\ late' = (late \/ w.crossed)
  /\ UNCHANGED <<runtime, before, told, handlers>>

\* The process restarts: the queue, the index and the sign-ins are gone.
Restart ==
  /\ breaks < MaxBreaks /\ breaks' = breaks + 1
  /\ adrift' = adrift \union {WriteOf(r) : r \in {q \in Requests : step[q] \in WriteSteps}}
  /\ step' = [r \in Requests |-> IF step[r] = "free" THEN "free" ELSE "done"]
  /\ mem' = [r \in Requests |-> Nothing]
  /\ connected' = FALSE /\ courses' = "none"
  /\ UNCHANGED <<spaces, pilotNotes>>

-----------------------------------------------------------------------------
PilotTask(r) ==
  \/ Begin(r) \/ PilotReadFails(r)
  \/ GetRequest(r) \/ GetCommand(r) \/ Replay(r) \/ GetEnrollment(r) \/ GetCertificate(r)
  \/ Deliver(r) \/ Snapshot(r) \/ Rebuild(r) \/ GetFinished(r) \/ GetIntent(r)
  \/ WriteRecord(r) \/ WriteRefused(r) \/ GiveUp(r)

RestPilot == AtRest /\ UNCHANGED pilotVars

PilotNext ==
  \/ \E r \in Requests : PilotTask(r)
  \/ \E w \in adrift : Land(w)
  \/ Restart
  \/ RestPilot

\* At first the runtime is connected, and the learner may have studied.
PilotInit ==
  /\ courseRow \in {"none", "pending", "published"} /\ courses = courseRow
  /\ outbox = CASE courseRow = "none" -> "none" [] courseRow = "pending" -> "due"
                [] OTHER -> "delivered"
  /\ commands = [k \in CommandKeys \union {Founding} |->
       IF k = Founding /\ courseRow # "none" THEN [input |-> Creation, e |-> Nothing]
       ELSE Nothing]
  /\ site = IF courseRow = "published" THEN [course |-> "whole", lessons |-> PilotSet]
            ELSE [course |-> "none", lessons |-> {}]
  /\ \/ enrollment = Nothing
     \/ courseRow = "published" /\ \E n \in 0..PilotLessons, passed \in BOOLEAN :
          LET e == [Fresh EXCEPT !.completed = 1..n, !.passed = passed,
                                 !.attempts = IF passed THEN 1 ELSE 0]
          IN /\ \A l \in 1..n : Unlocked(e, l)
             /\ passed => QuizLesson \in 1..n
             /\ enrollment = [e EXCEPT !.finished = Complete(e)]
  /\ before = IF enrollment = Nothing THEN 0 ELSE enrollment.attempts
  /\ requests = [k \in CommandKeys |-> Nothing] /\ receipts = [k \in CommandKeys |-> Nothing]
  /\ intent = Nothing /\ certificate = FALSE /\ completions = {}
  /\ connected = TRUE /\ adrift = {} /\ told = {} /\ late = FALSE
  /\ step = [r \in Requests |-> "free"] /\ mem = [r \in Requests |-> Nothing] /\ breaks = 0

PilotSpec == PilotInit /\ [][PilotNext]_pilotVars

-----------------------------------------------------------------------------
\* Properties.  A write that was given up on and landed after a later task
\* had begun excuses them: that task did not see it.

\* However a command is retried, its outcome is applied once and its answer is
\* always the same: the quiz attempts of the enrollment are those of the
\* command records, a certificate is the one of a completed course, and what
\* was answered is what was recorded (Learning.execute).
CommandsApplyOnce ==
  \/ late
  \/ /\ \A a \in told : commands[a[1]] # Nothing /\ commands[a[1]].e = a[2]
     /\ enrollment # Nothing =>
          /\ enrollment.attempts = before
               + Cardinality({k \in CommandKeys : /\ commands[k] # Nothing
                                                  /\ commands[k].input.do = "quiz"})
          /\ certificate => Complete(enrollment) /\ enrollment.certified

\* What the index shows is durable, and a published course has its public
\* records, whole (Learning.flushOutbox).
PublishedIsPublic ==
  \/ late
  \/ /\ courses = "published" => courseRow = "published"
     /\ courses # "none" => courseRow # "none"
     /\ courseRow = "published" => site = [course |-> "whole", lessons |-> PilotSet]

\* The learner's completion of the course has at most one public record
\* (Learning.publishCompletion: the intent is stored first).
OneCompletionRecord == late \/ Cardinality(completions) <= 1

\* The repository of the pilot, its index and its public records tell one
\* story, whichever commands are retried and wherever the process dies.
PilotIsConsistent == CommandsApplyOnce /\ PublishedIsPublic /\ OneCompletionRecord
=============================================================================
