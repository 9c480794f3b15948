------------------------------- MODULE Playback -------------------------------
(***************************************************************************)
(* One learner watches one lesson: the playback endpoint of apps/api, the  *)
(* screen LessonPlayer of apps/mobile with its query `video-playback`, and *)
(* the players of the phone and of the web.                                *)
(*                                                                         *)
(* Positions count from the beginning of the lesson, in steps.  A playback *)
(* URL is the position it begins at: the URL of Streamplace is a clip from *)
(* there on, whose own time begins at zero; a direct URL is the whole      *)
(* video, opened there.  The VideoView row that a fetch may add is left    *)
(* out, only the analytics read it; so is the lock of the lesson, which is *)
(* open (CourseProgress has both reports in full).  A videoLength that is  *)
(* declared is the length of the video; it may be missing.                 *)
(***************************************************************************)
EXTENDS Integers

CONSTANTS
  Length,       \* of the video
  Interval,     \* PROGRESS_REPORT_INTERVAL_S
  ResumeFrom,   \* RESUME_THRESHOLD_SECONDS
  NearlyEnd,    \* 95 % of the length
  MaxTurns      \* bound: times that the screen is opened, that the learner moves
                \* the scrubber, and that a request or the player fails

ASSUME PlaybackAssumption ==
  /\ Length \in Nat \ {0} /\ Interval \in 1..Length
  /\ ResumeFrom \in 1..Length /\ NearlyEnd \in 1..Length
  /\ MaxTurns \in Nat

\* The API.
VARIABLES
  kept,         \* EnrollmentLesson.watchedSeconds
  completed,    \* EnrollmentLesson.completed
  reading,      \* reports and completions that have read the row, and not written it
  entitled      \* the learner has a DID, and is enrolled or needs not be

\* The app.  `setting` is where it runs, how the video is delivered and whether
\* the lesson has a videoLength.
VARIABLES
  setting,
  open,         \* the screen is there
  url,          \* the query's data
  old,          \* they were invalidated
  broken,       \* its last fetch failed
  fetch,        \* its fetch: "idle", "asked", or the URL of the answer
  at,           \* where the player is
  crashed,      \* the error boundary shows its card instead
  ended,        \* endFiredRef
  reportedAt,   \* lastReportedRef of the screen
  ticked,       \* `completed` of the screen
  sent,         \* reports on their way, and the completion
  answers       \* how many of their answers are

VARIABLES
  turns,
  reach,        \* history: the furthest that the player has been
  lost,         \* history: a report or the completion failed
  raced         \* history: one was written over a row that it had not read

playbackApi == <<kept, completed, reading, entitled>>
playbackQuery == <<url, old, broken, fetch>>
playerVars == <<at, crashed, ended>>
watching == <<open, reportedAt, ticked, sent, answers>>
playbackNotes == <<turns, reach, lost, raced>>
playbackVars == <<playbackApi, setting, playbackQuery, playerVars, watching, playbackNotes>>

NoUrl == -1
Positions == 0..Length
Done == Length + 1   \* the completion, among the reports
Settings == [runs : {"native", "web"}, by : {"clip", "direct"}, declared : BOOLEAN]

\* recordLessonProgress between its read of the row and its write.
Records == [pos : Positions, seen : Positions, was : BOOLEAN, done : BOOLEAN]

PlaybackTypeOK ==
  /\ kept \in Positions /\ reach \in Positions /\ reportedAt \in Positions
  /\ completed \in BOOLEAN /\ entitled \in BOOLEAN
  /\ setting \in Settings /\ reading \subseteq Records
  /\ {url, at} \subseteq Positions \union {NoUrl}
  /\ fetch \in {"idle", "asked"} \X {0} \union {"answered"} \X Positions
  /\ \A flag \in {open, old, broken, crashed, ended, ticked, lost, raced} : flag \in BOOLEAN
  /\ sent \subseteq Positions \union {Done} /\ answers \in Nat
  /\ turns \in 0..MaxTurns

Larger(a, b) == IF a < b THEN b ELSE a
Idle0 == <<"idle", 0>>

-----------------------------------------------------------------------------
\* The query.

\* getLessonPlayback: barely begun, nearly done and completed lessons begin
\* at their beginning.
NearlyDone == setting.declared /\ kept >= NearlyEnd
Resume == IF completed \/ kept < ResumeFrom \/ NearlyDone THEN 0 ELSE kept

\* A refetch starts anew, except while the first data are awaited.
Refetching == IF url = NoUrl /\ fetch # Idle0 THEN fetch ELSE <<"asked", 0>>

\* A learner without an identity or an enrollment is refused.
ServePlayback ==
  /\ fetch[1] = "asked" /\ entitled
  /\ fetch' = <<"answered", Resume>>
  /\ UNCHANGED <<playbackApi, setting, url, old, broken, playerVars, watching, playbackNotes>>

\* The screen shows the error in the place of the player.
FetchFails(why) ==
  /\ why
  /\ fetch' = Idle0 /\ broken' = TRUE /\ old' = TRUE
  /\ at' = NoUrl /\ crashed' = FALSE
  /\ UNCHANGED <<playbackApi, setting, url, ended, watching, reach, lost, raced>>

Refused == FetchFails(fetch[1] = "asked" /\ ~entitled) /\ UNCHANGED turns
Unresolved ==
  /\ turns < MaxTurns /\ turns' = turns + 1
  /\ FetchFails(fetch[1] # "idle")

\* The same URL is no change for the player; another one begins anew.
GotPlayback ==
  /\ fetch[1] = "answered"
  /\ url' = fetch[2] /\ old' = FALSE /\ broken' = FALSE /\ fetch' = Idle0
  /\ IF ~open \/ crashed \/ (at # NoUrl /\ url' = url) THEN UNCHANGED playerVars
     ELSE at' = url' /\ ended' = FALSE /\ UNCHANGED crashed
  /\ UNCHANGED <<playbackApi, setting, watching, playbackNotes>>

\* Linked with iM8, or enrolled.
Entitle ==
  /\ ~entitled /\ entitled' = TRUE
  /\ UNCHANGED <<kept, completed, reading, setting, playbackQuery, playerVars, watching,
                 playbackNotes>>

-----------------------------------------------------------------------------
\* The screen.

\* Data that are invalidated are fetched, those past the staleTime too.
OpenLesson ==
  /\ ~open /\ open' = TRUE
  /\ turns < MaxTurns /\ turns' = turns + 1
  /\ reportedAt' = 0 /\ ticked' = FALSE
  /\ ended' = FALSE /\ at' = IF broken THEN NoUrl ELSE url
  /\ \/ fetch' = IF fetch = Idle0 THEN <<"asked", 0>> ELSE fetch
     \/ url # NoUrl /\ ~old /\ UNCHANGED fetch
  /\ UNCHANGED <<playbackApi, setting, url, old, broken, crashed, sent, answers, reach,
                 lost, raced>>

CloseLesson ==
  /\ open /\ open' = FALSE
  /\ at' = NoUrl /\ crashed' = FALSE
  /\ UNCHANGED <<playbackApi, setting, playbackQuery, ended, reportedAt, ticked, sent,
                 answers, playbackNotes>>

\* gcTime is over.
DropUrl ==
  /\ ~open /\ fetch = Idle0 /\ (url # NoUrl \/ broken)
  /\ url' = NoUrl /\ old' = FALSE /\ broken' = FALSE
  /\ UNCHANGED <<playbackApi, setting, fetch, playerVars, watching, playbackNotes>>

\* handleComplete, of the button and of the end of the video; `reports` were sent.
Completes(reports) ==
  \/ ~ticked /\ ticked' = TRUE /\ sent' = reports \union {Done}
  \/ (ticked \/ completed) /\ UNCHANGED ticked /\ sent' = reports

PressComplete ==
  /\ open /\ ~ticked /\ Completes(sent)
  /\ UNCHANGED <<playbackApi, setting, playbackQuery, playerVars, open, reportedAt, answers,
                 playbackNotes>>

-----------------------------------------------------------------------------
\* The player.

\* Mutant of Told: the web player adds the beginning to the time of every video.
ToldShifted(p) ==
  IF setting.runs = "web" /\ p + url <= Length THEN p + url ELSE p

\* What onProgress is told at p: the phone's player derives it from the time
\* that remains, the one of the web has the time of the video it plays.
Told(p) == IF setting.runs = "web" /\ setting.by = "clip" THEN p - url ELSE p

\* Without a videoLength it derives nothing, and tells nothing.
Tells == setting.runs = "native" => setting.declared

\* handleProgress.
Due(p) == Tells /\ Told(p) - reportedAt >= Interval

\* Mutant of Reported: lastReportedRef follows the player.
ReportedLast(p) == IF Tells /\ Told(p) > reportedAt THEN Told(p) ELSE reportedAt

Reported(p) == IF Due(p) THEN Told(p) ELSE reportedAt

\* Mutant of Ends: the end is looked for behind the last second.
EndsBeyond(p) == p > Length

\* The phone's player ends with one second left.
Ends(p) == p >= IF setting.runs = "native" THEN Length - 1 ELSE Length

\* The player is at p.
Shows(p) ==
  /\ at' = p /\ reach' = Larger(reach, p)
  /\ reportedAt' = Reported(p)
  /\ LET reports == sent \union {q \in {Told(p)} : Due(p)}
     IN  IF Ends(p) /\ ~ended THEN ended' = TRUE /\ Completes(reports)
         ELSE sent' = reports /\ UNCHANGED <<ended, ticked>>
  /\ UNCHANGED <<playbackApi, setting, playbackQuery, crashed, open, answers, lost, raced>>

PlayOn == at \in 0..Length - 1 /\ Shows(at + 1) /\ UNCHANGED turns

\* The scrubber of the web, or of the full screen; it is playing again.
Seek(p) ==
  /\ at # NoUrl /\ turns < MaxTurns /\ turns' = turns + 1
  /\ p >= IF setting.by = "clip" THEN url ELSE 0
  /\ Shows(p)

\* It plays after a pause, or after it had to load: its end may come again.
PlaysAgain ==
  /\ at # NoUrl /\ ended
  /\ ended' = FALSE
  /\ UNCHANGED <<playbackApi, setting, playbackQuery, at, crashed, watching, playbackNotes>>

\* A playback error throws to the boundary.
PlayerFails ==
  /\ at # NoUrl /\ turns < MaxTurns /\ turns' = turns + 1
  /\ at' = NoUrl /\ crashed' = TRUE
  /\ UNCHANGED <<playbackApi, setting, playbackQuery, ended, watching, reach, lost,
                 raced>>

Retry ==
  /\ crashed /\ crashed' = FALSE
  /\ at' = url /\ ended' = FALSE
  /\ UNCHANGED <<playbackApi, setting, playbackQuery, watching, playbackNotes>>

-----------------------------------------------------------------------------
\* The reports.

\* recordLessonProgress reads the row; for markLessonComplete without a
\* videoLength there is no position.
ReadRow(p) ==
  /\ p \in sent /\ sent' = sent \ {p}
  /\ reading' = reading \union
       {[pos  |-> IF p # Done THEN p ELSE IF setting.declared THEN Length ELSE 0,
         seen |-> kept, was |-> completed, done |-> (p = Done)]}
  /\ UNCHANGED <<kept, completed, entitled, setting, playbackQuery, playerVars, open,
                 reportedAt, ticked, answers, playbackNotes>>

\* It writes what it makes of what it read, whatever the row is by now.
WriteRow(w) ==
  /\ w \in reading /\ reading' = reading \ {w}
  /\ kept' = Larger(w.seen, w.pos) /\ completed' = (w.was \/ w.done)
  /\ answers' = answers + 1
  /\ raced' = (raced \/ w.seen # kept \/ w.was # completed)
  /\ UNCHANGED <<entitled, setting, playbackQuery, playerVars, open, reportedAt, ticked,
                 sent, turns, reach, lost>>

\* onSuccess: a query that no screen shows is not fetched.
ReportAnswered ==
  /\ answers > 0 /\ answers' = answers - 1
  /\ old' = TRUE
  /\ fetch' = IF open THEN Refetching ELSE fetch
  /\ UNCHANGED <<playbackApi, setting, url, broken, playerVars, open, reportedAt, ticked,
                 sent, playbackNotes>>

\* A request fails; the screen does not tell, nor ask again.
CallFails ==
  /\ turns < MaxTurns /\ turns' = turns + 1
  /\ lost' = TRUE
  /\ \/ (\E p \in sent : sent' = sent \ {p}) /\ UNCHANGED <<reading, answers>>
     \/ (\E w \in reading : reading' = reading \ {w}) /\ UNCHANGED <<sent, answers>>
     \/ answers > 0 /\ answers' = answers - 1 /\ UNCHANGED <<reading, sent>>
  /\ UNCHANGED <<kept, completed, entitled, setting, playbackQuery, playerVars, open,
                 reportedAt, ticked, reach, raced>>

-----------------------------------------------------------------------------
Answers ==
  \/ ServePlayback \/ Refused \/ GotPlayback \/ ReportAnswered
  \/ (\E p \in sent : ReadRow(p)) \/ (\E w \in reading : WriteRow(w))

\* Nothing is under way, and the screen is not opened again.
RestPlayback ==
  /\ ~open /\ turns = MaxTurns /\ sent = {} /\ reading = {} /\ answers = 0
  /\ fetch = Idle0 /\ UNCHANGED playbackVars

PlaybackNext ==
  \/ Answers \/ Entitle
  \/ OpenLesson \/ CloseLesson \/ DropUrl \/ PressComplete
  \/ PlayOn \/ (\E p \in Positions : Seek(p)) \/ PlaysAgain \/ Retry
  \/ Unresolved \/ PlayerFails \/ CallFails \/ RestPlayback

\* Some of the lesson was watched before.
PlaybackInit ==
  /\ kept \in Positions /\ reach = kept /\ completed = FALSE /\ entitled \in BOOLEAN
  /\ reading = {} /\ setting \in Settings
  /\ open = FALSE /\ url = NoUrl /\ old = FALSE /\ broken = FALSE /\ fetch = Idle0
  /\ at = NoUrl /\ crashed = FALSE /\ ended = FALSE
  /\ reportedAt = 0 /\ ticked = FALSE
  /\ sent = {} /\ answers = 0
  /\ turns = 0 /\ lost = FALSE /\ raced = FALSE

PlaybackSpec == PlaybackInit /\ [][PlaybackNext]_playbackVars

\* A player that is there plays on, and a call is answered.
PlaybackFairness ==
  /\ WF_playbackVars(PlayOn)
  /\ WF_playbackVars(ServePlayback) /\ WF_playbackVars(GotPlayback)
  /\ \A p \in Positions \union {Done} : WF_playbackVars(ReadRow(p))
  /\ WF_playbackVars(\E w \in reading : WriteRow(w)) /\ WF_playbackVars(ReportAnswered)

FairPlaybackSpec == PlaybackSpec /\ PlaybackFairness

-----------------------------------------------------------------------------
\* Properties.

\* The API keeps no position that the player was never at, unless the lesson
\* is completed (handleProgress, "the watched position").
KeptWasReached == kept <= reach \/ completed

\* What the player tells are positions of the lesson: not so on the web with a
\* clip, whose time is its own, nor on the phone without a videoLength.
TellsPosition ==
  IF setting.runs = "web" THEN setting.by = "direct" ELSE setting.declared

\* With no report on its way, the API knows where the learner was to less than
\* an interval, however often the video began anew meanwhile, unless a report
\* failed or was written over one that it had not read (README, finding 2).
KeptFollowsPlayer ==
  TellsPosition /\ sent = {} /\ reading = {} /\ ~lost /\ ~raced
    => reach - kept < Interval

\* A learner who keeps watching completes the lesson: each report may begin
\* the video anew, earlier than it was, but not for ever.  A completion that a
\* late report undoes is not sent again by this screen.
WatchingCompletes ==
  at \in 0..Length - 1 ~> completed \/ at = NoUrl \/ ~open \/ lost \/ raced
=============================================================================
