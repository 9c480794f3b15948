----------------------------- MODULE CourseEditor -----------------------------
(***************************************************************************)
(* The course editors of apps/admin, CreateCourse and EditCourse, with the *)
(* video uploads that run under them, the lessons they save to apps/api,   *)
(* and whoever else touches those lessons meanwhile: another editor, and   *)
(* the command line scripts that publish videos.                           *)
(*                                                                         *)
(* Each request is one upload, from handleUpload or from a script, and     *)
(* names the video it may publish; `step` and `mem` are its async function *)
(* and what that closed over.  A lesson is an id and its video; its other  *)
(* fields are filled in without anything to wait for.                      *)
(***************************************************************************)
EXTENDS Handlers, Sequences, SequencesExt

CONSTANTS
  MaxLessons,  \* bound: lesson rows ever made
  MaxItems     \* bound: lessons that an author makes in the form

Videos == Requests \union {Nothing}

ASSUME EditorAssumption ==
  /\ MaxLessons \in Nat /\ MaxItems \in Nat \ {0}
  /\ "unborn" \notin Videos /\ "deleted" \notin Videos

LessonIds == 1..MaxLessons
ItemNames == 1..MaxItems + MaxLessons

\* Server and Streamplace node.
VARIABLES
  lessonRows,  \* CourseLesson.videoUrl, "deleted" or "unborn", of each id
  published    \* place.stream.video records

\* The editor: the items of the form are objects that its versions share.  An
\* item with a lesson is the store's own object, which is frozen: an assignment
\* to it throws.
VARIABLES
  page,        \* "closed", "info", "content" or "preview"
  adminCache,  \* the answer of getAdminCourseContent that the store keeps
  answers,     \* what EditCourse has: "list", "content", and a "fresh" list
  items,       \* every item it has made: its lesson, 0 for a draft, and video
  form,        \* courseContentData: the items in order
  payload      \* courseData: the videos that the preview will save

\* Uploads.
VARIABLES
  aborted,     \* uploads whose AbortController has fired
  loose,       \* uploads whose panel has gone
  unmounted    \* uploads whose editor was closed meanwhile

\* History.
VARIABLES
  wanted,      \* the items as the author left them
  overtaken,   \* an upload put back an older form, or came after the preview
  tooLate      \* uploads that were aborted when nobody looked any more

server == <<lessonRows, published>>
editor == <<page, adminCache, answers, items, form, payload>>
editorNotes == <<wanted, overtaken, tooLate>>
editorVars == <<server, editor, aborted, loose, unmounted, handlers, editorNotes>>

EditorSteps == {"free", "send", "poll", "asked", "publish", "link",
                "attach", "spread", "done"}

\* at: the position of the panel; list: the form as its closure has it;
\* lesson: the id that the video is for, 0 for none.
UploadMemory == [at : ItemNames, list : Seq(ItemNames), lesson : 0..MaxLessons]

Uploading(u) == step[u] \in {"send", "poll", "asked", "publish", "link"}
\* What a script knows: the video, and the lessons that it is to have.
Script(v, ls) == [video |-> v, left |-> ls]
Scripted(u) == step[u] \in {"attach", "spread"}

Live == {l \in LessonIds : lessonRows[l] \in Videos}
VideosOf(list) == [k \in DOMAIN list |-> items[list[k]].video]

EditorTypeOK ==
  /\ lessonRows \in [LessonIds -> Videos \union {"unborn", "deleted"}]
  /\ published \subseteq Requests
  /\ page \in {"closed", "info", "content", "preview"}
  /\ adminCache = Nothing \/ adminCache \in Seq([lesson : LessonIds, video : Videos])
  /\ answers \subseteq {"list", "content", "fresh"}
  /\ items \in Seq([lesson : 0..MaxLessons, video : Videos])
  /\ Len(items) <= MaxItems + MaxLessons
  /\ \A list \in {form, wanted} : Range(list) \subseteq DOMAIN items
  /\ payload \in Seq(Videos)
  /\ aborted \subseteq Requests /\ loose \union unmounted \subseteq aborted
  /\ overtaken \in BOOLEAN /\ tooLate \subseteq aborted
  /\ step \in [Requests -> EditorSteps]
  /\ \A u \in Requests :
       /\ Uploading(u) => mem[u] \in UploadMemory
       /\ Scripted(u) => mem[u] \in [video : Requests, left : SUBSET LessonIds]
  /\ breaks \in 0..MaxBreaks

-----------------------------------------------------------------------------
\* Opening and leaving.

Blank == [lesson |-> 0, video |-> Nothing]

Exists == \E l \in LessonIds : lessonRows[l] # "unborn"

\* getAdminCourseContent: the rows that were not replaced, which are the last.
Content ==
  LET gone == Cardinality({l \in LessonIds : lessonRows[l] = "deleted"}) IN
  [k \in 1..Cardinality(Live) |-> [lesson |-> gone + k, video |-> lessonRows[gone + k]]]

\* What the effect of EditCourse shows, once it has the list of the courses:
\* nothing at all before the content is there.  The store's items came together.
Shown(its) ==
  LET stored == {i \in DOMAIN its : its[i].lesson # 0} IN
  [k \in 1..Cardinality(stored) |-> Min(stored) + k - 1]

\* CreateCourse for a course that does not exist yet, EditCourse for one that
\* does.  Both begin with a blank lesson.
Open(known) ==
  LET its == IF "content" \in known THEN <<Blank>> \o adminCache ELSE <<Blank>>
      list == IF "list" \in known THEN Shown(its) ELSE <<1>> IN
  /\ page = "closed"
  /\ known \subseteq (IF Exists THEN {"list", "content"} ELSE {})
  /\ Exists => ("content" \in known <=> adminCache # Nothing)
  /\ page' = "info" /\ answers' = known
  /\ items' = its /\ form' = list /\ wanted' = list
  /\ UNCHANGED <<server, adminCache, payload, aborted, loose, unmounted, handlers,
                 overtaken, tooLate>>

\* What the store keeps of a page nobody shows is dropped after a minute.
DropAnswer ==
  /\ page = "closed" /\ adminCache # Nothing
  /\ adminCache' = Nothing
  /\ UNCHANGED <<server, page, answers, items, form, payload, aborted, loose, unmounted,
                 handlers, editorNotes>>

\* The controllers of us fire: an upload that is past its last look at the
\* signal goes on.
Aborts(us) ==
  /\ aborted' = aborted \union us
  /\ tooLate' = tooLate \union
       {u \in us \ aborted : step[u] \in {"asked", "publish", "link"}}

Mounted == {u \in Requests : Uploading(u) /\ u \notin unmounted}
Panels == Mounted \ loose

\* Mutant of Unmount: the effect of a panel has no cleanup.
UnmountRuns(us) == loose' = loose \union us /\ UNCHANGED <<aborted, tooLate>>

\* "Don't leave a transfer running if the editor is closed mid-upload", or the
\* lesson is collapsed.
Unmount(us) == Aborts(us) /\ loose' = loose \union us

\* The page with the uploads is left.
Turn(to) ==
  /\ page' = to
  /\ IF page = "content" THEN Unmount(Panels) ELSE UNCHANGED <<aborted, loose, tooLate>>

\* The state of the editor goes with it; its uploads go on, or not.
Closes ==
  /\ unmounted' = unmounted \union Mounted
  /\ answers' = {} /\ items' = <<>> /\ form' = <<>> /\ payload' = <<>>
  /\ wanted' = <<>> /\ overtaken' = FALSE

Leave ==
  /\ page # "closed"
  /\ Turn("closed")
  /\ Closes
  /\ UNCHANGED <<server, adminCache, handlers>>

\* The effect puts the lessons of the store in the form, whatever the author
\* has made of it.  CourseContent throws on a form that is undefined, and
\* takes the editor with it; it unmounts the panels it has no lesson for.
Fill(its) ==
  IF page = "content" /\ Shown(its) = <<>>
  THEN Turn("closed") /\ Closes
  ELSE /\ items' = its /\ form' = Shown(its) /\ wanted' = Shown(its)
       /\ overtaken' = (overtaken \/ page = "preview")
       /\ Unmount({u \in Panels : page = "content" /\ mem[u].at > Len(Shown(its))})
       /\ UNCHANGED <<page, payload, unmounted>>

\* The list of the courses comes, for the first time or with a change.
ListArrives ==
  /\ page # "closed" /\ Exists /\ "fresh" \notin answers
  /\ Fill(items)
  /\ answers' = IF page' = "closed" THEN {} ELSE answers \union {"list", "fresh"}
  /\ UNCHANGED <<server, adminCache, handlers>>

ContentArrives ==
  /\ page # "closed" /\ Exists /\ "content" \notin answers
  /\ adminCache' = Content /\ answers' = answers \union {"content"}
  /\ IF "list" \in answers THEN Fill(items \o Content)
     ELSE /\ items' = items \o Content
          /\ UNCHANGED <<page, form, payload, aborted, loose, unmounted, editorNotes>>
  /\ UNCHANGED <<server, handlers>>

-----------------------------------------------------------------------------
\* The pages.

\* CourseInformation and CourseData lead to the content, and back.
ToContent ==
  /\ page \in {"info", "preview"}
  /\ IF form = <<>> THEN Turn("closed") /\ Closes
     ELSE Turn("content") /\ UNCHANGED <<answers, items, form, payload, unmounted,
                                       wanted, overtaken>>
  /\ UNCHANGED <<server, adminCache, handlers>>

ToInfo ==
  /\ page = "content"
  /\ Turn("info")
  /\ UNCHANGED <<server, adminCache, answers, items, form, payload, unmounted,
                 handlers, wanted, overtaken>>

\* What newContentHandler, addNewSection and handleOptions ask of the last
\* lesson; of the store's own, whose links are empty, they cannot read it.
LastIsWhole == items[Last(form)].video # Nothing /\ items[Last(form)].lesson = 0

AddLesson ==
  LET new == Len(items) + 1 IN
  /\ page = "content" /\ LastIsWhole
  /\ Cardinality({i \in DOMAIN items : items[i].lesson = 0}) < MaxItems
  /\ items' = Append(items, Blank)
  /\ form' = Append(form, new) /\ wanted' = Append(wanted, new)
  /\ UNCHANGED <<server, page, adminCache, answers, payload, aborted, loose, unmounted,
                 handlers, overtaken, tooLate>>

\* Every lesson but the first can be removed; the panels stay where they are,
\* but for the last one.
RemoveLesson(k) ==
  /\ page = "content" /\ k \in 2..Len(form)
  /\ form' = RemoveAt(form, k)
  /\ wanted' = RemoveFirst(wanted, form[k])
  /\ Unmount({u \in Panels : mem[u].at = Len(form)})
  /\ UNCHANGED <<server, page, adminCache, answers, items, payload, unmounted,
                 handlers, overtaken>>

\* StreamplaceVideoRef: the URI of a published video is pasted.
Paste(k, v) ==
  /\ page = "content" /\ k \in DOMAIN form /\ v \in published
  /\ items[form[k]].lesson = 0
  /\ items' = [items EXCEPT ![form[k]].video = v]
  /\ UNCHANGED <<server, page, adminCache, answers, form, payload, aborted,
                 loose, unmounted, handlers, editorNotes>>

\* A lesson that has an id is linked to the video that the form has for it.
LinkPasted(k) ==
  LET i == items[form[k]] IN
  /\ page = "content" /\ k \in DOMAIN form
  /\ i.lesson \in Live /\ i.video \in published
  /\ lessonRows' = [lessonRows EXCEPT ![i.lesson] = i.video]
  /\ UNCHANGED <<published, editor, aborted, loose, unmounted, handlers, editorNotes>>

\* Mutant of Submitted: the payload of an earlier preview is kept.
SubmittedOnce == IF payload = <<>> THEN VideosOf(form) ELSE payload

\* handleSubmit makes the payload, without the ids of the lessons.
Submitted == VideosOf(form)

\* handleOptions.
ToPreview ==
  /\ page = "content" /\ LastIsWhole
  /\ Turn("preview")
  /\ payload' = Submitted
  /\ UNCHANGED <<server, adminCache, answers, items, form, unmounted, handlers,
                 wanted, overtaken>>

-----------------------------------------------------------------------------
\* Saving.

\* createCourse, or syncCourseContent with items that have no id: every row is
\* deleted and new ones are made (Storefront has its steps).
Replaced(videos) ==
  LET first == Cardinality({l \in LessonIds : lessonRows[l] # "unborn"}) IN
  [l \in LessonIds |->
     IF l \in first + 1..first + Len(videos) THEN videos[l - first]
     ELSE IF lessonRows[l] = "unborn" THEN "unborn" ELSE "deleted"]

Room(n) == n <= Cardinality({l \in LessonIds : lessonRows[l] = "unborn"})

\* The save succeeds, at once or after the author has confirmed the 409, and
\* the editor closes; refused, it stays as it is.
SaveCourse ==
  /\ page = "preview" /\ Room(Len(payload))
  /\ lessonRows' = Replaced(payload)
  /\ page' = "closed"
  /\ Closes
  /\ UNCHANGED <<published, adminCache, aborted, loose, handlers, tooLate>>

\* Another editor replaces the lessons.
SaveElsewhere(v) ==
  /\ Exists /\ v \in published /\ Room(1)
  /\ lessonRows' = Replaced(<<v>>)
  /\ UNCHANGED <<published, editor, aborted, loose, unmounted, handlers, editorNotes>>

-----------------------------------------------------------------------------
\* handleUpload.

OnlyUploads == <<server, editor, aborted, loose, unmounted, breaks, editorNotes>>

\* One upload at a time in each panel; its closure has the form as it is now.
BeginUpload(u, k) ==
  /\ page = "content" /\ step[u] = "free" /\ k \in DOMAIN form
  /\ \A v \in Panels : mem[v].at # k
  /\ GoesWith(u, "send", [at |-> k, list |-> form, lesson |-> items[form[k]].lesson])
  /\ UNCHANGED OnlyUploads

Cancel(u) ==
  /\ step[u] \in {"send", "poll", "asked"} /\ u \in Panels \ aborted
  /\ Aborts({u})
  /\ UNCHANGED <<server, editor, loose, unmounted, handlers, wanted, overtaken>>

\* handleCollapseToggle: the panel of the lesson goes, whatever it is doing.
Collapse(u) ==
  /\ page = "content" /\ u \in Panels
  /\ Unmount({u})
  /\ UNCHANGED <<server, editor, unmounted, handlers, wanted, overtaken>>

\* The transfer ends, or is cancelled, or fails.
Transfer(u) ==
  /\ step[u] = "send"
  /\ IF u \in aborted THEN Goes(u, "done") ELSE \E to \in {"poll", "done"} : Goes(u, to)
  /\ UNCHANGED OnlyUploads

\* Mutant of Looks: the signal is not looked at between two polls.
LooksAway(u) == FALSE

\* waitForUploadDone looks at the signal before each poll.
Looks(u) == u \in aborted

\* A poll is sent, unless the ten minutes are over.
Poll(u) ==
  /\ step[u] = "poll"
  /\ IF Looks(u) THEN Goes(u, "done") ELSE \E to \in {"asked", "done"} : Goes(u, to)
  /\ UNCHANGED OnlyUploads

\* The node is done, or at it still, or could not process the video.
Polled(u) ==
  /\ step[u] = "asked"
  /\ \E to \in {"publish", "poll", "done"} : Goes(u, to)
  /\ UNCHANGED OnlyUploads

\* publishVideo: the record may be there even when the call fails.
PublishVideo(u) ==
  /\ step[u] = "publish"
  /\ published' = published \union {u}
  /\ \E to \in {"link", "done"} : Goes(u, to)
  /\ UNCHANGED <<lessonRows, editor, aborted, loose, unmounted, breaks, editorNotes>>

\* setLessonVideoRef; a lesson that was replaced is not found.  Either way the
\* upload ends with an error: onLinked cannot write into the store's item.
LinkVideo(u) ==
  LET l == mem[u].lesson IN
  /\ step[u] = "link" /\ l # 0
  /\ Goes(u, "done")
  /\ lessonRows' = IF l \in Live THEN [lessonRows EXCEPT ![l] = u] ELSE lessonRows
  /\ UNCHANGED <<published, editor, aborted, loose, unmounted, breaks, editorNotes>>

\* A draft has nothing to link: onLinked writes the video into the item and
\* puts back the list it knows.
OnLinked(u) ==
  LET known == mem[u].list IN
  /\ step[u] = "link" /\ mem[u].lesson = 0
  /\ Goes(u, "done")
  /\ IF u \in unmounted THEN UNCHANGED <<items, form, overtaken>>
     ELSE /\ items' = [items EXCEPT ![known[mem[u].at]].video = u]
          /\ form' = known
          /\ overtaken' = (overtaken \/ known # form \/ page = "preview")
  /\ UNCHANGED <<server, page, adminCache, answers, payload, aborted, loose, unmounted,
                 breaks, wanted, tooLate>>

-----------------------------------------------------------------------------
\* The scripts of apps/api: they publish with the same calls, which nobody can
\* cancel, and write the lessons themselves.

OnlyScripts == <<editor, aborted, loose, unmounted, breaks, editorNotes>>

\* publish-lesson-video-oauth: attaching is optional; a video that cannot be
\* served is attached all the same.
PublishByScript(u) ==
  /\ step[u] = "free"
  /\ \/ \E l \in Live : GoesWith(u, "attach", Script(u, {l}))
     \/ Goes(u, "done")
  /\ published' = published \union {u}
  /\ UNCHANGED lessonRows /\ UNCHANGED OnlyScripts

\* publish-lesson-video: the upload or the processing may fail before there is
\* a record; a video that cannot be served is not attached.
PublishHeadless(u) ==
  /\ PublishByScript(u)
  \/ /\ step[u] = "free" /\ Goes(u, "done")
     /\ UNCHANGED server /\ UNCHANGED OnlyScripts

\* The lesson is looked up, and updated if it is there still.
AttachByScript(u) ==
  /\ step[u] = "attach"
  /\ Goes(u, "done")
  /\ lessonRows' = [l \in LessonIds |->
       IF l \in mem[u].left \intersect Live THEN mem[u].video ELSE lessonRows[l]]
  /\ UNCHANGED published /\ UNCHANGED OnlyScripts

\* attach-lesson-video: a video that can be served, for one lesson, the first
\* ones, or all that have none as it reads them.
AttachPublished(u, v) ==
  /\ step[u] = "free" /\ v \in published
  /\ \E targets \in {{l} : l \in Live} \union {{l \in Live : lessonRows[l] = Nothing}} :
       /\ targets # {}
       /\ GoesWith(u, "spread", Script(v, targets))
  /\ UNCHANGED server /\ UNCHANGED OnlyScripts

\* They are updated one by one; a lesson that was deleted meanwhile ends it.
Spread(u) ==
  LET ls == mem[u].left  next == CHOOSE l \in ls : \A k \in ls : l <= k IN
  /\ step[u] = "spread"
  /\ IF next \in Live
     THEN /\ lessonRows' = [lessonRows EXCEPT ![next] = mem[u].video]
          /\ IF ls = {next} THEN Goes(u, "done")
             ELSE GoesWith(u, "spread", Script(mem[u].video, ls \ {next}))
     ELSE Goes(u, "done") /\ UNCHANGED lessonRows
  /\ UNCHANGED published /\ UNCHANGED OnlyScripts

-----------------------------------------------------------------------------
UploadStep(u) ==
  \/ \E k \in ItemNames : BeginUpload(u, k)
  \/ Cancel(u) \/ Collapse(u) \/ Transfer(u) \/ Poll(u) \/ Polled(u) \/ PublishVideo(u)
  \/ LinkVideo(u) \/ OnLinked(u)
  \/ PublishHeadless(u) \/ AttachByScript(u)
  \/ (\E v \in Requests : AttachPublished(u, v)) \/ Spread(u)

RestEditor == AtRest /\ page = "closed" /\ UNCHANGED editorVars

EditorNext ==
  \/ \E u \in Requests : UploadStep(u)
  \/ (\E known \in SUBSET {"list", "content"} : Open(known))
  \/ ListArrives \/ ContentArrives \/ DropAnswer
  \/ Leave \/ ToContent \/ ToInfo \/ ToPreview
  \/ AddLesson \/ (\E k \in ItemNames : RemoveLesson(k) \/ LinkPasted(k))
  \/ \E k \in ItemNames, v \in Requests : Paste(k, v)
  \/ SaveCourse \/ \E v \in Requests : SaveElsewhere(v)
  \/ RestEditor

\* A course that is still to be made, or has lessons without videos.
EditorInit ==
  /\ \E n \in 0..MaxLessons :
       lessonRows = [l \in LessonIds |-> IF l <= n THEN Nothing ELSE "unborn"]
  /\ published = {}
  /\ page = "closed" /\ adminCache = Nothing /\ answers = {} /\ items = <<>> /\ form = <<>>
  /\ payload = <<>>
  /\ aborted = {} /\ loose = {} /\ unmounted = {}
  /\ wanted = <<>> /\ overtaken = FALSE /\ tooLate = {}
  /\ step = [r \in Requests |-> "free"] /\ mem = [r \in Requests |-> Nothing]
  /\ breaks = 0

EditorSpec == EditorInit /\ [][EditorNext]_editorVars

-----------------------------------------------------------------------------
\* Properties.

\* What the preview will save is what the author left in the form, unless an
\* upload that began earlier put back the form it knew or ended behind the
\* preview (handleSubmit, onLinked in CourseContent).
PreviewIsWanted == page = "preview" => payload = VideosOf(wanted) \/ overtaken

\* A cancelled upload is not published, unless the node was being asked for
\* the last time or the record was on its way (UploadCancelledError,
\* `cancellable`: "cancelling could leave it half-made").
CancelledAreNotPublished == aborted \intersect published \subseteq tooLate

\* The author gets the course that was asked for, and no video that was not.
EditorObeys == PreviewIsWanted /\ CancelledAreNotPublished
=============================================================================
