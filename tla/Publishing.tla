------------------------------ MODULE Publishing ------------------------------
(***************************************************************************)
(* Publishing one course to the Atmosphere: by the service account of      *)
(* apps/api (publishCourseToPDS) or by an instructor from apps/admin       *)
(* (publishCourseToOwnPds), who registers the records afterwards.          *)
(*                                                                         *)
(* Each request is one publication and makes records of its own: rkeys are *)
(* new ones, so a record is named by the publication and the lesson.       *)
(***************************************************************************)
EXTENDS Handlers

CONSTANT CourseLessons   \* the lessons the course may have

ASSUME PublishingAssumption ==
  /\ CourseLessons # {} /\ Nothing \notin CourseLessons
  /\ \A some \in SUBSET CourseLessons : some # Nothing

\* apps/api.
VARIABLES
  content,      \* the course's lessons
  filmed,       \* those with a videoUrl
  courseUri,    \* Course.atprotoUri: the publication it names
  lessonRefs    \* LessonRef rows: the publication of each lesson's record

\* Repositories.
VARIABLES
  videoRecords,  \* app.civic.video: <<publication, lesson>>
  lessonRecords, \* app.civic.lesson: <<publication, lesson>>
  backRefs,      \* those whose courseRef names the course record
  courseRecords  \* app.civic.course: what the record of a publication lists

\* History.
VARIABLES
  unread,       \* lesson records that an instructor's patch could not read
  byService     \* courseUri was last set by the service account

base == <<content, filmed, courseUri, lessonRefs>>
records == <<videoRecords, lessonRecords, backRefs, courseRecords>>
publishingVars == <<base, records, unread, byService, handlers>>

PublishingSteps == {"free", "video", "lesson", "course", "read", "patch", "register",
                    "done"}

\* own: by the instructor; told, films: the lessons that were read; left: the
\* lessons that the present loop has not come to yet.
PublishingMemory == [own : BOOLEAN, told : SUBSET CourseLessons,
                     films : SUBSET CourseLessons, left : SUBSET CourseLessons]

PublishingTypeOK ==
  /\ content \subseteq CourseLessons /\ filmed \subseteq content
  /\ courseUri \in Requests \union {Nothing}
  /\ lessonRefs \in [CourseLessons -> Requests \union {Nothing}]
  /\ \A some \in {videoRecords, lessonRecords, backRefs, unread} :
       some \subseteq Requests \X CourseLessons
  /\ backRefs \subseteq lessonRecords
  /\ courseRecords \in [Requests -> (SUBSET CourseLessons) \union {Nothing}]
  /\ byService \in BOOLEAN
  /\ step \in [Requests -> PublishingSteps]
  /\ mem \in [Requests -> PublishingMemory \union {Nothing}]
  /\ \A p \in Requests : step[p] \notin {"free", "done"} => mem[p] \in PublishingMemory
  /\ breaks \in 0..MaxBreaks

-----------------------------------------------------------------------------
\* One lesson after the other; the order among them does not matter here.
ItsLesson(p) == CHOOSE l \in mem[p].left : TRUE

\* The loop goes on, or to what follows it with every lesson again.
Onwards(p, again, after) ==
  LET rest == mem[p].left \ {ItsLesson(p)} IN
  IF rest = {} THEN GoesWith(p, after, [mem[p] EXCEPT !.left = mem[p].told])
  ELSE GoesWith(p, again, [mem[p] EXCEPT !.left = rest])

\* The course is read.  The instructor's flow refuses one without lessons, the
\* service account only one without sections: those it has may be empty.
BeginPublish(p) ==
  /\ step[p] = "free"
  /\ \E own \in BOOLEAN :
       /\ own => content # {}
       /\ GoesWith(p, IF content = {} THEN "course" ELSE "video",
                   [own |-> own, told |-> content, films |-> filmed, left |-> content])
  /\ UNCHANGED <<base, records, unread, byService, breaks>>

\* The video's record: the instructor's flow makes none without a video.
PutVideo(p) ==
  /\ step[p] = "video"
  /\ Goes(p, "lesson")
  /\ videoRecords' = IF mem[p].own /\ ItsLesson(p) \notin mem[p].films THEN videoRecords
                     ELSE videoRecords \union {<<p, ItsLesson(p)>>}
  /\ UNCHANGED <<base, lessonRecords, backRefs, courseRecords, unread, byService, breaks>>

\* The lesson's record, with an empty courseRef.
PutLesson(p) ==
  /\ step[p] = "lesson"
  /\ Onwards(p, "video", "course")
  /\ lessonRecords' = lessonRecords \union {<<p, ItsLesson(p)>>}
  /\ UNCHANGED <<base, videoRecords, backRefs, courseRecords, unread, byService, breaks>>

\* Mutant of AfterCourse: the course is registered before its lessons are patched.
AfterCourseRegisters(p) == "register"

\* "Patch lessons with the real courseRef" comes first.
AfterCourse(p) == IF mem[p].told = {} THEN "register" ELSE "read"

PutCourse(p) ==
  /\ step[p] = "course"
  /\ Goes(p, AfterCourse(p))
  /\ courseRecords' = [courseRecords EXCEPT ![p] = mem[p].told]
  /\ UNCHANGED <<base, videoRecords, lessonRecords, backRefs, unread, byService, breaks>>

\* getRecord before the patch: when it fails the instructor's flow goes on
\* with the next lesson, and the other one fails (Abandon).
ReadLesson(p) ==
  /\ step[p] = "read"
  /\ \/ Goes(p, "patch") /\ UNCHANGED unread
     \/ /\ mem[p].own
        /\ unread' = unread \union {<<p, ItsLesson(p)>>}
        /\ Onwards(p, "read", "register")
  /\ UNCHANGED <<base, records, byService, breaks>>

PatchLesson(p) ==
  /\ step[p] = "patch"
  /\ Onwards(p, "read", "register")
  /\ backRefs' = backRefs \union {<<p, ItsLesson(p)>>}
  /\ UNCHANGED <<base, videoRecords, lessonRecords, courseRecords, unread, byService,
                 breaks>>

\* Mutant of Registered: the refs of lessons that are not in the map stay.
RegisteredAlso(p) ==
  [l \in CourseLessons |-> IF l \in mem[p].told THEN p ELSE lessonRefs[l]]

\* The refs after the upserts and the deleteMany of the transaction.
Registered(p) ==
  [l \in CourseLessons |-> IF l \in mem[p].told THEN p ELSE Nothing]

\* registerCourseAtprotoRef, or the last update of publishCourseToPDS, which
\* leaves the lesson refs alone.
Register(p) ==
  /\ step[p] = "register"
  /\ Goes(p, "done")
  /\ courseUri' = p /\ byService' = ~mem[p].own
  /\ lessonRefs' = IF mem[p].own THEN Registered(p) ELSE lessonRefs
  /\ UNCHANGED <<content, filmed, records, unread, breaks>>

\* A call fails, or the tab or the process is gone: what was written stays.
Abandon(p) ==
  /\ breaks < MaxBreaks /\ step[p] \notin {"free", "done"}
  /\ breaks' = breaks + 1
  /\ Goes(p, "done")
  /\ UNCHANGED <<base, records, unread, byService>>

\* Editors change the course meanwhile (Storefront).
EditContent ==
  /\ content' \in SUBSET CourseLessons /\ filmed' \in SUBSET content'
  /\ UNCHANGED <<courseUri, lessonRefs, records, unread, byService, handlers>>

-----------------------------------------------------------------------------
Publish(p) ==
  \/ BeginPublish(p) \/ PutVideo(p) \/ PutLesson(p) \/ PutCourse(p)
  \/ ReadLesson(p) \/ PatchLesson(p) \/ Register(p) \/ Abandon(p)

PublishingNext == (\E p \in Requests : Publish(p)) \/ EditContent

PublishingInit ==
  /\ content = CourseLessons /\ filmed \in SUBSET content
  /\ courseUri = Nothing /\ lessonRefs = [l \in CourseLessons |-> Nothing]
  /\ videoRecords = {} /\ lessonRecords = {} /\ backRefs = {}
  /\ courseRecords = [p \in Requests |-> Nothing]
  /\ unread = {} /\ byService = FALSE
  /\ step = [p \in Requests |-> "free"] /\ mem = [p \in Requests |-> Nothing]
  /\ breaks = 0

PublishingSpec == PublishingInit /\ [][PublishingNext]_publishingVars

-----------------------------------------------------------------------------
\* Properties.

\* The publication that the course names is whole: its course record lists
\* lesson records that are there and point back, but for those that an
\* instructor's patch could not read (the order of publishCourseToPDS and
\* publishCourseToOwnPds).
NamedPublicationIsWhole ==
  courseUri # Nothing =>
    /\ courseRecords[courseUri] # Nothing
    /\ \A l \in courseRecords[courseUri] :
         /\ <<courseUri, l>> \in lessonRecords
         /\ <<courseUri, l>> \in backRefs \union unread

\* The lesson refs are those of the publication that the course names, for
\* the lessons it lists, unless the service account has published since: it
\* leaves the refs of the publication before (registerCourseAtprotoRef).
RefsOfOnePublication ==
  courseUri # Nothing /\ ~byService =>
    \A l \in CourseLessons :
      lessonRefs[l] = IF l \in courseRecords[courseUri] THEN courseUri ELSE Nothing

\* What the database names in the network is one publication, and whole.
PublicationIsOne == NamedPublicationIsWhole /\ RefsOfOnePublication
=============================================================================
