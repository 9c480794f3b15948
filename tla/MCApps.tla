-------------------------------- MODULE MCApps --------------------------------
(***************************************************************************)
(* The clients, the publications, the indexer and the pilot: components    *)
(* that meet only through what they store.  Each state graph begins in one *)
(* scene and stays there, the variables of the other components keep their *)
(* first values.                                                           *)
(***************************************************************************)
EXTENDS CourseEditor, QuizPanel, Publishing, Indexer, Layouts, Pilot, LearnerApp,
        OfflineProgress, LessonRoad, TLC

VARIABLE scene

Symmetry == Permutations(Requests)

\* Bound: writes that AsyncStorage has before it.
FewWrites == Len(writes) <= 3

editorOwn == <<server, editor, aborted, loose, unmounted, editorNotes>>
quizOwn == <<quizRows, quizPanel, quizMarks>>
publishingOwn == <<base, records, unread, byService>>
layoutOwn == <<layouts, refetches, data, draft, hook, layoutNotes>>
pilotOwn == <<spaces, runtime, adrift, pilotNotes>>
learnerOwn == <<facts, roadQuery, screens, unseen>>
offlineOwn == <<offlineQueue, online, wasOffline, drain, delivered, gone, unsaved>>
appsVars == <<editorOwn, quizOwn, publishingOwn, indexerVars, layoutOwn, pilotOwn,
              learnerOwn, offlineOwn, roadVars, handlers, scene>>

\* The first values of the components that are not on the scene.
QuietEditor ==
  /\ lessonRows = <<>> /\ published = {}
  /\ page = "closed" /\ adminCache = Nothing /\ answers = {} /\ items = <<>> /\ form = <<>> /\ payload = <<>>
  /\ aborted = {} /\ loose = {} /\ unmounted = {} /\ wanted = <<>> /\ overtaken = FALSE /\ tooLate = {}

QuietQuiz ==
  /\ quizRows = [l \in QuizLessons |-> {}] /\ shownLesson = 0
  /\ expanded = FALSE /\ loading = FALSE /\ asking = Nothing
  /\ hasQuiz = FALSE /\ questions = {} /\ saving = Nothing /\ deleting = Nothing
  /\ halfRead = {} /\ mixed = {}

QuietPublishing ==
  /\ content = {} /\ filmed = {} /\ courseUri = Nothing /\ lessonRefs = <<>>
  /\ videoRecords = {} /\ lessonRecords = {} /\ backRefs = {} /\ courseRecords = <<>>
  /\ unread = {} /\ byService = FALSE

QuietIndexer ==
  /\ timed = FALSE /\ log = <<>> /\ index = <<>> /\ cursor = 0
  /\ link = "down" /\ from = 0 /\ latest = 0 /\ dirty = FALSE /\ flushing = 0
  /\ handling = {} /\ faults = 0 /\ received = {} /\ behind = {} /\ together = {}

QuietLayouts ==
  /\ layouts = [r \in Makers |-> [row |-> FALSE, has |-> {}]]
  /\ refetches = FALSE /\ data = Nothing /\ draft = {}
  /\ latestSave = Nothing /\ outcome = "none" /\ removed = {} /\ kept = {} /\ stale = FALSE /\ excused = FALSE

QuietPilot ==
  /\ requests = <<>> /\ receipts = <<>> /\ intent = Nothing /\ courseRow = "none"
  /\ outbox = "none" /\ commands = <<>> /\ enrollment = Nothing /\ certificate = FALSE
  /\ site = Nothing /\ completions = {} /\ connected = FALSE /\ courses = "none"
  /\ adrift = {} /\ before = 0 /\ told = {} /\ late = FALSE

QuietLearner ==
  /\ facts = None /\ road = Nothing /\ invalid = FALSE /\ fetching = Nothing
  /\ screen = Nothing /\ marked = FALSE /\ submitting = Nothing /\ result = "none"
  /\ unseen = None

QuietOffline ==
  /\ queued = {} /\ loaded = FALSE /\ stored = Nothing /\ writes = <<>>
  /\ online = FALSE /\ wasOffline = FALSE /\ drain = Idle /\ delivered = {}
  /\ gone = Requests /\ unsaved = FALSE

QuietRoad == containerWidth = 0 /\ nodeCount = 0 /\ doneNodes = {}

\* Bound: in the scenes with the most states one request is never sent.
TwoOnly == \E r \in Requests : step'[r] = "free"

\* Bound: of two uploads the second begins before the first one has ended, and
\* in the editor of an existing course before the other one, a script's.
FewUploads ==
  \A u, v \in Requests :
    step[u] = "free" /\ step'[u] = "send" =>
      step[v] # "done" /\ (Exists => step[v] = "free")

\* Bound: a video is pasted where there is none.
FewPastes ==
  \A i \in DOMAIN items \intersect DOMAIN items' :
    items'[i] # items[i] /\ step' = step => items[i].video = Nothing

\* Bound: the course is edited before the last publication reads it; later no
\* publication looks at it.
FewEdits ==
  <<content, filmed>>' # <<content, filmed>> =>
    \E p, r \in Requests : p # r /\ step[p] = "free" /\ step[r] = "free"

Resting == /\ step = [r \in Requests |-> "free"] /\ mem = [r \in Requests |-> Nothing]
           /\ breaks = 0

MCInit ==
  \/ /\ scene = "editor" /\ EditorInit /\ lessonRows[2] = "unborn"
     /\ QuietQuiz /\ QuietPublishing /\ QuietIndexer /\ QuietLayouts
     /\ QuietPilot /\ QuietLearner /\ QuietOffline /\ QuietRoad
  \/ /\ scene = "quiz" /\ QuizInit
     /\ QuietEditor /\ QuietPublishing /\ QuietIndexer /\ QuietLayouts
     /\ QuietPilot /\ QuietLearner /\ QuietOffline /\ QuietRoad
  \/ /\ scene = "publishing" /\ PublishingInit
     /\ QuietEditor /\ QuietQuiz /\ QuietIndexer /\ QuietLayouts
     /\ QuietPilot /\ QuietLearner /\ QuietOffline /\ QuietRoad
  \/ /\ scene = "indexer" /\ IndexerInit /\ Resting
     /\ QuietEditor /\ QuietQuiz /\ QuietPublishing /\ QuietLayouts
     /\ QuietPilot /\ QuietLearner /\ QuietOffline /\ QuietRoad
  \/ /\ scene = "layouts" /\ LayoutInit
     /\ QuietEditor /\ QuietQuiz /\ QuietPublishing /\ QuietIndexer
     /\ QuietPilot /\ QuietLearner /\ QuietOffline /\ QuietRoad
  \/ /\ scene = "pilot" /\ PilotInit
     /\ QuietEditor /\ QuietQuiz /\ QuietPublishing /\ QuietIndexer /\ QuietLayouts
     /\ QuietLearner /\ QuietOffline /\ QuietRoad
  \/ /\ scene = "learner" /\ LearnerInit
     /\ QuietEditor /\ QuietQuiz /\ QuietPublishing /\ QuietIndexer /\ QuietLayouts
     /\ QuietPilot /\ QuietOffline /\ QuietRoad
  \/ /\ scene = "offline" /\ OfflineInit
     /\ QuietEditor /\ QuietQuiz /\ QuietPublishing /\ QuietIndexer /\ QuietLayouts
     /\ QuietPilot /\ QuietLearner /\ QuietRoad
  \/ /\ scene = "road" /\ LessonRoadInit /\ Resting
     /\ QuietEditor /\ QuietQuiz /\ QuietPublishing /\ QuietIndexer /\ QuietLayouts
     /\ QuietPilot /\ QuietLearner /\ QuietOffline

MCNext ==
  /\ UNCHANGED scene
  /\ \/ /\ scene = "editor" /\ EditorNext /\ TwoOnly /\ FewUploads /\ FewPastes
        /\ UNCHANGED <<quizOwn, publishingOwn, indexerVars, layoutOwn, pilotOwn,
                       learnerOwn, offlineOwn, roadVars>>
     \/ /\ scene = "quiz" /\ QuizNext
        /\ UNCHANGED <<editorOwn, publishingOwn, indexerVars, layoutOwn, pilotOwn,
                       learnerOwn, offlineOwn, roadVars>>
     \/ /\ scene = "publishing" /\ PublishingNext /\ TwoOnly /\ FewEdits
        /\ UNCHANGED <<editorOwn, quizOwn, indexerVars, layoutOwn, pilotOwn,
                       learnerOwn, offlineOwn, roadVars>>
     \/ /\ scene = "indexer" /\ IndexerNext
        /\ UNCHANGED <<editorOwn, quizOwn, publishingOwn, layoutOwn, pilotOwn,
                       learnerOwn, offlineOwn, roadVars, handlers>>
     \/ /\ scene = "layouts" /\ LayoutNext
        /\ UNCHANGED <<editorOwn, quizOwn, publishingOwn, indexerVars, pilotOwn,
                       learnerOwn, offlineOwn, roadVars>>
     \/ /\ scene = "pilot" /\ PilotNext
        /\ UNCHANGED <<editorOwn, quizOwn, publishingOwn, indexerVars, layoutOwn,
                       learnerOwn, offlineOwn, roadVars>>
     \/ /\ scene = "learner" /\ LearnerNext
        /\ UNCHANGED <<editorOwn, quizOwn, publishingOwn, indexerVars, layoutOwn,
                       pilotOwn, offlineOwn, roadVars>>
     \/ /\ scene = "offline" /\ OfflineNext
        /\ UNCHANGED <<editorOwn, quizOwn, publishingOwn, indexerVars, layoutOwn,
                       pilotOwn, learnerOwn, roadVars>>
     \/ /\ scene = "road" /\ LessonRoadNext
        /\ UNCHANGED <<editorOwn, quizOwn, publishingOwn, indexerVars, layoutOwn,
                       pilotOwn, learnerOwn, offlineOwn, handlers>>

MCSpec == MCInit /\ [][MCNext]_appsVars

\* Every component keeps its types.
AppsTypeOK ==
  /\ scene = "editor" => EditorTypeOK
  /\ scene = "quiz" => QuizTypeOK
  /\ scene = "publishing" => PublishingTypeOK
  /\ scene = "indexer" => IndexerTypeOK
  /\ scene = "layouts" => LayoutTypeOK
  /\ scene = "pilot" => PilotTypeOK
  /\ scene = "learner" => LearnerTypeOK
  /\ scene = "offline" => OfflineTypeOK
  /\ scene = "road" => LessonRoadTypeOK
=============================================================================
