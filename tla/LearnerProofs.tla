---------------------------- MODULE LearnerProofs ----------------------------
(***************************************************************************)
(* Proofs about the learner's app: the geometry of the lesson road, what   *)
(* its query shows, and the queue of progress made offline.                *)
(***************************************************************************)
EXTENDS LessonRoad, LearnerApp, OfflineProgress, FiniteSetTheorems, SequenceTheorems, TLAPS

-----------------------------------------------------------------------------
\* The lesson road.

\* The road is never narrower than 240 pixels.
LEMMA RoadIsWide ==
  ASSUME NEW c \in Int
  PROVE  ContentWidth(c) \in Int /\ ContentWidth(c) >= 24000
BY DEF ContentWidth, AtLeast, Hundredths

\* The sway of the nodes and the place beside them.
LEMMA SwayBounds ==
  ASSUME NEW w \in Int, w >= 24000
  PROVE  /\ RawSway(w) \in Int /\ RawSway(w) >= 2400 /\ RawSway(w) <= 9600
         /\ Centre(w) \in Int /\ 2 * Centre(w) <= w /\ w <= 2 * Centre(w) + 1
<1>1. (15 * w) \div 100 \in Int
  OBVIOUS
<1> QED
  BY <1>1 DEF RawSway, Centre, AtMost, AtLeast, Hundredths

\* What the two modes make of the measures.
LEMMA SideMeasures ==
  ASSUME NEW w \in Int, w >= 24000, Mode(w) = "side"
  PROVE  /\ NodeSize(w) = 6400 /\ RowHeight(w) = 13200 /\ GoalDrop(w) = 9600
         /\ Sway(w) = RawSway(w) /\ LabelTop(w) = 0
         /\ LabelWidth(w) = Centre(w) - Sway(w) - 4200
         /\ LabelWidth(w) \in Int /\ LabelWidth(w) >= 7200
<1>1. SideLabelWidth(w) >= 7200
  BY DEF Mode, Hundredths
<1>2. SideLabelWidth(w) = Centre(w) - RawSway(w) - 4200
  BY SwayBounds DEF SideLabelWidth, LabelGap, Hundredths
<1> QED
  BY <1>1, <1>2, SwayBounds
  DEF NodeSize, RowHeight, GoalDrop, Sway, LabelTop, LabelWidth, LabelGap, Hundredths

LEMMA CompactMeasures ==
  ASSUME NEW w \in Int, w >= 24000, Mode(w) # "side"
  PROVE  /\ NodeSize(w) = 5600 /\ RowHeight(w) = 16400 /\ GoalDrop(w) = 8800
         /\ Sway(w) = 0 /\ LabelTop(w) = 11200
         /\ LabelWidth(w) \in Int /\ LabelWidth(w) >= 21600 /\ LabelWidth(w) <= w - 2400
BY SwayBounds
DEF NodeSize, RowHeight, GoalDrop, Sway, LabelTop, LabelWidth, AtMost, Hundredths

LEMMA SideNodes ==
  ASSUME NEW w \in Int, w >= 24000, NEW i \in Nat, Mode(w) = "side"
  PROVE  NodeFits(w, i)
<1>1. CASE OnTheRight(i)
  BY <1>1, SwayBounds, SideMeasures
  DEF NodeFits, NodeX, LabelLeft, LabelGap, Hundredths
<1>2. CASE ~OnTheRight(i)
  BY <1>2, SwayBounds, SideMeasures
  DEF NodeFits, NodeX, LabelLeft, LabelGap, Hundredths
<1> QED
  BY <1>1, <1>2

LEMMA CompactNodes ==
  ASSUME NEW w \in Int, w >= 24000, NEW i \in Nat, Mode(w) # "side"
  PROVE  NodeFits(w, i)
<1>1. NodeX(w, i) = Centre(w)
  BY SwayBounds, CompactMeasures DEF NodeX
<1>2. LabelLeft(w, i) = Centre(w) - LabelWidth(w) \div 2
  BY DEF LabelLeft
<1> QED
  BY <1>1, <1>2, SwayBounds, CompactMeasures DEF NodeFits, Hundredths

\* Nodes that follow one another, and the goal.
LEMMA RowsApart ==
  ASSUME NEW w \in Int, w >= 24000, NEW i \in Nat
  PROVE  NodesApart(w, i)
<1>1. CASE Mode(w) = "side"
  BY <1>1, SideMeasures DEF NodesApart, NodeY
<1>2. CASE Mode(w) # "side"
  BY <1>2, CompactMeasures DEF NodesApart, NodeY
<1> QED
  BY <1>1, <1>2

LEMMA GoalIsFree ==
  ASSUME NEW w \in Int, w >= 24000, NEW n \in Nat
  PROVE  GoalFits(w, n)
<1>1. CASE Mode(w) = "side"
  BY <1>1, SideMeasures
  DEF GoalFits, GoalY, RoadHeight, NodeY, AtLeast, Hundredths
<1>2. CASE Mode(w) # "side"
  BY <1>2, CompactMeasures
  DEF GoalFits, GoalY, RoadHeight, NodeY, AtLeast, Hundredths
<1> QED
  BY <1>1, <1>2

LEMMA EveryRoadIsLegible ==
  ASSUME NEW c \in Int, NEW n \in Nat
  PROVE  RoadIsLegible(ContentWidth(c), n)
<1> DEFINE w == ContentWidth(c)
<1>1. w \in Int /\ w >= 24000
  BY RoadIsWide
<1> HIDE DEF w
<1>2. \A i \in 0..n - 1 : NodeFits(w, i) /\ NodesApart(w, i)
  BY <1>1, SideNodes, CompactNodes, RowsApart
<1>3. GoalFits(w, n)
  BY <1>1, GoalIsFree
<1> QED
  BY <1>2, <1>3 DEF RoadIsLegible, w

\* isSegmentDone counts on the list, the trophy on the number of completed
\* lessons: they agree.
LEMMA AllDone ==
  ASSUME NEW n \in Nat, NEW done \in SUBSET (0..n - 1)
  PROVE  Cardinality(done) = n <=> done = 0..n - 1
<1>1. IsFiniteSet(0..n - 1) /\ Cardinality(0..n - 1) = n
  BY FS_Interval
<1>2. Cardinality(0..n - 1) = Cardinality(done) => 0..n - 1 = done
  BY <1>1, FS_Subset
<1> QED
  BY <1>1, <1>2

LEMMA EveryRoadIsLitBehind ==
  ASSUME NEW n \in Nat, NEW done \in SUBSET (0..n - 1)
  PROVE  RoadIsLitBehind(n, done)
<1>1. \A to \in 0..n : SegmentDone(n, done, to) => to - 1 \in done
  BY DEF SegmentDone
<1>2. SegmentDone(n, done, n) <=> GoalDone(n, done)
  BY AllDone DEF SegmentDone, GoalDone
<1>3. SegmentDone(n, done, n) => \A to \in 1..n : SegmentDone(n, done, to)
  BY DEF SegmentDone
<1> QED
  BY <1>1, <1>2, <1>3 DEF RoadIsLitBehind

\* The road keeps its types, for any widths and any number of lessons.
THEOREM RoadTypeCorrect == LessonRoadSpec => []LessonRoadTypeOK
<1>1. LessonRoadInit => LessonRoadTypeOK
  BY LessonRoadAssumption DEF LessonRoadInit, LessonRoadTypeOK
<1>2. LessonRoadTypeOK /\ [LessonRoadNext]_roadVars => LessonRoadTypeOK'
  BY DEF LessonRoadTypeOK, LessonRoadNext, Laid, Reloaded, roadVars
<1> QED
  BY <1>1, <1>2, PTL DEF LessonRoadSpec

\* On every screen, for every course and all progress, the road can be read
\* and shows the progress (buildRoadModel, isSegmentDone).
THEOREM RoadAlwaysReads == LessonRoadSpec => []RoadReads
<1>1. LessonRoadTypeOK => RoadReads
  <2> SUFFICES ASSUME LessonRoadTypeOK PROVE RoadReads
    OBVIOUS
  <2>1. containerWidth \in Int /\ nodeCount \in Nat
    BY LessonRoadAssumption DEF LessonRoadTypeOK
  <2>2. doneNodes \in SUBSET (0..nodeCount - 1)
    BY DEF LessonRoadTypeOK
  <2> QED
    BY <2>1, <2>2, EveryRoadIsLegible, EveryRoadIsLitBehind DEF RoadReads
<1> QED
  BY <1>1, RoadTypeCorrect, PTL

-----------------------------------------------------------------------------
\* The lesson road's query.

LearnerSteps == {"free", "sent", "read", "answered", "done"}
Calls == {"sent", "read", "answered"}
Fetches == [at : {"idle", "asked", "served"}, has : Facts]

\* The screens over the road, and their calls, come after the first data.
RoadComesFirst ==
  /\ screen.at \in {"player", "quiz"} => road # Nothing /\ screen.lesson \in RoadSet
  /\ screen.at = "quiz" => screen.lesson \in RoadQuizzes
  /\ \A r \in Requests : step[r] \in Calls => road # Nothing
  /\ \A r \in Requests :
       step[r] \in Calls /\ mem[r].what = "submit" => mem[r].lesson \in RoadQuizzes

\* What the API answered is what it has recorded, but for what the app was not
\* told since.
FetchIsTold == fetching.at = "served" => Within(Differing(facts, fetching.has), unseen)

RoadInv == LearnerTypeOK /\ RoadComesFirst /\ FetchIsTold /\ RoadIsCurrent

-----------------------------------------------------------------------------
LEMMA NoneIsFacts == None \in Facts /\ None.done = {} /\ None.passed = {}
BY DEF None, Facts

LEMMA MoreIsFacts ==
  ASSUME NEW a \in Facts, NEW b \in Facts
  PROVE  More(a, b) \in Facts /\ Less(a, b) \in Facts /\ Differing(a, b) \in Facts
<1>1. \A f \in Facts, g \in Facts : More(f, g) \in Facts /\ Less(f, g) \in Facts
  BY DEF More, Less, Facts
<1> QED
  BY <1>1 DEF Differing

\* Facts that are apart by what the app was not told stay so when more is not
\* told, or when they change and the change is not told.
LEMMA ApartFrom ==
  ASSUME NEW a, NEW b, NEW c, Within(Differing(a, b), c)
  PROVE  /\ \A d : Within(Differing(a, b), More(c, d))
         /\ \A d : Within(Differing(d, b), More(c, Differing(a, d)))
<1>2. /\ a.done \ b.done \subseteq c.done /\ b.done \ a.done \subseteq c.done
      /\ a.passed \ b.passed \subseteq c.passed /\ b.passed \ a.passed \subseteq c.passed
  BY DEF Within, Differing, More, Less
<1>3. ASSUME NEW d  PROVE Within(Differing(a, b), More(c, d))
  BY <1>2 DEF Within, Differing, More, Less
<1>4. ASSUME NEW d  PROVE Within(Differing(d, b), More(c, Differing(a, d)))
  <2>1. Differing(d, b).done \subseteq More(c, Differing(a, d)).done
    BY <1>2 DEF Differing, More, Less
  <2>2. Differing(d, b).passed \subseteq More(c, Differing(a, d)).passed
    BY <1>2 DEF Differing, More, Less
  <2> QED
    BY <2>1, <2>2 DEF Within
<1> QED
  BY <1>3, <1>4

LEMMA ApartAgrees ==
  ASSUME NEW a, NEW b, NEW c
  PROVE  Within(Differing(a, a), c) /\ Within(Differing(a, b), More(c, Differing(a, b)))
BY DEF Within, Differing, More, Less

LEMMA IdleIsTyped ==
  ASSUME NEW at \in {"idle", "asked", "served"}, NEW f \in Facts
  PROVE  /\ [at |-> at, has |-> f] \in Fetches
         /\ [at |-> at, has |-> f].at = at /\ [at |-> at, has |-> f].has = f
BY DEF Fetches

LEMMA LearnerMemTyped ==
  ASSUME LearnerTypeOK, NEW r \in Requests, step[r] \in Calls
  PROVE  /\ mem[r] \in LearnerMemory /\ mem[r].lesson \in RoadSet
         /\ mem[r].good \in BOOLEAN /\ mem[r].what \in {"mark", "submit", "report"}
BY DEF LearnerTypeOK, LearnerMemory, Calls

\* The types, without those of the calls.
RestTyped ==
  /\ facts \in Facts /\ unseen \in Facts /\ road \in Facts \union {Nothing}
  /\ invalid \in BOOLEAN /\ marked \in BOOLEAN
  /\ fetching \in Fetches
  /\ screen \in [at : {"home", "road", "player", "quiz"}, lesson : 0..RoadLessons]
  /\ submitting \in Requests \union {Nothing}
  /\ result \in {"none", "passed", "failed"}
  /\ breaks \in 0..MaxBreaks

CallsTyped ==
  /\ step \in [Requests -> LearnerSteps]
  /\ mem \in [Requests -> LearnerMemory \union {Nothing}]
  /\ \A r \in Requests : step[r] \notin {"free", "done"} => mem[r] # Nothing

LEMMA LearnerTypes == LearnerTypeOK <=> RestTyped /\ CallsTyped
BY DEF LearnerTypeOK, RestTyped, CallsTyped, LearnerSteps, Fetches

LEMMA RoadTyped == RoadInv => RestTyped /\ CallsTyped
BY LearnerTypes DEF RoadInv

LEMMA RoadTypedNext ==
  ASSUME RestTyped', CallsTyped'
  PROVE  LearnerTypeOK'
BY DEF LearnerTypeOK, RestTyped, CallsTyped, LearnerSteps, Fetches

LEMMA RoadInvInit == LearnerInit => RoadInv
<1> SUFFICES ASSUME LearnerInit PROVE RoadInv
  OBVIOUS
<1>1. facts \in Facts
  BY LearnerAssumption DEF LearnerInit, Facts, RoadSet
<1>2. unseen \in Facts /\ fetching \in Fetches /\ fetching.at = "idle" /\ road = Nothing
  BY NoneIsFacts, IdleIsTyped DEF LearnerInit
<1>3. breaks \in 0..MaxBreaks
  BY HandlersAssumption DEF LearnerInit
<1>b. invalid \in BOOLEAN /\ marked \in BOOLEAN
  BY DEF LearnerInit
<1>4. screen \in [at : {"home", "road", "player", "quiz"}, lesson : 0..RoadLessons]
      /\ screen.at = "home"
  BY LearnerAssumption DEF LearnerInit
<1>5. RestTyped
  BY <1>1, <1>2, <1>3, <1>b, <1>4 DEF LearnerInit, RestTyped
<1>6. CallsTyped /\ \A r \in Requests : step[r] = "free"
  BY DEF LearnerInit, CallsTyped, LearnerSteps
<1> QED
  <2>1. LearnerTypeOK
    BY <1>5, <1>6, LearnerTypes
  <2>2. RoadComesFirst
    BY <1>4, <1>6 DEF RoadComesFirst, Calls
  <2>3. FetchIsTold /\ RoadIsCurrent
    BY <1>2 DEF FetchIsTold, RoadIsCurrent
  <2> QED
    BY <2>1, <2>2, <2>3 DEF RoadInv

\* The query is refetched, or left as it is.
LEMMA RefetchTells ==
  ASSUME RoadInv, Refetch \/ UNCHANGED roadQuery, UNCHANGED <<facts, unseen>>
  PROVE  UNCHANGED <<road, invalid>> /\ fetching' \in Fetches /\ FetchIsTold' /\ RoadIsCurrent'
<1>0. fetching \in Fetches
  BY RoadTyped DEF RestTyped
<1>1. CASE UNCHANGED roadQuery
  BY <1>0, <1>1 DEF roadQuery, RoadInv, FetchIsTold, RoadIsCurrent
<1>2. CASE Refetch
  <2>1. fetching' = Refetched(fetching) /\ UNCHANGED <<road, invalid>>
    BY <1>2 DEF Refetch
  <2>2. CASE road = Nothing /\ fetching.at # "idle"
    <3>1. fetching' = fetching
      BY <2>1, <2>2 DEF Refetched
    <3> QED
      BY <1>0, <2>1, <2>2, <3>1 DEF RoadInv, FetchIsTold, RoadIsCurrent
  <2>3. CASE ~(road = Nothing /\ fetching.at # "idle")
    <3>1. fetching' = [at |-> "asked", has |-> None]
      BY <2>1, <2>3 DEF Refetched
    <3>2. fetching' \in Fetches /\ fetching'.at = "asked"
      BY <3>1, NoneIsFacts, IdleIsTyped
    <3> QED
      BY <2>1, <3>2 DEF FetchIsTold, RoadIsCurrent
  <2> QED
    BY <2>2, <2>3
<1> QED
  BY <1>1, <1>2

\* The query is invalidated: it is fetched anew or will be, or the fetch that
\* goes on counts as fresh and the app was told nothing.
LEMMA InvalidateTells ==
  ASSUME RoadInv, Invalidate, UNCHANGED <<facts, screen>>, road # Nothing,
         NEW r \in Requests, unseen' = Told(r), step[r] \in Calls
  PROVE  /\ UNCHANGED road /\ invalid' \in BOOLEAN
         /\ fetching' \in Fetches /\ unseen' \in Facts /\ FetchIsTold' /\ RoadIsCurrent'
<1>0. fetching \in Fetches /\ unseen \in Facts
  BY RoadTyped DEF RestTyped
<1>1. UNCHANGED road /\ invalid' = TRUE
  BY DEF Invalidate
<1>2. RoadIsCurrent'
  BY <1>1 DEF RoadIsCurrent
<1>3. unseen' \in Facts
  BY <1>0 DEF Told, Facts, Less
<1>4. CASE screen.at = "home"
  <2>1. fetching' = fetching
    BY <1>4 DEF Invalidate
  <2>2. fetching.at = "served" => unseen' = unseen
    BY <1>4 DEF Told
  <2> QED
    BY <1>0, <1>1, <1>2, <1>3, <2>1, <2>2 DEF RoadInv, FetchIsTold
<1>5. CASE screen.at # "home"
  <2>1. fetching' = [at |-> "asked", has |-> None]
    BY <1>5 DEF Invalidate, Refetched
  <2>2. fetching' \in Fetches /\ fetching'.at = "asked"
    BY <2>1, NoneIsFacts, IdleIsTyped
  <2> QED
    BY <1>1, <1>2, <1>3, <2>2 DEF FetchIsTold
<1> QED
  BY <1>4, <1>5

\* A call that goes on leaves the types and the other calls alone.
LEMMA CallsGo ==
  ASSUME CallsTyped, NEW r \in Requests, NEW to \in LearnerSteps,
         NEW m \in LearnerMemory \union {Nothing}, GoesWith(r, to, m),
         to \in Calls => m \in LearnerMemory
  PROVE  /\ CallsTyped'
         /\ step'[r] = to /\ (to # "done" => mem'[r] = m)
         /\ \A q \in Requests \ {r} : step'[q] = step[q] /\ mem'[q] = mem[q]
<1>1. \A c \in LearnerMemory : c # Nothing
  BY LearnerAssumption DEF LearnerMemory
<1>2. to \notin {"free", "done"} => to \in Calls
  BY DEF LearnerSteps, Calls
<1> QED
  BY <1>1, <1>2 DEF GoesWith, CallsTyped

\* After any step of a call on the same screen.
LEMMA RoadCalls ==
  ASSUME RoadInv, RestTyped', CallsTyped', FetchIsTold', RoadIsCurrent',
         UNCHANGED <<road, screen>>, NEW r \in Requests,
         \A q \in Requests \ {r} : step'[q] = step[q] /\ mem'[q] = mem[q],
         step'[r] \in Calls => road # Nothing,
         step'[r] \in Calls /\ mem'[r].what = "submit" => mem'[r].lesson \in RoadQuizzes
  PROVE  RoadInv'
<1>1. LearnerTypeOK'
  BY RoadTypedNext
<1>2. RoadComesFirst'
  BY DEF RoadInv, RoadComesFirst
<1> QED
  BY <1>1, <1>2 DEF RoadInv

\* Screens that open and close.
LEMMA ScreenSteps ==
  ASSUME RoadInv,
         OpenRoad \/ TakeQuiz \/ TryAgain \/ Back \/ \E l \in RoadSet : Play(l)
  PROVE  RoadInv'
<1>0. RestTyped /\ CallsTyped
  BY RoadTyped
<1>1. UNCHANGED <<facts, unseen, step, mem, breaks>> /\ (Refetch \/ UNCHANGED roadQuery)
  BY DEF OpenRoad, TakeQuiz, TryAgain, Back, Play, handlers
<1>2. fetching' \in Fetches /\ UNCHANGED <<road, invalid>> /\ FetchIsTold' /\ RoadIsCurrent'
  BY <1>1, RefetchTells
<1>3. /\ screen' \in [at : {"home", "road", "player", "quiz"}, lesson : 0..RoadLessons]
      /\ screen'.at \in {"player", "quiz"} => road # Nothing /\ screen'.lesson \in RoadSet
      /\ screen'.at = "quiz" => screen'.lesson \in RoadQuizzes
  <2>0. screen \in [at : {"home", "road", "player", "quiz"}, lesson : 0..RoadLessons]
    BY <1>0 DEF RestTyped
  <2>1. CASE OpenRoad
    BY <2>1, LearnerAssumption DEF OpenRoad
  <2>2. CASE TakeQuiz
    BY <2>0, <2>2 DEF TakeQuiz, RoadInv, RoadComesFirst
  <2>3. CASE TryAgain
    BY <2>0, <2>3 DEF TryAgain, RoadInv, RoadComesFirst
  <2>4. CASE Back
    <3>1. CASE screen.at = "quiz"
      <4>1. screen' = [screen EXCEPT !.at = "player"]
        BY <2>4, <3>1 DEF Back
      <4> QED
        BY <2>0, <3>1, <4>1 DEF RoadInv, RoadComesFirst
    <3>2. CASE screen.at = "player"
      BY <2>4, <3>2, LearnerAssumption DEF Back
    <3>3. CASE screen.at = "road"
      BY <2>4, <3>3, LearnerAssumption DEF Back
    <3> QED
      BY <2>0, <2>4, <3>1, <3>2, <3>3 DEF Back
  <2>5. ASSUME NEW l \in RoadSet, Play(l)
        PROVE  /\ screen' \in [at : {"home", "road", "player", "quiz"}, lesson : 0..RoadLessons]
               /\ screen'.at \in {"player", "quiz"} => road # Nothing /\ screen'.lesson \in RoadSet
               /\ screen'.at = "quiz" => screen'.lesson \in RoadQuizzes
    BY <2>5, LearnerAssumption DEF Play, RoadSet
  <2> QED
    BY <2>1, <2>2, <2>3, <2>4, <2>5
<1>4. submitting' \in Requests \union {Nothing} /\ result' \in {"none", "passed", "failed"}
  BY <1>0 DEF OpenRoad, TakeQuiz, TryAgain, Back, Play, RestTyped
<1>5. marked' \in BOOLEAN
  BY <1>0 DEF OpenRoad, TakeQuiz, TryAgain, Back, Play, RestTyped
<1>6. RestTyped' /\ CallsTyped'
  BY <1>0, <1>1, <1>2, <1>3, <1>4, <1>5 DEF RestTyped, CallsTyped
<1>7. LearnerTypeOK'
  BY <1>6, RoadTypedNext
<1>8. RoadComesFirst'
  BY <1>1, <1>2, <1>3 DEF RoadInv, RoadComesFirst
<1> QED
  BY <1>2, <1>7, <1>8 DEF RoadInv

LEMMA MemoryOf ==
  ASSUME NEW what \in {"mark", "submit", "report"}, NEW l \in RoadSet, NEW good \in BOOLEAN
  PROVE  /\ [what |-> what, lesson |-> l, good |-> good] \in LearnerMemory
         /\ [what |-> what, lesson |-> l, good |-> good].lesson = l
         /\ [what |-> what, lesson |-> l, good |-> good].what = what
BY DEF LearnerMemory

LEMMA SendStep ==
  ASSUME RoadInv, NEW r \in Requests, Mark(r) \/ Report(r) \/ Submit(r)
  PROVE  RoadInv'
<1>0. RestTyped /\ CallsTyped
  BY RoadTyped
<1>l. screen.lesson \in RoadSet
  BY DEF Mark, Report, Submit, RoadInv, RoadComesFirst
<1>1. PICK what \in {"mark", "report", "submit"}, good \in BOOLEAN :
        /\ GoesWith(r, "sent", [what |-> what, lesson |-> screen.lesson, good |-> good])
        /\ what = "submit" => screen.at = "quiz"
  BY DEF Mark, Report, Submit, Sends
<1>2. /\ CallsTyped' /\ step'[r] = "sent"
      /\ mem'[r].lesson = screen.lesson /\ mem'[r].what = what
      /\ \A q \in Requests \ {r} : step'[q] = step[q] /\ mem'[q] = mem[q]
  BY <1>0, <1>1, <1>l, MemoryOf, CallsGo DEF LearnerSteps
<1>3. /\ UNCHANGED <<facts, unseen, screen, result, breaks>>
      /\ Refetch \/ UNCHANGED roadQuery
      /\ screen.at \in {"player", "quiz"}
      /\ submitting' \in {submitting, r} /\ marked' \in {marked, TRUE}
  BY DEF Mark, Report, Submit, screens
<1>4. UNCHANGED <<road, invalid>> /\ fetching' \in Fetches /\ FetchIsTold' /\ RoadIsCurrent'
  BY <1>3, RefetchTells
<1>5. marked' \in BOOLEAN /\ submitting' \in Requests \union {Nothing}
  BY <1>0, <1>3 DEF RestTyped
<1>6. RestTyped'
  BY <1>0, <1>3, <1>4, <1>5 DEF RestTyped
<1>7. /\ road # Nothing
      /\ screen.at = "quiz" => screen.lesson \in RoadQuizzes
  BY <1>3 DEF RoadInv, RoadComesFirst
<1> QED
  BY <1>1, <1>2, <1>3, <1>4, <1>6, <1>7, RoadCalls

\* A call that goes on in the API, while nothing is recorded.
LEMMA QuietCall ==
  ASSUME RoadInv, NEW r \in Requests, step[r] \in Calls,
         NEW to \in {"read", "done"}, NEW m \in LearnerMemory, GoesWith(r, to, m),
         m.what = mem[r].what, m.lesson = mem[r].lesson,
         submitting' \in {submitting, Nothing}, breaks' \in 0..MaxBreaks,
         UNCHANGED <<facts, roadQuery, screen, marked, result, unseen>>
  PROVE  RoadInv'
<1>0. RestTyped /\ CallsTyped
  BY RoadTyped
<1>1. /\ CallsTyped' /\ step'[r] = to /\ (to # "done" => mem'[r] = m)
      /\ \A q \in Requests \ {r} : step'[q] = step[q] /\ mem'[q] = mem[q]
  BY <1>0, CallsGo DEF LearnerSteps
<1>2. UNCHANGED <<road, invalid, fetching>>
  BY DEF roadQuery
<1>3. RestTyped'
  BY <1>0, <1>2 DEF RestTyped
<1>4. FetchIsTold' /\ RoadIsCurrent'
  BY RefetchTells
<1>5. /\ road # Nothing
      /\ mem[r].what = "submit" => mem[r].lesson \in RoadQuizzes
  BY DEF RoadInv, RoadComesFirst
<1> QED
  BY <1>1, <1>2, <1>3, <1>4, <1>5, RoadCalls DEF Calls

LEMMA ReadStep ==
  ASSUME RoadInv, NEW r \in Requests, ReadRow(r) \/ Lose(r)
  PROVE  RoadInv'
<1>0. /\ step[r] \in Calls /\ mem[r] \in LearnerMemory /\ mem[r].lesson \in RoadSet
      /\ breaks \in 0..MaxBreaks
  <2>1. step[r] \in Calls
    BY DEF ReadRow, Lose, Calls
  <2> QED
    BY <2>1, LearnerMemTyped, RoadTyped DEF RoadInv, RestTyped
<1>1. UNCHANGED <<facts, roadQuery, screen, marked, result, unseen>> /\ breaks' \in 0..MaxBreaks
  BY <1>0, HandlersAssumption DEF ReadRow, Lose
<1>2. CASE Fails(r)
  <2>1. GoesWith(r, "done", mem[r]) /\ submitting' \in {submitting, Nothing}
    BY <1>2 DEF Fails, Goes
  <2> QED
    BY <1>0, <1>1, <2>1, QuietCall
<1>3. CASE /\ GoesWith(r, "read", [mem[r] EXCEPT !.good = IF mem[r].what = "report"
                                                          THEN mem[r].lesson \in facts.done ELSE @])
           /\ UNCHANGED submitting
  <2> DEFINE m == [mem[r] EXCEPT !.good = IF mem[r].what = "report"
                                          THEN mem[r].lesson \in facts.done ELSE @]
  <2> DEFINE good == IF mem[r].what = "report" THEN mem[r].lesson \in facts.done
                     ELSE mem[r].good
  <2>b. good \in BOOLEAN
    <3>1. mem[r].good \in BOOLEAN
      BY <1>0 DEF LearnerMemory
    <3>2. (mem[r].lesson \in facts.done) \in BOOLEAN
      OBVIOUS
    <3> QED
      BY <3>1, <3>2
  <2>m. m = [mem[r] EXCEPT !.good = good]
    OBVIOUS
  <2>1. m \in LearnerMemory /\ m.what = mem[r].what /\ m.lesson = mem[r].lesson
    <3> HIDE DEF good, m
    <3> QED
      BY <1>0, <2>b, <2>m DEF LearnerMemory
  <2>2. GoesWith(r, "read", m) /\ UNCHANGED submitting
    BY <1>3
  <2> HIDE DEF m
  <2> QED
    BY <1>0, <1>1, <2>1, <2>2, QuietCall
<1> QED
  BY <1>2, <1>3 DEF ReadRow, Lose

\* What a call writes are facts.
LEMMA UpsertTyped ==
  ASSUME RoadInv, NEW r \in Requests, step[r] \in Calls
  PROVE  Upserted(r) \in Facts
<1>1. /\ facts \in Facts /\ mem[r].lesson \in RoadSet
      /\ mem[r].what = "submit" => mem[r].lesson \in RoadQuizzes
  BY LearnerMemTyped, RoadTyped DEF RoadInv, RestTyped, RoadComesFirst
<1>2. CASE mem[r].what = "submit"
  <2>1. Set(facts.passed, mem[r].lesson, mem[r].good) \in SUBSET RoadQuizzes
    BY <1>1, <1>2 DEF Facts, Set
  <2> QED
    BY <1>1, <1>2, <2>1 DEF Upserted, Facts
<1>3. CASE mem[r].what # "submit"
  <2>1. Set(facts.done, mem[r].lesson, mem[r].good) \in SUBSET RoadSet
    BY <1>1 DEF Facts, Set
  <2> QED
    BY <1>1, <1>3, <2>1 DEF Upserted, Facts
<1> QED
  BY <1>2, <1>3

LEMMA WriteStep ==
  ASSUME RoadInv, NEW r \in Requests, WriteRow(r)
  PROVE  RoadInv'
<1>0. RestTyped /\ CallsTyped
  BY RoadTyped
<1>1. /\ step[r] \in Calls
      /\ facts' = Upserted(r) /\ unseen' = More(unseen, Differing(facts, Upserted(r)))
      /\ UNCHANGED <<roadQuery, screen, marked, result>>
      /\ submitting' \in {submitting, Nothing}
      /\ breaks' = breaks \/ (breaks < MaxBreaks /\ breaks' = breaks + 1)
  BY DEF WriteRow, Fails, Calls
<1>2. mem[r] \in LearnerMemory /\ Upserted(r) \in Facts
  BY <1>1, LearnerMemTyped, UpsertTyped DEF RoadInv
<1>3. PICK to \in {"answered", "done"} : GoesWith(r, to, mem[r])
  BY DEF WriteRow, Fails, Goes
<1>4. /\ CallsTyped' /\ step'[r] = to /\ (to # "done" => mem'[r] = mem[r])
      /\ \A q \in Requests \ {r} : step'[q] = step[q] /\ mem'[q] = mem[q]
  BY <1>0, <1>2, <1>3, CallsGo DEF LearnerSteps
<1>5. facts' \in Facts /\ unseen' \in Facts
  BY <1>0, <1>1, <1>2, MoreIsFacts DEF RestTyped
<1>6. breaks' \in 0..MaxBreaks
  BY <1>0, <1>1, HandlersAssumption DEF RestTyped
<1>7. UNCHANGED <<road, invalid, fetching>>
  BY <1>1 DEF roadQuery
<1>8. RestTyped'
  BY <1>0, <1>1, <1>5, <1>6, <1>7 DEF RestTyped
<1>9. \A f : Within(Differing(facts, f), unseen) => Within(Differing(facts', f), unseen')
  BY <1>1, ApartFrom
<1>10. FetchIsTold' /\ RoadIsCurrent'
  BY <1>7, <1>9 DEF RoadInv, FetchIsTold, RoadIsCurrent
<1>11. /\ road # Nothing
       /\ mem[r].what = "submit" => mem[r].lesson \in RoadQuizzes
  BY <1>1 DEF RoadInv, RoadComesFirst
<1> QED
  BY <1>1, <1>3, <1>4, <1>7, <1>8, <1>10, <1>11, RoadCalls DEF Calls

\* A call is answered, and the app is told or does not listen.
LEMMA AnswerStep ==
  ASSUME RoadInv, NEW r \in Requests, VideoAnswered(r) \/ QuizAnswered(r)
  PROVE  RoadInv'
<1>0. RestTyped /\ CallsTyped
  BY RoadTyped
<1>1. /\ step[r] \in Calls /\ GoesWith(r, "done", mem[r])
      /\ UNCHANGED <<facts, screen, marked, breaks>>
      /\ submitting' \in {submitting, Nothing}
      /\ result' \in {result, "passed", "failed"}
      /\ (Invalidate /\ unseen' = Told(r)) \/ UNCHANGED <<roadQuery, unseen>>
  BY DEF VideoAnswered, AfterVideo, QuizAnswered, Goes, Calls, screens
<1>2. mem[r] \in LearnerMemory /\ road # Nothing
  BY <1>1, LearnerMemTyped DEF RoadInv, RoadComesFirst
<1>3. /\ CallsTyped' /\ step'[r] = "done"
      /\ \A q \in Requests \ {r} : step'[q] = step[q] /\ mem'[q] = mem[q]
  BY <1>0, <1>1, <1>2, CallsGo DEF LearnerSteps, Calls
<1>4. /\ UNCHANGED road /\ invalid' \in BOOLEAN
      /\ fetching' \in Fetches /\ unseen' \in Facts /\ FetchIsTold' /\ RoadIsCurrent'
  <2>1. CASE Invalidate /\ unseen' = Told(r)
    BY <1>1, <1>2, <2>1, InvalidateTells
  <2>2. CASE UNCHANGED <<roadQuery, unseen>>
    BY <1>0, <1>1, <2>2, RefetchTells DEF RestTyped, roadQuery
  <2> QED
    BY <1>1, <2>1, <2>2
<1>5. RestTyped'
  BY <1>0, <1>1, <1>4 DEF RestTyped
<1> QED
  BY <1>1, <1>3, <1>4, <1>5, RoadCalls DEF Calls

\* The query's own steps.
LEMMA FetchSteps ==
  ASSUME RoadInv, ServeRoad \/ GotRoad \/ RoadFails
  PROVE  RoadInv'
<1>0. RestTyped /\ CallsTyped
  BY RoadTyped
<1>1. UNCHANGED <<facts, screen, marked, submitting, result, step, mem>>
  BY DEF ServeRoad, GotRoad, RoadFails, screens, handlers
<1>2. /\ fetching' \in Fetches
      /\ unseen' \in Facts /\ road' \in Facts \union {Nothing} /\ invalid' \in BOOLEAN
      /\ breaks' \in 0..MaxBreaks
      /\ road # Nothing => road' # Nothing
      /\ FetchIsTold' /\ RoadIsCurrent'
  <2>1. CASE ServeRoad
    <3>1. /\ fetching' = [at |-> "served", has |-> facts] /\ unseen' = None
          /\ UNCHANGED <<road, invalid, breaks>>
      BY <2>1 DEF ServeRoad, handlers
    <3>2. fetching' \in Fetches /\ fetching'.at = "served" /\ fetching'.has = facts
      BY <1>0, <3>1, IdleIsTyped DEF RestTyped
    <3>3. FetchIsTold' /\ RoadIsCurrent'
      BY <1>1, <3>1, <3>2, ApartAgrees DEF FetchIsTold, RoadIsCurrent
    <3> QED
      BY <1>0, <1>1, <3>1, <3>2, <3>3, NoneIsFacts DEF RestTyped
  <2>2. CASE GotRoad
    <3>1. /\ fetching.at = "served" /\ road' = fetching.has /\ invalid' = FALSE
          /\ fetching' = [at |-> "idle", has |-> None] /\ UNCHANGED <<unseen, breaks>>
      BY <2>2 DEF GotRoad, handlers
    <3>2. fetching.has \in Facts /\ unseen \in Facts
      BY <1>0 DEF RestTyped, Fetches
    <3>3. fetching' \in Fetches /\ fetching'.at = "idle"
      BY <3>1, IdleIsTyped, NoneIsFacts
    <3>4. road' # Nothing /\ invalid' \in BOOLEAN
      BY <3>1, <3>2, LearnerAssumption
    <3>5. FetchIsTold' /\ RoadIsCurrent'
      BY <1>1, <3>1, <3>3 DEF RoadInv, FetchIsTold, RoadIsCurrent
    <3> QED
      BY <1>0, <1>1, <3>1, <3>2, <3>3, <3>4, <3>5 DEF RestTyped
  <2>3. CASE RoadFails
    <3>1. /\ fetching' = [at |-> "idle", has |-> None]
          /\ unseen' = IF road = Nothing THEN unseen ELSE More(unseen, Differing(facts, road))
          /\ UNCHANGED <<road, invalid>> /\ breaks < MaxBreaks /\ breaks' = breaks + 1
      BY <2>3 DEF RoadFails
    <3>2. fetching' \in Fetches /\ fetching'.at = "idle"
      BY <3>1, IdleIsTyped, NoneIsFacts
    <3>3. FetchIsTold' /\ RoadIsCurrent'
      BY <1>1, <3>1, <3>2, ApartAgrees DEF FetchIsTold, RoadIsCurrent
    <3>4. breaks' \in 0..MaxBreaks
      BY <1>0, <3>1, HandlersAssumption DEF RestTyped
    <3>5. unseen' \in Facts
      <4>1. CASE road = Nothing
        BY <1>0, <3>1, <4>1 DEF RestTyped
      <4>2. CASE road # Nothing
        <5>1. facts \in Facts /\ road \in Facts /\ unseen \in Facts
          BY <1>0, <4>2 DEF RestTyped
        <5> QED
          BY <3>1, <4>2, <5>1, MoreIsFacts
      <4> QED
        BY <4>1, <4>2
    <3> QED
      BY <1>0, <1>1, <3>1, <3>2, <3>3, <3>4, <3>5 DEF RestTyped
  <2> QED
    BY <2>1, <2>2, <2>3
<1>3. RestTyped' /\ CallsTyped'
  BY <1>0, <1>1, <1>2 DEF RestTyped, CallsTyped
<1>4. LearnerTypeOK'
  BY <1>3, RoadTypedNext
<1>5. RoadComesFirst'
  BY <1>1, <1>2 DEF RoadInv, RoadComesFirst
<1> QED
  BY <1>2, <1>4, <1>5 DEF RoadInv

LEMMA KilledStep ==
  ASSUME RoadInv, Killed
  PROVE  RoadInv'
<1>0. RestTyped /\ CallsTyped
  BY RoadTyped
<1>1. /\ breaks < MaxBreaks /\ breaks' = breaks + 1
      /\ road' = Nothing /\ invalid' = FALSE /\ fetching' = [at |-> "idle", has |-> None]
      /\ screen' = [at |-> "home", lesson |-> 0]
      /\ marked' = FALSE /\ submitting' = Nothing /\ result' = "none"
      /\ UNCHANGED <<facts, unseen>>
  BY DEF Killed
<1>2. /\ step' = [r \in Requests |-> IF step[r] = "free" THEN "free" ELSE "done"]
      /\ mem' = [r \in Requests |-> Nothing]
  BY DEF Killed
<1>3. fetching' \in Fetches /\ fetching'.at = "idle"
  BY <1>1, IdleIsTyped, NoneIsFacts
<1>4. breaks' \in 0..MaxBreaks
  BY <1>0, <1>1, HandlersAssumption DEF RestTyped
<1>5. invalid' \in BOOLEAN /\ marked' \in BOOLEAN
  BY <1>1
<1>6. screen' \in [at : {"home", "road", "player", "quiz"}, lesson : 0..RoadLessons]
      /\ screen'.at = "home"
  BY <1>1, LearnerAssumption
<1>7. RestTyped'
  BY <1>0, <1>1, <1>3, <1>4, <1>5, <1>6 DEF RestTyped
<1>8. CallsTyped' /\ \A r \in Requests : step'[r] \in {"free", "done"}
  BY <1>2 DEF CallsTyped, LearnerSteps
<1>9. LearnerTypeOK'
  BY <1>7, <1>8, RoadTypedNext
<1>10. RoadComesFirst'
  BY <1>6, <1>8 DEF RoadComesFirst, Calls
<1>11. FetchIsTold' /\ RoadIsCurrent'
  BY <1>1, <1>3 DEF FetchIsTold, RoadIsCurrent
<1> QED
  BY <1>9, <1>10, <1>11 DEF RoadInv

LEMMA RoadInvStep == RoadInv /\ [LearnerNext]_learnerVars => RoadInv'
<1> SUFFICES ASSUME RoadInv, [LearnerNext]_learnerVars PROVE RoadInv'
  OBVIOUS
<1>1. CASE UNCHANGED learnerVars
  <2>1. UNCHANGED <<facts, road, invalid, fetching, screen, marked, submitting, result,
                    unseen, step, mem, breaks>>
    BY <1>1 DEF learnerVars, roadQuery, screens, handlers
  <2>2. LearnerTypeOK'
    BY <2>1 DEF RoadInv, LearnerTypeOK
  <2> QED
    BY <2>1, <2>2 DEF RoadInv, RoadComesFirst, FetchIsTold, RoadIsCurrent
<1>2. ASSUME NEW r \in Requests, LearnerCall(r)  PROVE RoadInv'
  BY <1>2, SendStep, ReadStep, WriteStep, AnswerStep DEF LearnerCall
<1> QED
  BY <1>1, <1>2, ScreenSteps, FetchSteps, KilledStep DEF LearnerNext

\* Type correctness (the screens of the mobile app, useCourseProgress).
THEOREM LearnerTypeCorrect == LearnerSpec => []LearnerTypeOK
<1>1. RoadInv => LearnerTypeOK
  BY DEF RoadInv
<1> QED
  BY <1>1, RoadInvInit, RoadInvStep, PTL DEF LearnerSpec

\* Unless it is fetched or to be fetched, the lesson road shows what the API
\* has recorded, no less and no more, but for what the app was not told: for any
\* course, any number of calls that overlap, retakes that fail, and any screens
\* opened, left and killed in between.
THEOREM RoadKeepsUp == LearnerSpec => []RoadIsCurrent
<1>1. RoadInv => RoadIsCurrent
  BY DEF RoadInv
<1> QED
  BY <1>1, RoadInvInit, RoadInvStep, PTL DEF LearnerSpec

-----------------------------------------------------------------------------
\* The offline queue.

DrainSteps == {"idle", "load", "got", "take", "next", "again"}
Drains == [at : DrainSteps, items : Items, item : Requests \union {Nothing}]

\* The two stores, and the requests.
QueueTyped ==
  /\ queued \in Items /\ delivered \in Items /\ gone \in Items
  /\ stored \in Items \union {Nothing} /\ writes \in Seq(Items)
  /\ loaded \in BOOLEAN /\ online \in BOOLEAN /\ wasOffline \in BOOLEAN /\ unsaved \in BOOLEAN
  /\ breaks \in 0..MaxBreaks
CallersTyped ==
  /\ step \in [Requests -> {"free", "load", "got", "push", "done"}]
  /\ DOMAIN mem = Requests
  /\ \A r \in Requests : step[r] = "got" => mem[r] \in Items \union {Nothing}
DrainTyped ==
  /\ drain \in Drains
  /\ drain.at \in {"idle", "load", "take"} => drain.items = {}
  /\ drain.at = "again" <=> drain.item # Nothing

\* Nothing is queued before the queue is loaded, and who loads it first has
\* read what is stored.
LoadedFirst ==
  /\ ~loaded => writes = <<>> /\ queued = {} /\ drain.at \in {"idle", "load", "got"}
  /\ \A r \in Requests : step[r] = "push" => loaded
  /\ ~loaded /\ ~unsaved => \A r \in Requests : step[r] = "got" => mem[r] = stored
  /\ ~loaded /\ ~unsaved /\ drain.at = "got" => drain.items = stored

\* The last write, done or to come, is of the queue.
LastIsQueue ==
  loaded /\ ~unsaved => IF writes = <<>> THEN Stored = queued ELSE writes[Len(writes)] = queued

\* The first part of QueuedIsKept.
NoneForgotten ==
  \A r \in Requests : step[r] = "done" =>
    r \in Held \union drain.items \union {drain.item} \union delivered \union gone

OfflineInv ==
  QueueTyped /\ CallersTyped /\ DrainTyped /\ LoadedFirst /\ LastIsQueue /\ NoneForgotten

\* What the invariant is for.
LEMMA OfflineInvGives == ASSUME OfflineInv PROVE OfflineTypeOK /\ QueuedIsKept
<1>1. \A i \in DOMAIN writes : writes[i] \in Items
  BY DEF OfflineInv, QueueTyped
<1>2. OfflineTypeOK
  BY <1>1 DEF OfflineInv, QueueTyped, CallersTyped, DrainTyped, Drains, DrainSteps, OfflineTypeOK
<1>3. QueuedIsKept
  BY DEF OfflineInv, NoneForgotten, LastIsQueue, QueuedIsKept
<1> QED
  BY <1>2, <1>3

LEMMA OfflineInitially == OfflineInit => OfflineInv
<1> SUFFICES ASSUME OfflineInit PROVE OfflineInv
  OBVIOUS
<1>1. drain = Idle
  BY DEF OfflineInit
<1>2. DrainTyped
  BY <1>1 DEF DrainTyped, Drains, DrainSteps, Idle, Items
<1>3. breaks \in 0..MaxBreaks
  BY HandlersAssumption DEF OfflineInit
<1>4. QueueTyped
  <2>1. writes \in Seq(Items)
    BY EmptySeq DEF OfflineInit
  <2>2. wasOffline \in BOOLEAN /\ online \in BOOLEAN
    BY Zenon DEF OfflineInit
  <2> QED
    BY <1>3, <2>1, <2>2 DEF OfflineInit, QueueTyped, Items
<1>5. CallersTyped
  BY DEF OfflineInit, CallersTyped
<1>6. LoadedFirst
  BY <1>1 DEF OfflineInit, LoadedFirst, Idle
<1>7. LastIsQueue
  BY DEF OfflineInit, LastIsQueue
<1>8. NoneForgotten
  BY DEF OfflineInit, NoneForgotten
<1> QED
  BY <1>2, <1>4, <1>5, <1>6, <1>7, <1>8 DEF OfflineInv

\* A call goes on, with what it remembers.
LEMMA CallerGoes ==
  ASSUME CallersTyped, NEW r \in Requests, NEW to \in {"load", "got", "push", "done"}, NEW m,
         to = "got" => m \in Items \union {Nothing}, GoesWith(r, to, m)
  PROVE  /\ CallersTyped' /\ step'[r] = to /\ (to # "done" => mem'[r] = m)
         /\ \A q \in Requests \ {r} : step'[q] = step[q] /\ mem'[q] = mem[q]
BY DEF CallersTyped, GoesWith

\* A queue is put after the writes that are to come.
LEMMA WritesGrow ==
  ASSUME NEW s \in Seq(Items), NEW q \in Items
  PROVE  /\ Append(s, q) \in Seq(Items) /\ Append(s, q) # <<>>
         /\ Append(s, q)[Len(Append(s, q))] = q
OBVIOUS

LEMMA NoWrites ==
  ASSUME NEW s \in Seq(Items)
  PROVE  Len(s) \in Nat /\ (s = <<>> <=> Len(s) = 0)
OBVIOUS

LEMMA WritesShrink ==
  ASSUME NEW s \in Seq(Items), s # <<>>
  PROVE  /\ Tail(s) \in Seq(Items) /\ Head(s) \in Items
         /\ Tail(s) = <<>> => Head(s) = s[Len(s)]
         /\ Tail(s) # <<>> => Tail(s)[Len(Tail(s))] = s[Len(s)]
<1> DEFINE t == Tail(s)
<1>1. /\ t \in Seq(Items) /\ Len(t) = Len(s) - 1
      /\ \A i \in 1..Len(t) : t[i] = s[i + 1]
      /\ Head(s) \in Items
  BY HeadTailProperties
<1>2. Head(s) = s[1]
  OBVIOUS
<1> HIDE DEF t
<1>3. Len(s) \in Nat /\ Len(t) \in Nat /\ (t = <<>> <=> Len(t) = 0)
  BY <1>1, NoWrites
<1>4. t = <<>> => Head(s) = s[Len(s)]
  BY <1>1, <1>2, <1>3
<1>5. t # <<>> => t[Len(t)] = s[Len(s)]
  BY <1>1, <1>3
<1> QED
  BY <1>1, <1>4, <1>5 DEF t

\* The drain's record with another field, or two.
LEMMA DrainMoves ==
  ASSUME NEW d \in Drains, NEW a \in DrainSteps
  PROVE  LET e == [d EXCEPT !.at = a] IN
            e \in Drains /\ e.at = a /\ e.items = d.items /\ e.item = d.item
BY DEF Drains
LEMMA DrainHas ==
  ASSUME NEW d \in Drains, NEW s \in Items
  PROVE  LET e == [d EXCEPT !.items = s] IN
            e \in Drains /\ e.at = d.at /\ e.items = s /\ e.item = d.item
BY DEF Drains
LEMMA DrainGets ==
  ASSUME NEW d \in Drains, NEW a \in DrainSteps, NEW s \in Items
  PROVE  LET e == [d EXCEPT !.at = a, !.items = s] IN
            e \in Drains /\ e.at = a /\ e.items = s /\ e.item = d.item
BY DEF Drains

\* A call of the app, as long as it leaves the queue alone.
LEMMA QueueProgressKeeps ==
  ASSUME OfflineInv, NEW r \in Requests, QueueProgress(r)
  PROVE  OfflineInv'
<1> DEFINE to == IF loaded THEN "push" ELSE "load"
<1>1. /\ GoesWith(r, to, mem[r]) /\ to \in {"push", "load"} /\ (to = "push" => loaded)
      /\ UNCHANGED <<queued, loaded, stored, writes, online, wasOffline, drain, delivered, gone,
                     unsaved, breaks>>
  BY DEF QueueProgress, Goes, offlineQueue
<1> HIDE DEF to
<1>2. /\ CallersTyped' /\ step'[r] = to
      /\ \A q \in Requests \ {r} : step'[q] = step[q] /\ mem'[q] = mem[q]
  BY <1>1, CallerGoes DEF OfflineInv
<1>3. LoadedFirst'
  BY <1>1, <1>2 DEF OfflineInv, LoadedFirst
<1>4. NoneForgotten'
  BY <1>1, <1>2 DEF OfflineInv, NoneForgotten, Held, Stored
<1>5. QueueTyped' /\ DrainTyped' /\ LastIsQueue'
  BY <1>1 DEF OfflineInv, QueueTyped, DrainTyped, LastIsQueue, Stored
<1> QED
  BY <1>2, <1>3, <1>4, <1>5 DEF OfflineInv

LEMMA ReadKeeps ==
  ASSUME OfflineInv, NEW r \in Requests, NEW read \in Items \union {Nothing}, GoesWith(r, "got", read),
         UNCHANGED <<queued, loaded, stored, writes, online, wasOffline, drain, delivered, gone>>,
         unsaved' = TRUE \/ (read = stored /\ UNCHANGED unsaved),
         breaks' \in 0..MaxBreaks
  PROVE  OfflineInv'
<1>1. unsaved' \in BOOLEAN
  BY DEF OfflineInv, QueueTyped
<1>2. /\ CallersTyped' /\ step'[r] = "got" /\ mem'[r] = read
      /\ \A q \in Requests \ {r} : step'[q] = step[q] /\ mem'[q] = mem[q]
  BY CallerGoes DEF OfflineInv
<1>3. LoadedFirst'
  <2>1. \A q \in Requests : step'[q] = "push" => step[q] = "push"
    BY <1>2
  <2>2. ~unsaved' => ~unsaved /\ read = stored
    BY <1>1 DEF OfflineInv, QueueTyped
  <2> QED
    BY <1>2, <2>1, <2>2 DEF OfflineInv, LoadedFirst
<1>4. NoneForgotten'
  BY <1>2 DEF OfflineInv, NoneForgotten, Held, Stored
<1>5. QueueTyped' /\ DrainTyped'
  BY <1>1 DEF OfflineInv, QueueTyped, DrainTyped
<1>6. LastIsQueue'
  BY <1>1 DEF OfflineInv, QueueTyped, LastIsQueue, Stored
<1> QED
  BY <1>2, <1>3, <1>4, <1>5, <1>6 DEF OfflineInv

LEMMA ReadQueueKeeps ==
  ASSUME OfflineInv, NEW r \in Requests, ReadQueue(r)
  PROVE  OfflineInv'
<1>1. UNCHANGED <<queued, loaded, stored, writes, online, wasOffline, drain, delivered, gone>>
  BY DEF ReadQueue, offlineQueue
<1>2. stored \in Items \union {Nothing} /\ {} \in Items /\ breaks \in 0..MaxBreaks
  BY DEF OfflineInv, QueueTyped, Items
<1>3. CASE GoesWith(r, "got", stored) /\ UNCHANGED <<unsaved, breaks>>
  <2>1. breaks' \in 0..MaxBreaks /\ UNCHANGED unsaved
    BY <1>2, <1>3
  <2> QED
    BY <1>1, <1>2, <1>3, <2>1, ReadKeeps
<1>4. CASE GoesWith(r, "got", {}) /\ ReadFails
  <2>1. breaks' \in 0..MaxBreaks /\ unsaved' = TRUE
    BY <1>2, <1>4, HandlersAssumption DEF ReadFails
  <2> QED
    BY <1>1, <1>2, <1>4, <2>1, ReadKeeps
<1> QED
  BY <1>3, <1>4 DEF ReadQueue

\* What is read is the queue, and what it replaces is gone.
LEMMA LoadKeeps ==
  ASSUME OfflineInv, NEW read \in Items \union {Nothing}, ~loaded /\ ~unsaved => read = stored,
         Load(read), UNCHANGED <<stored, writes, online, wasOffline, delivered, breaks>>
  PROVE  /\ QueueTyped' /\ LastIsQueue' /\ loaded'
         /\ Held \subseteq Held' \union delivered \union gone' /\ gone \subseteq gone'
<1>1. /\ loaded' = TRUE /\ unsaved' = (unsaved \/ loaded)
      /\ queued' = IF read = Nothing THEN queued ELSE read
      /\ gone' = gone \union ((Held \ queued') \ delivered)
  BY DEF Load
<1>2. queued' \in Items /\ gone' \in Items /\ gone \subseteq gone'
  <2>1. Held \in Items
    BY DEF OfflineInv, QueueTyped, Items, Held, Stored
  <2> QED
    BY <1>1, <2>1 DEF OfflineInv, QueueTyped, Items
<1>3. unsaved' \in BOOLEAN
  BY <1>1 DEF OfflineInv, QueueTyped
<1>4. QueueTyped'
  BY <1>1, <1>2, <1>3 DEF OfflineInv, QueueTyped
<1>5. Held \subseteq Held' \union delivered \union gone'
  BY <1>1 DEF Held
<1>6. CASE loaded \/ unsaved
  <2>1. unsaved' = TRUE
    BY <1>1, <1>6 DEF OfflineInv, QueueTyped
  <2> QED
    BY <1>1, <1>2, <1>4, <1>5, <2>1 DEF LastIsQueue
<1>7. CASE ~loaded /\ ~unsaved
  <2>1. writes = <<>> /\ queued = {} /\ read = stored
    BY <1>7 DEF OfflineInv, LoadedFirst
  <2>2. queued' = Stored /\ Stored' = Stored
    BY <1>1, <2>1 DEF Stored
  <2> QED
    BY <1>1, <1>2, <1>4, <1>5, <2>1, <2>2 DEF LastIsQueue
<1> QED
  BY <1>6, <1>7

LEMMA LoadQueueKeeps ==
  ASSUME OfflineInv, NEW r \in Requests, LoadQueue(r)
  PROVE  OfflineInv'
<1>1. /\ Load(mem[r]) /\ GoesWith(r, "push", mem[r]) /\ step[r] = "got"
      /\ UNCHANGED <<stored, writes, online, wasOffline, drain, delivered, breaks>>
  BY DEF LoadQueue, Goes
<1>2. mem[r] \in Items \union {Nothing} /\ (~loaded /\ ~unsaved => mem[r] = stored)
  BY <1>1 DEF OfflineInv, CallersTyped, LoadedFirst
<1>3. /\ QueueTyped' /\ LastIsQueue' /\ loaded'
      /\ Held \subseteq Held' \union delivered \union gone' /\ gone \subseteq gone'
  BY <1>1, <1>2, LoadKeeps
<1>4. /\ CallersTyped' /\ step'[r] = "push"
      /\ \A q \in Requests \ {r} : step'[q] = step[q] /\ mem'[q] = mem[q]
  BY <1>1, CallerGoes DEF OfflineInv
<1>5. LoadedFirst'
  BY <1>3, <1>4 DEF LoadedFirst
<1>6. NoneForgotten'
  BY <1>1, <1>3, <1>4 DEF OfflineInv, NoneForgotten
<1>7. DrainTyped'
  BY <1>1 DEF OfflineInv, DrainTyped
<1> QED
  BY <1>3, <1>4, <1>5, <1>6, <1>7 DEF OfflineInv

\* The queue gets items, and a write of it follows.
LEMMA PushKeeps ==
  ASSUME OfflineInv, loaded, NEW items \in Items, Push(items),
         UNCHANGED <<loaded, stored, online, wasOffline, delivered, gone, unsaved, breaks>>
  PROVE  /\ QueueTyped' /\ LastIsQueue' /\ Held' = Held \union items
<1>1. /\ queued' = queued \union items /\ writes' = Append(writes, queued')
      /\ queued' \in Items /\ writes \in Seq(Items)
  BY DEF Push, OfflineInv, QueueTyped, Items
<1>2. /\ writes' \in Seq(Items) /\ writes' # <<>> /\ writes'[Len(writes')] = queued'
  BY <1>1, WritesGrow
<1> QED
  BY <1>1, <1>2 DEF OfflineInv, QueueTyped, LastIsQueue, Held

LEMMA PushItemKeeps ==
  ASSUME OfflineInv, NEW r \in Requests, PushItem(r)
  PROVE  OfflineInv'
<1>1. /\ Push({r}) /\ GoesWith(r, "done", mem[r]) /\ step[r] = "push"
      /\ UNCHANGED <<loaded, stored, online, wasOffline, drain, delivered, gone, unsaved, breaks>>
  BY DEF PushItem, Goes
<1>2. loaded /\ {r} \in Items
  BY <1>1 DEF OfflineInv, LoadedFirst, Items
<1>3. /\ QueueTyped' /\ LastIsQueue' /\ Held' = Held \union {r}
  BY <1>1, <1>2, PushKeeps
<1>4. /\ CallersTyped' /\ step'[r] = "done"
      /\ \A q \in Requests \ {r} : step'[q] = step[q] /\ mem'[q] = mem[q]
  BY <1>1, CallerGoes DEF OfflineInv
<1>5. LoadedFirst'
  BY <1>1, <1>2, <1>4 DEF OfflineInv, LoadedFirst
<1>6. NoneForgotten'
  BY <1>1, <1>3, <1>4 DEF OfflineInv, NoneForgotten
<1>7. DrainTyped'
  BY <1>1 DEF OfflineInv, DrainTyped
<1> QED
  BY <1>3, <1>4, <1>5, <1>6, <1>7 DEF OfflineInv

\* The storage: the write that is done is the first, and the last is of the queue.
LEMMA PersistKeeps == ASSUME OfflineInv, Persist PROVE OfflineInv'
<1>1. /\ writes # <<>> /\ writes' = Tail(writes) /\ writes \in Seq(Items)
      /\ UNCHANGED <<queued, loaded, online, wasOffline, drain, delivered, gone, step, mem>>
      /\ loaded
  BY DEF Persist, OfflineInv, QueueTyped, LoadedFirst
<1>2. /\ writes' \in Seq(Items) /\ Head(writes) \in Items
      /\ writes' = <<>> => Head(writes) = writes[Len(writes)]
      /\ writes' # <<>> => writes'[Len(writes')] = writes[Len(writes)]
  BY <1>1, WritesShrink
<1>3. stored' \in Items \union {Nothing} /\ unsaved' \in BOOLEAN /\ breaks' \in 0..MaxBreaks
  <2>1. /\ stored \in Items \union {Nothing} /\ unsaved \in BOOLEAN /\ breaks \in 0..MaxBreaks
    BY DEF OfflineInv, QueueTyped
  <2>2. CASE stored' = Head(writes) /\ UNCHANGED <<unsaved, breaks>>
    BY <1>2, <2>1, <2>2
  <2>3. CASE breaks < MaxBreaks /\ breaks' = breaks + 1 /\ unsaved' = TRUE /\ UNCHANGED stored
    BY <2>1, <2>3, HandlersAssumption
  <2> QED
    BY <2>2, <2>3 DEF Persist
<1>4. QueueTyped'
  BY <1>1, <1>2, <1>3 DEF OfflineInv, QueueTyped
<1>5. LastIsQueue'
  <2>1. CASE unsaved' = TRUE
    BY <2>1 DEF LastIsQueue
  <2>2. CASE stored' = Head(writes) /\ UNCHANGED unsaved
    <3>1. stored' # Nothing
      BY <1>2, <2>2, OfflineAssumption
    <3>2. Stored' = Head(writes)
      BY <2>2, <3>1 DEF Stored
    <3> QED
      BY <1>1, <1>2, <2>2, <3>2 DEF OfflineInv, LastIsQueue
  <2> QED
    BY <2>1, <2>2 DEF Persist
<1>6. LoadedFirst'
  BY <1>1 DEF OfflineInv, LoadedFirst
<1>7. NoneForgotten' /\ DrainTyped' /\ CallersTyped'
  BY <1>1 DEF OfflineInv, NoneForgotten, Held, DrainTyped, CallersTyped
<1> QED
  BY <1>4, <1>5, <1>6, <1>7 DEF OfflineInv

\* The network.
LEMMA OfflineKeeps == ASSUME OfflineInv, Offline PROVE OfflineInv'
<1>1. /\ online' = FALSE /\ wasOffline' = TRUE
      /\ UNCHANGED <<queued, loaded, stored, writes, drain, delivered, gone, unsaved, step, mem,
                     breaks>>
  BY DEF Offline, offlineQueue, handlers
<1>2. QueueTyped'
  BY <1>1 DEF OfflineInv, QueueTyped
<1>3. LoadedFirst' /\ LastIsQueue' /\ NoneForgotten' /\ DrainTyped' /\ CallersTyped'
  BY <1>1 DEF OfflineInv, LoadedFirst, LastIsQueue, Stored, NoneForgotten, Held, DrainTyped,
              CallersTyped
<1> QED
  BY <1>2, <1>3 DEF OfflineInv

\* The drain's record of its beginnings.
LEMMA DrainIdle ==
  Idle \in Drains /\ Idle.at = "idle" /\ Idle.items = {} /\ Idle.item = Nothing
BY DEF Idle, Drains, DrainSteps, Items

LEMMA OnlineKeeps == ASSUME OfflineInv, Online PROVE OfflineInv'
<1>1. /\ online' = TRUE /\ wasOffline' \in {wasOffline, FALSE}
      /\ UNCHANGED <<queued, loaded, stored, writes, delivered, gone, unsaved, step, mem, breaks>>
  BY DEF Online, offlineQueue, handlers
<1>2. QueueTyped'
  BY <1>1 DEF OfflineInv, QueueTyped
<1>3. LastIsQueue' /\ CallersTyped'
  BY <1>1 DEF OfflineInv, LastIsQueue, Stored, CallersTyped
<1>4. CASE UNCHANGED drain
  BY <1>1, <1>2, <1>3, <1>4
  DEF OfflineInv, LoadedFirst, NoneForgotten, Held, Stored, DrainTyped
<1>5. CASE drain = Idle /\ drain' = [Idle EXCEPT !.at = IF loaded THEN "take" ELSE "load"]
  <2> DEFINE a == IF loaded THEN "take" ELSE "load"
  <2>1. a \in DrainSteps /\ a \in {"take", "load"} /\ (a = "take" => loaded) /\ {} \in Items
    BY DEF DrainSteps, Items
  <2>2. drain' = [Idle EXCEPT !.at = a]
    BY <1>5
  <2> HIDE DEF a
  <2>3. /\ drain' \in Drains /\ drain'.at = a /\ drain'.items = {} /\ drain'.item = Nothing
        /\ drain.items = {} /\ drain.item = Nothing
    BY <1>5, <2>1, <2>2, DrainIdle, DrainMoves
  <2>4. DrainTyped'
    BY <2>1, <2>3 DEF DrainTyped
  <2>5. LoadedFirst'
    BY <1>1, <2>1, <2>3 DEF OfflineInv, LoadedFirst
  <2>6. NoneForgotten'
    BY <1>1, <2>3 DEF OfflineInv, NoneForgotten, Held, Stored
  <2> QED
    BY <1>2, <1>3, <2>4, <2>5, <2>6 DEF OfflineInv
<1> QED
  BY <1>4, <1>5 DEF Online

\* The drain reads what is stored.
LEMMA DrainReadsKeeps == ASSUME OfflineInv, DrainReads PROVE OfflineInv'
<1>1. /\ drain.at = "load" /\ drain \in Drains /\ drain.items = {} /\ drain.item = Nothing
      /\ UNCHANGED <<queued, stored, writes, online, wasOffline, delivered, gone, step, mem>>
      /\ stored \in Items \union {Nothing} /\ {} \in Items
  BY DEF DrainReads, OfflineInv, DrainTyped, QueueTyped, Items
<1>2. CallersTyped'
  BY <1>1 DEF OfflineInv, CallersTyped
<1>3. CASE /\ stored = Nothing /\ drain' = [drain EXCEPT !.at = "take"] /\ loaded' = TRUE
           /\ unsaved' = (unsaved \/ loaded) /\ UNCHANGED breaks
  <2>1. "take" \in DrainSteps
    BY DEF DrainSteps
  <2>2. /\ drain' \in Drains /\ drain'.at = "take" /\ drain'.items = {} /\ drain'.item = Nothing
    BY <1>1, <1>3, <2>1, DrainMoves
  <2>3. unsaved' \in BOOLEAN
    BY <1>3 DEF OfflineInv, QueueTyped
  <2>4. QueueTyped'
    BY <1>1, <1>3, <2>3 DEF OfflineInv, QueueTyped
  <2>5. DrainTyped'
    BY <2>2 DEF DrainTyped
  <2>6. LoadedFirst'
    BY <1>3 DEF LoadedFirst
  <2>7. LastIsQueue'
    BY <1>1, <1>3 DEF OfflineInv, LoadedFirst, LastIsQueue, Stored
  <2>8. NoneForgotten'
    BY <1>1, <1>3, <2>2 DEF OfflineInv, LoadedFirst, NoneForgotten, Held, Stored
  <2> QED
    BY <1>2, <2>4, <2>5, <2>6, <2>7, <2>8 DEF OfflineInv
<1>4. CASE /\ stored # Nothing /\ drain' = [drain EXCEPT !.at = "got", !.items = stored]
           /\ UNCHANGED <<loaded, unsaved, breaks>>
  <2>1. "got" \in DrainSteps /\ stored \in Items
    BY <1>1, <1>4 DEF DrainSteps
  <2>2. /\ drain' \in Drains /\ drain'.at = "got" /\ drain'.items = stored
        /\ drain'.item = Nothing
    <3> DEFINE e == [drain EXCEPT !.at = "got", !.items = stored]
    <3>1. e \in Drains /\ e.at = "got" /\ e.items = stored /\ e.item = drain.item
      BY <1>1, <2>1, DrainGets
    <3>2. drain' = e
      BY <1>4
    <3> HIDE DEF e
    <3> QED
      BY <1>1, <3>1, <3>2
  <2>3. QueueTyped' /\ LastIsQueue'
    BY <1>1, <1>4 DEF OfflineInv, QueueTyped, LastIsQueue, Stored
  <2>4. DrainTyped'
    BY <2>2 DEF DrainTyped
  <2>5. LoadedFirst'
    BY <1>1, <1>4, <2>2 DEF OfflineInv, LoadedFirst
  <2>6. NoneForgotten'
    BY <1>1, <1>4, <2>2 DEF OfflineInv, NoneForgotten, Held, Stored
  <2> QED
    BY <1>2, <2>3, <2>4, <2>5, <2>6 DEF OfflineInv
<1>5. CASE ReadFails /\ drain' = [drain EXCEPT !.at = "got"] /\ UNCHANGED loaded
  <2>1. "got" \in DrainSteps
    BY DEF DrainSteps
  <2>2. drain' \in Drains /\ drain'.at = "got" /\ drain'.items = {} /\ drain'.item = Nothing
    BY <1>1, <1>5, <2>1, DrainMoves
  <2>3. unsaved' = TRUE /\ breaks' \in 0..MaxBreaks
    BY <1>5, HandlersAssumption DEF ReadFails, OfflineInv, QueueTyped
  <2>4. QueueTyped' /\ LastIsQueue'
    BY <1>1, <1>5, <2>3 DEF OfflineInv, QueueTyped, LastIsQueue
  <2>5. DrainTyped'
    BY <2>2 DEF DrainTyped
  <2>6. LoadedFirst'
    BY <1>1, <1>5, <2>2, <2>3 DEF OfflineInv, LoadedFirst
  <2>7. NoneForgotten'
    BY <1>1, <1>5, <2>2 DEF OfflineInv, NoneForgotten, Held, Stored
  <2> QED
    BY <1>2, <2>4, <2>5, <2>6, <2>7 DEF OfflineInv
<1> QED
  BY <1>3, <1>4, <1>5 DEF DrainReads

\* It loads what it read: what it does not keep for itself is in the queue or gone.
LEMMA DrainLoadsKeeps == ASSUME OfflineInv, DrainLoads PROVE OfflineInv'
<1>1. /\ drain.at = "got" /\ Load(drain.items) /\ drain' = [Idle EXCEPT !.at = "take"]
      /\ UNCHANGED <<stored, writes, online, wasOffline, delivered, step, mem, breaks>>
      /\ drain.items \in Items /\ drain.item = Nothing
  BY DEF DrainLoads, handlers, OfflineInv, DrainTyped, Drains
<1>2. ~loaded /\ ~unsaved => drain.items = stored
  BY <1>1 DEF OfflineInv, LoadedFirst
<1>3. /\ QueueTyped' /\ LastIsQueue' /\ loaded'
      /\ Held \subseteq Held' \union delivered \union gone' /\ gone \subseteq gone'
  BY <1>1, <1>2, LoadKeeps
<1>4. drain.items \subseteq Held'
  BY <1>1, <1>3, OfflineAssumption DEF Load, Held
<1>5. "take" \in DrainSteps /\ {} \in Items
  BY DEF DrainSteps, Items
<1>6. /\ drain' \in Drains /\ drain'.at = "take" /\ drain'.items = {} /\ drain'.item = Nothing
  BY <1>1, <1>5, DrainIdle, DrainMoves
<1>7. DrainTyped'
  BY <1>6 DEF DrainTyped
<1>8. LoadedFirst' /\ CallersTyped'
  BY <1>1, <1>3 DEF OfflineInv, LoadedFirst, CallersTyped
<1>9. NoneForgotten'
  BY <1>1, <1>3, <1>4, <1>6 DEF OfflineInv, NoneForgotten
<1> QED
  BY <1>3, <1>7, <1>8, <1>9 DEF OfflineInv

\* It takes the queue's items, and replays them.
LEMMA TakeKeeps == ASSUME OfflineInv, Take PROVE OfflineInv'
<1>1. /\ drain.at = "take" /\ queued' = {} /\ writes' = Append(writes, queued')
      /\ drain' = IF queued = {} THEN Idle ELSE [Idle EXCEPT !.at = "next", !.items = queued]
      /\ UNCHANGED <<loaded, stored, online, wasOffline, delivered, gone, unsaved, step, mem,
                     breaks>>
  BY DEF Take, handlers
<1>2. /\ loaded /\ drain.items = {} /\ drain.item = Nothing
      /\ queued \in Items /\ queued' \in Items /\ writes \in Seq(Items)
  BY <1>1 DEF OfflineInv, LoadedFirst, DrainTyped, QueueTyped, Items
<1>3. writes' \in Seq(Items) /\ writes' # <<>> /\ writes'[Len(writes')] = queued'
  BY <1>1, <1>2, WritesGrow
<1>4. QueueTyped' /\ LastIsQueue'
  BY <1>1, <1>2, <1>3 DEF OfflineInv, QueueTyped, LastIsQueue
<1>5. /\ drain' \in Drains /\ drain'.at \in {"idle", "next"} /\ drain'.items = queued
      /\ drain'.item = Nothing
  <2>1. CASE queued = {}
    BY <1>1, <2>1, DrainIdle
  <2>2. CASE queued # {}
    <3> DEFINE e == [Idle EXCEPT !.at = "next", !.items = queued]
    <3>1. "next" \in DrainSteps /\ queued \in Items /\ Idle \in Drains
      BY <1>2, DrainIdle DEF DrainSteps
    <3>2. e \in Drains /\ e.at = "next" /\ e.items = queued /\ e.item = Idle.item
      BY <3>1 DEF Drains
    <3>3. drain' = e
      BY <1>1, <2>2
    <3> HIDE DEF e
    <3> QED
      BY <3>2, <3>3, DrainIdle
  <2> QED
    BY <2>1, <2>2
<1>6. drain'.at = "idle" => drain'.items = {}
  <2>1. CASE queued = {}
    BY <1>5, <2>1
  <2>2. CASE queued # {}
    <3> DEFINE e == [Idle EXCEPT !.at = "next", !.items = queued]
    <3>1. "next" \in DrainSteps
      BY DEF DrainSteps
    <3>2. e.at = "next"
      BY <1>2, <3>1, DrainIdle, DrainGets
    <3>3. drain' = e
      BY <1>1, <2>2
    <3> HIDE DEF e
    <3> QED
      BY <3>2, <3>3
  <2> QED
    BY <2>1, <2>2
<1>7. DrainTyped'
  BY <1>5, <1>6 DEF DrainTyped
<1>8. LoadedFirst' /\ CallersTyped'
  BY <1>1, <1>2 DEF OfflineInv, LoadedFirst, CallersTyped
<1>9. NoneForgotten'
  BY <1>1, <1>2, <1>5 DEF OfflineInv, NoneForgotten, Held
<1> QED
  BY <1>4, <1>7, <1>8, <1>9 DEF OfflineInv

\* A drain that goes on with r delivered, or kept as the item to queue again.
LEMMA ReplayItemKeeps ==
  ASSUME OfflineInv, NEW r \in Requests, ReplayItem(r)
  PROVE  OfflineInv'
<1>1. /\ drain.at = "next" /\ r \in drain.items /\ drain \in Drains /\ drain.item = Nothing
      /\ drain.items \in Items /\ (drain.items \ {r}) \in Items /\ loaded
      /\ UNCHANGED <<queued, loaded, stored, writes, online, wasOffline, gone, unsaved, step, mem>>
  BY DEF ReplayItem, offlineQueue, OfflineInv, DrainTyped, Drains, Items, LoadedFirst
<1>2. /\ delivered' \in {delivered, delivered \union {r}} /\ delivered' \in Items
      /\ breaks' \in {breaks, breaks + 1} /\ breaks' \in 0..MaxBreaks
  <2>1. delivered' \in {delivered, delivered \union {r}}
    BY DEF ReplayItem
  <2>2. breaks' = breaks \/ (breaks < MaxBreaks /\ breaks' = breaks + 1)
    BY DEF ReplayItem
  <2>3. delivered \in Items /\ breaks \in 0..MaxBreaks
    BY DEF OfflineInv, QueueTyped
  <2>4. delivered' \in Items
    BY <2>1, <2>3 DEF Items
  <2> QED
    BY <2>1, <2>2, <2>3, <2>4, HandlersAssumption
<1>3. QueueTyped' /\ LastIsQueue' /\ CallersTyped' /\ LoadedFirst'
  BY <1>1, <1>2
  DEF OfflineInv, QueueTyped, LastIsQueue, Stored, CallersTyped, LoadedFirst
<1>4. Held' = Held
  BY <1>1 DEF Held, Stored
<1>5. CASE /\ delivered' = delivered \union {r}
           /\ drain' = IF drain.items = {r} THEN Idle ELSE [drain EXCEPT !.items = @ \ {r}]
  <2>1. /\ drain' \in Drains /\ drain'.items = drain.items \ {r} /\ drain'.item = Nothing
        /\ drain'.at = "next" \/ (drain'.at = "idle" /\ drain'.items = {})
    <3>1. CASE drain.items = {r}
      BY <1>5, <3>1, DrainIdle
    <3>2. CASE drain.items # {r}
      <4> DEFINE e == [drain EXCEPT !.items = drain.items \ {r}]
      <4>1. e \in Drains /\ e.at = "next" /\ e.items = drain.items \ {r} /\ e.item = Nothing
        BY <1>1, DrainHas
      <4>2. drain' = e
        BY <1>5, <3>2
      <4> HIDE DEF e
      <4> QED
        BY <4>1, <4>2
    <3> QED
      BY <3>1, <3>2
  <2>2. DrainTyped'
    BY <2>1 DEF DrainTyped
  <2>3. NoneForgotten'
    BY <1>1, <1>4, <1>5, <2>1 DEF OfflineInv, NoneForgotten
  <2> QED
    BY <1>3, <2>2, <2>3 DEF OfflineInv
<1>6. CASE Requeued(r)
  <2>1. /\ drain' \in Drains /\ drain'.items = drain.items \ {r} /\ drain'.item = r
        /\ drain'.at = "again"
    <3> DEFINE e == [drain EXCEPT !.at = "again", !.items = drain.items \ {r}, !.item = r]
    <3>1. /\ "again" \in DrainSteps /\ r \in Requests \union {Nothing}
          /\ drain \in Drains /\ (drain.items \ {r}) \in Items
      BY <1>1 DEF DrainSteps
    <3>2. e \in Drains /\ e.at = "again" /\ e.items = drain.items \ {r} /\ e.item = r
      BY <3>1 DEF Drains
    <3>3. drain' = e
      BY <1>6 DEF Requeued
    <3> HIDE DEF e
    <3> QED
      BY <3>2, <3>3
  <2>2. DrainTyped'
    BY <2>1, HandlersAssumption DEF DrainTyped
  <2>3. NoneForgotten'
    BY <1>1, <1>2, <1>4, <2>1, HandlersAssumption DEF OfflineInv, NoneForgotten
  <2> QED
    BY <1>3, <2>2, <2>3 DEF OfflineInv
<1> QED
  BY <1>5, <1>6 DEF ReplayItem

LEMMA PushAgainKeeps == ASSUME OfflineInv, PushAgain PROVE OfflineInv'
<1>1. /\ drain.at = "again" /\ Push({drain.item}) /\ drain \in Drains
      /\ drain' = IF drain.items = {} THEN Idle
                  ELSE [drain EXCEPT !.at = "next", !.item = Nothing]
      /\ drain.item \in Requests /\ {drain.item} \in Items /\ loaded
      /\ UNCHANGED <<loaded, stored, online, wasOffline, delivered, gone, unsaved, step, mem, breaks>>
  BY DEF PushAgain, handlers, OfflineInv, DrainTyped, Drains, Items, LoadedFirst
<1>2. /\ QueueTyped' /\ LastIsQueue' /\ Held' = Held \union {drain.item}
  BY <1>1, PushKeeps
<1>3. /\ drain' \in Drains /\ drain'.items = drain.items /\ drain'.item = Nothing
      /\ drain'.at = "next" \/ (drain'.at = "idle" /\ drain'.items = {})
  <2>1. CASE drain.items = {}
    BY <1>1, <2>1, DrainIdle
  <2>2. CASE drain.items # {}
    <3> DEFINE e == [drain EXCEPT !.at = "next", !.item = Nothing]
    <3>1. "next" \in DrainSteps /\ Nothing \in Requests \union {Nothing} /\ drain \in Drains
      BY <1>1 DEF DrainSteps
    <3>2. e \in Drains /\ e.at = "next" /\ e.items = drain.items /\ e.item = Nothing
      BY <3>1 DEF Drains
    <3>3. drain' = e
      BY <1>1, <2>2
    <3> HIDE DEF e
    <3> QED
      BY <3>2, <3>3
  <2> QED
    BY <2>1, <2>2
<1>4. DrainTyped'
  BY <1>3 DEF DrainTyped
<1>5. LoadedFirst' /\ CallersTyped'
  BY <1>1 DEF OfflineInv, LoadedFirst, CallersTyped
<1>6. NoneForgotten'
  BY <1>1, <1>2, <1>3 DEF OfflineInv, NoneForgotten
<1> QED
  BY <1>2, <1>4, <1>5, <1>6 DEF OfflineInv

\* The app is killed: what it had and the storage does not is gone.
LEMMA KillKeeps == ASSUME OfflineInv, Kill PROVE OfflineInv'
<1> DEFINE had == queued \union drain.items \union {drain.item}
                    \union {r \in Requests : step[r] \in {"load", "got", "push"}}
           lost == (had \intersect Requests) \ (delivered \union Stored)
<1>1. /\ breaks < MaxBreaks /\ breaks' = breaks + 1 /\ gone' = gone \union lost
      /\ queued' = {} /\ loaded' = FALSE /\ writes' = <<>> /\ drain' = Idle
      /\ wasOffline' = ~online
      /\ step' = [r \in Requests |-> IF step[r] = "free" THEN "free" ELSE "done"]
      /\ mem' = [r \in Requests |-> Nothing]
      /\ unsaved' = FALSE /\ UNCHANGED <<stored, online, delivered>>
  BY DEF Kill
<1>2. /\ \A r \in Requests : r \in lost <=> /\ r \notin delivered \union Stored
                                           /\ \/ r \in queued \union drain.items \union {drain.item}
                                              \/ step[r] \in {"load", "got", "push"}
      /\ lost \subseteq Requests
  OBVIOUS
<1> HIDE DEF lost, had
<1>3. breaks' \in 0..MaxBreaks
  BY <1>1, HandlersAssumption DEF OfflineInv, QueueTyped
<1>4. writes' \in Seq(Items)
  BY <1>1, EmptySeq
<1>5. gone' \in Items /\ queued' \in Items
  BY <1>1, <1>2 DEF OfflineInv, QueueTyped, Items
<1>6. wasOffline' \in BOOLEAN
  BY <1>1
<1>7. QueueTyped'
  BY <1>1, <1>3, <1>4, <1>5, <1>6 DEF OfflineInv, QueueTyped
<1>8. CallersTyped'
  BY <1>1 DEF OfflineInv, CallersTyped
<1>9. DrainTyped'
  BY <1>1, DrainIdle DEF DrainTyped
<1>10. LoadedFirst'
  BY <1>1, DrainIdle DEF LoadedFirst
<1>11. LastIsQueue'
  BY <1>1 DEF LastIsQueue
<1>12. NoneForgotten'
  <2>1. Held' = Stored
    BY <1>1 DEF Held, Stored
  <2> SUFFICES ASSUME NEW r \in Requests, step[r] # "free"
               PROVE  r \in Stored \union delivered \union gone'
    BY <1>1, <2>1 DEF NoneForgotten
  <2>2. step[r] \in {"load", "got", "push", "done"}
    BY DEF OfflineInv, CallersTyped
  <2>3. CASE step[r] = "done"
    <3>1. r \in Held \union drain.items \union {drain.item} \union delivered \union gone
      BY <2>3 DEF OfflineInv, NoneForgotten
    <3>2. Held \in {queued, Stored}
      BY DEF Held
    <3> QED
      BY <1>1, <1>2, <3>1, <3>2
  <2> QED
    BY <1>1, <1>2, <2>2, <2>3
<1> QED
  BY <1>7, <1>8, <1>9, <1>10, <1>11, <1>12 DEF OfflineInv

LEMMA OfflineStep == OfflineInv /\ [OfflineNext]_offlineVars => OfflineInv'
<1> SUFFICES ASSUME OfflineInv, [OfflineNext]_offlineVars PROVE OfflineInv'
  OBVIOUS
<1>1. ASSUME NEW r \in Requests,
             QueueProgress(r) \/ ReadQueue(r) \/ LoadQueue(r) \/ PushItem(r) \/ ReplayItem(r)
      PROVE  OfflineInv'
  BY <1>1, QueueProgressKeeps, ReadQueueKeeps, LoadQueueKeeps, PushItemKeeps, ReplayItemKeeps
<1>2. CASE Persist \/ Offline \/ Online \/ DrainReads \/ DrainLoads \/ Take \/ PushAgain \/ Kill
  BY <1>2, PersistKeeps, OfflineKeeps, OnlineKeeps, DrainReadsKeeps, DrainLoadsKeeps, TakeKeeps,
     PushAgainKeeps, KillKeeps
<1>3. CASE UNCHANGED offlineVars
  BY <1>3
  DEF offlineVars, offlineQueue, handlers, OfflineInv, QueueTyped, CallersTyped, DrainTyped,
      LoadedFirst, LastIsQueue, Stored, NoneForgotten, Held
<1> QED
  BY <1>1, <1>2, <1>3 DEF OfflineNext, RestOffline

\* The module's queue, the storage and the drain hold what they should.
THEOREM OfflineTypeCorrect == OfflineSpec => []OfflineTypeOK
<1>1. OfflineSpec => []OfflineInv
  BY OfflineInitially, OfflineStep, PTL DEF OfflineSpec
<1> QED
  BY <1>1, OfflineInvGives, PTL

\* No item of progress is forgotten, but with the app, by a second load or by
\* a failed read, and the storage ends with the queue (offlineProgressQueue).
THEOREM OfflineProgressIsKept == OfflineSpec => []QueuedIsKept
<1>1. OfflineSpec => []OfflineInv
  BY OfflineInitially, OfflineStep, PTL DEF OfflineSpec
<1> QED
  BY <1>1, OfflineInvGives, PTL
=============================================================================
