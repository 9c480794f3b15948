------------------------------ MODULE LessonRoad ------------------------------
(***************************************************************************)
(* The geometry of the lesson road of apps/mobile (LessonRoad.geometry):   *)
(* where the nodes of the lessons, their labels and the goal are, for the  *)
(* width of the screen and the number of lessons, and which stretches of   *)
(* the road are lit.                                                       *)
(*                                                                         *)
(* Lengths are in hundredths of a pixel, to which the code rounds: in them *)
(* all of its quotients are whole.  The width that the layout reports is   *)
(* rounded to a pixel.  What the layout engine makes of the positions is   *)
(* left out.                                                               *)
(***************************************************************************)
EXTENDS Integers, FiniteSets

CONSTANTS
  ScreenWidths,  \* widths that the road's container may have, in pixels
  MaxNodes       \* bound: lessons of the course

ASSUME LessonRoadAssumption == ScreenWidths \subseteq Nat /\ MaxNodes \in Nat

VARIABLES
  containerWidth,  \* what onLayout told, in pixels
  nodeCount,       \* lessons on the road
  doneNodes        \* those of them that are completed: lesson i is node i

roadVars == <<containerWidth, nodeCount, doneNodes>>

\* Before the first layout the width is 0.
LessonRoadTypeOK ==
  /\ containerWidth \in ScreenWidths \union {0}
  /\ nodeCount \in 0..MaxNodes
  /\ doneNodes \subseteq 0..nodeCount - 1

AtLeast(a, b) == IF b < a THEN a ELSE b
AtMost(a, b) == IF a < b THEN a ELSE b

-----------------------------------------------------------------------------
\* buildRoadModel.

Hundredths(px) == 100 * px

ContentWidth(container) == AtLeast(Hundredths(240), Hundredths(container - 2 * 20))
Centre(w) == w \div 2

\* How far the nodes are from the centre line, at the side of which the labels
\* have their place if there is enough.
RawSway(w) == AtMost(Hundredths(96), AtLeast(Hundredths(24), (15 * w) \div 100))
LabelGap == Hundredths(10)
SideLabelWidth(w) == Centre(w) - RawSway(w) - Hundredths(32) - LabelGap

\* Mutant of Mode: the gap is not counted.
ModeTight(w) == IF SideLabelWidth(w) + LabelGap >= Hundredths(62) THEN "side" ELSE "compact"

Mode(w) == IF SideLabelWidth(w) >= Hundredths(72) THEN "side" ELSE "compact"

NodeSize(w) == IF Mode(w) = "side" THEN Hundredths(64) ELSE Hundredths(56)
RowHeight(w) == IF Mode(w) = "side" THEN Hundredths(132) ELSE Hundredths(164)
GoalDrop(w) == IF Mode(w) = "side" THEN Hundredths(96) ELSE Hundredths(88)
Sway(w) == IF Mode(w) = "side" THEN RawSway(w) ELSE 0

OnTheRight(i) == i % 2 = 0
NodeX(w, i) == IF OnTheRight(i) THEN Centre(w) + Sway(w) ELSE Centre(w) - Sway(w)
NodeY(w, i) == i * RowHeight(w) + RowHeight(w) \div 2

LabelWidth(w) ==
  IF Mode(w) = "side" THEN Centre(w) - Sway(w) - NodeSize(w) \div 2 - LabelGap
  ELSE AtMost(w - Hundredths(24), Hundredths(260))

\* A label is on the other side of the centre line, or below its node.
LabelLeft(w, i) ==
  IF Mode(w) # "side" THEN Centre(w) - LabelWidth(w) \div 2
  ELSE IF OnTheRight(i)
       THEN NodeX(w, i) - (NodeSize(w) \div 2 + LabelGap) - LabelWidth(w)
       ELSE NodeX(w, i) + (NodeSize(w) \div 2 + LabelGap)

LabelTop(w) ==
  IF Mode(w) = "side" THEN 0 ELSE RowHeight(w) \div 2 + NodeSize(w) \div 2 + Hundredths(2)

GoalY(w, n) ==
  IF n = 0 THEN RowHeight(w) \div 2
  ELSE AtLeast(NodeY(w, n - 1) + GoalDrop(w),
               n * RowHeight(w) + NodeSize(w) \div 2 + Hundredths(8))

RoadHeight(w, n) ==
  IF n = 0 THEN RowHeight(w) ELSE GoalY(w, n) + NodeSize(w) \div 2 + Hundredths(16)

\* Mutant of SegmentDone: a stretch is lit by the lesson it leads to.
SegmentDoneAhead(n, done, to) == IF to = n THEN n - 1 \in done ELSE to \in done

\* isSegmentDone: the stretch to node `to`, or for to = n the goal's.
SegmentDone(n, done, to) ==
  IF to = n THEN n > 0 /\ done = 0..n - 1 ELSE to > 0 /\ to - 1 \in done

\* LessonRoad: the trophy.
GoalDone(n, done) == n > 0 /\ Cardinality(done) = n

-----------------------------------------------------------------------------
\* The screen is turned or split, the road shows other lessons or progress.
Laid ==
  /\ containerWidth' \in ScreenWidths
  /\ UNCHANGED <<nodeCount, doneNodes>>

Reloaded ==
  /\ nodeCount' \in 0..MaxNodes
  /\ doneNodes' \in SUBSET (0..nodeCount' - 1)
  /\ UNCHANGED containerWidth

LessonRoadNext == Laid \/ Reloaded

LessonRoadInit ==
  containerWidth = 0 /\ nodeCount = 0 /\ doneNodes = {}

LessonRoadSpec == LessonRoadInit /\ [][LessonRoadNext]_roadVars

-----------------------------------------------------------------------------
\* Properties.

\* A node, and the box of its label, are inside of the road; the label is wide
\* enough, for the test of the geometry 64 pixels, and clear of the node.
NodeFits(w, i) ==
  /\ NodeX(w, i) - NodeSize(w) \div 2 >= 0 /\ NodeX(w, i) + NodeSize(w) \div 2 <= w
  /\ LabelLeft(w, i) >= 0 /\ LabelLeft(w, i) + LabelWidth(w) <= w
  /\ LabelWidth(w) >= Hundredths(64)
  /\ \/ LabelLeft(w, i) + LabelWidth(w) + LabelGap <= NodeX(w, i) - NodeSize(w) \div 2
     \/ LabelLeft(w, i) >= NodeX(w, i) + NodeSize(w) \div 2 + LabelGap
     \/ /\ LabelTop(w) > RowHeight(w) \div 2 + NodeSize(w) \div 2
        /\ LabelTop(w) < RowHeight(w)

\* A node is clear of the next one.
NodesApart(w, i) == NodeY(w, i) + NodeSize(w) <= NodeY(w, i + 1)

\* The goal is below the rows of the lessons, clear of the last node, and on
\* the canvas.
GoalFits(w, n) ==
  /\ GoalY(w, n) - NodeSize(w) \div 2 >= n * RowHeight(w)
  /\ n > 0 => NodeY(w, n - 1) + NodeSize(w) <= GoalY(w, n)
  /\ GoalY(w, n) + NodeSize(w) \div 2 <= RoadHeight(w, n)

\* Nothing on the road covers anything else or leaves it, labels can be read.
RoadIsLegible(w, n) ==
  /\ \A i \in 0..n - 1 : NodeFits(w, i) /\ NodesApart(w, i)
  /\ GoalFits(w, n)

\* The road is lit behind completed lessons and nowhere ahead; the stretch to
\* the goal with the goal itself, after all the others.
RoadIsLitBehind(n, done) ==
  /\ \A to \in 0..n : SegmentDone(n, done, to) => to - 1 \in done
  /\ SegmentDone(n, done, n) <=> GoalDone(n, done)
  /\ SegmentDone(n, done, n) => \A to \in 1..n : SegmentDone(n, done, to)

\* On every screen, for every course and all progress, the road can be read and
\* shows the progress (the comments of LessonRoad.geometry; its tests try some
\* widths and courses).
RoadReads ==
  /\ RoadIsLegible(ContentWidth(containerWidth), nodeCount)
  /\ RoadIsLitBehind(nodeCount, doneNodes)
=============================================================================
