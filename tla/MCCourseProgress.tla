-------------------------- MODULE MCCourseProgress --------------------------
\* Two requests at a time on a course of N lessons.
EXTENDS CourseProgress, TLC

Symmetry == Permutations(Requests)

\* Bound: four requests, or three of which one is cut short.
Budget == requests + crashes <= 4
=============================================================================
