------------------------ MODULE MCCredentialOutbox ------------------------
\* One learner, one course, one or two credentials of it.
EXTENDS CredentialOutbox, TLC

CONSTANTS ana, c1, lesson, course

MCOwner    == [c \in Credentials |-> ana]
MCCourseOf == [c \in Credentials |-> c1]

Symmetry == Permutations(Instances) \union Permutations(Requests)
===========================================================================
