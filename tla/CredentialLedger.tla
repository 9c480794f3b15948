-------------------------- MODULE CredentialLedger --------------------------
(***************************************************************************)
(* What the credential outbox promises, without its queue, its workers or  *)
(* its retries.  A credential is asked for once the learner opted in; its  *)
(* app.civic.progress record appears in the learner's repository only      *)
(* after that; and the platform says "published" only of a record that is  *)
(* already there.  The platform may stop saying so (a re-queue puts the    *)
(* row back to pending), but records never disappear.                      *)
(***************************************************************************)
CONSTANT Credentials

VARIABLES
  asked,      \* credentials the outbox has accepted
  recorded,   \* credentials with a record in the learner's repository
  confirmed   \* credentials the platform reports as published

ledgerVars == <<asked, recorded, confirmed>>

LedgerInit ==
  /\ asked = {}
  /\ recorded = {}
  /\ confirmed = {}

Ask(c) ==
  /\ asked' = asked \union {c}
  /\ UNCHANGED <<recorded, confirmed>>

Record(c) ==
  /\ c \in asked
  /\ recorded' = recorded \union {c}
  /\ UNCHANGED <<asked, confirmed>>

Confirm(c) ==
  /\ c \in recorded
  /\ confirmed' = confirmed \union {c}
  /\ UNCHANGED <<asked, recorded>>

Doubt(c) ==
  /\ confirmed' = confirmed \ {c}
  /\ UNCHANGED <<asked, recorded>>

LedgerNext ==
  \E c \in Credentials :
    Ask(c) \/ Record(c) \/ Confirm(c) \/ Doubt(c)

LedgerSpec == LedgerInit /\ [][LedgerNext]_ledgerVars
=============================================================================
