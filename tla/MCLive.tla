-------------------------------- MODULE MCLive --------------------------------
(***************************************************************************)
(* What must happen in the end: the credential outbox and the player, each *)
(* in a scene of its own.  The component that is not on the scene has      *)
(* values with which nothing of it is enabled.                             *)
(***************************************************************************)
EXTENDS CredentialOutbox, Playback

CONSTANTS ana, c1, lesson, course

MCOwner    == [c \in Credentials |-> ana]
MCCourseOf == [c \in Credentials |-> c1]

VARIABLE scene

QuietOutbox ==
  /\ consent = {} /\ sessions = {} /\ earned = {} /\ silent = {}
  /\ refs = {} /\ repo = {}
  /\ status = [c \in Credentials |-> "none"] /\ attempts = NoAttempts
  /\ withdrawn = {} /\ due = {} /\ aged = {}
  /\ step = [r \in Requests |-> "quiet"] /\ todo = [r \in Requests |-> {}]
  /\ target = [r \in Requests |-> NoCred]
  /\ phase = [i \in Instances |-> "quiet"] /\ batch = [i \in Instances |-> {}]
  /\ seen = [i \in Instances |-> NoAttempts] /\ claimed = [i \in Instances |-> NoCred]
  /\ outcome = [i \in Instances |-> "unknown"] /\ again = {}
  /\ requests = 0 /\ crashes = 0 /\ dropped = {} /\ overtaken = {}

QuietPlayback ==
  /\ PlaybackInit
  /\ kept = 0 /\ entitled /\ setting = [runs |-> "web", by |-> "clip", declared |-> TRUE]

LiveInit ==
  \/ scene = "outbox" /\ Init /\ QuietPlayback
  \/ scene = "player" /\ PlaybackInit /\ QuietOutbox

LiveNext ==
  /\ UNCHANGED scene
  /\ \/ scene = "outbox" /\ Next /\ UNCHANGED playbackVars
     \/ scene = "player" /\ PlaybackNext /\ UNCHANGED vars

LiveSpec ==
  /\ LiveInit /\ [][LiveNext]_<<vars, playbackVars, scene>>
  /\ Fairness /\ PlaybackFairness
=============================================================================
