------------------------------ MODULE Sessions ------------------------------
(***************************************************************************)
(* The sessions of one user in apps/api: sign-in, the middleware that lets *)
(* a request through, the rotation of a refresh token, logout and the      *)
(* change of the password.  Every Redis command of a handler is a step.    *)
(*                                                                         *)
(* A pair is an access and a refresh token that were signed together; the  *)
(* refresh token's jti names it.  Pairs are numbered in the order they are *)
(* signed and a session is named after its first pair.  Requests may carry *)
(* any pair that was signed, or none: SessionClients says who sends them.  *)
(***************************************************************************)
EXTENDS Integers, FiniteSets

CONSTANTS
  Requests,    \* handlers in flight at the same time
  MaxPairs     \* bound: pairs that are ever signed

ASSUME SessionsAssumption == MaxPairs \in Nat

Pairs == 1..MaxPairs
None  == 0

VARIABLES
  current,     \* Redis session:{userId}:{sid}: the session's pair, or None
  renewed,     \* Redis session-rotated:...:{jti}: the pair given for it
  issued,      \* pairs signed so far: 1..issued
  session,     \* the sid in a pair's tokens
  expired      \* access tokens 1..expired are past their exp

VARIABLES
  step,        \* where the request's handler is, or how it was answered
  job,         \* what the request is for
  carried,     \* the pair it presents
  fresh,       \* the pair its answer delivers
  todo         \* sessions the SCAN of a password change must still delete

\* History.
VARIABLES
  rotated,     \* pairs that were exchanged for a new one
  closed,      \* sessions ended by logout, password change or expiry
  killed,      \* sessions ended because a refresh token was replayed
  caught,      \* sessions ended while a rotation had read but not written
  overlapped   \* sessions with two refreshes of one pair at the same time

redis     == <<current, renewed>>
tokens    == <<issued, session, expired>>
handlers  == <<step, job, carried, fresh, todo>>
histories == <<rotated, closed, killed, caught, overlapped>>
sessionVars == <<redis, tokens, handlers, histories>>

Jobs    == {"public", "work", "logout", "password", "signin"}
Answers == {"ok", "failed", "denied", "broken"}
Steps   == {"idle", "auth", "mint", "remember", "recent", "revoke",
            "handle", "sweep", "open"} \union Answers

SessionTypeOK ==
  /\ current \in [Pairs -> Pairs \union {None}]
  /\ renewed \in [Pairs -> Pairs \union {None}]
  /\ issued \in 0..MaxPairs
  /\ session \in [Pairs -> Pairs]
  /\ expired \in 0..issued
  /\ step \in [Requests -> Steps]
  /\ job \in [Requests -> Jobs]
  /\ carried \in [Requests -> 0..issued]
  /\ fresh \in [Requests -> 0..issued]
  /\ todo \in [Requests -> SUBSET Pairs]
  /\ rotated \subseteq Pairs
  /\ closed \subseteq 1..issued /\ killed \subseteq 1..issued
  /\ caught \subseteq Pairs /\ overlapped \subseteq Pairs
  /\ \A r \in Requests : step[r] = "idle" => fresh[r] = None

SessionInit ==
  /\ current = [s \in Pairs |-> None]
  /\ renewed = [p \in Pairs |-> None]
  /\ issued = 0
  /\ session = [p \in Pairs |-> p]
  /\ expired = 0
  /\ step = [r \in Requests |-> "idle"]
  /\ job = [r \in Requests |-> "public"]
  /\ carried = [r \in Requests |-> None]
  /\ fresh = [r \in Requests |-> None]
  /\ todo = [r \in Requests |-> {}]
  /\ rotated = {} /\ closed = {} /\ killed = {}
  /\ caught = {} /\ overlapped = {}

-----------------------------------------------------------------------------
\* The frame of a step that only moves r on.
Goes(r, to) ==
  /\ step' = [step EXCEPT ![r] = to]
  /\ UNCHANGED <<job, carried>>

SidOf(r) == session[carried[r]]

\* Sessions that a rotation has read as valid and not written yet.
BeingRotated == {SidOf(r) : r \in {q \in Requests : step[q] = "mint"}}

\* A request with the jobs that need no session goes straight to its handler.
Send(r, p, j) ==
  /\ step[r] = "idle"
  /\ p \in 0..issued
  /\ step' = [step EXCEPT ![r] = IF j \in {"public", "signin"} THEN "handle"
                                                               ELSE "auth"]
  /\ job' = [job EXCEPT ![r] = j]
  /\ carried' = [carried EXCEPT ![r] = p]
  /\ UNCHANGED <<redis, tokens, fresh, todo, histories>>

\* Mutant: the next answer still carries this one's tokens.
ReceiveKeeps(r) ==
  /\ step[r] \in Answers
  /\ step' = [step EXCEPT ![r] = "idle"]
  /\ job' = [job EXCEPT ![r] = "public"]
  /\ carried' = [carried EXCEPT ![r] = None]
  /\ UNCHANGED <<redis, tokens, fresh, todo, histories>>

\* The answer arrives, or is lost on the way.
Receive(r) ==
  /\ step[r] \in Answers
  /\ step' = [step EXCEPT ![r] = "idle"]
  /\ job' = [job EXCEPT ![r] = "public"]
  /\ carried' = [carried EXCEPT ![r] = None]
  /\ fresh' = [fresh EXCEPT ![r] = None]
  /\ todo' = [todo EXCEPT ![r] = {}]
  /\ UNCHANGED <<redis, tokens, histories>>

\* Mutant: a missing key is not told from a valid one.
VerdictLenient(p) ==
  CASE p = None -> "denied"
    [] p # None /\ p <= expired
         /\ current[session[p]] \in {None, p} -> "mint"
    [] p # None /\ current[session[p]] # None /\ p > expired -> "handle"
    [] p # None /\ current[session[p]] = None /\ p > expired -> "denied"
    [] OTHER -> "recent"

\* isAuthenticated: with a valid access token isSessionActive decides, with
\* an expired one rotateSession, which reads the same key.
Verdict(p) ==
  CASE p = None -> "denied"
    [] p # None /\ current[session[p]] = None -> "denied"
    [] p # None /\ current[session[p]] # None /\ p > expired -> "handle"
    [] p # None /\ current[session[p]] = p /\ p <= expired -> "mint"
    [] OTHER -> "recent"

Authenticate(r) ==
  /\ step[r] = "auth"
  /\ Goes(r, Verdict(carried[r]))
  /\ UNCHANGED <<redis, tokens, fresh, todo, histories>>

\* Mutant: the session keeps the old jti.
MintUnstored(r) ==
  /\ step[r] = "mint" /\ issued < MaxPairs
  /\ issued' = issued + 1
  /\ session' = [session EXCEPT ![issued + 1] = SidOf(r)]
  /\ fresh' = [fresh EXCEPT ![r] = issued + 1]
  /\ Goes(r, "remember")
  /\ UNCHANGED <<redis, expired, todo, histories>>

\* The new pair is stored whatever the key holds by now.
Mint(r) ==
  /\ step[r] = "mint" /\ issued < MaxPairs
  /\ issued' = issued + 1
  /\ session' = [session EXCEPT ![issued + 1] = SidOf(r)]
  /\ current' = [current EXCEPT ![SidOf(r)] = issued + 1]
  /\ fresh' = [fresh EXCEPT ![r] = issued + 1]
  /\ rotated' = rotated \union {carried[r]}
  /\ overlapped' = IF carried[r] \in rotated
                     THEN overlapped \union {SidOf(r)} ELSE overlapped
  /\ Goes(r, "remember")
  /\ UNCHANGED <<renewed, expired, todo, closed, killed, caught>>

Remember(r) ==
  /\ step[r] = "remember"
  /\ renewed' = [renewed EXCEPT ![carried[r]] = fresh[r]]
  /\ Goes(r, "handle")
  /\ UNCHANGED <<current, tokens, fresh, todo, histories>>

\* Mutant: no grace for the loser of a race.
RecentNever(r) ==
  /\ step[r] = "recent"
  /\ Goes(r, "revoke")
  /\ UNCHANGED <<redis, tokens, fresh, todo, histories>>

\* A refresh token that is no longer the session's: lost a race, or replayed.
Recent(r) ==
  /\ step[r] = "recent"
  /\ LET n == renewed[carried[r]] IN
       /\ fresh' = [fresh EXCEPT ![r] = n]
       /\ Goes(r, IF n = None THEN "revoke" ELSE "handle")
       /\ overlapped' =
            IF n = None /\ \E q \in Requests : /\ step[q] = "remember"
                                               /\ carried[q] = carried[r]
              THEN overlapped \union {SidOf(r)} ELSE overlapped
  /\ UNCHANGED <<redis, tokens, todo, rotated, closed, killed, caught>>

\* DEL session:{userId}:{sid} of every session in S.
Delete(S) ==
  /\ current' = [s \in Pairs |-> IF s \in S THEN None ELSE current[s]]
  /\ caught' = caught \union (S \intersect BeingRotated)

Revoke(r) ==
  /\ step[r] = "revoke"
  /\ Delete({SidOf(r)})
  /\ killed' = killed \union {SidOf(r)}
  /\ Goes(r, "denied")
  /\ UNCHANGED <<renewed, tokens, fresh, todo, rotated, closed, overlapped>>

-----------------------------------------------------------------------------
\* Any other route, public or not, whatever it answers: what rotated is
\* delivered with an error, too.
Work(r) ==
  /\ step[r] = "handle" /\ job[r] \in {"public", "work"}
  /\ Goes(r, "ok")
  /\ UNCHANGED <<redis, tokens, fresh, todo, histories>>

\* A handler answers with an error: wrong password, not found, a failure.
Refuse(r) ==
  /\ step[r] = "handle" /\ job[r] \in {"logout", "password", "signin"}
  /\ Goes(r, "failed")
  /\ UNCHANGED <<redis, tokens, fresh, todo, histories>>

\* Mutant: one key per user instead of one per device.
LogoutEverywhere(r) ==
  /\ step[r] = "handle" /\ job[r] = "logout"
  /\ Delete(Pairs)
  /\ closed' = closed \union {SidOf(r)}
  /\ Goes(r, "ok")
  /\ UNCHANGED <<renewed, tokens, fresh, todo, rotated, killed, overlapped>>

Logout(r) ==
  /\ step[r] = "handle" /\ job[r] = "logout"
  /\ Delete({SidOf(r)})
  /\ closed' = closed \union {SidOf(r)}
  /\ Goes(r, "ok")
  /\ UNCHANGED <<renewed, tokens, fresh, todo, rotated, killed, overlapped>>

LiveSessions == {s \in Pairs : current[s] # None}

\* The password is changed in Postgres: revokeAllSessions starts its SCAN,
\* which returns every key that exists from its start to its end.
ChangePassword(r) ==
  /\ step[r] = "handle" /\ job[r] = "password"
  /\ todo' = [todo EXCEPT ![r] = LiveSessions]
  /\ Goes(r, "sweep")
  /\ UNCHANGED <<redis, tokens, fresh, histories>>

\* One round trip of the SCAN and the DEL of what it returned.
Sweep(r) ==
  /\ step[r] = "sweep"
  /\ \E batch \in SUBSET LiveSessions :
       /\ batch # {}
       /\ Delete(batch)
       /\ closed' = closed \union batch
       /\ todo' = [todo EXCEPT ![r] = @ \ batch]
  /\ Goes(r, "sweep")
  /\ UNCHANGED <<renewed, tokens, fresh, rotated, killed, overlapped>>

SweepDone(r) ==
  /\ step[r] = "sweep"
  /\ todo[r] \intersect LiveSessions = {}
  /\ todo' = [todo EXCEPT ![r] = {}]
  /\ Goes(r, "open")
  /\ UNCHANGED <<redis, tokens, fresh, histories>>

\* The password matched.
SignIn(r) ==
  /\ step[r] = "handle" /\ job[r] = "signin"
  /\ Goes(r, "open")
  /\ UNCHANGED <<redis, tokens, fresh, todo, histories>>

\* createSession; the answer delivers the new session's pair.
Open(r) ==
  /\ step[r] = "open" /\ issued < MaxPairs
  /\ issued' = issued + 1
  /\ session' = [session EXCEPT ![issued + 1] = issued + 1]
  /\ current' = [current EXCEPT ![issued + 1] = issued + 1]
  /\ fresh' = [fresh EXCEPT ![r] = issued + 1]
  /\ Goes(r, "ok")
  /\ UNCHANGED <<renewed, expired, todo, histories>>

\* The process dies under the handler, or Redis refuses a command: an answer
\* without tokens, and whatever was written stays.  (To break at "auth" or
\* "recent" is to break at the step that follows it.)
Break(r) ==
  /\ step[r] \in {"mint", "remember", "revoke", "handle", "sweep", "open"}
  /\ todo' = [todo EXCEPT ![r] = {}]
  /\ Goes(r, "broken")
  /\ UNCHANGED <<redis, tokens, fresh, histories>>

-----------------------------------------------------------------------------
\* The clock.  Access tokens expire in the order they were signed.
Expire ==
  /\ expired < issued
  /\ expired' = expired + 1
  /\ UNCHANGED <<redis, issued, session, handlers, histories>>

\* ROTATION_GRACE_SECONDS after Remember.
GraceEnds(p) ==
  /\ renewed[p] # None
  /\ renewed' = [renewed EXCEPT ![p] = None]
  /\ UNCHANGED <<current, tokens, handlers, histories>>

\* A week without a rotation; no request takes that long.
Lapse(s) ==
  /\ current[s] # None
  /\ \A r \in Requests : carried[r] # None => SidOf(r) # s
  /\ Delete({s})
  /\ closed' = closed \union {s}
  /\ UNCHANGED <<renewed, tokens, handlers, rotated, killed, overlapped>>

ServerStep(r) ==
  \/ Authenticate(r) \/ Mint(r) \/ Remember(r) \/ Recent(r) \/ Revoke(r)
  \/ Work(r) \/ Refuse(r) \/ Logout(r) \/ SignIn(r) \/ Open(r)
  \/ ChangePassword(r) \/ Sweep(r) \/ SweepDone(r)

Clock == Expire \/ \E p \in Pairs : Lapse(p)

SessionNext ==
  \/ \E r \in Requests, p \in 0..MaxPairs, j \in Jobs : Send(r, p, j)
  \/ \E r \in Requests : ServerStep(r) \/ Break(r) \/ Receive(r)
  \/ \E p \in Pairs : GraceEnds(p)
  \/ Clock

SessionSpec == SessionInit /\ [][SessionNext]_sessionVars

-----------------------------------------------------------------------------
Ended == closed \union killed

\* Logout, a password change and a replayed refresh token end a session for
\* good (session.ts: "logout and revocation take effect immediately"): the key
\* comes back only if a rotation had read it before it was deleted.
EndedStaysEnded ==
  \A s \in Ended : current[s] = None \/ s \in caught

\* "Parallel requests that present the same just-rotated refresh token get the
\* same new pair": the pair remembered for them is the session's own, or was
\* exchanged in turn, unless the session is over or two rotations of the same
\* pair overlapped.
RememberedPairWorks ==
  \A p \in Pairs :
    renewed[p] # None =>
      \/ current[session[p]] = renewed[p]
      \/ renewed[p] \in rotated
      \/ session[p] \in Ended \union overlapped

\* Sessions are per device: a session ends by its own requests, by a change of
\* the password or by its age, never by what happens in another session.
EndsItself(s) ==
  \/ \E r \in Requests : step[r] = "sweep"
  \/ \E r \in Requests : /\ step[r] \in {"handle", "revoke"}
                         /\ carried[r] # None /\ SidOf(r) = s
  \/ \A r \in Requests : carried[r] # None => SidOf(r) # s

SessionsArePerDevice ==
  [][\A s \in Pairs :
       current[s] # None /\ current'[s] = None => EndsItself(s)]_sessionVars

\* Two parallel refreshes of one pair deliver one pair (the middleware's test
\* of parallel requests, and the header of session.ts).
SamePair ==
  \A q, r \in Requests :
    /\ carried[q] = carried[r] /\ job[q] = "work" /\ job[r] = "work"
    /\ step[q] = "ok" /\ step[r] = "ok"
    /\ fresh[q] # None /\ fresh[r] # None
    => fresh[q] = fresh[r]
=============================================================================
