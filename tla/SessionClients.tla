--------------------------- MODULE SessionClients ---------------------------
(***************************************************************************)
(* Who talks to Sessions: phones, which run the interceptors of            *)
(* apps/mobile/src/api/client.ts and keep their pair in AsyncStorage, and  *)
(* browsers, whose pair is in cookies and which send what they have.       *)
(***************************************************************************)
EXTENDS Sessions

CONSTANTS
  Phones,      \* devices with the mobile app
  Browsers,    \* devices with the admin web
  Skewed,      \* phones whose clock disagrees with the server's
  Killed       \* phones whose app may be killed at any time

ASSUME ClientsAssumption == Skewed \subseteq Phones /\ Killed \subseteq Phones

VARIABLES
  holds,       \* the pair in memory (phone) or in the cookies (browser)
  stored,      \* the pair in AsyncStorage
  phase,       \* client side of a request
  device,      \* its device
  task,        \* its job
  presented,   \* the pair it was sent with: InFlight.refreshToken
  waits,       \* requests it waits for
  retried      \* requests that are on their second attempt

\* History.
VARIABLES
  hurried,     \* sessions of which guard 1 could not see a refresh coming
  lossy,       \* sessions of which an answer with tokens did not arrive
  misled       \* sessions a phone left for a first 401 while they were alive

clientSide == <<holds, stored, phase, device, task, presented, waits, retried>>
excuses    == <<hurried, lossy, misled>>
vars == <<sessionVars, clientSide, excuses>>

Devices == Phones \union Browsers
Nobody  == None
Phases  == {"idle", "held", "sent", "doubt", "gone"}

ClientsTypeOK ==
  /\ holds \in [Devices -> Pairs \union {None}]
  /\ stored \in [Devices -> Pairs \union {None}]
  /\ phase \in [Requests -> Phases]
  /\ device \in [Requests -> Devices \union {Nobody}]
  /\ task \in [Requests -> Jobs]
  /\ presented \in [Requests -> Pairs \union {None}]
  /\ waits \in [Requests -> SUBSET Requests]
  /\ retried \subseteq Requests
  /\ hurried \subseteq Pairs /\ lossy \subseteq Pairs
  /\ misled \subseteq Pairs

TypeOK == SessionTypeOK /\ ClientsTypeOK

Init ==
  /\ SessionInit
  /\ holds = [d \in Devices |-> None] /\ stored = holds
  /\ phase = [r \in Requests |-> "idle"]
  /\ device = [r \in Requests |-> Nobody]
  /\ task = [r \in Requests |-> "public"]
  /\ presented = [r \in Requests |-> None]
  /\ waits = [r \in Requests |-> {}]
  /\ retried = {}
  /\ hurried = {} /\ lossy = {} /\ misled = {}

-----------------------------------------------------------------------------
\* Requests of d in flight that presented p, other than r.
InFlightWith(r, d, p) ==
  {q \in Requests \ {r} :
     device[q] = d /\ phase[q] = "sent" /\ presented[q] = p}

\* Whether the device takes its access token for expired.
Believes(d) ==
  IF d \in Skewed THEN BOOLEAN ELSE {holds[d] <= expired}

\* The request leaves with the pair that d holds now.
Dispatch(r, d, j) ==
  /\ phase' = [phase EXCEPT ![r] = "sent"]
  /\ presented' = [presented EXCEPT ![r] = holds[d]]
  /\ waits' = [waits EXCEPT ![r] = {}]
  /\ Send(r, holds[d], j)

HoldBack(r, siblings) ==
  /\ phase' = [phase EXCEPT ![r] = "held"]
  /\ presented' = [presented EXCEPT ![r] = None]
  /\ waits' = [waits EXCEPT ![r] = siblings]
  /\ UNCHANGED sessionVars

\* Mutant: no guard 1.
InterceptNone(r, d, j) == Dispatch(r, d, j)

\* The request interceptor: guard 1 holds a request back while a sibling may
\* be rotating the expired pair.
Intercept(r, d, j) ==
  \E late \in Believes(d) :
    LET siblings == InFlightWith(r, d, holds[d]) IN
      IF d \in Phones /\ holds[d] # None /\ late /\ siblings # {}
        THEN HoldBack(r, siblings)
        ELSE Dispatch(r, d, j)

\* A device signs in when it holds no tokens (what else it may send then has
\* no effect); the mobile app has no screen that changes the password.
JobsOf(d) ==
  CASE holds[d] = None -> {"signin"}
    [] holds[d] # None /\ d \in Phones -> {"public", "work", "logout"}
    [] OTHER -> {"public", "work", "logout", "password"}

Begin(r) ==
  /\ phase[r] = "idle"
  /\ \E d \in Devices :
       \E j \in JobsOf(d) :
         /\ device' = [device EXCEPT ![r] = d]
         /\ task' = [task EXCEPT ![r] = j]
         /\ Intercept(r, d, j)
  /\ UNCHANGED <<holds, stored, retried, excuses>>

\* Everything r waited for has settled.
Resume(r) ==
  /\ phase[r] = "held" /\ waits[r] = {}
  /\ Dispatch(r, device[r], task[r])
  /\ UNCHANGED <<holds, stored, device, task, retried, excuses>>

\* MAX_ROTATION_WAIT_MS.
TimeUp(r) ==
  /\ waits[r] # {}
  /\ waits' = [waits EXCEPT ![r] = {}]
  /\ hurried' = IF phase[r] = "held" /\ holds[device[r]] # None
                  THEN hurried \union {session[holds[device[r]]]} ELSE hurried
  /\ UNCHANGED <<sessionVars, holds, stored, phase, device, task, presented,
                 retried, lossy, misled>>

-----------------------------------------------------------------------------
\* The slot of r is free again.
Finish(r) ==
  /\ phase' = [phase EXCEPT ![r] = "idle"]
  /\ task' = [task EXCEPT ![r] = "public"]
  /\ presented' = [presented EXCEPT ![r] = None]
  /\ retried' = retried \ {r}
  /\ device' = [device EXCEPT ![r] = Nobody]

\* untrack: who waited for r waits no longer.
Untrack(r) == waits' = [q \in Requests |-> waits[q] \ {r}]

\* A request that settles lets those it held back go on the pair that there is
\* by now, together and beside any that start now.
Frees(r) == \E q \in Requests : phase[q] = "held" /\ r \in waits[q]

NoteIdling(r) ==
  hurried' = IF Frees(r)
               THEN hurried \union {session[p] : p \in {holds'[device[r]]}
                                                         \intersect 1..expired}
               ELSE hurried

NoteLoss(r) ==
  lossy' = IF fresh[r] # None THEN lossy \union {session[fresh[r]]} ELSE lossy

\* Mutant: only a sign-in is absorbed.
PairAfterSignIn(r) ==
  CASE task[r] = "logout" -> None
    [] task[r] = "signin" /\ fresh[r] # None -> fresh[r]
    [] OTHER -> holds[device[r]]

\* absorbRotatedTokens, login, Set-Cookie; logout clears whatever came of it.
PairAfter(r) ==
  CASE task[r] = "logout" /\ (device[r] \in Phones \/ step[r] = "ok") -> None
    [] OTHER -> IF fresh[r] # None THEN fresh[r] ELSE holds[device[r]]

Arrive(r) ==
  /\ phase[r] = "sent" /\ step[r] \in {"ok", "failed"}
  /\ holds' = [holds EXCEPT ![device[r]] = PairAfter(r)]
  /\ NoteIdling(r) /\ Untrack(r) /\ Finish(r) /\ Receive(r)
  /\ UNCHANGED <<stored, lossy, misled>>

\* No answer: the process died, or the answer was lost on the way.
NetworkError(r) ==
  /\ phase[r] = "sent" /\ step[r] \in Answers
  /\ holds' = IF task[r] = "logout" /\ device[r] \in Phones
                THEN [holds EXCEPT ![device[r]] = None] ELSE holds
  /\ NoteLoss(r)
  /\ NoteIdling(r) /\ Untrack(r) /\ Finish(r) /\ Receive(r)
  /\ UNCHANGED <<stored, misled>>

Alive(d) == {session[p] : p \in {q \in Pairs : /\ q = holds[d]
                                              /\ current[session[q]] # None}}

\* onUnauthorized.
SignOut(r) ==
  /\ holds' = [holds EXCEPT ![device[r]] = None]
  /\ Finish(r)

\* 401.  Guard 2: a phone waits for the siblings before it believes it.
DoubtIt(r) ==
  /\ phase[r] = "sent" /\ step[r] = "denied"
  /\ device[r] \in Phones /\ r \notin retried
  /\ phase' = [phase EXCEPT ![r] = "doubt"]
  /\ waits' = [q \in Requests |->
                 IF q = r THEN InFlightWith(r, device[r], presented[r])
                          ELSE waits[q] \ {r}]
  /\ UNCHANGED holds /\ NoteIdling(r) /\ Receive(r)
  /\ UNCHANGED <<stored, device, task, presented, retried, lossy, misled>>

BelieveIt(r) ==
  /\ phase[r] = "sent" /\ step[r] = "denied"
  /\ device[r] \in Browsers \/ r \in retried
  /\ IF device[r] \in Phones THEN SignOut(r)
                             ELSE Finish(r) /\ UNCHANGED holds
  /\ NoteIdling(r) /\ Untrack(r) /\ Receive(r)
  /\ UNCHANGED <<stored, lossy, misled>>

\* Mutant: a 401 is always believed.
SupersededNever(r) == FALSE

Superseded(r) ==
  LET now == holds[device[r]] IN now # None /\ now # presented[r]

Decide(r) ==
  /\ phase[r] = "doubt" /\ waits[r] = {}
  /\ \/ /\ Superseded(r)
        /\ retried' = retried \union {r}
        /\ Intercept(r, device[r], task[r])
        /\ UNCHANGED <<holds, device, task, misled>>
     \/ /\ ~Superseded(r)
        /\ SignOut(r)
        /\ misled' = misled \union Alive(device[r])
        /\ UNCHANGED <<sessionVars, waits>>
  /\ UNCHANGED <<stored, hurried, lossy>>

-----------------------------------------------------------------------------
\* AsyncStorage catches up; nobody awaits it.
Save(d) ==
  /\ stored[d] # holds[d]
  /\ stored' = [stored EXCEPT ![d] = holds[d]]
  /\ UNCHANGED <<sessionVars, holds, phase, device, task, presented, waits,
                 retried, excuses>>

InFlightOf(d) == {r \in Requests : device[r] = d /\ phase[r] = "sent"}

\* The app is killed and started again.
Restart(d) ==
  /\ holds' = [holds EXCEPT ![d] = stored[d]]
  /\ phase' = [r \in Requests |->
                 CASE r \in InFlightOf(d) -> "gone"
                   [] device[r] = d /\ phase[r] \in {"held", "doubt"} -> "idle"
                   [] OTHER -> phase[r]]
  /\ task' = [r \in Requests |->
                IF device[r] = d THEN "public" ELSE task[r]]
  /\ presented' = [r \in Requests |->
                     IF device[r] = d THEN None ELSE presented[r]]
  /\ waits' = [r \in Requests |-> IF device[r] = d THEN {} ELSE waits[r]]
  /\ retried' = {r \in retried : device[r] # d}
  /\ lossy' = lossy
       \union {session[p] : p \in {holds[d], stored[d]} \intersect
                 IF holds[d] # stored[d] THEN Pairs ELSE {}}
       \union {session[p] : p \in
                 {presented[r] : r \in InFlightOf(d)} \intersect Pairs}
  /\ device' = [r \in Requests |->
                  IF device[r] = d THEN Nobody ELSE device[r]]
  /\ UNCHANGED <<sessionVars, stored, hurried, misled>>

\* The server finishes a request whose app is gone.
Forget(r) ==
  /\ phase[r] = "gone" /\ step[r] \in Answers
  /\ Finish(r) /\ Receive(r)
  /\ UNCHANGED <<holds, stored, waits, excuses>>

-----------------------------------------------------------------------------
Serve(r) ==
  /\ ServerStep(r)
  /\ UNCHANGED <<clientSide, excuses>>

ServerFails(r) ==
  /\ Break(r)
  /\ NoteLoss(r)
  /\ UNCHANGED <<clientSide, hurried, misled>>

Ready(r) == phase[r] \in {"held", "doubt"} /\ waits[r] = {}

\* An access token may expire under the requests that carry it.  It outlives
\* (by minutes to an hour) the answer that delivers it, the grace of the pair
\* it replaced, and the time from a settled promise to its continuation.
TokenExpires ==
  /\ \A r \in Requests : ~Ready(r) /\ fresh[r] # expired + 1
  /\ \A p \in Pairs : renewed[p] # expired + 1
  /\ Expire
  /\ hurried' = hurried \union
       {session[p] : p \in {presented[r] : r \in Requests}
                             \intersect {expired + 1}}
  /\ UNCHANGED <<clientSide, lossy, misled>>

\* The grace may end before a request that started inside it is served.
GraceRunsOut(p) ==
  /\ GraceEnds(p)
  /\ lossy' = IF \E r \in Requests : presented[r] = p \/ carried[r] = p
                THEN lossy \union {session[p]} ELSE lossy
  /\ UNCHANGED <<clientSide, hurried, misled>>

SessionLapses(s) == Lapse(s) /\ UNCHANGED <<clientSide, excuses>>

ClientStep(r) ==
  \/ Begin(r) \/ Resume(r) \/ TimeUp(r)
  \/ Arrive(r) \/ NetworkError(r) \/ DoubtIt(r) \/ BelieveIt(r)
  \/ Decide(r) \/ Forget(r)

Next ==
  \/ \E r \in Requests : ClientStep(r) \/ Serve(r) \/ ServerFails(r)
  \/ \E d \in Killed : Save(d) \/ Restart(d)
  \/ \E p \in Pairs : GraceRunsOut(p) \/ SessionLapses(p)
  \/ TokenExpires

Spec == Init /\ [][Next]_vars

-----------------------------------------------------------------------------
\* No client is taken for a thief without a cause: a session that was killed
\* as replayed had two refreshes of a pair at once, or an answer with tokens
\* was lost, late, or gone with the app before it was stored.
KilledForACause == killed \subseteq overlapped \union lossy

\* Guard 1 (client.ts: "only one request goes out on that pair; the rest wait
\* for it to land"): a phone whose clock is right overlaps two refreshes only
\* where the guard says it cannot see: a token that expired on the way, a wait
\* that ran out, a burst of requests after one that brought no new pair.
SessionsOf(d) == {session[p] : p \in {holds[d]} \intersect Pairs}

OneRefresherPerPhone ==
  \A d \in Phones \ Skewed :
    SessionsOf(d) \intersect overlapped \subseteq hurried \union lossy

\* client.ts: "The server rejected the current pair: the session is genuinely
\* dead."  When a phone has waited for the siblings of a request's first 401, it
\* leaves a session only if it is dead, or a rotation brought it back.
LeftOnlyTheDead == misled \subseteq caught
=============================================================================
