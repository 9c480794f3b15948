------------------------------- MODULE ApiProofs -------------------------------
(***************************************************************************)
(* What is proved of the handlers of apps/api that keep accounts, prove    *)
(* who one is, notify, and keep the lists of the admin web: for any number *)
(* of requests, rows and identities, and any bound on what breaks.  And    *)
(* how the scenes of MCApi put them and the storefront together.           *)
(***************************************************************************)
EXTENDS MCApi, StorefrontProofs, FiniteSetTheorems, TLAPS

-----------------------------------------------------------------------------
\* Accounts.

\* What the job of a handler is, by where it is.
RightJob(s, j) ==
  /\ s \in {"load", "fill", "enter"} => j \in {"visit", "socket"}
  /\ s = "row" => j \in {"visit", "socket", "order", "signin", "picture"}
  /\ s = "rotate" => j = "visit"
  /\ s = "update" => j \in {"info", "role"}
  /\ s \in {"destroy", "upload", "replace"} => j = "picture"
  /\ s \in {"scan", "revoke", "forget"} => j = "leave"

AccountsTyped ==
  /\ AccountsTypeOK
  /\ \A r \in Requests : step[r] \notin {"free", "done"} => RightJob(step[r], mem[r].job)
  /\ \A r \in Requests : step[r] = "destroy" => mem[r].copy \in Rows

\* A handler begins or goes on.
LEMMA AccountGoes ==
  ASSUME AccountsTyped, NEW r \in Requests, NEW to \in AccountsSteps \ {"free"},
         NEW m \in AccountsMemory, GoesWith(r, to, m), RightJob(to, m.job),
         to = "destroy" => m.copy \in Rows
  PROVE  /\ step' \in [Requests -> AccountsSteps]
         /\ mem' \in [Requests -> AccountsMemory \union {Nothing}]
         /\ \A q \in Requests : step'[q] \notin {"free", "done"} => mem'[q] \in AccountsMemory
         /\ \A q \in Requests : step'[q] \notin {"free", "done"} => RightJob(step'[q], mem'[q].job)
         /\ \A q \in Requests : step'[q] = "destroy" => mem'[q].copy \in Rows
         /\ step'[r] = to /\ (to # "done" => mem'[r] = m)
         /\ \A q \in Requests \ {r} : step'[q] = step[q] /\ mem'[q] = mem[q]
<1> HIDE DEF AccountsMemory, Rows, RightJob
<1> QED
  BY DEF AccountsTyped, AccountsTypeOK, GoesWith

\* Forms of going on: with what one had, with another row, and a beginning.
LEMMA AccountMemories ==
  ASSUME AccountsTyped, NEW r \in Requests
  PROVE  /\ \A j \in Jobs : Job(j) \in AccountsMemory /\ Job(j).job = j
         /\ step[r] \notin {"free", "done"} =>
              /\ mem[r] \in AccountsMemory
              /\ \A c \in Rows \union {Nothing} :
                   /\ [mem[r] EXCEPT !.copy = c] \in AccountsMemory
                   /\ [mem[r] EXCEPT !.copy = c].job = mem[r].job
                   /\ [mem[r] EXCEPT !.copy = c].copy = c
              /\ [mem[r] EXCEPT !.found = sessions] \in AccountsMemory
              /\ [mem[r] EXCEPT !.found = sessions].job = mem[r].job
              /\ [mem[r] EXCEPT !.found = sessions].found = sessions
<1>1. ASSUME NEW j \in Jobs PROVE Job(j) \in AccountsMemory /\ Job(j).job = j
  <2> HIDE DEF Rows
  <2> QED
    BY DEF Job, AccountsMemory
<1>2. ASSUME step[r] \notin {"free", "done"} PROVE mem[r] \in AccountsMemory
  BY <1>2 DEF AccountsTyped, AccountsTypeOK
<1>3. sessions \in SUBSET Names
  BY DEF AccountsTyped, AccountsTypeOK
<1> HIDE DEF Rows
<1> QED
  BY <1>1, <1>2, <1>3 DEF AccountsMemory

\* What a handler may do to its own place and memory keeps their types.
MovesOf(r) ==
  /\ step' \in [Requests -> AccountsSteps]
  /\ mem' \in [Requests -> AccountsMemory \union {Nothing}]
  /\ \A q \in Requests : step'[q] \notin {"free", "done"} => mem'[q] \in AccountsMemory
  /\ \A q \in Requests : step'[q] \notin {"free", "done"} => RightJob(step'[q], mem'[q].job)
  /\ \A q \in Requests : step'[q] = "destroy" => mem'[q].copy \in Rows
  /\ \A q \in Requests \ {r} : step'[q] = step[q] /\ mem'[q] = mem[q]

LEMMA BeginsMoves ==
  ASSUME AccountsTyped, NEW r \in Requests, NEW to \in AccountsSteps \ {"free", "done", "destroy"},
         NEW j \in Jobs, Begins(r, j, to), RightJob(to, j)
  PROVE  MovesOf(r) /\ step'[r] = to /\ mem'[r] = Job(j) /\ mem'[r].job = j
<1>1. Job(j) \in AccountsMemory /\ Job(j).job = j
  BY AccountMemories
<1> HIDE DEF Job, AccountsMemory, Rows, RightJob
<1> QED
  BY <1>1, AccountGoes DEF Begins, MovesOf

LEMMA GoesMoves ==
  ASSUME AccountsTyped, NEW r \in Requests, NEW to \in AccountsSteps \ {"free", "destroy"},
         Goes(r, to), step[r] \notin {"free", "done"}, RightJob(to, mem[r].job)
  PROVE  MovesOf(r) /\ step'[r] = to /\ (to # "done" => mem'[r] = mem[r])
<1>1. mem[r] \in AccountsMemory
  BY AccountMemories
<1> HIDE DEF AccountsMemory, Rows, RightJob
<1> QED
  BY <1>1, AccountGoes DEF Goes, MovesOf

LEMMA HoldingMoves ==
  ASSUME AccountsTyped, NEW r \in Requests, NEW to \in AccountsSteps \ {"free", "done"},
         NEW c \in Rows, Holding(r, to, c), step[r] \notin {"free", "done"},
         RightJob(to, mem[r].job)
  PROVE  MovesOf(r) /\ step'[r] = to /\ mem'[r].copy = c /\ mem'[r].job = mem[r].job
<1> DEFINE m == [mem[r] EXCEPT !.copy = c]
<1>1. m \in AccountsMemory /\ m.job = mem[r].job /\ m.copy = c
  BY AccountMemories
<1>2. GoesWith(r, to, m)
  BY DEF Holding
<1> HIDE DEF m, AccountsMemory, Rows, RightJob
<1> QED
  BY <1>1, <1>2, AccountGoes DEF MovesOf

LEMMA ExpiredMoves ==
  ASSUME AccountsTyped, NEW r \in Requests, ArriveExpired(r)
  PROVE  MovesOf(r) /\ step[r] = "free" /\ step'[r] = "rotate"
<1>1. PICK s \in sessions : GoesWith(r, "rotate", [Job("visit") EXCEPT !.found = {s}])
  BY DEF ArriveExpired
<1> DEFINE m == [Job("visit") EXCEPT !.found = {s}]
<1>2. {s} \in SUBSET Names
  BY DEF AccountsTyped, AccountsTypeOK
<1>3. m \in AccountsMemory /\ m.job = "visit"
  <2> HIDE DEF Rows
  <2> QED
    BY <1>2 DEF Job, Jobs, AccountsMemory
<1>4. GoesWith(r, "rotate", m) /\ RightJob("rotate", m.job)
  BY <1>1, <1>3 DEF RightJob
<1> HIDE DEF m, AccountsMemory, Rows, RightJob
<1> QED
  BY <1>3, <1>4, AccountGoes DEF MovesOf, AccountsSteps, ArriveExpired

\* The middleware and the socket.
LEMMA EntryTypes ==
  ASSUME AccountsTyped, NEW r \in Requests, NEW j \in Jobs,
         \/ Arrive(r, j) \/ ArriveExpired(r) \/ LoadUser(r) \/ ReadUser(r) \/ FillUser(r)
         \/ Enter(r) \/ Connect(r) \/ Disconnect(r) \/ BeginChange(r, j) \/ BeginRead(r, j)
  PROVE  AccountsTyped' /\ (~Disconnect(r) => MovesOf(r))
<1> USE DEF account, causes, live
<1>0. ASSUME AccountsTyped, MovesOf(r),
             cachedRow' \in Rows \union {Nothing}, stale' \in BOOLEAN,
             sockets' \subseteq Requests /\ adminRoom' \subseteq sockets',
             misled' \subseteq Requests, late' \subseteq Requests /\ ghosts' \subseteq late',
             UNCHANGED <<row, images, sessions, breaks, reopened, bare, early, answered>>
      PROVE  AccountsTyped'
  <2> HIDE DEF Rows, AccountsMemory, RightJob
  <2> QED
    BY <1>0 DEF AccountsTyped, AccountsTypeOK, MovesOf
<1>01. /\ row \in Rows \union {Nothing} /\ cachedRow \in Rows \union {Nothing} /\ stale \in BOOLEAN
       /\ sockets \subseteq Requests /\ adminRoom \subseteq sockets
       /\ misled \subseteq Requests /\ late \subseteq Requests /\ ghosts \subseteq late
  BY DEF AccountsTyped, AccountsTypeOK
<1>02. step[r] \notin {"free", "done"} => mem[r].copy \in Rows \union {Nothing} /\ mem[r].job \in Jobs
  BY DEF AccountsTyped, AccountsTypeOK, AccountsMemory
<1>03. step[r] \notin {"free", "done"} => RightJob(step[r], mem[r].job)
  BY DEF AccountsTyped
<1>1. CASE Arrive(r, j)
  <2>1. MovesOf(r)
    BY <1>1, BeginsMoves DEF Arrive, RightJob, AccountsSteps
  <2> QED
    BY <1>0, <1>01, <1>1, <2>1 DEF Arrive
<1>2. CASE BeginChange(r, j)
  <2>1. MovesOf(r)
    BY <1>2, BeginsMoves DEF BeginChange, RightJob, AccountsSteps
  <2> QED
    BY <1>0, <1>01, <1>2, <2>1 DEF BeginChange
<1>3. CASE BeginRead(r, j)
  <2>1. MovesOf(r)
    BY <1>3, BeginsMoves DEF BeginRead, RightJob, AccountsSteps
  <2> QED
    BY <1>0, <1>01, <1>3, <2>1 DEF BeginRead
<1>4. CASE LoadUser(r)
  <2>1. MovesOf(r)
    <3>1. CASE cachedRow # Nothing
      BY <1>01, <1>03, <1>4, <3>1, HoldingMoves DEF LoadUser, RightJob, AccountsSteps
    <3>2. CASE cachedRow = Nothing
      BY <1>03, <1>4, <3>2, GoesMoves DEF LoadUser, RightJob, AccountsSteps
    <3> QED
      BY <3>1, <3>2
  <2> QED
    BY <1>0, <1>01, <1>4, <2>1 DEF LoadUser
<1>5. CASE ReadUser(r)
  <2>1. MovesOf(r)
    <3>1. CASE row # Nothing
      <4>1. mem[r].job \in {"visit", "socket", "order", "signin", "picture"}
        BY <1>03, <1>5 DEF ReadUser, RightJob
      <4>2. AfterRow[mem[r].job] \in AccountsSteps \ {"free", "done"} /\ RightJob(AfterRow[mem[r].job], mem[r].job)
        BY <4>1 DEF AfterRow, RightJob, AccountsSteps
      <4> QED
        BY <1>01, <1>5, <3>1, <4>2, HoldingMoves DEF ReadUser
    <3>2. CASE row = Nothing
      BY <1>5, <3>2, GoesMoves DEF ReadUser, RightJob, AccountsSteps
    <3> QED
      BY <3>1, <3>2
  <2> QED
    BY <1>0, <1>01, <1>5, <2>1 DEF ReadUser
<1>6. CASE FillUser(r)
  <2>1. MovesOf(r)
    BY <1>03, <1>6, GoesMoves DEF FillUser, RightJob, AccountsSteps
  <2> QED
    BY <1>0, <1>01, <1>02, <1>6, <2>1 DEF FillUser, Stored
<1>7. CASE Enter(r)
  <2>1. MovesOf(r)
    BY <1>7, GoesMoves DEF Enter, RightJob, AccountsSteps
  <2> QED
    BY <1>0, <1>01, <1>7, <2>1 DEF Enter
<1>8. CASE Connect(r)
  <2>1. MovesOf(r)
    BY <1>8, GoesMoves DEF Connect, RightJob, AccountsSteps
  <2> QED
    BY <1>0, <1>01, <1>8, <2>1 DEF Connect
<1>9. CASE Disconnect(r)
  <2> HIDE DEF Rows, AccountsMemory, RightJob
  <2> QED
    BY <1>9 DEF Disconnect, handlers, AccountsTyped, AccountsTypeOK
<1>10. CASE ArriveExpired(r)
  <2>1. MovesOf(r)
    BY <1>10, ExpiredMoves
  <2> QED
    BY <1>0, <1>01, <1>10, <2>1 DEF ArriveExpired
<1> QED
  BY <1>1, <1>2, <1>3, <1>4, <1>5, <1>6, <1>7, <1>8, <1>9, <1>10

\* Handlers that change the row, the picture or the sessions.
LEMMA ChangeTypes ==
  ASSUME AccountsTyped, NEW r \in Requests,
         \/ Update(r) \/ CacheUser(r) \/ Destroy(r) \/ Upload(r) \/ UploadFails(r)
         \/ Replace(r) \/ Place(r) \/ OpenSession(r) \/ DeleteRow(r) \/ ScanSessions(r)
         \/ RevokeSessions(r) \/ ForgetUser(r) \/ BreakAccounts(r) \/ WriteRotation(r)
  PROVE  AccountsTyped' /\ MovesOf(r)
<1> USE DEF account, causes, live
<1>0. ASSUME MovesOf(r), row' \in Rows \union {Nothing}, cachedRow' \in Rows \union {Nothing},
             images' \subseteq Names, sessions' \subseteq Names,
             stale' \in BOOLEAN, reopened' \in BOOLEAN, bare' \in BOOLEAN, answered' \in BOOLEAN,
             early' \subseteq Requests, breaks' \in 0..MaxBreaks,
             UNCHANGED <<sockets, adminRoom, misled, late, ghosts>>
      PROVE  AccountsTyped'
  <2> HIDE DEF Rows, AccountsMemory, RightJob
  <2> QED
    BY <1>0 DEF AccountsTyped, AccountsTypeOK, MovesOf
<1>01. /\ row \in Rows \union {Nothing} /\ cachedRow \in Rows \union {Nothing}
       /\ images \subseteq Names /\ sessions \subseteq Names
       /\ stale \in BOOLEAN /\ reopened \in BOOLEAN /\ bare \in BOOLEAN /\ answered \in BOOLEAN
       /\ early \subseteq Requests /\ breaks \in 0..MaxBreaks /\ sockets \subseteq Requests
       /\ r \in Names
  BY DEF AccountsTyped, AccountsTypeOK, Names
<1>02. step[r] \notin {"free", "done"} => mem[r].copy \in Rows \union {Nothing}
  BY DEF AccountsTyped, AccountsTypeOK, AccountsMemory
<1>03. step[r] \notin {"free", "done"} => RightJob(step[r], mem[r].job)
  BY DEF AccountsTyped
<1>1. CASE Update(r)
  <2>1. CASE row = Nothing
    <3>1. MovesOf(r)
      BY <1>1, <2>1, GoesMoves DEF Update, RightJob, AccountsSteps
    <3> QED
      BY <1>0, <1>01, <1>1, <2>1, <3>1 DEF Update
  <2>2. CASE row # Nothing
    <3>1. row' \in Rows /\ Holding(r, "cache", row')
      BY <1>01, <1>1, <2>2 DEF Update, AfterUpdate, Other, Roles, Rows
    <3>2. MovesOf(r)
      BY <1>1, <3>1, HoldingMoves DEF Update, RightJob, AccountsSteps
    <3>3. early' \subseteq Requests
      BY <1>01, <1>1, <2>2 DEF Update, Handshakes
    <3> QED
      BY <1>0, <1>01, <1>1, <3>1, <3>2, <3>3 DEF Update
  <2> QED
    BY <2>1, <2>2
<1>2. CASE CacheUser(r)
  <2>1. MovesOf(r)
    BY <1>2, GoesMoves DEF CacheUser, RightJob, AccountsSteps
  <2> QED
    BY <1>0, <1>01, <1>02, <1>2, <2>1 DEF CacheUser, Stored
<1>3. CASE Destroy(r)
  <2>1. MovesOf(r)
    BY <1>03, <1>3, GoesMoves DEF Destroy, RightJob, AccountsSteps
  <2> QED
    BY <1>0, <1>01, <1>3, <2>1 DEF Destroy
<1>4. CASE Upload(r)
  <2>1. MovesOf(r)
    BY <1>03, <1>4, GoesMoves DEF Upload, RightJob, AccountsSteps
  <2> QED
    BY <1>0, <1>01, <1>4, <2>1 DEF Upload
<1>5. CASE UploadFails(r)
  <2>1. MovesOf(r)
    BY <1>5, GoesMoves DEF UploadFails, AfterFailedUpload, RightJob, AccountsSteps
  <2>2. breaks' \in 0..MaxBreaks
    BY <1>01, <1>5, HandlersAssumption DEF UploadFails
  <2> QED
    BY <1>0, <1>01, <1>5, <2>1, <2>2 DEF UploadFails, AfterFailedUpload
<1>6. CASE Replace(r)
  <2>1. CASE row = Nothing
    <3>1. MovesOf(r)
      BY <1>6, <2>1, GoesMoves DEF Replace, RightJob, AccountsSteps
    <3> QED
      BY <1>0, <1>01, <1>6, <2>1, <3>1 DEF Replace
  <2>2. CASE row # Nothing
    <3>1. row' \in Rows /\ Holding(r, "cache", row')
      BY <1>01, <1>6, <2>2 DEF Replace, AfterUpdate, Rows, Names
    <3>2. MovesOf(r)
      BY <1>6, <3>1, HoldingMoves DEF Replace, RightJob, AccountsSteps
    <3> QED
      BY <1>0, <1>01, <1>6, <3>1, <3>2 DEF Replace
  <2> QED
    BY <2>1, <2>2
<1>7. CASE Place(r)
  <2>1. MovesOf(r)
    BY <1>7, GoesMoves DEF Place, RightJob, AccountsSteps
  <2> QED
    BY <1>0, <1>01, <1>7, <2>1 DEF Place
<1>8. CASE OpenSession(r)
  <2>1. MovesOf(r)
    BY <1>8, GoesMoves DEF OpenSession, RightJob, AccountsSteps
  <2> QED
    BY <1>0, <1>01, <1>8, <2>1 DEF OpenSession
<1>9. CASE DeleteRow(r)
  <2>1. MovesOf(r)
    BY <1>9, BeginsMoves DEF DeleteRow, RightJob, AccountsSteps, Jobs
  <2> QED
    BY <1>0, <1>01, <1>9, <2>1 DEF DeleteRow
<1>10. CASE ScanSessions(r)
  <2>1. MovesOf(r)
    <3> DEFINE m == [mem[r] EXCEPT !.found = sessions]
    <3>1. m \in AccountsMemory /\ m.job = mem[r].job
      BY <1>10, AccountMemories DEF ScanSessions
    <3>2. GoesWith(r, "revoke", m) /\ RightJob("revoke", m.job)
      BY <1>03, <1>10, <3>1 DEF ScanSessions, RightJob
    <3> HIDE DEF m, AccountsMemory, Rows, RightJob
    <3> QED
      BY <3>1, <3>2, AccountGoes DEF MovesOf, AccountsSteps
  <2> QED
    BY <1>0, <1>01, <1>10, <2>1 DEF ScanSessions
<1>11. CASE RevokeSessions(r)
  <2>1. MovesOf(r)
    BY <1>03, <1>11, GoesMoves DEF RevokeSessions, RightJob, AccountsSteps
  <2> QED
    BY <1>0, <1>01, <1>11, <2>1 DEF RevokeSessions, Revoked
<1>12. CASE ForgetUser(r)
  <2>1. MovesOf(r)
    BY <1>12, GoesMoves DEF ForgetUser, RightJob, AccountsSteps
  <2> QED
    BY <1>0, <1>01, <1>12, <2>1 DEF ForgetUser
<1>13. CASE BreakAccounts(r)
  <2>1. MovesOf(r)
    BY <1>13, GoesMoves DEF BreakAccounts, RightJob, AccountsSteps
  <2>2. breaks' \in 0..MaxBreaks
    BY <1>01, <1>13, HandlersAssumption DEF BreakAccounts
  <2> QED
    BY <1>0, <1>01, <1>13, <2>1, <2>2 DEF BreakAccounts
<1>14. CASE WriteRotation(r)
  <2>1. MovesOf(r)
    BY <1>03, <1>14, GoesMoves DEF WriteRotation, RightJob, AccountsSteps
  <2>2. mem[r].found \subseteq Names
    BY <1>14 DEF WriteRotation, AccountsTyped, AccountsTypeOK, AccountsMemory
  <2> QED
    BY <1>0, <1>01, <1>14, <2>1, <2>2 DEF WriteRotation
<1> QED
  BY <1>1, <1>2, <1>3, <1>4, <1>5, <1>6, <1>7, <1>8, <1>9, <1>10, <1>11, <1>12, <1>13, <1>14

LEMMA AccountsTypesKept == AccountsTyped /\ [AccountsNext]_accountsVars => AccountsTyped'
<1> SUFFICES ASSUME AccountsTyped, [AccountsNext]_accountsVars PROVE AccountsTyped'
  OBVIOUS
<1>1. CASE UNCHANGED accountsVars
  <2> HIDE DEF Rows, AccountsMemory, RightJob
  <2> QED
    BY <1>1 DEF accountsVars, account, live, handlers, causes, AccountsTyped, AccountsTypeOK
<1>2. CASE LapseKey
  <2>1. UNCHANGED <<row, images, live, handlers, reopened, bare, early, misled, answered, late, ghosts>>
    BY <1>2 DEF LapseKey
  <2>2. cachedRow' \in {cachedRow, Nothing} /\ stale' \in {stale, FALSE} /\ sessions' \subseteq sessions
    BY <1>2 DEF LapseKey
  <2> HIDE DEF Rows, AccountsMemory, RightJob
  <2> QED
    BY <2>1, <2>2 DEF live, handlers, AccountsTyped, AccountsTypeOK
<1>3. ASSUME NEW r \in Requests, AccountsHandler(r) PROVE AccountsTyped'
  BY <1>3, EntryTypes, ChangeTypes DEF AccountsHandler, Jobs
<1> QED
  BY <1>1, <1>2, <1>3 DEF AccountsNext, RestAccounts

\* Who changes the row has the new one in hand.
LEMMA ChangedRow ==
  ASSUME AccountsTyped, NEW r \in Requests, Update(r) \/ Replace(r), row # Nothing
  PROVE  Holding(r, "cache", row') /\ row' \in Rows
<1>1. row \in Rows
  BY DEF AccountsTyped, AccountsTypeOK
<1> QED
  BY <1>1 DEF Update, Replace, AfterUpdate, Other, Roles, Rows, Names

-----------------------------------------------------------------------------
\* The copy of the row that is cached.

\* The steps of a handler that has changed the row, and those around them.
Ending == {"cache", "scan", "revoke", "forget"}

LEMMA ChangingStays ==
  ASSUME NEW r \in Requests, MovesOf(r),
         \/ step[r] \notin Ending
         \/ step[r] = "scan" /\ step'[r] = "revoke"
         \/ step[r] = "revoke" /\ step'[r] = "forget",
         Changing
  PROVE  Changing'
BY DEF Changing, Ending, MovesOf

LEMMA CacheStep ==
  AccountsTyped /\ RowCachedForACause /\ [AccountsNext]_accountsVars => RowCachedForACause'
<1> SUFFICES ASSUME AccountsTyped, RowCachedForACause, [AccountsNext]_accountsVars
             PROVE  RowCachedForACause'
  OBVIOUS
<1> USE DEF account, causes, live
<1>1. ASSUME NEW r \in Requests, MovesOf(r), step[r] \notin Ending,
             UNCHANGED <<row, cachedRow, stale>>
      PROVE  RowCachedForACause'
  <2>1. Changing => Changing'
    BY <1>1, ChangingStays
  <2> QED
    BY <1>1, <2>1 DEF RowCachedForACause
<1>2. ASSUME NEW c, Stored(c), UNCHANGED row PROVE RowCachedForACause'
  BY <1>2 DEF RowCachedForACause, Stored
<1>3. CASE UNCHANGED accountsVars
  BY <1>3 DEF accountsVars, handlers, RowCachedForACause, Changing
<1>4. CASE LapseKey
  BY <1>4 DEF LapseKey, handlers, RowCachedForACause, Changing
<1>5. ASSUME NEW r \in Requests, NEW j \in Jobs,
             \/ Arrive(r, j) \/ ArriveExpired(r) \/ LoadUser(r) \/ ReadUser(r) \/ FillUser(r)
             \/ Enter(r) \/ Connect(r) \/ Disconnect(r) \/ BeginChange(r, j) \/ BeginRead(r, j)
      PROVE  RowCachedForACause'
  <2>1. CASE Disconnect(r)
    BY <2>1 DEF Disconnect, handlers, RowCachedForACause, Changing
  <2>2. CASE FillUser(r)
    BY <1>2, <2>2 DEF FillUser
  <2>3. CASE ~Disconnect(r) /\ ~FillUser(r)
    <3>1. MovesOf(r)
      BY <1>5, <2>3, EntryTypes
    <3>2. step[r] \notin Ending /\ UNCHANGED <<row, cachedRow, stale>>
      BY <1>5, <2>3
      DEF Arrive, ArriveExpired, LoadUser, ReadUser, Enter, Connect, BeginChange, BeginRead, Begins, Ending
    <3> QED
      BY <1>1, <3>1, <3>2
  <2> QED
    BY <2>1, <2>2, <2>3
<1>6. ASSUME NEW r \in Requests,
             \/ Update(r) \/ CacheUser(r) \/ Destroy(r) \/ Upload(r) \/ UploadFails(r)
             \/ Replace(r) \/ Place(r) \/ OpenSession(r) \/ DeleteRow(r) \/ ScanSessions(r)
             \/ RevokeSessions(r) \/ ForgetUser(r) \/ BreakAccounts(r) \/ WriteRotation(r)
      PROVE  RowCachedForACause'
  <2>0. MovesOf(r)
    BY <1>6, ChangeTypes
  <2>1. CASE \/ Destroy(r) \/ Upload(r) \/ UploadFails(r) \/ Place(r) \/ OpenSession(r)
             \/ WriteRotation(r)
    <3>1. step[r] \notin Ending /\ UNCHANGED <<row, cachedRow, stale>>
      BY <2>1 DEF Destroy, Upload, UploadFails, Place, OpenSession, WriteRotation, Ending
    <3> QED
      BY <1>1, <2>0, <3>1
  <2>2. CASE Update(r) \/ Replace(r)
    <3>1. CASE row = Nothing
      BY <1>1, <2>0, <2>2, <3>1 DEF Update, Replace, Ending
    <3>2. CASE row # Nothing
      <4>1. Holding(r, "cache", row') /\ row' \in Rows
        BY <2>2, <3>2, ChangedRow
      <4>2. mem[r].job \in {"info", "role", "picture"} /\ step[r] \notin {"free", "done"}
        BY <2>2 DEF Update, Replace, AccountsTyped, RightJob
      <4>3. step'[r] = "cache" /\ mem'[r].job = mem[r].job
        BY <4>1, <4>2, HoldingMoves DEF AccountsSteps, RightJob
      <4> QED
        BY <4>2, <4>3 DEF RowCachedForACause, Changing
    <3> QED
      BY <3>1, <3>2
  <2>3. CASE CacheUser(r)
    BY <1>2, <2>3 DEF CacheUser
  <2>4. CASE DeleteRow(r)
    <3>1. step'[r] = "scan"
      BY <2>4, BeginsMoves DEF DeleteRow, AccountsSteps, Jobs, RightJob
    <3> QED
      BY <3>1 DEF RowCachedForACause, Changing
  <2>5. CASE ScanSessions(r) \/ RevokeSessions(r)
    <3>1. UNCHANGED <<row, cachedRow, stale>>
      BY <2>5 DEF ScanSessions, RevokeSessions
    <3>2. step \in [Requests -> AccountsSteps]
      BY DEF AccountsTyped, AccountsTypeOK
    <3>3. \/ step[r] = "scan" /\ step'[r] = "revoke"
          \/ step[r] = "revoke" /\ step'[r] = "forget"
      BY <2>5, <3>2 DEF ScanSessions, RevokeSessions, Goes, GoesWith
    <3>4. Changing => Changing'
      BY <2>0, <3>3, ChangingStays
    <3> QED
      BY <3>1, <3>4 DEF RowCachedForACause
  <2>6. CASE ForgetUser(r)
    BY <2>6 DEF ForgetUser, RowCachedForACause
  <2>7. CASE BreakAccounts(r)
    <3>1. CASE step[r] \in Ending
      BY <2>7, <3>1 DEF BreakAccounts, Ending, RowCachedForACause
    <3>2. CASE step[r] \notin Ending
      <4>1. UNCHANGED <<row, cachedRow>> /\ stale' = stale
        BY <2>7, <3>2 DEF BreakAccounts, Ending, AccountsTyped, AccountsTypeOK
      <4> QED
        BY <1>1, <2>0, <3>2, <4>1
    <3> QED
      BY <3>1, <3>2
  <2> QED
    BY <1>6, <2>1, <2>2, <2>3, <2>4, <2>5, <2>6, <2>7
<1> QED
  BY <1>3, <1>4, <1>5, <1>6 DEF AccountsNext, AccountsHandler, RestAccounts, Jobs

-----------------------------------------------------------------------------
\* The sessions of an account that was deleted.
DeletedInv ==
  /\ ghosts \subseteq late
  /\ late # {} => reopened
  /\ answered => row = Nothing /\ (sessions = {} \/ reopened)
  /\ \A r \in Requests :
       /\ step[r] \in {"scan", "revoke", "forget"} => row = Nothing
       /\ step[r] = "revoke" => sessions \subseteq mem[r].found \/ reopened
       /\ step[r] = "forget" => sessions = {} \/ reopened

LEMMA DeletedStep ==
  AccountsTyped /\ DeletedInv /\ [AccountsNext]_accountsVars => DeletedInv'
<1> SUFFICES ASSUME AccountsTyped, DeletedInv, [AccountsNext]_accountsVars PROVE DeletedInv'
  OBVIOUS
<1> USE DEF account, causes, live
<1>0. row = Nothing => row' = Nothing
  BY DEF AccountsNext, AccountsHandler, accountsVars, RestAccounts, LapseKey, Arrive,
         ArriveExpired, WriteRotation, LoadUser, ReadUser, FillUser, Enter, Connect, Disconnect, BeginChange, BeginRead, Update, CacheUser,
         Destroy, Upload, UploadFails, Replace, Place, OpenSession, DeleteRow, ScanSessions,
         RevokeSessions, ForgetUser, BreakAccounts
<1>1. ASSUME NEW r \in Requests, MovesOf(r), step'[r] \notin {"scan", "revoke", "forget"},
             sessions' \subseteq sessions \/ reopened', reopened => reopened', answered' = answered,
             ghosts' \subseteq late', late' # {} => reopened'
      PROVE  DeletedInv'
  BY <1>0, <1>1 DEF DeletedInv, MovesOf
<1>2. CASE UNCHANGED accountsVars
  BY <1>2 DEF accountsVars, handlers, DeletedInv
<1>3. CASE LapseKey
  BY <1>3 DEF LapseKey, handlers, DeletedInv
<1>4. ASSUME NEW r \in Requests, NEW j \in Jobs,
             \/ Arrive(r, j) \/ ArriveExpired(r) \/ LoadUser(r) \/ ReadUser(r) \/ FillUser(r)
             \/ Enter(r) \/ Connect(r) \/ Disconnect(r) \/ BeginChange(r, j) \/ BeginRead(r, j)
      PROVE  DeletedInv'
  <2>1. CASE Disconnect(r)
    BY <2>1 DEF Disconnect, handlers, DeletedInv
  <2>2. CASE ~Disconnect(r)
    <3>1. MovesOf(r)
      BY <1>4, <2>2, EntryTypes
    <3>2. step'[r] \notin {"scan", "revoke", "forget"}
      <4>1. CASE Arrive(r, j) \/ BeginChange(r, j) \/ BeginRead(r, j)
        BY <4>1 DEF Arrive, BeginChange, BeginRead, Begins, GoesWith, AccountsTyped, AccountsTypeOK
      <4>4. CASE ArriveExpired(r)
        BY <4>4, ExpiredMoves
      <4>2. CASE ReadUser(r)
        <5>1. mem[r].job \in {"visit", "socket", "order", "signin", "picture"}
          BY <4>2 DEF ReadUser, AccountsTyped, RightJob
        <5> QED
          BY <4>2, <5>1
          DEF ReadUser, AfterRow, Holding, Goes, GoesWith, AccountsTyped, AccountsTypeOK
      <4>3. CASE LoadUser(r) \/ FillUser(r) \/ Enter(r) \/ Connect(r)
        BY <4>3
        DEF LoadUser, FillUser, Enter, Connect, Holding, Goes, GoesWith, AccountsTyped, AccountsTypeOK
      <4> QED
        BY <1>4, <2>2, <4>1, <4>2, <4>3, <4>4
    <3>3. UNCHANGED <<sessions, reopened, answered>>
      BY <1>4, <2>2
      DEF Arrive, ArriveExpired, LoadUser, ReadUser, FillUser, Enter, Connect, BeginChange, BeginRead
    <3>4. ghosts' \subseteq late' /\ (late' # {} => reopened')
      BY <1>4, <2>2
      DEF Arrive, ArriveExpired, LoadUser, ReadUser, FillUser, Enter, Connect, BeginChange, BeginRead,
          DeletedInv
    <3> QED
      BY <1>1, <3>1, <3>2, <3>3, <3>4
  <2> QED
    BY <2>1, <2>2
<1>5. ASSUME NEW r \in Requests,
             \/ Update(r) \/ CacheUser(r) \/ Destroy(r) \/ Upload(r) \/ UploadFails(r)
             \/ Replace(r) \/ Place(r) \/ OpenSession(r) \/ DeleteRow(r) \/ ScanSessions(r)
             \/ RevokeSessions(r) \/ ForgetUser(r) \/ BreakAccounts(r) \/ WriteRotation(r)
      PROVE  DeletedInv'
  <2>0. MovesOf(r)
    BY <1>5, ChangeTypes
  <2>1. CASE \/ Update(r) \/ CacheUser(r) \/ Destroy(r) \/ Upload(r) \/ UploadFails(r)
             \/ Replace(r) \/ Place(r) \/ OpenSession(r) \/ BreakAccounts(r) \/ WriteRotation(r)
    <3>1. step'[r] \notin {"scan", "revoke", "forget"}
      BY <2>1
      DEF Update, CacheUser, Destroy, Upload, UploadFails, Replace, Place, OpenSession, BreakAccounts,
          WriteRotation, AfterUpdate, AfterFailedUpload, Holding, Goes, GoesWith, AccountsTyped, AccountsTypeOK
    <3>2. CASE (OpenSession(r) \/ WriteRotation(r)) /\ row # Nothing
      <4>1. UNCHANGED <<row, answered, late, ghosts>> /\ (reopened => reopened')
        BY <3>2 DEF OpenSession, WriteRotation
      <4>2. ~answered /\ \A q \in Requests : step[q] \notin {"scan", "revoke", "forget"}
        BY <3>2 DEF DeletedInv
      <4> QED
        BY <2>0, <3>1, <4>1, <4>2 DEF DeletedInv, MovesOf
    <3>3. CASE ~((OpenSession(r) \/ WriteRotation(r)) /\ row # Nothing)
      <4>0. UNCHANGED <<answered, ghosts, late>>
        BY <2>1
        DEF Update, CacheUser, Destroy, Upload, UploadFails, Replace, Place, OpenSession, BreakAccounts,
            WriteRotation
      <4>1. /\ sessions' \subseteq sessions \/ reopened'
            /\ reopened => reopened'
        <5>1. CASE OpenSession(r) \/ WriteRotation(r)
          <6>1. row = Nothing
            BY <3>3, <5>1
          <6> QED
            BY <5>1, <6>1 DEF OpenSession, WriteRotation
        <5>2. CASE ~(OpenSession(r) \/ WriteRotation(r))
          <6>1. UNCHANGED <<sessions, reopened>>
            BY <2>1, <5>2
            DEF Update, CacheUser, Destroy, Upload, UploadFails, Replace, Place, BreakAccounts
          <6> QED
            BY <6>1
        <5> QED
          BY <5>1, <5>2
      <4> QED
        BY <1>1, <2>0, <3>1, <4>0, <4>1 DEF DeletedInv
    <3> QED
      BY <3>2, <3>3
  <2>2. CASE DeleteRow(r)
    <3>1. step'[r] = "scan"
      BY <2>2, BeginsMoves DEF DeleteRow, AccountsSteps, Jobs, RightJob
    <3> QED
      BY <2>0, <2>2, <3>1 DEF DeleteRow, DeletedInv, MovesOf
  <2>3. CASE ScanSessions(r)
    <3>1. step'[r] = "revoke" /\ mem'[r].found = sessions
      <4> DEFINE m == [mem[r] EXCEPT !.found = sessions]
      <4>1. m.found = sessions
        BY <2>3, AccountMemories DEF ScanSessions
      <4>2. GoesWith(r, "revoke", m)
        BY <2>3 DEF ScanSessions
      <4> HIDE DEF m
      <4> QED
        BY <4>1, <4>2 DEF GoesWith, AccountsTyped, AccountsTypeOK
    <3> QED
      BY <2>0, <2>3, <3>1 DEF ScanSessions, DeletedInv, MovesOf
  <2>4. CASE RevokeSessions(r)
    <3>1. step'[r] = "forget"
      BY <2>4 DEF RevokeSessions, Goes, GoesWith, AccountsTyped, AccountsTypeOK
    <3> QED
      BY <2>0, <2>4, <3>1 DEF RevokeSessions, Revoked, DeletedInv, MovesOf
  <2>5. CASE ForgetUser(r)
    <3>1. step'[r] = "done"
      BY <2>5 DEF ForgetUser, Goes, GoesWith, AccountsTyped, AccountsTypeOK
    <3> QED
      BY <2>0, <2>5, <3>1 DEF ForgetUser, DeletedInv, MovesOf
  <2> QED
    BY <1>5, <2>1, <2>2, <2>3, <2>4, <2>5
<1> QED
  BY <1>2, <1>3, <1>4, <1>5 DEF AccountsNext, AccountsHandler, RestAccounts, Jobs

-----------------------------------------------------------------------------
\* The picture.

\* A picture that a row had was put there by a handler that has finished with it.
PictureInv ==
  /\ row # Nothing =>
       row.image \in images \/ bare \/ \E q \in Requests : step[q] \in {"upload", "replace"}
  /\ \A r \in Requests :
       /\ step[r] = "replace" => r \in images
       /\ row # Nothing /\ row.image = r => step[r] \in {"cache", "done"}
       /\ \A q \in Requests :
            step[q] = "destroy" /\ mem[q].copy.image = r => step[r] \in {"cache", "done"}

LEMMA PictureStep ==
  AccountsTyped /\ PictureInv /\ [AccountsNext]_accountsVars => PictureInv'
<1> SUFFICES ASSUME AccountsTyped, PictureInv, [AccountsNext]_accountsVars PROVE PictureInv'
  OBVIOUS
<1> USE DEF account, causes, live
<1>1. ASSUME NEW r \in Requests, MovesOf(r), step'[r] \notin {"destroy", "replace"},
             step[r] \notin {"upload", "replace"} \/ bare',
             step[r] \in {"cache", "done"} => step'[r] \in {"cache", "done"},
             \/ row' = row
             \/ row' = Nothing
             \/ row # Nothing /\ row'.image = row.image,
             images' = images, bare => bare'
      PROVE  PictureInv'
  BY <1>1 DEF PictureInv, MovesOf
<1>2. CASE UNCHANGED accountsVars
  BY <1>2 DEF accountsVars, handlers, PictureInv
<1>3. CASE LapseKey
  BY <1>3 DEF LapseKey, handlers, PictureInv
<1>4. ASSUME NEW r \in Requests, NEW j \in Jobs,
             \/ Arrive(r, j) \/ ArriveExpired(r) \/ LoadUser(r) \/ ReadUser(r) \/ FillUser(r)
             \/ Enter(r) \/ Connect(r) \/ Disconnect(r) \/ BeginChange(r, j) \/ BeginRead(r, j)
      PROVE  PictureInv'
  <2>1. CASE Disconnect(r)
    BY <2>1 DEF Disconnect, handlers, PictureInv
  <2>2. CASE ReadUser(r) /\ row # Nothing
    <3>1. row \in Rows /\ step[r] = "row"
      BY <2>2 DEF ReadUser, AccountsTyped, AccountsTypeOK
    <3>2. mem[r].job \in {"visit", "socket", "order", "signin", "picture"}
      BY <2>2 DEF ReadUser, AccountsTyped, RightJob
    <3>3. AfterRow[mem[r].job] \in {"fill", "place", "open", "destroy"}
      BY <3>2 DEF AfterRow
    <3>4. MovesOf(r) /\ step'[r] \in {"fill", "place", "open", "destroy"} /\ mem'[r].copy = row
      <4>1. Holding(r, AfterRow[mem[r].job], row)
        BY <2>2 DEF ReadUser
      <4>2. RightJob(AfterRow[mem[r].job], mem[r].job)
        BY <3>2 DEF AfterRow, RightJob
      <4> QED
        BY <3>1, <3>3, <4>1, <4>2, HoldingMoves DEF AccountsSteps
    <3>5. UNCHANGED <<row, images, bare>>
      BY <2>2 DEF ReadUser
    <3> QED
      BY <2>2, <3>1, <3>4, <3>5 DEF PictureInv, MovesOf
  <2>3. CASE ~Disconnect(r) /\ ~(ReadUser(r) /\ row # Nothing)
    <3>1. MovesOf(r)
      BY <1>4, <2>3, EntryTypes
    <3>2. /\ step'[r] \notin {"destroy", "replace"}
          /\ step[r] \notin {"upload", "replace", "cache", "done"}
      BY <1>4, <2>3
      DEF Arrive, ArriveExpired, LoadUser, ReadUser, FillUser, Enter, Connect, BeginChange, BeginRead,
          Begins, Holding, Goes, GoesWith, AccountsTyped, AccountsTypeOK
    <3>3. UNCHANGED <<row, images, bare>>
      BY <1>4, <2>3
      DEF Arrive, ArriveExpired, LoadUser, ReadUser, FillUser, Enter, Connect, BeginChange, BeginRead
    <3> QED
      BY <1>1, <3>1, <3>2, <3>3
  <2> QED
    BY <2>1, <2>2, <2>3
<1>5. ASSUME NEW r \in Requests,
             \/ Update(r) \/ CacheUser(r) \/ Destroy(r) \/ Upload(r) \/ UploadFails(r)
             \/ Replace(r) \/ Place(r) \/ OpenSession(r) \/ DeleteRow(r) \/ ScanSessions(r)
             \/ RevokeSessions(r) \/ ForgetUser(r) \/ BreakAccounts(r) \/ WriteRotation(r)
      PROVE  PictureInv'
  <2>0. MovesOf(r) /\ step \in [Requests -> AccountsSteps]
    BY <1>5, ChangeTypes DEF AccountsTyped, AccountsTypeOK
  <2>1. CASE Update(r)
    <3>1. \/ row' = row
          \/ row # Nothing /\ row'.image = row.image
      <4>1. CASE row = Nothing
        BY <2>1, <4>1 DEF Update
      <4>2. CASE row # Nothing
        BY <2>1, <4>2 DEF Update
      <4> QED
        BY <4>1, <4>2
    <3>2. step'[r] \in {"cache", "done"}
      BY <2>0, <2>1 DEF Update, AfterUpdate, Holding, Goes, GoesWith
    <3> QED
      BY <1>1, <2>0, <2>1, <3>1, <3>2 DEF Update
  <2>2. CASE \/ CacheUser(r) \/ Place(r) \/ OpenSession(r) \/ ScanSessions(r)
             \/ RevokeSessions(r) \/ ForgetUser(r) \/ WriteRotation(r)
    <3>1. /\ step'[r] \notin {"destroy", "replace"}
          /\ step[r] \notin {"upload", "replace"}
          /\ step[r] \in {"cache", "done"} => step'[r] \in {"cache", "done"}
      BY <2>0, <2>2
      DEF CacheUser, Place, OpenSession, ScanSessions, RevokeSessions, ForgetUser, WriteRotation,
          Goes, GoesWith
    <3>2. UNCHANGED <<row, images, bare>>
      BY <2>2
      DEF CacheUser, Place, OpenSession, ScanSessions, RevokeSessions, ForgetUser, WriteRotation
    <3> QED
      BY <1>1, <2>0, <3>1, <3>2
  <2>3. CASE DeleteRow(r)
    <3>1. step'[r] = "scan" /\ step[r] = "free"
      BY <2>0, <2>3 DEF DeleteRow, Begins, GoesWith
    <3> QED
      BY <1>1, <2>0, <2>3, <3>1 DEF DeleteRow
  <2>4. CASE UploadFails(r)
    <3>1. step'[r] = "done" /\ step[r] = "upload" /\ bare'
      BY <2>0, <2>4 DEF UploadFails, AfterFailedUpload, Goes, GoesWith
    <3> QED
      BY <1>1, <2>0, <2>4, <3>1 DEF UploadFails
  <2>5. CASE BreakAccounts(r)
    <3>1. step'[r] = "done" /\ step[r] \in {"upload", "replace", "cache", "scan", "revoke", "forget"}
      BY <2>0, <2>5 DEF BreakAccounts, Goes, GoesWith
    <3>2. (bare => bare') /\ (step[r] \in {"upload", "replace"} => bare') /\ UNCHANGED <<row, images>>
      BY <2>5 DEF BreakAccounts
    <3> QED
      BY <1>1, <2>0, <3>1, <3>2
  <2>6. CASE Destroy(r)
    <3>1. step'[r] = "upload" /\ step[r] = "destroy"
      BY <2>0, <2>6 DEF Destroy, Goes, GoesWith
    <3>2. UNCHANGED <<row, bare>> /\ images' = images \ {mem[r].copy.image}
      BY <2>6 DEF Destroy
    <3> QED
      BY <2>0, <3>1, <3>2 DEF PictureInv, MovesOf
  <2>7. CASE Upload(r)
    <3>1. step'[r] = "replace" /\ step[r] = "upload"
      BY <2>0, <2>7 DEF Upload, Goes, GoesWith
    <3>2. UNCHANGED <<row, bare>> /\ images' = images \union {r}
      BY <2>7 DEF Upload
    <3> QED
      BY <2>0, <3>1, <3>2 DEF PictureInv, MovesOf
  <2>8. CASE Replace(r)
    <3>0. UNCHANGED <<images, bare>> /\ step[r] = "replace"
      BY <2>8 DEF Replace
    <3>1. CASE row = Nothing
      <4>1. step'[r] = "done" /\ row' = Nothing
        BY <2>0, <2>8, <3>1 DEF Replace, Goes, GoesWith
      <4> QED
        BY <2>0, <3>0, <4>1 DEF PictureInv, MovesOf
    <3>2. CASE row # Nothing
      <4>1. row' \in Rows /\ row'.image = r
        BY <2>8, <3>2, ChangedRow DEF Replace
      <4>2. step'[r] = "cache"
        BY <2>0, <2>8, <3>2 DEF Replace, AfterUpdate, Holding, GoesWith
      <4> QED
        BY <2>0, <3>0, <4>1, <4>2 DEF PictureInv, MovesOf
    <3> QED
      BY <3>1, <3>2
  <2> QED
    BY <1>5, <2>1, <2>2, <2>3, <2>4, <2>5, <2>6, <2>7, <2>8
<1> QED
  BY <1>2, <1>3, <1>4, <1>5 DEF AccountsNext, AccountsHandler, RestAccounts, Jobs

-----------------------------------------------------------------------------
\* The admin room.

LEMMA RoomStep ==
  AccountsTyped /\ AdminRoomForACause /\ [AccountsNext]_accountsVars => AdminRoomForACause'
<1> SUFFICES ASSUME AccountsTyped, AdminRoomForACause, [AccountsNext]_accountsVars
             PROVE  AdminRoomForACause'
  OBVIOUS
<1> USE DEF account, causes, live
<1>1. ASSUME adminRoom' \subseteq adminRoom, early \subseteq early', misled \subseteq misled',
             row' = row \/ row' = Nothing
      PROVE  AdminRoomForACause'
  BY <1>1 DEF AdminRoomForACause
<1>2. CASE UNCHANGED accountsVars
  BY <1>1, <1>2 DEF accountsVars
<1>3. CASE LapseKey
  BY <1>1, <1>3 DEF LapseKey
<1>4. ASSUME NEW r \in Requests, Connect(r) PROVE AdminRoomForACause'
  <2>1. CASE row # Nothing /\ row.role = "user" /\ mem[r].copy = row
    BY <1>4, <2>1 DEF Connect, JoinsAdmins, AdminRoomForACause
  <2>2. CASE row # Nothing /\ row.role = "user" /\ mem[r].copy # row
    BY <1>4, <2>2 DEF Connect, AdminRoomForACause
  <2>3. CASE ~(row # Nothing /\ row.role = "user")
    BY <1>4, <2>3 DEF Connect, AdminRoomForACause
  <2> QED
    BY <2>1, <2>2, <2>3
<1>5. ASSUME NEW r \in Requests, Update(r) PROVE AdminRoomForACause'
  <2>1. CASE row = Nothing
    BY <1>1, <1>5, <2>1 DEF Update
  <2>2. CASE row # Nothing /\ mem[r].job = "role"
    <3>1. adminRoom \subseteq Handshakes
      BY DEF Handshakes, AccountsTyped, AccountsTypeOK
    <3>2. adminRoom' = adminRoom /\ early' = early \union Handshakes
      BY <1>5, <2>2 DEF Update
    <3> QED
      BY <3>1, <3>2 DEF AdminRoomForACause
  <2>3. CASE row # Nothing /\ mem[r].job # "role"
    <3>1. row'.role = row.role
      BY <1>5, <2>3 DEF Update
    <3>2. UNCHANGED <<misled, adminRoom>>
      BY <1>5 DEF Update
    <3>3. early \subseteq early'
      BY <1>5, <2>3 DEF Update
    <3> QED
      BY <2>3, <3>1, <3>2, <3>3 DEF AdminRoomForACause
  <2> QED
    BY <2>1, <2>2, <2>3
<1>6. ASSUME NEW r \in Requests, Replace(r) PROVE AdminRoomForACause'
  <2>1. CASE row = Nothing
    BY <1>1, <1>6, <2>1 DEF Replace
  <2>2. CASE row # Nothing
    <3>1. row'.role = row.role /\ UNCHANGED <<early, misled, adminRoom>>
      BY <1>6, <2>2 DEF Replace
    <3> QED
      BY <2>2, <3>1 DEF AdminRoomForACause
  <2> QED
    BY <2>1, <2>2
<1>7. ASSUME NEW r \in Requests, NEW j \in Jobs,
             \/ Arrive(r, j) \/ ArriveExpired(r) \/ LoadUser(r) \/ ReadUser(r) \/ FillUser(r)
             \/ Enter(r) \/ Disconnect(r) \/ BeginChange(r, j) \/ BeginRead(r, j)
             \/ CacheUser(r) \/ Destroy(r) \/ Upload(r) \/ UploadFails(r)
             \/ Place(r) \/ OpenSession(r) \/ DeleteRow(r) \/ ScanSessions(r)
             \/ RevokeSessions(r) \/ ForgetUser(r) \/ BreakAccounts(r) \/ WriteRotation(r)
      PROVE  AdminRoomForACause'
  <2>1. /\ adminRoom' \subseteq adminRoom /\ early \subseteq early' /\ misled \subseteq misled'
        /\ row' = row \/ row' = Nothing
    BY <1>7
    DEF Arrive, ArriveExpired, WriteRotation, LoadUser, ReadUser, FillUser, Enter, Disconnect,
        BeginChange, BeginRead, CacheUser, Destroy, Upload, UploadFails, Place, OpenSession, DeleteRow, ScanSessions, RevokeSessions,
        ForgetUser, BreakAccounts
  <2> QED
    BY <1>1, <2>1
<1> QED
  BY <1>2, <1>3, <1>4, <1>5, <1>6, <1>7 DEF AccountsNext, AccountsHandler, RestAccounts, Jobs

LEMMA AccountsStart ==
  AccountsInit =>
    AccountsTyped /\ RowCachedForACause /\ DeletedInv /\ PictureInv /\ AdminRoomForACause
<1> SUFFICES ASSUME AccountsInit
             PROVE  AccountsTyped /\ RowCachedForACause /\ DeletedInv /\ PictureInv /\ AdminRoomForACause
  OBVIOUS
<1>1. row \in Rows /\ row.image = First
  BY DEF AccountsInit, Rows, Names
<1>2. step = [r \in Requests |-> "free"] /\ mem = [r \in Requests |-> Nothing]
  BY DEF AccountsInit
<1>3. breaks \in 0..MaxBreaks
  BY HandlersAssumption DEF AccountsInit
<1>4. AccountsTypeOK
  <2> HIDE DEF Rows, AccountsMemory
  <2> QED
    BY <1>1, <1>2, <1>3 DEF AccountsInit, AccountsTypeOK, AccountsSteps, Names
<1>5. AccountsTyped
  BY <1>2, <1>4 DEF AccountsTyped
<1>6. RowCachedForACause /\ DeletedInv /\ AdminRoomForACause
  BY <1>2 DEF AccountsInit, RowCachedForACause, DeletedInv, AdminRoomForACause
<1>7. PictureInv
  BY <1>1, <1>2, AccountsAssumption DEF AccountsInit, PictureInv
<1> QED
  BY <1>5, <1>6, <1>7

\* The row of an account, its copy, pictures, sessions and sockets keep their
\* types, for any requests.
THEOREM AccountsTypeCorrect == AccountsSpec => []AccountsTypeOK
<1>1. AccountsInit => AccountsTyped
  BY AccountsStart
<1>2. AccountsTyped => AccountsTypeOK
  BY DEF AccountsTyped
<1> QED
  BY <1>1, <1>2, AccountsTypesKept, PTL DEF AccountsSpec

\* What is derived from the row of an account agrees with it, but for the
\* causes that AccountIsConsistent names (cacheUser, forgetUser,
\* revokeAllSessions, updateProfilePicture, socket.ts).
THEOREM AccountStaysConsistent == AccountsSpec => []AccountIsConsistent
<1>1. AccountsInit => AccountsTyped /\ RowCachedForACause /\ DeletedInv /\ PictureInv /\ AdminRoomForACause
  BY AccountsStart
<1>2. RowCachedForACause /\ DeletedInv /\ PictureInv /\ AdminRoomForACause => AccountIsConsistent
  BY DEF AccountIsConsistent, DeletedInv, DeletedAreRefused, PictureInv, PictureExists
<1> QED
  BY <1>1, <1>2, AccountsTypesKept, CacheStep, DeletedStep, PictureStep, RoomStep, PTL DEF AccountsSpec

-----------------------------------------------------------------------------
\* Identity.

\* A code is being presented; a login code or a state is being used.
Presents == {"miss", "hit"}
ByCode == {"redeem", "open"}
ByState == {"verify", "attach", "seek", "probe", "enroll", "clean", "enter"}
KeySteps == ByCode \union ByState

IdentityTyped ==
  /\ IdentityTypeOK
  /\ \A r \in Requests :
       /\ step[r] \in Presents \union KeySteps => mem[r] \in IdentityMemory
       /\ step[r] \in KeySteps => mem[r].key \in Requests

\* A handler goes from s to t.
Moved(r, s, t) ==
  /\ step \in [Requests -> IdentitySteps] /\ step' \in [Requests -> IdentitySteps]
  /\ step[r] = s /\ step'[r] = t
  /\ \A q \in Requests \ {r} : step'[q] = step[q] /\ mem'[q] = mem[q]
  /\ mem' \in [Requests -> IdentityMemory \union {Nothing}]

LEMMA IdentityGoes ==
  ASSUME IdentityTyped, NEW r \in Requests, NEW t \in IdentitySteps, Goes(r, t)
  PROVE  Moved(r, step[r], t) /\ (t # "done" => mem'[r] = mem[r])
<1> HIDE DEF IdentityMemory
<1> QED
  BY DEF IdentityTyped, IdentityTypeOK, Moved, Goes, GoesWith

LEMMA IdentityGoesWith ==
  ASSUME IdentityTyped, NEW r \in Requests, NEW t \in IdentitySteps \ {"done"},
         NEW m \in IdentityMemory \union {Nothing}, GoesWith(r, t, m)
  PROVE  Moved(r, step[r], t) /\ mem'[r] = m
<1> HIDE DEF IdentityMemory
<1> QED
  BY DEF IdentityTyped, IdentityTypeOK, Moved, GoesWith

\* What a handler remembers when it has presented or used something.
LEMMA IdentityMemories ==
  ASSUME IdentityTyped
  PROVE  /\ \A r \in Requests : step[r] \in Presents \union KeySteps =>
              mem[r].key \in Registrations /\ mem[r].tries \in Nat /\ mem[r].linking \in BOOLEAN
         /\ \A k \in Registrations, n \in Nat, b \in BOOLEAN :
              [key |-> k, tries |-> n, linking |-> b] \in IdentityMemory
BY DEF IdentityTyped, IdentityMemory

\* A mere move: nothing but the accounts changes.
Mere(r, s, t) ==
  /\ Moved(r, s, t)
  /\ t # "done" => mem'[r] = mem[r]
  /\ s \notin {"done", "miss", "hit"} /\ t # "free"
  /\ t \notin {"miss", "hit", "redeem", "open", "verify", "enter"}
  /\ t = "register" => s = "free"
  /\ t \in ByState => s \in ByState \ {"enter"}
  /\ UNCHANGED <<pending, told, codes, states, uses>>

LEMMA MereMoves ==
  ASSUME IdentityTyped, NEW r \in Requests,
         \/ Register(r) \/ MailFails(r) \/ CheckEmail(r) \/ Activate(r)
         \/ (\E d \in Dids : Callback(r, d) \/ StartIM8(r, d))
         \/ FindByDid(r) \/ AdoptDid(r) \/ Verify(r) \/ Attach(r) \/ Greet(r) \/ ProbeEmail(r)
         \/ AdoptIM8(r)
  PROVE  \E t \in IdentitySteps : Mere(r, step[r], t)
<1> USE DEF store, IdentitySteps, ByState
<1>0. ASSUME NEW t \in IdentitySteps, Goes(r, t) PROVE Moved(r, step[r], t) /\ (t # "done" => mem'[r] = mem[r])
  BY <1>0, IdentityGoes
<1>1. CASE Register(r)
  BY <1>0, <1>1 DEF Register, Mere
<1>2. CASE MailFails(r)
  <2>1. PICK t \in {"withdraw", "done"} : Goes(r, t)
    BY <1>2 DEF MailFails
  <2> QED
    BY <1>0, <1>2, <2>1 DEF MailFails, Mere
<1>3. CASE CheckEmail(r)
  BY <1>0, <1>3 DEF CheckEmail, Mere
<1>4. CASE Activate(r)
  BY <1>0, <1>4 DEF Activate, Mere
<1>5. ASSUME NEW d \in Dids, Callback(r, d) \/ StartIM8(r, d) PROVE \E t \in IdentitySteps : Mere(r, step[r], t)
  BY <1>0, <1>5 DEF Callback, StartIM8, Mere
<1>6. CASE FindByDid(r)
  BY <1>0, <1>6 DEF FindByDid, Mere
<1>7. CASE AdoptDid(r)
  <2>1. Goes(r, "hand out") \/ Goes(r, "done")
    BY <1>7 DEF AdoptDid, Creates
  <2> QED
    BY <1>0, <1>7, <2>1 DEF AdoptDid, Mere
<1>8. CASE Verify(r)
  <2>1. PICK t \in {"done", "attach", "probe", "seek"} : Goes(r, t)
    BY <1>8 DEF Verify
  <2> QED
    BY <1>0, <1>8, <2>1 DEF Verify, Mere
<1>9. CASE Attach(r)
  <2>1. Goes(r, "clean") \/ Goes(r, "done")
    BY <1>9 DEF Attach
  <2> QED
    BY <1>0, <1>9, <2>1 DEF Attach, Mere
<1>10. CASE Greet(r)
  BY <1>0, <1>10 DEF Greet, Mere
<1>11. CASE ProbeEmail(r)
  BY <1>0, <1>11 DEF ProbeEmail, Mere
<1>12. CASE AdoptIM8(r)
  <2>1. Goes(r, "clean") \/ Goes(r, "done")
    BY <1>12 DEF AdoptIM8, Creates
  <2> QED
    BY <1>0, <1>12, <2>1 DEF AdoptIM8, Mere
<1> QED
  BY <1>1, <1>2, <1>3, <1>4, <1>5, <1>6, <1>7, <1>8, <1>9, <1>10, <1>11, <1>12

\* A move keeps the types if what it leaves in memory is right.
LEMMA MovedMemory ==
  ASSUME IdentityTyped, NEW r \in Requests, NEW s, NEW t \in IdentitySteps, Moved(r, s, t),
         t \in Presents \union KeySteps => mem'[r] \in IdentityMemory,
         t \in KeySteps => mem'[r].key \in Requests
  PROVE  /\ step' \in [Requests -> IdentitySteps]
         /\ mem' \in [Requests -> IdentityMemory \union {Nothing}]
         /\ \A q \in Requests :
              /\ step'[q] \in Presents \union KeySteps => mem'[q] \in IdentityMemory
              /\ step'[q] \in KeySteps => mem'[q].key \in Requests
<1> HIDE DEF IdentityMemory, Presents, KeySteps
<1> QED
  BY DEF IdentityTyped, Moved

LEMMA MereTypes ==
  ASSUME IdentityTyped, NEW r \in Requests, NEW t \in IdentitySteps, Mere(r, step[r], t),
         breaks' \in 0..MaxBreaks, did' \in [Requests -> Dids],
         emails' \subseteq Accounts \X Emails, holderOf' \in [Dids -> Accounts \union {Nothing}]
  PROVE  IdentityTyped'
<1>1. t \in Presents \union KeySteps => step[r] \in KeySteps /\ mem'[r] = mem[r]
  BY DEF Mere, Presents, KeySteps, ByCode, ByState
<1>2. /\ step' \in [Requests -> IdentitySteps]
      /\ mem' \in [Requests -> IdentityMemory \union {Nothing}]
      /\ \A q \in Requests :
           /\ step'[q] \in Presents \union KeySteps => mem'[q] \in IdentityMemory
           /\ step'[q] \in KeySteps => mem'[q].key \in Requests
  <2>1. t \in Presents \union KeySteps => mem'[r] \in IdentityMemory /\ mem'[r].key \in Requests
    BY <1>1 DEF IdentityTyped
  <2>2. Moved(r, step[r], t)
    BY DEF Mere
  <2> QED
    BY <2>1, <2>2, MovedMemory
<1>3. UNCHANGED <<pending, told, codes, states, uses>>
  BY DEF Mere
<1> QED
  BY <1>2, <1>3 DEF IdentityTyped, IdentityTypeOK, uses

LEMMA MereActionTypes ==
  ASSUME IdentityTyped, NEW r \in Requests,
         \/ Register(r) \/ MailFails(r) \/ CheckEmail(r) \/ Activate(r)
         \/ (\E d \in Dids : Callback(r, d) \/ StartIM8(r, d))
         \/ FindByDid(r) \/ AdoptDid(r) \/ Verify(r) \/ Attach(r) \/ Greet(r) \/ ProbeEmail(r)
         \/ AdoptIM8(r)
  PROVE  IdentityTyped'
<1> USE DEF store, userRows
<1>1. PICK t \in IdentitySteps : Mere(r, step[r], t)
  BY MereMoves
<1>2. /\ breaks \in 0..MaxBreaks /\ did \in [Requests -> Dids]
      /\ emails \subseteq Accounts \X Emails /\ holderOf \in [Dids -> Accounts \union {Nothing}]
  BY DEF IdentityTyped, IdentityTypeOK
<1>3. r \in Accounts /\ Own \in Emails /\ \A d \in Dids : <<"atproto", d>> \in Emails /\ <<"im8", d>> \in Emails
  BY DEF Accounts, Emails
<1>4. step[r] \in KeySteps => Whose(r) \in Dids
  BY <1>2 DEF IdentityTyped, Whose
<1>5. breaks' \in 0..MaxBreaks
  <2>1. CASE MailFails(r)
    BY <1>2, <2>1, HandlersAssumption DEF MailFails
  <2>2. CASE ~MailFails(r)
    <3>1. breaks' = breaks
      BY <2>2
      DEF Register, CheckEmail, Activate, Callback, StartIM8, FindByDid, AdoptDid, Verify, Attach,
          Greet, ProbeEmail, AdoptIM8
    <3> QED
      BY <1>2, <3>1
  <2> QED
    BY <2>1, <2>2
<1>6. did' \in [Requests -> Dids]
  <2>1. CASE \E d \in Dids : Callback(r, d) \/ StartIM8(r, d)
    BY <1>2, <2>1 DEF Callback, StartIM8
  <2>2. CASE ~\E d \in Dids : Callback(r, d) \/ StartIM8(r, d)
    <3>1. did' = did
      BY <2>2
      DEF Register, MailFails, CheckEmail, Activate, FindByDid, AdoptDid, Verify, Attach, Greet,
          ProbeEmail, AdoptIM8
    <3> QED
      BY <1>2, <3>1
  <2> QED
    BY <2>1, <2>2
<1>7. emails' \subseteq Accounts \X Emails /\ holderOf' \in [Dids -> Accounts \union {Nothing}]
  <2>1. CASE Activate(r)
    <3>1. emails' \subseteq emails \union {<<r, Own>>} /\ holderOf' = holderOf
      BY <2>1 DEF Activate
    <3> QED
      BY <1>2, <1>3, <3>1
  <2>2. CASE AdoptDid(r) \/ AdoptIM8(r)
    <3>1. PICK d \in Dids, e \in {"atproto", "im8"} :
            /\ emails' \subseteq emails \union {<<r, <<e, d>>>>}
            /\ holderOf' = holderOf \/ holderOf' = [holderOf EXCEPT ![d] = r]
      <4>1. CASE AdoptDid(r)
        <5>1. did[r] \in Dids
          BY <1>2
        <5> QED
          BY <4>1, <5>1 DEF AdoptDid, Creates
      <4>2. CASE AdoptIM8(r)
        <5>1. Whose(r) \in Dids
          BY <1>4, <4>2 DEF AdoptIM8, KeySteps, ByState
        <5> QED
          BY <4>2, <5>1 DEF AdoptIM8, Creates
      <4> QED
        BY <2>2, <4>1, <4>2
    <3>2. emails' \subseteq Accounts \X Emails
      <4>1. <<e, d>> \in Emails
        BY <1>3
      <4>2. <<r, <<e, d>>>> \in Accounts \X Emails
        BY <1>3, <4>1
      <4> QED
        BY <1>2, <3>1, <4>2
    <3>3. holderOf' \in [Dids -> Accounts \union {Nothing}]
      BY <1>2, <1>3, <3>1
    <3> QED
      BY <3>2, <3>3
  <2>3. CASE Attach(r)
    <3>1. emails' = emails
      BY <2>3 DEF Attach
    <3>2. Member \in Accounts
      BY DEF Accounts
    <3>3. holderOf' \in [Dids -> Accounts \union {Nothing}]
      <4> HIDE DEF Accounts
      <4> QED
        BY <1>2, <2>3, <3>2 DEF Attach
    <3> QED
      BY <1>2, <3>1, <3>3
  <2>4. CASE ~(Activate(r) \/ AdoptDid(r) \/ AdoptIM8(r) \/ Attach(r))
    <3>1. UNCHANGED <<emails, holderOf>>
      BY <2>4
      DEF Register, MailFails, CheckEmail, Callback, StartIM8, FindByDid, Verify, Greet, ProbeEmail
    <3> QED
      BY <1>2, <3>1
  <2> QED
    BY <2>1, <2>2, <2>3, <2>4
<1> QED
  BY <1>1, <1>5, <1>6, <1>7, MereTypes

\* The others: where they go, and what they leave in memory.
LEMMA RegistrationMoves ==
  ASSUME IdentityTyped, NEW r \in Requests
  PROVE  /\ SavePending(r) => Moved(r, "register", "mail")
         /\ MailCode(r) => Moved(r, "mail", "done")
         /\ Withdraw(r) => Moved(r, "withdraw", "done")
         /\ CountMiss(r) => Moved(r, "miss", "done")
         /\ Consume(r) => Moved(r, "hit", "check")
         /\ \A p \in Registrations, right \in BOOLEAN : Present(r, p, right) =>
              \/ pending[p] = Nothing /\ Moved(r, "free", "done") /\ UNCHANGED <<guesses, raced>>
              \/ /\ pending[p] # Nothing
                 /\ Moved(r, "free", IF right THEN "hit" ELSE "miss")
                 /\ mem'[r] = [key |-> p, tries |-> pending[p].attempts, linking |-> FALSE]
                 /\ mem'[r] \in IdentityMemory
<1>1. Nothing \in IdentityMemory \union {Nothing}
  OBVIOUS
<1>2. ASSUME NEW p \in Registrations, NEW right \in BOOLEAN, Present(r, p, right)
      PROVE  \/ pending[p] = Nothing /\ Moved(r, "free", "done") /\ UNCHANGED <<guesses, raced>>
             \/ /\ pending[p] # Nothing
                /\ Moved(r, "free", IF right THEN "hit" ELSE "miss")
                /\ mem'[r] = [key |-> p, tries |-> pending[p].attempts, linking |-> FALSE]
                /\ mem'[r] \in IdentityMemory
  <2>1. CASE pending[p] = Nothing
    BY <1>2, <2>1, IdentityGoes DEF Present, IdentitySteps
  <2>2. CASE pending[p] # Nothing
    <3>1. pending[p].attempts \in Nat
      BY <2>2, IdentityAssumption DEF IdentityTyped, IdentityTypeOK
    <3> DEFINE m == [key |-> p, tries |-> pending[p].attempts, linking |-> FALSE]
    <3>2. m \in IdentityMemory
      BY <3>1, IdentityMemories
    <3>3. GoesWith(r, IF right THEN "hit" ELSE "miss", m) /\ step[r] = "free"
      BY <1>2, <2>2 DEF Present
    <3> HIDE DEF m
    <3>4. Moved(r, "free", IF right THEN "hit" ELSE "miss") /\ mem'[r] = m
      BY <3>2, <3>3, IdentityGoesWith DEF IdentitySteps
    <3> QED
      BY <2>2, <3>2, <3>4 DEF m
  <2> QED
    BY <2>1, <2>2
<1> QED
  BY <1>1, <1>2, IdentityGoes, IdentityGoesWith
  DEF SavePending, MailCode, Withdraw, CountMiss, Consume, IdentitySteps

LEMMA KeyMoves ==
  ASSUME IdentityTyped, NEW r \in Requests
  PROVE  /\ HandOut(r) => Moved(r, "hand out", "done")
         /\ SaveState(r) => Moved(r, "start", "done")
         /\ DropCode(r) => Moved(r, "redeem", "open") /\ mem'[r] = mem[r]
         /\ DropState(r) => Moved(r, "clean", "enter") /\ mem'[r] = mem[r]
         /\ SignInByCode(r) => Moved(r, "open", "done")
         /\ SignInByState(r) => Moved(r, "enter", "done")
         /\ \A c \in Requests : Exchange(r, c) =>
              \/ c \notin codes /\ Moved(r, "free", "done") /\ UNCHANGED shared
              \/ /\ c \in codes /\ Moved(r, "free", "redeem") /\ mem'[r].key = c
                 /\ mem'[r] \in IdentityMemory
                 /\ shared' = IF Uses(c) = {} THEN shared ELSE shared \union {c}
<1>1. ASSUME NEW c \in Requests, Exchange(r, c)
      PROVE  \/ c \notin codes /\ Moved(r, "free", "done") /\ UNCHANGED shared
             \/ /\ c \in codes /\ Moved(r, "free", "redeem") /\ mem'[r].key = c
                /\ mem'[r] \in IdentityMemory
                /\ shared' = IF Uses(c) = {} THEN shared ELSE shared \union {c}
  <2>1. CASE c \notin codes
    BY <1>1, <2>1, IdentityGoes DEF Exchange, IdentitySteps
  <2>2. CASE c \in codes
    <3> DEFINE m == [key |-> c, tries |-> 0, linking |-> FALSE]
    <3>1. m \in IdentityMemory /\ m.key = c
      BY IdentityMemories DEF Registrations
    <3>2. GoesWith(r, "redeem", m) /\ step[r] = "free"
      BY <1>1, <2>2 DEF Exchange
    <3>3. shared' = IF Uses(c) = {} THEN shared ELSE shared \union {c}
      BY <1>1, <2>2 DEF Exchange
    <3> HIDE DEF m
    <3> QED
      BY <2>2, <3>1, <3>2, <3>3, IdentityGoesWith DEF IdentitySteps
  <2> QED
    BY <2>1, <2>2
<1> QED
  BY <1>1, IdentityGoes
  DEF HandOut, SaveState, DropCode, DropState, SignInByCode, SignInByState, IdentitySteps

LEMMA StateMoves ==
  ASSUME IdentityTyped, NEW r \in Requests, NEW s \in Requests, NEW linking \in BOOLEAN,
         CompleteIM8(r, s, linking)
  PROVE  \/ s \notin states /\ Moved(r, "free", "done") /\ UNCHANGED shared
         \/ /\ s \in states /\ Moved(r, "free", "verify") /\ mem'[r].key = s
            /\ mem'[r] \in IdentityMemory
            /\ shared' = IF Uses(s) = {} THEN shared ELSE shared \union {s}
<1>1. CASE s \notin states
  BY <1>1, IdentityGoes DEF CompleteIM8, IdentitySteps
<1>2. CASE s \in states
  <2> DEFINE m == [key |-> s, tries |-> 0, linking |-> linking]
  <2>1. m \in IdentityMemory /\ m.key = s
    BY IdentityMemories DEF Registrations
  <2>2. GoesWith(r, "verify", m) /\ step[r] = "free"
    BY <1>2 DEF CompleteIM8
  <2>3. shared' = IF Uses(s) = {} THEN shared ELSE shared \union {s}
    BY <1>2 DEF CompleteIM8
  <2> HIDE DEF m
  <2> QED
    BY <1>2, <2>1, <2>2, <2>3, IdentityGoesWith DEF IdentitySteps
<1> QED
  BY <1>1, <1>2

\* How the attempts are written back.
LEMMA CountedAttempts ==
  ASSUME IdentityTyped, NEW r \in Requests, CountMiss(r), ~GivesUp(mem[r].tries)
  PROVE  /\ mem[r].key \in Registrations /\ mem[r].tries + 1 \in 0..MaxAttempts
         /\ mem[r].tries + 1 < MaxAttempts
         /\ pending' = [pending EXCEPT ![mem[r].key] =
              [attempts |-> mem[r].tries + 1,
               ttl |-> IF pending[mem[r].key] = Nothing THEN FALSE ELSE pending[mem[r].key].ttl]]
BY IdentityMemories, IdentityAssumption DEF CountMiss, GivesUp, Presents

LEMMA RegistrationTypes ==
  ASSUME IdentityTyped, NEW r \in Requests,
         \/ SavePending(r) \/ MailCode(r) \/ Withdraw(r) \/ CountMiss(r) \/ Consume(r)
         \/ \E p \in Registrations, right \in BOOLEAN : Present(r, p, right)
  PROVE  IdentityTyped'
<1> USE DEF store, userRows, uses
<1>0. /\ pending \in [Registrations -> [attempts : 0..MaxAttempts, ttl : BOOLEAN] \union {Nothing}]
      /\ r \in Registrations
  BY DEF IdentityTyped, IdentityTypeOK, Registrations
<1>1. ASSUME NEW s, NEW t \in {"mail", "done", "check", "hit", "miss"}, Moved(r, s, t),
             t \in Presents => mem'[r] \in IdentityMemory,
             pending' \in [Registrations -> [attempts : 0..MaxAttempts, ttl : BOOLEAN] \union {Nothing}],
             told' \subseteq Registrations, guesses' \subseteq Registrations \X Requests,
             ended' \subseteq Registrations, raced' \subseteq Registrations,
             UNCHANGED <<codes, states, did, userRows, breaks, signIns, shared>>
      PROVE  IdentityTyped'
  <2>1. /\ step' \in [Requests -> IdentitySteps]
        /\ mem' \in [Requests -> IdentityMemory \union {Nothing}]
        /\ \A q \in Requests :
             /\ step'[q] \in Presents \union KeySteps => mem'[q] \in IdentityMemory
             /\ step'[q] \in KeySteps => mem'[q].key \in Requests
    BY <1>1, MovedMemory DEF IdentitySteps, KeySteps, ByCode, ByState
  <2> QED
    BY <1>1, <2>1 DEF IdentityTyped, IdentityTypeOK
<1>2. /\ told \subseteq Registrations /\ guesses \subseteq Registrations \X Requests
      /\ ended \subseteq Registrations /\ raced \subseteq Registrations
  BY DEF IdentityTyped, IdentityTypeOK
<1>3. CASE SavePending(r)
  <2>1. Moved(r, "register", "mail")
    BY <1>3, RegistrationMoves
  <2>2. [attempts |-> 0, ttl |-> TRUE] \in [attempts : 0..MaxAttempts, ttl : BOOLEAN]
    BY IdentityAssumption
  <2>3. pending' \in [Registrations -> [attempts : 0..MaxAttempts, ttl : BOOLEAN] \union {Nothing}]
    BY <1>0, <1>3, <2>2 DEF SavePending
  <2> QED
    BY <1>1, <1>2, <1>3, <2>1, <2>3 DEF SavePending, Presents
<1>4. CASE MailCode(r)
  BY <1>0, <1>1, <1>2, <1>4, RegistrationMoves DEF MailCode, Presents
<1>5. CASE Withdraw(r)
  BY <1>0, <1>1, <1>2, <1>5, RegistrationMoves DEF Withdraw, Presents
<1>6. CASE Consume(r)
  <2>1. mem[r].key \in Registrations
    BY <1>6, IdentityMemories DEF Consume, Presents
  <2> QED
    BY <1>0, <1>1, <1>2, <1>6, <2>1, RegistrationMoves DEF Consume, Consumed, Presents
<1>7. CASE CountMiss(r)
  <2>1. mem[r].key \in Registrations
    BY <1>7, IdentityMemories DEF CountMiss, Presents
  <2>2. pending' \in [Registrations -> [attempts : 0..MaxAttempts, ttl : BOOLEAN] \union {Nothing}]
    <3>1. CASE GivesUp(mem[r].tries)
      BY <1>0, <1>7, <3>1 DEF CountMiss
    <3>2. CASE ~GivesUp(mem[r].tries)
      <4> DEFINE kept == IF pending[mem[r].key] = Nothing THEN FALSE ELSE pending[mem[r].key].ttl
      <4>1. kept \in BOOLEAN
        BY <1>0, <2>1
      <4>2. mem[r].tries + 1 \in 0..MaxAttempts /\
            pending' = [pending EXCEPT ![mem[r].key] = [attempts |-> mem[r].tries + 1, ttl |-> kept]]
        BY <1>7, <3>2, CountedAttempts
      <4> HIDE DEF kept
      <4> QED
        BY <1>0, <4>1, <4>2
    <3> QED
      BY <3>1, <3>2
  <2>3. ended' \subseteq Registrations
    BY <1>2, <1>7, <2>1 DEF CountMiss
  <2>4. Moved(r, "miss", "done")
    BY <1>7, RegistrationMoves
  <2> QED
    BY <1>1, <1>2, <1>7, <2>2, <2>3, <2>4 DEF CountMiss, Presents
<1>8. ASSUME NEW p \in Registrations, NEW right \in BOOLEAN, Present(r, p, right) PROVE IdentityTyped'
  <2>1. guesses' \subseteq Registrations \X Requests /\ raced' \subseteq Registrations
    BY <1>2, <1>8 DEF Present
  <2>2. PICK t \in {"done", "hit", "miss"} : Moved(r, "free", t) /\ (t # "done" => mem'[r] \in IdentityMemory)
    BY <1>8, RegistrationMoves
  <2>3. UNCHANGED <<pending, told, ended, codes, states, did, userRows, breaks, signIns, shared>>
    BY <1>8 DEF Present
  <2> QED
    BY <1>0, <1>1, <1>2, <2>1, <2>2, <2>3 DEF Presents
<1> QED
  BY <1>3, <1>4, <1>5, <1>6, <1>7, <1>8

LEMMA KeyTypes ==
  ASSUME IdentityTyped, NEW r \in Requests,
         \/ HandOut(r) \/ SaveState(r) \/ DropCode(r) \/ DropState(r) \/ SignInByCode(r)
         \/ SignInByState(r) \/ (\E c \in Requests : Exchange(r, c))
         \/ \E s \in Requests, linking \in BOOLEAN : CompleteIM8(r, s, linking)
  PROVE  IdentityTyped'
<1> USE DEF store, userRows, uses
<1>1. ASSUME NEW s, NEW t \in {"done", "redeem", "open", "verify", "enter"}, Moved(r, s, t),
             t # "done" => mem'[r] \in IdentityMemory /\ mem'[r].key \in Requests,
             codes' \subseteq Requests, states' \subseteq Requests,
             signIns' \subseteq Requests \X Requests, shared' \subseteq Requests,
             UNCHANGED <<pending, told, did, userRows, breaks, guesses, ended, raced>>
      PROVE  IdentityTyped'
  <2>1. /\ step' \in [Requests -> IdentitySteps]
        /\ mem' \in [Requests -> IdentityMemory \union {Nothing}]
        /\ \A q \in Requests :
             /\ step'[q] \in Presents \union KeySteps => mem'[q] \in IdentityMemory
             /\ step'[q] \in KeySteps => mem'[q].key \in Requests
    BY <1>1, MovedMemory DEF IdentitySteps, Presents, KeySteps, ByCode, ByState
  <2> QED
    BY <1>1, <2>1 DEF IdentityTyped, IdentityTypeOK
<1>2. /\ codes \subseteq Requests /\ states \subseteq Requests
      /\ signIns \subseteq Requests \X Requests /\ shared \subseteq Requests
  BY DEF IdentityTyped, IdentityTypeOK
<1>3. step[r] \in KeySteps => mem[r] \in IdentityMemory /\ mem[r].key \in Requests
  BY DEF IdentityTyped
<1>4. CASE HandOut(r)
  <2>1. codes' \subseteq Requests
    BY <1>2, <1>4 DEF HandOut
  <2> QED
    BY <1>1, <1>2, <1>4, <2>1, KeyMoves DEF HandOut
<1>5. CASE SaveState(r)
  BY <1>1, <1>2, <1>5, KeyMoves DEF SaveState
<1>6. CASE DropCode(r)
  BY <1>1, <1>2, <1>3, <1>6, KeyMoves DEF DropCode, Redeemed, KeySteps, ByCode
<1>7. CASE DropState(r)
  BY <1>1, <1>2, <1>3, <1>7, KeyMoves DEF DropState, KeySteps, ByState
<1>8. CASE SignInByCode(r)
  <2>1. <<mem[r].key, r>> \in Requests \X Requests
    BY <1>3, <1>8 DEF SignInByCode, KeySteps, ByCode
  <2>2. signIns' \subseteq Requests \X Requests
    BY <1>2, <1>8, <2>1 DEF SignInByCode
  <2> QED
    BY <1>1, <1>2, <1>8, <2>2, KeyMoves DEF SignInByCode
<1>9. CASE SignInByState(r)
  <2>1. <<mem[r].key, r>> \in Requests \X Requests
    BY <1>3, <1>9 DEF SignInByState, KeySteps, ByState
  <2>2. signIns' \subseteq Requests \X Requests
    BY <1>2, <1>9, <2>1 DEF SignInByState
  <2> QED
    BY <1>1, <1>2, <1>9, <2>2, KeyMoves DEF SignInByState
<1>10. ASSUME NEW c \in Requests, Exchange(r, c) PROVE IdentityTyped'
  <2>1. shared' \subseteq Requests
    BY <1>2, <1>10 DEF Exchange
  <2>2. UNCHANGED <<codes, states, signIns, pending, told, did, userRows, breaks, guesses, ended, raced>>
    BY <1>10 DEF Exchange
  <2>3. CASE Moved(r, "free", "done")
    BY <1>1, <1>2, <2>1, <2>2, <2>3
  <2>4. CASE Moved(r, "free", "redeem") /\ mem'[r].key = c /\ mem'[r] \in IdentityMemory
    BY <1>1, <1>2, <2>1, <2>2, <2>4
  <2> QED
    BY <1>10, <2>3, <2>4, KeyMoves
<1>11. ASSUME NEW s \in Requests, NEW linking \in BOOLEAN, CompleteIM8(r, s, linking) PROVE IdentityTyped'
  <2>1. shared' \subseteq Requests
    BY <1>2, <1>11 DEF CompleteIM8
  <2>2. UNCHANGED <<codes, states, signIns, pending, told, did, userRows, breaks, guesses, ended, raced>>
    BY <1>11 DEF CompleteIM8
  <2>3. CASE Moved(r, "free", "done")
    BY <1>1, <1>2, <2>1, <2>2, <2>3
  <2>4. CASE Moved(r, "free", "verify") /\ mem'[r].key = s /\ mem'[r] \in IdentityMemory
    BY <1>1, <1>2, <2>1, <2>2, <2>4
  <2>5. \/ s \notin states /\ Moved(r, "free", "done") /\ UNCHANGED shared
        \/ /\ s \in states /\ Moved(r, "free", "verify") /\ mem'[r].key = s
           /\ mem'[r] \in IdentityMemory
           /\ shared' = IF Uses(s) = {} THEN shared ELSE shared \union {s}
    BY <1>11, StateMoves
  <2> QED
    BY <2>3, <2>4, <2>5
<1> QED
  BY <1>4, <1>5, <1>6, <1>7, <1>8, <1>9, <1>10, <1>11

LEMMA IdentityTypesKept == IdentityTyped /\ [IdentityNext]_identityVars => IdentityTyped'
<1> SUFFICES ASSUME IdentityTyped, [IdentityNext]_identityVars PROVE IdentityTyped'
  OBVIOUS
<1>1. CASE UNCHANGED identityVars
  BY <1>1 DEF identityVars, store, userRows, handlers, uses, IdentityTyped, IdentityTypeOK
<1>2. ASSUME NEW k \in Registrations, RunOut(k) PROVE IdentityTyped'
  <2>1. /\ pending' = pending \/ pending' = [pending EXCEPT ![k] = Nothing]
        /\ ended' \subseteq ended \union {k} /\ raced' \subseteq raced \union {k}
        /\ codes' \subseteq codes /\ states' \subseteq states
        /\ UNCHANGED <<told, did, userRows, handlers, guesses, signIns, shared>>
    BY <1>2 DEF RunOut
  <2>2. pending' \in [Registrations -> [attempts : 0..MaxAttempts, ttl : BOOLEAN] \union {Nothing}]
    BY <2>1 DEF IdentityTyped, IdentityTypeOK
  <2> QED
    BY <2>1, <2>2 DEF userRows, handlers, IdentityTyped, IdentityTypeOK
<1>3. ASSUME NEW r \in Requests, IdentityHandler(r) PROVE IdentityTyped'
  BY <1>3, MereActionTypes, RegistrationTypes, KeyTypes DEF IdentityHandler
<1> QED
  BY <1>1, <1>2, <1>3 DEF IdentityNext, RestIdentity

LEMMA MovesOfKeys ==
  ASSUME IdentityTyped, NEW r \in Requests,
         \/ HandOut(r) \/ SaveState(r) \/ DropCode(r) \/ DropState(r) \/ SignInByCode(r)
         \/ SignInByState(r) \/ (\E c \in Requests : Exchange(r, c))
         \/ \E s \in Requests, linking \in BOOLEAN : CompleteIM8(r, s, linking)
  PROVE  /\ \E t \in {"done", "open", "enter", "redeem", "verify"} : Moved(r, step[r], t)
         /\ step[r] \notin {"done", "miss", "hit"}
<1> SUFFICES \E s \in {"free", "hand out", "start", "redeem", "open", "clean", "enter"},
                t \in {"done", "open", "enter", "redeem", "verify"} : Moved(r, s, t)
  BY DEF Moved
<1>1. ASSUME NEW c \in Requests, Exchange(r, c)
      PROVE  Moved(r, "free", "done") \/ Moved(r, "free", "redeem")
  BY <1>1, KeyMoves
<1>2. ASSUME NEW s \in Requests, NEW linking \in BOOLEAN, CompleteIM8(r, s, linking)
      PROVE  Moved(r, "free", "done") \/ Moved(r, "free", "verify")
  BY <1>2, StateMoves
<1>3. CASE HandOut(r) \/ SaveState(r) \/ DropCode(r) \/ DropState(r) \/ SignInByCode(r) \/ SignInByState(r)
  BY <1>3, KeyMoves
<1> QED
  BY <1>1, <1>2, <1>3

-----------------------------------------------------------------------------
\* Registrations.

\* When a registration can have been saved, mailed, told and presented.
PlaceInv ==
  /\ \A r \in Requests :
       /\ step[r] \in {"free", "register"} => r \notin ended /\ pending[r] = Nothing
       /\ step[r] # "done" => r \notin told
       /\ step[r] \in Presents => mem[r].key \in told
       /\ \A p \in Registrations : <<p, r>> \in guesses => p \in told
  /\ \A p \in Registrations : pending[p] # Nothing => pending[p].attempts < MaxAttempts

\* A move that leaves the registrations alone.
LEMMA PlaceFrame ==
  ASSUME PlaceInv, NEW r \in Requests, NEW s, NEW t, Moved(r, s, t), s # "done",
         t \notin Presents \union {"free"}, t = "register" => s = "free",
         UNCHANGED <<pending, told, guesses, ended>>
  PROVE  PlaceInv'
BY DEF PlaceInv, Moved

LEMMA PlaceStep ==
  IdentityTyped /\ PlaceInv /\ [IdentityNext]_identityVars => PlaceInv'
<1> SUFFICES ASSUME IdentityTyped, PlaceInv, [IdentityNext]_identityVars PROVE PlaceInv'
  OBVIOUS
<1> USE DEF store, userRows, uses
<1>1. CASE UNCHANGED identityVars
  BY <1>1 DEF identityVars, handlers, PlaceInv
<1>2. ASSUME NEW k \in Registrations, RunOut(k) PROVE PlaceInv'
  <2>0. UNCHANGED <<step, mem, told, guesses>>
    BY <1>2 DEF RunOut, handlers
  <2>1. CASE UNCHANGED <<pending, ended>>
    BY <2>0, <2>1 DEF PlaceInv
  <2>2. CASE pending[k] # Nothing /\ pending' = [pending EXCEPT ![k] = Nothing] /\ ended' = ended \union {k}
    <3>1. \A p \in Registrations : pending'[p] = IF p = k THEN Nothing ELSE pending[p]
      BY <2>2 DEF IdentityTyped, IdentityTypeOK
    <3> QED
      BY <2>0, <2>2, <3>1 DEF PlaceInv, Registrations
  <2> QED
    BY <1>2, <2>1, <2>2 DEF RunOut
<1>3. ASSUME NEW r \in Requests, NEW t \in IdentitySteps, Mere(r, step[r], t) PROVE PlaceInv'
  BY <1>3, PlaceFrame DEF Mere, Presents
<1>4. ASSUME NEW r \in Requests, SavePending(r) PROVE PlaceInv'
  <2>1. Moved(r, "register", "mail")
    BY <1>4, RegistrationMoves
  <2>2. \A p \in Registrations : pending'[p] = IF p = r THEN [attempts |-> 0, ttl |-> TRUE] ELSE pending[p]
    BY <1>4 DEF SavePending, IdentityTyped, IdentityTypeOK
  <2>3. UNCHANGED <<told, guesses, ended>> /\ 0 < MaxAttempts
    BY <1>4, IdentityAssumption DEF SavePending
  <2> QED
    BY <2>1, <2>2, <2>3 DEF PlaceInv, Moved, Registrations, Presents
<1>5. ASSUME NEW r \in Requests, MailCode(r) PROVE PlaceInv'
  <2>1. Moved(r, "mail", "done")
    BY <1>5, RegistrationMoves
  <2> QED
    BY <1>5, <2>1 DEF MailCode, PlaceInv, Moved, Presents
<1>6. ASSUME NEW r \in Requests, Withdraw(r) PROVE PlaceInv'
  <2>1. Moved(r, "withdraw", "done")
    BY <1>6, RegistrationMoves
  <2>2. \A p \in Registrations : pending'[p] = IF p = r THEN Nothing ELSE pending[p]
    BY <1>6 DEF Withdraw, IdentityTyped, IdentityTypeOK
  <2> QED
    BY <1>6, <2>1, <2>2 DEF Withdraw, PlaceInv, Moved, Presents, Registrations
<1>7. ASSUME NEW r \in Requests, CountMiss(r) \/ Consume(r) PROVE PlaceInv'
  <2> DEFINE k == mem[r].key
  <2>1. \E t \in {"done", "check"} : Moved(r, step[r], t) /\ step[r] \in Presents
    BY <1>7, RegistrationMoves DEF CountMiss, Consume, Presents
  <2>2. k \in told /\ (k \in Requests => step[k] = "done" /\ step'[k] = "done" /\ k # r)
    BY <2>1 DEF PlaceInv, Moved, Presents
  <2>3. /\ \A p \in Registrations \ {k} : pending'[p] = pending[p]
        /\ pending'[k] = Nothing \/ pending'[k].attempts < MaxAttempts
    <3>1. CASE pending' = [pending EXCEPT ![k] = Nothing]
      BY <2>2, <3>1 DEF IdentityTyped, IdentityTypeOK
    <3>2. CASE CountMiss(r) /\ ~GivesUp(mem[r].tries)
      <4> DEFINE kept == IF pending[k] = Nothing THEN FALSE ELSE pending[k].ttl
      <4>1. /\ k \in Registrations /\ mem[r].tries + 1 < MaxAttempts
            /\ pending' = [pending EXCEPT ![k] = [attempts |-> mem[r].tries + 1, ttl |-> kept]]
        BY <3>2, CountedAttempts
      <4> HIDE DEF kept, k
      <4> QED
        BY <4>1 DEF IdentityTyped, IdentityTypeOK
    <3> QED
      BY <1>7, <3>1, <3>2 DEF CountMiss, Consume, Consumed
  <2>4. UNCHANGED <<told, guesses>> /\ ended' \subseteq ended \union {k}
    BY <1>7 DEF CountMiss, Consume
  <2> HIDE DEF k
  <2> QED
    BY <2>1, <2>2, <2>3, <2>4 DEF PlaceInv, Moved, Presents, Registrations
<1>8. ASSUME NEW r \in Requests, NEW p \in Registrations, NEW right \in BOOLEAN, Present(r, p, right)
      PROVE  PlaceInv'
  <2>0. p \in told /\ UNCHANGED <<pending, told, ended>>
    BY <1>8 DEF Present, Enterable
  <2>1. CASE Moved(r, "free", "done") /\ UNCHANGED <<guesses, raced>>
    BY <2>0, <2>1, PlaceFrame DEF Presents
  <2>2. CASE /\ Moved(r, "free", IF right THEN "hit" ELSE "miss")
             /\ mem'[r] = [key |-> p, tries |-> pending[p].attempts, linking |-> FALSE]
    <3>1. guesses' \subseteq guesses \union {<<p, r>>}
      BY <1>8 DEF Present
    <3>2. mem'[r].key = p
      BY <2>2
    <3>3. \A q \in Requests : \A n \in Registrations : <<n, q>> \in guesses' => n \in told'
      BY <2>0, <3>1 DEF PlaceInv
    <3>4. \E t \in Presents : Moved(r, "free", t)
      BY <2>2 DEF Presents
    <3> QED
      BY <2>0, <3>2, <3>3, <3>4 DEF PlaceInv, Moved, Presents
  <2> QED
    BY <1>8, <2>1, <2>2, RegistrationMoves
<1>9. ASSUME NEW r \in Requests,
             \/ HandOut(r) \/ SaveState(r) \/ DropCode(r) \/ DropState(r) \/ SignInByCode(r)
             \/ SignInByState(r) \/ (\E c \in Requests : Exchange(r, c))
             \/ \E s \in Requests, linking \in BOOLEAN : CompleteIM8(r, s, linking)
      PROVE  PlaceInv'
  <2>1. UNCHANGED <<pending, told, guesses, ended>>
    BY <1>9
    DEF HandOut, SaveState, DropCode, DropState, SignInByCode, SignInByState, Exchange, CompleteIM8
  <2>2. \E t \in {"done", "open", "enter", "redeem", "verify"} : Moved(r, step[r], t) /\ step[r] # "done"
    BY <1>9, MovesOfKeys
  <2> QED
    BY <2>1, <2>2, PlaceFrame DEF Presents
<1> QED
  BY <1>1, <1>2, <1>3, <1>4, <1>5, <1>6, <1>7, <1>8, <1>9, MereMoves
  DEF IdentityNext, IdentityHandler, RestIdentity

\* Of a registration that no two uses overlapped on: one request at most holds
\* what it read, and has read what there is; the wrong codes that were compared
\* are the attempts that were counted, and the one that is being counted.
PresentsIt(r, p) == step[r] \in Presents /\ mem[r].key = p
MissesIt(r, p) == step[r] = "miss" /\ mem[r].key = p

RegInv ==
  \A p \in Registrations :
    /\ IsFiniteSet(GuessesOn(p))
    /\ p \notin raced =>
         /\ \A r, q \in Requests : PresentsIt(r, p) /\ PresentsIt(q, p) => r = q
         /\ \A r \in Requests : PresentsIt(r, p) =>
              pending[p] # Nothing /\ mem[r].tries = pending[p].attempts
         /\ pending[p] # Nothing => p \notin ended /\ pending[p].ttl
         /\ pending[p] = Nothing => Cardinality(GuessesOn(p)) <= MaxAttempts
         /\ pending[p] # Nothing =>
              \/ Cardinality(GuessesOn(p)) <= pending[p].attempts
              \/ /\ Cardinality(GuessesOn(p)) <= pending[p].attempts + 1
                 /\ \E r \in Requests : MissesIt(r, p)

\* One registration, when neither it nor its guesses nor who presents it change.
LEMMA RegSame ==
  ASSUME RegInv, NEW p \in Registrations, pending'[p] = pending[p], GuessesOn(p)' = GuessesOn(p),
         p \in raced => p \in raced', p \in ended' => p \in ended,
         \A r \in Requests :
           /\ PresentsIt(r, p)' => PresentsIt(r, p) /\ mem'[r].tries = mem[r].tries
           /\ MissesIt(r, p) => MissesIt(r, p)'
  PROVE  /\ IsFiniteSet(GuessesOn(p)')
         /\ p \notin raced' =>
              /\ \A r, q \in Requests : PresentsIt(r, p)' /\ PresentsIt(q, p)' => r = q
              /\ \A r \in Requests : PresentsIt(r, p)' =>
                   pending'[p] # Nothing /\ mem'[r].tries = pending'[p].attempts
              /\ pending'[p] # Nothing => p \notin ended' /\ pending'[p].ttl
              /\ pending'[p] = Nothing => Cardinality(GuessesOn(p)') <= MaxAttempts
              /\ pending'[p] # Nothing =>
                   \/ Cardinality(GuessesOn(p)') <= pending'[p].attempts
                   \/ /\ Cardinality(GuessesOn(p)') <= pending'[p].attempts + 1
                      /\ \E r \in Requests : MissesIt(r, p)'
BY DEF RegInv

\* A move that has nothing to do with registrations.
LEMMA RegFrame ==
  ASSUME RegInv, NEW r \in Requests, NEW s, NEW t, Moved(r, s, t), s \notin Presents, t \notin Presents,
         UNCHANGED <<pending, guesses, ended, raced>>
  PROVE  RegInv'
<1>1. ASSUME NEW p \in Registrations
      PROVE  /\ GuessesOn(p)' = GuessesOn(p)
             /\ \A q \in Requests :
                  /\ PresentsIt(q, p)' => PresentsIt(q, p) /\ mem'[q].tries = mem[q].tries
                  /\ MissesIt(q, p) => MissesIt(q, p)'
  BY DEF GuessesOn, PresentsIt, MissesIt, Presents, Moved
<1> QED
  BY <1>1, RegSame DEF RegInv

\* The guesses on a registration that nobody was told.
LEMMA UntoldGuesses ==
  ASSUME PlaceInv, NEW p \in Registrations, p \notin told
  PROVE  GuessesOn(p) = {} /\ \A r \in Requests : ~PresentsIt(r, p)
BY DEF PlaceInv, GuessesOn, PresentsIt

LEMMA RegByPresent ==
  ASSUME IdentityTyped, PlaceInv, RegInv, NEW r \in Requests, NEW k \in Registrations,
         NEW right \in BOOLEAN, Present(r, k, right)
  PROVE  RegInv'
<1> USE DEF store
<1>0. UNCHANGED <<pending, ended>>
  BY DEF Present
<1>1. CASE Moved(r, "free", "done") /\ UNCHANGED <<guesses, raced>>
  BY <1>0, <1>1, RegFrame DEF Presents
<1>2. CASE /\ pending[k] # Nothing
           /\ Moved(r, "free", IF right THEN "hit" ELSE "miss")
           /\ mem'[r] = [key |-> k, tries |-> pending[k].attempts, linking |-> FALSE]
  <2>1. PICK t \in Presents : Moved(r, "free", t) /\ t = IF right THEN "hit" ELSE "miss"
    BY <1>2 DEF Presents
  <2>2. mem'[r].key = k /\ mem'[r].tries = pending[k].attempts
    BY <1>2
  <2>3. /\ guesses' = IF right THEN guesses ELSE guesses \union {<<k, r>>}
        /\ raced' = IF Uses(k) = {} THEN raced ELSE raced \union {k}
    BY <1>2 DEF Present
  <2> SUFFICES ASSUME NEW p \in Registrations
      PROVE  /\ IsFiniteSet(GuessesOn(p)')
             /\ p \notin raced' =>
                  /\ \A q, n \in Requests : PresentsIt(q, p)' /\ PresentsIt(n, p)' => q = n
                  /\ \A q \in Requests : PresentsIt(q, p)' =>
                       pending'[p] # Nothing /\ mem'[q].tries = pending'[p].attempts
                  /\ pending'[p] # Nothing => p \notin ended' /\ pending'[p].ttl
                  /\ pending'[p] = Nothing => Cardinality(GuessesOn(p)') <= MaxAttempts
                  /\ pending'[p] # Nothing =>
                       \/ Cardinality(GuessesOn(p)') <= pending'[p].attempts
                       \/ /\ Cardinality(GuessesOn(p)') <= pending'[p].attempts + 1
                          /\ \E q \in Requests : MissesIt(q, p)'
    BY DEF RegInv
  <2>4. CASE p # k
    <3>1. GuessesOn(p)' = GuessesOn(p)
      BY <2>3, <2>4 DEF GuessesOn
    <3>2. \A q \in Requests :
            /\ PresentsIt(q, p)' => PresentsIt(q, p) /\ mem'[q].tries = mem[q].tries
            /\ MissesIt(q, p) => MissesIt(q, p)'
      BY <2>1, <2>2, <2>4 DEF PresentsIt, MissesIt, Moved
    <3> QED
      BY <1>0, <2>3, <3>1, <3>2, RegSame
  <2>5. CASE p = k
    <3>1. GuessesOn(k)' = IF right THEN GuessesOn(k) ELSE GuessesOn(k) \union {r}
      BY <2>3 DEF GuessesOn
    <3>2. IsFiniteSet(GuessesOn(k)) /\ Cardinality(GuessesOn(k)) \in Nat
      BY FS_CardinalityType DEF RegInv
    <3>3. /\ IsFiniteSet(GuessesOn(k)') /\ Cardinality(GuessesOn(k)') <= Cardinality(GuessesOn(k)) + 1
          /\ right => Cardinality(GuessesOn(k)') = Cardinality(GuessesOn(k))
      <4>1. /\ IsFiniteSet(GuessesOn(k) \union {r})
            /\ \/ Cardinality(GuessesOn(k) \union {r}) = Cardinality(GuessesOn(k))
               \/ Cardinality(GuessesOn(k) \union {r}) = Cardinality(GuessesOn(k)) + 1
        BY <3>2, FS_AddElement
      <4>2. CASE right
        BY <3>1, <3>2, <4>2
      <4>3. CASE ~right
        BY <3>1, <3>2, <4>1, <4>3
      <4> QED
        BY <4>2, <4>3
    <3>4. ASSUME k \notin raced'
          PROVE  k \notin raced /\ \A q \in Requests : ~PresentsIt(q, k)
      BY <2>3, <3>4 DEF Uses, PresentsIt, Presents
    <3>5. ASSUME k \notin raced'
          PROVE  \A q \in Requests : PresentsIt(q, k)' => q = r
      BY <2>1, <3>4, <3>5 DEF PresentsIt, Moved
    <3>6. ASSUME k \notin raced'
          PROVE  Cardinality(GuessesOn(k)) <= pending[k].attempts
      BY <1>2, <3>4, <3>6 DEF RegInv, MissesIt, PresentsIt, Presents
    <3>7. ~right => MissesIt(r, k)'
      BY <2>1, <2>2 DEF MissesIt, Moved
    <3>8. pending[k].attempts \in Nat
      BY <1>2, IdentityAssumption DEF IdentityTyped, IdentityTypeOK
    <3>9. Cardinality(GuessesOn(k)') \in Nat
      BY <3>3, FS_CardinalityType
    <3>10. ASSUME k \notin raced'
           PROVE  \/ Cardinality(GuessesOn(k)') <= pending[k].attempts
                  \/ /\ Cardinality(GuessesOn(k)') <= pending[k].attempts + 1
                     /\ \E q \in Requests : MissesIt(q, k)'
      BY <3>2, <3>3, <3>6, <3>7, <3>8, <3>9, <3>10
    <3>11. ASSUME k \notin raced' PROVE k \notin ended /\ pending[k].ttl
      BY <1>2, <3>4, <3>11 DEF RegInv
    <3> QED
      BY <1>0, <1>2, <2>2, <2>5, <3>3, <3>5, <3>10, <3>11
  <2> QED
    BY <2>4, <2>5
<1> QED
  BY <1>1, <1>2, RegistrationMoves

LEMMA RegByUse ==
  ASSUME IdentityTyped, PlaceInv, RegInv, NEW r \in Requests, CountMiss(r) \/ Consume(r)
  PROVE  RegInv'
<1> USE DEF store
<1>01. mem[r].key \in Registrations
  BY IdentityMemories DEF CountMiss, Consume, Presents
<1> PICK k \in Registrations : k = mem[r].key
  BY <1>01
<1>0. PresentsIt(r, k) /\ mem[r].tries \in Nat
  BY IdentityMemories DEF CountMiss, Consume, Presents, PresentsIt
<1>1. PICK t \in {"done", "check"} : Moved(r, step[r], t)
  BY RegistrationMoves DEF CountMiss, Consume
<1>2. UNCHANGED <<guesses, raced>> /\ ended' \subseteq ended \union {k}
  BY DEF CountMiss, Consume
<1>3. \/ pending' = [pending EXCEPT ![k] = Nothing]
      \/ /\ CountMiss(r) /\ ~GivesUp(mem[r].tries) /\ UNCHANGED ended
         /\ pending' = [pending EXCEPT ![k] =
              [attempts |-> mem[r].tries + 1, ttl |-> IF pending[k] = Nothing THEN FALSE ELSE pending[k].ttl]]
  BY DEF CountMiss, Consume, Consumed
<1>4. \A p \in Registrations : GuessesOn(p)' = GuessesOn(p)
  BY <1>2 DEF GuessesOn
<1>5. \A p \in Registrations \ {k} : pending'[p] = pending[p]
  BY <1>3 DEF IdentityTyped, IdentityTypeOK
<1>6. \A q \in Requests : PresentsIt(q, k)' => PresentsIt(q, k) /\ q # r
  BY <1>1 DEF PresentsIt, Presents, Moved
<1> SUFFICES ASSUME NEW p \in Registrations
    PROVE  /\ IsFiniteSet(GuessesOn(p)')
           /\ p \notin raced' =>
                /\ \A q, n \in Requests : PresentsIt(q, p)' /\ PresentsIt(n, p)' => q = n
                /\ \A q \in Requests : PresentsIt(q, p)' =>
                     pending'[p] # Nothing /\ mem'[q].tries = pending'[p].attempts
                /\ pending'[p] # Nothing => p \notin ended' /\ pending'[p].ttl
                /\ pending'[p] = Nothing => Cardinality(GuessesOn(p)') <= MaxAttempts
                /\ pending'[p] # Nothing =>
                     \/ Cardinality(GuessesOn(p)') <= pending'[p].attempts
                     \/ /\ Cardinality(GuessesOn(p)') <= pending'[p].attempts + 1
                        /\ \E q \in Requests : MissesIt(q, p)'
  BY DEF RegInv
<1>7. CASE p # k
  <2>1. \A q \in Requests :
          /\ PresentsIt(q, p)' => PresentsIt(q, p) /\ mem'[q].tries = mem[q].tries
          /\ MissesIt(q, p) => MissesIt(q, p)'
    BY <1>0, <1>1, <1>7 DEF PresentsIt, MissesIt, Presents, Moved
  <2> QED
    BY <1>2, <1>4, <1>5, <1>7, <2>1, RegSame
<1>8. CASE p = k
  <2>0. IsFiniteSet(GuessesOn(k)) /\ Cardinality(GuessesOn(k)) \in Nat
    BY <1>0, FS_CardinalityType DEF RegInv
  <2>1. CASE k \in raced
    BY <1>2, <1>4, <1>8, <2>0, <2>1
  <2>2. CASE k \notin raced
    <3>1. \A q \in Requests : ~PresentsIt(q, k)'
      BY <1>0, <1>6, <2>2 DEF RegInv
    <3>2. pending[k] # Nothing /\ mem[r].tries = pending[k].attempts /\ k \notin ended /\ pending[k].ttl
      BY <1>0, <2>2 DEF RegInv
    <3>3. Cardinality(GuessesOn(k)) <= mem[r].tries + 1 /\ mem[r].tries + 1 <= MaxAttempts
      <4>1. mem[r].tries < MaxAttempts
        BY <1>0, <3>2 DEF PlaceInv
      <4>2. \/ Cardinality(GuessesOn(k)) <= pending[k].attempts
            \/ Cardinality(GuessesOn(k)) <= pending[k].attempts + 1
        BY <1>0, <2>2, <3>2 DEF RegInv
      <4> QED
        BY <1>0, <2>0, <3>2, <4>1, <4>2, IdentityAssumption
    <3>4. CASE pending' = [pending EXCEPT ![k] = Nothing]
      <4>1. pending'[k] = Nothing
        BY <1>0, <3>4 DEF IdentityTyped, IdentityTypeOK
      <4>2. Cardinality(GuessesOn(k)') <= MaxAttempts
        BY <1>0, <1>4, <2>0, <3>3, IdentityAssumption
      <4> QED
        BY <1>4, <1>8, <2>0, <3>1, <4>1, <4>2
    <3>5. CASE /\ UNCHANGED ended
               /\ pending' = [pending EXCEPT ![k] =
                    [attempts |-> mem[r].tries + 1,
                     ttl |-> IF pending[k] = Nothing THEN FALSE ELSE pending[k].ttl]]
      <4>1. pending'[k].attempts = mem[r].tries + 1 /\ pending'[k].ttl
        BY <1>0, <3>2, <3>5 DEF IdentityTyped, IdentityTypeOK
      <4>2. Cardinality(GuessesOn(k)') <= pending'[k].attempts
        BY <1>0, <1>4, <3>3, <4>1
      <4>3. Cardinality(GuessesOn(k)') <= MaxAttempts
        BY <1>0, <1>4, <2>0, <3>3, IdentityAssumption
      <4> QED
        BY <1>4, <1>8, <2>0, <3>1, <3>2, <3>5, <4>1, <4>2, <4>3
    <3> QED
      BY <1>3, <3>4, <3>5
  <2> QED
    BY <2>1, <2>2
<1> QED
  BY <1>7, <1>8

LEMMA RegStep ==
  IdentityTyped /\ PlaceInv /\ RegInv /\ [IdentityNext]_identityVars => RegInv'
<1> SUFFICES ASSUME IdentityTyped, PlaceInv, RegInv, [IdentityNext]_identityVars PROVE RegInv'
  OBVIOUS
<1> USE DEF store, userRows, uses
<1>1. CASE UNCHANGED identityVars
  BY <1>1 DEF identityVars, handlers, RegInv, GuessesOn, PresentsIt, MissesIt
<1>2. ASSUME NEW k \in Registrations, RunOut(k) PROVE RegInv'
  <2>0. UNCHANGED <<step, mem, guesses>> /\ raced \subseteq raced' /\ raced' \subseteq raced \union {k}
    BY <1>2 DEF RunOut, handlers
  <2>1. CASE UNCHANGED <<pending, ended, raced>>
    BY <2>0, <2>1 DEF RegInv, GuessesOn, PresentsIt, MissesIt
  <2>2. CASE /\ pending[k] # Nothing /\ pending' = [pending EXCEPT ![k] = Nothing]
             /\ ended' = ended \union {k}
             /\ raced' = IF Uses(k) = {} THEN raced ELSE raced \union {k}
    <3>1. \A p \in Registrations : pending'[p] = IF p = k THEN Nothing ELSE pending[p]
      BY <2>2 DEF IdentityTyped, IdentityTypeOK
    <3>2. \A p \in Registrations : GuessesOn(p)' = GuessesOn(p)
      BY <2>0 DEF GuessesOn
    <3>3. \A p \in Registrations, q \in Requests :
            (PresentsIt(q, p)' <=> PresentsIt(q, p)) /\ (MissesIt(q, p)' <=> MissesIt(q, p))
      BY <2>0 DEF PresentsIt, MissesIt
    <3>4. ASSUME k \notin raced' PROVE k \notin raced /\ \A q \in Requests : ~PresentsIt(q, k)
      BY <2>2, <3>4 DEF Uses, PresentsIt, Presents
    <3>5. ASSUME k \notin raced' PROVE Cardinality(GuessesOn(k)) <= MaxAttempts
      <4>1. pending[k].attempts < MaxAttempts /\ pending[k].attempts \in Nat
        BY <2>2, IdentityAssumption DEF PlaceInv, IdentityTyped, IdentityTypeOK
      <4>2. Cardinality(GuessesOn(k)) \in Nat
        BY FS_CardinalityType DEF RegInv
      <4>3. Cardinality(GuessesOn(k)) <= pending[k].attempts
        BY <2>2, <3>4, <3>5 DEF RegInv, MissesIt, PresentsIt, Presents
      <4> QED
        BY <4>1, <4>2, <4>3, IdentityAssumption
    <3> SUFFICES ASSUME NEW p \in Registrations
        PROVE  /\ IsFiniteSet(GuessesOn(p)')
               /\ p \notin raced' =>
                    /\ \A q, n \in Requests : PresentsIt(q, p)' /\ PresentsIt(n, p)' => q = n
                    /\ \A q \in Requests : PresentsIt(q, p)' =>
                         pending'[p] # Nothing /\ mem'[q].tries = pending'[p].attempts
                    /\ pending'[p] # Nothing => p \notin ended' /\ pending'[p].ttl
                    /\ pending'[p] = Nothing => Cardinality(GuessesOn(p)') <= MaxAttempts
                    /\ pending'[p] # Nothing =>
                         \/ Cardinality(GuessesOn(p)') <= pending'[p].attempts
                         \/ /\ Cardinality(GuessesOn(p)') <= pending'[p].attempts + 1
                            /\ \E q \in Requests : MissesIt(q, p)'
      BY DEF RegInv
    <3>6. CASE p # k
      BY <2>0, <2>2, <3>1, <3>2, <3>3, <3>6, RegSame
    <3>7. CASE p = k
      BY <3>1, <3>2, <3>3, <3>4, <3>5, <3>7 DEF RegInv
    <3> QED
      BY <3>6, <3>7
  <2> QED
    BY <1>2, <2>1, <2>2 DEF RunOut
<1>3. ASSUME NEW r \in Requests, NEW t \in IdentitySteps, Mere(r, step[r], t) PROVE RegInv'
  BY <1>3, RegFrame DEF Mere, Presents
<1>4. ASSUME NEW r \in Requests, SavePending(r) \/ Withdraw(r) PROVE RegInv'
  <2>0. r \in Registrations /\ r \notin told /\ step[r] \notin Presents
    BY <1>4 DEF SavePending, Withdraw, PlaceInv, Registrations, Presents
  <2>1. \E t \in {"mail", "done"} : Moved(r, step[r], t)
    BY <1>4, RegistrationMoves DEF SavePending, Withdraw
  <2>2. \A p \in Registrations : GuessesOn(p)' = GuessesOn(p)
    BY <1>4 DEF SavePending, Withdraw, GuessesOn
  <2>3. GuessesOn(r) = {} /\ \A q \in Requests : ~PresentsIt(q, r)
    BY <2>0, UntoldGuesses
  <2>4. \A p \in Registrations, q \in Requests :
          /\ PresentsIt(q, p)' => PresentsIt(q, p) /\ mem'[q].tries = mem[q].tries
          /\ MissesIt(q, p) => MissesIt(q, p)'
    BY <2>0, <2>1 DEF PresentsIt, MissesIt, Presents, Moved
  <2>5. UNCHANGED raced /\ ended' \subseteq ended \union {r} /\ (SavePending(r) => UNCHANGED ended)
    BY <1>4 DEF SavePending, Withdraw
  <2>6. /\ \A p \in Registrations \ {r} : pending'[p] = pending[p]
        /\ \/ pending'[r] = Nothing
           \/ SavePending(r) /\ pending'[r] = [attempts |-> 0, ttl |-> TRUE]
    BY <1>4, <2>0 DEF SavePending, Withdraw, IdentityTyped, IdentityTypeOK
  <2>7. SavePending(r) => r \notin ended
    BY DEF SavePending, PlaceInv
  <2>8. Cardinality(GuessesOn(r)') = 0 /\ IsFiniteSet(GuessesOn(r)')
    BY <2>0, <2>2, <2>3, FS_EmptySet
  <2> SUFFICES ASSUME NEW p \in Registrations
      PROVE  /\ IsFiniteSet(GuessesOn(p)')
             /\ p \notin raced' =>
                  /\ \A q, n \in Requests : PresentsIt(q, p)' /\ PresentsIt(n, p)' => q = n
                  /\ \A q \in Requests : PresentsIt(q, p)' =>
                       pending'[p] # Nothing /\ mem'[q].tries = pending'[p].attempts
                  /\ pending'[p] # Nothing => p \notin ended' /\ pending'[p].ttl
                  /\ pending'[p] = Nothing => Cardinality(GuessesOn(p)') <= MaxAttempts
                  /\ pending'[p] # Nothing =>
                       \/ Cardinality(GuessesOn(p)') <= pending'[p].attempts
                       \/ /\ Cardinality(GuessesOn(p)') <= pending'[p].attempts + 1
                          /\ \E q \in Requests : MissesIt(q, p)'
    BY DEF RegInv
  <2>9. CASE p # r
    BY <2>2, <2>4, <2>5, <2>6, <2>9, RegSame
  <2>10. CASE p = r
    <3>1. \A q \in Requests : ~PresentsIt(q, r)'
      BY <2>0, <2>3, <2>4
    <3>2. 0 <= MaxAttempts
      BY IdentityAssumption
    <3>3. CASE pending'[r] = Nothing
      BY <2>8, <2>10, <3>1, <3>2, <3>3
    <3>4. CASE SavePending(r) /\ pending'[r] = [attempts |-> 0, ttl |-> TRUE]
      <4>1. pending'[r].attempts = 0 /\ pending'[r].ttl /\ r \notin ended'
        BY <2>5, <2>7, <3>4
      <4> QED
        BY <2>8, <2>10, <3>1, <3>2, <4>1
    <3> QED
      BY <2>6, <3>3, <3>4
  <2> QED
    BY <2>9, <2>10
<1>5. ASSUME NEW r \in Requests, MailCode(r) PROVE RegInv'
  <2>1. Moved(r, "mail", "done")
    BY <1>5, RegistrationMoves
  <2>2. UNCHANGED <<pending, guesses, ended, raced>>
    BY <1>5 DEF MailCode
  <2> QED
    BY <2>1, <2>2, RegFrame DEF Presents
<1>6. ASSUME NEW r \in Requests,
             \/ HandOut(r) \/ SaveState(r) \/ DropCode(r) \/ DropState(r) \/ SignInByCode(r)
             \/ SignInByState(r) \/ (\E c \in Requests : Exchange(r, c))
             \/ \E s \in Requests, linking \in BOOLEAN : CompleteIM8(r, s, linking)
      PROVE  RegInv'
  <2>1. UNCHANGED <<pending, guesses, ended, raced>>
    BY <1>6
    DEF HandOut, SaveState, DropCode, DropState, SignInByCode, SignInByState, Exchange, CompleteIM8
  <2>2. \E t \in {"done", "open", "enter", "redeem", "verify"} : Moved(r, step[r], t) /\ step[r] \notin Presents
    BY <1>6, MovesOfKeys DEF Presents
  <2> QED
    BY <2>1, <2>2, RegFrame DEF Presents
<1> QED
  BY <1>1, <1>2, <1>3, <1>4, <1>5, <1>6, RegByPresent, RegByUse, MereMoves
  DEF IdentityNext, IdentityHandler, RestIdentity

-----------------------------------------------------------------------------
\* Login codes and iM8 states.

\* When a code or a state can be there, be presented, and have been used.
KeyPlaces ==
  /\ \A k \in Requests : k \in codes => k \notin states /\ step[k] = "done"
  /\ \A k \in Requests : k \in states => step[k] = "done"
  /\ \A r \in Requests :
       /\ step[r] \in KeySteps => step[mem[r].key] = "done"
       /\ step[r] = "redeem" => mem[r].key \notin states
       /\ step[r] \in ByState \ {"enter"} => mem[r].key \notin codes
       /\ \A k \in Requests : <<k, r>> \in signIns => step[k] = "done"

\* Of a code or a state that no two uses overlapped on: one request at most
\* holds it, nobody does once it has signed someone in, and whoever is about to
\* sign in has dropped it.
Holds(r, k) == step[r] \in KeySteps /\ mem[r].key = k

OneUse(k) ==
  /\ \A r, q \in Requests : Holds(r, k) /\ Holds(q, k) => r = q
  /\ \A r, q \in Requests : Holds(r, k) => <<k, q>> \notin signIns
  /\ \A r, q \in Requests : <<k, r>> \in signIns /\ <<k, q>> \in signIns => r = q
  /\ \A r \in Requests : Holds(r, k) /\ step[r] \in {"open", "enter"} => k \notin codes \union states
  /\ \A q \in Requests : <<k, q>> \in signIns => k \notin codes \union states

KeyInv == \A k \in Requests : k \in shared \/ OneUse(k)

\* A move of a handler that does not take up, drop or use up a code or a state.
LEMMA KeyFrame ==
  ASSUME IdentityTyped, KeyPlaces, KeyInv, NEW r \in Requests, NEW s, NEW t, Moved(r, s, t), s # "done",
         t \in KeySteps => s \in ByState \ {"enter"} /\ t \in ByState \ {"enter"} /\ mem'[r] = mem[r],
         UNCHANGED <<codes, states, signIns, shared>>
  PROVE  KeyPlaces' /\ KeyInv'
<1>1. \A q \in Requests : step'[q] \in KeySteps => step[q] \in KeySteps /\ mem'[q] = mem[q]
  BY DEF Moved, KeySteps
<1>2. \A q \in Requests : step[q] = "done" => step'[q] = "done"
  BY DEF Moved
<1>3. \A q \in Requests : step'[q] = "redeem" => step[q] = "redeem" /\ mem'[q] = mem[q]
  BY DEF Moved, KeySteps, ByCode, ByState
<1>4. \A q \in Requests : step'[q] \in ByState \ {"enter"} => step[q] \in ByState \ {"enter"} /\ mem'[q] = mem[q]
  BY DEF Moved, KeySteps
<1>5. \A q \in Requests : step'[q] \in {"open", "enter"} => step[q] = step'[q]
  BY DEF Moved, KeySteps, ByCode, ByState
<1>6. \A q \in Requests : step[q] \in KeySteps => mem[q].key \in Requests
  BY DEF IdentityTyped
<1>7. KeyPlaces'
  BY <1>1, <1>2, <1>3, <1>4, <1>6 DEF KeyPlaces
<1>8. ASSUME NEW k \in Requests, OneUse(k) PROVE OneUse(k)'
  <2>1. \A q \in Requests : Holds(q, k)' => Holds(q, k)
    BY <1>1 DEF Holds
  <2> QED
    BY <1>5, <1>8, <2>1 DEF OneUse
<1> QED
  BY <1>7, <1>8 DEF KeyInv

\* A new code or state: nobody has it yet.
LEMMA KeyMade ==
  ASSUME IdentityTyped, KeyPlaces, KeyInv, NEW r \in Requests, NEW s \in {"hand out", "start"},
         Moved(r, s, "done"), UNCHANGED <<signIns, shared>>,
         \/ codes' = codes /\ states' = states
         \/ codes' = codes \union {r} /\ states' = states
         \/ codes' = codes /\ states' = states \union {r}
  PROVE  KeyPlaces' /\ KeyInv'
<1>1. \A q \in Requests : step'[q] \in KeySteps => q # r /\ step[q] = step'[q] /\ mem'[q] = mem[q]
  BY DEF Moved, KeySteps, ByCode, ByState
<1>2. \A q \in Requests : step[q] = "done" => step'[q] = "done" /\ q # r
  BY DEF Moved
<1>3. \A q \in Requests : step[q] \in KeySteps => mem[q].key \in Requests
  BY DEF IdentityTyped
<1>4. step'[r] = "done" /\ r \notin codes /\ r \notin states
  BY <1>2 DEF Moved, KeyPlaces
<1>5. \A q \in Requests : (step[q] \in KeySteps => mem[q].key # r) /\ <<r, q>> \notin signIns
  BY <1>2 DEF KeyPlaces
<1>6. ByState \ {"enter"} \subseteq KeySteps /\ "redeem" \in KeySteps
  BY DEF KeySteps, ByCode
<1>7. KeyPlaces'
  <2>1. /\ codes \subseteq codes' /\ codes' \subseteq codes \union {r}
        /\ states \subseteq states' /\ states' \subseteq states \union {r}
        /\ r \notin codes' \/ r \notin states'
    BY <1>4
  <2>2. \A k \in Requests : k \in codes' => k \notin states' /\ step'[k] = "done"
    BY <1>2, <1>4, <2>1 DEF KeyPlaces
  <2>3. \A k \in Requests : k \in states' => step'[k] = "done"
    BY <1>2, <1>4, <2>1 DEF KeyPlaces
  <2>4. ASSUME NEW q \in Requests, step'[q] \in KeySteps
        PROVE  /\ step'[mem'[q].key] = "done"
               /\ step'[q] = "redeem" => mem'[q].key \notin states'
               /\ step'[q] \in ByState \ {"enter"} => mem'[q].key \notin codes'
    <3>1. /\ step[q] = step'[q] /\ mem'[q] = mem[q] /\ step[q] \in KeySteps
          /\ mem[q].key \in Requests /\ mem[q].key # r
      BY <1>1, <1>3, <1>5, <2>4
    <3> QED
      BY <1>2, <2>1, <3>1 DEF KeyPlaces
  <2>5. \A q, k \in Requests : <<k, q>> \in signIns' => step'[k] = "done"
    BY <1>2 DEF KeyPlaces
  <2> QED
    BY <1>6, <2>2, <2>3, <2>4, <2>5 DEF KeyPlaces
<1>8. ASSUME NEW k \in Requests, OneUse(k) PROVE OneUse(k)'
  <2>1. \A q \in Requests : Holds(q, k)' => Holds(q, k) /\ step'[q] = step[q] /\ k # r
    BY <1>1, <1>5 DEF Holds
  <2> QED
    BY <1>5, <1>8, <2>1 DEF OneUse
<1> QED
  BY <1>7, <1>8 DEF KeyInv

\* A code or a state is taken up.
LEMMA KeyTaken ==
  ASSUME IdentityTyped, KeyPlaces, KeyInv, NEW r \in Requests, NEW c \in Requests,
         NEW t \in {"redeem", "verify"}, Moved(r, "free", t), mem'[r].key = c, step[c] = "done",
         t = "redeem" => c \in codes, t = "verify" => c \in states,
         shared' = IF Uses(c) = {} THEN shared ELSE shared \union {c},
         UNCHANGED <<codes, states, signIns>>
  PROVE  KeyPlaces' /\ KeyInv'
<1>1. \A q \in Requests \ {r} : step'[q] = step[q] /\ mem'[q] = mem[q]
  BY DEF Moved
<1>2. step'[r] = t /\ step[r] = "free" /\ c # r
  BY DEF Moved
<1>3. \A q \in Requests : step[q] \in KeySteps => mem[q].key \in Requests
  BY DEF IdentityTyped
<1>4. c \in codes => c \notin states
  BY DEF KeyPlaces
<1>5. \A q \in Requests : step[q] = "done" => step'[q] = "done"
  BY <1>1, <1>2
<1>6. KeyPlaces'
  BY <1>1, <1>2, <1>3, <1>4, <1>5 DEF KeyPlaces, KeySteps, ByCode, ByState
<1>7. ASSUME NEW k \in Requests, k \notin shared' PROVE OneUse(k)'
  <2>1. OneUse(k)
    BY <1>7 DEF KeyInv
  <2>2. CASE k # c
    <3>1. \A q \in Requests : Holds(q, k)' => Holds(q, k) /\ step'[q] = step[q]
      BY <1>1, <2>2 DEF Holds
    <3> QED
      BY <2>1, <3>1 DEF OneUse
  <2>3. CASE k = c
    <3>1. Uses(c) = {} /\ c \in codes \union states
      BY <1>7, <2>3
    <3>2. \A q \in Requests : Holds(q, c) => step[q] \in {"open", "enter"}
      BY <3>1 DEF Uses, Holds, KeySteps, ByCode, ByState
    <3>3. \A q \in Requests : ~Holds(q, c) /\ <<c, q>> \notin signIns
      BY <2>1, <2>3, <3>1, <3>2 DEF OneUse
    <3>4. \A q \in Requests : Holds(q, c)' => q = r
      BY <1>1, <3>3 DEF Holds
    <3>5. step'[r] \notin {"open", "enter"}
      BY <1>2
    <3> QED
      BY <2>3, <3>3, <3>4, <3>5 DEF OneUse
  <2> QED
    BY <2>2, <2>3
<1> QED
  BY <1>6, <1>7 DEF KeyInv

\* A code or a state is dropped.
LEMMA KeyDropped ==
  ASSUME IdentityTyped, KeyPlaces, KeyInv, NEW r \in Requests,
         \/ /\ Moved(r, "redeem", "open") /\ codes' = codes \ {mem[r].key} /\ states' = states
         \/ /\ Moved(r, "clean", "enter") /\ states' = states \ {mem[r].key} /\ codes' = codes,
         mem'[r] = mem[r], UNCHANGED <<signIns, shared>>
  PROVE  KeyPlaces' /\ KeyInv'
<1>1. \A q \in Requests \ {r} : step'[q] = step[q] /\ mem'[q] = mem[q]
  BY DEF Moved
<1>2. step[r] \in KeySteps /\ step'[r] \in {"open", "enter"}
  BY DEF Moved, KeySteps, ByCode, ByState
<1>3. codes' \subseteq codes /\ states' \subseteq states
  OBVIOUS
<1>4. mem[r].key \in Requests /\ mem[r].key \notin codes' \union states'
  BY <1>2 DEF KeyPlaces, IdentityTyped, Moved, ByState
<1>5. \A q \in Requests : step[q] = "done" => step'[q] = "done"
  BY <1>1, <1>2 DEF KeySteps, ByCode, ByState
<1>6. \A q \in Requests : step[q] \in KeySteps => mem[q].key \in Requests
  BY DEF IdentityTyped
<1>7. KeyPlaces'
  BY <1>1, <1>2, <1>3, <1>5, <1>6 DEF KeyPlaces, ByState
<1>8. ASSUME NEW k \in Requests, OneUse(k) PROVE OneUse(k)'
  <2>1. \A q \in Requests : Holds(q, k)' => Holds(q, k) /\ (step'[q] = step[q] \/ k \notin codes' \union states')
    BY <1>1, <1>2, <1>4 DEF Holds
  <2> QED
    BY <1>3, <1>8, <2>1 DEF OneUse
<1> QED
  BY <1>7, <1>8 DEF KeyInv

\* A session is opened with a code or a state.
LEMMA KeyUsed ==
  ASSUME IdentityTyped, KeyPlaces, KeyInv, NEW r \in Requests, NEW s \in {"open", "enter"},
         Moved(r, s, "done"), signIns' = signIns \union {<<mem[r].key, r>>},
         UNCHANGED <<codes, states, shared>>
  PROVE  KeyPlaces' /\ KeyInv'
<1>1. \A q \in Requests : step'[q] \in KeySteps => q # r /\ step'[q] = step[q] /\ mem'[q] = mem[q]
  BY DEF Moved, KeySteps, ByCode, ByState
<1>2. step[r] \in KeySteps /\ step[r] \in {"open", "enter"}
  BY DEF Moved, KeySteps, ByCode, ByState
<1>3. PICK h \in Requests : h = mem[r].key
  BY <1>2 DEF IdentityTyped
<1>4. \A q \in Requests : step[q] = "done" => step'[q] = "done"
  BY DEF Moved
<1>5. \A q \in Requests : step[q] \in KeySteps => mem[q].key \in Requests
  BY DEF IdentityTyped
<1>6. ByState \ {"enter"} \subseteq KeySteps /\ "redeem" \in KeySteps
  BY DEF KeySteps, ByCode
<1>7. step[h] = "done"
  BY <1>2, <1>3 DEF KeyPlaces
<1>8. KeyPlaces'
  BY <1>1, <1>3, <1>4, <1>5, <1>6, <1>7 DEF KeyPlaces
<1>9. ASSUME NEW k \in Requests, OneUse(k) PROVE OneUse(k)'
  <2>1. \A q \in Requests : Holds(q, k)' => q # r /\ Holds(q, k) /\ step'[q] = step[q]
    BY <1>1 DEF Holds
  <2>2. Holds(r, h)
    BY <1>2, <1>3 DEF Holds
  <2>3. CASE k # h
    <3>1. \A q \in Requests : <<k, q>> \in signIns' <=> <<k, q>> \in signIns
      BY <1>3, <2>3
    <3> QED
      BY <1>9, <2>1, <3>1 DEF OneUse
  <2>4. CASE k = h
    <3>1. \A q \in Requests : ~Holds(q, k)'
      BY <1>9, <2>1, <2>2, <2>4 DEF OneUse
    <3>2. \A q \in Requests : <<k, q>> \in signIns' => q = r
      BY <1>3, <1>9, <2>2, <2>4 DEF OneUse
    <3>3. k \notin codes \union states
      BY <1>2, <1>9, <2>2, <2>4 DEF OneUse
    <3> QED
      BY <3>1, <3>2, <3>3 DEF OneUse
  <2> QED
    BY <2>3, <2>4
<1> QED
  BY <1>8, <1>9 DEF KeyInv

LEMMA KeyStep ==
  IdentityTyped /\ KeyPlaces /\ KeyInv /\ [IdentityNext]_identityVars => KeyPlaces' /\ KeyInv'
<1> SUFFICES ASSUME IdentityTyped, KeyPlaces, KeyInv, [IdentityNext]_identityVars
             PROVE  KeyPlaces' /\ KeyInv'
  OBVIOUS
<1> USE DEF store, userRows, uses
\* Nothing moves, and codes and states run out at most.
<1>1. ASSUME UNCHANGED <<step, mem, signIns, shared>>, codes' \subseteq codes, states' \subseteq states
      PROVE  KeyPlaces' /\ KeyInv'
  <2>1. \A r \in Requests : step[r] \in KeySteps => mem[r].key \in Requests
    BY DEF IdentityTyped
  <2>2. KeyPlaces'
    BY <1>1, <2>1 DEF KeyPlaces, KeySteps, ByCode
  <2>3. ASSUME NEW k \in Requests, OneUse(k) PROVE OneUse(k)'
    BY <1>1, <2>3 DEF OneUse, Holds
  <2> QED
    BY <1>1, <2>2, <2>3 DEF KeyInv
<1>2. CASE UNCHANGED identityVars
  BY <1>1, <1>2 DEF identityVars, handlers
<1>3. ASSUME NEW k \in Registrations, RunOut(k) PROVE KeyPlaces' /\ KeyInv'
  BY <1>1, <1>3 DEF RunOut, handlers
<1>4. ASSUME NEW r \in Requests, NEW t \in IdentitySteps, Mere(r, step[r], t)
      PROVE  KeyPlaces' /\ KeyInv'
  <2>1. t \in KeySteps =>
          step[r] \in ByState \ {"enter"} /\ t \in ByState \ {"enter"} /\ mem'[r] = mem[r]
    BY <1>4 DEF Mere, KeySteps, ByCode, ByState
  <2> QED
    BY <1>4, <2>1, KeyFrame DEF Mere
<1>5. ASSUME NEW r \in Requests,
             \/ SavePending(r) \/ MailCode(r) \/ Withdraw(r) \/ CountMiss(r) \/ Consume(r)
             \/ \E p \in Registrations, right \in BOOLEAN : Present(r, p, right)
      PROVE  KeyPlaces' /\ KeyInv'
  <2>1. UNCHANGED <<codes, states, signIns, shared>>
    BY <1>5 DEF SavePending, MailCode, Withdraw, CountMiss, Consume, Present
  <2>2. \E s \in {"register", "mail", "withdraw", "miss", "hit", "free"},
           t \in {"mail", "done", "check", "hit", "miss"} : Moved(r, s, t)
    <3>1. ASSUME NEW p \in Registrations, NEW right \in BOOLEAN, Present(r, p, right)
          PROVE  Moved(r, "free", "done") \/ Moved(r, "free", "hit") \/ Moved(r, "free", "miss")
      BY <3>1, RegistrationMoves
    <3>2. CASE SavePending(r) \/ MailCode(r) \/ Withdraw(r) \/ CountMiss(r) \/ Consume(r)
      BY <3>2, RegistrationMoves
    <3> QED
      BY <1>5, <3>1, <3>2
  <2>3. PICK s \in {"register", "mail", "withdraw", "miss", "hit", "free"},
             t \in {"mail", "done", "check", "hit", "miss"} : Moved(r, s, t)
    BY <2>2
  <2>4. t \notin KeySteps /\ s # "done"
    BY DEF KeySteps, ByCode, ByState
  <2> QED
    BY <2>1, <2>3, <2>4, KeyFrame
<1>6. ASSUME NEW r \in Requests, HandOut(r) \/ SaveState(r) PROVE KeyPlaces' /\ KeyInv'
  <2>1. PICK s \in {"hand out", "start"} : Moved(r, s, "done")
    BY <1>6, KeyMoves
  <2>2. UNCHANGED <<signIns, shared>>
    BY <1>6 DEF HandOut, SaveState
  <2>3. \/ codes' = codes /\ states' = states
        \/ codes' = codes \union {r} /\ states' = states
        \/ codes' = codes /\ states' = states \union {r}
    BY <1>6 DEF HandOut, SaveState
  <2> QED
    BY <2>1, <2>2, <2>3, KeyMade
<1>7. ASSUME NEW r \in Requests, NEW c \in Requests, Exchange(r, c) PROVE KeyPlaces' /\ KeyInv'
  <2>1. step[c] = "done" /\ UNCHANGED <<codes, states, signIns>>
    BY <1>7 DEF Exchange
  <2>2. CASE Moved(r, "free", "done") /\ UNCHANGED shared
    BY <2>1, <2>2, KeyFrame DEF KeySteps, ByCode, ByState
  <2>3. CASE /\ c \in codes /\ Moved(r, "free", "redeem") /\ mem'[r].key = c
             /\ shared' = IF Uses(c) = {} THEN shared ELSE shared \union {c}
    BY <2>1, <2>3, KeyTaken
  <2> QED
    BY <1>7, <2>2, <2>3, KeyMoves
<1>8. ASSUME NEW r \in Requests, NEW h \in Requests, NEW linking \in BOOLEAN, CompleteIM8(r, h, linking)
      PROVE  KeyPlaces' /\ KeyInv'
  <2>1. step[h] = "done" /\ UNCHANGED <<codes, states, signIns>>
    BY <1>8 DEF CompleteIM8
  <2>2. CASE Moved(r, "free", "done") /\ UNCHANGED shared
    BY <2>1, <2>2, KeyFrame DEF KeySteps, ByCode, ByState
  <2>3. CASE /\ h \in states /\ Moved(r, "free", "verify") /\ mem'[r].key = h
             /\ shared' = IF Uses(h) = {} THEN shared ELSE shared \union {h}
    BY <2>1, <2>3, KeyTaken
  <2> QED
    BY <1>8, <2>2, <2>3, StateMoves
<1>9. ASSUME NEW r \in Requests, DropCode(r) \/ DropState(r) PROVE KeyPlaces' /\ KeyInv'
  <2>1. mem'[r] = mem[r] /\ UNCHANGED <<signIns, shared>>
    BY <1>9, KeyMoves DEF DropCode, DropState
  <2>2. \/ /\ Moved(r, "redeem", "open") /\ codes' = codes \ {mem[r].key} /\ states' = states
        \/ /\ Moved(r, "clean", "enter") /\ states' = states \ {mem[r].key} /\ codes' = codes
    BY <1>9, KeyMoves DEF DropCode, DropState, Redeemed
  <2> QED
    BY <2>1, <2>2, KeyDropped
<1>10. ASSUME NEW r \in Requests, SignInByCode(r) \/ SignInByState(r) PROVE KeyPlaces' /\ KeyInv'
  <2>1. PICK s \in {"open", "enter"} : Moved(r, s, "done")
    BY <1>10, KeyMoves
  <2>2. signIns' = signIns \union {<<mem[r].key, r>>} /\ UNCHANGED <<codes, states, shared>>
    BY <1>10 DEF SignInByCode, SignInByState
  <2> QED
    BY <2>1, <2>2, KeyUsed
<1> QED
  BY <1>2, <1>3, <1>4, <1>5, <1>6, <1>7, <1>8, <1>9, <1>10, MereMoves
  DEF IdentityNext, IdentityHandler, RestIdentity

-----------------------------------------------------------------------------
IdentityInv == IdentityTyped /\ PlaceInv /\ RegInv /\ KeyPlaces /\ KeyInv

LEMMA IdentityStart == IdentityInit => IdentityInv
<1> SUFFICES ASSUME IdentityInit PROVE IdentityInv
  OBVIOUS
<1> USE DEF IdentityInit
<1>0. \A r \in Requests : step[r] = "free" /\ mem[r] = Nothing
  OBVIOUS
<1>1. IdentityTyped
  <2>1. pending \in [Registrations -> [attempts : 0..MaxAttempts, ttl : BOOLEAN] \union {Nothing}]
    <3>1. [attempts |-> 0, ttl |-> TRUE] \in [attempts : 0..MaxAttempts, ttl : BOOLEAN]
      BY IdentityAssumption
    <3> QED
      BY <3>1
  <2>2. told \subseteq Registrations
    BY DEF Registrations
  <2>3. breaks \in 0..MaxBreaks
    BY HandlersAssumption
  <2>4. step \in [Requests -> IdentitySteps]
    BY DEF IdentitySteps
  <2>5. mem \in [Requests -> IdentityMemory \union {Nothing}]
    OBVIOUS
  <2>6. did \in [Requests -> Dids] /\ holderOf \in [Dids -> Accounts \union {Nothing}]
    OBVIOUS
  <2>7. \A r \in Requests : step[r] \notin Presents \union KeySteps
    BY <1>0 DEF Presents, KeySteps, ByCode, ByState
  <2> QED
    BY <2>1, <2>2, <2>3, <2>4, <2>5, <2>6, <2>7 DEF IdentityTyped, IdentityTypeOK
<1>2. PlaceInv
  <2>1. \A r \in Requests : r \in Registrations /\ r # Waiting
    BY IdentityAssumption DEF Registrations
  <2>2. \A p \in Registrations : pending[p] = IF p = Waiting THEN [attempts |-> 0, ttl |-> TRUE] ELSE Nothing
    OBVIOUS
  <2>3. \A p \in Registrations : pending[p] # Nothing => pending[p].attempts < MaxAttempts
    BY <2>2, IdentityAssumption
  <2> QED
    BY <1>0, <2>1, <2>2, <2>3 DEF PlaceInv, Presents
<1>3. RegInv
  <2> SUFFICES ASSUME NEW p \in Registrations
      PROVE  /\ IsFiniteSet(GuessesOn(p)) /\ Cardinality(GuessesOn(p)) = 0
             /\ \A r \in Requests : ~PresentsIt(r, p)
             /\ 0 <= MaxAttempts
             /\ pending[p] # Nothing => p \notin ended /\ pending[p].ttl /\ pending[p].attempts = 0
    BY DEF RegInv
  <2>1. GuessesOn(p) = {}
    BY DEF GuessesOn
  <2>2. pending[p] = IF p = Waiting THEN [attempts |-> 0, ttl |-> TRUE] ELSE Nothing
    OBVIOUS
  <2> QED
    BY <1>0, <2>1, <2>2, FS_EmptySet, IdentityAssumption DEF PresentsIt, Presents
<1>4. KeyPlaces
  BY <1>0 DEF KeyPlaces, KeySteps, ByCode, ByState
<1>5. KeyInv
  BY <1>0 DEF KeyInv, OneUse, Holds, KeySteps, ByCode, ByState
<1> QED
  BY <1>1, <1>2, <1>3, <1>4, <1>5 DEF IdentityInv

LEMMA IdentityInvHolds == IdentitySpec => []IdentityInv
<1>1. IdentityInv /\ [IdentityNext]_identityVars => IdentityInv'
  BY IdentityTypesKept, PlaceStep, RegStep, KeyStep DEF IdentityInv
<1> QED
  BY <1>1, IdentityStart, PTL DEF IdentitySpec

\* The accounts, the pending registrations, the codes and what the handlers
\* remember keep their shapes: whatever activate, exchange and complete find in
\* Redis or in memory is what registrationUser, callback or start has left.
THEOREM IdentityTypeCorrect == IdentitySpec => []IdentityTypeOK
<1>1. IdentityInv => IdentityTypeOK
  BY DEF IdentityInv, IdentityTyped
<1> QED
  BY <1>1, IdentityInvHolds, PTL

\* A registration stands no more wrong codes than MAX_ACTIVATION_ATTEMPTS and
\* does not come back once it has ended, a login code and an iM8 state open one
\* session: whatever the number of requests, but for uses that overlap.
THEOREM SecretsAlwaysSpent == IdentitySpec => []SecretsAreSpent
<1>1. ASSUME IdentityInv PROVE SecretsAreSpent
  <2>1. GuessesAreCapped
    <3> SUFFICES ASSUME NEW p \in Registrations, p \notin raced
                 PROVE  Cardinality(GuessesOn(p)) <= MaxAttempts
      BY DEF GuessesAreCapped
    <3>1. CASE pending[p] = Nothing
      BY <1>1, <3>1 DEF IdentityInv, RegInv
    <3>2. CASE pending[p] # Nothing
      <4>1. pending[p].attempts < MaxAttempts /\ pending[p].attempts \in Nat
        BY <1>1, <3>2, IdentityAssumption DEF IdentityInv, PlaceInv, IdentityTyped, IdentityTypeOK
      <4>2. Cardinality(GuessesOn(p)) <= pending[p].attempts + 1
        <5>1. Cardinality(GuessesOn(p)) \in Nat
          BY <1>1, FS_CardinalityType DEF IdentityInv, RegInv
        <5>2. \/ Cardinality(GuessesOn(p)) <= pending[p].attempts
              \/ Cardinality(GuessesOn(p)) <= pending[p].attempts + 1
          BY <1>1, <3>2 DEF IdentityInv, RegInv
        <5> QED
          BY <4>1, <5>1, <5>2
      <4>3. Cardinality(GuessesOn(p)) \in Nat
        BY <1>1, FS_CardinalityType DEF IdentityInv, RegInv
      <4> QED
        BY <4>1, <4>2, <4>3, IdentityAssumption
    <3> QED
      BY <3>1, <3>2
  <2>2. DeadStayDead
    BY <1>1 DEF IdentityInv, RegInv, DeadStayDead
  <2>3. KeysWorkOnce
    <3> SUFFICES ASSUME NEW k \in Requests, k \notin shared
                 PROVE  Cardinality(SignInsBy(k)) <= 1
      BY DEF KeysWorkOnce
    <3>1. \A r, q \in SignInsBy(k) : r = q
      BY <1>1 DEF IdentityInv, KeyInv, OneUse, SignInsBy
    <3>2. CASE SignInsBy(k) = {}
      BY <3>2, FS_EmptySet
    <3>3. CASE SignInsBy(k) # {}
      <4>1. PICK r : SignInsBy(k) = {r}
        BY <3>1, <3>3
      <4>2. Cardinality({r}) = 1
        BY FS_Singleton
      <4> QED
        BY <4>1, <4>2
    <3> QED
      BY <3>2, <3>3
  <2> QED
    BY <2>1, <2>2, <2>3 DEF SecretsAreSpent
<1> QED
  BY <1>1, IdentityInvHolds, PTL

-----------------------------------------------------------------------------
\* Notices.

\* What the handlers of pushes and decisions remember, and that what a notice
\* is about was saved.
Pushes == [who : People, to : SUBSET [phone : Phones, id : Requests]]
Decisions == [who : Requests, to : {{}}]

NoticesMemory ==
  /\ mem \in [Requests -> Pushes \union Decisions \union {Nothing}]
  /\ \A r \in Requests :
       /\ step[r] \in {"targets", "send", "prune"} => mem[r] \in Pushes
       /\ step[r] = "decide" => mem[r] \in Decisions
       /\ step[r] \in {"note", "emit"} => r \in questions

NoticesTyped == NoticesTypeOK /\ NoticesMemory

\* A handler goes on.
LEMMA NoticesGo ==
  ASSUME NoticesTyped, NEW r \in Requests, NEW to \in NoticesSteps,
         NEW m \in Pushes \union Decisions \union {Nothing}, GoesWith(r, to, m),
         questions \subseteq questions',
         to \in {"targets", "send", "prune"} => m \in Pushes,
         to = "decide" => m \in Decisions,
         to \in {"note", "emit"} => r \in questions'
  PROVE  step' \in [Requests -> NoticesSteps] /\ NoticesMemory'
BY DEF NoticesTyped, NoticesTypeOK, NoticesMemory, GoesWith

\* Its own memory may be left alone.
LEMMA NoticesGoOn ==
  ASSUME NoticesTyped, NEW r \in Requests, NEW to \in NoticesSteps, Goes(r, to),
         questions \subseteq questions',
         to \in {"done", "emit"}, to = "emit" => r \in questions'
  PROVE  step' \in [Requests -> NoticesSteps] /\ NoticesMemory'
BY DEF NoticesTyped, NoticesTypeOK, NoticesMemory, Goes, GoesWith

\* The notices of staff.
LEMMA NoticeTypes ==
  ASSUME NoticesTyped, NEW r \in Requests,
         Post(r) \/ StoreNotice(r) \/ PublishNotice(r) \/ BreakNotice(r)
  PROVE  NoticesTyped'
<1> USE HandlersAssumption DEF NoticesTyped, NoticesTypeOK, NoticesMemory, NoticesSteps
<1>1. CASE Post(r)
  BY <1>1 DEF Post, GoesWith, dashboard, desk, pushNotes
<1>2. CASE StoreNotice(r)
  BY <1>2 DEF StoreNotice, Goes, GoesWith, dashboard, desk, pushNotes
<1>3. CASE PublishNotice(r)
  BY <1>3 DEF PublishNotice, Goes, GoesWith, tablesOfNotices, desk, pushNotes
<1>4. CASE BreakNotice(r)
  BY <1>4 DEF BreakNotice, Goes, GoesWith, tablesOfNotices, dashboard, desk, pushNotes
<1> QED
  BY <1>1, <1>2, <1>3, <1>4

LEMMA PhoneTypes ==
  ASSUME NoticesTyped, NEW r \in Requests, NEW f \in Phones, NEW p \in People,
         RegisterPhone(r, f, p) \/ UnregisterPhone(r, f, p)
  PROVE  NoticesTyped'
<1> USE HandlersAssumption, NoticesAssumption DEF NoticesTyped, NoticesTypeOK, NoticesSteps
<1>1. CASE RegisterPhone(r, f, p)
  <2>1. Registered(r, f, p) \in [owner : People, id : Requests]
    BY DEF Registered
  <2>2. step' \in [Requests -> NoticesSteps] /\ NoticesMemory'
    BY <1>1, NoticesGoOn DEF RegisterPhone
  <2> QED
    BY <1>1, <2>1, <2>2 DEF RegisterPhone, dashboard, desk
<1>2. CASE UnregisterPhone(r, f, p)
  <2>1. step' \in [Requests -> NoticesSteps] /\ NoticesMemory'
    BY <1>2, NoticesGoOn DEF UnregisterPhone
  <2> QED
    BY <1>2, <2>1 DEF UnregisterPhone, dashboard, desk
<1> QED
  BY <1>1, <1>2

LEMMA PushTypes ==
  ASSUME NoticesTyped, NEW r \in Requests,
         (\E p \in People : BeginPush(r, p)) \/ FindPhones(r) \/ SendPush(r) \/ PrunePhones(r)
  PROVE  NoticesTyped'
<1> USE HandlersAssumption, NoticesAssumption DEF NoticesTyped, NoticesTypeOK, NoticesSteps
<1>1. ASSUME NEW p \in People, BeginPush(r, p) PROVE NoticesTyped'
  <2>1. [who |-> p, to |-> {}] \in Pushes
    BY DEF Pushes
  <2>2. step' \in [Requests -> NoticesSteps] /\ NoticesMemory'
    BY <1>1, <2>1, NoticesGo DEF BeginPush
  <2> QED
    BY <1>1, <2>2 DEF BeginPush, dashboard, desk, pushNotes
<1>2. CASE FindPhones(r)
  <2> DEFINE found == PhonesOf(mem[r].who)
             m == [mem[r] EXCEPT !.to = {[phone |-> f, id |-> tokens[f].id] : f \in found}]
             to == IF found = {} THEN "done" ELSE "send"
  <2>1. mem[r] \in Pushes
    BY <1>2 DEF FindPhones, NoticesMemory
  <2>2. \A f \in found : f \in Phones /\ tokens[f].id \in Requests
    BY DEF PhonesOf
  <2>3. m \in Pushes
    BY <2>1, <2>2 DEF Pushes
  <2>4. GoesWith(r, to, m) /\ to \in {"done", "send"} /\ questions' = questions
    BY <1>2 DEF FindPhones, tablesOfNotices
  <2>5. step' \in [Requests -> NoticesSteps] /\ NoticesMemory'
    <3> HIDE DEF m, to
    <3> QED
      BY <2>3, <2>4, NoticesGo
  <2> QED
    BY <1>2, <2>5 DEF FindPhones, tablesOfNotices, dashboard, desk, pushNotes
<1>3. CASE SendPush(r)
  <2>1. mem[r] \in Pushes
    BY <1>3 DEF SendPush, NoticesMemory
  <2>2. PICK gone \in SUBSET mem[r].to :
          /\ GoesWith(r, IF gone = {} THEN "done" ELSE "prune",
                      [mem[r] EXCEPT !.to = gone])
          /\ reported' = reported \union {t.phone : t \in gone}
    BY <1>3 DEF SendPush
  <2> DEFINE m == [mem[r] EXCEPT !.to = gone]
             to == IF gone = {} THEN "done" ELSE "prune"
  <2>3. m \in Pushes
    BY <2>1 DEF Pushes
  <2>4. {t.phone : t \in gone} \subseteq Phones
    BY <2>1 DEF Pushes
  <2>5. GoesWith(r, to, m) /\ to \in {"done", "prune"} /\ questions' = questions
    BY <1>3, <2>2 DEF SendPush, tablesOfNotices
  <2>6. step' \in [Requests -> NoticesSteps] /\ NoticesMemory'
    <3> HIDE DEF m, to
    <3> QED
      BY <2>3, <2>5, NoticesGo
  <2>7. reported' \subseteq Phones
    BY <2>2, <2>4
  <2> QED
    BY <1>3, <2>6, <2>7 DEF SendPush, tablesOfNotices, dashboard, desk
<1>4. CASE PrunePhones(r)
  <2>1. step' \in [Requests -> NoticesSteps] /\ NoticesMemory'
    BY <1>4, NoticesGoOn DEF PrunePhones
  <2> QED
    BY <1>4, <2>1 DEF PrunePhones, dashboard, desk, pushNotes
<1> QED
  BY <1>1, <1>2, <1>3, <1>4

LEMMA DocumentTypes ==
  ASSUME NoticesTyped, NEW r \in Requests,
         SubmitDocuments(r) \/ Confirm(r) \/ Review(r)
  PROVE  NoticesTyped'
<1> USE HandlersAssumption DEF NoticesTyped, NoticesTypeOK, NoticesSteps
<1>1. CASE SubmitDocuments(r)
  <2>1. step' \in [Requests -> NoticesSteps] /\ NoticesMemory'
    BY <1>1, NoticesGoOn DEF SubmitDocuments
  <2> QED
    BY <1>1, <2>1 DEF SubmitDocuments, StatusOfNew, Submissions, Statuses, dashboard, desk,
                      pushNotes
<1>2. CASE Confirm(r)
  <2>1. [who |-> queue, to |-> {}] \in Decisions
    BY <1>2 DEF Confirm, Submissions, Decisions
  <2>2. step' \in [Requests -> NoticesSteps] /\ NoticesMemory'
    BY <1>2, <2>1, NoticesGo DEF Confirm, tablesOfNotices
  <2> QED
    BY <1>2, <2>2 DEF Confirm, tablesOfNotices, dashboard, desk, pushNotes
<1>3. CASE Review(r)
  <2>1. mem[r].who \in Submissions
    BY <1>3 DEF Review, Submissions, NoticesMemory, Decisions
  <2>2. step' \in [Requests -> NoticesSteps] /\ NoticesMemory'
    BY <1>3, NoticesGoOn DEF Review
  <2> QED
    BY <1>3, <2>1, <2>2 DEF Review, Statuses, dashboard, pushNotes
<1> QED
  BY <1>1, <1>2, <1>3

LEMMA NoticesTypesKept ==
  NoticesTyped /\ [NoticesNext]_noticesVars => NoticesTyped'
<1> SUFFICES ASSUME NoticesTyped, [NoticesNext]_noticesVars PROVE NoticesTyped'
  OBVIOUS
<1>0. /\ Refetched \in [at : {"idle", "asked", "answered"}, page : SUBSET Requests,
                           rows : SUBSET Requests]
      /\ Newest \subseteq Requests
  BY DEF Refetched, Newest, NoticesTyped, NoticesTypeOK
<1>1. ASSUME NEW r \in Requests, NoticesHandler(r) PROVE NoticesTyped'
  BY <1>1, NoticeTypes, PhoneTypes, PushTypes, DocumentTypes DEF NoticesHandler
<1> USE DEF NoticesTyped, NoticesTypeOK, NoticesMemory
<1>2. ASSUME NEW n \in Requests, MarkRead(n, TRUE) \/ MarkRead(n, FALSE) PROVE NoticesTyped'
  BY <1>0, <1>2 DEF MarkRead, handlers, desk, pushNotes
<1>3. ASSUME NEW n \in Requests, Hear(n) \/ Unheard(n) PROVE NoticesTyped'
  BY <1>0, <1>3 DEF Hear, Unheard, handlers, desk, pushNotes, tablesOfNotices
<1>4. ASSUME NEW n \in Requests, Purge(n) PROVE NoticesTyped'
  BY <1>4 DEF Purge, handlers, desk, pushNotes, dashboard
<1>5. CASE AnswerFetch
  BY <1>0, <1>5 DEF AnswerFetch, handlers, desk, pushNotes, tablesOfNotices
<1>8. CASE FailFetch
  BY <1>8 DEF FailFetch, NoFetch, handlers, desk, pushNotes, tablesOfNotices
<1>9. CASE ShowFetch
  BY <1>9 DEF ShowFetch, NoFetch, handlers, desk, pushNotes, tablesOfNotices
<1>6. CASE LoadQueue
  BY <1>6 DEF LoadQueue, handlers, pushNotes, tablesOfNotices, dashboard
<1>7. CASE UNCHANGED noticesVars
  BY <1>7 DEF noticesVars, tablesOfNotices, dashboard, desk, pushNotes, handlers
<1> QED
  BY <1>1, <1>2, <1>3, <1>4, <1>5, <1>6, <1>7, <1>8, <1>9 DEF NoticesNext, RestNotices

\* Staff: what is unread is shown, or on its way to the dashboard, or was
\* missed or left out.
NoticeInv ==
  \A n \in unread :
    \/ n \in missed \union events \union omitted
    \/ step[n] = "emit"
    \/ fetch.at = "asked"
    \/ fetch.at = "answered" /\ n \in fetch.rows
    \/ fetch.at = "idle" /\ n \in shown

\* Phones: a row has the id of the request that made it, so what a push prunes
\* by id are the phones that it was told of.
Pruning(q, t) ==
  /\ step[t.id] = "done"
  /\ \A g \in Phones : tokens[g] # Nothing /\ tokens[g].id = t.id => g = t.phone
  /\ step[q] = "prune" => t.phone \in reported

PhoneInv ==
  /\ TokensFollowPhones
  /\ \A f \in Phones : tokens[f] # Nothing => step[tokens[f].id] = "done"
  /\ \A f, g \in Phones :
       tokens[f] # Nothing /\ tokens[g] # Nothing /\ tokens[f].id = tokens[g].id => f = g
  /\ \A q \in UnderWay : \A t \in mem[q].to : Pruning(q, t)

LEMMA NoticeStep ==
  NoticesTyped /\ NoticeInv /\ [NoticesNext]_noticesVars => NoticeInv'
<1> SUFFICES ASSUME NoticesTyped, NoticeInv, [NoticesNext]_noticesVars PROVE NoticeInv'
  OBVIOUS
<1> USE DEF NoticesTyped, NoticesTypeOK, NoticeInv
<1>1. ASSUME NEW r \in Requests, NoticesHandler(r) PROVE NoticeInv'
  <2>1. CASE Post(r)
    BY <2>1 DEF Post, GoesWith, dashboard
  <2>2. CASE StoreNotice(r)
    BY <2>2 DEF StoreNotice, Goes, GoesWith, dashboard
  <2>3. CASE PublishNotice(r)
    BY <2>3 DEF PublishNotice, Goes, GoesWith, tablesOfNotices
  <2>4. CASE BreakNotice(r)
    BY <2>4 DEF BreakNotice, Goes, GoesWith, tablesOfNotices, dashboard
  <2>5. ASSUME NEW f \in Phones, NEW p \in People,
               RegisterPhone(r, f, p) \/ UnregisterPhone(r, f, p)
        PROVE  NoticeInv'
    BY <2>5 DEF RegisterPhone, UnregisterPhone, Goes, GoesWith, dashboard
  <2>6. ASSUME NEW p \in People, BeginPush(r, p) PROVE NoticeInv'
    BY <2>6 DEF BeginPush, GoesWith, dashboard
  <2>7. CASE FindPhones(r)
    BY <2>7 DEF FindPhones, GoesWith, dashboard, tablesOfNotices
  <2>8. CASE SendPush(r)
    BY <2>8 DEF SendPush, GoesWith, dashboard, tablesOfNotices
  <2>9. CASE PrunePhones(r)
    BY <2>9 DEF PrunePhones, Goes, GoesWith, dashboard
  <2>10. CASE SubmitDocuments(r) \/ Confirm(r) \/ Review(r)
    BY <2>10 DEF SubmitDocuments, Confirm, Review, Goes, GoesWith, dashboard, tablesOfNotices
  <2> QED
    BY <1>1, <2>1, <2>2, <2>3, <2>4, <2>5, <2>6, <2>7, <2>8, <2>9, <2>10 DEF NoticesHandler
<1>2. ASSUME NEW n \in Requests, MarkRead(n, TRUE) \/ MarkRead(n, FALSE) PROVE NoticeInv'
  BY <1>2 DEF MarkRead, Refetched, handlers
<1>3. ASSUME NEW n \in Requests, Hear(n) PROVE NoticeInv'
  BY <1>3 DEF Hear, Refetched, handlers, tablesOfNotices
<1>4. ASSUME NEW n \in Requests, Unheard(n) PROVE NoticeInv'
  BY <1>4 DEF Unheard, handlers, tablesOfNotices
<1>5. ASSUME NEW n \in Requests, Purge(n) PROVE NoticeInv'
  BY <1>5 DEF Purge, handlers, dashboard
<1>6. CASE AnswerFetch
  BY <1>6 DEF AnswerFetch, handlers, tablesOfNotices
<1>9. CASE FailFetch
  BY <1>9 DEF FailFetch, NoFetch, handlers, tablesOfNotices
<1>10. CASE ShowFetch
  BY <1>10 DEF ShowFetch, NoFetch, handlers, tablesOfNotices
<1>7. CASE LoadQueue
  BY <1>7 DEF LoadQueue, handlers, tablesOfNotices, dashboard
<1>8. CASE UNCHANGED noticesVars
  BY <1>8 DEF noticesVars, tablesOfNotices, dashboard, handlers
<1> QED
  BY <1>1, <1>2, <1>3, <1>4, <1>5, <1>6, <1>7, <1>8, <1>9, <1>10 DEF NoticesNext, RestNotices

\* Steps that leave the phones and what is known of them alone.
LEMMA PhonesLeftAlone ==
  ASSUME NoticesTyped, PhoneInv, UNCHANGED <<tokens, pushNotes>>,
         \A r \in Requests : step[r] = "done" => step'[r] = "done",
         \A r \in Requests : step'[r] \in {"send", "prune"} =>
           step'[r] = step[r] /\ mem'[r] = mem[r]
  PROVE  PhoneInv'
<1> USE DEF NoticesTyped, NoticesTypeOK
<1>1. TokensFollowPhones'
  BY DEF PhoneInv, TokensFollowPhones, pushNotes
<1>2. ASSUME NEW r \in UnderWay', NEW t \in mem'[r].to
      PROVE  r \in UnderWay /\ mem'[r] = mem[r] /\ step'[r] = step[r] /\ t.id \in Requests
  <2>1. r \in UnderWay /\ mem'[r] = mem[r] /\ step'[r] = step[r]
    BY <1>2 DEF UnderWay
  <2> QED
    BY <1>2, <2>1 DEF UnderWay, NoticesMemory, Pushes
<1>3. \A r \in UnderWay' : \A t \in mem'[r].to : Pruning(r, t)'
  BY <1>2 DEF PhoneInv, Pruning, pushNotes
<1> QED
  BY <1>1, <1>3 DEF PhoneInv, pushNotes

LEMMA RegisterStep ==
  ASSUME NoticesTyped, PhoneInv, NEW r \in Requests, NEW f \in Phones, NEW p \in People,
         RegisterPhone(r, f, p)
  PROVE  PhoneInv'
<1> USE NoticesAssumption DEF NoticesTyped, NoticesTypeOK, RegisterPhone
<1>1. /\ step' = [step EXCEPT ![r] = "done"]
      /\ \A q \in Requests : q # r => mem'[q] = mem[q]
  BY DEF Goes, GoesWith, NoticesMemory
<1>2. UnderWay' = UnderWay /\ r \notin UnderWay
  BY <1>1 DEF UnderWay
<1>3. /\ Registered(r, f, p) \in [owner : People, id : Requests]
      /\ Registered(r, f, p).owner = p
      /\ Registered(r, f, p).id = IF tokens[f] = Nothing THEN r ELSE tokens[f].id
  BY DEF Registered
<1>4. /\ tokens'[f] # Nothing /\ tokens'[f].owner = p
      /\ tokens'[f].id = IF tokens[f] = Nothing THEN r ELSE tokens[f].id
      /\ \A g \in Phones : g # f => tokens'[g] = tokens[g]
  BY <1>3
<1>5. TokensFollowPhones'
  BY <1>4 DEF PhoneInv, TokensFollowPhones
<1>6. \A q \in UnderWay : \A t \in mem[q].to : t.id \in Requests /\ t.id # r
  BY DEF UnderWay, NoticesMemory, Pushes, PhoneInv, Pruning
<1>7. \A g \in Phones : tokens[g] # Nothing => tokens[g].id \in Requests /\ tokens[g].id # r
  BY DEF PhoneInv
<1>8. \A g \in Phones : tokens'[g] # Nothing => step'[tokens'[g].id] = "done"
  BY <1>1, <1>4, <1>7 DEF PhoneInv
<1>9. \A g, h \in Phones :
       tokens'[g] # Nothing /\ tokens'[h] # Nothing /\ tokens'[g].id = tokens'[h].id => g = h
  BY <1>4, <1>7 DEF PhoneInv
<1>10. ASSUME NEW q \in UnderWay', NEW t \in mem'[q].to PROVE Pruning(q, t)'
  <2>1. q \in UnderWay /\ q # r /\ t \in mem[q].to /\ step'[q] = step[q]
    BY <1>1, <1>2, <1>10 DEF UnderWay
  <2>2. step'[t.id] = "done"
    BY <1>1, <1>6, <2>1 DEF PhoneInv, Pruning
  <2>3. \A g \in Phones : tokens'[g] # Nothing /\ tokens'[g].id = t.id => g = t.phone
    BY <1>4, <1>6, <2>1 DEF PhoneInv, Pruning
  <2>4. step[q] = "prune" => t.phone \in reported'
    BY <2>1 DEF PhoneInv, Pruning, Targeted
  <2> QED
    BY <2>1, <2>2, <2>3, <2>4 DEF Pruning
<1> QED
  BY <1>5, <1>8, <1>9, <1>10 DEF PhoneInv

LEMMA UnregisterStep ==
  ASSUME NoticesTyped, PhoneInv, NEW r \in Requests, NEW f \in Phones, NEW p \in People,
         UnregisterPhone(r, f, p)
  PROVE  PhoneInv'
<1> USE DEF NoticesTyped, NoticesTypeOK, UnregisterPhone
<1>1. /\ step' = [step EXCEPT ![r] = "done"]
      /\ \A q \in Requests : q # r => mem'[q] = mem[q]
  BY DEF Goes, GoesWith, NoticesMemory
<1>2. UnderWay' = UnderWay /\ r \notin UnderWay
  BY <1>1 DEF UnderWay
<1>3. \A g \in Phones : tokens'[g] # Nothing => tokens'[g] = tokens[g]
  OBVIOUS
<1>4. TokensFollowPhones'
  BY DEF PhoneInv, TokensFollowPhones
<1>5. ASSUME NEW q \in UnderWay', NEW t \in mem'[q].to PROVE Pruning(q, t)'
  <2>1. q \in UnderWay /\ q # r /\ t \in mem[q].to /\ step'[q] = step[q]
    BY <1>1, <1>2, <1>5 DEF UnderWay
  <2>2. t.id \in Requests
    BY <2>1 DEF UnderWay, NoticesMemory, Pushes
  <2> QED
    BY <1>1, <1>3, <2>1, <2>2 DEF PhoneInv, Pruning
<1> QED
  BY <1>1, <1>3, <1>4, <1>5 DEF PhoneInv

LEMMA FindStep ==
  ASSUME NoticesTyped, PhoneInv, NEW r \in Requests, FindPhones(r)
  PROVE  PhoneInv'
<1> USE DEF NoticesTyped, NoticesTypeOK
<1> DEFINE found == PhonesOf(mem[r].who)
           T == {[phone |-> f, id |-> tokens[f].id] : f \in found}
           m == [mem[r] EXCEPT !.to = T]
<1>1. /\ UNCHANGED <<tokens, pushNotes>> /\ step[r] = "targets"
      /\ step' = [step EXCEPT ![r] = IF found = {} THEN "done" ELSE "send"]
      /\ found # {} => mem'[r] = m
      /\ \A q \in Requests : q # r => mem'[q] = mem[q]
  BY DEF FindPhones, GoesWith, NoticesMemory, tablesOfNotices
<1>2. mem[r] \in Pushes
  BY <1>1 DEF NoticesMemory
<1>3. m.to = T
  BY <1>2 DEF Pushes
<1>4. \A t \in T : t.phone \in Phones /\ tokens[t.phone] # Nothing /\ t.id = tokens[t.phone].id
  BY DEF PhonesOf
<1> HIDE DEF m, T, found
<1>5. TokensFollowPhones'
  BY <1>1 DEF PhoneInv, TokensFollowPhones, pushNotes
<1>6. ASSUME NEW q \in UnderWay', NEW t \in mem'[q].to PROVE Pruning(q, t)'
  <2>1. CASE q = r
    <3>1. t \in T /\ step'[r] = "send"
      BY <1>1, <1>3, <1>6, <2>1 DEF UnderWay
    <3>2. t.id \in Requests /\ step[t.id] = "done" /\ t.id # r
      BY <1>1, <1>4, <3>1 DEF PhoneInv
    <3> QED
      BY <1>1, <1>4, <2>1, <3>1, <3>2 DEF PhoneInv, Pruning
  <2>2. CASE q # r
    <3>1. q \in UnderWay /\ t \in mem[q].to /\ step'[q] = step[q]
      BY <1>1, <1>6, <2>2 DEF UnderWay
    <3>2. t.id \in Requests /\ step[t.id] = "done" /\ t.id # r
      BY <1>1, <3>1 DEF PhoneInv, Pruning, UnderWay, NoticesMemory, Pushes
    <3> QED
      BY <1>1, <3>1, <3>2 DEF PhoneInv, Pruning, pushNotes
  <2> QED
    BY <2>1, <2>2
<1>7. \A g \in Phones : tokens'[g] # Nothing => step'[tokens'[g].id] = "done"
  BY <1>1 DEF PhoneInv
<1> QED
  BY <1>1, <1>5, <1>6, <1>7 DEF PhoneInv

LEMMA SendStep ==
  ASSUME NoticesTyped, PhoneInv, NEW r \in Requests, SendPush(r)
  PROVE  PhoneInv'
<1> USE DEF NoticesTyped, NoticesTypeOK
<1>1. PICK gone \in SUBSET mem[r].to :
        /\ GoesWith(r, IF gone = {} THEN "done" ELSE "prune", [mem[r] EXCEPT !.to = gone])
        /\ reported' = reported \union {t.phone : t \in gone}
  BY DEF SendPush
<1>2. mem[r] \in Pushes /\ step[r] = "send" /\ UNCHANGED <<tokens, lastOwner>>
  BY DEF SendPush, NoticesMemory, tablesOfNotices
<1> DEFINE m == [mem[r] EXCEPT !.to = gone]
<1>3. m.to = gone
  BY <1>2 DEF Pushes
<1>4. /\ step' = [step EXCEPT ![r] = IF gone = {} THEN "done" ELSE "prune"]
      /\ gone # {} => mem'[r] = m
      /\ \A q \in Requests : q # r => mem'[q] = mem[q]
  BY <1>1 DEF GoesWith, NoticesMemory
<1> HIDE DEF m
<1>5. TokensFollowPhones'
  BY <1>1, <1>2 DEF PhoneInv, TokensFollowPhones
<1>6. ASSUME NEW q \in UnderWay', NEW t \in mem'[q].to PROVE Pruning(q, t)'
  <2>1. q \in UnderWay /\ t \in mem[q].to /\ (q # r => step'[q] = step[q])
        /\ (q = r => t \in gone)
    BY <1>2, <1>3, <1>4, <1>6 DEF UnderWay
  <2>2. t.id \in Requests /\ step[t.id] = "done" /\ t.id # r
    BY <1>2, <2>1 DEF PhoneInv, Pruning, UnderWay, NoticesMemory, Pushes
  <2>3. step'[t.id] = "done"
    BY <1>4, <2>2
  <2>4. step'[q] = "prune" => t.phone \in reported'
    BY <1>1, <2>1 DEF PhoneInv, Pruning
  <2> QED
    BY <1>2, <2>1, <2>3, <2>4 DEF PhoneInv, Pruning
<1>7. \A g \in Phones : tokens'[g] # Nothing => step'[tokens'[g].id] = "done"
  BY <1>2, <1>4 DEF PhoneInv
<1> QED
  BY <1>2, <1>5, <1>6, <1>7 DEF PhoneInv

LEMMA PruneStep ==
  ASSUME NoticesTyped, PhoneInv, NEW r \in Requests, PrunePhones(r)
  PROVE  PhoneInv'
<1> USE DEF NoticesTyped, NoticesTypeOK
<1> DEFINE ids == {t.id : t \in mem[r].to}
<1>1. /\ step[r] = "prune" /\ step' = [step EXCEPT ![r] = "done"]
      /\ \A q \in Requests : q # r => mem'[q] = mem[q]
      /\ tokens' = [f \in Phones |->
           IF tokens[f] # Nothing /\ tokens[f].id \in ids THEN Nothing ELSE tokens[f]]
      /\ UNCHANGED pushNotes
  BY DEF PrunePhones, Goes, GoesWith, NoticesMemory
<1>2. \A f \in Phones : tokens'[f] # Nothing => tokens'[f] = tokens[f]
  BY <1>1
<1>3. ASSUME NEW f \in Phones, tokens'[f] # tokens[f] PROVE f \in reported
  BY <1>1, <1>3 DEF PhoneInv, Pruning, UnderWay
<1>4. TokensFollowPhones'
  BY <1>1, <1>3 DEF PhoneInv, TokensFollowPhones, pushNotes
<1>5. ASSUME NEW q \in UnderWay', NEW t \in mem'[q].to PROVE Pruning(q, t)'
  <2>1. q \in UnderWay /\ q # r /\ t \in mem[q].to /\ step'[q] = step[q]
    BY <1>1, <1>5 DEF UnderWay
  <2>2. t.id \in Requests
    BY <2>1 DEF UnderWay, NoticesMemory, Pushes
  <2>3. step'[t.id] = "done" /\ (step'[q] = "prune" => t.phone \in reported')
    BY <1>1, <2>1, <2>2 DEF PhoneInv, Pruning, pushNotes
  <2> QED
    BY <1>2, <2>1, <2>3 DEF PhoneInv, Pruning
<1>6. \A g \in Phones : tokens'[g] # Nothing => step'[tokens'[g].id] = "done"
  BY <1>1, <1>2 DEF PhoneInv
<1> QED
  BY <1>2, <1>4, <1>5, <1>6 DEF PhoneInv

LEMMA PhoneStep ==
  NoticesTyped /\ PhoneInv /\ [NoticesNext]_noticesVars => PhoneInv'
<1> SUFFICES ASSUME NoticesTyped, PhoneInv, [NoticesNext]_noticesVars PROVE PhoneInv'
  OBVIOUS
<1>1. ASSUME NEW r \in Requests, NoticesHandler(r) PROVE PhoneInv'
  <2> USE DEF NoticesTyped, NoticesTypeOK, NoticesMemory
  <2>1. CASE Post(r) \/ StoreNotice(r) \/ PublishNotice(r) \/ BreakNotice(r)
    BY <2>1, PhonesLeftAlone
    DEF Post, StoreNotice, PublishNotice, BreakNotice, Goes, GoesWith, tablesOfNotices
  <2>2. CASE SubmitDocuments(r) \/ Confirm(r) \/ Review(r)
    BY <2>2, PhonesLeftAlone
    DEF SubmitDocuments, Confirm, Review, Goes, GoesWith, tablesOfNotices
  <2>3. ASSUME NEW p \in People, BeginPush(r, p) PROVE PhoneInv'
    BY <2>3, PhonesLeftAlone DEF BeginPush, GoesWith, tablesOfNotices
  <2> QED
    BY <1>1, <2>1, <2>2, <2>3, RegisterStep, UnregisterStep, FindStep, SendStep, PruneStep
    DEF NoticesHandler
<1>2. CASE UNCHANGED <<tokens, pushNotes, handlers>>
  BY <1>2, PhonesLeftAlone DEF handlers
<1> QED
  BY <1>1, <1>2
  DEF NoticesNext, RestNotices, MarkRead, Hear, Unheard, Purge, AnswerFetch, FailFetch, ShowFetch,
      LoadQueue, tablesOfNotices, noticesVars

LEMMA DecidedStep ==
  NoticesTyped /\ DecidedOnSeen /\ [NoticesNext]_noticesVars => DecidedOnSeen'
<1> SUFFICES ASSUME NoticesTyped, DecidedOnSeen, [NoticesNext]_noticesVars PROVE DecidedOnSeen'
  OBVIOUS
<1>1. CASE UNCHANGED <<documents, status, judged, under>>
  BY <1>1 DEF DecidedOnSeen
<1>2. ASSUME NEW r \in Requests, NoticesHandler(r) PROVE DecidedOnSeen'
  <2>1. CASE SubmitDocuments(r)
    BY <2>1 DEF SubmitDocuments, StatusOfNew, DecidedOnSeen
  <2>2. CASE Review(r)
    BY <2>2 DEF Review, DecidedOnSeen
  <2> QED
    BY <1>1, <1>2, <2>1, <2>2
    DEF NoticesHandler, Post, StoreNotice, PublishNotice, BreakNotice, BeginPush, RegisterPhone,
        UnregisterPhone, FindPhones, SendPush, PrunePhones, Confirm, tablesOfNotices, desk
<1> QED
  BY <1>1, <1>2
  DEF NoticesNext, RestNotices, MarkRead, Hear, Unheard, Purge, AnswerFetch, FailFetch, ShowFetch,
      LoadQueue, tablesOfNotices, noticesVars, desk

\* Everything holds before the first request.
LEMMA NoticesStart ==
  NoticesInit => NoticesTyped /\ NoticeInv /\ PhoneInv /\ DecidedOnSeen
<1> SUFFICES ASSUME NoticesInit PROVE NoticesTyped /\ NoticeInv /\ PhoneInv /\ DecidedOnSeen
  OBVIOUS
<1>1. step = [r \in Requests |-> "free"] /\ mem = [r \in Requests |-> Nothing]
  BY DEF NoticesInit
<1>2. tokens = [f \in Phones |-> Nothing] /\ lastOwner = [f \in Phones |-> Nothing]
  BY DEF NoticesInit
<1>3. NoticesMemory
  BY <1>1 DEF NoticesMemory
<1>4. /\ fetch \in [at : {"idle", "asked", "answered"}, page : SUBSET Requests,
                    rows : SUBSET Requests]
      /\ older \in [Requests -> SUBSET Requests]
  BY DEF NoticesInit, NoFetch
<1>5. breaks \in 0..MaxBreaks
  BY HandlersAssumption DEF NoticesInit
<1>6. NoticesTypeOK
  BY <1>1, <1>2, <1>4, <1>5 DEF NoticesTypeOK, NoticesInit, Submissions, Statuses, NoticesSteps
<1>7. NoticeInv /\ DecidedOnSeen
  BY DEF NoticeInv, DecidedOnSeen, NoticesInit
<1>8. UnderWay = {}
  BY <1>1 DEF UnderWay
<1>9. PhoneInv
  BY <1>2, <1>8 DEF PhoneInv, TokensFollowPhones
<1> QED
  BY <1>3, <1>6, <1>7, <1>9 DEF NoticesTyped

\* Notices, phones and documents keep their types, for any people and requests.
THEOREM NoticesTypeCorrect == NoticesSpec => []NoticesTypeOK
<1>1. NoticesInit => NoticesTyped
  BY NoticesStart
<1>2. NoticesTyped => NoticesTypeOK
  BY DEF NoticesTyped
<1> QED
  BY <1>1, <1>2, NoticesTypesKept, PTL DEF NoticesSpec

\* Staff see what is unread, phones follow their owners, and what a reviewer
\* decides on is what they saw, but for the overlaps that NoticesReach names
\* (notify, registerPushToken, sendPushToUser, reviewINEVerification).
THEOREM NoticesAlwaysReach == NoticesSpec => []NoticesReach
<1>1. NoticesInit => NoticesTyped /\ NoticeInv /\ PhoneInv /\ DecidedOnSeen
  BY NoticesStart
<1>2. NoticesTyped /\ NoticeInv => UnreadAreShown
  BY DEF NoticesTyped, NoticesTypeOK, NoticeInv, UnreadAreShown, AtRest
<1>3. NoticesTyped /\ NoticeInv /\ PhoneInv /\ DecidedOnSeen => NoticesReach
  BY <1>2 DEF NoticesReach, PhoneInv
<1> QED
  BY <1>1, <1>3, NoticesTypesKept, NoticeStep, PhoneStep, DecidedStep, PTL DEF NoticesSpec

-----------------------------------------------------------------------------
\* Admin lists.

ListFetches == [Args -> [at : {"idle", "asked", "read"}, has : RowViews \union {Nothing}]]
HookCalls == [Hooks -> [call : Requests \union {Nothing},
                        outcome : {"none", "pending", "success", "error"}]]

ListsTyped ==
  /\ ListsTypeOK
  /\ \A a \in Args : listing[a].at = "read" => listing[a].has \in RowViews

LEMMA RefetchTyped ==
  ASSUME ListsTyped, NEW a \in Args
  PROVE  /\ Refetching(listing, a) \in ListFetches
         /\ Refetching(listing, a)[a].at # "idle"
         /\ listing[a].at # "read" => Refetching(listing, a)[a].at = "asked"
         /\ \A b \in Args : \/ Refetching(listing, a)[b] = listing[b]
                            \/ Refetching(listing, a)[b].at = "asked"
BY DEF ListsTyped, ListsTypeOK, ListFetches, Refetching

\* What an effect of the page does.
LEMMA EffectTyped ==
  ASSUME ListsTyped, arg \in Args, NEW f \in HookCalls, NEW ran \in BOOLEAN,
         NEW d \in Changes \union {Nothing}, ListEffect(f, ran, d)
  PROVE  /\ followed' \in HookCalls /\ listing' \in ListFetches
         /\ dialog' \in Changes \union {Nothing}
         /\ \A b \in Args : listing'[b] = listing[b] \/ listing'[b].at = "asked"
         /\ listing' \in {listing, Refetching(listing, arg)}
<1>1. listing' \in {listing, Refetching(listing, arg)}
  BY DEF ListEffect
<1>2. listing \in ListFetches
  BY DEF ListsTyped, ListsTypeOK, ListFetches
<1>3. listing' \in ListFetches
  BY <1>1, <1>2, RefetchTyped
<1>4. \A b \in Args : listing'[b] = listing[b] \/ listing'[b].at = "asked"
  BY <1>1, RefetchTyped
<1> QED
  BY <1>1, <1>3, <1>4 DEF ListEffect

\* A call goes on.
LEMMA CallGoes ==
  ASSUME ListsTyped, NEW r \in Requests, NEW to \in {"sent", "applied", "refused", "done"},
         NEW m \in Changes, GoesWith(r, to, m)
  PROVE  /\ step' \in [Requests -> {"free", "sent", "applied", "refused", "done"}]
         /\ mem' \in [Requests -> Changes \union {Nothing}]
         /\ \A q \in Requests : mem'[q] = Nothing <=> step'[q] \in {"free", "done"}
         /\ step'[r] = to
         /\ to # "done" => mem'[r] = m
         /\ \A q \in Requests \ {r} : step'[q] = step[q] /\ mem'[q] = mem[q]
<1> Nothing \notin Changes
  BY ListsAssumption
<1> QED
  BY DEF ListsTyped, ListsTypeOK, GoesWith

\* A change is sent.
LEMMA SentTypes ==
  ASSUME ListsTyped, NEW r \in Requests, NEW c \in Changes,
         NEW d \in Changes \union {Nothing}, Send(r, c, d)
  PROVE  /\ ListsTyped'
         /\ \A b \in Args : listing'[b] = listing[b] \/ listing'[b].at = "asked"
<1> USE DEF ListsTyped, ListsTypeOK
<1> DEFINE f == [followed EXCEPT ![c.how] = [call |-> r, outcome |-> "pending"]]
           ran == followed[c.how].outcome \in {"success", "error"}
<1>1. f \in HookCalls
  BY DEF HookCalls
<1>2. ListEffect(f, ran, d)
  BY DEF Send
<1>3. ran \in BOOLEAN
  OBVIOUS
<1> HIDE DEF f, ran
<1>4. /\ followed' \in HookCalls /\ listing' \in ListFetches /\ dialog' \in Changes \union {Nothing}
      /\ \A b \in Args : listing'[b] = listing[b] \/ listing'[b].at = "asked"
  BY <1>1, <1>2, <1>3, EffectTyped
<1>5. /\ step' \in [Requests -> {"free", "sent", "applied", "refused", "done"}]
      /\ mem' \in [Requests -> Changes \union {Nothing}]
      /\ \A q \in Requests : mem'[q] = Nothing <=> step'[q] \in {"free", "done"}
  BY CallGoes DEF Send
<1>6. \A a \in Args : listing'[a].at = "read" => listing'[a].has \in RowViews
  BY <1>4
<1>7. ListsTypeOK'
  BY <1>4, <1>5 DEF Send, ListFetches, HookCalls
<1> QED
  BY <1>4, <1>6, <1>7

\* The query and the dialog.
LEMMA QueryTypes ==
  ASSUME ListsTyped,
         \/ OpenList \/ CloseList \/ Dismiss
         \/ \E a \in Args : Filter(a) \/ ServeList(a) \/ GotList(a) \/ ListFails(a)
         \/ \E i \in ListItems : AskDelete(i) \/ AskReview(i) \/ Elsewhere(i)
  PROVE  ListsTyped'
<1> USE HandlersAssumption DEF ListsTyped, ListsTypeOK
<1>0. "all" \in Args /\ NotFollowed \in [Hooks -> [call : Requests \union {Nothing},
                             outcome : {"none", "pending", "success", "error"}]]
  BY DEF Args, NotFollowed
<1>1. CASE OpenList
  <2>1. listing' \in ListFetches /\ (\A b \in Args : listing'[b] = listing[b] \/ listing'[b].at = "asked")
    BY <1>0, <1>1, RefetchTyped DEF OpenList
  <2>2. \A a \in Args : listing'[a].at = "read" => listing'[a].has \in RowViews
    BY <2>1
  <2> HIDE DEF RowViews, Changes, NotFollowed, Args
  <2> QED
    BY <1>0, <1>1, <2>1, <2>2 DEF OpenList, handlers, ListFetches
<1>2. CASE CloseList
  <2>1. listCache' \in [Args -> RowViews \union {Nothing}]
    BY <1>2 DEF CloseList
  <2> HIDE DEF RowViews, Changes, NotFollowed, Args
  <2> QED
    BY <1>0, <1>2, <2>1 DEF CloseList, handlers
<1>3. CASE Dismiss
  BY <1>3 DEF Dismiss, listData, handlers
<1>4. ASSUME NEW a \in Args, Filter(a) PROVE ListsTyped'
  <2>1. listing' \in ListFetches /\ (\A b \in Args : listing'[b] = listing[b] \/ listing'[b].at = "asked")
    BY <1>4, RefetchTyped DEF Filter
  <2>2. \A b \in Args : listing'[b].at = "read" => listing'[b].has \in RowViews
    BY <2>1
  <2> HIDE DEF RowViews, Changes
  <2> QED
    BY <1>4, <2>1, <2>2 DEF Filter, Kept, listDialogs, handlers, ListFetches
<1>5. ASSUME NEW a \in Args, ServeList(a) PROVE ListsTyped'
  <2>1. Listed(a) \in RowViews
    BY DEF Listed, RowViews, RowStates
  <2> HIDE DEF RowViews, Changes
  <2> QED
    BY <1>5, <2>1 DEF ServeList, listDialogs, handlers
<1>6. ASSUME NEW a \in Args, GotList(a) PROVE ListsTyped'
  <2>1. IdleList \in [at : {"idle", "asked", "read"}, has : RowViews \union {Nothing}] /\ IdleList.at = "idle"
    BY DEF IdleList
  <2> HIDE DEF RowViews, Changes
  <2> QED
    BY <1>6, <2>1 DEF GotList, listDialogs, handlers
<1>7. ASSUME NEW a \in Args, ListFails(a) PROVE ListsTyped'
  <2>1. IdleList \in [at : {"idle", "asked", "read"}, has : RowViews \union {Nothing}] /\ IdleList.at = "idle"
    BY DEF IdleList
  <2> HIDE DEF RowViews, Changes
  <2> QED
    BY <1>7, <2>1 DEF ListFails, listDialogs
<1>8. ASSUME NEW i \in ListItems, AskDelete(i) \/ AskReview(i) PROVE ListsTyped'
  <2>1. dialog' \in Changes
    BY <1>8 DEF AskDelete, AskReview, Changes, Hooks, RowStates
  <2> HIDE DEF RowViews, Changes
  <2> QED
    BY <1>8, <2>1 DEF AskDelete, AskReview, listData, handlers
<1>9. ASSUME NEW i \in ListItems, Elsewhere(i) PROVE ListsTyped'
  <2>1. onServer' \in RowViews
    BY <1>9 DEF Elsewhere, RowViews, RowStates
  <2> HIDE DEF RowViews, Changes
  <2> QED
    BY <1>9, <2>1 DEF Elsewhere, listData, listDialogs
<1> QED
  BY <1>1, <1>2, <1>3, <1>4, <1>5, <1>6, <1>7, <1>8, <1>9

\* The calls: types, and that a list that was read stays as it was read.
LEMMA CallTypes ==
  ASSUME ListsTyped, NEW r \in Requests,
         \/ ConfirmChange(r) \/ ServeChange(r) \/ Answered(r) \/ LoseAnswer(r)
         \/ \E i \in ListItems : SetRole(r, i) \/ PublishRow(r, i)
  PROVE  ListsTyped'
<1> USE HandlersAssumption DEF ListsTyped, ListsTypeOK
<1>1. CASE ConfirmChange(r)
  BY <1>1, SentTypes DEF ConfirmChange
<1>2. ASSUME NEW i \in ListItems, SetRole(r, i) PROVE ListsTyped'
  <2>1. PICK to \in {"first", "second"} : Send(r, [how |-> "role", item |-> i, to |-> to], Nothing)
    BY <1>2 DEF SetRole
  <2>2. [how |-> "role", item |-> i, to |-> to] \in Changes
    BY DEF Changes, Hooks, RowStates
  <2> QED
    BY <2>1, <2>2, SentTypes
<1>3. ASSUME NEW i \in ListItems, PublishRow(r, i) PROVE ListsTyped'
  <2>1. [how |-> "publish", item |-> i, to |-> "second"] \in Changes
    BY DEF Changes, Hooks, RowStates
  <2>2. /\ step' \in [Requests -> {"free", "sent", "applied", "refused", "done"}]
        /\ mem' \in [Requests -> Changes \union {Nothing}]
        /\ \A q \in Requests : mem'[q] = Nothing <=> step'[q] \in {"free", "done"}
    BY <1>3, <2>1, CallGoes DEF PublishRow
  <2> HIDE DEF RowViews, Changes, Args
  <2> QED
    BY <1>3, <2>2 DEF PublishRow, listData
<1>4. ASSUME step[r] \notin {"free", "done"} PROVE mem[r] \in Changes
  BY <1>4
<1>5. ASSUME NEW to \in {"applied", "refused", "done"}, Goes(r, to), step[r] \notin {"free", "done"}
      PROVE  /\ step' \in [Requests -> {"free", "sent", "applied", "refused", "done"}]
             /\ mem' \in [Requests -> Changes \union {Nothing}]
             /\ \A q \in Requests : mem'[q] = Nothing <=> step'[q] \in {"free", "done"}
  BY <1>4, <1>5, CallGoes DEF Goes
<1>6. CASE ServeChange(r)
  <2>1. mem[r].item \in ListItems /\ mem[r].to \in RowStates
    BY <1>4, <1>6 DEF ServeChange, Changes
  <2>2. onServer' \in RowViews
    BY <1>6, <2>1 DEF ServeChange, RowViews
  <2> HIDE DEF RowViews, Changes, Args
  <2> QED
    BY <1>5, <1>6, <2>2 DEF ServeChange, listData, listDialogs
<1>7. CASE Answered(r)
  <2>1. mem[r] \in Changes /\ mem[r].item \in ListItems
    BY <1>4, <1>7 DEF Answered, Changes
  <2>2. unlisted' \in [Args -> SUBSET ListItems]
    BY <1>7, <2>1 DEF Answered, NotTold
  <2> DEFINE h == mem[r].how
             f == [followed EXCEPT ![h].outcome = IF step[r] = "applied" THEN "success" ELSE "error"]
  <2>3. f \in HookCalls
    BY DEF HookCalls
  <2> HIDE DEF f
  <2>4. listing \in ListFetches /\ followed \in HookCalls
    BY DEF ListFetches, HookCalls
  <2>5. /\ followed' \in HookCalls /\ listing' \in ListFetches /\ dialog' \in Changes \union {Nothing}
        /\ busyRow' \in ListItems \union {Nothing}
        /\ \A b \in Args : listing'[b] = listing[b] \/ listing'[b].at = "asked"
    <3>1. CASE Follows(r)
      <4>0. ~Publishes(r)
        BY <3>1 DEF Follows, Publishes, Hooks
      <4>1. ListEffect(f, TRUE, dialog) /\ UNCHANGED <<busyRow, awaited>>
        BY <1>7, <3>1, <4>0 DEF Answered, f
      <4> QED
        BY <2>3, <4>1, EffectTyped
    <3>2. CASE ~Follows(r) /\ Publishes(r)
      <4>1. /\ busyRow' = Nothing /\ UNCHANGED <<dialog, followed>>
            /\ listing' = listing \/ listing' = Refetching(listing, arg)
        BY <1>7, <3>2 DEF Answered
      <4> QED
        BY <2>4, <4>1, RefetchTyped
    <3>3. CASE ~Follows(r) /\ ~Publishes(r)
      <4>1. UNCHANGED <<listing, listDialogs>>
        BY <1>7, <3>3 DEF Answered
      <4> QED
        BY <2>4, <4>1 DEF listDialogs
    <3> QED
      BY <3>1, <3>2, <3>3
  <2>6. /\ step' \in [Requests -> {"free", "sent", "applied", "refused", "done"}]
        /\ mem' \in [Requests -> Changes \union {Nothing}]
        /\ \A q \in Requests : mem'[q] = Nothing <=> step'[q] \in {"free", "done"}
    BY <1>5, <1>7 DEF Answered
  <2>7. \A a \in Args : listing'[a].at = "read" => listing'[a].has \in RowViews
    BY <2>5
  <2>8. UNCHANGED <<onServer, listPage, mounted, arg, listCache, onPage, breaks>>
    BY <1>7 DEF Answered
  <2>9. awaited' \subseteq Requests
    BY <1>7 DEF Answered, listDialogs
  <2> QED
    BY <2>2, <2>5, <2>6, <2>7, <2>8, <2>9 DEF ListFetches, HookCalls
<1>8. CASE LoseAnswer(r)
  <2>1. mem[r].item \in ListItems
    BY <1>4, <1>8 DEF LoseAnswer, Changes
  <2> HIDE DEF RowViews, Changes, Args
  <2> QED
    BY <1>5, <1>8, <2>1 DEF LoseAnswer, listData, listDialogs
<1> QED
  BY <1>1, <1>2, <1>3, <1>6, <1>7, <1>8

LEMMA ListsTypesKept == ListsTyped /\ [ListsNext]_listVars => ListsTyped'
<1> SUFFICES ASSUME ListsTyped, [ListsNext]_listVars PROVE ListsTyped'
  OBVIOUS
<1>1. CASE UNCHANGED listVars
  BY <1>1 DEF listVars, listData, listDialogs, handlers, ListsTyped, ListsTypeOK
<1>2. CASE ListsNext
  BY <1>2, QueryTypes, CallTypes DEF ListsNext
<1> QED
  BY <1>1, <1>2

\* A row of the list of argument a is going to be right, or is: the query has
\* not been read yet, was read with it, or its data have it.
Shows(a, i) ==
  \/ listing[a].at = "asked"
  \/ listing[a].at = "read" /\ listing[a].has[i] = Listed(a)[i]
  \/ listing[a].at = "idle" /\ (listCache[a] = Nothing \/ listCache[a][i] = Listed(a)[i])

Applying(i) == \E r \in Requests : step[r] = "applied" /\ mem[r].item = i

RowsInv == \A a \in Args, i \in ListItems : i \in unlisted[a] \/ Applying(i) \/ Shows(a, i)

\* The page has the data of its query, once they have come.
PageInv ==
  mounted =>
    /\ listing[arg].at = "idle" => listCache[arg] # Nothing \/ unlisted[arg] = ListItems
    /\ listCache[arg] # Nothing => onPage = listCache[arg]

\* What a page asks for again, and what it does not touch.
LEMMA ShowsKept ==
  ASSUME ListsTyped, NEW a \in Args, NEW i \in ListItems, Shows(a, i),
         listing'[a] = listing[a] \/ listing'[a].at = "asked",
         listing'[a].at = "idle" => listCache'[a] \in {listCache[a], Nothing},
         onServer'[i] = onServer[i]
  PROVE  Shows(a, i)'
BY DEF Shows, Listed, ListsTyped, ListsTypeOK

LEMMA RowsByQuery ==
  ASSUME ListsTyped, RowsInv,
         \/ OpenList \/ CloseList \/ Dismiss
         \/ \E a \in Args : Filter(a) \/ ServeList(a) \/ GotList(a) \/ ListFails(a)
         \/ \E i \in ListItems : AskDelete(i) \/ AskReview(i) \/ Elsewhere(i)
  PROVE  RowsInv'
<1> SUFFICES ASSUME NEW a \in Args, NEW i \in ListItems
             PROVE  (i \in unlisted[a] \/ Applying(i) \/ Shows(a, i))'
  BY DEF RowsInv
<1>0. i \in unlisted[a] \/ Applying(i) \/ Shows(a, i)
  BY DEF RowsInv
<1>1. UNCHANGED <<step, mem>> /\ (Applying(i)' <=> Applying(i))
  BY DEF OpenList, CloseList, Dismiss, Filter, ServeList, GotList, ListFails, AskDelete, AskReview,
         Elsewhere, handlers, Applying
<1>2. "all" \in Args
  BY DEF Args
<1>3. CASE OpenList
  BY <1>0, <1>1, <1>2, <1>3, RefetchTyped, ShowsKept DEF OpenList
<1>4. CASE CloseList
  BY <1>0, <1>1, <1>4, ShowsKept DEF CloseList
<1>5. CASE Dismiss
  BY <1>0, <1>1, <1>5, ShowsKept DEF Dismiss, listData
<1>6. ASSUME NEW b \in Args, Filter(b) PROVE (i \in unlisted[a] \/ Applying(i) \/ Shows(a, i))'
  BY <1>0, <1>1, <1>6, RefetchTyped, ShowsKept DEF Filter
<1>7. ASSUME NEW b \in Args, ServeList(b) PROVE (i \in unlisted[a] \/ Applying(i) \/ Shows(a, i))'
  <2>1. CASE a = b
    <3>1. Shows(a, i)'
      BY <1>7, <2>1 DEF ServeList, Shows, Listed, ListsTyped, ListsTypeOK
    <3> QED
      BY <3>1
  <2>2. CASE a # b
    BY <1>0, <1>1, <1>7, <2>2, ShowsKept DEF ServeList, ListsTyped, ListsTypeOK
  <2> QED
    BY <2>1, <2>2
<1>8. ASSUME NEW b \in Args, GotList(b) PROVE (i \in unlisted[a] \/ Applying(i) \/ Shows(a, i))'
  <2>1. CASE a = b /\ Shows(a, i)
    <3>1. listing[a].at = "read" /\ listing[a].has[i] = Listed(a)[i]
      BY <1>8, <2>1 DEF GotList, Shows
    <3>2. Shows(a, i)'
      BY <1>8, <2>1, <3>1 DEF GotList, Shows, Listed, IdleList, ListsTyped, ListsTypeOK
    <3> QED
      BY <3>2
  <2>2. CASE a # b /\ Shows(a, i)
    BY <1>8, <2>2, ShowsKept DEF GotList, ListsTyped, ListsTypeOK
  <2> QED
    BY <1>0, <1>1, <1>8, <2>1, <2>2 DEF GotList
<1>9. ASSUME NEW b \in Args, ListFails(b) PROVE (i \in unlisted[a] \/ Applying(i) \/ Shows(a, i))'
  <2>1. CASE a = b
    BY <1>9, <2>1 DEF ListFails, ListsTyped, ListsTypeOK
  <2>2. CASE a # b
    BY <1>0, <1>1, <1>9, <2>2, ShowsKept DEF ListFails, ListsTyped, ListsTypeOK
  <2> QED
    BY <2>1, <2>2
<1>10. ASSUME NEW j \in ListItems, AskDelete(j) \/ AskReview(j)
       PROVE (i \in unlisted[a] \/ Applying(i) \/ Shows(a, i))'
  BY <1>0, <1>1, <1>10, ShowsKept DEF AskDelete, AskReview, listData
<1>11. ASSUME NEW j \in ListItems, Elsewhere(j)
       PROVE (i \in unlisted[a] \/ Applying(i) \/ Shows(a, i))'
  <2>1. CASE i = j
    BY <1>11, <2>1 DEF Elsewhere
  <2>2. CASE i # j
    <3>1. onServer'[i] = onServer[i]
      BY <1>11, <2>2 DEF Elsewhere, ListsTyped, ListsTypeOK, RowViews
    <3> QED
      BY <1>0, <1>1, <1>11, <3>1, ShowsKept DEF Elsewhere, listData
  <2> QED
    BY <2>1, <2>2
<1> QED
  BY <1>3, <1>4, <1>5, <1>6, <1>7, <1>8, <1>9, <1>10, <1>11

\* What the answer of a call makes the page ask for: its own list, if a hook or
\* the page still heeds the call and the row was changed.
LEMMA AnswerEffect ==
  ASSUME ListsTyped, NEW r \in Requests, Answered(r)
  PROVE  /\ \A b \in Args : listing'[b] = listing[b] \/ listing'[b].at = "asked"
         /\ step[r] = "applied" /\ (Follows(r) \/ Publishes(r)) /\ listing[arg].at # "read"
              => listing'[arg].at = "asked"
<1> USE DEF ListsTyped, ListsTypeOK
<1> DEFINE h == mem[r].how
           f == [followed EXCEPT ![h].outcome = IF step[r] = "applied" THEN "success" ELSE "error"]
<1>1. CASE Follows(r)
  <2>1. ~Publishes(r) /\ h \in Hooks
    BY <1>1 DEF Follows, Publishes, Hooks
  <2>2. step[r] = "applied" => Told(f) # {}
    BY <2>1 DEF Told
  <2>3. ListEffect(f, TRUE, dialog)
    <3> HIDE DEF ListsTyped, ListsTypeOK
    <3> QED
      BY <1>1, <2>1 DEF Answered
  <2> HIDE DEF f
  <2>4. /\ listing' = listing \/ listing' = Refetching(listing, arg)
        /\ step[r] = "applied" => listing' = Refetching(listing, arg)
    BY <2>2, <2>3 DEF ListEffect
  <2> QED
    BY <2>4, RefetchTyped
<1>2. CASE ~Follows(r) /\ Publishes(r)
  <2>1. /\ listing' = listing \/ listing' = Refetching(listing, arg)
        /\ step[r] = "applied" => listing' = Refetching(listing, arg)
    BY <1>2 DEF Answered
  <2> QED
    BY <2>1, RefetchTyped
<1>3. CASE ~Follows(r) /\ ~Publishes(r)
  BY <1>3 DEF Answered
<1> QED
  BY <1>1, <1>2, <1>3

\* A call that changes no row leaves every list to show what it showed.
LEMMA RowsByOthers ==
  ASSUME ListsTyped, RowsInv, UNCHANGED <<onServer, listCache, unlisted>>,
         \A b \in Args : listing'[b] = listing[b] \/ listing'[b].at = "asked",
         \A q \in Requests : step[q] = "applied" => step'[q] = "applied" /\ mem'[q] = mem[q]
  PROVE  RowsInv'
<1> SUFFICES ASSUME NEW a \in Args, NEW i \in ListItems
             PROVE  (i \in unlisted[a] \/ Applying(i) \/ Shows(a, i))'
  BY DEF RowsInv
<1>1. i \in unlisted[a] \/ Applying(i) \/ Shows(a, i)
  BY DEF RowsInv
<1>2. Applying(i) => Applying(i)'
  BY DEF Applying
<1> QED
  BY <1>1, <1>2, ShowsKept

LEMMA RowsByCalls ==
  ASSUME ListsTyped, RowsInv, NEW r \in Requests,
         \/ ConfirmChange(r) \/ ServeChange(r) \/ Answered(r) \/ LoseAnswer(r)
         \/ \E i \in ListItems : SetRole(r, i) \/ PublishRow(r, i)
  PROVE  RowsInv'
<1> USE DEF ListsTyped, ListsTypeOK
<1>1. ASSUME NEW c \in Changes, NEW d \in Changes \union {Nothing}, Send(r, c, d)
      PROVE RowsInv'
  <2>1. \A q \in Requests : step[q] = "applied" => step'[q] = "applied" /\ mem'[q] = mem[q]
    BY <1>1 DEF Send, GoesWith
  <2> QED
    BY <1>1, <2>1, SentTypes, RowsByOthers DEF Send
<1>2. CASE ConfirmChange(r)
  BY <1>1, <1>2 DEF ConfirmChange
<1>3. ASSUME NEW i \in ListItems, SetRole(r, i) PROVE RowsInv'
  <2>1. PICK to \in {"first", "second"} : Send(r, [how |-> "role", item |-> i, to |-> to], Nothing)
    BY <1>3 DEF SetRole
  <2>2. [how |-> "role", item |-> i, to |-> to] \in Changes
    BY DEF Changes, Hooks, RowStates
  <2> QED
    BY <1>1, <2>1, <2>2
<1>4. ASSUME NEW i \in ListItems, PublishRow(r, i) PROVE RowsInv'
  <2>1. \A q \in Requests : step[q] = "applied" => step'[q] = "applied" /\ mem'[q] = mem[q]
    BY <1>4 DEF PublishRow, GoesWith
  <2> QED
    BY <1>4, <2>1, RowsByOthers DEF PublishRow, listData
<1>5. CASE ServeChange(r)
  <2>1. mem[r] \in Changes /\ mem[r].item \in ListItems
    BY <1>5 DEF ServeChange, Changes
  <2>2. CASE Goes(r, "refused") /\ UNCHANGED onServer
    <3>1. \A q \in Requests : step[q] = "applied" => step'[q] = "applied" /\ mem'[q] = mem[q]
      BY <1>5, <2>2 DEF ServeChange, Goes, GoesWith
    <3> QED
      BY <1>5, <2>2, <3>1, RowsByOthers DEF ServeChange, listData
  <2>3. CASE Goes(r, "applied") /\ onServer' = [onServer EXCEPT ![mem[r].item] = mem[r].to]
    <3> SUFFICES ASSUME NEW a \in Args, NEW i \in ListItems
                 PROVE  (i \in unlisted[a] \/ Applying(i) \/ Shows(a, i))'
      BY DEF RowsInv
    <3>1. i \in unlisted[a] \/ Applying(i) \/ Shows(a, i)
      BY DEF RowsInv
    <3>2. /\ step'[r] = "applied" /\ mem'[r] = mem[r]
          /\ \A q \in Requests \ {r} : step'[q] = step[q] /\ mem'[q] = mem[q]
      BY <2>1, <2>3, CallGoes DEF Goes
    <3>3. CASE i = mem[r].item
      BY <3>2, <3>3 DEF Applying
    <3>4. CASE i # mem[r].item
      <4>1. onServer'[i] = onServer[i]
        BY <2>3, <3>4 DEF RowViews
      <4>2. Applying(i) => Applying(i)'
        BY <1>5, <3>2 DEF Applying, ServeChange
      <4> QED
        BY <1>5, <3>1, <4>1, <4>2, ShowsKept DEF ServeChange, listData
    <3> QED
      BY <3>3, <3>4
  <2> QED
    BY <1>5, <2>2, <2>3 DEF ServeChange
<1>6. CASE LoseAnswer(r)
  <2> SUFFICES ASSUME NEW a \in Args, NEW i \in ListItems
               PROVE  (i \in unlisted[a] \/ Applying(i) \/ Shows(a, i))'
    BY DEF RowsInv
  <2>1. i \in unlisted[a] \/ Applying(i) \/ Shows(a, i)
    BY DEF RowsInv
  <2>2. mem[r] \in Changes
    BY <1>6 DEF LoseAnswer
  <2>3. \A q \in Requests \ {r} : step'[q] = step[q] /\ mem'[q] = mem[q]
    BY <1>6, <2>2, CallGoes DEF LoseAnswer, Goes
  <2>4. CASE i = mem[r].item
    BY <1>6, <2>4 DEF LoseAnswer
  <2>5. CASE i # mem[r].item
    <3>1. Applying(i) => Applying(i)'
      BY <2>3, <2>5 DEF Applying
    <3> QED
      BY <1>6, <2>1, <3>1, ShowsKept DEF LoseAnswer, listData
  <2> QED
    BY <2>4, <2>5
<1>7. CASE Answered(r)
  <2>1. mem[r] \in Changes /\ mem[r].item \in ListItems
    BY <1>7 DEF Answered, Changes
  <2>2. \A q \in Requests \ {r} : step'[q] = step[q] /\ mem'[q] = mem[q]
    BY <1>7, <2>1, CallGoes DEF Answered, Goes
  <2>3. \A b \in Args : listing'[b] = listing[b] \/ listing'[b].at = "asked"
    BY <1>7, AnswerEffect
  <2>4. CASE step[r] = "refused"
    <3>1. \A q \in Requests : step[q] = "applied" => step'[q] = "applied" /\ mem'[q] = mem[q]
      BY <2>2, <2>4
    <3>2. UNCHANGED <<onServer, listCache, unlisted>>
      BY <1>7, <2>4 DEF Answered
    <3> QED
      BY <2>3, <3>1, <3>2, RowsByOthers
  <2>5. CASE step[r] = "applied"
    <3> SUFFICES ASSUME NEW a \in Args, NEW i \in ListItems
                 PROVE  (i \in unlisted[a] \/ Applying(i) \/ Shows(a, i))'
      BY DEF RowsInv
    <3>1. i \in unlisted[a] \/ Applying(i) \/ Shows(a, i)
      BY DEF RowsInv
    <3>2. NotTold(r) /\ UNCHANGED <<onServer, listCache>>
      BY <1>7, <2>5 DEF Answered
    <3>3. CASE i = mem[r].item /\ (Follows(r) \/ Publishes(r)) /\ a = arg /\ listing[a].at # "read"
      <4>1. listing'[a].at = "asked"
        BY <1>7, <2>5, <3>3, AnswerEffect
      <4> QED
        BY <4>1 DEF Shows
    <3>4. CASE i = mem[r].item /\ ~((Follows(r) \/ Publishes(r)) /\ a = arg /\ listing[a].at # "read")
      BY <3>2, <3>4 DEF NotTold
    <3>5. CASE i # mem[r].item
      <4>1. Applying(i) => Applying(i)'
        BY <2>2, <3>5 DEF Applying
      <4>2. i \in unlisted[a] => i \in unlisted'[a]
        BY <3>2 DEF NotTold
      <4>3. Shows(a, i) => Shows(a, i)'
        BY <2>3, <3>2, ShowsKept
      <4> QED
        BY <3>1, <4>1, <4>2, <4>3
    <3> QED
      BY <3>3, <3>4, <3>5
  <2> QED
    BY <1>7, <2>4, <2>5 DEF Answered
<1> QED
  BY <1>2, <1>3, <1>4, <1>5, <1>6, <1>7

\* The page and what its query has.
LEMMA PageStep ==
  ListsTyped /\ PageInv /\ [ListsNext]_listVars => PageInv'
<1> SUFFICES ASSUME ListsTyped, PageInv, [ListsNext]_listVars PROVE PageInv'
  OBVIOUS
<1> USE DEF PageInv
<1>0. "all" \in Args /\ arg \in Args
  BY DEF Args, ListsTyped, ListsTypeOK
<1>1. ASSUME UNCHANGED <<mounted, arg, onPage, listCache>>,
             listing'[arg].at = "idle" => listing[arg].at = "idle",
             unlisted[arg] = ListItems => unlisted'[arg] = ListItems
      PROVE PageInv'
  BY <1>1
<1>2. CASE UNCHANGED listVars
  BY <1>1, <1>2 DEF listVars, listData
<1>3. CASE OpenList
  BY <1>0, <1>3, RefetchTyped DEF OpenList
<1>4. CASE CloseList
  BY <1>4 DEF CloseList
<1>5. CASE Dismiss
  BY <1>1, <1>5 DEF Dismiss, listData
<1>6. ASSUME NEW a \in Args, Filter(a) PROVE PageInv'
  BY <1>6, RefetchTyped DEF Filter, Kept
<1>7. ASSUME NEW a \in Args, ServeList(a) PROVE PageInv'
  BY <1>0, <1>7 DEF ServeList, ListsTyped, ListsTypeOK
<1>8. ASSUME NEW a \in Args, GotList(a) PROVE PageInv'
  <2>1. listing[a].has \in RowViews /\ listing[a].has # Nothing
    BY <1>8, ListsAssumption DEF GotList, ListsTyped
  <2> QED
    BY <1>0, <1>8, <2>1 DEF GotList, ListsTyped, ListsTypeOK
<1>9. ASSUME NEW a \in Args, ListFails(a) PROVE PageInv'
  BY <1>0, <1>9 DEF ListFails, ListsTyped, ListsTypeOK
<1>10. ASSUME NEW i \in ListItems, AskDelete(i) \/ AskReview(i) PROVE PageInv'
  BY <1>1, <1>10 DEF AskDelete, AskReview, listData
<1>11. ASSUME NEW i \in ListItems, Elsewhere(i) PROVE PageInv'
  <2>1. unlisted'[arg] = unlisted[arg] \union {i}
    BY <1>0, <1>11 DEF Elsewhere
  <2> QED
    BY <1>1, <1>11, <2>1 DEF Elsewhere, listData
<1>12. ASSUME NEW r \in Requests, NEW c \in Changes, NEW d \in Changes \union {Nothing}, Send(r, c, d)
       PROVE PageInv'
  <2>1. listing'[arg].at = "idle" => listing[arg].at = "idle"
    BY <1>0, <1>12, SentTypes
  <2> QED
    BY <1>1, <1>12, <2>1 DEF Send
<1>13. ASSUME NEW r \in Requests, ConfirmChange(r) PROVE PageInv'
  BY <1>12, <1>13 DEF ConfirmChange, ListsTyped, ListsTypeOK
<1>14. ASSUME NEW r \in Requests, NEW i \in ListItems, SetRole(r, i) PROVE PageInv'
  <2>1. PICK to \in {"first", "second"} : Send(r, [how |-> "role", item |-> i, to |-> to], Nothing)
    BY <1>14 DEF SetRole
  <2>2. [how |-> "role", item |-> i, to |-> to] \in Changes
    BY DEF Changes, Hooks, RowStates
  <2> QED
    BY <1>12, <2>1, <2>2
<1>15. ASSUME NEW r \in Requests, NEW i \in ListItems, PublishRow(r, i) PROVE PageInv'
  BY <1>1, <1>15 DEF PublishRow, listData
<1>16. ASSUME NEW r \in Requests, ServeChange(r) PROVE PageInv'
  BY <1>1, <1>16 DEF ServeChange, listData
<1>17. ASSUME NEW r \in Requests, Answered(r) PROVE PageInv'
  <2>1. listing'[arg].at = "idle" => listing[arg].at = "idle"
    BY <1>0, <1>17, AnswerEffect
  <2>2. mem[r].item \in ListItems
    BY <1>17 DEF Answered, ListsTyped, ListsTypeOK, Changes
  <2>3. unlisted'[arg] \in {unlisted[arg], unlisted[arg] \union {mem[r].item}}
    BY <1>0, <1>17 DEF Answered, NotTold
  <2> QED
    BY <1>1, <1>17, <2>1, <2>2, <2>3 DEF Answered
<1>18. ASSUME NEW r \in Requests, LoseAnswer(r) PROVE PageInv'
  <2>1. mem[r].item \in ListItems
    BY <1>18 DEF LoseAnswer, ListsTyped, ListsTypeOK, Changes
  <2>2. unlisted'[arg] = unlisted[arg] \union {mem[r].item}
    BY <1>0, <1>18 DEF LoseAnswer
  <2> QED
    BY <1>1, <1>18, <2>1, <2>2 DEF LoseAnswer, listData
<1> QED
  BY <1>2, <1>3, <1>4, <1>5, <1>6, <1>7, <1>8, <1>9, <1>10, <1>11, <1>13, <1>14, <1>15, <1>16,
     <1>17, <1>18 DEF ListsNext

LEMMA RowsStep == ListsTyped /\ RowsInv /\ [ListsNext]_listVars => RowsInv'
<1> SUFFICES ASSUME ListsTyped, RowsInv, [ListsNext]_listVars PROVE RowsInv'
  OBVIOUS
<1>1. CASE UNCHANGED listVars
  BY <1>1, RowsByOthers DEF listVars, listData, handlers
<1>2. CASE ListsNext
  BY <1>2, RowsByQuery, RowsByCalls DEF ListsNext
<1> QED
  BY <1>1, <1>2

LEMMA ListsStart == ListsInit => ListsTyped /\ RowsInv /\ PageInv
<1> SUFFICES ASSUME ListsInit PROVE ListsTyped /\ RowsInv /\ PageInv
  OBVIOUS
<1>1. /\ onServer \in RowViews
      /\ listing = [a \in Args |-> IdleList]
      /\ IdleList \in [at : {"idle", "asked", "read"}, has : RowViews \union {Nothing}]
      /\ IdleList.at = "idle"
  BY DEF ListsInit, RowViews, RowStates, IdleList
<1>2. NotFollowed \in HookCalls
  BY DEF NotFollowed, HookCalls
<1>3. breaks \in 0..MaxBreaks
  BY HandlersAssumption DEF ListsInit
<1>4. ListsTypeOK
  <2> HIDE DEF RowViews, Changes, NotFollowed, IdleList
  <2> QED
    BY <1>1, <1>2, <1>3 DEF ListsInit, ListsTypeOK, HookCalls, Args
<1>5. ListsTyped
  BY <1>1, <1>4 DEF ListsTyped
<1>6. RowsInv /\ PageInv
  BY <1>1 DEF RowsInv, PageInv, Shows, ListsInit
<1> QED
  BY <1>5, <1>6

\* The lists, their queries and the mutations of the admin keep their types,
\* for any rows and any calls.
THEOREM ListsTypeCorrect == ListsSpec => []ListsTypeOK
<1>1. ListsInit => ListsTyped
  BY ListsStart
<1>2. ListsTyped => ListsTypeOK
  BY DEF ListsTyped
<1> QED
  BY <1>1, <1>2, ListsTypesKept, PTL DEF ListsSpec

\* The list on an admin's screen is the API's when nothing is in flight, but
\* for the rows that ListIsCurrent names (AllCourses, AllUsers and
\* INEVerificationQueue: what their effects load again).
THEOREM ListsAreCurrent == ListsSpec => []ListIsCurrent
<1>1. ListsInit => ListsTyped /\ RowsInv /\ PageInv
  BY ListsStart
<1>2. ListsTyped /\ RowsInv /\ PageInv => ListIsCurrent
  <2> SUFFICES ASSUME ListsTyped, RowsInv, PageInv, mounted, onPage # Nothing,
                      \A a \in Args : listing[a].at = "idle",
                      \A r \in Requests : step[r] \in {"free", "done"},
                      NEW i \in ListItems \ unlisted[arg]
               PROVE  onPage[i] = Listed(arg)[i]
    BY DEF ListIsCurrent
  <2>1. arg \in Args
    BY DEF ListsTyped, ListsTypeOK
  <2>2. ~Applying(i)
    BY DEF Applying
  <2>3. listCache[arg] = Nothing \/ listCache[arg][i] = Listed(arg)[i]
    BY <2>1, <2>2 DEF RowsInv, Shows
  <2> QED
    BY <2>1, <2>3 DEF PageInv
<1> QED
  BY <1>1, <1>2, ListsTypesKept, RowsStep, PageStep, PTL DEF ListsSpec

-----------------------------------------------------------------------------
\* The scenes.

\* In each scene the API behaves as the component that is on it: the runs check
\* the components as their modules specify them.
THEOREM ApiScenes ==
  MCSpec =>
    /\ scene = "storefront" => StorefrontSpec
    /\ scene = "accounts" => AccountsSpec
    /\ scene = "identity" => IdentitySpec
    /\ scene = "notices" => NoticesSpec
    /\ scene = "lists" => ListsSpec
<1>1. MCSpec => (scene = "storefront" => StorefrontSpec)
  <2>1. MCInit /\ scene = "storefront" => StorefrontInit
    BY DEF MCInit
  <2>2. scene = "storefront" /\ [MCNext]_apiVars => (scene = "storefront")'
    BY DEF MCNext, apiVars
  <2>3. scene = "storefront" /\ [MCNext]_apiVars => [StorefrontNext]_storefrontVars
    BY DEF MCNext, apiVars, storefrontOwn, storefrontVars, handlers
  <2> QED
    BY <2>1, <2>2, <2>3, PTL DEF MCSpec, StorefrontSpec
<1>2. MCSpec => (scene = "accounts" => AccountsSpec)
  <2>1. MCInit /\ scene = "accounts" => AccountsInit
    BY DEF MCInit
  <2>2. scene = "accounts" /\ [MCNext]_apiVars => (scene = "accounts")'
    BY DEF MCNext, apiVars
  <2>3. scene = "accounts" /\ [MCNext]_apiVars => [AccountsNext]_accountsVars
    BY DEF MCNext, apiVars, accountsOwn, accountsVars
  <2> QED
    BY <2>1, <2>2, <2>3, PTL DEF MCSpec, AccountsSpec
<1>3. MCSpec => (scene = "identity" => IdentitySpec)
  <2>1. MCInit /\ scene = "identity" => IdentityInit
    BY DEF MCInit
  <2>2. scene = "identity" /\ [MCNext]_apiVars => (scene = "identity")'
    BY DEF MCNext, apiVars
  <2>3. scene = "identity" /\ [MCNext]_apiVars => [IdentityNext]_identityVars
    BY DEF MCNext, apiVars, identityOwn, identityVars
  <2> QED
    BY <2>1, <2>2, <2>3, PTL DEF MCSpec, IdentitySpec
<1>4. MCSpec => (scene = "notices" => NoticesSpec)
  <2>1. MCInit /\ scene = "notices" => NoticesInit
    BY DEF MCInit
  <2>2. scene = "notices" /\ [MCNext]_apiVars => (scene = "notices")'
    BY DEF MCNext, apiVars
  <2>3. scene = "notices" /\ [MCNext]_apiVars => [NoticesNext]_noticesVars
    BY DEF MCNext, apiVars, noticesOwn, noticesVars
  <2> QED
    BY <2>1, <2>2, <2>3, PTL DEF MCSpec, NoticesSpec
<1>5. MCSpec => (scene = "lists" => ListsSpec)
  <2>1. MCInit /\ scene = "lists" => ListsInit
    BY DEF MCInit
  <2>2. scene = "lists" /\ [MCNext]_apiVars => (scene = "lists")'
    BY DEF MCNext, apiVars
  <2>3. scene = "lists" /\ [MCNext]_apiVars => [ListsNext]_listVars
    BY DEF MCNext, apiVars, listsOwn, listVars
  <2> QED
    BY <2>1, <2>2, <2>3, PTL DEF MCSpec, ListsSpec
<1> QED
  BY <1>1, <1>2, <1>3, <1>4, <1>5

\* The requests and tables of every component keep their types.
THEOREM ApiTypeCorrect == MCSpec => []ApiTypeOK
<1>1. MCSpec => [](scene = "storefront" => StorefrontTypeOK)
  <2>1. scene = "storefront" /\ [MCNext]_apiVars => (scene = "storefront")'
    BY DEF MCNext, apiVars
  <2>2. ~(scene = "storefront") /\ [MCNext]_apiVars => ~(scene = "storefront")'
    BY DEF MCNext, apiVars
  <2> QED
    BY <2>1, <2>2, ApiScenes, StorefrontTypeCorrect, PTL DEF MCSpec
<1>2. MCSpec => [](scene = "accounts" => AccountsTypeOK)
  <2>1. scene = "accounts" /\ [MCNext]_apiVars => (scene = "accounts")'
    BY DEF MCNext, apiVars
  <2>2. ~(scene = "accounts") /\ [MCNext]_apiVars => ~(scene = "accounts")'
    BY DEF MCNext, apiVars
  <2> QED
    BY <2>1, <2>2, ApiScenes, AccountsTypeCorrect, PTL DEF MCSpec
<1>3. MCSpec => [](scene = "identity" => IdentityTypeOK)
  <2>1. scene = "identity" /\ [MCNext]_apiVars => (scene = "identity")'
    BY DEF MCNext, apiVars
  <2>2. ~(scene = "identity") /\ [MCNext]_apiVars => ~(scene = "identity")'
    BY DEF MCNext, apiVars
  <2> QED
    BY <2>1, <2>2, ApiScenes, IdentityTypeCorrect, PTL DEF MCSpec
<1>4. MCSpec => [](scene = "notices" => NoticesTypeOK)
  <2>1. scene = "notices" /\ [MCNext]_apiVars => (scene = "notices")'
    BY DEF MCNext, apiVars
  <2>2. ~(scene = "notices") /\ [MCNext]_apiVars => ~(scene = "notices")'
    BY DEF MCNext, apiVars
  <2> QED
    BY <2>1, <2>2, ApiScenes, NoticesTypeCorrect, PTL DEF MCSpec
<1>5. MCSpec => [](scene = "lists" => ListsTypeOK)
  <2>1. scene = "lists" /\ [MCNext]_apiVars => (scene = "lists")'
    BY DEF MCNext, apiVars
  <2>2. ~(scene = "lists") /\ [MCNext]_apiVars => ~(scene = "lists")'
    BY DEF MCNext, apiVars
  <2> QED
    BY <2>1, <2>2, ApiScenes, ListsTypeCorrect, PTL DEF MCSpec
<1> QED
  BY <1>1, <1>2, <1>3, <1>4, <1>5, PTL DEF ApiTypeOK
===============================================================================
