------------------------------- MODULE Accounts -------------------------------
(***************************************************************************)
(* One account in apps/api: its row, the copy of the row that Redis keeps  *)
(* for the middleware, its sessions, its picture and its sockets.          *)
(*                                                                         *)
(* Every query and every Redis command is a step.  The row has a revision, *)
(* bumped by each update of any column; `role` and `image` are the columns *)
(* that something depends on.  Which pair a session takes is in Sessions;  *)
(* here a session is there or not, and a rotation writes the one it read.  *)
(***************************************************************************)
EXTENDS Handlers

CONSTANTS
  First        \* the picture and the session there are at the start

ASSUME AccountsAssumption == First \notin Requests

Names == Requests \union {First}
Roles == {"user", "admin"}
Rows == [rev : Nat, role : Roles, image : Names]

VARIABLES
  row,         \* the User row
  images,      \* Cloudinary: the pictures that exist
  cachedRow,   \* Redis user:{id}
  sessions,    \* Redis session:{id}:*
  sockets,     \* sockets that are connected
  adminRoom    \* sockets in the admin room

\* History.
VARIABLES
  stale,       \* the cached row was already replaced or deleted when stored,
               \* or the handler that should have replaced it died
  reopened,    \* a session was opened, or written back, after the row was deleted
  bare,        \* the upload that should have replaced the picture failed
  early,       \* sockets whose handshake began before the role changed last
  misled,      \* sockets that were connected with a stale row
  answered,    \* the deletion was answered
  late,        \* requests that came after that
  ghosts       \* ... and were let in

account == <<row, images, cachedRow, sessions>>
live == <<sockets, adminRoom>>
causes == <<stale, reopened, bare, early, misled, answered, late, ghosts>>
accountsVars == <<account, live, handlers, causes>>

\* What a handler remembers: what it was asked for, the row it has read or
\* written, and the sessions that the SCAN of a deletion, or the GET of a
\* rotation, has found.
Jobs == {"visit", "socket", "info", "role", "picture", "order", "signin", "leave"}
Job(j) == [job |-> j, copy |-> Nothing, found |-> {}]
AccountsMemory ==
  [job : Jobs, copy : Rows \union {Nothing}, found : SUBSET Names]

AccountsSteps ==
  {"free", "rotate", "load", "row", "fill", "enter", "update", "destroy", "upload",
   "replace", "place", "open", "cache", "scan", "revoke", "forget", "done"}

AccountsTypeOK ==
  /\ row \in Rows \union {Nothing} /\ cachedRow \in Rows \union {Nothing}
  /\ images \subseteq Names /\ sessions \subseteq Names
  /\ sockets \subseteq Requests /\ adminRoom \subseteq sockets
  /\ step \in [Requests -> AccountsSteps]
  /\ mem \in [Requests -> AccountsMemory \union {Nothing}]
  /\ \A r \in Requests :
       step[r] \notin {"free", "done"} => mem[r] \in AccountsMemory
  /\ breaks \in 0..MaxBreaks
  /\ {stale, reopened, bare, answered} \subseteq BOOLEAN
  /\ early \subseteq Requests /\ misled \subseteq Requests
  /\ late \subseteq Requests /\ ghosts \subseteq late

-----------------------------------------------------------------------------
\* r goes on with the row c in hand.
Holding(r, to, c) == GoesWith(r, to, [mem[r] EXCEPT !.copy = c])

\* What is in the cache was stored by a handler that holds c.
Stored(c) == cachedRow' = c /\ stale' = (c # row)

Begins(r, j, to) == step[r] = "free" /\ GoesWith(r, to, Job(j))

\* isAuthenticated and the handshake of socket.ts, once the tokens are good:
\* the session must exist (isSessionActive, or rotateSession's grace).
Arrive(r, j) ==
  /\ j \in {"visit", "socket"} /\ sessions # {}
  /\ Begins(r, j, "load")
  /\ late' = IF answered THEN late \union {r} ELSE late
  /\ UNCHANGED <<account, live, breaks, stale, reopened, bare, early, misled,
                 answered, ghosts>>

\* isAuthenticated with an expired access token: rotateSession reads the
\* session ...
ArriveExpired(r) ==
  /\ step[r] = "free"
  /\ \E s \in sessions : GoesWith(r, "rotate", [Job("visit") EXCEPT !.found = {s}])
  /\ late' = IF answered THEN late \union {r} ELSE late
  /\ UNCHANGED <<account, live, breaks, stale, reopened, bare, early, misled,
                 answered, ghosts>>

\* ... and writes it with its next pair, whether it is still there or not.
WriteRotation(r) ==
  /\ step[r] = "rotate"
  /\ Goes(r, "load")
  /\ sessions' = sessions \union mem[r].found
  /\ reopened' = (reopened \/ (row = Nothing /\ sessions' # sessions))
  /\ UNCHANGED <<row, images, cachedRow, live, breaks, stale, bare, early,
                 misled, answered, late, ghosts>>

\* loadUser: the cache, then the table.
LoadUser(r) ==
  /\ step[r] = "load"
  /\ IF cachedRow # Nothing THEN Holding(r, "enter", cachedRow)
     ELSE Goes(r, "row")
  /\ UNCHANGED <<account, live, breaks, causes>>

AfterRow == [visit |-> "fill", socket |-> "fill", order |-> "place",
             signin |-> "open", picture |-> "destroy"]

\* Read the row; without one the answer is 401, 400 or 404.
ReadUser(r) ==
  /\ step[r] = "row"
  /\ IF row = Nothing THEN Goes(r, "done")
     ELSE Holding(r, AfterRow[mem[r].job], row)
  /\ UNCHANGED <<account, live, breaks, causes>>

\* cacheUser at the end of loadUser.
FillUser(r) ==
  /\ step[r] = "fill"
  /\ Goes(r, "enter")
  /\ Stored(mem[r].copy)
  /\ UNCHANGED <<row, images, sessions, live, breaks, reopened, bare, early,
                 misled, answered, late, ghosts>>

\* req.user is set: the request goes on with the row it was given.
Enter(r) ==
  /\ step[r] = "enter" /\ mem[r].job = "visit"
  /\ Goes(r, "done")
  /\ ghosts' = ghosts \union ({r} \intersect late)
  /\ UNCHANGED <<account, live, breaks, stale, reopened, bare, early, misled,
                 answered, late>>

\* Mutant of JoinsAdmins: everyone hears what admins hear.
JoinsAdminsAlways(c) == TRUE

JoinsAdmins(c) == c.role = "admin"

\* The socket is connected and put in its rooms.
Connect(r) ==
  /\ step[r] = "enter" /\ mem[r].job = "socket"
  /\ Goes(r, "done")
  /\ sockets' = sockets \union {r}
  /\ adminRoom' = adminRoom \union (IF JoinsAdmins(mem[r].copy) THEN {r} ELSE {})
  /\ misled' = misled \union (IF mem[r].copy # row THEN {r} ELSE {})
  /\ ghosts' = ghosts \union ({r} \intersect late)
  /\ UNCHANGED <<account, breaks, stale, reopened, bare, early, answered, late>>

Disconnect(r) ==
  /\ r \in sockets
  /\ sockets' = sockets \ {r} /\ adminRoom' = adminRoom \ {r}
  /\ UNCHANGED <<account, handlers, causes>>

-----------------------------------------------------------------------------
\* Changes of the row.

\* updateUserInfo and updateCredentialsConsent ("info"), updateUserRole.
BeginChange(r, j) ==
  /\ j \in {"info", "role"}
  /\ Begins(r, j, "update")
  /\ UNCHANGED <<account, live, breaks, causes>>

Other(role) == IF role = "user" THEN "admin" ELSE "user"

Handshakes ==
  sockets \union {q \in Requests : mem[q] # Nothing /\ mem[q].job = "socket"}

\* Mutant of AfterUpdate: the new row is not cached.
AfterUpdateDone == "done"

\* A change of the row is followed by cacheUser.
AfterUpdate == "cache"

Update(r) ==
  LET changesRole == mem[r].job = "role"
      new == [rev |-> row.rev + 1, image |-> row.image,
              role |-> IF changesRole THEN Other(row.role) ELSE row.role] IN
  /\ step[r] = "update"
  /\ IF row = Nothing THEN Goes(r, "done") /\ UNCHANGED <<row, early>>
     ELSE /\ row' = new
          /\ Holding(r, AfterUpdate, new)
          /\ early' = early \union (IF changesRole THEN Handshakes ELSE {})
  /\ UNCHANGED <<images, cachedRow, sessions, live, breaks, stale, reopened,
                 bare, misled, answered, late, ghosts>>

\* cacheUser, in every handler that calls it last.
CacheUser(r) ==
  /\ step[r] = "cache"
  /\ Goes(r, "done")
  /\ Stored(mem[r].copy)
  /\ UNCHANGED <<row, images, sessions, live, breaks, reopened, bare, early,
                 misled, answered, late, ghosts>>

\* updateProfilePicture, createOrder and loginUser start from the row.
BeginRead(r, j) ==
  /\ j \in {"picture", "order", "signin"}
  /\ Begins(r, j, "row")
  /\ UNCHANGED <<account, live, breaks, causes>>

\* updateProfilePicture: the old picture is destroyed first.
Destroy(r) ==
  /\ step[r] = "destroy"
  /\ Goes(r, "upload")
  /\ images' = images \ {mem[r].copy.image}
  /\ UNCHANGED <<row, cachedRow, sessions, live, breaks, causes>>

Upload(r) ==
  /\ step[r] = "upload"
  /\ Goes(r, "replace")
  /\ images' = images \union {r}
  /\ UNCHANGED <<row, cachedRow, sessions, live, breaks, causes>>

\* Mutant of AfterFailedUpload: the row is updated all the same.
AfterFailedUploadReplace == "replace"

\* A failed upload ends the request, and the old picture is gone already.
AfterFailedUpload == "done"

UploadFails(r) ==
  /\ step[r] = "upload" /\ breaks < MaxBreaks
  /\ breaks' = breaks + 1
  /\ Goes(r, AfterFailedUpload)
  /\ bare' = (bare \/ AfterFailedUpload = "done")
  /\ UNCHANGED <<account, live, stale, reopened, early, misled, answered, late,
                 ghosts>>

Replace(r) ==
  LET new == [rev |-> row.rev + 1, image |-> r, role |-> row.role] IN
  /\ step[r] = "replace"
  /\ IF row = Nothing THEN Goes(r, "done") /\ UNCHANGED row
     ELSE row' = new /\ Holding(r, AfterUpdate, new)
  /\ UNCHANGED <<images, cachedRow, sessions, live, breaks, causes>>

\* createOrder: the order needs the user still; then the row read at the
\* start of the handler is cached.
Place(r) ==
  /\ step[r] = "place"
  /\ Goes(r, IF row = Nothing THEN "done" ELSE "cache")
  /\ UNCHANGED <<account, live, breaks, causes>>

\* createSession, with the row that the password was compared with.
OpenSession(r) ==
  /\ step[r] = "open"
  /\ Goes(r, "cache")
  /\ sessions' = sessions \union {r}
  /\ reopened' = (reopened \/ row = Nothing)
  /\ UNCHANGED <<row, images, cachedRow, live, breaks, stale, bare, early,
                 misled, answered, late, ghosts>>

-----------------------------------------------------------------------------
\* deleteUser: the transaction (Storefront), revokeAllSessions, forgetUser.

DeleteRow(r) ==
  /\ row # Nothing
  /\ Begins(r, "leave", "scan")
  /\ row' = Nothing
  /\ UNCHANGED <<images, cachedRow, sessions, live, breaks, causes>>

ScanSessions(r) ==
  /\ step[r] = "scan"
  /\ GoesWith(r, "revoke", [mem[r] EXCEPT !.found = sessions])
  /\ UNCHANGED <<account, live, breaks, causes>>

\* Mutant of Revoked: the sessions of a deleted account stay.
RevokedNone(r) == sessions

\* revokeAllSessions deletes what its SCAN found.
Revoked(r) == sessions \ mem[r].found

RevokeSessions(r) ==
  /\ step[r] = "revoke"
  /\ Goes(r, "forget")
  /\ sessions' = Revoked(r)
  /\ UNCHANGED <<row, images, cachedRow, live, breaks, causes>>

\* forgetUser, and the answer.
ForgetUser(r) ==
  /\ step[r] = "forget"
  /\ Goes(r, "done")
  /\ cachedRow' = Nothing /\ stale' = FALSE
  /\ answered' = TRUE
  /\ UNCHANGED <<row, images, sessions, live, breaks, reopened, bare, early,
                 misled, late, ghosts>>

\* A key runs out: the row, or a session.
LapseKey ==
  /\ \/ /\ cachedRow # Nothing
        /\ cachedRow' = Nothing /\ stale' = FALSE
        /\ UNCHANGED sessions
     \/ /\ \E s \in sessions : sessions' = sessions \ {s}
        /\ UNCHANGED <<cachedRow, stale>>
  /\ UNCHANGED <<row, images, live, handlers, reopened, bare, early, misled,
                 answered, late, ghosts>>

\* The process dies between the change of the row and what follows it.
BreakAccounts(r) ==
  LET unfinished == step[r] \in {"cache", "scan", "revoke", "forget"} IN
  /\ unfinished \/ step[r] \in {"upload", "replace"}
  /\ breaks < MaxBreaks /\ breaks' = breaks + 1
  /\ Goes(r, "done")
  /\ bare' = (bare \/ ~unfinished)
  /\ stale' = (stale \/ (unfinished /\ cachedRow # Nothing))
  /\ UNCHANGED <<account, live, reopened, early, misled, answered, late, ghosts>>

-----------------------------------------------------------------------------
AccountsHandler(r) ==
  \/ \E j \in Jobs : Arrive(r, j) \/ BeginChange(r, j) \/ BeginRead(r, j)
  \/ ArriveExpired(r) \/ WriteRotation(r)
  \/ LoadUser(r) \/ ReadUser(r) \/ FillUser(r) \/ Enter(r)
  \/ Connect(r) \/ Disconnect(r)
  \/ Update(r) \/ CacheUser(r) \/ Destroy(r) \/ Upload(r) \/ UploadFails(r)
  \/ Replace(r) \/ Place(r) \/ OpenSession(r)
  \/ DeleteRow(r) \/ ScanSessions(r) \/ RevokeSessions(r) \/ ForgetUser(r)
  \/ BreakAccounts(r)

RestAccounts == AtRest /\ UNCHANGED accountsVars

AccountsNext ==
  \/ \E r \in Requests : AccountsHandler(r)
  \/ LapseKey
  \/ RestAccounts

\* Someone with a session and a picture.
AccountsInit ==
  /\ \E role \in Roles : row = [rev |-> 0, role |-> role, image |-> First]
  /\ images = {First} /\ sessions = {First} /\ cachedRow = Nothing
  /\ sockets = {} /\ adminRoom = {}
  /\ step = [r \in Requests |-> "free"] /\ mem = [r \in Requests |-> Nothing]
  /\ breaks = 0
  /\ stale = FALSE /\ reopened = FALSE /\ bare = FALSE /\ answered = FALSE
  /\ early = {} /\ misled = {} /\ late = {} /\ ghosts = {}

AccountsSpec == AccountsInit /\ [][AccountsNext]_accountsVars

-----------------------------------------------------------------------------
\* Properties.

\* A handler has changed the row and will cache or forget it.
Changing ==
  \E r \in Requests :
    \/ step[r] = "cache" /\ mem[r].job \in {"info", "role", "picture"}
    \/ step[r] \in {"scan", "revoke", "forget"}

\* The cached row is the row, unless a handler stored one that it had read or
\* written before another change, or died ("call after any change to the
\* user": cacheUser, loadUser, forgetUser and everyone who calls them).
RowCachedForACause ==
  cachedRow # Nothing /\ ~Changing => cachedRow = row \/ stale

\* A request that comes after the deletion of its account was answered is let
\* in only if a sign-in opened a session, or a rotation wrote one back, behind
\* the SCAN of the deletion (and a handler stored the row behind its forgetUser).
DeletedAreRefused == ghosts # {} => reopened

\* The picture in the row exists, unless an upload failed after the old one
\* was destroyed (updateProfilePicture).
PictureExists ==
  row # Nothing /\ ~(\E r \in Requests : step[r] \in {"upload", "replace"}) =>
    row.image \in images \/ bare

\* Who listens in the admin room is an admin, or connected before the role
\* changed, or was let in with a stale row (socket.ts reads the role once).
AdminRoomForACause ==
  row # Nothing /\ row.role = "user" => adminRoom \subseteq early \union misled

\* What is derived from the row of an account agrees with it, but for the
\* causes named above: its copy in Redis, its sessions, its picture, its rooms.
AccountIsConsistent ==
  RowCachedForACause /\ DeletedAreRefused /\ PictureExists /\ AdminRoomForACause
=============================================================================
