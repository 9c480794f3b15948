# Ápice in TLA+

Ápice is a learning platform: an Express/Prisma API (`apps/api`), an Expo
mobile app (`apps/mobile`), an admin web app (`apps/admin`), ATProto lexicons
(`packages/lexicons`) and a small federated pilot (`packages/pilot`). A learner
watches lessons, passes quizzes, gets certificates, and may have the proof of
it published as records in their own ATProto repository.

This directory models the parts whose correctness depends on *order*: handlers
that read, await and write, requests that overlap, screens whose answers come
late, drains and workers that crash. Paths below are relative to `src/`.

- [1. Inventory](#1-inventory)
- [2. Modules and how they correspond to the code](#2-modules)
- [3. What the runs check](#3-runs)
- [4. What is proved](#4-proofs)
- [5. Findings](#5-findings)
- [6. What is not modelled](#6-not-modelled)

## 1. Inventory

All state of the API is in PostgreSQL (through Prisma) and Redis; handlers hold
only local variables between two awaits. There are no locks: what protects a
table is a unique key, a conditional `updateMany`, a `$transaction`, or
nothing. Several API processes may run. So the unit of interleaving in the API
is **one database statement, Redis command or network call**; in the clients it
is one callback, effect or event between two awaits.

| Component | State | Operations | Interacts with | Hard behaviour | What makes it correct |
|---|---|---|---|---|---|
| Credential outbox `modules/credentials` | `CredentialPublication` rows | enqueue, enqueue all earned, cancel, re-queue, drain | progress, users, atproto, auth (callers); the PDS | two instances draining; crash with a row claimed; lost PDS answer; enqueue under a drain; opt-out under a drain | one publication per credential; a status that can be trusted; bounded retries; consent |
| Course progress `modules/progress` | `Enrollment`, `EnrollmentLesson` | recordLessonProgress, getProgress | video (callers), outbox, notifications | seven awaits between the first read and the last write; two writers of the enrollment row | completion is earned, the sequential lock, completion never undone |
| Quizzes `modules/quizzes` | `Quiz`, `EnrollmentQuiz`, `CourseLesson.isCheckpoint` | createQuiz, deleteQuiz, submitQuiz | progress rules, the admin's panel | two statements to attach a quiz; edits under attempts | a checkpoint has a quiz; nobody is locked out |
| Certificates `modules/certificates` | `Certificate` | claim, download, verify | enrollment | two claims at once; create, then link | only for completed courses, one per course |
| Enrollment `modules/enrollment` | `Enrollment` | enrollFree | | | one row per learner and course |
| Video `modules/video` | `CourseLesson.videoUrl` | progress and completion reports, playback URLs | progress, Streamplace, the players | player pings overlap the completion report; a report changes the URL that is playing | the kept position follows the player |
| Sessions `modules/auth/session.ts`, `http/auth.ts` | Redis: session (current jti), rotated pair, user cache | create, rotate, revoke one/all, load user | every request; mobile client | parallel refreshes; revocation under a rotation; cache fill under an update | a stolen token ends the session, an honest client keeps it; a revoked session stays revoked |
| Password accounts `modules/auth/password` | Redis: pending registration, attempts; users | register, activate, login, logout, change password | sessions | concurrent wrong codes | attempts bounded; a used registration is used up; old tokens die with the old password |
| Bluesky / iM8 sign-in | OAuth state and sessions, one-time codes | authorize, callback, restore, complete | outbox (re-queue), sessions | code used twice; account created twice | a code signs in once; one account per identity |
| Users `modules/users` | user row, cached row, picture, sockets, consent | consent, roles, profile, picture, delete | outbox, sessions, courses | deletion under other handlers; the row cached under an update | derived state agrees with the row |
| Course catalogue `modules/courses`, `platform/cache.ts` | courses, sections, lessons, rating; Redis cache | edit, delete, sync content, read through the cache | community (rating), atproto | cache filled after its invalidation; an edit under progress | the cache agrees with the table; an unconfirmed save spares progress |
| Community `modules/community` | questions, answers, reviews | add, reply | courses, notifications | two averages computed at once | rating is the average |
| Payments `modules/payments` | orders, enrollment, `purchased` | create order | enrollment, notifications | two orders past the same check; a mail between charge and order | who paid is enrolled |
| Notifications, push | rows, tokens, sockets | notify, fan-out, prune | Expo push, dashboard | an event under a query; a prune under a registration | what is unread is shown; a dead token is pruned, a live one is not |
| ATProto publishing `modules/atproto` | course AT-URI, lesson refs | publish, register refs | PDS, outbox | many remote writes, one local one | refs name records of one whole publication |
| Jetstream indexer `workers/jetstreamIndexer.ts` | index rows, cursor | connect, handle, flush | network directory | handlers run concurrently; cursor ahead of a write | no event is lost, the last one wins |
| INE verification | documents, status | submit, list, review | admin queue | documents replaced under a review | what was approved is what was seen |
| CMS `modules/cms` and its editors | layout rows; the editor's form | create, edit, get | | saves, refetches and effects overlap | what was saved stays |
| Mobile client `apps/mobile/src/api/client.ts` | token pair | refresh once for all, retry | sessions | a refresh answer lost; two refreshers | an honest client is not logged out |
| Mobile learning screens | query caches, player, quiz form | open, play, report, complete, submit, refetch | progress, video | screens left before answers; refetch under an invalidation | the road shows what the API recorded; watching completes |
| Mobile offline queue | AsyncStorage list | enqueue, drain, replay | progress | the app dies between clearing and replaying | no report is lost |
| Admin course editor | form, uploads, payload | edit lessons, upload, cancel, preview, save | catalogue, Streamplace, scripts | uploads that outlive the form they closed over | the author gets what was asked for |
| Admin quiz panel | form of one lesson | load, draft, save, delete | quizzes | a load answered for another lesson | questions stay with their lesson |
| Admin lists | RTK Query caches, dialogs, hooks | list, delete, role, publish, review | catalogue, users, INE | a refetch dropped under a fetch | the list is the API's |
| Pilot `packages/pilot` | command log, outbox, publication keys | execute, reduce, flush, publish | ATProto | lost responses, crash between flush and mark | each command once, each completion published once |
| Network directory, analytics, navigation and onboarding, lexicons, operations | | | | | queries, interface, data and scripts: see [6](#6-not-modelled) |

The hazards, each with its line and the properties that cover it, are listed in
`PROJECT.json`; each is covered by a property of some run.

## 2. Modules

| Module | Kind | Models |
|---|---|---|
| `CredentialLedger` | abstract specification | what the outbox promises: asked, recorded, confirmed |
| `CredentialOutbox`, `CredentialOutboxProofs`, `MCCredentialOutbox` | component, proofs, instance | `modules/credentials` with the parts of users, atproto, auth and progress that touch it |
| `CourseProgress`, `CourseProgressProofs`, `MCCourseProgress` | component, proofs, instance | `modules/progress`, `quizzes`, `certificates`, `enrollment`, the reports of `video` |
| `Sessions` | component | `modules/auth/session.ts`, `http/auth.ts`, login, logout and password change, with arbitrary senders |
| `SessionClients` | composition | `Sessions` with the senders there are: phones (`api/client.ts`, `useAuth.tsx`) and browsers |
| `SessionsProofs`, `MCSessions` | proofs, instance | both of these |
| `Handlers` | common part | a handler's place, its local variables, handlers that die |
| `Storefront`, `StorefrontProofs` | component, proofs | `modules/courses` with `cache.ts`, `community` (reviews), `payments`, the deletion of courses and users |
| `Accounts` | component | the user row and what is derived from it: cached row, sessions, picture, sockets |
| `Identity` | component | registration and activation, Bluesky callback and code, iM8 login and link |
| `Notices` | component | notifications with the dashboard, push, questions, INE documents |
| `AdminLists` | component | AllCourses, AllUsers and the verification queue of `apps/admin` |
| `ApiProofs` | proofs | `Accounts`, `Identity`, `Notices`, `AdminLists`, `MCApi` |
| `MCApi` | composition and instance | `Storefront` and these four |
| `CourseEditor` | component | CreateCourse and EditCourse with their uploads; the video scripts |
| `QuizPanel` | component | QuizEditor with the quizzes of the API |
| `Publishing` | component | publishing a course to ATProto, by the service account or the instructor |
| `Layouts` | component | `modules/cms` with EditFaq, EditCategories, EditHero |
| `StudioProofs` | proofs | `CourseEditor`, `QuizPanel`, `Publishing`, `Layouts`, `MCApps` |
| `Indexer` | component | `workers/jetstreamIndexer.ts` |
| `Pilot` | component | `packages/pilot`: the Learning runtime |
| `NetworkProofs` | proofs | `Indexer`, `Pilot` |
| `LearnerApp` | component | the lesson road, its query, and the screens that change progress |
| `LessonRoad` | component | the geometry of the lesson road |
| `OfflineProgress` | component | `offlineProgressQueue`, `useOfflineProgress` |
| `LearnerProofs` | proofs | `LessonRoad`, `LearnerApp`, `OfflineProgress` |
| `MCApps` | composition and instance | from `CourseEditor` on |
| `Playback` | component, proved about in `CourseProgressProofs` | LessonPlayer with the two players and the playback endpoint |
| `MCLive` | instance | `CredentialOutbox` and `Playback` under fairness |

**Scenes.** `MCApi`, `MCApps` and `MCLive` put several components into one run.
Each behaviour begins in one *scene* and stays there; the variables of the other
components keep a quiet value. So a run is the union of the components' state
graphs, and a property is about each of them in its scene (in a quiet one it
holds). Components that meet only through what they store are not multiplied:
what one of them takes from another (a lesson that is deleted, a quiz that is
saved) is an action of its own environment.

**Modules over `Handlers`.** There are `Requests`, each handled once: `step` is
the next await of its handler, `mem` its local variables, `breaks` counts the
handlers that died and the remote calls that failed, up to `MaxBreaks`. What a
request writes is named after it. `Indexer`, `LessonRoad` and `Playback` have no
requests of this kind and stand alone.

### The credential outbox

`CredentialOutbox` has the table by column (`status`, `attempts`, `withdrawn`
for `lastError = "consent withdrawn"`, `due` for `nextAttemptAt <= now`, `aged`
for rows not updated within `STALE_PROCESSING_MS`), the facts it reads
(`consent`, `earned`, `sessions`, `refs`), the records on the PDS (`repo`),
requests with a work list (`step`, `todo`, `target`) and one drain loop per
instance (`phase`, `batch`, `seen`, `claimed`, `outcome`, `again`).

- **Enqueue** is three awaits: `ReadConsent`, `ReadExisting`, `UpsertPending`.
  The last writes "pending" whatever the row has become. A credential is earned
  by `CompleteLesson`, whose handler enqueues, or by `CompleteOnRead`: a progress
  read that finds the course completed, and enqueues nothing (`silent`, until the
  credential is completed by a report or read as earned by an opt-in).
- **Opt-in** (`GrantConsent`) writes the user row, then reads what is earned
  (`ReadEarned`) and loops; **opt-out** (`WithdrawConsent`) writes the user
  row, then cancels with one `updateMany` (`CancelPending`).
- **Publishing a course** (`RegisterCourseRefs`, `PublishToAtmosphere`) and
  **signing in** (`SignInWithBluesky`) make skipped rows pending again, with
  one `updateMany` (`RequeueSkipped`), except those withdrawn.
- **Drain** (`RunDrain`): `ReclaimStale`, `SelectDue` (at most `DrainBatch`),
  then per row `Claim` (an `updateMany` on `status = "pending"`),
  `LoadContext`, `PutRecord`, `RecordOutcome` (an unconditional `update`,
  counting on from the attempts that `SelectDue` read), and `FinishDrain`.
- **Faults**: `DropRequest` and `AbortDrain` end a handler or a drain between
  two awaits; `PutRecord` may fail before or after the PDS stored the record;
  `LoseSession` revokes a session.

Abstractions: the several reads of `loadPublishContext` are one step (they
only decide between publish and skip); a call to the PDS always ends (it has a
timeout); backoff and staleness are unordered passages of time
(`BackoffElapses`, `GrowStale`). `repo` says that a credential has a record,
not under which key: the rkey depends on the course and lesson URIs, so
publishing a course anew gives its credentials new keys. Deleting the account
during a drain is not modelled.

`CredentialLedger` is what other code may rely on: a credential is asked for,
recorded, and confirmed, in that order, and a confirmation may be doubted
again. That last step is needed: enqueue checks for "published" and upserts
two awaits later, so a row that was published in between goes back to
"pending" (and is published again, under the same key).

### Course progress

One learner and one course of `N` lessons in order. `enrollment` and
`progress` are the enrollment row; `home` and `away` tell under which
enrollment a lesson's row was created (`getProgress` counts the rows of the
enrollment, `recordLessonProgress` those of the user); `done`, `passed`,
`checkpoints`, `quizzes`, `certificate` are the other tables. `queued` is what
was handed to `enqueueCredential`: it is `earned` of the outbox seen from the
other side. Each request has a program counter `step`, its input and its
snapshots (`saw...`).

- **recordLessonProgress**: `BeginReport` (upsert of the enrollment),
  `ReadExisting`, `ReadLessons`, `ReadPassed`, `ReadPrior` (with the lock,
  423), `WriteLesson` (upsert with the value computed from `ReadExisting`),
  `Settle` (enrollment update if it differs from what `BeginReport` read),
  `Announce` (enqueue). Player pings send no `completed`; completions do.
- **Another course's id**: `updateProgress` takes `courseId` and `lessonId`
  from the body. `BeginStrayReport` is a report whose `courseId` is another
  course: of its statements only the lesson's row concerns this course.
- **getProgress**: `BeginSync`, `SyncPassed`, `Sync` (it writes the enrollment
  too, and announces nothing).
- **submitQuiz**: `BeginQuiz`, `ReadContext` (403), `ReadCompleted`,
  `CheckQuizOpen` (423), `StoreAnswer`, which replaces an earlier pass by a
  failure too.
- **claimCertificate**: `BeginClaim`, `LookUpCertificate`, `IssueCertificate`
  (unique key), `LinkCertificate`.
- **createQuiz**: `MarkCheckpoint`, `AttachQuiz`; **deleteQuiz**: one
  transaction, `DeleteQuiz`; **enrollFree** (and the enrollment an order
  creates): `Enroll`.

`Satisfied`, `Available`, `Percent` and `CourseCompleted` translate
`progress.rules.ts`. `Math.round(k / N * 100)` is computed in floating point;
`Percent` rounds exactly. The two can differ by one where the quotient is
near a half, never at 100 for fewer than 200 lessons.

Abstractions: `watchedSeconds` goes through the same read, maximum and write
as `completed` and is left out; an answer is right (70 % or more) or wrong;
a read with `include` is one step; a report that names this course and a
lesson of another acts on this course like a ping. The lessons of the course
do not change: what an edit does to progress is in `Storefront`.

### Sessions and their clients

`Sessions` is the server for one user. A *pair* is an access and a refresh
token signed together; pairs are numbered in the order they are signed and a
session is named after its first pair. `current` is the Redis key
`session:{userId}:{sid}` (the jti it holds, as the pair of that jti), `renewed`
the key `session-rotated:...`, `expired` how many access tokens are past their
`exp`. A request has its place `step`, the pair it `carried`, and in `fresh` the
pair its answer will deliver.

- **isAuthenticated**: `Authenticate` reads the session key once, in
  `isSessionActive` or at the start of `rotateSession`, and `Verdict` is what
  the code decides from it. Access and refresh token always come from one pair,
  because clients store both together.
- **rotateSession**: `Mint` (the first SET, which looks at nothing), `Remember`
  (the second), or for a superseded token `Recent` (the GET of the remembered
  pair) and `Revoke`.
- **revokeSession**, **revokeAllSessions**: `Logout`; `ChangePassword`, then a
  `Sweep` per round trip of the SCAN, which returns every key that exists from
  its start to its end and may return newer ones, and `SweepDone`.
- **createSession**: `SignIn`, `Open`.
- **Time**: `Expire` (access tokens, in the order they were signed),
  `GraceEnds`, `Lapse` (a week without rotation). `Break` ends a handler that
  dies or is refused by Redis, between any two commands.

`SessionClients` adds the devices. A phone's request goes through `Begin`
(guard 1: `Intercept` dispatches it or holds it back), `Resume` or `TimeUp` (the
15 seconds), `Arrive` (tokens are absorbed), `NetworkError`, or for a 401
`DoubtIt` (guard 2: wait for siblings) and `Decide` (retry on a superseding pair
or sign out), `BelieveIt` on the second 401. `Save` is AsyncStorage catching up
with memory, `Restart` the app killed and started again. A browser sends the
cookies it holds and reacts to nothing.

Assumptions, beyond the code: an access token (an hour) does not expire between
an answer being written and delivered, nor within the grace (30 seconds) of the
pair it replaced, nor between a promise that settled and its continuation. A
device without tokens only signs in: what else it sends is refused without
effect. The user cache, which decides no authentication while the user exists,
and the deletion of the account are in `Accounts`. Not modelled: tokens that do
not verify; the check of the socket handshake, which only reads.

`Skewed` gives phones a clock of their own. The runs leave it empty, to keep
within their time; `MCSessions.cfg` with `Skewed = {phone}` holds too.

### The storefront

`Storefront` is one course as it is sold and shown. The tables are `course`,
`info` (a revision for all descriptive columns), `lessons`, `studied` (progress
rows), `reviews`, `replies`, `rating` (as the set of the reviews it averages),
`enrolled`, `orders`, `purchased`, `users`; `cached` is the public view in
Redis, `charged` who has paid at Stripe.

- **getSingleCourse**: `LookUpView`, `ReadCourse`, `ReadContent`,
  `ReadReviews`, `FillView`. Writers end with `DropView`.
- **uploadCourse**, **editCourse**, **deleteCourse**: `UploadCourse`;
  `BeginEdit`, `UpdateCourse` (locks the row: `holder`), `CheckProgress` (the
  409), `CommitEdit`; `BeginDelete`, `CountOrders`, `DeleteCourse`. The editor's
  payload is any part of the lessons it loaded, or the blank form.
- **addReview**, **addReplyToReview**: `BeginReview`, `CreateReview`,
  `Average`, `Rate`; `BeginReply`, `CreateReply`.
- **deleteUser**: `BeginLeave`, `EraseUser`, `AverageAfterErasing`,
  `SettleRating` (`Accounts` has its sessions and cached row).
- **orders**: `Charge`, `CheckOrder`, `ConfirmByMail`, `Buy`, `OrderFree`;
  **enrollFree**: `EnrollFree`; **progress**: `Study`.

A transaction shows its writes when it commits (READ COMMITTED); foreign keys
decide which inserts and deletes succeed.

### Accounts and identities

`Accounts` is one account: `row` with a revision, `cachedRow` (Redis
`user:{id}`), `sessions`, `images` (Cloudinary), `sockets` and `adminRoom`.
Requests and socket handshakes go through `Arrive`, `LoadUser`, `ReadUser`,
`FillUser`, `Enter` or `Connect`; a request with an expired access token through
`ArriveExpired` and `WriteRotation`, whose SET makes the session again when it was
revoked since the GET; profile, consent and role changes through
`BeginChange`, `Update`, `CacheUser`; the picture through `Destroy`, `Upload`,
`Replace`; the deletion through `DeleteRow`, `ScanSessions`, `RevokeSessions`,
`ForgetUser`. An order that caches the row it began with (`Place`) and a
sign-in (`OpenSession`) run into all of them.

`Identity` has the pending registrations with their attempts, the one-time
codes of the phone's Bluesky login, the iM8 states, and the two unique columns
(`emails`, `holderOf`). Each GET, comparison, SET, DEL, query and insert of
**registrationUser**, **activateUser**, the Bluesky **callback** and
**exchange**, and the iM8 **start**, **callback**, login and link is a step. A
SET with KEEPTTL on a key that is gone makes it again, without an expiry.

### Notices and lists

`Notices`: a question, an order or documents are stored, then notified
(`StoreNotice`, `PublishNotice`); a dashboard hears events (`Hear`), refetches
(`AnswerFetch`, `FailFetch`, `ShowFetch`) and marks notices as read. An answer is
the one page of the newest notifications, read or not (`Newest`), of which the
dashboard shows the unread ones. Phones register and
unregister their push token, `FindPhones`, `SendPush` and `PrunePhones` are
`sendPushToUser`. Documents are submitted, listed and reviewed by row id.

`AdminLists` has a page with one query per argument (`listCache`, `listing`),
its dialog, and the mutation hooks (`followed`): a hook follows its last call
only, its outcome runs the effect of the page (`ListEffect`) and that refetches,
unless a fetch is under way. A publication ends in the `refetch` of the page that
began it, which is no longer there when the page was closed and opened again. The
cache and hooks of RTK Query are external.

### The admin's editors

`CourseEditor` has the pages and the lessons of the form (`items`, `form`,
`payload`), the query of the loaded course (`adminCache`, `answers`), and the
uploads as requests: `BeginUpload`, `Transfer`, `Poll`/`Polled`,
`PublishVideo`, `LinkVideo`, `OnLinked`, each with the list its closure knows.
`Cancel`, `Collapse`, `Unmount`, `Leave` fire abort controllers, which the code
looks at only before a poll (`Looks`). Loaded lessons are the store's frozen
objects: an assignment throws. `SaveElsewhere` is another editor; the last
steps are the three command line scripts.

`QuizPanel` is the panel at one place of that editor: `Effect` (load on
`[expanded, lessonId]`, with its `cancelled` flag), `ServeLoad`, `Loaded` (the
answer, and the check of the flag), `BodyRead` (the body, which fills the form
without another check), `LoadFails`, `Draft`, save and delete. `Shift`
changes the lesson under it.

`Layouts`: `createLayout`, `editLayout`, `getLayoutByType` query by query, and
an editor: `Got` fills the form when new data arrive, and refetches once more
while the last outcome is a success; `Reset` fills it whenever the hook's outcome
changes; `SaveLayout`/`SavedLayout` follow the latest save, which may fail before
its write (`SaveFails`) or after it; EditFaq never refetches.

`Publishing`: per lesson `PutVideo` and `PutLesson`, then `PutCourse`,
per lesson `ReadLesson` and `PatchLesson` with the course's URI, then
`Register`. Any call may fail or be the last (`Abandon`); `EditContent` changes
the course meanwhile. The service account publishes a course whose sections have
no lessons, too: then the course's record is followed by the registration.

### The indexer

`Indexer`: the network's `log` of events, the database's `index` and `cursor`,
the worker's connection (`link`, `from`, `latest`), its flush, and `handling`,
the handlers under way. `Receive` moves the cursor and starts a handler;
`Write` ends any of them, in any order, or fails; `Crash` loses them. Jetstream
replays from the cursor on, or begins at the present without one. `timed` says
whether events have the `timeUs` that the worker reads: with it, the cursor is what
the code means it to be; without it, as Jetstream sends events (`time_us`), none is
ever stored or sent, and every connection begins at the present. Both are checked.

### The pilot

`Pilot`: `spaces` holds the records of the institution's and the learner's
repositories, `runtime` the index and connections. A command goes through
`Begin`, `GetRequest`, `GetCommand`, `GetEnrollment`, `GetCertificate`, its one
batch of writes, `Deliver`; `flushOutbox` and `publishCompletion` have their
own reads (`Snapshot`, `GetFinished`, `GetIntent`) and writes. The serial queue
is the guard `Served`. Every write may be refused, land, land late or never
(`GiveUp`, `Land`); `Restart` drops the queue and the index.

### The learner's app

`LearnerApp`: `facts` is what the API recorded; `road`, `invalid` and
`fetching` are the query `course-progress`; `screen`, `marked`, `submitting`
and `result` the screens. A completion, quiz submission or report (`Sends`) is
read by the API (`ReadRow`), written later (`WriteRow`) and answered, or fails or is
lost on the way (`Lose`). A write may take back what was recorded: a report that
read its lesson before the completion, a retake that fails after a pass. What the
answers invalidate, and whether the callback of a screen that is gone runs, is the
point of the module; `unseen` notes what the app was not told of (`Told`). TanStack
Query is external.

`LessonRoad` computes sway, label boxes, heights and lit segments of the road
from the container's width and the number of lessons, in hundredths of a pixel.

`OfflineProgress`: `queued`, `loaded` (module variables), `stored` and `writes`
(AsyncStorage, one write after the other), the hook's `online`, `wasOffline`
and its drain. `Kill` ends the app, `ReadFails` a read of the storage.

`Playback`: the API's `kept` position and completion, the query with its URL,
the player (position, end seen), the reports and completions on their way. A
URL from Streamplace is a clip that begins at the resume position; a direct URL
is the whole video. A lesson may have no `videoLength`: then the phone reports
nothing, and a completion adds no position. `recordLessonProgress` reads the row
(`ReadRow`) and writes it later (`WriteRow`), so that overlapping reports and a
completion may undo each other. Each answer of a report invalidates the query, and its
refetch may change the URL under the player.

## 3. Runs

| Run | Question | Instance and bounds |
|---|---|---|
| `outbox_safety` | Do two instances and two requests keep the table, the repository and the ledger consistent? | one credential, of a course (so it may be completed by a progress read), 2 instances, 2 request slots, 2 requests, 2 attempts, 1 crash |
| `outbox_consent` | *violation*: is nothing published without consent? | as `outbox_safety` |
| `liveness` | Is every queued row settled? Does who keeps watching complete the lesson? | outbox: a lesson and a course credential, batch of 1 (a row must wait), 1 instance, 2 attempts, 1 crash; player: 3 steps long, a report every 2, resumed from 1, with or without a declared length, 2 openings, moves and failures |
| `progress_safety` | Do overlapping reports, attempts, reads, claims and edits keep completion, order and credentials right? | 2 lessons, any checkpoints, 2 slots, 4 requests or 3 of which one is cut short, stray reports of lesson 2; 3.7 million states |
| `progress_monotone` | *violation*: is a completion never undone? | 1 lesson, 2 reports |
| `progress_credential` | *violation*: is the course credential of every completed course queued? | 1 lesson, 3 requests one after the other |
| `sessions_devices` | Does a session end when it must and only then, with a phone that may be killed and a browser? | 2 request slots, 2 pairs (two sessions, or one that rotates), any number of requests |
| `sessions_rotation` | Do the phone's guards and the server's grace keep a session through parallel refreshes, lost answers and late 401s? | one phone, 2 slots, 3 pairs |
| `sessions_parallel` | *violation*: do two parallel refreshes get one pair? | the server alone, 2 slots, 3 pairs |
| `api` | Does what the API derives, caches, spends and tells agree with its rows? | five scenes, 3 requests, 1 break; 2 users, 2 progress rows, 2 attempts, 1 phone of 2 people, pages of 2 notifications, lists of 2 rows; 1.2 million states |
| `api_charge` | *violation*: is who was charged enrolled? | the storefront, 2 requests, nothing fails but the mail |
| `apps` | Do editors, publications, the index, the pilot and the learner's screens tell the story of what is stored? | nine scenes, 3 requests, 1 break; 2 lessons, 2 entries, 2 command keys, 1 record of 3 events with 1 fault, 14 widths of the screen and up to 3 lessons on the road; 1.3 million states |

**Why the bounds suffice.** Every race in the outbox is between at most two
drains and an enqueue, cancel or re-queue on *one* row: rows do not interact
except through the batch limit, which is why liveness has two rows and a batch
of one. Two attempts distinguish "may retry" from "gives up". In course
progress, a lesson interacts only with its predecessor, through the lock, and
with the total, so two lessons (each may be a checkpoint) show both; four
requests allow the longest interesting history (two lessons, a quiz, a
progress read or a claim) with any two overlapping. In sessions every race is
between two handlers at a time (a rotation against a rotation, a replay, a
logout, a sweep), and slots are reused without limit; `MaxPairs` bounds only how
often tokens are signed. Two pairs are two sessions, or a session and its
rotation; three are a token rotated twice, in turn or by two readers of the same
key, or a session after one that was lost.

In `api` and `apps` three requests are a handler that is overtaken, the one that
overtakes it, and one that shows what is left: a reader against two writers, a
reply under the deletion of its author, two saves and a refetch. One break is one
dead handler or one call that fails. Further bounds keep the runs within minutes,
each named in its module: in the storefront one request is a read of the public
view that missed the cache (`MCInit`), `FewChanges` leaves one call of the lists
unsent, `TwoOnly` one request of the course editor and of publishing,
`FewUploads` begins a second upload before the first has ended, `FewPastes` pastes
a video where there is none, `FewEdits` edits a course only while a publication is
to read it, `FewWrites` lets three writes of AsyncStorage wait. The widths of the road are those around every
threshold of the geometry, and the usual screens. What is proved needs none of
these bounds.

Symmetry of requests and instances is used in safety runs only.

**Properties.**

- `PublishedIsRecorded`: a status of "published" has its record.
- `RecordsAreTracked`: a record has an earned credential and a row.
- `ExclusiveClaim`: two drains never publish one row, unless it was reclaimed
  or re-enqueued under the first.
- `RetryBudget`: pending rows have attempts left, failed rows have none.
- `NoCredentialMissed`: completing and opting in at the same time misses
  nothing, once both ran to their end; what a progress read completed is not
  enqueued (finding 3) until a report or an opt-in follows.
- `QueuedSettles`: each queued row is eventually published, skipped or failed.
- `LedgerSpec`: the outbox implements `CredentialLedger`.
- `CompletionIsEarned`: enrollment completed, or certificate issued, only if
  every lesson was finished (stated for fewer than 200 lessons: from 200 on,
  `Math.round` reaches 100 one lesson early).
- `LockRespected`: a lesson was completed only after its predecessor was
  finished, stray reports aside.
- `LostOnlyToRival`: a completion is lost only to a report that had read the
  row before the completion was written. A sequential client loses nothing.
- `LessonCredentialQueued`: each lesson completed is handed to the outbox,
  also when several reports completed it at once.
- `LearnerCanProceed`: some unsatisfied lesson is open, with a quiz to take
  if only its quiz is missing.
- `CertificateLinked`: one claim issues, and the certificate gets its link.
- `EndedStaysEnded`: after logout, password change, expiry or a replay, a
  session's key is not written again, except by a rotation that had read it
  before (`caught`).
- `RememberedPairWorks`: what the loser of a race is handed is the session's
  pair or one exchanged since, unless two rotations of one pair overlapped.
- `SessionsArePerDevice`: no step in one session deletes another's key, but the
  sweep of a password change.
- `KilledForACause`: a session revoked as stolen had two refreshes of one pair
  at once, or an answer with tokens that never reached its client.
- `OneRefresherPerPhone`: guard 1 lets two refreshes of one pair overlap only
  where its comment says it cannot see them coming.
- `LeftOnlyTheDead`: after waiting for the siblings of a first 401, a phone
  signs out only of a session that is dead.
- `UnconfirmedSavesSpareProgress`: a save of the course that was not confirmed
  deletes no lesson's progress that its transaction could see.
- `ShopIsConsistent`: the cached view is the tables' unless a fill was overtaken,
  a handler died before its `del`, or an account took posts with it that its
  lists had not shown (`ViewStaleForACause`); `purchased` counts the orders; an
  order keeps its course, and its buyer enrolled (`OrdersKeepCourse`); the
  rating is the average but for a review that came in between
  (`RatingAverages`).
- `AccountIsConsistent`: the cached row is the row but for fills and caches that
  were overtaken (`RowCachedForACause`); after a deletion was answered nobody is
  let in unless a sign-in or a rotation slipped behind it (`DeletedAreRefused`); the picture
  exists unless its upload failed; only admins are in the admin room, but for
  those who connected before their role changed.
- `SecretsAreSpent`: a registration is guessed at most `MaxAttempts` times and
  stays dead when used up, a code or state signs in once, but for uses that
  overlap.
- `NoticesReach`: at rest the dashboard shows what is unread among the newest
  notifications, unless its event or its fetch was lost; a token is its last
  owner's and there unless Expo reported it; what was decided is what the
  reviewer saw, but for the overlaps named there.
- `ListIsCurrent`: at rest a list is the API's, but for rows of which the page
  could not be told in time, and for publications that ended after the page had
  been closed, whether or not it was opened again.
- `EditorObeys`: the preview saves what the author left in the form, unless an
  upload put an older form back; a cancelled upload is not published, unless the
  node was being asked for the last time.
- `QuizzesKeepApart`: questions are saved for the lesson they were drafted for,
  unless its load had failed under another's, or another's load was cancelled
  while its body was read.
- `PublicationIsOne`: the publication that the course names is whole; the lesson
  refs are of that one, unless the service account published since.
- `IndexFollowsNetwork`: a worker with nothing under way shows what the network
  has, but for records whose handlers overlapped, whose last write was lost, or
  whose last event came before a connection without a cursor.
- `SavedEntriesStay`: what a save wrote and no later one took out stays in the
  layout, however saves fail, unless a later save came from a form that had gone
  back, or overlapped.
- `PilotIsConsistent`: each command is applied once and answered alike; what the
  index shows is durable and a published course is whole in public; at most one
  completion record, but for a late intent.
- `RoadIsCurrent`: at rest the road shows what the API has recorded, no less and,
  after a failed retake or a late report, no more, except what the app was not told
  of (`unseen`).
- `RoadReads`: on every screen labels fit between nodes and the road is lit
  behind completed lessons only.
- `QueuedIsKept`: an item queued offline is queued, being replayed or delivered,
  unless the app was killed before it was stored, or a second load or a failed
  read replaced the queue.
- `KeptFollowsPlayer`: with no report on its way the API knows where the learner
  was to less than a report interval, where the player tells positions of the
  lesson (not on the web with a clip, nor on the phone without a length), and
  unless a report failed or was written over one it had not read.
- `WatchingCompletes`: who keeps watching completes the lesson, although each
  report may begin the video anew, unless a late report undoes the completion,
  which this screen does not send again.

Some of these are conjunctions of named properties, because they hold of one
graph and are checked together. The mutant listed in `PROJECT.json` breaks one
conjunct; further mutants in the modules break others: `JoinsAdminsAlways`,
`AfterFailedUploadReplace`, `RevokedNone` (`Accounts`), `SubmittedOnce`
(`CourseEditor`), `GivesUpLater`, `ConsumedLater` (`Identity`),
`RefetchedOnce` (`LearnerApp`), `SegmentDoneAhead` (`LessonRoad`),
`RefetchedNot`, `RegisteredOnce` (`Notices`), `ServedAtOnce` (`Pilot`),
`ToldShifted` (`Playback`), `AfterCourseRegisters` (`Publishing`),
`DeletableAnyway`, `PurchasedAfterRatingCounts`, `AfterReplyDone`
(`Storefront`).

The exceptions that properties name ("unless ...") are recorded by history
variables (`everDone`, `contested`, `overtaken`, `crossed`, `doubts`, ...). They
only record; no guard reads them. Each exception is a behaviour of the code
that the model does reach.

**Fairness.** For the outbox (`Fairness`): the event loop runs each continuation
it was given (`WF` on request and drain steps; PDS calls end), the 30 s timer
starts a drain that is idle (`WF` on `RunDrain`), and time passes (`WF` on
backoff and staleness). Nothing makes a request arrive, a crash happen or a
session expire. Weak fairness is enough because a started drain is never
disabled by others. For the player (`PlaybackFairness`): it plays on while it
can, and each request (the playback URL, a report, a completion) is served and
answered, or fails. Nothing makes the learner open the lesson, press, seek or
retry; `WatchingCompletes` is about who keeps watching.

**Deadlock** is checked in every run. Models whose requests are bounded have a
step `Rest...` for a system that is idle when all of them are answered; any other
stop would be a handler that cannot go on.

## 4. Proofs

TLAPS proves, for every value of the constants:

| Theorem | States |
|---|---|
| `CredentialOutboxProofs!TypeCorrect` | `TypeOK` |
| `RetriesAreBounded` | `RetryBudget` |
| `PublishedHasRecord` | `PublishedIsRecorded` |
| `ClaimsAreExclusive` | `ExclusiveClaim` |
| `RecordsTracked` | `RecordsAreTracked` |
| `NoCredentialIsMissed` | `NoCredentialMissed` |
| `OutboxImplementsLedger` | the refinement `LedgerSpec` |
| `CourseProgressProofs!TypeCorrect` | `TypeOK` |
| `CompletionEarned` | `CompletionIsEarned` |
| `LockHolds` | `LockRespected` |
| `LossesAreContested` | `LostOnlyToRival` |
| `NobodyLockedOut` | `LearnerCanProceed` |
| `LessonsAnnounced` | `LessonCredentialQueued` |
| `CertificateAlwaysLinked` | `CertificateLinked` |
| `PlaybackTypeCorrect`, `KeptAlwaysFollows` | `PlaybackTypeOK`, `KeptFollowsPlayer` |
| `KeptWasAlwaysReached` | `KeptWasReached`, which no run needs |
| `SessionsProofs!EndIsFinal` | `EndedStaysEnded`, for arbitrary senders |
| `LosersGetAWorkingPair` | `RememberedPairWorks`, for arbitrary senders |
| `DevicesAreSeparate` | `SessionsArePerDevice`, for arbitrary senders |
| `ClientsAreSenders` | `Spec` of `SessionClients` implements `SessionSpec` |
| `ClientsAreSafe` | the three properties, for phones and browsers |
| `ClientsTypeCorrect` | `TypeOK` of the composition |
| `PhonesLeaveOnlyTheDead` | `LeftOnlyTheDead` |
| `SessionsKilledForACause` | `KilledForACause` |
| `PhonesRefreshOnce` | `OneRefresherPerPhone` |
| `StorefrontProofs!StorefrontTypeCorrect` | `StorefrontTypeOK` |
| `ShopStaysConsistent` | `ShopIsConsistent` |
| `SavesSpareProgress` | `UnconfirmedSavesSpareProgress` |
| `ApiProofs!AccountsTypeCorrect`, `AccountStaysConsistent` | `AccountsTypeOK`, `AccountIsConsistent` |
| `IdentityTypeCorrect`, `SecretsAlwaysSpent` | `IdentityTypeOK`, `SecretsAreSpent` |
| `NoticesTypeCorrect`, `NoticesAlwaysReach` | `NoticesTypeOK`, `NoticesReach` |
| `ListsTypeCorrect`, `ListsAreCurrent` | `ListsTypeOK`, `ListIsCurrent` |
| `ApiScenes`, `ApiTypeCorrect` | `MCApi` is its components; `ApiTypeOK` |
| `StudioProofs!QuizTypeCorrect`, `QuizzesAreApart` | `QuizTypeOK`, `QuizzesKeepApart` |
| `PublishingTypeCorrect`, `PublicationsAreOne` | `PublishingTypeOK`, `PublicationIsOne` |
| `LayoutTypeCorrect`, `EntriesAreKept` | `LayoutTypeOK`, `SavedEntriesStay` |
| `EditorTypeCorrect`, `EditorAlwaysObeys` | `EditorTypeOK`, `EditorObeys` |
| `AppScenes`, `AppsTypeCorrect` | `MCApps` is its components; `AppsTypeOK` |
| `NetworkProofs!IndexerTypeCorrect`, `IndexFollows` | `IndexerTypeOK`, `IndexFollowsNetwork` |
| `PilotTypeCorrect`, `PilotTellsOneStory` | `PilotTypeOK`, `PilotIsConsistent` |
| `LearnerProofs!RoadTypeCorrect`, `RoadAlwaysReads` | `LessonRoadTypeOK`, `RoadReads` |
| `LearnerTypeCorrect`, `RoadKeepsUp` | `LearnerTypeOK`, `RoadIsCurrent` |
| `OfflineTypeCorrect`, `OfflineProgressIsKept` | `OfflineTypeOK`, `QueuedIsKept` |

from the assumptions that the modules name (`OutboxAssumption`,
`ProgressAssumption`, `SessionsAssumption`, `ClientsAssumption`,
`HandlersAssumption`, ...): types of the constants, at least one attempt, one
lesson, a batch of one, room in the form for the blank lesson it opens with, and
that `Nothing` is none of the other values or records.

**The outbox.** `RetryBudget` is not inductive alone: `RecordOutcome` writes
`seen + 1`, so one needs that `seen` is below the limit (`DrainCursor`), which
holds because `SelectDue` only reads pending rows. `PublishedIsRecorded` needs
that a drain with outcome "published" has its record already. `ExclusiveClaim`
needs that a row held by a drain is "processing" unless it was overtaken, which
is where the conditional claim enters. `RecordsAreTracked` needs that what
requests, batches and drains hold is earned and has a row. `NoCredentialMissed`
needs `OwedInv`: as long as no request was cut short, whatever is earned other than
silently, with consent, and not queued is still before some request. The refinement
follows from these: each step maps to a ledger step or a stutter.

**Course progress.** The invariant is that *what a handler has read was true
once* (`HonestInv`): its lessons were completed, its quizzes passed, and the
lessons that were checkpoints all along are checkpoints in its list. It is
phrased over histories, because the tables themselves may go back
(`HistoriesGrow`). `EarnedInv` then carries a completed enrollment to the claim
that read it and the certificate; it needs that 100 % means all lessons
(`PercentIsSound`, from `Rounding` and cardinalities). `LockInv` adds that a
report past the lock has a finished predecessor. `RivalInv` says that a report
whose reading is outdated has a contested completion before it. `QuizInv` and
`SomeLessonIsOpen` (the first unsatisfied lesson is open, by well-foundedness
of the naturals) give `LearnerCanProceed`. `AnnounceInv` says that a lesson
completed but not queued yet has a report that will announce it. `LinkInv` says
that a certificate without its link has the one claim that will write it, between
its two writes, unless a request crashed.

**The player** (in `CourseProgressProofs`). `KeptFollowsPlayer` holds only once
nothing is on its way; `ReportInv` says of every state that the API has, or is
being sent or serves (`Known`), both what was last reported and a position less
than an interval behind the furthest. Two positions, because a reopened screen reports from zero
again. It needs that there is a player only on an open screen with a URL
(`PlayerInv`). A write of what the API read keeps it (`KnownGrows`) as long as no
other write came between, which is what `raced` records. `ReachInv` says that
what is on its way was reached, and so was what a request has read.

**Sessions.** `TypeInv` is the type with two facts the other proofs use all the
time: whoever is past the middleware on a session carries a pair
(`CarriersInv`), and what names a pair names a signed one (`SignedInv`).
`EndedStaysEnded` needs `CaughtInv`: a rotation about to write a session that
has ended was caught by its end. `RememberedPairWorks` needs the same statement
of rotations under way (`RotationInv`), between their two writes and before the
first; the core is the lemma `Lasting`, that whatever pair works keeps working
under every step unless its session ends or is overlapped. For the clients,
each step of `SessionClients` is a step of `Sessions` or none
(`ClientSteps`), so the theorems carry over by refinement.

The three properties of the clients rest on what a pair's whereabouts say.
`PlacesInv` places every request; `OwnInv` says that no two devices know the same
session, wherever they keep its pairs. A pair that was exchanged gets whoever
presents it its successor, or its session is dead or excused by an overlap or a
lost answer (`CarryInv`, with `HoldInv` for the pair a device holds, and
`SweepInv` for the request that ends sessions while it has a new pair to deliver):
from this, `KilledForACause` and `LeftOnlyTheDead`. `OneRefresherPerPhone` is about the
guards: siblings are waited for only while they are on their way (`WaitInv`), and
two requests with the same expired pair (`TwinsInv`), a second exchange
(`SecondInv`) or a device that goes on with an expired pair (`FreedInv`) occur only
where guard 1 is blind (`BlindInv`), which `NoteIdling` notes as it happens.

**The storefront.** The invariant says of every handler what it still owes. A
writer between its commit and its `del` explains a stale view; a reader under
way has in hand what the tables show unless it is in `overtaken`; a handler
between `Average` and `Rate` explains a rating that is not the average. Orders
keep their course because the last query of a deletion finds them, whatever its
count said before; that a sale has its enrollment is carried through the deletion
of the user, which takes the enrollment and blanks the order together.
`UnconfirmedSavesSpareProgress` needs that the course row is held from the
first update to the commit, so what `CheckProgress` saw of the lessons is still
what the commit deletes.

**Accounts and identities.** `Accounts`: `RowCachedForACause` is inductive with the
types. `DeletedInv` follows a deletion through its three steps: from the SCAN on
the row is gone, and what sessions there are were found, or opened or written back
behind it.
`PictureInv` says that a request's picture gets into the row by that request only,
so a handler that uploads or destroys names no picture still in use. `Identity`:
`PlaceInv` ties what was told, presented and guessed to the place of the request
that registered; `RegInv` says, of a registration on which no two uses overlapped,
that at most one request presents it, that it has read the attempts there are, and
that the wrong codes compared are the attempts counted and the one being counted.
`KeyPlaces` and `KeyInv` say the same of codes and states: at most one request
holds one, nobody does after a sign-in, and who is about to sign in has dropped it.

**Notices and lists.** `NoticeInv`: an unread notice is shown, or in the answer of
a fetch, or due to one, or its event is under way, or it is noted as missed, or was
not on the page of the last answer. `PhoneInv`
is `TokensFollowPhones` with the identity of rows: each row has the id of the
request that made it, so a push that prunes by id meets only phones it was told
of. `RowsInv` says of each row of a list that the query will read it, has read it,
or shows it, unless a mutation is between its write and its answer; `PageInv` that
the page has the data of its query.

**The studio.** `QuizPanel`: the form holds questions of the shown lesson, or it
is loading, or the lesson is noted as mixed (a load failed under it, or a cancelled
one filled it); a load whose effect was cleaned up is not the one `asking` names,
and one whose body is still being read is in `halfRead`. `Publishing`: a
publication that is past a loop has written the records of that loop for each of its lessons, and one that is
registered is past all of them. `Layouts`: unless excused there is one save at a time and one row (`OneAtATime`).
The form has all that was kept, less what the author took out of it (`FormKeeps`),
so each save sends what the ones before it wrote (`SavesKeep`), whether those are
answered, fail or are lost; a form that goes back is noted. Nothing is loaded or
kept before there is a row (`RowsComeFirst`). `CourseEditor`: the rows of a course
are the replaced ones, the live ones and the unborn ones, in this order (`RowsInv`), so what the store is given
comes as one block of items (`ItemsInv`); the form, and the list in the closure of
every upload of an open editor, name items that are still there, each once
(`ListsInv`). So the form is what the author left until an upload puts back its
own list (`FormInv`), and the payload, which `ToPreview` makes from it, with it.
Outside the page of the uploads their controllers have fired (`PanelsInv`), and an
upload whose controller fired and that is not `tooLate` is before its next look at
the signal, or done, and unpublished (`CancelInv`).

**The indexer.** Each event of a record is awaited (behind the cursor the worker
will ask for), being handled, or shown, or noted as lost, and later events of the
same record are not ahead of it unless their handlers overlapped. The cursor, in
memory, on its way and in Redis, is never ahead of what was received; until there
is one, no event is delivered twice, since every connection begins at the present.

**The pilot.** At most one task is under way (`QueueInv`), and as long as no write
landed after a later task had begun (`late`), what it has read is still so when it
goes by it (`Sound`). The same holds of the one write that was given up on since
the last task (`DriftInv`), so that it may land before the next one and no harm is
done. Answers are what was recorded whether writes are late or not (`ToldInv`),
because the record of a command is never overwritten. `StoryInv` relates the
enrollment to the commands that were accepted, the certificate to the enrollment,
and the course row to the site; `IndexInv` the index to the course row.

**The learner's app.** `LearnerApp`: a fact on which the road and the API differ is
due to a refetch, or corrected by the fetch under way, or noted as unseen by the
write that changed it, until its answer reaches the app. A fetch that was served
has what the API recorded, but for what is unseen (`FetchIsTold`); no call is made
before there is a road to show (`RoadComesFirst`). `OfflineProgress`: nothing is queued before the first load;
who loads first reads what is stored; and the last write, done or to come, is the
queue as it is. `LessonRoad` is arithmetic, split at its thresholds.

**The scenes.** `ApiScenes` and `AppScenes` say that a behaviour of a composition
satisfies the specification of the component that is on its scene: an initial state
of the scene is one of the component, the scene never changes, and every step is
one of the component or leaves its variables alone. So each theorem about a
component holds of the run that checks it, for every value of the constants; what
the compositions add are bounds. `ApiTypeOK` and `AppsTypeOK` follow.

Only model-checked: `QueuedSettles` and `WatchingCompletes`, since liveness under
fairness is out of the prover's reach.

## 5. Findings

What the repository says and the code does not do; each is a run that expects a
violation.

1. **Consent** (`OnlyWithConsent`). "Nothing is published unless the learner
   opted in" (`credentials.service.ts:17`). An opt-out while a drain holds a
   row does not stop it: the cancel touches pending and failed rows, the drain
   does not read the consent again. The same for an enqueue that read the
   consent before the opt-out.
2. **Completion is not monotone** (`CompletedIsMonotone`). "`completed` only
   ever transitions false → true" (`progress.service.ts:50`). A ping that read
   the row before the completion was written writes `false` back;
   `watchedSeconds` decreases the same way. `LostOnlyToRival` is what is left.
   In the same way a stale `Settle` may lower the enrollment's progress again,
   until the next report or progress read.
3. **Course credential never queued** (`CourseCredentialQueued`). A course
   whose last lesson becomes satisfied by a quiz (or by removing one) is first
   found completed by `getProgress`, which stores it without announcing it;
   later reports see no change. Neither the credential nor the notification
   follows, unless the learner opts in again.
4. **Two pairs for one token** (`SamePair`). "Parallel requests that present the
   same just-rotated refresh token [...] get the same new pair"
   (`session.ts:20`; `auth.middleware.test.ts:228` expects it). Two requests that
   both read the jti before either wrote the next one sign a pair each; the
   first one stored is dead at once. A client that keeps it is taken for a thief
   at its next refresh, and the session is revoked.
5. **Charged before enrolled** (`ChargedAreEnrolled`). "This ensures that a user
   is never charged without an Enrollment being created for the course"
   (`orders.service.ts:29`). `createOrder` awaits the confirmation mail between
   the check of the payment, which has succeeded, and the order: in production a
   mail that fails answers 500, and there is neither order nor enrollment.

Also seen in sessions: a session that ends while a rotation has read it is
written back (`caught`: logging out under a refresh leaves a live session on
the server); rotated tokens that arrive after a logout sign the phone in again,
because `absorbRotatedTokens` does not look whose answer they came with; and
between the two writes of a rotation a parallel refresh finds nothing
remembered and revokes a healthy session. The comment "the session is genuinely
dead" (`client.ts:173`) holds of first 401s only: a retried request that is
refused again signs the phone out of whatever session it is in by then.

Also seen: a re-queue that meets a row a drain is about to skip leaves it
skipped until the next publication or sign-in; opting out and in again
at once may leave rows skipped with "consent withdrawn"; a claim cut short
between create and link leaves a certificate without a download link, which
later claims return as it is; a report cut short between the lesson's row and
the enqueue leaves the credential unqueued until the learner opts in again; a
`createQuiz` cut short leaves a checkpoint without a quiz.

Seen in the API: a cache fill that was overtaken keeps the old view for up to
seven days, against "Any write that changes one of those must `del` this key"
(`cache.ts:8`), and so do writes without a `del` (a renamed profile, a linked
video); `loadUser` and `createOrder` re-cache rows that were updated meanwhile,
so a new role need not apply to the next request; a demoted admin's socket stays
in the admin room; a registration's attempts, a one-time code and an iM8 state
are read, compared and deleted in steps, so overlapping uses pass together, and
the write of a wrong code revives a registration that is gone, without an
expiry; a rotation under the SCAN of a deletion writes the session back, so the
deleted user's token passes the session check; unread notifications behind the
newest 50, read ones included, are not shown on the dashboard; linking iM8 replaces
an earlier DID; a question that is saved is answered
500 when its notification fails; two first saves of a layout make two rows.

Seen in the admin app: a course that is opened with lessons has the store's
frozen objects in its form, which can be neither edited in place nor led to the
preview; a save of the never-loaded form replaces all lessons; a payload from
before another editor's save deletes what that one added; `onLinked` puts
back the list it closed over; collapsing a lesson aborts its upload; a
publication that failed to link is published again on retry; `handleRemoveOption`
leaves `correctIndex` at another option; a quiz whose body is still being read when
its lesson is shifted away fills the form of the next one; a course list that was
closed and opened again does not follow a publication begun before; the layout editors' forms go back when
the outcome of a save changes, and EditFaq's next save then undoes the one before;
a list's `refetch` under a fetch is dropped; AllUsers' effect asks all hooks, so a
role change after a deletion reports the deletion again; the success of one
deletion closes the dialog that is open for another course.

Seen in publishing, index and pilot: the service account leaves the lesson refs
of the publication before; lessons deleted between read and registration keep
dangling refs; the strong refs of a course are those before its lessons were
patched; two handlers of one record may write in either order, the cursor may be
stored ahead of a write that is then lost, and the worker reads `timeUs` where
Jetstream sends `time_us`, so it has no cursor, and each reconnection misses what
happened in between; the network listing pages by `indexedAt <` and misses
ties; a pilot write that timed out may land under a later command, a late first
put of a course may drop its sections, a late intent may make a second completion
record.

Seen on the phone: each progress report invalidates the playback query, whose
new URL begins the video anew at the recorded position; on the web, a clip's own
time is reported as the lesson's; a refetch that fails in the background
replaces a playing player by the error; retaking a quiz that was passed, and failing,
takes the pass away; a late report takes a completion back, on the road too; a quiz
left before its answer leaves the road stale; a completion that failed is shown as completed; the offline queue is
called by no screen, loses items when it is first loaded twice, and a failed read
makes the next push overwrite what was stored; push tokens are never registered.

## 6. Not modelled

- **Network directory, analytics**: queries and counts; nothing in them changes
  state.
- **Navigation and onboarding, rendering and styles**: interface without state
  whose order matters. Of the course editor the other fields, of the admin the
  sidebar, charts and sign-in pages.
- **Lexicons, seeds, deployment and backup scripts, proxy configuration, routing,
  logging, metrics, rate limits**: data and operations.
- **Proxying of video bytes, encryption of documents, signing of tokens, grading
  of single questions, certificate files**: they keep no state that another
  operation reads, or are abstracted to their outcome.
- **External services** (the PDS, Bluesky's OAuth library, iM8, Stripe, Expo,
  Streamplace, Cloudinary, Jetstream, RTK Query, TanStack Query, AsyncStorage)
  answer as the code that calls them may find; `PROJECT.json` marks what models
  them as external.
- **Pairs of components**: a scene has one component with the actions of its
  environment, not two components in full. The composed ones are sessions with
  their clients, the player with its endpoint, the lists, the editors and
  the learner's screens with the part of the API they call.

Left to do: the deletion of an account under a drain of the outbox.
