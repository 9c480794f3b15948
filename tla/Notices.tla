------------------------------- MODULE Notices --------------------------------
(***************************************************************************)
(* What apps/api tells people, and what staff decide: questions and        *)
(* answers under a lesson, the feed of notifications with one dashboard on *)
(* it, push messages to phones, and the queue of identity documents (INE). *)
(*                                                                         *)
(* A notification, a question and a version of the documents are named     *)
(* after the request that stored them.  One learner's documents and one    *)
(* reviewer are enough: they share nothing with others.                    *)
(***************************************************************************)
EXTENDS Handlers

CONSTANTS
  People,      \* who may hold a phone
  Phones,      \* Expo push tokens
  PageSize     \* how many notifications an answer has (50)

ASSUME NoticesAssumption ==
  /\ PageSize \in Nat \ {0}
  /\ Nothing \notin People
  /\ Nothing \notin [owner : People, id : Requests]

Submissions == Requests \union {Nothing}

\* Tables.
VARIABLES
  questions,   \* questions and answers that are saved
  feed,        \* Notification rows for staff
  unread,      \* ... with the status "unread"
  older,       \* createdAt: for each, the rows there were when it was stored
  tokens,      \* PushToken, unique by phone: the person, and the row's id
  documents,   \* INEVerification: the version of the documents
  status       \* ... and its status

\* The dashboard of one member of staff.
VARIABLES
  listed,      \* the data of its query: the rows of the last answer
  shown,       \* ... of which it shows the unread ones
  fetch,       \* its query: "idle", "asked", or the answer
  events,      \* newNotification events on their way
  marked,      \* isSuccess of the last mark-as-read
  queue        \* the documents in the reviewer's list

\* History.
VARIABLES
  lastOwner,      \* who registered each phone last
  reported,    \* phones that Expo reported as gone, now or under a push
  missed,      \* notifications whose event could not start a fetch, or whose
               \* fetch failed, and that were not shown since
  omitted,     \* unread ones that were not among the newest at the last answer
  lost,        \* questions whose handler died before staff were told
  judged,      \* the documents that were seen for the last decision
  under        \* ... and had been replaced when it was stored

tablesOfNotices == <<questions, feed, unread, older, tokens, documents, status>>
dashboard == <<listed, shown, fetch, events, marked, omitted>>
desk == <<queue, judged, under>>
pushNotes == <<lastOwner, reported>>
noticesVars ==
  <<tablesOfNotices, dashboard, desk, pushNotes, missed, lost, handlers>>

NoticesSteps == {"free", "note", "emit", "targets", "send", "prune", "decide", "done"}
Statuses == {"none", "pending", "approved", "rejected"}

NoticesTypeOK ==
  /\ questions \subseteq Requests /\ feed \subseteq Requests
  /\ unread \subseteq feed /\ older \in [Requests -> SUBSET Requests]
  /\ tokens \in [Phones -> [owner : People, id : Requests] \union {Nothing}]
  /\ documents \in Submissions /\ status \in Statuses
  /\ listed \subseteq Requests /\ shown \subseteq Requests /\ events \subseteq Requests
  /\ fetch \in [at : {"idle", "asked", "answered"}, page : SUBSET Requests,
                rows : SUBSET Requests]
  /\ marked \in BOOLEAN /\ queue \in Submissions
  /\ judged \in Submissions /\ under \in BOOLEAN
  /\ step \in [Requests -> NoticesSteps]
  /\ lastOwner \in [Phones -> People \union {Nothing}] /\ reported \subseteq Phones
  /\ missed \subseteq Requests /\ omitted \subseteq Requests /\ lost \subseteq questions
  /\ breaks \in 0..MaxBreaks

-----------------------------------------------------------------------------
\* Mutant of Refetched: an event only rings.
RefetchedNot == fetch

\* refetch asks again, unless a query is under way.
Refetched == IF fetch.at = "idle" THEN [fetch EXCEPT !.at = "asked"] ELSE fetch

\* addQuestion, and addAnswer to one's own question: the row, then notify.

Post(r) ==
  /\ step[r] = "free"
  /\ GoesWith(r, "note", Nothing)
  /\ questions' = questions \union {r}
  /\ UNCHANGED <<feed, unread, older, tokens, documents, status, dashboard, desk,
                 pushNotes, missed, lost, breaks>>

StoreNotice(r) ==
  /\ step[r] = "note"
  /\ Goes(r, "emit")
  /\ feed' = feed \union {r} /\ unread' = unread \union {r}
  /\ older' = [older EXCEPT ![r] = feed]
  /\ UNCHANGED <<questions, tokens, documents, status, dashboard, desk,
                 pushNotes, missed, lost, breaks>>

\* publishNotification to the admins.
PublishNotice(r) ==
  /\ step[r] = "emit"
  /\ Goes(r, "done")
  /\ events' = events \union {r}
  /\ UNCHANGED <<tablesOfNotices, listed, shown, fetch, marked, omitted, desk,
                 pushNotes, missed, lost, breaks>>

\* notify fails, or the process dies: the question stays, its author sees an
\* error, and staff hear nothing.
BreakNotice(r) ==
  /\ step[r] \in {"note", "emit"} /\ breaks < MaxBreaks
  /\ breaks' = breaks + 1
  /\ Goes(r, "done")
  /\ lost' = IF step[r] = "note" THEN lost \union {r} ELSE lost
  /\ missed' = IF step[r] = "emit" THEN missed \union {r} ELSE missed
  /\ UNCHANGED <<tablesOfNotices, dashboard, desk, pushNotes>>

\* updateNotification, by this dashboard or by another one.
MarkRead(n, here) ==
  /\ n \in unread /\ (here => n \in shown)
  /\ unread' = unread \ {n}
  /\ marked' = (marked \/ here)
  /\ fetch' = IF here THEN Refetched ELSE fetch
  /\ UNCHANGED <<questions, feed, older, tokens, documents, status, listed, shown,
                 events, omitted, desk, pushNotes, missed, lost, handlers>>

\* The nightly purge of what was read, as old as c or older.
Purge(c) ==
  /\ c \in feed
  /\ feed' = unread \union (feed \ (older[c] \union {c}))
  /\ feed' # feed
  /\ UNCHANGED <<questions, unread, older, tokens, documents, status, dashboard,
                 desk, pushNotes, missed, lost, handlers>>

-----------------------------------------------------------------------------
\* The dashboard (DashboardHeader).

\* An event asks for a refetch, which a query under way swallows; without a
\* connection it is lost.
Hear(n) ==
  /\ n \in events
  /\ events' = events \ {n}
  /\ fetch' = Refetched
  /\ missed' = IF fetch.at = "idle" THEN missed ELSE missed \union {n}
  /\ UNCHANGED <<tablesOfNotices, listed, shown, marked, omitted, desk, pushNotes,
                 lost, handlers>>

Unheard(n) ==
  /\ n \in events
  /\ events' = events \ {n} /\ missed' = missed \union {n}
  /\ UNCHANGED <<tablesOfNotices, listed, shown, fetch, marked, omitted, desk,
                 pushNotes, lost, handlers>>

\* The newest rows, read or not.
Newest == {n \in feed : Cardinality({m \in feed : n \in older[m]}) < PageSize}

\* getNotifications.
AnswerFetch ==
  /\ fetch.at = "asked"
  /\ fetch' = [at |-> "answered", page |-> Newest, rows |-> Newest \intersect unread]
  /\ omitted' = unread \ Newest
  /\ UNCHANGED <<tablesOfNotices, listed, shown, events, marked, desk, pushNotes,
                 missed, lost, handlers>>

NoFetch == [at |-> "idle", page |-> {}, rows |-> {}]

\* The query or its answer is lost: the data stay as they are.
FailFetch ==
  /\ fetch.at # "idle"
  /\ fetch' = NoFetch
  /\ missed' = missed \union
       {n \in unread \ (shown \union events) : step[n] # "emit"}
  /\ UNCHANGED <<tablesOfNotices, listed, shown, events, marked, omitted, desk,
                 pushNotes, lost, handlers>>

\* The effect on [data, isSuccess]: what is unread is shown, and after a
\* mark-as-read new data are fetched once more.
ShowFetch ==
  LET news == <<fetch.page, fetch.rows>> # <<listed, shown>> IN
  /\ fetch.at = "answered"
  /\ listed' = fetch.page /\ shown' = fetch.rows
  /\ fetch' = IF marked /\ news THEN [NoFetch EXCEPT !.at = "asked"] ELSE NoFetch
  /\ missed' = missed \ fetch.rows
  /\ UNCHANGED <<tablesOfNotices, events, marked, omitted, desk, pushNotes, lost,
                 handlers>>

-----------------------------------------------------------------------------
\* Push.

\* Mutant of Registered: a phone that is known keeps its owner.
RegisteredOnce(r, f, p) ==
  IF tokens[f] = Nothing THEN [owner |-> p, id |-> r] ELSE tokens[f]

\* registerPushToken: an upsert by token, which keeps the row's id.
Registered(r, f, p) ==
  [owner |-> p, id |-> IF tokens[f] = Nothing THEN r ELSE tokens[f].id]

UnderWay == {r \in Requests : step[r] \in {"send", "prune"}}
Targeted(f) == \E r \in UnderWay : \E t \in mem[r].to : t.phone = f

RegisterPhone(r, f, p) ==
  /\ step[r] = "free"
  /\ Goes(r, "done")
  /\ tokens' = [tokens EXCEPT ![f] = Registered(r, f, p)]
  /\ lastOwner' = [lastOwner EXCEPT ![f] = p]
  /\ reported' = IF Targeted(f) THEN reported \union {f} ELSE reported \ {f}
  /\ UNCHANGED <<questions, feed, unread, older, documents, status, dashboard, desk,
                 missed, lost, breaks>>

\* unregisterPushToken: only by its owner.
UnregisterPhone(r, f, p) ==
  /\ step[r] = "free"
  /\ Goes(r, "done")
  /\ IF tokens[f] # Nothing /\ tokens[f].owner = p
     THEN /\ tokens' = [tokens EXCEPT ![f] = Nothing]
          /\ lastOwner' = [lastOwner EXCEPT ![f] = Nothing]
     ELSE UNCHANGED <<tokens, lastOwner>>
  /\ UNCHANGED <<questions, feed, unread, older, documents, status, dashboard, desk,
                 reported, missed, lost, breaks>>

\* addAnswer to someone else's question, and a notification for a learner:
\* the rows are stored and mailed, the answer is sent, and the push follows.
BeginPush(r, p) ==
  /\ step[r] = "free"
  /\ GoesWith(r, "targets", [who |-> p, to |-> {}])
  /\ questions' = questions \union {r}
  /\ UNCHANGED <<feed, unread, older, tokens, documents, status, dashboard, desk,
                 pushNotes, missed, lost, breaks>>

PhonesOf(p) == {f \in Phones : tokens[f] # Nothing /\ tokens[f].owner = p}

\* sendPushToUser.
FindPhones(r) ==
  LET found == PhonesOf(mem[r].who) IN
  /\ step[r] = "targets"
  /\ GoesWith(r, IF found = {} THEN "done" ELSE "send",
       [mem[r] EXCEPT !.to = {[phone |-> f, id |-> tokens[f].id] : f \in found}])
  /\ UNCHANGED <<tablesOfNotices, dashboard, desk, pushNotes, missed, lost, breaks>>

\* Expo takes the messages, and says which phones are gone.
SendPush(r) ==
  /\ step[r] = "send"
  /\ \E gone \in SUBSET mem[r].to :
       /\ GoesWith(r, IF gone = {} THEN "done" ELSE "prune",
                   [mem[r] EXCEPT !.to = gone])
       /\ reported' = reported \union {t.phone : t \in gone}
  /\ UNCHANGED <<tablesOfNotices, dashboard, desk, lastOwner, missed, lost, breaks>>

\* Their rows are deleted by id.
PrunePhones(r) ==
  LET ids == {t.id : t \in mem[r].to} IN
  /\ step[r] = "prune"
  /\ Goes(r, "done")
  /\ tokens' = [f \in Phones |->
       IF tokens[f] # Nothing /\ tokens[f].id \in ids THEN Nothing ELSE tokens[f]]
  /\ UNCHANGED <<questions, feed, unread, older, documents, status, dashboard, desk,
                 pushNotes, missed, lost, breaks>>

-----------------------------------------------------------------------------
\* INE: submit, the reviewer's list, the decision.

\* Mutant of StatusOfNew: documents that were decided on stay decided.
StatusOfNewKept == IF status = "none" THEN "pending" ELSE status

\* New documents are pending, whatever was decided on the old ones.
StatusOfNew == "pending"

SubmitDocuments(r) ==
  /\ step[r] = "free"
  /\ Goes(r, "done")
  /\ documents' = r
  /\ status' = StatusOfNew
  /\ UNCHANGED <<questions, feed, unread, older, tokens, dashboard, desk, pushNotes,
                 missed, lost, breaks>>

\* listINEVerifications, and the refetch of the queue.
LoadQueue ==
  /\ queue # documents
  /\ queue' = documents
  /\ UNCHANGED <<tablesOfNotices, dashboard, judged, under, pushNotes, missed,
                 lost, handlers>>

\* handleConfirm, with what the list shows.
Confirm(r) ==
  /\ step[r] = "free" /\ queue # Nothing
  /\ GoesWith(r, "decide", [who |-> queue, to |-> {}])
  /\ UNCHANGED <<tablesOfNotices, dashboard, desk, pushNotes, missed, lost, breaks>>

\* reviewINEVerification updates by the id of the row.
Review(r) ==
  LET seen == mem[r].who IN
  /\ step[r] = "decide"
  /\ Goes(r, "done")
  /\ status' \in {"approved", "rejected"}
  /\ judged' = seen /\ under' = (documents # seen)
  /\ UNCHANGED <<questions, feed, unread, older, tokens, documents, dashboard, queue,
                 pushNotes, missed, lost, breaks>>

-----------------------------------------------------------------------------
NoticesHandler(r) ==
  \/ Post(r) \/ StoreNotice(r) \/ PublishNotice(r) \/ BreakNotice(r)
  \/ \E p \in People : BeginPush(r, p)
  \/ \E f \in Phones, p \in People : RegisterPhone(r, f, p) \/ UnregisterPhone(r, f, p)
  \/ FindPhones(r) \/ SendPush(r) \/ PrunePhones(r)
  \/ SubmitDocuments(r) \/ Confirm(r) \/ Review(r)

RestNotices == AtRest /\ UNCHANGED noticesVars

NoticesNext ==
  \/ \E r \in Requests : NoticesHandler(r)
  \/ \E n \in Requests : \/ MarkRead(n, TRUE) \/ MarkRead(n, FALSE) \/ Purge(n)
                         \/ Hear(n) \/ Unheard(n)
  \/ AnswerFetch \/ FailFetch \/ ShowFetch \/ LoadQueue
  \/ RestNotices

NoticesInit ==
  /\ questions = {} /\ feed = {} /\ unread = {} /\ older = [r \in Requests |-> {}]
  /\ tokens = [f \in Phones |-> Nothing]
  /\ documents = Nothing /\ status = "none"
  /\ listed = {} /\ shown = {} /\ fetch = NoFetch /\ events = {}
  /\ marked = FALSE /\ queue = Nothing
  /\ lastOwner = [f \in Phones |-> Nothing] /\ reported = {}
  /\ missed = {} /\ omitted = {} /\ lost = {} /\ judged = Nothing /\ under = FALSE
  /\ step = [r \in Requests |-> "free"] /\ mem = [r \in Requests |-> Nothing]
  /\ breaks = 0

NoticesSpec == NoticesInit /\ [][NoticesNext]_noticesVars

-----------------------------------------------------------------------------
\* Properties.

\* When nothing is under way the dashboard shows what is unread, unless it
\* was not among the newest notifications at the last answer, or it was not
\* shown since its event met a query under way or never arrived, or a query
\* failed (notify stores, then publishes; DashboardHeader refetches on each
\* event; getNotifications has one page, read or not).
UnreadAreShown ==
  events = {} /\ fetch.at = "idle" /\ AtRest =>
    unread \subseteq shown \union missed \union omitted

\* A phone's row names who registered it last and is there, unless Expo
\* reported the phone as gone, or it was registered under a push that might
\* yet prune it (registerPushToken "just refreshes ownership").
TokensFollowPhones ==
  \A f \in Phones :
    \/ f \in reported
    \/ lastOwner[f] = Nothing /\ tokens[f] = Nothing
    \/ tokens[f] # Nothing /\ tokens[f].owner = lastOwner[f]

\* What was approved or rejected is what the reviewer saw, unless it was
\* replaced between the list and the decision (a new submission "pending",
\* reviewINEVerification by id).
DecidedOnSeen ==
  status \in {"approved", "rejected"} => judged = documents \/ under

\* Who has to hear of something does, and decides on what they saw.
NoticesReach == UnreadAreShown /\ TokensFollowPhones /\ DecidedOnSeen
=============================================================================
