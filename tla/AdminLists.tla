------------------------------ MODULE AdminLists ------------------------------
(***************************************************************************)
(* The lists of apps/admin: AllCourses, AllUsers (the team) and            *)
(* INEVerificationQueue.  Each shows what a query has, asks before it      *)
(* changes a row, follows the answer with the hook of the mutation, and    *)
(* loads the list again in an effect.                                      *)
(*                                                                         *)
(* Each request is one call that changes a row; the API serves it at once  *)
(* (Storefront, Accounts and Notices have its handlers).  The hooks and    *)
(* the query cache are external (RTK Query): a hook follows its last call, *)
(* and a query that is being fetched is not fetched again.                 *)
(***************************************************************************)
EXTENDS Handlers

CONSTANT ListItems   \* rows that the list may have

VARIABLES
  onServer,    \* the rows in the database
  listPage,    \* "courses", "team" or "queue"
  mounted,     \* the page is open
  arg,         \* the argument of its query: the queue may show the pending rows only
  listCache,      \* the data of each argument, Nothing before
  listing,     \* its fetch: idle, asked, or read by the API
  onPage,       \* the data that the page has
  dialog,      \* the change that it asks the admin to confirm, or Nothing
  busyRow,     \* the course that is being published
  awaited,     \* publications that the page, as it was opened last, awaits
  followed     \* of each mutation hook the call it follows, and its outcome

\* History.
VARIABLE unlisted  \* of each argument, rows whose change the page was not told in time

listData == <<arg, listCache, listing, onPage>>
listDialogs == <<dialog, busyRow, awaited, followed>>
listVars == <<onServer, listPage, mounted, listData, listDialogs, unlisted, handlers>>

\* A course is unpublished or published, a user is learner or admin, a
\* verification is pending, approved or rejected.
RowStates == {"first", "second", "third", "gone"}
RowViews == [ListItems -> RowStates]
Args == {"all", "first"}
Hooks == {"delete", "role", "review"}
Changes == [how : Hooks \union {"publish"}, item : ListItems, to : RowStates]

ASSUME ListsAssumption == Nothing \notin RowViews \union Changes \union ListItems

IdleList == [at |-> "idle", has |-> Nothing]
NotFollowed == [h \in Hooks |-> [call |-> Nothing, outcome |-> "none"]]

ListsTypeOK ==
  /\ onServer \in RowViews /\ listPage \in {"courses", "team", "queue"}
  /\ mounted \in BOOLEAN /\ arg \in Args
  /\ listCache \in [Args -> RowViews \union {Nothing}]
  /\ listing \in [Args -> [at : {"idle", "asked", "read"}, has : RowViews \union {Nothing}]]
  /\ onPage \in RowViews \union {Nothing}
  /\ dialog \in Changes \union {Nothing} /\ busyRow \in ListItems \union {Nothing}
  /\ awaited \subseteq Requests
  /\ followed \in [Hooks -> [call : Requests \union {Nothing},
                             outcome : {"none", "pending", "success", "error"}]]
  /\ unlisted \in [Args -> SUBSET ListItems]
  /\ step \in [Requests -> {"free", "sent", "applied", "refused", "done"}]
  /\ mem \in [Requests -> Changes \union {Nothing}]
  /\ \A r \in Requests : mem[r] = Nothing <=> step[r] \in {"free", "done"}
  /\ breaks \in 0..MaxBreaks

-----------------------------------------------------------------------------
\* The query.

\* The rows that the API answers.
Listed(a) ==
  [i \in ListItems |-> IF a = "all" \/ onServer[i] = a THEN onServer[i] ELSE "gone"]

\* refetch, or the fetch on mount: there is one fetch at a time.
Refetching(l, a) ==
  IF l[a].at = "idle" THEN [l EXCEPT ![a] = [at |-> "asked", has |-> Nothing]] ELSE l

\* The hook keeps the last data it had, until the argument's have come.
Kept(data, last) == IF data = Nothing THEN last ELSE data

OpenList ==
  /\ ~mounted /\ mounted' = TRUE
  /\ listing' = Refetching(listing, "all") /\ arg' = "all" /\ onPage' = listCache["all"]
  /\ dialog' = Nothing /\ busyRow' = Nothing /\ awaited' = {} /\ followed' = NotFollowed
  /\ UNCHANGED <<onServer, listPage, listCache, unlisted, handlers>>

\* The data of a query that no page shows are kept for a minute.
CloseList ==
  /\ mounted /\ mounted' = FALSE
  /\ \E c \in {listCache, [a \in Args |-> IF listing[a].at = "idle" THEN Nothing ELSE listCache[a]]} :
       listCache' = c
  /\ arg' = "all" /\ onPage' = Nothing
  /\ dialog' = Nothing /\ busyRow' = Nothing /\ awaited' = {} /\ followed' = NotFollowed
  /\ UNCHANGED <<onServer, listPage, listing, unlisted, handlers>>

Filter(a) ==
  /\ mounted /\ listPage = "queue" /\ dialog = Nothing /\ a # arg
  /\ arg' = a /\ onPage' = Kept(listCache[a], onPage)
  /\ listing' = Refetching(listing, a)
  /\ UNCHANGED <<onServer, listPage, mounted, listCache, listDialogs, unlisted, handlers>>

ServeList(a) ==
  /\ listing[a].at = "asked"
  /\ listing' = [listing EXCEPT ![a] = [at |-> "read", has |-> Listed(a)]]
  /\ unlisted' = [unlisted EXCEPT ![a] = {}]
  /\ UNCHANGED <<onServer, listPage, mounted, arg, listCache, onPage, listDialogs, handlers>>

GotList(a) ==
  /\ listing[a].at = "read"
  /\ listing' = [listing EXCEPT ![a] = IdleList]
  /\ listCache' = [listCache EXCEPT ![a] = listing[a].has]
  /\ onPage' = IF mounted /\ a = arg THEN listing[a].has ELSE onPage
  /\ UNCHANGED <<onServer, listPage, mounted, arg, listDialogs, unlisted, handlers>>

ListFails(a) ==
  /\ listing[a].at # "idle" /\ breaks < MaxBreaks /\ breaks' = breaks + 1
  /\ listing' = [listing EXCEPT ![a] = IdleList]
  /\ unlisted' = [unlisted EXCEPT ![a] = ListItems]
  /\ UNCHANGED <<onServer, listPage, mounted, arg, listCache, onPage, listDialogs, step, mem>>

-----------------------------------------------------------------------------
\* The rows, and the change that is asked for.

\* The rows that the page shows: the team is the admins of the list.
OnScreen(i) ==
  /\ mounted /\ onPage # Nothing /\ dialog = Nothing
  /\ onPage[i] \in (IF listPage = "team" THEN {"second"} ELSE RowStates \ {"gone"})

AskDelete(i) ==
  /\ listPage \in {"courses", "team"} /\ OnScreen(i)
  /\ dialog' = [how |-> "delete", item |-> i, to |-> "gone"]
  /\ UNCHANGED <<onServer, listPage, mounted, listData, busyRow, awaited, followed, unlisted,
                 handlers>>

AskReview(i) ==
  /\ listPage = "queue" /\ OnScreen(i)
  /\ \E to \in {"second", "third"} \ {onPage[i]} :
       dialog' = [how |-> "review", item |-> i, to |-> to]
  /\ UNCHANGED <<onServer, listPage, mounted, listData, busyRow, awaited, followed, unlisted,
                 handlers>>

Dismiss ==
  /\ dialog # Nothing /\ dialog' = Nothing
  /\ UNCHANGED <<onServer, listPage, mounted, listData, busyRow, awaited, followed, unlisted,
                 handlers>>

\* Mutant of Told: only the deletions make the page load its list again.
ToldDeletions(f) == {h \in {"delete"} : f[h].outcome = "success"}

\* The hooks that report a success: the effect does not ask which one is new.
Told(f) == {h \in Hooks : f[h].outcome = "success"}

\* The effect is run when what a hook reports has changed; d: the dialog.
ListEffect(f, ran, d) ==
  /\ followed' = f
  /\ listing' = IF ran /\ Told(f) # {} THEN Refetching(listing, arg) ELSE listing
  /\ dialog' = IF ran /\ "delete" \in Told(f) THEN Nothing ELSE d

\* A mutation is sent: its hook follows this call from now on.
Send(r, change, d) ==
  LET h == change.how IN
  /\ step[r] = "free" /\ GoesWith(r, "sent", change)
  /\ ListEffect([followed EXCEPT ![h] = [call |-> r, outcome |-> "pending"]],
            followed[h].outcome \in {"success", "error"}, d)
  /\ UNCHANGED <<onServer, listPage, mounted, arg, listCache, onPage, busyRow, awaited,
                 unlisted, breaks>>

\* handleDelete leaves the dialog open, handleConfirm closes it.
ConfirmChange(r) ==
  dialog # Nothing /\ Send(r, dialog, IF dialog.how = "review" THEN Nothing ELSE dialog)

\* AllUsers.handleSubmit: the user is named by e-mail address.
SetRole(r, i) ==
  /\ mounted /\ listPage = "team" /\ onPage # Nothing /\ dialog = Nothing
  /\ \E to \in {"first", "second"} : Send(r, [how |-> "role", item |-> i, to |-> to], Nothing)

\* handlePublish.
PublishRow(r, i) ==
  /\ listPage = "courses" /\ OnScreen(i) /\ onPage[i] = "first" /\ busyRow # i
  /\ step[r] = "free" /\ GoesWith(r, "sent", [how |-> "publish", item |-> i, to |-> "second"])
  /\ busyRow' = i /\ awaited' = awaited \union {r}
  /\ UNCHANGED <<onServer, listPage, mounted, listData, dialog, followed, unlisted, breaks>>

-----------------------------------------------------------------------------
\* The calls.

\* The API changes the row if it is there, or refuses.
ServeChange(r) ==
  /\ step[r] = "sent"
  /\ \/ /\ onServer[mem[r].item] # "gone"
        /\ onServer' = [onServer EXCEPT ![mem[r].item] = mem[r].to]
        /\ Goes(r, "applied")
     \/ Goes(r, "refused") /\ UNCHANGED onServer
  /\ UNCHANGED <<listPage, mounted, listData, listDialogs, unlisted, breaks>>

Follows(r) == mem[r].how \in Hooks /\ followed[mem[r].how].call = r

\* handlePublish goes on with the `refetch` and the state of the page that it
\* was called on: one that was opened since is not told.
Publishes(r) == mem[r].how = "publish" /\ r \in awaited

\* Of a change that was made, the lists that it leaves as they are: nobody heeds
\* the answer, they are not on screen, or the one that is being fetched was read.
NotTold(r) ==
  unlisted' =
    [a \in Args |->
       IF (Follows(r) \/ Publishes(r)) /\ a = arg /\ listing[a].at # "read" THEN unlisted[a]
       ELSE unlisted[a] \union {mem[r].item}]

\* The answer of a mutation, or of a publication, which the page awaits.
Answered(r) ==
  LET h == mem[r].how
      good == step[r] = "applied"
  IN
  /\ step[r] \in {"applied", "refused"}
  /\ Goes(r, "done")
  /\ CASE Follows(r) ->
            /\ ListEffect([followed EXCEPT ![h].outcome = IF good THEN "success" ELSE "error"],
                      TRUE, dialog)
            /\ UNCHANGED <<busyRow, awaited>>
       [] Publishes(r) ->
            /\ busyRow' = Nothing /\ awaited' = awaited \ {r}
            /\ listing' = IF good THEN Refetching(listing, arg) ELSE listing
            /\ UNCHANGED <<dialog, followed>>
       [] OTHER -> UNCHANGED <<listing, listDialogs>>
  /\ IF good THEN NotTold(r) ELSE UNCHANGED unlisted
  /\ UNCHANGED <<onServer, listPage, mounted, arg, listCache, onPage, breaks>>

\* The answer is lost: the hook reports an error.
LoseAnswer(r) ==
  /\ step[r] = "applied" /\ breaks < MaxBreaks /\ breaks' = breaks + 1
  /\ Goes(r, "refused")
  /\ unlisted' = [a \in Args |-> unlisted[a] \union {mem[r].item}]
  /\ UNCHANGED <<onServer, listPage, mounted, listData, listDialogs>>

\* Somebody else changes a row: an admin, or a user who submits new documents.
Elsewhere(i) ==
  /\ onServer[i] # "gone" /\ breaks < MaxBreaks /\ breaks' = breaks + 1
  /\ onServer' = [onServer EXCEPT ![i] = IF listPage = "queue" THEN "first" ELSE "gone"]
  /\ unlisted' = [a \in Args |-> unlisted[a] \union {i}]
  /\ UNCHANGED <<listPage, mounted, listData, listDialogs, step, mem>>

-----------------------------------------------------------------------------
ListsNext ==
  \/ OpenList \/ CloseList \/ Dismiss
  \/ \E a \in Args : Filter(a) \/ ServeList(a) \/ GotList(a) \/ ListFails(a)
  \/ \E i \in ListItems : AskDelete(i) \/ AskReview(i) \/ Elsewhere(i)
  \/ \E r \in Requests : ConfirmChange(r) \/ ServeChange(r) \/ Answered(r) \/ LoseAnswer(r)
  \/ \E r \in Requests, i \in ListItems : SetRole(r, i) \/ PublishRow(r, i)

ListsInit ==
  /\ listPage \in {"courses", "team", "queue"}
  /\ onServer = [i \in ListItems |-> IF listPage = "team" THEN "second" ELSE "first"]
  /\ mounted = FALSE /\ arg = "all" /\ listCache = [a \in Args |-> Nothing]
  /\ listing = [a \in Args |-> IdleList] /\ onPage = Nothing
  /\ dialog = Nothing /\ busyRow = Nothing /\ awaited = {} /\ followed = NotFollowed
  /\ unlisted = [a \in Args |-> {}]
  /\ step = [r \in Requests |-> "free"] /\ mem = [r \in Requests |-> Nothing] /\ breaks = 0

ListsSpec == ListsInit /\ [][ListsNext]_listVars

-----------------------------------------------------------------------------
\* Properties.

\* When nothing is in flight the list that an admin sees is the API's, but for
\* rows that somebody else changed, and rows of which the page was not told in
\* time: the answer was lost, came to a page that had been closed since the call
\* (and opened again), or to a hook that followed another call, or while the list
\* was being fetched (the `refetch` of the effects and of handlePublish).
ListIsCurrent ==
  (/\ mounted /\ onPage # Nothing
   /\ \A a \in Args : listing[a].at = "idle"
   /\ \A r \in Requests : step[r] \in {"free", "done"})
  => \A i \in ListItems \ unlisted[arg] : onPage[i] = Listed(arg)[i]
=============================================================================
