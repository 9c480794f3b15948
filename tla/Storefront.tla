------------------------------ MODULE Storefront ------------------------------
(***************************************************************************)
(* One course as apps/api sells and shows it: the editor's saves, reviews  *)
(* and replies, orders and free enrollments, the deletion of the course or *)
(* of an account, and the public view of the course that Redis keeps.      *)
(*                                                                         *)
(* Every query outside a transaction is a step, and so is every query of a *)
(* transaction that another handler's commit may overtake (PostgreSQL at   *)
(* READ COMMITTED); the writes of a transaction show when it commits.  The *)
(* course row is locked from its first update to the commit: `holder`.     *)
(* Users stands for everyone with an account, whatever their role.         *)
(***************************************************************************)
EXTENDS Handlers

CONSTANTS
  Users,       \* accounts
  Learner,     \* the account enrolled at the start
  Old,         \* the review that is there at the start
  MaxStudied   \* bound: progress rows at one time

ASSUME StorefrontAssumption ==
  /\ MaxStudied \in Nat /\ Learner \in Users
  /\ Old \notin Requests /\ Nothing \notin Users

Lessons == Nat \ {0}
Reviews == Requests \union {Old}
Views == [info : Nat, lessons : SUBSET Lessons, reviews : SUBSET Reviews,
          replies : SUBSET Requests, rating : SUBSET Reviews, purchased : Nat]

\* Tables.
VARIABLES
  course,      \* "unborn", "live" or "gone"
  info,        \* the version of the course's descriptive columns
  lessons,     \* its lessons
  minted,      \* lesson ids given out so far: 1..minted
  studied,     \* lesson progress: <<user, lesson>>
  reviews,     \* Review rows
  replies,     \* ReviewReply rows
  rating,      \* Course.ratings: the reviews it is the average of
  enrolled,    \* Enrollment rows: users
  users,       \* User rows
  orders,      \* Order rows
  charged,     \* Stripe: the orders whose payment succeeded
  purchased,   \* Course.purchased
  holder       \* the request whose transaction holds the course row's lock

\* Redis.
VARIABLE
  cached       \* course:v2:{id}

\* History.
VARIABLES
  overtaken,   \* reads of the view during which a write committed
  torn,        \* the cached view is old for a reason the code accepts
  crossed,     \* the rating is old because two averages were written crosswise
  by,          \* whose a review, a reply or an order is
  answers      \* the review a reply is on, or the review itself

rows   == <<course, info, lessons, minted>>
posts  == <<reviews, replies, answers>>
sales  == <<enrolled, users, orders, charged, purchased>>
tables == <<rows, studied, posts, rating, sales, holder>>
doubts == <<overtaken, torn, crossed>>
storefrontVars == <<tables, cached, step, mem, breaks, by, doubts>>

StorefrontSteps ==
  {"free", "done", "row", "content", "reviews", "fill", "edit",
   "update", "check", "write", "drop", "delete", "remove", "post",
   "average", "rate", "reply", "erase", "settle", "order", "mail", "buy"}

\* Where the handler needs its local variables.
Remembering == {"content", "reviews", "fill", "edit", "update", "check", "write",
                "post", "rate", "reply", "erase", "settle"}

\* who: the account that sent the request, or that it deletes; view: what a
\* read of the public view has so far; keep and manner: the lesson ids of an
\* editor's payload, and how it saves; seen: the progress an editor's
\* transaction saw last; shown: the reviews and replies a handler has read.
StorefrontMemory == [who : Users, view : Views, keep : SUBSET Lessons,
                     manner : {"plain", "careful", "sure"},
                     seen : SUBSET (Users \X Lessons), shown : SUBSET Reviews]

View == [info |-> info, lessons |-> lessons, reviews |-> reviews,
         replies |-> replies, rating |-> rating, purchased |-> purchased]

StorefrontTypeOK ==
  /\ course \in {"unborn", "live", "gone"} /\ info \in Nat
  /\ minted \in Nat /\ lessons \subseteq 1..minted
  /\ studied \subseteq Users \X lessons
  /\ reviews \subseteq Reviews /\ replies \subseteq Requests
  /\ rating \subseteq Reviews
  /\ users \subseteq Users /\ enrolled \subseteq users
  /\ orders \subseteq Requests /\ charged \subseteq Requests
  /\ purchased \in Nat
  /\ holder \in Requests \union {Nothing}
  /\ cached \in Views \union {Nothing}
  /\ step \in [Requests -> StorefrontSteps]
  /\ mem \in [Requests -> StorefrontMemory \union {Nothing}]
  /\ \A r \in Requests : step[r] \in Remembering => mem[r] \in StorefrontMemory
  /\ breaks \in 0..MaxBreaks
  /\ overtaken \subseteq Requests /\ torn \in BOOLEAN /\ crossed \in BOOLEAN
  /\ by \in [Reviews -> Users] /\ answers \in [Reviews -> Reviews]

-----------------------------------------------------------------------------
\* Steps.

NoView == [info |-> 0, lessons |-> {}, reviews |-> {}, replies |-> {},
           rating |-> {}, purchased |-> 0]
Blank == [who |-> Learner, view |-> NoView, keep |-> {}, manner |-> "plain",
          seen |-> {}, shown |-> {}]

\* A write that the public view shows commits: reads under way are overtaken.
Reading == {r \in Requests : step[r] \in {"content", "reviews", "fill"}}
Commits == overtaken' = overtaken \union Reading

\* What goes with a set of reviews, and with a set of lessons (ON DELETE
\* CASCADE of replies and of progress).
RepliesOn(gone) == {p \in replies : answers[p] \in gone}
ProgressOn(gone) == {p \in studied : p[2] \in gone}

\* getSingleCourse.  A hit is answered from the cache and changes nothing.
LookUpView(r) ==
  /\ step[r] = "free" /\ cached = Nothing
  /\ Goes(r, "row")
  /\ UNCHANGED <<tables, cached, breaks, by, doubts>>

\* The course row; 404 without one.
ReadCourse(r) ==
  /\ step[r] = "row"
  /\ GoesWith(r, IF course = "live" THEN "content" ELSE "done",
       [Blank EXCEPT !.view = [View EXCEPT !.lessons = {}, !.reviews = {},
                                            !.replies = {}]])
  /\ UNCHANGED <<tables, cached, breaks, by, doubts>>

\* buildCourseData.
ReadContent(r) ==
  /\ step[r] = "content"
  /\ GoesWith(r, "reviews", [mem[r] EXCEPT !.view.lessons = lessons])
  /\ UNCHANGED <<tables, cached, breaks, by, doubts>>

\* buildReviews.
ReadReviews(r) ==
  /\ step[r] = "reviews"
  /\ GoesWith(r, "fill", [mem[r] EXCEPT !.view.reviews = reviews,
                                        !.view.replies = replies])
  /\ UNCHANGED <<tables, cached, breaks, by, doubts>>

\* redis.set, for seven days.
FillView(r) ==
  /\ step[r] = "fill"
  /\ Goes(r, "done")
  /\ cached' = mem[r].view
  /\ torn' = (r \in overtaken)
  /\ overtaken' = overtaken \ {r}
  /\ UNCHANGED <<tables, breaks, by, crossed>>

ExpireView ==
  /\ cached # Nothing
  /\ cached' = Nothing /\ torn' = FALSE
  /\ UNCHANGED <<tables, step, mem, breaks, by, overtaken, crossed>>

\* redis.del after a write.
DropView(r) ==
  /\ step[r] = "drop"
  /\ Goes(r, "done")
  /\ cached' = Nothing /\ torn' = FALSE
  /\ UNCHANGED <<tables, breaks, by, overtaken, crossed>>

-----------------------------------------------------------------------------
\* The editor.

\* createCourse: the row and its lessons in one transaction.
Created(n) ==
  /\ course' = "live"
  /\ lessons' = (minted + 1)..(minted + n) /\ minted' = minted + n

UploadCourse(r, n) ==
  /\ step[r] = "free" /\ course = "unborn"
  /\ Goes(r, "done")
  /\ Created(n)
  /\ Commits
  /\ UNCHANGED <<info, studied, posts, rating, sales, holder, cached, breaks,
                 by, torn, crossed>>

\* getAdminCourseContent: what the editor starts from.
OpenEditor(r) ==
  /\ step[r] = "free" /\ course = "live"
  /\ GoesWith(r, "edit", [Blank EXCEPT !.keep = lessons])
  /\ UNCHANGED <<tables, cached, breaks, by, doubts>>

\* editCourse: the course is looked up before the transaction.  The payload
\* keeps some of the lessons that were loaded, or has no content at all.
BeginEdit(r) ==
  /\ step[r] = "edit"
  /\ \E kept \in SUBSET mem[r].keep, how \in {"plain", "careful", "sure"} :
       /\ how = "plain" => kept = {}
       /\ GoesWith(r, IF course = "live" THEN "update" ELSE "done",
                   [mem[r] EXCEPT !.keep = kept, !.manner = how])
  /\ UNCHANGED <<tables, cached, breaks, by, doubts>>

\* Lessons that the payload leaves out.  They are read in the transaction,
\* under the lock, so no other save changes them before the commit.
Dropped(r) == IF mem[r].manner = "plain" THEN {} ELSE lessons \ mem[r].keep

\* Mutant of Endangered: the progress on the lessons that are kept.
EndangeredKept(r) == ProgressOn(mem[r].keep)

\* The progress that the check looks for.
Endangered(r) == ProgressOn(Dropped(r))

\* The first update of the transaction locks the row.
UpdateCourse(r) ==
  /\ step[r] = "update" /\ holder = Nothing
  /\ IF course = "live"
     THEN /\ holder' = r
          /\ GoesWith(r, IF mem[r].manner = "careful" /\ Dropped(r) # {}
                         THEN "check" ELSE "write",
                      [mem[r] EXCEPT !.seen = studied])
     ELSE Goes(r, "done") /\ UNCHANGED holder
  /\ UNCHANGED <<rows, studied, posts, rating, sales, cached, breaks, by, doubts>>

\* syncCourseContent: 409 and a rollback if a learner has progress there.
CheckProgress(r) ==
  /\ step[r] = "check"
  /\ IF Endangered(r) = {}
     THEN /\ GoesWith(r, "write", [mem[r] EXCEPT !.seen = studied])
          /\ UNCHANGED holder
     ELSE Goes(r, "done") /\ holder' = Nothing
  /\ UNCHANGED <<rows, studied, posts, rating, sales, cached, breaks, by, doubts>>

\* Mutant of ProgressKept: the progress on a deleted lesson stays.
ProgressKeptAll(r) == studied

\* EnrollmentLesson goes with its lesson.
ProgressKept(r) == studied \ ProgressOn(Dropped(r))

\* The rest of syncCourseContent.  An id that is no lesson any more, and an
\* item without an id (n of them), become new lessons.
Synced(r, n) ==
  LET new == Cardinality(mem[r].keep \ lessons) + n IN
  /\ lessons' = (lessons \ Dropped(r)) \union (minted + 1)..(minted + new)
  /\ minted' = minted + new
  /\ studied' = ProgressKept(r)

\* The commit.
CommitEdit(r, n) ==
  /\ step[r] = "write"
  /\ mem[r].manner = "plain" => n = 0
  /\ GoesWith(r, "drop", Nothing)
  /\ info' = info + 1
  /\ Synced(r, n)
  /\ holder' = Nothing
  /\ Commits
  /\ UNCHANGED <<course, posts, rating, sales, cached, breaks, by, torn, crossed>>

\* deleteCourse.
BeginDelete(r) ==
  /\ step[r] = "free" /\ course = "live"
  /\ Goes(r, "delete")
  /\ UNCHANGED <<tables, cached, breaks, by, doubts>>

CountOrders(r) ==
  /\ step[r] = "delete"
  /\ Goes(r, IF orders = {} THEN "remove" ELSE "done")
  /\ UNCHANGED <<tables, cached, breaks, by, doubts>>

\* Mutant of Deletable: the foreign key of Order cascades.
DeletableAnyway == course = "live"

\* Order.course is ON DELETE RESTRICT.
Deletable == course = "live" /\ orders = {}

\* The delete, which an order placed after the count still refuses;
\* everything else of the course goes with it.
DeleteCourse(r) ==
  /\ step[r] = "remove" /\ holder = Nothing
  /\ IF Deletable
     THEN /\ Goes(r, "drop")
          /\ course' = "gone" /\ lessons' = {} /\ studied' = {}
          /\ reviews' = {} /\ replies' = {} /\ enrolled' = {} /\ rating' = {}
          /\ Commits
     ELSE /\ Goes(r, "done")
          /\ UNCHANGED <<course, lessons, studied, reviews, replies, enrolled,
                         rating, overtaken>>
  /\ UNCHANGED <<info, minted, answers, users, orders, charged, purchased,
                 holder, cached, breaks, by, torn, crossed>>

-----------------------------------------------------------------------------
\* Reviews and replies.

\* A row that refers to a user whose deletion is under way waits for it.
Leaving(u) == \E r \in Requests : step[r] = "settle" /\ mem[r].who = u

\* addReview: only for the enrolled.
BeginReview(r, u) ==
  /\ step[r] = "free" /\ u \in enrolled
  /\ GoesWith(r, "post", [Blank EXCEPT !.who = u])
  /\ UNCHANGED <<tables, cached, breaks, by, doubts>>

\* The insert's foreign keys need the course and the user.
CreateReview(r) ==
  /\ step[r] = "post" /\ ~Leaving(mem[r].who)
  /\ IF course = "live" /\ mem[r].who \in users
     THEN /\ GoesWith(r, "average", Nothing)
          /\ reviews' = reviews \union {r}
          /\ by' = [by EXCEPT ![r] = mem[r].who]
          /\ Commits
     ELSE Goes(r, "done") /\ UNCHANGED <<reviews, by, overtaken>>
  /\ UNCHANGED <<rows, studied, replies, answers, rating, sales, holder,
                 cached, breaks, torn, crossed>>

\* refreshCourseRating, here outside any transaction: the average ...
Average(r) ==
  /\ step[r] = "average"
  /\ GoesWith(r, "rate", [Blank EXCEPT !.shown = reviews])
  /\ UNCHANGED <<tables, cached, breaks, by, doubts>>

\* Mutant of PurchasedAfterRating: the number of reviews overwrites it.
PurchasedAfterRatingCounts(r) == Cardinality(mem[r].shown)

\* refreshCourseRating leaves the counter of orders alone.
PurchasedAfterRating(r) == purchased

\* ... and its update, which fails without a course.
Rate(r) ==
  /\ step[r] = "rate" /\ holder = Nothing
  /\ IF course = "live"
     THEN /\ GoesWith(r, "drop", Nothing)
          /\ rating' = mem[r].shown
          /\ purchased' = PurchasedAfterRating(r)
          /\ crossed' = (mem[r].shown # reviews)
          /\ Commits
     ELSE Goes(r, "done") /\ UNCHANGED <<rating, purchased, crossed, overtaken>>
  /\ UNCHANGED <<rows, studied, posts, enrolled, users, orders, charged,
                 holder, cached, breaks, by, torn>>

\* addReplyToReview.
BeginReply(r, u, p) ==
  /\ step[r] = "free" /\ u \in users /\ p \in reviews
  /\ GoesWith(r, "reply", [Blank EXCEPT !.who = u, !.shown = {p}])
  /\ UNCHANGED <<tables, cached, breaks, by, doubts>>

\* Mutant of AfterReply: the reply is saved and the view kept.
AfterReplyDone == "done"

\* A saved reply drops the cached view of its review's course.
AfterReply == "drop"

CreateReply(r) ==
  /\ step[r] = "reply"
  /\ ~Leaving(mem[r].who) /\ \A p \in mem[r].shown : ~Leaving(by[p])
  /\ IF mem[r].who \in users /\ mem[r].shown \subseteq reviews
     THEN /\ GoesWith(r, AfterReply, Nothing)
          /\ replies' = replies \union {r}
          /\ \E p \in mem[r].shown : answers' = [answers EXCEPT ![r] = p]
          /\ by' = [by EXCEPT ![r] = mem[r].who]
          /\ Commits
     ELSE Goes(r, "done") /\ UNCHANGED <<replies, answers, by, overtaken>>
  /\ UNCHANGED <<rows, studied, reviews, rating, sales, holder, cached, breaks,
                 torn, crossed>>

-----------------------------------------------------------------------------
\* deleteUser: one transaction, but every query sees what others committed.

ReviewsOf(u) == {p \in reviews : by[p] = u}
RepliesOf(u) == {p \in replies : by[p] = u}
IsReview(p) == answers[p] = p

\* The lists of the user's reviews and replies.
BeginLeave(r, u) ==
  /\ step[r] = "free" /\ u \in users
  /\ GoesWith(r, "erase", [Blank EXCEPT !.who = u,
                             !.shown = ReviewsOf(u) \union RepliesOf(u)])
  /\ UNCHANGED <<tables, cached, breaks, by, doubts>>

\* What the delete of u takes away, by the relations of the schema.  Orders
\* stay, with a null userId.
Erased(u) ==
  /\ users' = users \ {u} /\ enrolled' = enrolled \ {u}
  /\ studied' = {p \in studied : p[1] # u}
  /\ reviews' = reviews \ ReviewsOf(u)
  /\ replies' = replies \ (RepliesOf(u) \union RepliesOn(ReviewsOf(u)))

\* user.delete, and the average without the reviews that go with it.
EraseUser(r) ==
  /\ step[r] = "erase" /\ ~Leaving(mem[r].who)
  /\ mem[r].who \in users => \E p \in mem[r].shown : IsReview(p)
  /\ IF mem[r].who \in users
     THEN GoesWith(r, "settle",
            [mem[r] EXCEPT !.shown = reviews \ ReviewsOf(mem[r].who)])
     ELSE Goes(r, "done")
  /\ UNCHANGED <<tables, cached, breaks, by, doubts>>

\* With no review on the list there is nothing to average: the commit
\* follows the delete, and the view is dropped only for a listed reply.
EraseQuietUser(r) ==
  LET u == mem[r].who
      posted == ReviewsOf(u) \union RepliesOf(u) IN
  /\ step[r] = "erase" /\ ~Leaving(u)
  /\ u \in users /\ \A p \in mem[r].shown : ~IsReview(p)
  /\ GoesWith(r, IF mem[r].shown = {} THEN "done" ELSE "drop", Nothing)
  /\ Erased(u)
  /\ torn' = (torn \/ (cached # Nothing /\ posted # {} /\ mem[r].shown = {}))
  /\ crossed' = (crossed \/ ReviewsOf(u) # {})
  /\ Commits
  /\ UNCHANGED <<rows, answers, rating, orders, charged, purchased, holder,
                 cached, breaks, by>>

\* Mutant of AverageAfterErasing: the rating is left as it was.
AverageAfterErasingOld(r) == rating

\* refreshCourseRating in the transaction of deleteUser.
AverageAfterErasing(r) == mem[r].shown

\* The rating and the commit; without the course the update fails, and the
\* transaction with it.
SettleRating(r) ==
  /\ step[r] = "settle" /\ holder = Nothing
  /\ IF course = "live"
     THEN /\ GoesWith(r, "drop", Nothing)
          /\ Erased(mem[r].who)
          /\ rating' = AverageAfterErasing(r)
          /\ crossed' = (mem[r].shown # reviews')
          /\ Commits
     ELSE /\ Goes(r, "done")
          /\ UNCHANGED <<users, enrolled, studied, reviews, replies, rating,
                         crossed, overtaken>>
  /\ UNCHANGED <<rows, answers, orders, charged, purchased, holder, cached,
                 breaks, by, torn>>

-----------------------------------------------------------------------------
\* Orders and enrollment.

\* newPayment, and the card charged by Stripe for it.
Charge(r, u) ==
  /\ step[r] = "free" /\ u \in users /\ course = "live"
  /\ Goes(r, "order")
  /\ charged' = charged \union {r}
  /\ by' = [by EXCEPT ![r] = u]
  /\ UNCHANGED <<rows, studied, posts, rating, enrolled, users, orders,
                 purchased, holder, cached, breaks, doubts>>

\* A free course is ordered without a payment.
OrderFree(r, u) ==
  /\ step[r] = "free" /\ u \in users
  /\ Goes(r, "order")
  /\ by' = [by EXCEPT ![r] = u]
  /\ UNCHANGED <<tables, cached, breaks, doubts>>

\* createOrder, createMobileOrder: the user exists, is not enrolled, and the
\* course exists.
CheckOrder(r) ==
  /\ step[r] = "order"
  /\ Goes(r, IF by[r] \in users \ enrolled /\ course = "live"
             THEN "mail" ELSE "done")
  /\ UNCHANGED <<tables, cached, breaks, by, doubts>>

\* The confirmation goes out before the order is placed; in production a
\* failure of the mail refuses the order.
ConfirmByMail(r) ==
  /\ step[r] = "mail"
  /\ \E to \in {"buy", "done"} : Goes(r, to)
  /\ UNCHANGED <<tables, cached, breaks, by, doubts>>

\* The order's foreign keys need the user and the course.  The enrollment is
\* an upsert: with two orders the second finds it.  The cached view keeps the
\* old counter.
Buy(r) ==
  /\ step[r] = "buy" /\ holder = Nothing /\ ~Leaving(by[r])
  /\ Goes(r, "done")
  /\ IF by[r] \in users /\ course = "live"
     THEN /\ orders' = orders \union {r}
          /\ enrolled' = enrolled \union {by[r]}
          /\ purchased' = purchased + 1
     ELSE UNCHANGED <<orders, enrolled, purchased>>
  /\ UNCHANGED <<rows, studied, posts, rating, users, charged, holder, cached,
                 breaks, by, doubts>>

\* enrollFree.
EnrollFree(u) ==
  /\ u \in users \ enrolled /\ course = "live" /\ ~Leaving(u)
  /\ enrolled' = enrolled \union {u}
  /\ UNCHANGED <<rows, studied, posts, rating, users, orders, charged,
                 purchased, holder, cached, step, mem, breaks, by, doubts>>

\* recordLessonProgress (CourseProgress), as far as its row goes.
Study(u, l) ==
  /\ u \in enrolled /\ ~Leaving(u)
  /\ Cardinality(studied) < MaxStudied
  /\ studied' = studied \union {<<u, l>>}
  /\ UNCHANGED <<rows, posts, rating, sales, holder, cached, step, mem, breaks,
                 by, doubts>>

\* The process dies: a transaction rolls back, later steps never happen.
BreakStorefront(r) ==
  /\ breaks < MaxBreaks
  /\ step[r] \in {"write", "drop", "average", "rate", "settle", "fill"}
  /\ breaks' = breaks + 1
  /\ Goes(r, "done")
  /\ holder' = IF holder = r THEN Nothing ELSE holder
  /\ torn' = (torn \/ (cached # Nothing /\ step[r] \in {"drop", "average", "rate"}))
  /\ crossed' = (crossed \/ step[r] \in {"average", "rate"})
  /\ overtaken' = overtaken \ {r}
  /\ UNCHANGED <<rows, studied, posts, rating, sales, cached, by>>

StorefrontHandler(r) ==
  \/ LookUpView(r) \/ ReadCourse(r) \/ ReadContent(r) \/ ReadReviews(r) \/ FillView(r)
  \/ DropView(r)
  \/ \E n \in 0..1 : UploadCourse(r, n)
  \/ OpenEditor(r) \/ BeginEdit(r) \/ UpdateCourse(r) \/ CheckProgress(r)
  \/ \E n \in 0..1 : CommitEdit(r, n)
  \/ BeginDelete(r) \/ CountOrders(r) \/ DeleteCourse(r)
  \/ \E u \in Users : BeginReview(r, u)
  \/ CreateReview(r) \/ Average(r) \/ Rate(r)
  \/ \E u \in Users, p \in Reviews : BeginReply(r, u, p)
  \/ CreateReply(r)
  \/ \E u \in Users : BeginLeave(r, u)
  \/ EraseUser(r) \/ EraseQuietUser(r) \/ SettleRating(r)
  \/ \E u \in Users : Charge(r, u) \/ OrderFree(r, u)
  \/ CheckOrder(r) \/ ConfirmByMail(r) \/ Buy(r) \/ BreakStorefront(r)

\* Every request is answered: the model may rest.
RestStorefront == AtRest /\ UNCHANGED storefrontVars

StorefrontNext ==
  \/ \E r \in Requests : StorefrontHandler(r)
  \/ \E u \in Users : EnrollFree(u) \/ \E l \in lessons : Study(u, l)
  \/ ExpireView
  \/ RestStorefront

\* Nothing is there yet; or the course runs with a learner who studied its
\* first lesson, or both, and reviewed it.  Reads may be under way.
StorefrontInit ==
  /\ info = 0 /\ replies = {} /\ orders = {} /\ charged = {} /\ purchased = 0
  /\ users = Users /\ holder = Nothing
  /\ \/ /\ course = "unborn" /\ lessons = {} /\ minted = 0 /\ studied = {}
        /\ reviews = {} /\ rating = {} /\ enrolled = {} /\ cached = Nothing
     \/ /\ course = "live" /\ lessons = 1..2 /\ minted = 2
        /\ studied \in {{<<Learner, 1>>}, {<<Learner, 1>>, <<Learner, 2>>}}
        /\ reviews = {Old} /\ rating = {Old}
        /\ enrolled = {Learner}
        /\ cached \in {Nothing, View}
  /\ step \in [Requests -> {"free", "row"}]
  /\ mem = [r \in Requests |-> Nothing]
  /\ by = [p \in Reviews |-> Learner]
  /\ breaks \in 0..MaxBreaks
  /\ overtaken = {} /\ torn = FALSE /\ crossed = FALSE
  /\ answers = [p \in Reviews |-> p]

StorefrontSpec == StorefrontInit /\ [][StorefrontNext]_storefrontVars

-----------------------------------------------------------------------------
\* Properties.

\* No write is between its commit and its redis.del.
Dropping == \E r \in Requests : step[r] \in {"average", "rate", "drop"}

\* The public view in Redis shows what the tables hold, but for the counter
\* of orders (which no order refreshes), unless a read was overtaken by a
\* write, a handler died before its redis.del, or an account took posts with
\* it that its lists had not shown (cache.ts, every handler that dels).
ViewStaleForACause ==
  cached # Nothing /\ ~Dropping =>
    torn \/ (course = "live" /\ [cached EXCEPT !.purchased = purchased] = View)

\* "Any write that changes one of those must `del` this key" (cache.ts).
ViewIsCurrent == cached # Nothing /\ ~Dropping => course = "live" /\ cached = View

\* Course.purchased counts orders: neither reviews nor concurrent orders
\* disturb it (orders.service.ts, the note in refreshCourseRating).
PurchasedCountsOrders == purchased = Cardinality(orders)

\* An order keeps its course, and its buyer enrolled as long as the account
\* exists, whatever deletes run into it (deleteCourse, deleteUser).
OrdersKeepCourse ==
  orders # {} =>
    /\ course = "live"
    /\ \A r \in orders : by[r] \in users => by[r] \in enrolled

\* A save that was not confirmed deletes no progress that its transaction
\* could see (the check of syncCourseContent).
UnconfirmedSavesSpareProgress ==
  [][\A r \in Requests :
       step[r] = "write" /\ step'[r] = "drop" /\ mem[r].manner = "careful" =>
         mem[r].seen \intersect (studied \ studied') = {}]_storefrontVars

\* When no average is being written the rating is the average of the reviews,
\* unless it was written over a review that came in between, or a handler
\* died before writing it (refreshCourseRating, deleteUser).
RatingAverages ==
  course = "live" /\ ~Dropping => rating = reviews \/ crossed

\* "a user is never charged without an Enrollment being created for the
\* course" (orders.service.ts).
ChargedAreEnrolled ==
  \A r \in charged :
    step[r] = "done" /\ by[r] \in users /\ course = "live" => by[r] \in enrolled

\* The derived columns, the foreign keys and the cached view agree with the
\* rows they stand for, whatever overlaps and whatever fails.
ShopIsConsistent ==
  ViewStaleForACause /\ PurchasedCountsOrders /\ OrdersKeepCourse /\ RatingAverages
=============================================================================
