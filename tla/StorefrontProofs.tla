--------------------------- MODULE StorefrontProofs ---------------------------
(***************************************************************************)
(* Proofs about the course as it is sold and shown: types, the consistency *)
(* of rows, derived columns and cached view, and what a save may delete.   *)
(***************************************************************************)
EXTENDS Storefront, FiniteSetTheorems, TLAPS

-----------------------------------------------------------------------------
\* The inductive invariant.

\* Lesson ids that an editor holds were given out.
KeptWereMinted == \A r \in Requests : step[r] \in Remembering => mem[r].keep \subseteq 1..minted

\* Orders are what requests that have ended left behind.
OrdersAreDone ==
  /\ IsFiniteSet(orders) /\ PurchasedCountsOrders
  /\ \A r \in orders : step[r] = "done"

\* Lessons, reviews and their average are those of a live course.
NoCourseNoPosts == course # "live" => lessons = {} /\ reviews = {} /\ rating = {}

\* What a read of the public view that is at step s has, is in the tables.
Sees(s, view) ==
  /\ course = "live" /\ view.info = info /\ view.rating = rating
  /\ s \in {"reviews", "fill"} => view.lessons = lessons
  /\ s = "fill" => view.reviews = reviews /\ view.replies = replies

ReadersSee == \A r \in Reading \ overtaken : Sees(step[r], mem[r].view)

\* The cached view shows the tables.
Fresh == course = "live" /\ [cached EXCEPT !.purchased = purchased] = View

\* A view that is not, and was not given up, is about to be dropped.
OldIsDropped ==
  cached # Nothing /\ ~torn =>
    \/ Fresh
    \/ \E r \in Requests : step[r] = "drop"
    \/ course = "live" /\ \E r \in Requests : step[r] \in {"average", "rate"}

\* A rating that is not the average is about to be written.
RatingFollows ==
  course = "live" =>
    rating = reviews \/ crossed \/ \E r \in Requests : step[r] \in {"average", "rate"}

\* Who has updated the course row holds its lock; the check spares what it saw.
SaversHold ==
  \A r \in Requests :
    /\ step[r] \in {"check", "write"} => holder = r /\ course = "live"
    /\ step[r] = "write" /\ mem[r].manner = "careful" =>
         \A p \in mem[r].seen : p[2] \notin Dropped(r)

StorefrontInv ==
  /\ StorefrontTypeOK /\ KeptWereMinted /\ OrdersAreDone /\ OrdersKeepCourse
  /\ NoCourseNoPosts /\ ReadersSee /\ OldIsDropped /\ RatingFollows /\ SaversHold

-----------------------------------------------------------------------------
\* What a step leaves of each part.

LocalsOK ==
  /\ step \in [Requests -> StorefrontSteps]
  /\ mem \in [Requests -> StorefrontMemory \union {Nothing}]
  /\ \A r \in Requests : step[r] \in Remembering => mem[r] \in StorefrontMemory

\* Request r went on to step `to` with the local variables m.
GoneOn(r, to, m) ==
  /\ step'[r] = to /\ (to # "done" => mem'[r] = m)
  /\ \A q \in Requests \ {r} : step'[q] = step[q] /\ mem'[q] = mem[q]

LEMMA Moves ==
  ASSUME StorefrontTypeOK, NEW r \in Requests, NEW to \in StorefrontSteps,
         NEW m \in StorefrontMemory \union {Nothing}, GoesWith(r, to, m),
         to \in Remembering => m \in StorefrontMemory
  PROVE  LocalsOK' /\ GoneOn(r, to, m)
BY DEF GoesWith, StorefrontTypeOK, LocalsOK, GoneOn, Remembering

LEMMA KeptStays ==
  ASSUME KeptWereMinted, NEW r \in Requests, NEW to, NEW m, GoneOn(r, to, m),
         minted \in Nat, minted' \in Nat, minted <= minted',
         to \in Remembering => m.keep \subseteq 1..minted'
  PROVE  KeptWereMinted'
<1>1. 1..minted \subseteq 1..minted'
  OBVIOUS
<1>2. ASSUME NEW q \in Requests, step'[q] \in Remembering
      PROVE  mem'[q].keep \subseteq 1..minted'
  <2>1. CASE q = r
    BY <1>2, <2>1 DEF GoneOn, Remembering
  <2>2. CASE q # r
    BY <1>1, <1>2, <2>2 DEF GoneOn, KeptWereMinted
  <2> QED
    BY <2>1, <2>2
<1> QED
  BY <1>2 DEF KeptWereMinted

LEMMA OrdersStay ==
  ASSUME StorefrontTypeOK, OrdersAreDone, OrdersKeepCourse,
         NEW r \in Requests, NEW to, NEW m, GoneOn(r, to, m),
         step[r] # "done", UNCHANGED <<orders, purchased>>,
         orders # {} => course' = course,
         \A u \in users' : u \in users /\ (u \in enrolled => u \in enrolled'),
         \A q \in Requests \ {r} : by'[q] = by[q]
  PROVE  OrdersAreDone' /\ OrdersKeepCourse'
<1>1. \A q \in orders : q \in Requests \ {r}
  BY DEF OrdersAreDone, StorefrontTypeOK
<1>2. \A q \in orders' : step'[q] = "done" /\ by'[q] = by[q]
  BY <1>1 DEF GoneOn, OrdersAreDone
<1>3. OrdersAreDone'
  BY <1>2 DEF OrdersAreDone, PurchasedCountsOrders
<1>4. OrdersKeepCourse'
  BY <1>2 DEF OrdersKeepCourse
<1> QED
  BY <1>3, <1>4

\* Nothing that the view shows has changed, or the readers were overtaken.
LEMMA ReadersStay ==
  ASSUME ReadersSee, NEW r \in Requests, NEW to, NEW m, GoneOn(r, to, m),
         \/ /\ UNCHANGED <<course, info, lessons, reviews, replies, rating>>
            /\ overtaken \subseteq overtaken' \union {r}
            /\ to \in {"content", "reviews", "fill"} => r \in overtaken' \/ Sees(to, m.view)
         \/ Commits /\ to \notin {"content", "reviews", "fill"}
  PROVE  ReadersSee'
<1> SUFFICES ASSUME NEW q \in Requests, step'[q] \in {"content", "reviews", "fill"},
                    q \notin overtaken'
             PROVE  Sees(step[q], mem[q].view)'
  BY DEF ReadersSee, Reading
<1>1. CASE q = r
  <2>1. /\ UNCHANGED <<course, info, lessons, reviews, replies, rating>>
        /\ to = step'[q] /\ Sees(to, m.view) /\ mem'[q] = m
    BY <1>1 DEF GoneOn
  <2> QED
    BY <2>1 DEF Sees
<1>2. CASE q # r
  <2>1. step'[q] = step[q] /\ mem'[q] = mem[q] /\ q \in Reading
    BY <1>2 DEF GoneOn, Reading
  <2>2. ~Commits
    BY <2>1 DEF Commits
  <2>3. /\ UNCHANGED <<course, info, lessons, reviews, replies, rating>>
        /\ q \notin overtaken
    BY <1>2, <2>2
  <2>4. Sees(step[q], mem[q].view)
    BY <2>1, <2>3 DEF ReadersSee
  <2> QED
    BY <2>1, <2>3, <2>4 DEF Sees
<1> QED
  BY <1>1, <1>2

\* The lock and the lessons stay as long as someone else is saving.
LEMMA SaversStay ==
  ASSUME SaversHold, NEW r \in Requests, NEW to, NEW m, GoneOn(r, to, m),
         to \notin {"check", "write"},
         \A q \in Requests \ {r} : step[q] \in {"check", "write"} =>
           holder' = holder /\ lessons' = lessons /\ course' = "live"
  PROVE  SaversHold'
<1> SUFFICES ASSUME NEW q \in Requests, step'[q] \in {"check", "write"}
             PROVE  /\ holder' = q /\ course' = "live"
                    /\ step'[q] = "write" /\ mem'[q].manner = "careful" =>
                         \A p \in mem'[q].seen : p[2] \notin Dropped(q)'
  BY DEF SaversHold
<1>1. q \in Requests \ {r} /\ step'[q] = step[q] /\ mem'[q] = mem[q]
  BY DEF GoneOn
<1>2. holder' = holder /\ lessons' = lessons /\ course' = "live"
  BY <1>1
<1>3. Dropped(q)' = Dropped(q)
  BY <1>1, <1>2 DEF Dropped
<1> QED
  BY <1>1, <1>2, <1>3 DEF SaversHold

\* The view, its rows and who drops it are left alone.
LEMMA OldStays ==
  ASSUME OldIsDropped, NEW r \in Requests, NEW to, NEW m, GoneOn(r, to, m),
         UNCHANGED <<cached, torn, course, info, lessons, reviews, replies, rating>>,
         step[r] # "drop",
         step[r] \in {"average", "rate"} => to \in {"average", "rate"} \/ course # "live"
  PROVE  OldIsDropped'
<1> SUFFICES ASSUME cached # Nothing, ~torn PROVE OldIsDropped'
  BY DEF OldIsDropped
<1>1. CASE Fresh
  <2>1. Fresh'
    BY <1>1 DEF Fresh, View
  <2> QED
    BY <2>1 DEF OldIsDropped
<1>2. CASE \E q \in Requests : step[q] = "drop"
  BY <1>2 DEF GoneOn, OldIsDropped
<1>3. CASE course = "live" /\ \E q \in Requests : step[q] \in {"average", "rate"}
  <2>1. \E q \in Requests : step'[q] \in {"average", "rate"}
    BY <1>3 DEF GoneOn
  <2> QED
    BY <1>3, <2>1 DEF OldIsDropped
<1> QED
  BY <1>1, <1>2, <1>3 DEF OldIsDropped

LEMMA RatingStays ==
  ASSUME RatingFollows, NEW r \in Requests, NEW to, NEW m, GoneOn(r, to, m),
         UNCHANGED <<course, reviews, rating>>, crossed => crossed',
         step[r] \in {"average", "rate"} =>
           to \in {"average", "rate"} \/ course # "live" \/ crossed'
  PROVE  RatingFollows'
<1> SUFFICES ASSUME course = "live", rating # reviews, ~crossed' PROVE RatingFollows'
  BY DEF RatingFollows
<1>1. PICK q \in Requests : step[q] \in {"average", "rate"}
  BY DEF RatingFollows
<1>2. step'[q] \in {"average", "rate"}
  BY <1>1 DEF GoneOn
<1> QED
  BY <1>2 DEF RatingFollows

-----------------------------------------------------------------------------
\* Steps that change no row.

LEMMA QuietMoves ==
  ASSUME StorefrontInv, NEW r \in Requests, NEW to \in StorefrontSteps,
         NEW m \in StorefrontMemory \union {Nothing}, GoesWith(r, to, m),
         step[r] \notin {"done", "drop"}, to \notin {"check", "write"},
         step[r] \in {"average", "rate"} => to = "rate" \/ course # "live",
         to \in Remembering => m \in StorefrontMemory /\ m.keep \subseteq 1..minted,
         to \in {"content", "reviews", "fill"} => r \in overtaken \/ Sees(to, m.view),
         UNCHANGED <<rows, studied, posts, rating, enrolled, users, orders,
                     purchased, holder, cached, breaks, doubts>>,
         charged' \subseteq Requests, by' \in [Reviews -> Users],
         \A q \in Requests \ {r} : by'[q] = by[q]
  PROVE  StorefrontInv'
<1>0. /\ StorefrontTypeOK /\ KeptWereMinted /\ OrdersAreDone /\ OrdersKeepCourse
      /\ NoCourseNoPosts /\ ReadersSee /\ OldIsDropped /\ RatingFollows /\ SaversHold
  BY DEF StorefrontInv
<1>1. /\ UNCHANGED <<course, info, lessons, minted, studied, reviews, replies, answers>>
      /\ UNCHANGED <<rating, enrolled, users, orders, purchased, holder, cached>>
      /\ UNCHANGED <<breaks, overtaken, torn, crossed>>
  BY DEF rows, posts, doubts
<1>2. LocalsOK' /\ GoneOn(r, to, m)
  BY <1>0, Moves
<1>3. StorefrontTypeOK'
  BY <1>0, <1>1, <1>2 DEF StorefrontTypeOK, LocalsOK
<1>4. KeptWereMinted'
  <2>1. minted \in Nat
    BY <1>0 DEF StorefrontTypeOK
  <2> QED
    BY <1>0, <1>1, <1>2, <2>1, KeptStays
<1>5. OrdersAreDone' /\ OrdersKeepCourse'
  BY <1>0, <1>1, <1>2, OrdersStay
<1>6. NoCourseNoPosts'
  BY <1>0, <1>1 DEF NoCourseNoPosts
<1>7. ReadersSee'
  BY <1>0, <1>1, <1>2, ReadersStay
<1>8. OldIsDropped'
  BY <1>0, <1>1, <1>2, OldStays
<1>9. RatingFollows'
  BY <1>0, <1>1, <1>2, RatingStays
<1>10. SaversHold'
  <2>1. \A q \in Requests : step[q] \in {"check", "write"} => course = "live"
    BY <1>0 DEF SaversHold
  <2> QED
    BY <1>0, <1>1, <1>2, <2>1, SaversStay
<1> QED
  BY <1>3, <1>4, <1>5, <1>6, <1>7, <1>8, <1>9, <1>10 DEF StorefrontInv

\* ... and none that an order needs.
Untouched == UNCHANGED <<tables, cached, breaks, by, doubts>>

LEMMA Unchanging ==
  ASSUME StorefrontTypeOK, Untouched
  PROVE  /\ UNCHANGED <<rows, studied, posts, rating, enrolled, users, orders,
                        purchased, holder, cached, breaks, doubts>>
         /\ charged' \subseteq Requests /\ by' \in [Reviews -> Users]
         /\ \A q \in Requests : by'[q] = by[q]
BY DEF Untouched, tables, sales, StorefrontTypeOK

LEMMA BlankMemory ==
  ASSUME NEW who \in Users, NEW keep \in SUBSET Lessons, NEW shown \in SUBSET Reviews
  PROVE  /\ Blank \in StorefrontMemory /\ Blank.keep = {}
         /\ LET m == [Blank EXCEPT !.who = who, !.shown = shown] IN
              m \in StorefrontMemory /\ m.keep = {}
         /\ LET m == [Blank EXCEPT !.who = who] IN m \in StorefrontMemory /\ m.keep = {}
         /\ LET m == [Blank EXCEPT !.shown = shown] IN m \in StorefrontMemory /\ m.keep = {}
         /\ LET m == [Blank EXCEPT !.keep = keep] IN m \in StorefrontMemory /\ m.keep = keep
BY StorefrontAssumption DEF Blank, NoView, StorefrontMemory, Views

\* A request that ends, or goes on to a step that needs no local variables.
LEMMA QuietEnd ==
  ASSUME StorefrontInv, NEW r \in Requests, NEW to \in StorefrontSteps, Goes(r, to),
         Untouched, step[r] \notin {"done", "drop"}, to \notin Remembering,
         step[r] \in {"average", "rate"} => course # "live"
  PROVE  StorefrontInv'
<1>1. StorefrontTypeOK /\ mem[r] \in StorefrontMemory \union {Nothing}
  BY DEF StorefrontInv, StorefrontTypeOK
<1>2. to \notin {"check", "write", "content", "reviews", "fill"}
  BY DEF Remembering
<1> QED
  BY <1>1, <1>2, Unchanging, QuietMoves DEF Goes

\* Reads of the public view.
LEMMA ViewReads ==
  ASSUME StorefrontInv, NEW r \in Requests,
         LookUpView(r) \/ ReadCourse(r) \/ ReadContent(r) \/ ReadReviews(r)
  PROVE  StorefrontInv'
<1>0. StorefrontTypeOK /\ KeptWereMinted /\ ReadersSee
  BY DEF StorefrontInv
<1>1. Untouched
  BY DEF Untouched, LookUpView, ReadCourse, ReadContent, ReadReviews
<1>2. View \in Views
  BY <1>0 DEF View, Views, StorefrontTypeOK, Lessons
<1>3. CASE LookUpView(r)
  BY <1>1, <1>3, QuietEnd DEF LookUpView, StorefrontSteps, Remembering
<1>4. CASE ReadCourse(r)
  <2> DEFINE seen == [View EXCEPT !.lessons = {}, !.reviews = {}, !.replies = {}]
             m == [Blank EXCEPT !.view = seen]
  <2>1. seen \in Views /\ seen.info = info /\ seen.rating = rating
    BY <1>2 DEF Views, View
  <2>2. Blank \in StorefrontMemory /\ Blank.keep = {}
    BY BlankMemory, StorefrontAssumption
  <2>3. m \in StorefrontMemory /\ m.keep = {} /\ m.view = seen
    BY <2>1, <2>2 DEF StorefrontMemory
  <2>4. PICK to \in {"content", "done"} :
          GoesWith(r, to, m) /\ (to = "content" => course = "live")
    BY <1>4 DEF ReadCourse
  <2>5. to = "content" => Sees(to, m.view)
    BY <2>1, <2>3, <2>4 DEF Sees
  <2>6. step[r] = "row"
    BY <1>4 DEF ReadCourse
  <2> HIDE DEF m
  <2> QED
    BY <1>0, <1>1, <2>3, <2>4, <2>5, <2>6, Unchanging, QuietMoves
    DEF StorefrontSteps, Remembering
<1>5. CASE ReadContent(r)
  <2> DEFINE m == [mem[r] EXCEPT !.view.lessons = lessons]
  <2>1. step[r] = "content" /\ GoesWith(r, "reviews", m)
    BY <1>5 DEF ReadContent
  <2>2. mem[r] \in StorefrontMemory /\ mem[r].keep \subseteq 1..minted
    BY <1>0, <2>1 DEF StorefrontTypeOK, KeptWereMinted, Remembering
  <2>3. lessons \subseteq Lessons
    BY <1>0 DEF StorefrontTypeOK, Lessons
  <2>4. m \in StorefrontMemory /\ m.keep = mem[r].keep
    BY <2>2, <2>3 DEF StorefrontMemory, Views
  <2>5. /\ m.view.lessons = lessons /\ m.view.info = mem[r].view.info
        /\ m.view.rating = mem[r].view.rating
    BY <2>2 DEF StorefrontMemory, Views
  <2>6. r \notin overtaken => Sees("content", mem[r].view)
    BY <1>0, <2>1 DEF ReadersSee, Reading
  <2>7. r \in overtaken \/ Sees("reviews", m.view)
    BY <2>5, <2>6 DEF Sees
  <2> HIDE DEF m
  <2> QED
    BY <1>0, <1>1, <2>1, <2>2, <2>4, <2>7, Unchanging, QuietMoves
    DEF StorefrontSteps, Remembering
<1>6. CASE ReadReviews(r)
  <2> DEFINE m == [mem[r] EXCEPT !.view.reviews = reviews, !.view.replies = replies]
  <2>1. step[r] = "reviews" /\ GoesWith(r, "fill", m)
    BY <1>6 DEF ReadReviews
  <2>2. mem[r] \in StorefrontMemory /\ mem[r].keep \subseteq 1..minted
    BY <1>0, <2>1 DEF StorefrontTypeOK, KeptWereMinted, Remembering
  <2>3. reviews \subseteq Reviews /\ replies \subseteq Requests
    BY <1>0 DEF StorefrontTypeOK
  <2>4. m \in StorefrontMemory /\ m.keep = mem[r].keep
    BY <2>2, <2>3 DEF StorefrontMemory, Views
  <2>5. /\ m.view.reviews = reviews /\ m.view.replies = replies
        /\ m.view.info = mem[r].view.info /\ m.view.rating = mem[r].view.rating
        /\ m.view.lessons = mem[r].view.lessons
    BY <2>2 DEF StorefrontMemory, Views
  <2>6. r \notin overtaken => Sees("reviews", mem[r].view)
    BY <1>0, <2>1 DEF ReadersSee, Reading
  <2>7. r \in overtaken \/ Sees("fill", m.view)
    BY <2>5, <2>6 DEF Sees
  <2> HIDE DEF m
  <2> QED
    BY <1>0, <1>1, <2>1, <2>2, <2>4, <2>7, Unchanging, QuietMoves
    DEF StorefrontSteps, Remembering
<1> QED
  BY <1>3, <1>4, <1>5, <1>6

\* What begins, and ends without a write.
LEMMA Beginnings ==
  ASSUME StorefrontInv, NEW r \in Requests, NEW u \in Users, NEW p \in Reviews,
         \/ OpenEditor(r) \/ BeginReview(r, u) \/ Average(r)
         \/ BeginReply(r, u, p) \/ BeginLeave(r, u)
  PROVE  StorefrontInv'
<1>0. StorefrontTypeOK
  BY DEF StorefrontInv
<1>1. Untouched /\ step[r] \in {"free", "average"}
  BY DEF Untouched, OpenEditor, BeginReview, Average, BeginReply, BeginLeave
<1>2. /\ lessons \in SUBSET Lessons /\ lessons \subseteq 1..minted
      /\ reviews \in SUBSET Reviews /\ {p} \in SUBSET Reviews
      /\ ReviewsOf(u) \union RepliesOf(u) \in SUBSET Reviews
  BY <1>0 DEF StorefrontTypeOK, Lessons, ReviewsOf, RepliesOf, Reviews
<1>3. CASE OpenEditor(r)
  <2> DEFINE m == [Blank EXCEPT !.keep = lessons]
  <2>1. m \in StorefrontMemory /\ m.keep = lessons
    BY <1>2, BlankMemory
  <2>2. step[r] = "free" /\ GoesWith(r, "edit", m)
    BY <1>3 DEF OpenEditor
  <2> HIDE DEF m
  <2> QED
    BY <1>0, <1>1, <1>2, <2>1, <2>2, Unchanging, QuietMoves DEF StorefrontSteps, Remembering
<1>4. CASE BeginReview(r, u)
  <2> DEFINE m == [Blank EXCEPT !.who = u]
  <2>1. m \in StorefrontMemory /\ m.keep = {}
    BY BlankMemory
  <2>2. step[r] = "free" /\ GoesWith(r, "post", m)
    BY <1>4 DEF BeginReview
  <2> HIDE DEF m
  <2> QED
    BY <1>0, <1>1, <2>1, <2>2, Unchanging, QuietMoves DEF StorefrontSteps, Remembering
<1>5. CASE Average(r)
  <2> DEFINE m == [Blank EXCEPT !.shown = reviews]
  <2>1. m \in StorefrontMemory /\ m.keep = {}
    BY <1>2, BlankMemory
  <2>2. step[r] = "average" /\ GoesWith(r, "rate", m)
    BY <1>5 DEF Average
  <2> HIDE DEF m
  <2> QED
    BY <1>0, <1>1, <2>1, <2>2, Unchanging, QuietMoves DEF StorefrontSteps, Remembering
<1>6. CASE BeginReply(r, u, p)
  <2> DEFINE m == [Blank EXCEPT !.who = u, !.shown = {p}]
  <2>1. m \in StorefrontMemory /\ m.keep = {}
    BY <1>2, BlankMemory
  <2>2. step[r] = "free" /\ GoesWith(r, "reply", m)
    BY <1>6 DEF BeginReply
  <2> HIDE DEF m
  <2> QED
    BY <1>0, <1>1, <2>1, <2>2, Unchanging, QuietMoves DEF StorefrontSteps, Remembering
<1>7. CASE BeginLeave(r, u)
  <2> DEFINE m == [Blank EXCEPT !.who = u, !.shown = ReviewsOf(u) \union RepliesOf(u)]
  <2>1. m \in StorefrontMemory /\ m.keep = {}
    BY <1>2, BlankMemory
  <2>2. step[r] = "free" /\ GoesWith(r, "erase", m)
    BY <1>7 DEF BeginLeave
  <2> HIDE DEF m
  <2> QED
    BY <1>0, <1>1, <2>1, <2>2, Unchanging, QuietMoves DEF StorefrontSteps, Remembering
<1> QED
  BY <1>3, <1>4, <1>5, <1>6, <1>7

LEMMA QuietSteps ==
  ASSUME StorefrontInv, NEW r \in Requests, NEW u \in Users,
         \/ BeginEdit(r) \/ BeginDelete(r) \/ CountOrders(r) \/ EraseUser(r)
         \/ Charge(r, u) \/ OrderFree(r, u) \/ CheckOrder(r) \/ ConfirmByMail(r)
  PROVE  StorefrontInv'
<1>0. StorefrontTypeOK /\ KeptWereMinted
  BY DEF StorefrontInv
<1>1. CASE BeginEdit(r)
  <2>1. step[r] = "edit" /\ mem[r] \in StorefrontMemory /\ mem[r].keep \subseteq 1..minted
    BY <1>0, <1>1 DEF BeginEdit, StorefrontTypeOK, KeptWereMinted, Remembering
  <2>2. PICK kept \in SUBSET mem[r].keep, how \in {"plain", "careful", "sure"},
              to \in {"update", "done"} :
          GoesWith(r, to, [mem[r] EXCEPT !.keep = kept, !.manner = how])
    BY <1>1 DEF BeginEdit
  <2> DEFINE m == [mem[r] EXCEPT !.keep = kept, !.manner = how]
  <2>3. m \in StorefrontMemory /\ m.keep \subseteq 1..minted
    BY <2>1 DEF StorefrontMemory
  <2>4. Untouched
    BY <1>1 DEF BeginEdit, Untouched
  <2>5. GoesWith(r, to, m)
    BY <2>2
  <2> HIDE DEF m
  <2> QED
    BY <1>0, <2>1, <2>3, <2>4, <2>5, Unchanging, QuietMoves DEF StorefrontSteps, Remembering
<1>2. CASE BeginDelete(r)
  BY <1>2, QuietEnd DEF BeginDelete, Untouched, StorefrontSteps, Remembering
<1>3. CASE CountOrders(r)
  <2>1. PICK to \in {"remove", "done"} : Goes(r, to)
    BY <1>3 DEF CountOrders
  <2> QED
    BY <1>3, <2>1, QuietEnd DEF CountOrders, Untouched, StorefrontSteps, Remembering
<1>4. CASE EraseUser(r)
  <2>1. step[r] = "erase" /\ mem[r] \in StorefrontMemory /\ mem[r].keep \subseteq 1..minted
    BY <1>0, <1>4 DEF EraseUser, StorefrontTypeOK, KeptWereMinted, Remembering
  <2>2. Untouched
    BY <1>4 DEF EraseUser, Untouched
  <2>3. CASE Goes(r, "done")
    BY <2>1, <2>2, <2>3, QuietEnd DEF StorefrontSteps, Remembering
  <2>4. CASE GoesWith(r, "settle",
               [mem[r] EXCEPT !.shown = reviews \ ReviewsOf(mem[r].who)])
    <3> DEFINE m == [mem[r] EXCEPT !.shown = reviews \ ReviewsOf(mem[r].who)]
    <3>1. reviews \ ReviewsOf(mem[r].who) \in SUBSET Reviews
      BY <1>0 DEF StorefrontTypeOK
    <3>2. m \in StorefrontMemory /\ m.keep = mem[r].keep
      BY <2>1, <3>1 DEF StorefrontMemory
    <3>3. GoesWith(r, "settle", m)
      BY <2>4
    <3> HIDE DEF m
    <3> QED
      BY <1>0, <2>1, <2>2, <3>2, <3>3, Unchanging, QuietMoves DEF StorefrontSteps, Remembering
  <2> QED
    BY <1>4, <2>3, <2>4 DEF EraseUser
<1>5. CASE Charge(r, u) \/ OrderFree(r, u)
  <2>1. step[r] = "free" /\ GoesWith(r, "order", mem[r])
    BY <1>5 DEF Charge, OrderFree, Goes
  <2>2. /\ charged' \subseteq Requests /\ by' \in [Reviews -> Users]
        /\ \A q \in Requests \ {r} : by'[q] = by[q]
    BY <1>0, <1>5 DEF Charge, OrderFree, StorefrontTypeOK, Reviews, tables, sales
  <2>3. UNCHANGED <<rows, studied, posts, rating, enrolled, users, orders,
                    purchased, holder, cached, breaks, doubts>>
    BY <1>5 DEF Charge, OrderFree, tables, sales
  <2>4. mem[r] \in StorefrontMemory \union {Nothing}
    BY <1>0 DEF StorefrontTypeOK
  <2> QED
    BY <2>1, <2>2, <2>3, <2>4, QuietMoves DEF StorefrontSteps, Remembering
<1>6. CASE CheckOrder(r)
  <2>1. PICK to \in {"mail", "done"} : Goes(r, to)
    BY <1>6 DEF CheckOrder
  <2> QED
    BY <1>6, <2>1, QuietEnd DEF CheckOrder, Untouched, StorefrontSteps, Remembering
<1>7. CASE ConfirmByMail(r)
  <2>1. PICK to \in {"buy", "done"} : Goes(r, to)
    BY <1>7 DEF ConfirmByMail
  <2> QED
    BY <1>7, <2>1, QuietEnd DEF ConfirmByMail, Untouched, StorefrontSteps, Remembering
<1> QED
  BY <1>1, <1>2, <1>3, <1>4, <1>5, <1>6, <1>7

-----------------------------------------------------------------------------
\* The cached view.

LEMMA FillStep ==
  ASSUME StorefrontInv, NEW r \in Requests, FillView(r)
  PROVE  StorefrontInv'
<1>0. /\ StorefrontTypeOK /\ KeptWereMinted /\ OrdersAreDone /\ OrdersKeepCourse
      /\ NoCourseNoPosts /\ ReadersSee /\ OldIsDropped /\ RatingFollows /\ SaversHold
  BY DEF StorefrontInv
<1>1. /\ UNCHANGED <<course, info, lessons, minted, studied, reviews, replies, answers>>
      /\ UNCHANGED <<rating, enrolled, users, orders, charged, purchased, holder>>
      /\ UNCHANGED <<breaks, crossed, by>>
  BY DEF FillView, tables, rows, posts, sales
<1>2. /\ step[r] = "fill" /\ GoesWith(r, "done", mem[r]) /\ cached' = mem[r].view
      /\ torn' = (r \in overtaken) /\ overtaken' = overtaken \ {r}
  BY DEF FillView, Goes
<1>3. mem[r] \in StorefrontMemory /\ mem[r].view \in Views
  BY <1>0, <1>2 DEF StorefrontTypeOK, Remembering, StorefrontMemory
<1>4. LocalsOK' /\ GoneOn(r, "done", mem[r])
  BY <1>0, <1>2, <1>3, Moves DEF StorefrontSteps, Remembering
<1>5. StorefrontTypeOK'
  <2>1. torn' \in BOOLEAN
    BY <1>2
  <2> QED
    BY <1>0, <1>1, <1>2, <1>3, <1>4, <2>1 DEF StorefrontTypeOK, LocalsOK
<1>6. KeptWereMinted'
  <2>1. minted \in Nat
    BY <1>0 DEF StorefrontTypeOK
  <2> QED
    BY <1>0, <1>1, <1>4, <2>1, KeptStays DEF Remembering
<1>7. OrdersAreDone' /\ OrdersKeepCourse'
  BY <1>0, <1>1, <1>2, <1>4, OrdersStay
<1>8. NoCourseNoPosts'
  BY <1>0, <1>1 DEF NoCourseNoPosts
<1>9. ReadersSee'
  BY <1>0, <1>1, <1>2, <1>4, ReadersStay
<1>10. OldIsDropped'
  <2> SUFFICES ASSUME ~torn' PROVE OldIsDropped'
    BY DEF OldIsDropped
  <2>1. Sees("fill", mem[r].view)
    BY <1>0, <1>2 DEF ReadersSee, Reading
  <2>2. Fresh'
    BY <1>1, <1>2, <1>3, <2>1 DEF Sees, Fresh, View, Views
  <2> QED
    BY <2>2 DEF OldIsDropped
<1>11. RatingFollows'
  BY <1>0, <1>1, <1>2, <1>4, RatingStays
<1>12. SaversHold'
  <2>1. \A q \in Requests : step[q] \in {"check", "write"} => course = "live"
    BY <1>0 DEF SaversHold
  <2> QED
    BY <1>0, <1>1, <1>4, <2>1, SaversStay
<1> QED
  BY <1>5, <1>6, <1>7, <1>8, <1>9, <1>10, <1>11, <1>12 DEF StorefrontInv

LEMMA DropStep ==
  ASSUME StorefrontInv, NEW r \in Requests, DropView(r)
  PROVE  StorefrontInv'
<1>0. /\ StorefrontTypeOK /\ KeptWereMinted /\ OrdersAreDone /\ OrdersKeepCourse
      /\ NoCourseNoPosts /\ ReadersSee /\ OldIsDropped /\ RatingFollows /\ SaversHold
  BY DEF StorefrontInv
<1>1. /\ UNCHANGED <<course, info, lessons, minted, studied, reviews, replies, answers>>
      /\ UNCHANGED <<rating, enrolled, users, orders, charged, purchased, holder>>
      /\ UNCHANGED <<breaks, crossed, by, overtaken>>
  BY DEF DropView, tables, rows, posts, sales
<1>2. /\ step[r] = "drop" /\ GoesWith(r, "done", mem[r])
      /\ cached' = Nothing /\ torn' = FALSE
  BY DEF DropView, Goes
<1>3. LocalsOK' /\ GoneOn(r, "done", mem[r])
  BY <1>0, <1>2, Moves DEF StorefrontSteps, Remembering, StorefrontTypeOK
<1>4. StorefrontTypeOK'
  BY <1>0, <1>1, <1>2, <1>3 DEF StorefrontTypeOK, LocalsOK
<1>5. KeptWereMinted'
  <2>1. minted \in Nat
    BY <1>0 DEF StorefrontTypeOK
  <2> QED
    BY <1>0, <1>1, <1>3, <2>1, KeptStays DEF Remembering
<1>6. OrdersAreDone' /\ OrdersKeepCourse'
  BY <1>0, <1>1, <1>2, <1>3, OrdersStay
<1>7. NoCourseNoPosts' /\ OldIsDropped'
  BY <1>0, <1>1, <1>2 DEF NoCourseNoPosts, OldIsDropped
<1>8. ReadersSee'
  BY <1>0, <1>1, <1>3, ReadersStay
<1>9. RatingFollows'
  BY <1>0, <1>1, <1>2, <1>3, RatingStays
<1>10. SaversHold'
  <2>1. \A q \in Requests : step[q] \in {"check", "write"} => course = "live"
    BY <1>0 DEF SaversHold
  <2> QED
    BY <1>0, <1>1, <1>3, <2>1, SaversStay
<1> QED
  BY <1>4, <1>5, <1>6, <1>7, <1>8, <1>9, <1>10 DEF StorefrontInv

LEMMA ExpireStep ==
  ASSUME StorefrontInv, ExpireView
  PROVE  StorefrontInv'
<1>0. /\ StorefrontTypeOK /\ KeptWereMinted /\ OrdersAreDone /\ OrdersKeepCourse
      /\ NoCourseNoPosts /\ ReadersSee /\ OldIsDropped /\ RatingFollows /\ SaversHold
  BY DEF StorefrontInv
<1>1. /\ UNCHANGED <<course, info, lessons, minted, studied, reviews, replies, answers>>
      /\ UNCHANGED <<rating, enrolled, users, orders, charged, purchased, holder>>
      /\ UNCHANGED <<breaks, crossed, by, overtaken, step, mem>>
      /\ cached' = Nothing /\ torn' = FALSE
  BY DEF ExpireView, tables, rows, posts, sales
<1>2. StorefrontTypeOK'
  BY <1>0, <1>1 DEF StorefrontTypeOK
<1>3. /\ KeptWereMinted' /\ OrdersAreDone' /\ OrdersKeepCourse' /\ NoCourseNoPosts'
      /\ OldIsDropped' /\ RatingFollows'
  BY <1>0, <1>1
  DEF KeptWereMinted, OrdersAreDone, PurchasedCountsOrders, OrdersKeepCourse,
      NoCourseNoPosts, OldIsDropped, RatingFollows
<1>4. ReadersSee' /\ SaversHold'
  BY <1>0, <1>1 DEF ReadersSee, Reading, Sees, SaversHold, Dropped
<1> QED
  BY <1>2, <1>3, <1>4 DEF StorefrontInv

-----------------------------------------------------------------------------
\* The editor.

LEMMA UploadStep ==
  ASSUME StorefrontInv, NEW r \in Requests, NEW n \in 0..1, UploadCourse(r, n)
  PROVE  StorefrontInv'
<1>0. /\ StorefrontTypeOK /\ KeptWereMinted /\ OrdersAreDone /\ OrdersKeepCourse
      /\ NoCourseNoPosts /\ ReadersSee /\ OldIsDropped /\ RatingFollows /\ SaversHold
  BY DEF StorefrontInv
<1>1. /\ UNCHANGED <<info, studied, reviews, replies, answers, rating, enrolled>>
      /\ UNCHANGED <<users, orders, charged, purchased, holder, cached, breaks>>
      /\ UNCHANGED <<by, torn, crossed>>
  BY DEF UploadCourse, posts, sales
<1>2. /\ step[r] = "free" /\ course = "unborn" /\ GoesWith(r, "done", mem[r])
      /\ course' = "live" /\ minted' = minted + n
      /\ lessons' = (minted + 1)..(minted + n) /\ Commits
  BY DEF UploadCourse, Goes, Created
<1>3. minted \in Nat /\ minted' \in Nat /\ minted <= minted'
  BY <1>0, <1>2 DEF StorefrontTypeOK
<1>4. LocalsOK' /\ GoneOn(r, "done", mem[r])
  BY <1>0, <1>2, Moves DEF StorefrontSteps, Remembering, StorefrontTypeOK
<1>5. StorefrontTypeOK'
  <2>1. lessons' \subseteq 1..minted' /\ overtaken' \subseteq Requests
    BY <1>0, <1>2, <1>3 DEF StorefrontTypeOK, Commits, Reading
  <2>2. studied = {}
    BY <1>0, <1>2 DEF StorefrontTypeOK, NoCourseNoPosts
  <2> QED
    BY <1>0, <1>1, <1>2, <1>3, <1>4, <2>1, <2>2 DEF StorefrontTypeOK, LocalsOK
<1>6. KeptWereMinted'
  BY <1>0, <1>3, <1>4, KeptStays DEF Remembering
<1>7. OrdersAreDone' /\ OrdersKeepCourse'
  <2>1. orders = {}
    BY <1>0, <1>2 DEF OrdersKeepCourse
  <2> QED
    BY <1>0, <1>1, <1>2, <1>4, <2>1, OrdersStay
<1>8. NoCourseNoPosts' /\ RatingFollows'
  BY <1>0, <1>1, <1>2 DEF NoCourseNoPosts, RatingFollows
<1>9. ReadersSee'
  BY <1>0, <1>2, <1>4, ReadersStay
<1>10. OldIsDropped'
  <2> SUFFICES ASSUME cached # Nothing, ~torn PROVE OldIsDropped'
    BY <1>1 DEF OldIsDropped
  <2>1. PICK q \in Requests : step[q] = "drop"
    BY <1>0, <1>2 DEF OldIsDropped, Fresh
  <2>2. step'[q] = "drop"
    BY <1>2, <1>4, <2>1 DEF GoneOn
  <2> QED
    BY <2>2 DEF OldIsDropped
<1>11. SaversHold'
  <2>1. \A q \in Requests : step[q] \notin {"check", "write"}
    BY <1>0, <1>2 DEF SaversHold
  <2> QED
    BY <1>0, <1>4, <2>1, SaversStay
<1> QED
  BY <1>5, <1>6, <1>7, <1>8, <1>9, <1>10, <1>11 DEF StorefrontInv

\* The lock is taken, kept or given back; no row changes.
LEMMA SaverMoves ==
  ASSUME StorefrontInv, NEW r \in Requests, UpdateCourse(r) \/ CheckProgress(r)
  PROVE  StorefrontInv'
<1>0. /\ StorefrontTypeOK /\ KeptWereMinted /\ OrdersAreDone /\ OrdersKeepCourse
      /\ NoCourseNoPosts /\ ReadersSee /\ OldIsDropped /\ RatingFollows /\ SaversHold
  BY DEF StorefrontInv
<1>1. /\ UNCHANGED <<course, info, lessons, minted, studied, reviews, replies, answers>>
      /\ UNCHANGED <<rating, enrolled, users, orders, charged, purchased, cached>>
      /\ UNCHANGED <<breaks, overtaken, torn, crossed, by>>
  BY DEF UpdateCourse, CheckProgress, rows, posts, sales, doubts
<1>2. /\ step[r] \in {"update", "check"}
      /\ mem[r] \in StorefrontMemory /\ mem[r].keep \subseteq 1..minted
  <2>1. step[r] \in {"update", "check"}
    BY DEF UpdateCourse, CheckProgress
  <2>2. step[r] \in Remembering
    BY <2>1 DEF Remembering
  <2>3. mem[r] \in StorefrontMemory
    BY <1>0, <2>2 DEF StorefrontTypeOK
  <2>4. mem[r].keep \subseteq 1..minted
    BY <1>0, <2>2 DEF KeptWereMinted
  <2> QED
    BY <2>1, <2>3, <2>4
<1>3. minted \in Nat /\ studied \in SUBSET (Users \X Lessons)
  <2>1. minted \in Nat /\ lessons \subseteq 1..minted /\ studied \subseteq Users \X lessons
    BY <1>0 DEF StorefrontTypeOK
  <2>2. lessons \subseteq Lessons
    BY <2>1 DEF Lessons
  <2> QED
    BY <2>1, <2>2
<1> DEFINE n == [mem[r] EXCEPT !.seen = studied]
<1>4. /\ n \in StorefrontMemory /\ n.keep = mem[r].keep /\ n.seen = studied
      /\ n.manner = mem[r].manner
  BY <1>2, <1>3 DEF StorefrontMemory
<1>5. PICK to \in {"check", "write", "done"}, m \in StorefrontMemory :
        /\ GoesWith(r, to, m) /\ m.keep = mem[r].keep /\ m.manner = mem[r].manner
        /\ to # "done" => m.seen = studied /\ holder' = r /\ course = "live"
        /\ to = "done" => holder' = holder \/ (holder' = Nothing /\ step[r] = "check")
        /\ to = "write" /\ m.manner = "careful" => ProgressOn(Dropped(r)) = {}
        /\ step[r] = "update" => holder = Nothing
  <2>1. CASE UpdateCourse(r) /\ course = "live"
    <3>1. holder' = r /\ holder = Nothing /\ step[r] = "update"
      BY <2>1 DEF UpdateCourse
    <3>2. PICK to \in {"check", "write"} :
            /\ GoesWith(r, to, n)
            /\ to = "write" => ~(mem[r].manner = "careful" /\ Dropped(r) # {})
      BY <1>4, <2>1 DEF UpdateCourse
    <3>3. Dropped(r) = {} => ProgressOn(Dropped(r)) = {}
      BY DEF ProgressOn
    <3>4. to = "write" /\ n.manner = "careful" => ProgressOn(Dropped(r)) = {}
      BY <1>4, <3>2, <3>3
    <3> HIDE DEF n
    <3> QED
      BY <1>4, <2>1, <3>1, <3>2, <3>4
  <2>2. CASE UpdateCourse(r) /\ course # "live"
    BY <1>2, <2>2 DEF UpdateCourse, Goes
  <2>3. CASE CheckProgress(r) /\ Endangered(r) = {}
    <3>1. step[r] = "check" /\ holder' = holder /\ GoesWith(r, "write", n)
      BY <1>4, <2>3 DEF CheckProgress
    <3>2. holder = r /\ course = "live"
      BY <1>0, <3>1 DEF SaversHold
    <3> HIDE DEF n
    <3> QED
      BY <1>4, <2>3, <3>1, <3>2 DEF Endangered
  <2>4. CASE CheckProgress(r) /\ Endangered(r) # {}
    BY <1>2, <2>4 DEF CheckProgress, Goes
  <2> QED
    BY <2>1, <2>2, <2>3, <2>4
<1> HIDE DEF n
<1>6. LocalsOK' /\ GoneOn(r, to, m)
  BY <1>0, <1>5, Moves DEF StorefrontSteps
<1>7. StorefrontTypeOK'
  <2>1. holder' \in Requests \union {Nothing}
    BY <1>0, <1>5 DEF StorefrontTypeOK
  <2> QED
    BY <1>0, <1>1, <1>6, <2>1 DEF StorefrontTypeOK, LocalsOK
<1>8. KeptWereMinted'
  BY <1>0, <1>1, <1>2, <1>3, <1>5, <1>6, KeptStays
<1>9. OrdersAreDone' /\ OrdersKeepCourse'
  BY <1>0, <1>1, <1>2, <1>6, OrdersStay
<1>10. NoCourseNoPosts'
  BY <1>0, <1>1 DEF NoCourseNoPosts
<1>11. ReadersSee'
  BY <1>0, <1>1, <1>5, <1>6, ReadersStay
<1>12. OldIsDropped'
  BY <1>0, <1>1, <1>2, <1>6, OldStays
<1>13. RatingFollows'
  BY <1>0, <1>1, <1>2, <1>6, RatingStays
<1>14. SaversHold'
  <2> SUFFICES ASSUME NEW q \in Requests, step'[q] \in {"check", "write"}
               PROVE  /\ holder' = q /\ course' = "live"
                      /\ step'[q] = "write" /\ mem'[q].manner = "careful" =>
                           \A p \in mem'[q].seen : p[2] \notin Dropped(q)'
    BY DEF SaversHold
  <2>1. CASE q = r
    <3>1. to = step'[r] /\ mem'[r] = m /\ m.seen = studied
      BY <1>5, <1>6, <2>1 DEF GoneOn
    <3>2. Dropped(r)' = Dropped(r)
      BY <1>1, <1>5, <3>1 DEF Dropped
    <3>3. to = "write" /\ m.manner = "careful" => \A p \in studied : p[2] \notin Dropped(r)
      BY <1>5 DEF ProgressOn
    <3> QED
      BY <1>1, <1>5, <2>1, <3>1, <3>2, <3>3
  <2>2. CASE q # r
    <3>1. step'[q] = step[q] /\ holder = q
      BY <1>0, <1>6, <2>2 DEF GoneOn, SaversHold
    <3>2. step[r] = "check" => holder = r
      BY <1>0 DEF SaversHold
    <3> QED
      BY <1>2, <1>5, <2>2, <3>1, <3>2, HandlersAssumption
  <2> QED
    BY <2>1, <2>2
<1> QED
  BY <1>7, <1>8, <1>9, <1>10, <1>11, <1>12, <1>13, <1>14 DEF StorefrontInv

LEMMA CommitStep ==
  ASSUME StorefrontInv, NEW r \in Requests, NEW n \in 0..1, CommitEdit(r, n)
  PROVE  StorefrontInv'
<1>0. /\ StorefrontTypeOK /\ KeptWereMinted /\ OrdersAreDone /\ OrdersKeepCourse
      /\ NoCourseNoPosts /\ ReadersSee /\ OldIsDropped /\ RatingFollows /\ SaversHold
  BY DEF StorefrontInv
<1>1. /\ UNCHANGED <<course, reviews, replies, answers, rating, enrolled, users>>
      /\ UNCHANGED <<orders, charged, purchased, cached, breaks, by, torn, crossed>>
  BY DEF CommitEdit, posts, sales
<1>2. /\ step[r] = "write" /\ GoesWith(r, "drop", Nothing) /\ info' = info + 1
      /\ Synced(r, n) /\ holder' = Nothing /\ Commits
  BY DEF CommitEdit
<1>3. LocalsOK' /\ GoneOn(r, "drop", Nothing)
  BY <1>0, <1>2, Moves DEF StorefrontSteps, Remembering
<1>4. course = "live" /\ holder = r
  BY <1>0, <1>2 DEF SaversHold
<1>5. minted \in Nat /\ lessons \subseteq 1..minted /\ studied \subseteq Users \X lessons
  BY <1>0 DEF StorefrontTypeOK
<1> DEFINE new == Cardinality(mem[r].keep \ lessons) + n
<1>6. new \in Nat
  <2>1. mem[r].keep \ lessons \subseteq 1..minted
    BY <1>0, <1>2 DEF KeptWereMinted, Remembering
  <2>2. IsFiniteSet(mem[r].keep \ lessons)
    <3>1. IsFiniteSet(1..minted)
      BY <1>5, FS_Interval
    <3> QED
      BY <2>1, <3>1, FS_Subset
  <2>3. Cardinality(mem[r].keep \ lessons) \in Nat
    BY <2>2, FS_CardinalityType
  <2> QED
    BY <2>3
<1>7. /\ lessons' = (lessons \ Dropped(r)) \union (minted + 1)..(minted + new)
      /\ minted' = minted + new /\ studied' = studied \ ProgressOn(Dropped(r))
  BY <1>2 DEF Synced, ProgressKept
<1> HIDE DEF new
<1>8. minted' \in Nat /\ minted <= minted' /\ lessons' \subseteq 1..minted'
  <2>1. minted' \in Nat /\ minted <= minted' /\ minted' = minted + new
    BY <1>5, <1>6, <1>7
  <2>2. (minted + 1)..(minted + new) \subseteq 1..minted'
    BY <1>5, <2>1
  <2>3. 1..minted \subseteq 1..minted'
    BY <1>5, <2>1
  <2> QED
    BY <1>5, <1>7, <2>1, <2>2, <2>3
<1>9. studied' \subseteq Users \X lessons'
  BY <1>5, <1>7 DEF ProgressOn
<1>10. StorefrontTypeOK'
  <2>1. overtaken' \subseteq Requests
    BY <1>0, <1>2 DEF StorefrontTypeOK, Commits, Reading
  <2>2. info' \in Nat /\ holder' \in Requests \union {Nothing}
    BY <1>0, <1>2 DEF StorefrontTypeOK
  <2> QED
    BY <1>0, <1>1, <1>3, <1>8, <1>9, <2>1, <2>2 DEF StorefrontTypeOK, LocalsOK
<1>11. KeptWereMinted'
  BY <1>0, <1>3, <1>5, <1>8, KeptStays DEF Remembering
<1>12. OrdersAreDone' /\ OrdersKeepCourse'
  BY <1>0, <1>1, <1>2, <1>3, OrdersStay
<1>13. NoCourseNoPosts' /\ RatingFollows'
  <2>1. RatingFollows'
    BY <1>0, <1>1, <1>2, <1>3, RatingStays
  <2> QED
    BY <1>1, <1>4, <2>1 DEF NoCourseNoPosts
<1>14. ReadersSee'
  BY <1>0, <1>2, <1>3, ReadersStay
<1>15. OldIsDropped'
  BY <1>3 DEF OldIsDropped, GoneOn
<1>16. SaversHold'
  <2>1. \A q \in Requests \ {r} : step[q] \notin {"check", "write"}
    BY <1>0, <1>4 DEF SaversHold
  <2> QED
    BY <1>0, <1>3, <2>1, SaversStay
<1> QED
  BY <1>10, <1>11, <1>12, <1>13, <1>14, <1>15, <1>16 DEF StorefrontInv

LEMMA DeleteStep ==
  ASSUME StorefrontInv, NEW r \in Requests, DeleteCourse(r)
  PROVE  StorefrontInv'
<1>0. /\ StorefrontTypeOK /\ KeptWereMinted /\ OrdersAreDone /\ OrdersKeepCourse
      /\ NoCourseNoPosts /\ ReadersSee /\ OldIsDropped /\ RatingFollows /\ SaversHold
  BY DEF StorefrontInv
<1>1. step[r] = "remove" /\ holder = Nothing
  BY DEF DeleteCourse
<1>2. CASE ~Deletable
  <2>1. Goes(r, "done") /\ Untouched
    BY <1>2 DEF DeleteCourse, Untouched, tables, rows, posts, sales, doubts
  <2> QED
    BY <1>1, <2>1, QuietEnd DEF StorefrontSteps, Remembering
<1>3. CASE Deletable
  <2>1. /\ GoesWith(r, "drop", mem[r]) /\ course' = "gone" /\ lessons' = {} /\ studied' = {}
        /\ reviews' = {} /\ replies' = {} /\ enrolled' = {} /\ rating' = {} /\ Commits
        /\ UNCHANGED <<info, minted, answers, users, orders, charged, purchased>>
        /\ UNCHANGED <<holder, cached, breaks, by, torn, crossed>>
        /\ orders = {}
    BY <1>3 DEF DeleteCourse, Goes, Deletable
  <2>2. LocalsOK' /\ GoneOn(r, "drop", mem[r])
    BY <1>0, <2>1, Moves DEF StorefrontSteps, Remembering, StorefrontTypeOK
  <2>3. StorefrontTypeOK'
    <3>1. overtaken' \subseteq Requests
      BY <1>0, <2>1 DEF StorefrontTypeOK, Commits, Reading
    <3> QED
      BY <1>0, <2>1, <2>2, <3>1 DEF StorefrontTypeOK, LocalsOK
  <2>4. KeptWereMinted'
    <3>1. minted \in Nat
      BY <1>0 DEF StorefrontTypeOK
    <3> QED
      BY <1>0, <2>1, <2>2, <3>1, KeptStays DEF Remembering
  <2>5. OrdersAreDone' /\ OrdersKeepCourse'
    BY <1>0, <2>1 DEF OrdersAreDone, PurchasedCountsOrders, OrdersKeepCourse
  <2>6. NoCourseNoPosts' /\ RatingFollows'
    BY <2>1 DEF NoCourseNoPosts, RatingFollows
  <2>7. ReadersSee'
    BY <1>0, <2>1, <2>2, ReadersStay
  <2>8. OldIsDropped'
    BY <2>2 DEF OldIsDropped, GoneOn
  <2>9. SaversHold'
    <3>1. \A q \in Requests : step[q] \notin {"check", "write"}
      BY <1>0, <1>1, HandlersAssumption DEF SaversHold
    <3> QED
      BY <1>0, <2>2, <3>1, SaversStay
  <2> QED
    BY <2>3, <2>4, <2>5, <2>6, <2>7, <2>8, <2>9 DEF StorefrontInv
<1> QED
  BY <1>2, <1>3

-----------------------------------------------------------------------------
\* Reviews, replies and accounts.

LEMMA ReviewStep ==
  ASSUME StorefrontInv, NEW r \in Requests, CreateReview(r)
  PROVE  StorefrontInv'
<1>0. /\ StorefrontTypeOK /\ KeptWereMinted /\ OrdersAreDone /\ OrdersKeepCourse
      /\ NoCourseNoPosts /\ ReadersSee /\ OldIsDropped /\ RatingFollows /\ SaversHold
  BY DEF StorefrontInv
<1>1. step[r] = "post"
  BY DEF CreateReview
<1>2. CASE ~(course = "live" /\ mem[r].who \in users)
  <2>1. Goes(r, "done") /\ Untouched
    BY <1>2 DEF CreateReview, Untouched, tables, posts, doubts
  <2> QED
    BY <1>1, <2>1, QuietEnd DEF StorefrontSteps, Remembering
<1>3. CASE course = "live" /\ mem[r].who \in users
  <2>1. /\ GoesWith(r, "average", Nothing) /\ reviews' = reviews \union {r}
        /\ by' = [by EXCEPT ![r] = mem[r].who] /\ Commits
        /\ UNCHANGED <<course, info, lessons, minted, studied, replies, answers>>
        /\ UNCHANGED <<rating, enrolled, users, orders, charged, purchased, holder>>
        /\ UNCHANGED <<cached, breaks, torn, crossed>>
    BY <1>3 DEF CreateReview, rows, sales
  <2>2. LocalsOK' /\ GoneOn(r, "average", Nothing)
    BY <1>0, <2>1, Moves DEF StorefrontSteps, Remembering
  <2>3. by' \in [Reviews -> Users] /\ \A q \in Requests \ {r} : by'[q] = by[q]
    BY <1>0, <1>3, <2>1 DEF StorefrontTypeOK, Reviews
  <2>4. StorefrontTypeOK'
    <3>1. overtaken' \subseteq Requests /\ reviews' \subseteq Reviews
      BY <1>0, <2>1 DEF StorefrontTypeOK, Commits, Reading, Reviews
    <3> QED
      BY <1>0, <2>1, <2>2, <2>3, <3>1 DEF StorefrontTypeOK, LocalsOK
  <2>5. KeptWereMinted'
    <3>1. minted \in Nat
      BY <1>0 DEF StorefrontTypeOK
    <3> QED
      BY <1>0, <2>1, <2>2, <3>1, KeptStays DEF Remembering
  <2>6. OrdersAreDone' /\ OrdersKeepCourse'
    BY <1>0, <1>1, <2>1, <2>2, <2>3, OrdersStay
  <2>7. NoCourseNoPosts'
    BY <1>3, <2>1 DEF NoCourseNoPosts
  <2>8. RatingFollows' /\ OldIsDropped'
    BY <1>3, <2>1, <2>2 DEF RatingFollows, OldIsDropped, GoneOn
  <2>9. ReadersSee'
    BY <1>0, <2>1, <2>2, ReadersStay
  <2>10. SaversHold'
    BY <1>0, <1>3, <2>1, <2>2, SaversStay
  <2> QED
    BY <2>4, <2>5, <2>6, <2>7, <2>8, <2>9, <2>10 DEF StorefrontInv
<1> QED
  BY <1>2, <1>3

LEMMA RateStep ==
  ASSUME StorefrontInv, NEW r \in Requests, Rate(r)
  PROVE  StorefrontInv'
<1>0. /\ StorefrontTypeOK /\ KeptWereMinted /\ OrdersAreDone /\ OrdersKeepCourse
      /\ NoCourseNoPosts /\ ReadersSee /\ OldIsDropped /\ RatingFollows /\ SaversHold
  BY DEF StorefrontInv
<1>1. step[r] = "rate" /\ holder = Nothing
  BY DEF Rate
<1>2. CASE course # "live"
  <2>1. Goes(r, "done") /\ Untouched
    BY <1>2 DEF Rate, Untouched, tables, sales, doubts
  <2> QED
    BY <1>1, <1>2, <2>1, QuietEnd DEF StorefrontSteps, Remembering
<1>3. CASE course = "live"
  <2>1. /\ GoesWith(r, "drop", Nothing) /\ rating' = mem[r].shown
        /\ crossed' = (mem[r].shown # reviews) /\ Commits
        /\ UNCHANGED <<course, info, lessons, minted, studied, reviews, replies, answers>>
        /\ UNCHANGED <<enrolled, users, orders, charged, purchased, holder>>
        /\ UNCHANGED <<cached, breaks, torn, by>>
    BY <1>3 DEF Rate, PurchasedAfterRating, rows, posts
  <2>2. LocalsOK' /\ GoneOn(r, "drop", Nothing)
    BY <1>0, <2>1, Moves DEF StorefrontSteps, Remembering
  <2>3. rating' \subseteq Reviews
    BY <1>0, <1>1, <2>1 DEF StorefrontTypeOK, Remembering, StorefrontMemory
  <2>4. StorefrontTypeOK'
    <3>1. overtaken' \subseteq Requests /\ crossed' \in BOOLEAN
      BY <1>0, <2>1 DEF StorefrontTypeOK, Commits, Reading
    <3> QED
      BY <1>0, <2>1, <2>2, <2>3, <3>1 DEF StorefrontTypeOK, LocalsOK
  <2>5. KeptWereMinted'
    <3>1. minted \in Nat
      BY <1>0 DEF StorefrontTypeOK
    <3> QED
      BY <1>0, <2>1, <2>2, <3>1, KeptStays DEF Remembering
  <2>6. OrdersAreDone' /\ OrdersKeepCourse'
    BY <1>0, <1>1, <2>1, <2>2, OrdersStay
  <2>7. NoCourseNoPosts' /\ RatingFollows'
    BY <1>3, <2>1 DEF NoCourseNoPosts, RatingFollows
  <2>8. OldIsDropped'
    BY <2>2 DEF OldIsDropped, GoneOn
  <2>9. ReadersSee'
    BY <1>0, <2>1, <2>2, ReadersStay
  <2>10. SaversHold'
    BY <1>0, <1>3, <2>1, <2>2, SaversStay
  <2> QED
    BY <2>4, <2>5, <2>6, <2>7, <2>8, <2>9, <2>10 DEF StorefrontInv
<1> QED
  BY <1>2, <1>3

LEMMA ReplyStep ==
  ASSUME StorefrontInv, NEW r \in Requests, CreateReply(r)
  PROVE  StorefrontInv'
<1>0. /\ StorefrontTypeOK /\ KeptWereMinted /\ OrdersAreDone /\ OrdersKeepCourse
      /\ NoCourseNoPosts /\ ReadersSee /\ OldIsDropped /\ RatingFollows /\ SaversHold
  BY DEF StorefrontInv
<1>1. step[r] = "reply"
  BY DEF CreateReply
<1>2. CASE ~(mem[r].who \in users /\ mem[r].shown \subseteq reviews)
  <2>1. Goes(r, "done") /\ Untouched
    BY <1>2 DEF CreateReply, Untouched, tables, posts, doubts
  <2> QED
    BY <1>1, <2>1, QuietEnd DEF StorefrontSteps, Remembering
<1>3. CASE mem[r].who \in users /\ mem[r].shown \subseteq reviews
  <2>1. PICK p \in mem[r].shown : answers' = [answers EXCEPT ![r] = p]
    BY <1>3 DEF CreateReply
  <2>2. /\ GoesWith(r, "drop", Nothing) /\ replies' = replies \union {r}
        /\ by' = [by EXCEPT ![r] = mem[r].who] /\ Commits
        /\ UNCHANGED <<course, info, lessons, minted, studied, reviews>>
        /\ UNCHANGED <<rating, enrolled, users, orders, charged, purchased, holder>>
        /\ UNCHANGED <<cached, breaks, torn, crossed>>
    BY <1>3 DEF CreateReply, AfterReply, rows, sales
  <2>3. LocalsOK' /\ GoneOn(r, "drop", Nothing)
    BY <1>0, <2>2, Moves DEF StorefrontSteps, Remembering
  <2>4. by' \in [Reviews -> Users] /\ \A q \in Requests \ {r} : by'[q] = by[q]
    BY <1>0, <1>3, <2>2 DEF StorefrontTypeOK, Reviews
  <2>5. answers' \in [Reviews -> Reviews]
    BY <1>0, <1>3, <2>1 DEF StorefrontTypeOK
  <2>6. StorefrontTypeOK'
    <3>1. overtaken' \subseteq Requests /\ replies' \subseteq Requests
      BY <1>0, <2>2 DEF StorefrontTypeOK, Commits, Reading
    <3> QED
      BY <1>0, <2>2, <2>3, <2>4, <2>5, <3>1 DEF StorefrontTypeOK, LocalsOK
  <2>7. KeptWereMinted'
    <3>1. minted \in Nat
      BY <1>0 DEF StorefrontTypeOK
    <3> QED
      BY <1>0, <2>2, <2>3, <3>1, KeptStays DEF Remembering
  <2>8. OrdersAreDone' /\ OrdersKeepCourse'
    BY <1>0, <1>1, <2>2, <2>3, <2>4, OrdersStay
  <2>9. NoCourseNoPosts'
    BY <1>0, <2>2 DEF NoCourseNoPosts
  <2>10. RatingFollows'
    BY <1>0, <1>1, <2>2, <2>3, RatingStays
  <2>11. OldIsDropped'
    BY <2>3 DEF OldIsDropped, GoneOn
  <2>12. ReadersSee'
    BY <1>0, <2>2, <2>3, ReadersStay
  <2>13. SaversHold'
    <3>1. \A q \in Requests : step[q] \in {"check", "write"} => course = "live"
      BY <1>0 DEF SaversHold
    <3> QED
      BY <1>0, <2>2, <2>3, <3>1, SaversStay
  <2> QED
    BY <2>6, <2>7, <2>8, <2>9, <2>10, <2>11, <2>12, <2>13 DEF StorefrontInv
<1> QED
  BY <1>2, <1>3

\* What deleting u takes away.
LEMMA Erasing ==
  ASSUME StorefrontTypeOK, NEW u, Erased(u), lessons' = lessons
  PROVE  /\ users' \subseteq Users /\ enrolled' \subseteq users'
         /\ studied' \subseteq Users \X lessons'
         /\ reviews' \subseteq reviews /\ reviews' \subseteq Reviews
         /\ replies' \subseteq Requests
         /\ \A v \in users' : v \in users /\ (v \in enrolled => v \in enrolled')
<1>1. /\ users \subseteq Users /\ enrolled \subseteq users /\ reviews \subseteq Reviews
      /\ studied \subseteq Users \X lessons /\ replies \subseteq Requests
  BY DEF StorefrontTypeOK
<1>2. /\ users' = users \ {u} /\ enrolled' = enrolled \ {u}
      /\ studied' \subseteq studied /\ reviews' \subseteq reviews /\ replies' \subseteq replies
  BY DEF Erased
<1> QED
  BY <1>1, <1>2

LEMMA QuietEraseStep ==
  ASSUME StorefrontInv, NEW r \in Requests, EraseQuietUser(r)
  PROVE  StorefrontInv'
<1>0. /\ StorefrontTypeOK /\ KeptWereMinted /\ OrdersAreDone /\ OrdersKeepCourse
      /\ NoCourseNoPosts /\ ReadersSee /\ OldIsDropped /\ RatingFollows /\ SaversHold
  BY DEF StorefrontInv
<1> DEFINE u == mem[r].who
           posted == ReviewsOf(u) \union RepliesOf(u)
<1>1. PICK to \in {"done", "drop"} :
        /\ step[r] = "erase" /\ GoesWith(r, to, Nothing)
        /\ to = "done" => mem[r].shown = {}
  BY DEF EraseQuietUser
<1>2. /\ Erased(u) /\ Commits
      /\ torn' = (torn \/ (cached # Nothing /\ posted # {} /\ mem[r].shown = {}))
      /\ crossed' = (crossed \/ ReviewsOf(u) # {})
      /\ UNCHANGED <<course, info, lessons, minted, answers, rating, orders, charged>>
      /\ UNCHANGED <<purchased, holder, cached, breaks, by>>
  BY DEF EraseQuietUser, rows
<1>3. LocalsOK' /\ GoneOn(r, to, Nothing)
  BY <1>0, <1>1, Moves DEF StorefrontSteps, Remembering
<1>4. /\ users' \subseteq Users /\ enrolled' \subseteq users'
      /\ studied' \subseteq Users \X lessons'
      /\ reviews' \subseteq reviews /\ reviews' \subseteq Reviews
      /\ replies' \subseteq Requests
      /\ \A v \in users' : v \in users /\ (v \in enrolled => v \in enrolled')
  BY <1>0, <1>2, Erasing
<1>5. /\ reviews' = reviews \ ReviewsOf(u)
      /\ replies' = replies \ (RepliesOf(u) \union RepliesOn(ReviewsOf(u)))
  BY <1>2 DEF Erased
<1> HIDE DEF u
<1>6. StorefrontTypeOK'
  <2>1. overtaken' \subseteq Requests
    BY <1>0, <1>2 DEF StorefrontTypeOK, Commits, Reading
  <2>2. torn' \in BOOLEAN /\ crossed' \in BOOLEAN
    BY <1>0, <1>2 DEF StorefrontTypeOK
  <2> QED
    BY <1>0, <1>2, <1>3, <1>4, <2>1, <2>2 DEF StorefrontTypeOK, LocalsOK
<1>7. KeptWereMinted'
  <2>1. minted \in Nat
    BY <1>0 DEF StorefrontTypeOK
  <2> QED
    BY <1>0, <1>1, <1>2, <1>3, <2>1, KeptStays DEF Remembering
<1>8. OrdersAreDone' /\ OrdersKeepCourse'
  BY <1>0, <1>1, <1>2, <1>3, <1>4, OrdersStay
<1>9. NoCourseNoPosts'
  BY <1>0, <1>2, <1>4 DEF NoCourseNoPosts
<1>10. RatingFollows'
  <2>1. CASE ReviewsOf(u) # {}
    BY <1>2, <2>1 DEF RatingFollows
  <2>2. CASE ReviewsOf(u) = {}
    BY <1>0, <1>1, <1>2, <1>3, <1>5, <2>2, RatingStays
  <2> QED
    BY <2>1, <2>2
<1>11. ReadersSee'
  BY <1>0, <1>1, <1>2, <1>3, ReadersStay
<1>12. OldIsDropped'
  <2>1. CASE to = "drop"
    BY <1>3, <2>1 DEF OldIsDropped, GoneOn
  <2>2. CASE to = "done"
    <3> SUFFICES ASSUME cached # Nothing, ~torn' PROVE OldIsDropped'
      BY <1>2 DEF OldIsDropped
    <3>1. ~torn /\ posted = {}
      BY <1>1, <1>2, <2>2
    <3>2. ReviewsOf(u) = {} /\ RepliesOf(u) = {}
      BY <3>1
    <3>3. reviews' = reviews /\ replies' = replies
      BY <1>5, <3>2 DEF RepliesOn
    <3>4. torn' = torn
      BY <1>0, <1>2, <3>1 DEF StorefrontTypeOK
    <3> QED
      BY <1>0, <1>1, <1>2, <1>3, <3>3, <3>4, OldStays
  <2> QED
    BY <2>1, <2>2
<1>13. SaversHold'
  <2>1. \A q \in Requests : step[q] \in {"check", "write"} => course = "live"
    BY <1>0 DEF SaversHold
  <2> QED
    BY <1>0, <1>1, <1>2, <1>3, <2>1, SaversStay
<1> QED
  BY <1>6, <1>7, <1>8, <1>9, <1>10, <1>11, <1>12, <1>13 DEF StorefrontInv

LEMMA SettleStep ==
  ASSUME StorefrontInv, NEW r \in Requests, SettleRating(r)
  PROVE  StorefrontInv'
<1>0. /\ StorefrontTypeOK /\ KeptWereMinted /\ OrdersAreDone /\ OrdersKeepCourse
      /\ NoCourseNoPosts /\ ReadersSee /\ OldIsDropped /\ RatingFollows /\ SaversHold
  BY DEF StorefrontInv
<1>1. step[r] = "settle" /\ holder = Nothing
  BY DEF SettleRating
<1>2. CASE course # "live"
  <2>1. Goes(r, "done") /\ Untouched
    BY <1>2 DEF SettleRating, Untouched, tables, posts, sales, doubts
  <2> QED
    BY <1>1, <2>1, QuietEnd DEF StorefrontSteps, Remembering
<1>3. CASE course = "live"
  <2> DEFINE u == mem[r].who
  <2>1. /\ GoesWith(r, "drop", Nothing) /\ Erased(u) /\ Commits
        /\ rating' = mem[r].shown /\ crossed' = (mem[r].shown # reviews')
        /\ UNCHANGED <<course, info, lessons, minted, answers, orders, charged>>
        /\ UNCHANGED <<purchased, holder, cached, breaks, by, torn>>
    BY <1>3 DEF SettleRating, AverageAfterErasing, rows
  <2>2. LocalsOK' /\ GoneOn(r, "drop", Nothing)
    BY <1>0, <2>1, Moves DEF StorefrontSteps, Remembering
  <2>3. /\ users' \subseteq Users /\ enrolled' \subseteq users'
        /\ studied' \subseteq Users \X lessons'
        /\ reviews' \subseteq reviews /\ reviews' \subseteq Reviews
        /\ replies' \subseteq Requests
        /\ \A v \in users' : v \in users /\ (v \in enrolled => v \in enrolled')
    BY <1>0, <2>1, Erasing
  <2>4. rating' \subseteq Reviews
    BY <1>0, <1>1, <2>1 DEF StorefrontTypeOK, Remembering, StorefrontMemory
  <2> HIDE DEF u
  <2>5. StorefrontTypeOK'
    <3>1. overtaken' \subseteq Requests /\ crossed' \in BOOLEAN
      BY <1>0, <2>1 DEF StorefrontTypeOK, Commits, Reading
    <3> QED
      BY <1>0, <2>1, <2>2, <2>3, <2>4, <3>1 DEF StorefrontTypeOK, LocalsOK
  <2>6. KeptWereMinted'
    <3>1. minted \in Nat
      BY <1>0 DEF StorefrontTypeOK
    <3> QED
      BY <1>0, <2>1, <2>2, <3>1, KeptStays DEF Remembering
  <2>7. OrdersAreDone' /\ OrdersKeepCourse'
    BY <1>0, <1>1, <2>1, <2>2, <2>3, OrdersStay
  <2>8. NoCourseNoPosts' /\ RatingFollows'
    BY <1>3, <2>1 DEF NoCourseNoPosts, RatingFollows
  <2>9. OldIsDropped'
    BY <2>2 DEF OldIsDropped, GoneOn
  <2>10. ReadersSee'
    BY <1>0, <2>1, <2>2, ReadersStay
  <2>11. SaversHold'
    BY <1>0, <1>3, <2>1, <2>2, SaversStay
  <2> QED
    BY <2>5, <2>6, <2>7, <2>8, <2>9, <2>10, <2>11 DEF StorefrontInv
<1> QED
  BY <1>2, <1>3

-----------------------------------------------------------------------------
\* Orders, enrollment, progress and breaks.

LEMMA BuyStep ==
  ASSUME StorefrontInv, NEW r \in Requests, Buy(r)
  PROVE  StorefrontInv'
<1>0. /\ StorefrontTypeOK /\ KeptWereMinted /\ OrdersAreDone /\ OrdersKeepCourse
      /\ NoCourseNoPosts /\ ReadersSee /\ OldIsDropped /\ RatingFollows /\ SaversHold
  BY DEF StorefrontInv
<1>1. step[r] = "buy"
  BY DEF Buy
<1>2. CASE ~(by[r] \in users /\ course = "live")
  <2>1. Goes(r, "done") /\ Untouched
    BY <1>2 DEF Buy, Untouched, tables, sales
  <2> QED
    BY <1>1, <2>1, QuietEnd DEF StorefrontSteps, Remembering
<1>3. CASE by[r] \in users /\ course = "live"
  <2>1. /\ GoesWith(r, "done", mem[r]) /\ orders' = orders \union {r}
        /\ enrolled' = enrolled \union {by[r]} /\ purchased' = purchased + 1
        /\ UNCHANGED <<course, info, lessons, minted, studied, reviews, replies, answers>>
        /\ UNCHANGED <<rating, users, charged, holder, cached, breaks, by>>
        /\ UNCHANGED <<overtaken, torn, crossed>>
    BY <1>3 DEF Buy, Goes, rows, posts, doubts
  <2>2. LocalsOK' /\ GoneOn(r, "done", mem[r])
    BY <1>0, <2>1, Moves DEF StorefrontSteps, Remembering, StorefrontTypeOK
  <2>3. StorefrontTypeOK'
    BY <1>0, <1>3, <2>1, <2>2 DEF StorefrontTypeOK, LocalsOK
  <2>4. KeptWereMinted'
    <3>1. minted \in Nat
      BY <1>0 DEF StorefrontTypeOK
    <3> QED
      BY <1>0, <2>1, <2>2, <3>1, KeptStays DEF Remembering
  <2>5. OrdersAreDone'
    <3>1. r \notin orders /\ IsFiniteSet(orders) /\ purchased = Cardinality(orders)
      BY <1>0, <1>1 DEF OrdersAreDone, PurchasedCountsOrders
    <3>2. IsFiniteSet(orders') /\ purchased' = Cardinality(orders')
      BY <2>1, <3>1, FS_AddElement
    <3>3. \A q \in orders' : step'[q] = "done"
      BY <1>0, <2>1, <2>2 DEF OrdersAreDone, GoneOn, StorefrontTypeOK
    <3> QED
      BY <3>2, <3>3 DEF OrdersAreDone, PurchasedCountsOrders
  <2>6. OrdersKeepCourse'
    BY <1>0, <1>3, <2>1 DEF OrdersKeepCourse
  <2>7. NoCourseNoPosts'
    BY <1>0, <2>1 DEF NoCourseNoPosts
  <2>8. RatingFollows' /\ OldIsDropped'
    BY <1>0, <1>1, <2>1, <2>2, RatingStays, OldStays
  <2>9. ReadersSee'
    BY <1>0, <2>1, <2>2, ReadersStay
  <2>10. SaversHold'
    BY <1>0, <1>3, <2>1, <2>2, SaversStay
  <2> QED
    BY <2>3, <2>4, <2>5, <2>6, <2>7, <2>8, <2>9, <2>10 DEF StorefrontInv
<1> QED
  BY <1>2, <1>3

LEMMA LearnerSteps ==
  ASSUME StorefrontInv, NEW u \in Users, EnrollFree(u) \/ \E l \in lessons : Study(u, l)
  PROVE  StorefrontInv'
<1>0. /\ StorefrontTypeOK /\ KeptWereMinted /\ OrdersAreDone /\ OrdersKeepCourse
      /\ NoCourseNoPosts /\ ReadersSee /\ OldIsDropped /\ RatingFollows /\ SaversHold
  BY DEF StorefrontInv
<1>1. /\ UNCHANGED <<course, info, lessons, minted, reviews, replies, answers>>
      /\ UNCHANGED <<rating, users, orders, charged, purchased, holder, cached>>
      /\ UNCHANGED <<step, mem, breaks, by, overtaken, torn, crossed>>
  BY DEF EnrollFree, Study, rows, posts, sales, doubts
<1>2. /\ enrolled \subseteq enrolled' /\ enrolled' \subseteq users
      /\ studied' \subseteq Users \X lessons
  BY <1>0 DEF EnrollFree, Study, sales, StorefrontTypeOK
<1>3. StorefrontTypeOK'
  BY <1>0, <1>1, <1>2 DEF StorefrontTypeOK
<1>4. /\ KeptWereMinted' /\ OrdersAreDone' /\ OrdersKeepCourse' /\ NoCourseNoPosts'
      /\ RatingFollows'
  BY <1>0, <1>1, <1>2
  DEF KeptWereMinted, OrdersAreDone, PurchasedCountsOrders, OrdersKeepCourse,
      NoCourseNoPosts, RatingFollows
<1>5. OldIsDropped'
  BY <1>0, <1>1 DEF OldIsDropped, Fresh, View
<1>6. ReadersSee' /\ SaversHold'
  BY <1>0, <1>1 DEF ReadersSee, Reading, Sees, SaversHold, Dropped
<1> QED
  BY <1>3, <1>4, <1>5, <1>6 DEF StorefrontInv

LEMMA BreakStep ==
  ASSUME StorefrontInv, NEW r \in Requests, BreakStorefront(r)
  PROVE  StorefrontInv'
<1>0. /\ StorefrontTypeOK /\ KeptWereMinted /\ OrdersAreDone /\ OrdersKeepCourse
      /\ NoCourseNoPosts /\ ReadersSee /\ OldIsDropped /\ RatingFollows /\ SaversHold
  BY DEF StorefrontInv
<1>1. /\ breaks < MaxBreaks /\ breaks' = breaks + 1 /\ GoesWith(r, "done", mem[r])
      /\ step[r] \in {"write", "drop", "average", "rate", "settle", "fill"}
      /\ holder' = IF holder = r THEN Nothing ELSE holder
      /\ torn' = (torn \/ (cached # Nothing /\ step[r] \in {"drop", "average", "rate"}))
      /\ crossed' = (crossed \/ step[r] \in {"average", "rate"})
      /\ overtaken' = overtaken \ {r}
  BY DEF BreakStorefront, Goes
<1>2. /\ UNCHANGED <<course, info, lessons, minted, studied, reviews, replies, answers>>
      /\ UNCHANGED <<rating, enrolled, users, orders, charged, purchased, cached, by>>
  BY DEF BreakStorefront, rows, posts, sales
<1>3. LocalsOK' /\ GoneOn(r, "done", mem[r])
  BY <1>0, <1>1, Moves DEF StorefrontSteps, Remembering, StorefrontTypeOK
<1>4. StorefrontTypeOK'
  <2>1. torn' \in BOOLEAN
    BY <1>1
  <2>2. crossed' \in BOOLEAN
    BY <1>1
  <2>3. breaks' \in 0..MaxBreaks
    BY <1>0, <1>1, HandlersAssumption DEF StorefrontTypeOK
  <2>4. holder' \in Requests \union {Nothing} /\ overtaken' \subseteq Requests
    BY <1>0, <1>1 DEF StorefrontTypeOK
  <2> QED
    BY <1>0, <1>2, <1>3, <2>1, <2>2, <2>3, <2>4 DEF StorefrontTypeOK, LocalsOK
<1>5. KeptWereMinted'
  <2>1. minted \in Nat
    BY <1>0 DEF StorefrontTypeOK
  <2> QED
    BY <1>0, <1>2, <1>3, <2>1, KeptStays DEF Remembering
<1>6. OrdersAreDone' /\ OrdersKeepCourse'
  BY <1>0, <1>1, <1>2, <1>3, OrdersStay
<1>7. NoCourseNoPosts'
  BY <1>0, <1>2 DEF NoCourseNoPosts
<1>8. RatingFollows'
  BY <1>0, <1>1, <1>2, <1>3, RatingStays
<1>9. ReadersSee'
  BY <1>0, <1>1, <1>2, <1>3, ReadersStay
<1>10. OldIsDropped'
  <2>1. CASE cached # Nothing /\ step[r] \in {"drop", "average", "rate"}
    BY <1>1, <2>1 DEF OldIsDropped
  <2>2. CASE cached = Nothing
    BY <1>2, <2>2 DEF OldIsDropped
  <2>3. CASE step[r] \notin {"drop", "average", "rate"}
    <3>1. torn' = torn
      BY <1>0, <1>1, <2>3 DEF StorefrontTypeOK
    <3> QED
      BY <1>0, <1>2, <1>3, <2>3, <3>1, OldStays
  <2> QED
    BY <2>1, <2>2, <2>3
<1>11. SaversHold'
  <2>1. \A q \in Requests \ {r} : step[q] \in {"check", "write"} =>
          holder' = holder /\ course = "live"
    BY <1>0, <1>1 DEF SaversHold
  <2> QED
    BY <1>0, <1>2, <1>3, <2>1, SaversStay
<1> QED
  BY <1>4, <1>5, <1>6, <1>7, <1>8, <1>9, <1>10, <1>11 DEF StorefrontInv

-----------------------------------------------------------------------------
\* The theorems.

LEMMA StorefrontInvInit == StorefrontInit => StorefrontInv
<1> SUFFICES ASSUME StorefrontInit PROVE StorefrontInv
  OBVIOUS
<1>1. /\ info = 0 /\ replies = {} /\ orders = {} /\ charged = {} /\ purchased = 0
      /\ users = Users /\ holder = Nothing /\ cached \in {Nothing, View}
      /\ overtaken = {} /\ torn = FALSE /\ crossed = FALSE /\ breaks \in 0..MaxBreaks
      /\ reviews = rating /\ enrolled \in {{}, {Learner}} /\ course \in {"unborn", "live"}
      /\ \A r \in Requests : step[r] \in {"free", "row"}
  BY DEF StorefrontInit
<1>2. /\ lessons \subseteq 1..minted /\ minted \in Nat /\ studied \subseteq Users \X lessons
      /\ course # "live" => lessons = {} /\ reviews = {} /\ cached = Nothing
      /\ reviews \subseteq Reviews
  BY StorefrontAssumption DEF StorefrontInit, Reviews
<1>3. View \in Views
  BY <1>1, <1>2 DEF View, Views, Lessons
<1>4. StorefrontTypeOK
  <2>1. /\ step \in [Requests -> StorefrontSteps]
        /\ mem \in [Requests -> StorefrontMemory \union {Nothing}]
        /\ by \in [Reviews -> Users] /\ answers \in [Reviews -> Reviews]
    BY StorefrontAssumption DEF StorefrontInit, StorefrontSteps
  <2>2. \A r \in Requests : step[r] \notin Remembering
    BY <1>1 DEF Remembering
  <2>3. cached \in Views \union {Nothing}
    BY <1>1, <1>3
  <2> HIDE DEF View
  <2> QED
    BY <1>1, <1>2, <2>1, <2>2, <2>3, StorefrontAssumption DEF StorefrontTypeOK
<1>5. KeptWereMinted /\ ReadersSee /\ SaversHold
  BY <1>1 DEF KeptWereMinted, Remembering, ReadersSee, Reading, SaversHold
<1>6. OrdersAreDone /\ OrdersKeepCourse
  BY <1>1, FS_EmptySet DEF OrdersAreDone, PurchasedCountsOrders, OrdersKeepCourse
<1>7. NoCourseNoPosts /\ RatingFollows
  BY <1>1, <1>2 DEF NoCourseNoPosts, RatingFollows
<1>8. OldIsDropped
  <2>1. cached = View => [cached EXCEPT !.purchased = purchased] = View
    BY DEF View
  <2> QED
    BY <1>1, <1>2, <2>1 DEF OldIsDropped, Fresh
<1> QED
  BY <1>4, <1>5, <1>6, <1>7, <1>8 DEF StorefrontInv

LEMMA StorefrontInvStep == StorefrontInv /\ [StorefrontNext]_storefrontVars => StorefrontInv'
<1> SUFFICES ASSUME StorefrontInv, [StorefrontNext]_storefrontVars PROVE StorefrontInv'
  OBVIOUS
<1>1. CASE UNCHANGED storefrontVars
  <2>1. /\ UNCHANGED <<course, info, lessons, minted, studied, reviews, replies, answers>>
        /\ UNCHANGED <<rating, enrolled, users, orders, charged, purchased, holder, cached>>
        /\ UNCHANGED <<step, mem, breaks, by, overtaken, torn, crossed>>
    BY <1>1 DEF storefrontVars, tables, rows, posts, sales, doubts
  <2>2. StorefrontTypeOK'
    BY <2>1 DEF StorefrontInv, StorefrontTypeOK
  <2>3. /\ KeptWereMinted' /\ OrdersAreDone' /\ OrdersKeepCourse' /\ NoCourseNoPosts'
        /\ RatingFollows'
    BY <2>1
    DEF StorefrontInv, KeptWereMinted, OrdersAreDone, PurchasedCountsOrders,
        OrdersKeepCourse, NoCourseNoPosts, RatingFollows
  <2>4. OldIsDropped'
    BY <2>1 DEF StorefrontInv, OldIsDropped, Fresh, View
  <2>5. ReadersSee' /\ SaversHold'
    BY <2>1 DEF StorefrontInv, ReadersSee, Reading, Sees, SaversHold, Dropped
  <2> QED
    BY <2>2, <2>3, <2>4, <2>5 DEF StorefrontInv
<1>2. ASSUME NEW r \in Requests, StorefrontHandler(r) PROVE StorefrontInv'
  <2>1. CASE \/ LookUpView(r) \/ ReadCourse(r) \/ ReadContent(r) \/ ReadReviews(r)
             \/ FillView(r) \/ DropView(r)
    BY <2>1, ViewReads, FillStep, DropStep
  <2>2. CASE \/ \E n \in 0..1 : UploadCourse(r, n) \/ CommitEdit(r, n)
             \/ UpdateCourse(r) \/ CheckProgress(r) \/ DeleteCourse(r)
    BY <2>2, UploadStep, CommitStep, SaverMoves, DeleteStep
  <2>3. CASE \/ OpenEditor(r) \/ Average(r)
             \/ \E u \in Users, p \in Reviews :
                  BeginReview(r, u) \/ BeginReply(r, u, p) \/ BeginLeave(r, u)
    <3>1. Learner \in Users /\ Old \in Reviews
      BY StorefrontAssumption DEF Reviews
    <3> QED
      BY <2>3, <3>1, Beginnings
  <2>4. CASE \/ BeginEdit(r) \/ BeginDelete(r) \/ CountOrders(r) \/ EraseUser(r)
             \/ \E u \in Users : Charge(r, u) \/ OrderFree(r, u)
             \/ CheckOrder(r) \/ ConfirmByMail(r)
    BY <2>4, StorefrontAssumption, QuietSteps
  <2>5. CASE \/ CreateReview(r) \/ Rate(r) \/ CreateReply(r) \/ EraseQuietUser(r)
             \/ SettleRating(r) \/ Buy(r) \/ BreakStorefront(r)
    BY <2>5, ReviewStep, RateStep, ReplyStep, QuietEraseStep, SettleStep, BuyStep, BreakStep
  <2>6. (\E u \in Users : BeginReview(r, u) \/ BeginLeave(r, u))
        => \E u \in Users, p \in Reviews :
             BeginReview(r, u) \/ BeginReply(r, u, p) \/ BeginLeave(r, u)
    BY DEF Reviews
  <2> QED
    BY <1>2, <2>1, <2>2, <2>3, <2>4, <2>5, <2>6 DEF StorefrontHandler
<1> QED
  BY <1>1, <1>2, ExpireStep, LearnerSteps DEF StorefrontNext, RestStorefront

\* The course keeps its types, for any requests and accounts.
THEOREM StorefrontTypeCorrect == StorefrontSpec => []StorefrontTypeOK
<1>1. StorefrontInv => StorefrontTypeOK
  BY DEF StorefrontInv
<1> QED
  BY <1>1, StorefrontInvInit, StorefrontInvStep, PTL DEF StorefrontSpec

\* However saves, reviews, orders, deletions and reads overlap and fail, the
\* derived columns, the foreign keys and the cached view agree with the rows
\* (courses.service, orders.service, users.service).
THEOREM ShopStaysConsistent == StorefrontSpec => []ShopIsConsistent
<1>1. StorefrontInv => ShopIsConsistent
  <2> SUFFICES ASSUME StorefrontInv PROVE ShopIsConsistent
    OBVIOUS
  <2>1. ViewStaleForACause
    BY DEF StorefrontInv, ViewStaleForACause, OldIsDropped, Fresh, Dropping
  <2>2. RatingAverages
    BY DEF StorefrontInv, RatingAverages, RatingFollows, Dropping
  <2> QED
    BY <2>1, <2>2 DEF StorefrontInv, OrdersAreDone, ShopIsConsistent
<1> QED
  BY <1>1, StorefrontInvInit, StorefrontInvStep, PTL DEF StorefrontSpec

\* A save that was not confirmed never deletes progress that its transaction
\* had seen (syncCourseContent).
THEOREM SavesSpareProgress == StorefrontSpec => UnconfirmedSavesSpareProgress
<1> DEFINE Spared ==
      \A r \in Requests :
        step[r] = "write" /\ step'[r] = "drop" /\ mem[r].manner = "careful" =>
          mem[r].seen \intersect (studied \ studied') = {}
<1>1. StorefrontInv /\ [StorefrontNext]_storefrontVars => [Spared]_storefrontVars
  <2> SUFFICES ASSUME StorefrontInv, StorefrontNext, NEW r \in Requests,
                      step[r] = "write", step'[r] = "drop", mem[r].manner = "careful"
               PROVE  mem[r].seen \intersect (studied \ studied') = {}
    OBVIOUS
  <2>1. step \in [Requests -> StorefrontSteps] /\ step'[r] # step[r]
    BY DEF StorefrontInv, StorefrontTypeOK
  <2>2. PICK s \in Requests : StorefrontHandler(s)
    BY <2>1 DEF StorefrontNext, RestStorefront, storefrontVars, EnrollFree, Study, ExpireView
  <2>3. PICK to, m : GoesWith(s, to, m)
    BY <2>2
    DEF StorefrontHandler, Goes, LookUpView, ReadCourse, ReadContent, ReadReviews, FillView,
        DropView, UploadCourse, OpenEditor, BeginEdit, UpdateCourse, CheckProgress,
        CommitEdit, BeginDelete, CountOrders, DeleteCourse, BeginReview, CreateReview,
        Average, Rate, BeginReply, CreateReply, BeginLeave, EraseUser, EraseQuietUser,
        SettleRating, Charge, OrderFree, CheckOrder, ConfirmByMail, Buy, BreakStorefront
  <2>4. s = r
    BY <2>1, <2>3 DEF GoesWith
  <2>5. PICK n \in 0..1 : CommitEdit(r, n)
    <3>1. ~BreakStorefront(r)
      BY <2>1 DEF BreakStorefront, Goes, GoesWith
    <3> QED
      BY <2>2, <2>4, <3>1
      DEF StorefrontHandler, LookUpView, ReadCourse, ReadContent, ReadReviews, FillView,
          DropView, UploadCourse, OpenEditor, BeginEdit, UpdateCourse, CheckProgress,
          BeginDelete, CountOrders, DeleteCourse, BeginReview, CreateReview, Average, Rate,
          BeginReply, CreateReply, BeginLeave, EraseUser, EraseQuietUser, SettleRating,
          Charge, OrderFree, CheckOrder, ConfirmByMail, Buy
  <2>6. studied' = studied \ ProgressOn(Dropped(r))
    BY <2>5 DEF CommitEdit, Synced, ProgressKept
  <2>7. \A p \in mem[r].seen : p[2] \notin Dropped(r)
    BY DEF StorefrontInv, SaversHold
  <2> QED
    BY <2>6, <2>7 DEF ProgressOn
<1> QED
  BY <1>1, StorefrontInvInit, StorefrontInvStep, PTL
  DEF StorefrontSpec, UnconfirmedSavesSpareProgress
=============================================================================
