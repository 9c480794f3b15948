----------------------- MODULE CredentialOutboxProofs -----------------------
(***************************************************************************)
(* Safety of the credential outbox for any number of learners, courses,    *)
(* credentials, API instances and concurrent requests.                     *)
(***************************************************************************)
EXTENDS CredentialOutbox, TLAPS

\* A request that is about to look at, or write, a row has chosen one.
RequestCursor ==
  \A r \in Requests : step[r] \in {"consented", "absent"}
                        => target[r] \in Credentials

\* A drain that claimed a row knows which, and the attempts findMany read
\* leave room for one more.
DrainCursor ==
  \A i \in Instances :
    /\ Publishing(i) => claimed[i] \in Credentials
    /\ \A c \in Credentials : seen[i][c] < MaxAttempts

TypeInv == TypeOK /\ RequestCursor /\ DrainCursor /\ RetryBudget

LEMMA TypeInit == Init => TypeInv
BY OutboxAssumption
DEF Init, TypeInv, TypeOK, RequestCursor, DrainCursor, RetryBudget,
    Publishing, Statuses, Outcomes, Steps, Phases, Attempts, NoAttempts

\* Where the three request variables stay within their types, so does a
\* request that leaves the body of the enqueue loop.
LEMMA NextInLoopTypes ==
  ASSUME TypeInv, NEW r \in Requests, NEW c, NextInLoop(r, c)
  PROVE  /\ step' \in [Requests -> Steps]
         /\ todo' \in [Requests -> SUBSET Credentials]
         /\ target' \in [Requests -> Credentials \union {NoCred}]
         /\ RequestCursor'
<1> USE DEF TypeInv, TypeOK, NextInLoop
<1>1. step' \in [Requests -> Steps]
  BY DEF Steps
<1>2. todo' \in [Requests -> SUBSET Credentials]
  OBVIOUS
<1>3. target' \in [Requests -> Credentials \union {NoCred}]
  OBVIOUS
<1>4. RequestCursor'
  BY DEF RequestCursor
<1>5. QED BY <1>1, <1>2, <1>3, <1>4

\* Writing an outcome keeps the table within its types and the budget.
LEMMA SettleTypes ==
  ASSUME TypeInv, NEW c \in Credentials, NEW o, NEW n \in 1..MaxAttempts,
         Settle(c, o, n)
  PROVE  /\ status' \in [Credentials -> Statuses]
         /\ attempts' \in [Credentials -> Attempts]
         /\ due' \subseteq Credentials
         /\ RetryBudget'
<1> USE OutboxAssumption DEF TypeInv, TypeOK, RetryBudget, Attempts
<1>1. CASE o = "published"
  BY <1>1 DEF Settle, Statuses
<1>2. CASE o = "skipped"
  BY <1>2 DEF Settle, Statuses
<1>3. CASE o = "failed"
  <2>1. status' = [status EXCEPT ![c] =
                     IF n >= MaxAttempts THEN "failed" ELSE "pending"]
    BY <1>3 DEF Settle, GivesUp
  <2>2. attempts' = [attempts EXCEPT ![c] = n] /\ due' = due \ {c}
    BY <1>3 DEF Settle
  <2>3. status' \in [Credentials -> Statuses]
    BY <2>1 DEF Statuses
  <2>4. attempts' \in [Credentials -> Attempts]
    BY <2>2
  <2>5. RetryBudget'
    BY <2>1, <2>2
  <2>6. QED BY <2>2, <2>3, <2>4, <2>5
<1>4. QED BY <1>1, <1>2, <1>3 DEF Settle

\* Each step keeps the types and the retry budget.
LEMMA TypeNext == TypeInv /\ [Next]_vars => TypeInv'
<1> SUFFICES ASSUME TypeInv, [Next]_vars PROVE TypeInv'
  OBVIOUS
<1> USE OutboxAssumption
    DEF TypeInv, TypeOK, RequestCursor, DrainCursor, RetryBudget, Publishing,
        Statuses, Outcomes, Steps, Phases, Attempts,
        rowVars, worldVars, reqVars, drainVars, boundVars
<1>1. ASSUME NEW r \in Requests, NewRequest(r) PROVE TypeInv'
  <2> USE DEF Begin, CredsOf, CredsIn
  <2>1. ASSUME NEW c \in Credentials, CompleteLesson(r, c) PROVE TypeInv'
    BY <2>1 DEF CompleteLesson
  <2>2. ASSUME NEW l \in Learners, GrantConsent(r, l) PROVE TypeInv'
    BY <2>2 DEF GrantConsent
  <2>3. ASSUME NEW l \in Learners, WithdrawConsent(r, l) PROVE TypeInv'
    BY <2>3 DEF WithdrawConsent
  <2>4. ASSUME NEW l \in Learners, SignInWithBluesky(r, l) PROVE TypeInv'
    BY <2>4 DEF SignInWithBluesky
  <2>5. ASSUME NEW k \in Courses,
               NEW lessonRefs \in SUBSET (CredsIn(k) \ CourseCreds),
               RegisterCourseRefs(r, k, lessonRefs) PROVE TypeInv'
    BY <2>5 DEF RegisterCourseRefs
  <2>6. ASSUME NEW k \in Courses, PublishToAtmosphere(r, k) PROVE TypeInv'
    BY <2>6 DEF PublishToAtmosphere
  <2>7. QED BY <1>1, <2>1, <2>2, <2>3, <2>4, <2>5, <2>6 DEF NewRequest
<1>2. ASSUME NEW r \in Requests, RequestStep(r) PROVE TypeInv'
  <2> USE DEF OnlyRequest, End, Put
  <2>1. CASE ReadEarned(r)
    BY <2>1 DEF ReadEarned, EarnedAmong
  <2>2. ASSUME NEW c \in Credentials, ReadConsent(r, c) PROVE TypeInv'
    <3>1. CASE NextInLoop(r, c)
      BY <2>2, <3>1, NextInLoopTypes DEF ReadConsent
    <3>2. CASE /\ step' = [step EXCEPT ![r] = "consented"]
               /\ target' = [target EXCEPT ![r] = c]
               /\ UNCHANGED todo
      BY <2>2, <3>2 DEF ReadConsent
    <3>3. QED BY <2>2, <3>1, <3>2 DEF ReadConsent
  <2>3. CASE ReadExisting(r)
    <3>1. CASE NextInLoop(r, target[r])
      BY <2>3, <3>1, NextInLoopTypes DEF ReadExisting
    <3>2. CASE /\ step' = [step EXCEPT ![r] = "absent"]
               /\ UNCHANGED <<todo, target>>
      BY <2>3, <3>2 DEF ReadExisting
    <3>3. QED BY <2>3, <3>1, <3>2 DEF ReadExisting
  <2>4. CASE UpsertPending(r)
    BY <2>4, NextInLoopTypes DEF UpsertPending
  <2>5. CASE EnqueueDone(r)
    BY <2>5 DEF EnqueueDone
  <2>6. CASE CancelPending(r)
    BY <2>6 DEF CancelPending
  <2>7. CASE RequeueSkipped(r)
    BY <2>7 DEF RequeueSkipped
  <2>8. QED
    BY <1>2, <2>1, <2>2, <2>3, <2>4, <2>5, <2>6, <2>7
    DEF RequestStep, EnqueueStep
<1>3. ASSUME NEW r \in Requests, DropRequest(r) PROVE TypeInv'
  BY <1>3 DEF DropRequest, End
<1>4. ASSUME NEW i \in Instances, RunDrain(i) PROVE TypeInv'
  BY <1>4 DEF RunDrain, OnlyDrain
<1>5. ASSUME NEW i \in Instances, DrainStep(i) PROVE TypeInv'
  <2> USE DEF OnlyDrain, Answer, Put
  <2>1. CASE ReclaimStale(i)
    BY <2>1 DEF ReclaimStale, StaleRows
  <2>2. CASE SelectDue(i)
    BY <2>2 DEF SelectDue
  <2>3. ASSUME NEW c \in batch[i], Claim(i, c) PROVE TypeInv'
    <3>1. c \in Credentials
      OBVIOUS
    <3>2. batch' \in [Instances -> SUBSET Credentials]
      BY <2>3 DEF Claim
    <3>3. CASE Claimable(c)
      <4> HIDE DEF TypeInv, TypeOK, DrainCursor, RetryBudget, Statuses, Phases
      <4>1. /\ status' = [status EXCEPT ![c] = "processing"]
            /\ phase' = [phase EXCEPT ![i] = "load"]
            /\ claimed' = [claimed EXCEPT ![i] = c]
            /\ aged' = aged \ {c}
            /\ UNCHANGED <<worldVars, repo, attempts, withdrawn, due, reqVars,
                           seen, outcome, again, boundVars, overtaken>>
        BY <2>3, <3>3 DEF Claim
      <4>2. status' \in [Credentials -> Statuses]
        BY <3>1, <4>1 DEF TypeInv, TypeOK, Statuses
      <4>3. phase' \in [Instances -> Phases]
        BY <4>1 DEF TypeInv, TypeOK, Phases
      <4>4. claimed' \in [Instances -> Credentials \union {NoCred}]
        BY <3>1, <4>1 DEF TypeInv, TypeOK
      <4>5. RetryBudget'
        BY <3>1, <3>3, <4>1 DEF TypeInv, TypeOK, RetryBudget, Claimable
      <4>6. DrainCursor'
        BY <3>1, <4>1 DEF TypeInv, TypeOK, DrainCursor, Publishing
      <4>7. QED
        BY <3>2, <4>1, <4>2, <4>3, <4>4, <4>5, <4>6 DEF TypeInv, TypeOK
    <3>4. CASE ~ Claimable(c)
      BY <2>3, <3>2, <3>4 DEF Claim
    <3>5. QED BY <3>3, <3>4
  <2>4. CASE LoadContext(i)
    BY <2>4 DEF LoadContext
  <2>5. CASE PutRecord(i)
    BY <2>5 DEF PutRecord
  <2>6. CASE RecordOutcome(i)
    <3>1. /\ claimed[i] \in Credentials
          /\ seen[i][claimed[i]] + 1 \in 1..MaxAttempts
      BY <2>6 DEF RecordOutcome
    <3>2. /\ status' \in [Credentials -> Statuses]
          /\ attempts' \in [Credentials -> Attempts]
          /\ due' \subseteq Credentials
          /\ RetryBudget'
      BY <2>6, <3>1, SettleTypes DEF RecordOutcome
    <3>3. /\ phase' \in [Instances -> Phases]
          /\ claimed' \in [Instances -> Credentials \union {NoCred}]
          /\ outcome' \in [Instances -> Outcomes]
          /\ DrainCursor'
      BY <2>6 DEF RecordOutcome
    <3>4. QED BY <2>6, <3>2, <3>3 DEF RecordOutcome
  <2>7. CASE FinishDrain(i)
    BY <2>7 DEF FinishDrain, NoAttempts
  <2>8. QED
    BY <1>5, <2>1, <2>2, <2>3, <2>4, <2>5, <2>6, <2>7 DEF DrainStep
<1>6. ASSUME NEW i \in Instances, AbortDrain(i) PROVE TypeInv'
  BY <1>6 DEF AbortDrain, NoAttempts
<1>7. ASSUME NEW l \in Learners, LoseSession(l) PROVE TypeInv'
  BY <1>7 DEF LoseSession
<1>8. ASSUME NEW c \in Credentials, CompleteOnRead(c) \/ Clock(c) PROVE TypeInv'
  BY <1>8 DEF CompleteOnRead, Clock, BackoffElapses, GrowStale
<1>9. CASE UNCHANGED vars
  BY <1>9 DEF vars
<1>10. QED
  BY <1>1, <1>2, <1>3, <1>4, <1>5, <1>6, <1>7, <1>8, <1>9 DEF Next

LEMMA TypeInvariance == Spec => []TypeInv
BY TypeInit, TypeNext, PTL DEF Spec

\* Every variable keeps its type, whatever the order of requests, drains,
\* crashes and clock ticks.
THEOREM TypeCorrect == Spec => []TypeOK
BY TypeInvariance, PTL DEF TypeInv

\* A row that may be tried again has attempts left, and one given up has used
\* them all, although drains count on from attempts they read earlier.
THEOREM RetriesAreBounded == Spec => []RetryBudget
BY TypeInvariance, PTL DEF TypeInv

-----------------------------------------------------------------------------
\* PublishedIsRecorded is inductive together with what a drain knows between
\* putRecord and the update of the row.
PublishedInv ==
  /\ PublishedIsRecorded
  /\ \A i \in Instances :
       phase[i] = "record" /\ outcome[i] = "published" => claimed[i] \in repo

LEMMA PublishedNext ==
  TypeInv /\ PublishedInv /\ [Next]_vars => PublishedInv'
<1> SUFFICES ASSUME TypeInv, PublishedInv, [Next]_vars PROVE PublishedInv'
  OBVIOUS
<1> USE DEF TypeInv, TypeOK, PublishedInv, PublishedIsRecorded,
            rowVars, drainVars
<1>1. ASSUME NEW r \in Requests, NewRequest(r) PROVE PublishedInv'
  BY <1>1 DEF NewRequest, CompleteLesson, GrantConsent, WithdrawConsent,
              SignInWithBluesky, RegisterCourseRefs,
              PublishToAtmosphere, Begin
<1>2. ASSUME NEW r \in Requests, RequestStep(r) PROVE PublishedInv'
  <2>1. CASE UpsertPending(r)
    BY <2>1 DEF UpsertPending
  <2>2. CASE CancelPending(r)
    BY <2>2 DEF CancelPending, Put
  <2>3. CASE RequeueSkipped(r)
    BY <2>3 DEF RequeueSkipped, Put
  <2>4. CASE \/ ReadEarned(r) \/ ReadExisting(r) \/ EnqueueDone(r)
             \/ \E c \in Credentials : ReadConsent(r, c)
    BY <2>4 DEF ReadEarned, ReadExisting, EnqueueDone, ReadConsent, OnlyRequest
  <2>5. QED
    BY <1>2, <2>1, <2>2, <2>3, <2>4 DEF RequestStep, EnqueueStep
<1>3. ASSUME NEW i \in Instances, DrainStep(i) PROVE PublishedInv'
  <2>1. CASE ReclaimStale(i)
    BY <2>1 DEF ReclaimStale, StaleRows, Put
  <2>2. CASE SelectDue(i)
    BY <2>2 DEF SelectDue, OnlyDrain
  <2>3. ASSUME NEW c \in batch[i], Claim(i, c) PROVE PublishedInv'
    BY <2>3 DEF Claim, Claimable
  <2>4. CASE LoadContext(i)
    BY <2>4 DEF LoadContext, Answer, OnlyDrain
  <2>5. CASE PutRecord(i)
    BY <2>5 DEF PutRecord, Answer
  <2>6. CASE RecordOutcome(i)
    BY <2>6 DEF RecordOutcome, Settle, GivesUp
  <2>7. CASE FinishDrain(i)
    BY <2>7 DEF FinishDrain, OnlyDrain
  <2>8. QED
    BY <1>3, <2>1, <2>2, <2>3, <2>4, <2>5, <2>6, <2>7 DEF DrainStep
<1>4. ASSUME NEW i \in Instances, RunDrain(i) \/ AbortDrain(i)
      PROVE PublishedInv'
  BY <1>4 DEF RunDrain, AbortDrain, OnlyDrain
<1>5. CASE \/ \E r \in Requests : DropRequest(r)
           \/ \E l \in Learners : LoseSession(l)
           \/ \E c \in Credentials : CompleteOnRead(c) \/ Clock(c)
           \/ UNCHANGED vars
  BY <1>5 DEF DropRequest, LoseSession, CompleteOnRead, Clock, BackoffElapses,
              GrowStale, vars
<1>6. QED
  BY <1>1, <1>2, <1>3, <1>4, <1>5 DEF Next

\* A row that says "published" has its record in the learner's repository.
THEOREM PublishedHasRecord == Spec => []PublishedIsRecorded
<1>1. Init => PublishedInv
  BY DEF Init, PublishedInv, PublishedIsRecorded
<1>2. QED
  BY <1>1, PublishedNext, TypeInvariance, PTL DEF Spec, PublishedInv

-----------------------------------------------------------------------------
\* ExclusiveClaim is inductive together with what a claim means: as long as
\* nobody took it away, the row of a publishing drain says "processing".
ClaimInv ==
  /\ ExclusiveClaim
  /\ \A c \in Credentials \ overtaken : \A i \in Instances :
       Publishing(i) /\ claimed[i] = c => status[c] = "processing"

LEMMA ClaimNext == TypeInv /\ ClaimInv /\ [Next]_vars => ClaimInv'
<1> SUFFICES ASSUME TypeInv, ClaimInv, [Next]_vars PROVE ClaimInv'
  OBVIOUS
<1> USE DEF TypeInv, TypeOK, ClaimInv, ExclusiveClaim, Publishing,
            rowVars, drainVars
<1>1. ASSUME NEW r \in Requests, NewRequest(r) PROVE ClaimInv'
  BY <1>1 DEF NewRequest, CompleteLesson, GrantConsent, WithdrawConsent,
              SignInWithBluesky, RegisterCourseRefs,
              PublishToAtmosphere, Begin
<1>2. ASSUME NEW r \in Requests, RequestStep(r) PROVE ClaimInv'
  <2>1. CASE UpsertPending(r)
    BY <2>1 DEF UpsertPending, Held
  <2>2. CASE CancelPending(r)
    BY <2>2 DEF CancelPending, Put
  <2>3. CASE RequeueSkipped(r)
    BY <2>3 DEF RequeueSkipped, Put
  <2>4. CASE \/ ReadEarned(r) \/ ReadExisting(r) \/ EnqueueDone(r)
             \/ \E c \in Credentials : ReadConsent(r, c)
    BY <2>4 DEF ReadEarned, ReadExisting, EnqueueDone, ReadConsent, OnlyRequest
  <2>5. QED
    BY <1>2, <2>1, <2>2, <2>3, <2>4 DEF RequestStep, EnqueueStep
<1>3. ASSUME NEW i \in Instances, DrainStep(i) PROVE ClaimInv'
  <2>1. CASE ReclaimStale(i)
    BY <2>1 DEF ReclaimStale, StaleRows, Put, Held
  <2>2. CASE SelectDue(i)
    BY <2>2 DEF SelectDue, OnlyDrain
  <2>3. ASSUME NEW c \in batch[i], Claim(i, c) PROVE ClaimInv'
    <3>1. CASE Claimable(c)
      <4>1. /\ status' = [status EXCEPT ![c] = "processing"]
            /\ phase' = [phase EXCEPT ![i] = "load"]
            /\ claimed' = [claimed EXCEPT ![i] = c]
            /\ UNCHANGED overtaken
        BY <2>3, <3>1 DEF Claim
      <4>2. \A j \in Instances :
              c \notin overtaken => ~ (Publishing(j) /\ claimed[j] = c)
        BY <3>1 DEF Claimable
      <4>3. QED BY <4>1, <4>2
    <3>2. CASE ~ Claimable(c)
      BY <2>3, <3>2 DEF Claim
    <3>3. QED BY <3>1, <3>2
  <2>4. CASE LoadContext(i)
    <3>1. /\ phase[i] = "load"
          /\ \E ph \in {"put", "record"} : phase' = [phase EXCEPT ![i] = ph]
          /\ UNCHANGED <<status, claimed, overtaken>>
      BY <2>4 DEF LoadContext, Answer, OnlyDrain
    <3>2. QED BY <3>1
  <2>5. CASE PutRecord(i)
    BY <2>5 DEF PutRecord, Answer
  <2>6. CASE RecordOutcome(i)
    BY <2>6 DEF RecordOutcome, Settle, GivesUp
  <2>7. CASE FinishDrain(i)
    BY <2>7 DEF FinishDrain, OnlyDrain
  <2>8. QED
    BY <1>3, <2>1, <2>2, <2>3, <2>4, <2>5, <2>6, <2>7 DEF DrainStep
<1>4. ASSUME NEW i \in Instances, RunDrain(i) \/ AbortDrain(i)
      PROVE ClaimInv'
  <2>1. UNCHANGED <<status, overtaken>>
    BY <1>4 DEF RunDrain, AbortDrain, OnlyDrain
  <2>2. CASE RunDrain(i)
    <3>1. /\ UNCHANGED claimed
          /\ \/ UNCHANGED phase
             \/ phase' = [phase EXCEPT ![i] = "reclaim"]
      BY <2>2 DEF RunDrain
    <3>2. QED BY <2>1, <3>1
  <2>3. CASE AbortDrain(i)
    <3>1. /\ phase' = [phase EXCEPT ![i] = "idle"]
          /\ claimed' = [claimed EXCEPT ![i] = NoCred]
      BY <2>3 DEF AbortDrain
    <3>2. QED BY <2>1, <3>1
  <2>4. QED BY <1>4, <2>2, <2>3
<1>5. CASE \/ \E r \in Requests : DropRequest(r)
           \/ \E l \in Learners : LoseSession(l)
           \/ \E c \in Credentials : CompleteOnRead(c) \/ Clock(c)
           \/ UNCHANGED vars
  BY <1>5 DEF DropRequest, LoseSession, CompleteOnRead, Clock, BackoffElapses,
              GrowStale, vars
<1>6. QED
  BY <1>1, <1>2, <1>3, <1>4, <1>5 DEF Next

\* Two drains publish the same credential at the same time only after its
\* row was reclaimed as stale, or re-enqueued, under the first of them.
THEOREM ClaimsAreExclusive == Spec => []ExclusiveClaim
<1>1. Init => ClaimInv
  BY DEF Init, ClaimInv, ExclusiveClaim, Publishing
<1>2. QED
  BY <1>1, ClaimNext, TypeInvariance, PTL DEF Spec, ClaimInv

-----------------------------------------------------------------------------
\* RecordsAreTracked needs that only earned credentials enter the queue, and
\* that a drain works on rows that exist.
TrackInv ==
  /\ \A c \in Credentials : status[c] # "none" => c \in earned
  /\ \A c \in repo : status[c] # "none"
  /\ \A r \in Requests :
       /\ step[r] \in {"enqueue", "consented", "absent"}
            => todo[r] \subseteq earned
       /\ step[r] \in {"consented", "absent"} => target[r] \in earned
  /\ \A i \in Instances :
       /\ \A c \in batch[i] : status[c] # "none"
       /\ Publishing(i) => status[claimed[i]] # "none"

LEMMA TrackNext == TypeInv /\ TrackInv /\ [Next]_vars => TrackInv'
<1> SUFFICES ASSUME TypeInv, TrackInv, [Next]_vars PROVE TrackInv'
  OBVIOUS
<1> USE DEF TypeInv, TypeOK, TrackInv, Publishing, DrainCursor, RequestCursor,
            rowVars, drainVars, reqVars, worldVars
<1>1. ASSUME NEW r \in Requests, NewRequest(r) PROVE TrackInv'
  BY <1>1 DEF NewRequest, CompleteLesson, GrantConsent, WithdrawConsent,
              SignInWithBluesky, RegisterCourseRefs,
              PublishToAtmosphere, Begin
<1>2. ASSUME NEW r \in Requests, RequestStep(r) PROVE TrackInv'
  <2>1. CASE UpsertPending(r)
    BY <2>1 DEF UpsertPending, NextInLoop
  <2>2. CASE CancelPending(r)
    BY <2>2 DEF CancelPending, Put, End
  <2>3. CASE RequeueSkipped(r)
    BY <2>3 DEF RequeueSkipped, Put, End
  <2>4. CASE ReadEarned(r) \/ EnqueueDone(r)
    <3>1. CASE ReadEarned(r)
      BY <3>1 DEF ReadEarned, EarnedAmong, OnlyRequest
    <3>2. CASE EnqueueDone(r)
      BY <3>2 DEF EnqueueDone, End, OnlyRequest
    <3>3. QED BY <2>4, <3>1, <3>2
  <2>5. CASE ReadExisting(r)
    BY <2>5 DEF ReadExisting, NextInLoop, OnlyRequest
  <2>6. ASSUME NEW c \in Credentials, ReadConsent(r, c) PROVE TrackInv'
    BY <2>6 DEF ReadConsent, NextInLoop, OnlyRequest
  <2>7. QED
    BY <1>2, <2>1, <2>2, <2>3, <2>4, <2>5, <2>6 DEF RequestStep, EnqueueStep
<1>3. ASSUME NEW i \in Instances, DrainStep(i) PROVE TrackInv'
  <2>1. CASE ReclaimStale(i)
    BY <2>1 DEF ReclaimStale, StaleRows, Put
  <2>2. CASE SelectDue(i)
    BY <2>2 DEF SelectDue, OnlyDrain
  <2>3. ASSUME NEW c \in batch[i], Claim(i, c) PROVE TrackInv'
    BY <2>3 DEF Claim, Claimable
  <2>4. CASE LoadContext(i)
    BY <2>4 DEF LoadContext, Answer, OnlyDrain
  <2>5. CASE PutRecord(i)
    BY <2>5 DEF PutRecord, Answer
  <2>6. CASE RecordOutcome(i)
    BY <2>6 DEF RecordOutcome, Settle, GivesUp
  <2>7. CASE FinishDrain(i)
    BY <2>7 DEF FinishDrain, OnlyDrain
  <2>8. QED
    BY <1>3, <2>1, <2>2, <2>3, <2>4, <2>5, <2>6, <2>7 DEF DrainStep
<1>4. ASSUME NEW i \in Instances, RunDrain(i) \/ AbortDrain(i)
      PROVE TrackInv'
  BY <1>4 DEF RunDrain, AbortDrain, OnlyDrain
<1>5. CASE \/ \E r \in Requests : DropRequest(r)
           \/ \E l \in Learners : LoseSession(l)
           \/ \E c \in Credentials : CompleteOnRead(c) \/ Clock(c)
           \/ UNCHANGED vars
  BY <1>5 DEF DropRequest, End, LoseSession, CompleteOnRead, Clock,
              BackoffElapses, GrowStale,
              vars
<1>6. QED
  BY <1>1, <1>2, <1>3, <1>4, <1>5 DEF Next

\* A record in a learner's repository is one the learner earned and whose
\* row can be queried.
THEOREM RecordsTracked == Spec => []RecordsAreTracked
<1>1. Init => TrackInv
  BY DEF Init, TrackInv, Publishing
<1>2. TypeInv /\ TrackInv => RecordsAreTracked
  BY DEF TypeInv, TypeOK, TrackInv, RecordsAreTracked
<1>3. QED
  BY <1>1, <1>2, TrackNext, TypeInvariance, PTL DEF Spec

-----------------------------------------------------------------------------
LEMMA LedgerMove ==
  ASSUME NEW c \in Credentials,
         Ledger!Ask(c) \/ Ledger!Record(c) \/ Ledger!Confirm(c) \/ Ledger!Doubt(c)
  PROVE  [Ledger!LedgerNext]_Ledger!ledgerVars
BY DEF Ledger!LedgerNext

\* Each step of the outbox is a step of the ledger, or leaves it as it was.
LEMMA LedgerStep ==
  TypeInv /\ PublishedInv /\ TrackInv /\ [Next]_vars
    => [Ledger!LedgerNext]_Ledger!ledgerVars
<1> SUFFICES ASSUME TypeInv, PublishedInv, TrackInv, [Next]_vars
             PROVE [Ledger!LedgerNext]_Ledger!ledgerVars
  OBVIOUS
<1> DEFINE asked == {c \in Credentials : status[c] # "none"}
           confirmed == {c \in Credentials : status[c] = "published"}
           Stutter == UNCHANGED <<asked, repo, confirmed>>
<1> USE DEF TypeInv, TypeOK, rowVars, drainVars
<1>1. Stutter => [Ledger!LedgerNext]_Ledger!ledgerVars
  BY DEF Ledger!ledgerVars
<1>2. ASSUME NEW r \in Requests, RequestStep(r)
      PROVE [Ledger!LedgerNext]_Ledger!ledgerVars
  <2>1. CASE UpsertPending(r)
    <3>1. PICK c \in Credentials : c = target[r]
      BY <2>1 DEF UpsertPending, RequestCursor
    <3>2. status' = [status EXCEPT ![c] = "pending"] /\ UNCHANGED repo
      BY <2>1, <3>1 DEF UpsertPending
    <3>3. Ledger!Ask(c) \/ Ledger!Doubt(c)
      BY <3>2 DEF Ledger!Ask, Ledger!Doubt
    <3>4. QED BY <3>3, LedgerMove
  <2>2. CASE CancelPending(r)
    BY <1>1, <2>2 DEF CancelPending, Put
  <2>3. CASE RequeueSkipped(r)
    BY <1>1, <2>3 DEF RequeueSkipped, Put
  <2>4. CASE \/ ReadEarned(r) \/ ReadExisting(r) \/ EnqueueDone(r)
             \/ \E c \in Credentials : ReadConsent(r, c)
    BY <1>1, <2>4
    DEF ReadEarned, ReadExisting, EnqueueDone, ReadConsent, OnlyRequest
  <2>5. QED
    BY <1>2, <2>1, <2>2, <2>3, <2>4 DEF RequestStep, EnqueueStep
<1>3. ASSUME NEW i \in Instances, DrainStep(i)
      PROVE [Ledger!LedgerNext]_Ledger!ledgerVars
  <2>1. CASE ReclaimStale(i)
    BY <1>1, <2>1 DEF ReclaimStale, StaleRows, Put
  <2>2. CASE SelectDue(i) \/ LoadContext(i) \/ FinishDrain(i)
    BY <1>1, <2>2 DEF SelectDue, LoadContext, FinishDrain, OnlyDrain
  <2>3. ASSUME NEW c \in batch[i], Claim(i, c)
        PROVE [Ledger!LedgerNext]_Ledger!ledgerVars
    BY <1>1, <2>3 DEF Claim, Claimable
  <2>4. CASE PutRecord(i)
    <3>1. PICK c \in Credentials : c = claimed[i]
      BY <2>4 DEF PutRecord, DrainCursor, Publishing
    <3>2. /\ c \in asked /\ UNCHANGED status
          /\ repo' = repo \/ repo' = repo \union {c}
      BY <2>4, <3>1 DEF PutRecord, TrackInv, Publishing
    <3>3. CASE repo' = repo
      BY <1>1, <3>2, <3>3
    <3>4. CASE repo' = repo \union {c}
      <4>1. Ledger!Record(c)
        BY <3>2, <3>4 DEF Ledger!Record
      <4>2. QED BY <4>1, LedgerMove
    <3>5. QED BY <3>2, <3>3, <3>4
  <2>5. CASE RecordOutcome(i)
    <3>1. PICK c \in Credentials : c = claimed[i]
      BY <2>5 DEF RecordOutcome, DrainCursor, Publishing
    <3>2. /\ c \in asked /\ UNCHANGED repo
          /\ outcome[i] = "published" => c \in repo
      BY <2>5, <3>1 DEF RecordOutcome, TrackInv, PublishedInv, Publishing
    <3>3. CASE outcome[i] = "published"
      <4>1. status' = [status EXCEPT ![c] = "published"]
        BY <2>5, <3>1, <3>3 DEF RecordOutcome, Settle
      <4>2. Ledger!Confirm(c)
        BY <3>2, <3>3, <4>1 DEF Ledger!Confirm
      <4>3. QED BY <4>2, LedgerMove
    <3>4. CASE outcome[i] # "published"
      <4>1. \E st \in {"skipped", "failed", "pending"} :
              status' = [status EXCEPT ![c] = st]
        BY <2>5, <3>1, <3>4 DEF RecordOutcome, Settle
      <4>2. Ledger!Doubt(c)
        BY <3>2, <4>1 DEF Ledger!Doubt
      <4>3. QED BY <4>2, LedgerMove
    <3>5. QED BY <3>3, <3>4
  <2>6. QED
    BY <1>3, <2>1, <2>2, <2>3, <2>4, <2>5 DEF DrainStep
<1>4. CASE \/ \E r \in Requests : NewRequest(r) \/ DropRequest(r)
           \/ \E i \in Instances : RunDrain(i) \/ AbortDrain(i)
           \/ \E l \in Learners : LoseSession(l)
           \/ \E c \in Credentials : CompleteOnRead(c) \/ Clock(c)
           \/ UNCHANGED vars
  BY <1>1, <1>4
  DEF NewRequest, CompleteLesson, GrantConsent, WithdrawConsent,
      SignInWithBluesky, RegisterCourseRefs,
              PublishToAtmosphere, Begin, DropRequest, RunDrain,
      AbortDrain, OnlyDrain, LoseSession, CompleteOnRead, Clock,
      BackoffElapses, GrowStale, vars
<1>5. QED
  BY <1>2, <1>3, <1>4 DEF Next

\* The outbox implements the credential ledger: a record is written only for
\* a credential that was asked for, "published" is said only of a record
\* that is there, and records never disappear.
THEOREM OutboxImplementsLedger == Spec => LedgerSpec
<1>1. Init => Ledger!LedgerInit
  BY DEF Init, Ledger!LedgerInit
<1>2. Init => PublishedInv /\ TrackInv
  BY DEF Init, PublishedInv, PublishedIsRecorded, TrackInv, Publishing
<1>3. QED
  BY <1>1, <1>2, LedgerStep, PublishedNext, TrackNext, TypeInvariance, PTL
  DEF Spec, LedgerSpec, Ledger!LedgerSpec

-----------------------------------------------------------------------------
\* A request that will come to queue c, or to look at its row.
Owes(r, c) ==
  step[r] \in {"granted", "enqueue", "consented", "absent"} /\ c \in todo[r]

\* As long as no request was cut short, each credential that is earned, with
\* consent, and not queued is owed by a request, unless getProgress found its
\* course completed and nobody read that since.
OwedInv ==
  dropped = {} =>
    \A c \in earned \ silent :
      Owner[c] \in consent /\ status[c] = "none" => \E r \in Requests : Owes(r, c)

LEMMA OwedNext == TypeInv /\ OwedInv /\ [Next]_vars => OwedInv'
<1> SUFFICES ASSUME TypeInv, OwedInv, [Next]_vars PROVE OwedInv'
  OBVIOUS
<1>t. /\ status \in [Credentials -> Statuses] /\ earned \subseteq Credentials
      /\ step \in [Requests -> Steps] /\ todo \in [Requests -> SUBSET Credentials]
  BY DEF TypeInv, TypeOK
\* Nobody earns (but in silence) or consents, no row goes, and who drops a
\* credential has found its row, or no consent.
<1>s. ASSUME earned' \ silent' \subseteq earned \ silent,
             consent' \subseteq consent, dropped' = dropped,
             \A c \in Credentials : status'[c] = "none" => status[c] = "none",
             \A r \in Requests, c \in earned :
               Owes(r, c) => \/ Owes(r, c)' \/ status'[c] # "none"
                             \/ Owner[c] \notin consent'
      PROVE  OwedInv'
  BY <1>s, <1>t DEF OwedInv
<1>u. ASSUME UNCHANGED <<earned, silent, consent, dropped, step, todo>>,
             \A c \in Credentials : status'[c] = "none" => status[c] = "none"
      PROVE  OwedInv'
  BY <1>u, <1>s DEF Owes
\* A new request in a free slot owes what it begins with.
<1>n. ASSUME NEW r \in Requests, NEW st \in Steps, NEW S \in SUBSET Credentials,
             Begin(r, st, S)
      PROVE  /\ \A q \in Requests, c \in Credentials : Owes(q, c) => Owes(q, c)'
             /\ st \in {"granted", "enqueue"} => \A c \in S : Owes(r, c)'
             /\ UNCHANGED <<status, dropped>>
  BY <1>n, <1>t DEF Begin, Owes, rowVars
<1>1. ASSUME NEW r \in Requests, NewRequest(r) PROVE OwedInv'
  <2> USE DEF CredsOf, CredsIn, Steps
  <2>1. ASSUME NEW c \in Credentials, CompleteLesson(r, c) PROVE OwedInv'
    <3>1. /\ Begin(r, "enqueue", {c}) /\ consent' = consent
          /\ earned' = earned \union {c} /\ silent' = silent \ {c}
      BY <2>1 DEF CompleteLesson
    <3> QED
      BY <3>1, <1>n, <1>t DEF OwedInv
  <2>2. ASSUME NEW l \in Learners, GrantConsent(r, l) PROVE OwedInv'
    <3>1. /\ Begin(r, "granted", CredsOf(l)) /\ consent' = consent \union {l}
          /\ UNCHANGED <<earned, silent>>
      BY <2>2 DEF GrantConsent
    <3> QED
      BY <3>1, <1>n, <1>t DEF OwedInv
  <2>3. ASSUME NEW st \in {"cancel", "requeue"}, NEW S \in SUBSET Credentials, Begin(r, st, S),
               consent' \subseteq consent, UNCHANGED <<earned, silent>>
        PROVE  OwedInv'
    BY <2>3, <1>n, <1>s, <1>t
  <2> QED
    BY <1>1, <2>1, <2>2, <2>3
       DEF NewRequest, WithdrawConsent, SignInWithBluesky, RegisterCourseRefs,
           PublishToAtmosphere
<1>2. ASSUME NEW r \in Requests, RequestStep(r) PROVE OwedInv'
  <2>1. CASE ReadEarned(r)
    <3>1. /\ step[r] = "granted" /\ silent' = silent \ todo[r]
          /\ step' = [step EXCEPT ![r] = "enqueue"]
          /\ todo' = [todo EXCEPT ![r] = todo[r] \intersect earned]
          /\ UNCHANGED <<consent, earned, status, dropped>>
      BY <2>1, <1>t DEF ReadEarned, EarnedAmong, boundVars, rowVars
    <3>2. \A c \in earned : c \in todo[r] => Owes(r, c)'
      BY <3>1, <1>t DEF Owes
    <3>3. \A q \in Requests, c \in earned : Owes(q, c) => Owes(q, c)'
      BY <3>1, <1>t DEF Owes
    <3> QED
      BY <3>1, <3>2, <3>3, <1>t DEF OwedInv
  <2>2. ASSUME NEW c \in Credentials, ReadConsent(r, c) PROVE OwedInv'
    BY <2>2, <1>s, <1>t DEF ReadConsent, NextInLoop, OnlyRequest, worldVars, boundVars, rowVars,
                            Owes
  <2>3. CASE ReadExisting(r)
    BY <2>3, <1>s, <1>t DEF ReadExisting, NextInLoop, OnlyRequest, worldVars, boundVars, rowVars,
                            Owes
  <2>4. CASE UpsertPending(r)
    BY <2>4, <1>s, <1>t DEF UpsertPending, NextInLoop, worldVars, boundVars, Owes
  <2>5. CASE EnqueueDone(r)
    BY <2>5, <1>s, <1>t DEF EnqueueDone, End, OnlyRequest, worldVars, boundVars, rowVars, Owes
  <2>6. CASE CancelPending(r)
    BY <2>6, <1>s, <1>t DEF CancelPending, End, Put, worldVars, boundVars, Owes
  <2>7. CASE RequeueSkipped(r)
    BY <2>7, <1>s, <1>t DEF RequeueSkipped, End, Put, worldVars, boundVars, Owes
  <2> QED
    BY <1>2, <2>1, <2>2, <2>3, <2>4, <2>5, <2>6, <2>7 DEF RequestStep, EnqueueStep
<1>3. ASSUME NEW r \in Requests, DropRequest(r) PROVE OwedInv'
  BY <1>3 DEF DropRequest, OwedInv
<1>4. ASSUME NEW i \in Instances, DrainStep(i) PROVE OwedInv'
  <2>1. UNCHANGED <<earned, silent, consent, dropped, step, todo>>
    BY <1>4 DEF DrainStep, ReclaimStale, SelectDue, Claim, LoadContext, PutRecord, RecordOutcome,
                FinishDrain, OnlyDrain, worldVars, boundVars, reqVars
  <2>2. CASE ReclaimStale(i)
    BY <2>1, <2>2, <1>u, <1>t DEF ReclaimStale, Put
  <2>3. ASSUME NEW c \in batch[i], Claim(i, c) PROVE OwedInv'
    BY <2>1, <2>3, <1>u, <1>t DEF Claim
  <2>4. CASE RecordOutcome(i)
    BY <2>1, <2>4, <1>u, <1>t DEF RecordOutcome, Settle
  <2>5. CASE SelectDue(i) \/ LoadContext(i) \/ PutRecord(i) \/ FinishDrain(i)
    BY <2>1, <2>5, <1>u DEF SelectDue, LoadContext, PutRecord, FinishDrain, OnlyDrain, rowVars
  <2> QED
    BY <1>4, <2>2, <2>3, <2>4, <2>5 DEF DrainStep
<1>5. CASE \/ \E i \in Instances : RunDrain(i) \/ AbortDrain(i)
           \/ \E l \in Learners : LoseSession(l)
           \/ \E c \in Credentials : CompleteOnRead(c) \/ Clock(c)
           \/ UNCHANGED vars
  <2>1. ASSUME NEW c \in Credentials, CompleteOnRead(c) PROVE OwedInv'
    BY <2>1, <1>s, <1>t DEF CompleteOnRead, Owes, rowVars, reqVars
  <2> QED
    BY <1>5, <2>1, <1>u
     DEF RunDrain, OnlyDrain, AbortDrain, LoseSession, Clock, BackoffElapses, GrowStale, vars,
         worldVars, boundVars, reqVars, rowVars
<1> QED
  BY <1>1, <1>2, <1>3, <1>4, <1>5 DEF Next

\* When every request has run to its end, and none was cut short, a learner who
\* opted in has a row for each credential earned, whatever overlapped with what:
\* but not for a course that getProgress alone found completed, which nobody
\* enqueues before an opt-in reads it.
THEOREM NoCredentialIsMissed == Spec => []NoCredentialMissed
<1>1. Init => OwedInv
  BY DEF Init, OwedInv
<1>2. OwedInv => NoCredentialMissed
  BY DEF OwedInv, NoCredentialMissed, Owes
<1> QED
  BY <1>1, <1>2, OwedNext, TypeInvariance, PTL DEF Spec
=============================================================================
