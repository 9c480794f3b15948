-------------------------- MODULE CredentialOutbox --------------------------
(***************************************************************************)
(* The credential outbox of apps/api (modules/credentials): one row per    *)
(* earned credential, filled and cancelled by HTTP requests and emptied by *)
(* the drain loop of every API instance, which writes app.civic.progress   *)
(* records into the learner's own ATProto repository.                      *)
(*                                                                         *)
(* Every database statement is one step, and so is every call to the PDS:  *)
(* the handlers await between them, so requests and drains interleave      *)
(* there.  A step may be the last one of its handler (crash, database      *)
(* error): see DropRequest and AbortDrain.                                 *)
(***************************************************************************)
EXTENDS Integers, FiniteSets

CONSTANTS
  Learners, Courses,
  Credentials,    \* the rows' keys, userId:courseId:lessonId|"course"
  Owner,          \* the learner of a credential
  CourseOf,       \* the course of a credential
  CourseCreds,    \* the course-level credentials, those without a lessonId
  Instances,      \* API processes, each with its own drain loop
  Requests,       \* HTTP requests in flight at the same time
  MaxAttempts,    \* MAX_ATTEMPTS
  DrainBatch,     \* DRAIN_BATCH
  MaxRequests,    \* bound: requests that are ever started
  MaxCrashes,     \* bound: requests and drains cut short
  NoCred          \* no credential selected

ASSUME OutboxAssumption ==
  /\ Owner \in [Credentials -> Learners]
  /\ CourseOf \in [Credentials -> Courses]
  /\ CourseCreds \subseteq Credentials
  /\ MaxAttempts \in Nat \ {0}
  /\ DrainBatch \in Nat \ {0}
  /\ MaxRequests \in Nat
  /\ MaxCrashes \in Nat
  /\ NoCred \notin Credentials

VARIABLES
  consent,    \* learners with credentialsConsent
  earned,     \* credentials whose lesson or enrollment is marked completed
  silent,     \* history: earned courses that nobody was to enqueue yet
  sessions,   \* learners with a DID and a usable OAuth session of that DID
  refs,       \* credentials whose course has an AT-URI, and for a lesson a
              \* LessonRef, with refs that pass the lexicon
  repo        \* credentials with a record in their owner's repository

\* The CredentialPublication table, by key.
VARIABLES
  status, attempts,
  withdrawn,  \* rows whose lastError is "consent withdrawn"
  due,        \* rows with nextAttemptAt <= now
  aged        \* rows in processing, not updated for STALE_PROCESSING_MS

\* The requests: where each is, the credentials it has still to treat and
\* the one it is at.
VARIABLES step, todo, target

\* The drain loops: where each is, the credentials of the batch it has still
\* to claim, the attempts findMany read for them, the credential it claimed,
\* the outcome of its publication, and the loops that will go round again.
VARIABLES phase, batch, seen, claimed, outcome, again

VARIABLES
  requests,   \* how many requests were started
  crashes,    \* how many requests and drains were cut short
  dropped,    \* history: requests that were cut short
  overtaken   \* history: rows taken from a drain that was still publishing

worldVars == <<consent, earned, silent, sessions, refs>>
rowVars   == <<status, attempts, withdrawn, due, aged>>
reqVars   == <<step, todo, target>>
drainVars == <<phase, batch, seen, claimed, outcome, again>>
boundVars == <<requests, crashes, dropped>>
vars == <<worldVars, repo, rowVars, reqVars, drainVars, boundVars, overtaken>>

Statuses == {"none", "pending", "processing", "published", "skipped", "failed"}
Outcomes == {"unknown", "published", "skipped", "failed"}
Steps    == {"idle", "granted", "enqueue", "consented", "absent",
             "cancel", "requeue"}
Phases   == {"idle", "reclaim", "select", "claim", "load", "put", "record"}

Attempts   == 0..MaxAttempts
NoAttempts == [c \in Credentials |-> 0]

TypeOK ==
  /\ consent \subseteq Learners /\ sessions \subseteq Learners
  /\ earned \subseteq Credentials /\ silent \subseteq Credentials
  /\ refs \subseteq Credentials /\ repo \subseteq Credentials
  /\ status \in [Credentials -> Statuses]
  /\ attempts \in [Credentials -> Attempts]
  /\ withdrawn \subseteq Credentials
  /\ due \subseteq Credentials /\ aged \subseteq Credentials
  /\ step \in [Requests -> Steps]
  /\ todo \in [Requests -> SUBSET Credentials]
  /\ target \in [Requests -> Credentials \union {NoCred}]
  /\ phase \in [Instances -> Phases]
  /\ batch \in [Instances -> SUBSET Credentials]
  /\ seen \in [Instances -> [Credentials -> Attempts]]
  /\ claimed \in [Instances -> Credentials \union {NoCred}]
  /\ outcome \in [Instances -> Outcomes]
  /\ again \subseteq Instances
  /\ requests \in 0..MaxRequests /\ crashes \in 0..MaxCrashes
  /\ dropped \subseteq Requests /\ overtaken \subseteq Credentials

\* Lessons may be completed, courses published and learners signed in before
\* anyone opts in; nothing is queued until then.  A course has lesson refs
\* only if it has an AT-URI.
Init ==
  /\ consent = {} /\ sessions \in SUBSET Learners
  /\ earned \in SUBSET Credentials /\ silent = {}
  /\ refs \in SUBSET Credentials
  /\ \A c \in refs : {d \in CourseCreds : CourseOf[d] = CourseOf[c]} \subseteq refs
  /\ repo = {}
  /\ status = [c \in Credentials |-> "none"] /\ attempts = NoAttempts
  /\ withdrawn = {} /\ due = {} /\ aged = {}
  /\ step = [r \in Requests |-> "idle"]
  /\ todo = [r \in Requests |-> {}]
  /\ target = [r \in Requests |-> NoCred]
  /\ phase = [i \in Instances |-> "idle"]
  /\ batch = [i \in Instances |-> {}]
  /\ seen = [i \in Instances |-> NoAttempts]
  /\ claimed = [i \in Instances |-> NoCred]
  /\ outcome = [i \in Instances |-> "unknown"]
  /\ again = {}
  /\ requests = 0 /\ crashes = 0 /\ dropped = {} /\ overtaken = {}

-----------------------------------------------------------------------------
\* Helpers

CredsOf(l) == {c \in Credentials : Owner[c] = l}
CredsIn(k) == {c \in Credentials : CourseOf[c] = k}

\* A drain that claimed a row and has not written its outcome yet.
Publishing(i) == phase[i] \in {"load", "put", "record"}
Held(c) == \E i \in Instances : Publishing(i) /\ claimed[i] = c

\* f with the value v at every element of S.
Put(f, S, v) == [x \in DOMAIN f |-> IF x \in S THEN v ELSE f[x]]

\* A new request takes a free slot and continues at s with its work list.
Begin(r, s, creds) ==
  /\ step[r] = "idle"
  /\ requests < MaxRequests
  /\ requests' = requests + 1
  /\ step' = [step EXCEPT ![r] = s]
  /\ todo' = [todo EXCEPT ![r] = creds]
  /\ UNCHANGED <<target, crashes, dropped, repo, rowVars, drainVars, overtaken>>

\* What a step of a request that touches no row leaves alone.
OnlyRequest ==
  UNCHANGED <<worldVars, repo, rowVars, drainVars, boundVars, overtaken>>

\* The handler of r is over.
End(r) ==
  /\ step' = [step EXCEPT ![r] = "idle"]
  /\ todo' = [todo EXCEPT ![r] = {}]
  /\ target' = [target EXCEPT ![r] = NoCred]

\* enqueueCredential of c returns; the loop over todo goes on.
NextInLoop(r, c) ==
  /\ step' = [step EXCEPT ![r] = "enqueue"]
  /\ todo' = [todo EXCEPT ![r] = @ \ {c}]
  /\ target' = [target EXCEPT ![r] = NoCred]

\* Mutant of EarnedAmong: every lesson of the learner's courses is queued.
AllAmong(creds) == creds

EarnedAmong(creds) == creds \intersect earned

-----------------------------------------------------------------------------
\* Requests

\* recordLessonProgress: the lesson (or the course with it) is completed and
\* the enqueue runs in the background.  Two concurrent player pings may both
\* find the lesson incomplete, so it can happen more than once.
CompleteLesson(r, c) ==
  /\ Begin(r, "enqueue", {c})
  /\ earned' = earned \union {c}
  /\ silent' = silent \ {c}
  /\ UNCHANGED <<consent, sessions, refs>>

\* getProgress finds every lesson of the course satisfied, the last one by its
\* quiz, say, and marks the enrollment completed: nothing is enqueued, and
\* the reports to come find the course completed already.
CompleteOnRead(c) ==
  /\ c \in CourseCreds \ earned
  /\ requests < MaxRequests
  /\ requests' = requests + 1
  /\ earned' = earned \union {c}
  /\ silent' = silent \union {c}
  /\ UNCHANGED <<consent, sessions, refs, repo, rowVars, reqVars, drainVars,
                 crashes, dropped, overtaken>>

\* updateCredentialsConsent { enabled: true }: the user row first ...
GrantConsent(r, l) ==
  /\ Begin(r, "granted", CredsOf(l))
  /\ consent' = consent \union {l}
  /\ UNCHANGED <<earned, silent, sessions, refs>>

\* ... then enqueueAllEarnedCredentials reads what is completed by now.
ReadEarned(r) ==
  /\ step[r] = "granted"
  /\ step' = [step EXCEPT ![r] = "enqueue"]
  /\ todo' = [todo EXCEPT ![r] = EarnedAmong(@)]
  /\ silent' = silent \ todo[r]
  /\ UNCHANGED <<consent, earned, sessions, refs, repo, rowVars, target,
                 drainVars, boundVars, overtaken>>

\* enqueueCredential, first await: does the learner consent?
ReadConsent(r, c) ==
  /\ step[r] = "enqueue"
  /\ c \in todo[r]
  /\ \/ /\ Owner[c] \in consent
        /\ step' = [step EXCEPT ![r] = "consented"]
        /\ target' = [target EXCEPT ![r] = c]
        /\ UNCHANGED todo
     \/ /\ Owner[c] \notin consent
        /\ NextInLoop(r, c)
  /\ OnlyRequest

\* Second await: an already published credential is left alone.
ReadExisting(r) ==
  /\ step[r] = "consented"
  /\ \/ /\ status[target[r]] = "published"
        /\ NextInLoop(r, target[r])
     \/ /\ status[target[r]] # "published"
        /\ step' = [step EXCEPT ![r] = "absent"]
        /\ UNCHANGED <<todo, target>>
  /\ OnlyRequest

\* Third await: the upsert, whatever the row has become meanwhile.  The kick
\* that follows is RunDrain, which the timer may call at any time anyway.
UpsertPending(r) ==
  /\ step[r] = "absent"
  /\ LET c == target[r] IN
       /\ status' = [status EXCEPT ![c] = "pending"]
       /\ attempts' = [attempts EXCEPT ![c] = 0]
       /\ withdrawn' = withdrawn \ {c}
       /\ due' = due \union {c}
       /\ aged' = aged \ {c}
       /\ overtaken' = IF Held(c) THEN overtaken \union {c} ELSE overtaken
       /\ NextInLoop(r, c)
  /\ UNCHANGED <<worldVars, repo, drainVars, boundVars>>

\* Mutant of EnqueueDone: the loop returns after any credential.
EnqueueLeavesLoop(r) ==
  /\ step[r] = "enqueue"
  /\ End(r) /\ OnlyRequest

EnqueueDone(r) ==
  /\ step[r] = "enqueue"
  /\ todo[r] = {}
  /\ End(r) /\ OnlyRequest

\* updateCredentialsConsent { enabled: false }: the user row first ...
WithdrawConsent(r, l) ==
  /\ Begin(r, "cancel", CredsOf(l))
  /\ consent' = consent \ {l}
  /\ UNCHANGED <<earned, silent, sessions, refs>>

\* ... then cancelPendingCredentials, one updateMany.
CancelPending(r) ==
  /\ step[r] = "cancel"
  /\ LET hit == {c \in todo[r] : status[c] \in {"pending", "failed"}} IN
       /\ status' = Put(status, hit, "skipped")
       /\ withdrawn' = withdrawn \union hit
       /\ aged' = aged \ hit
  /\ End(r)
  /\ UNCHANGED <<worldVars, repo, attempts, due, drainVars, boundVars,
                 overtaken>>

\* registerCourseAtprotoRef: first the transaction that sets the course's
\* AT-URI and replaces its lesson refs by the given ones.
RegisterCourseRefs(r, k, lessonRefs) ==
  /\ Begin(r, "requeue", CredsIn(k))
  /\ refs' = (refs \ CredsIn(k)) \union lessonRefs
                 \union (CredsIn(k) \intersect CourseCreds)
  /\ UNCHANGED <<consent, earned, silent, sessions>>

\* publishCourseToAtmosphere: first publishCourseToPDS, which stores the
\* course's AT-URI and no lesson ref.
PublishToAtmosphere(r, k) ==
  /\ Begin(r, "requeue", CredsIn(k))
  /\ refs' = refs \union (CredsIn(k) \intersect CourseCreds)
  /\ UNCHANGED <<consent, earned, silent, sessions>>

\* The Bluesky OAuth callback stores a session for the learner's DID.
SignInWithBluesky(r, l) ==
  /\ Begin(r, "requeue", CredsOf(l))
  /\ sessions' = sessions \union {l}
  /\ UNCHANGED <<consent, earned, silent, refs>>

\* requeueSkippedForCourse and requeueSkippedForUser, one updateMany;
\* lastError stays as it was.
RequeueSkipped(r) ==
  /\ step[r] = "requeue"
  /\ LET hit == {c \in todo[r] \ withdrawn : status[c] = "skipped"} IN
       /\ status' = Put(status, hit, "pending")
       /\ attempts' = Put(attempts, hit, 0)
       /\ due' = due \union hit
       /\ aged' = aged \ hit
  /\ End(r)
  /\ UNCHANGED <<worldVars, repo, withdrawn, drainVars, boundVars, overtaken>>

\* The process dies, or a statement fails, between two awaits: the rest of
\* the handler never runs.
DropRequest(r) ==
  /\ step[r] # "idle"
  /\ crashes < MaxCrashes
  /\ crashes' = crashes + 1
  /\ dropped' = dropped \union {r}
  /\ End(r)
  /\ UNCHANGED <<worldVars, repo, rowVars, drainVars, requests, overtaken>>

-----------------------------------------------------------------------------
\* Drain loops

\* What a step of a drain that touches no row leaves alone.
OnlyDrain ==
  UNCHANGED <<worldVars, repo, rowVars, reqVars, boundVars, overtaken>>

\* runDrain, from the timer or from a kick: at most one drain per process;
\* a call during a drain makes it go round once more.
RunDrain(i) ==
  /\ \/ /\ phase[i] = "idle"
        /\ phase' = [phase EXCEPT ![i] = "reclaim"]
        /\ again' = again \ {i}
     \/ /\ phase[i] # "idle"
        /\ again' = again \union {i}
        /\ UNCHANGED phase
  /\ UNCHANGED <<batch, seen, claimed, outcome>> /\ OnlyDrain

\* Mutant of StaleRows: claims of crashed drains are never taken back.
NoStaleRows == {}

StaleRows == {c \in aged : status[c] = "processing"}

\* Rows stuck in "processing" are put back, presuming their drain crashed.
ReclaimStale(i) ==
  /\ phase[i] = "reclaim"
  /\ phase' = [phase EXCEPT ![i] = "select"]
  /\ status' = Put(status, StaleRows, "pending")
  /\ aged' = aged \ StaleRows
  /\ overtaken' = overtaken \union {c \in StaleRows : Held(c)}
  /\ UNCHANGED <<worldVars, repo, attempts, withdrawn, due, reqVars, batch,
                 seen, claimed, outcome, again, boundVars>>

\* findMany: at most DrainBatch due rows, with their attempts as of now.
SelectDue(i) ==
  /\ phase[i] = "select"
  /\ phase' = [phase EXCEPT ![i] = "claim"]
  /\ LET ready == {c \in due : status[c] = "pending"} IN
       \E chosen \in SUBSET ready :
         /\ chosen = ready \/ Cardinality(chosen) = DrainBatch
         /\ Cardinality(chosen) <= DrainBatch
         /\ batch' = [batch EXCEPT ![i] = chosen]
         /\ seen' = [seen EXCEPT ![i] =
                       [c \in Credentials |->
                          IF c \in chosen THEN attempts[c] ELSE 0]]
  /\ UNCHANGED <<claimed, outcome, again>> /\ OnlyDrain

\* Mutant of Claimable: the claim forgets its "where status = pending".
AlwaysClaimable(c) == status[c] # "none"

Claimable(c) == status[c] = "pending"

\* updateMany where status = "pending": the row is ours only if it matched.
Claim(i, c) ==
  /\ phase[i] = "claim"
  /\ c \in batch[i]
  /\ batch' = [batch EXCEPT ![i] = @ \ {c}]
  /\ \/ /\ Claimable(c)
        /\ status' = [status EXCEPT ![c] = "processing"]
        /\ aged' = aged \ {c}
        /\ phase' = [phase EXCEPT ![i] = "load"]
        /\ claimed' = [claimed EXCEPT ![i] = c]
     \/ /\ ~ Claimable(c)
        /\ UNCHANGED <<status, aged, phase, claimed>>
  /\ UNCHANGED <<worldVars, repo, attempts, withdrawn, due, reqVars, seen,
                 outcome, again, boundVars, overtaken>>

\* The publication of the claimed credential ended.
Answer(i, o) ==
  /\ phase' = [phase EXCEPT ![i] = "record"]
  /\ outcome' = [outcome EXCEPT ![i] = o]

Eligible(c) == Owner[c] \in sessions /\ c \in refs

\* loadPublishContext and the lesson ref lookup: a credential that cannot be
\* published now is skipped; a query that throws makes the publish fail.
LoadContext(i) ==
  /\ phase[i] = "load"
  /\ \/ /\ Eligible(claimed[i])
        /\ phase' = [phase EXCEPT ![i] = "put"]
        /\ UNCHANGED outcome
     \/ /\ ~ Eligible(claimed[i])
        /\ Answer(i, "skipped")
     \/ Answer(i, "failed")
  /\ UNCHANGED <<batch, seen, claimed, again>> /\ OnlyDrain

\* Mutant of PutRecord: the outcome is "published" without awaiting the PDS.
PutRecordUnawaited(i) ==
  /\ phase[i] = "put"
  /\ repo' \in {repo, repo \union {claimed[i]}}
  /\ Answer(i, "published")
  /\ UNCHANGED <<worldVars, rowVars, reqVars, batch, seen, claimed, again,
                 boundVars, overtaken>>

\* putRecord under the deterministic rkey: an idempotent upsert.  It can
\* fail, and it can succeed with the answer lost.
PutRecord(i) ==
  /\ phase[i] = "put"
  /\ \/ /\ repo' = repo \union {claimed[i]}
        /\ Answer(i, "published")
     \/ /\ repo' \in {repo, repo \union {claimed[i]}}
        /\ Answer(i, "failed")
  /\ UNCHANGED <<worldVars, rowVars, reqVars, batch, seen, claimed, again,
                 boundVars, overtaken>>

\* Mutant of GivesUp: off by one.
GivesUpLate(n) == n > MaxAttempts

GivesUp(n) == n >= MaxAttempts

\* The row of c after an outcome, n counting the failures so far.  A failure
\* counts on from the attempts read by findMany.
Settle(c, o, n) ==
  \/ /\ o = "published"
     /\ status' = [status EXCEPT ![c] = "published"]
     /\ UNCHANGED <<attempts, due>>
  \/ /\ o = "skipped"
     /\ status' = [status EXCEPT ![c] = "skipped"]
     /\ UNCHANGED <<attempts, due>>
  \/ /\ o = "failed"
     /\ status' = [status EXCEPT ![c] =
                      IF GivesUp(n) THEN "failed" ELSE "pending"]
     /\ attempts' = [attempts EXCEPT ![c] = n]
     /\ due' = due \ {c}

\* prisma.update by id: unconditional, whatever the row has become.
RecordOutcome(i) ==
  /\ phase[i] = "record"
  /\ LET c == claimed[i] IN
       /\ Settle(c, outcome[i], seen[i][c] + 1)
       /\ withdrawn' = withdrawn \ {c}
       /\ aged' = aged \ {c}
  /\ phase' = [phase EXCEPT ![i] = "claim"]
  /\ claimed' = [claimed EXCEPT ![i] = NoCred]
  /\ outcome' = [outcome EXCEPT ![i] = "unknown"]
  /\ UNCHANGED <<worldVars, repo, reqVars, batch, seen, again, boundVars,
                 overtaken>>

\* The batch is done; go round again if someone asked for it meanwhile.
FinishDrain(i) ==
  /\ phase[i] = "claim"
  /\ batch[i] = {}
  /\ phase' = [phase EXCEPT ![i] = IF i \in again THEN "reclaim" ELSE "idle"]
  /\ again' = again \ {i}
  /\ seen' = [seen EXCEPT ![i] = NoAttempts]
  /\ UNCHANGED <<batch, claimed, outcome>> /\ OnlyDrain

\* A statement throws, or the process dies and is restarted: a claimed row
\* stays in "processing".
AbortDrain(i) ==
  /\ phase[i] # "idle"
  /\ crashes < MaxCrashes
  /\ crashes' = crashes + 1
  /\ phase' = [phase EXCEPT ![i] = "idle"]
  /\ batch' = [batch EXCEPT ![i] = {}]
  /\ seen' = [seen EXCEPT ![i] = NoAttempts]
  /\ claimed' = [claimed EXCEPT ![i] = NoCred]
  /\ outcome' = [outcome EXCEPT ![i] = "unknown"]
  /\ again' = again \ {i}
  /\ UNCHANGED <<worldVars, repo, rowVars, reqVars, requests, dropped, overtaken>>

-----------------------------------------------------------------------------
\* The environment

\* The learner revokes the app, or the stored session cannot be refreshed.
LoseSession(l) ==
  /\ l \in sessions
  /\ sessions' = sessions \ {l}
  /\ UNCHANGED <<consent, earned, silent, refs, repo, rowVars, reqVars, drainVars,
                 boundVars, overtaken>>

BackoffElapses(c) ==
  /\ status[c] = "pending"
  /\ c \notin due
  /\ due' = due \union {c}
  /\ UNCHANGED <<worldVars, repo, status, attempts, withdrawn, aged, reqVars,
                 drainVars, boundVars, overtaken>>

GrowStale(c) ==
  /\ status[c] = "processing"
  /\ c \notin aged
  /\ aged' = aged \union {c}
  /\ UNCHANGED <<worldVars, repo, status, attempts, withdrawn, due, reqVars,
                 drainVars, boundVars, overtaken>>

-----------------------------------------------------------------------------
EnqueueStep(r) ==
  \/ ReadEarned(r)
  \/ \E c \in Credentials : ReadConsent(r, c)
  \/ ReadExisting(r)
  \/ UpsertPending(r)
  \/ EnqueueDone(r)

RequestStep(r) == EnqueueStep(r) \/ CancelPending(r) \/ RequeueSkipped(r)

NewRequest(r) ==
  \/ \E c \in Credentials : CompleteLesson(r, c)
  \/ \E l \in Learners :
       GrantConsent(r, l) \/ WithdrawConsent(r, l) \/ SignInWithBluesky(r, l)
  \/ \E k \in Courses :
       \/ \E lessonRefs \in SUBSET (CredsIn(k) \ CourseCreds) :
            RegisterCourseRefs(r, k, lessonRefs)
       \/ PublishToAtmosphere(r, k)

DrainStep(i) ==
  \/ ReclaimStale(i)
  \/ SelectDue(i)
  \/ \E c \in batch[i] : Claim(i, c)
  \/ LoadContext(i)
  \/ PutRecord(i)
  \/ RecordOutcome(i)
  \/ FinishDrain(i)

Clock(c) == BackoffElapses(c) \/ GrowStale(c)

Next ==
  \/ \E r \in Requests : NewRequest(r) \/ RequestStep(r) \/ DropRequest(r)
  \/ \E i \in Instances : RunDrain(i) \/ DrainStep(i) \/ AbortDrain(i)
  \/ \E l \in Learners : LoseSession(l)
  \/ \E c \in Credentials : CompleteOnRead(c) \/ Clock(c)

Spec == Init /\ [][Next]_vars

\* The event loop runs every continuation it was given, the interval timer
\* fires every 30 seconds, calls to the PDS time out, and time passes.
\* Nothing makes a new request arrive, a crash happen or a session expire.
Fairness ==
  /\ \A r \in Requests : WF_vars(RequestStep(r))
  /\ \A i \in Instances :
       /\ WF_vars(phase[i] = "idle" /\ RunDrain(i))
       /\ WF_vars(DrainStep(i))
  /\ \A c \in Credentials : WF_vars(Clock(c))

FairSpec == Spec /\ Fairness

-----------------------------------------------------------------------------
\* Properties

\* The row says "published" only if the record is in the learner's
\* repository: the status the learner is shown, and certificates of
\* completion elsewhere, rest on it (drainCredentialOutbox).
PublishedIsRecorded ==
  \A c \in Credentials : status[c] = "published" => c \in repo

\* A record exists only for a credential the learner earned and has a row
\* for: whatever the outbox wrote can be queried (rule 2 of the module).
RecordsAreTracked ==
  repo \subseteq {c \in earned : status[c] # "none"}

\* "Claim atomically so two API instances never publish the same row": two
\* drains work on one credential only after its row was taken away from the
\* first one as stale, or re-enqueued under it.
ExclusiveClaim ==
  \A c \in Credentials \ overtaken : \A i, j \in Instances :
    /\ Publishing(i) /\ Publishing(j)
    /\ claimed[i] = c /\ claimed[j] = c
    => i = j

\* Retries are bounded: a row that may still be tried has attempts left, and
\* one that was given up has used them all.
RetryBudget ==
  \A c \in Credentials :
    /\ status[c] \in {"pending", "processing"}
         => attempts[c] < MaxAttempts
    /\ status[c] = "failed" => attempts[c] = MaxAttempts

\* Completing a lesson and opting in may happen at the same time, in any
\* order: when every request has run to its end, a consenting learner has a
\* row for each credential earned ("Opting in queues every credential
\* already earned"), except for a course that only getProgress found
\* completed, and that no opt-in has read since: nobody enqueues that one.
NoCredentialMissed ==
  (dropped = {} /\ \A r \in Requests : step[r] = "idle")
    => \A c \in earned \ silent : Owner[c] \in consent => status[c] # "none"

\* Every queued row is eventually published, skipped with a reason, or given
\* up: none stays in the queue for ever, crashes of drains notwithstanding.
QueuedSettles ==
  \A c \in Credentials :
    (status[c] \in {"pending", "processing"})
      ~> (status[c] \in {"published", "skipped", "failed"})

\* The outbox keeps the promise of CredentialLedger.
Ledger == INSTANCE CredentialLedger WITH
  asked     <- {c \in Credentials : status[c] # "none"},
  recorded  <- repo,
  confirmed <- {c \in Credentials : status[c] = "published"}

LedgerSpec == Ledger!LedgerSpec

\* Rule 1 of the module: "Nothing is published unless the learner opted in".
\* It does not hold: see README.
OnlyWithConsent ==
  [][\A c \in repo' \ repo : Owner[c] \in consent]_vars
=============================================================================
