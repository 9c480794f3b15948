--------------------------- MODULE SessionsProofs ---------------------------
(***************************************************************************)
(* Sessions for any number of requests and pairs, whoever sends them, and  *)
(* the fact that phones and browsers are among those senders.              *)
(***************************************************************************)
EXTENDS SessionClients, TLAPS

\* Whoever is past the middleware presented a pair.
NeedsPair(r) ==
  \/ step[r] \in {"mint", "remember", "recent", "revoke"}
  \/ step[r] = "handle" /\ job[r] \notin {"public", "signin"}

CarriersInv == \A r \in Requests : NeedsPair(r) => carried[r] # None

\* Only what was signed has a session, a successor, or is one.
SignedInv ==
  \A p \in Pairs :
    /\ p <= issued => session[p] <= issued
    /\ current[p] # None => p <= issued
    /\ renewed[p] # None => p <= issued
    /\ renewed[p] <= issued

\* A rotation about to write to a session that is over was caught by its end.
CaughtInv ==
  \A r \in Requests : step[r] = "mint" /\ SidOf(r) \in Ended => SidOf(r) \in caught

\* A pair given for p is the session's, or was exchanged in turn.
Works(p, n) ==
  \/ current[session[p]] = n
  \/ n \in rotated
  \/ session[p] \in Ended \union overlapped

RotationInv ==
  \A r \in Requests :
    /\ step[r] = "mint" => Works(carried[r], carried[r])
    /\ step[r] = "remember" => fresh[r] # None /\ Works(carried[r], fresh[r])

RememberedInv ==
  \A p \in Pairs : renewed[p] # None => Works(p, renewed[p])

TypeInv == SessionTypeOK /\ CarriersInv /\ SignedInv
EndInv  == CaughtInv /\ EndedStaysEnded
PairInv == RotationInv /\ RememberedInv

-----------------------------------------------------------------------------
USE SessionsAssumption DEF None, Pairs

\* Types, and who carries what.
LEMMA TypeInit == SessionInit => TypeInv
  BY DEF SessionInit, TypeInv, SessionTypeOK, CarriersInv, SignedInv,
         NeedsPair, Steps, Answers, Jobs

\* A step that moves r on changes nothing else of the requests' places.
LEMMA Going ==
  ASSUME TypeInv, NEW r \in Requests, NEW to \in Steps, Goes(r, to)
  PROVE  /\ step' \in [Requests -> Steps]
         /\ step'[r] = to
         /\ \A q \in Requests : q # r => step'[q] = step[q]
         /\ job' = job /\ carried' = carried
  BY DEF TypeInv, SessionTypeOK, Goes

\* Every pair a request names was signed.
LEMMA Ranges ==
  ASSUME TypeInv, NEW r \in Requests
  PROVE  /\ issued \in 0..MaxPairs
         /\ carried[r] \in 0..issued /\ carried[r] \in Pairs \union {None}
         /\ fresh[r] \in 0..issued /\ fresh[r] \in Pairs \union {None}
<1>1. issued \in 0..MaxPairs
  BY DEF TypeInv, SessionTypeOK
<1>2. carried[r] \in 0..issued /\ fresh[r] \in 0..issued
  BY DEF TypeInv, SessionTypeOK
<1>3. QED BY <1>1, <1>2

\* Sessions of requests that carry a pair.
LEMMA Sids ==
  ASSUME TypeInv, NEW r \in Requests, NeedsPair(r)
  PROVE  /\ carried[r] \in 1..issued /\ carried[r] \in Pairs
         /\ SidOf(r) \in 1..issued /\ SidOf(r) \in Pairs
<1>1. issued \in 0..MaxPairs /\ carried[r] \in 0..issued
  BY DEF TypeInv, SessionTypeOK
<1>2. carried[r] # None
  BY DEF TypeInv, CarriersInv
<1>3. carried[r] \in 1..issued /\ carried[r] \in Pairs
  BY <1>1, <1>2
<1>4. session[carried[r]] \in Pairs /\ session[carried[r]] <= issued
  BY <1>1, <1>3 DEF TypeInv, SessionTypeOK, SignedInv
<1>5. QED BY <1>1, <1>3, <1>4 DEF SidOf

LEMMA DeleteType ==
  ASSUME TypeInv, NEW S \in SUBSET Pairs, Delete(S)
  PROVE  /\ current' \in [Pairs -> Pairs \union {None}]
         /\ caught' \subseteq Pairs
         /\ \A s \in Pairs : current'[s] # None => current[s] # None
<1>1. current \in [Pairs -> Pairs \union {None}] /\ caught \subseteq Pairs
  BY DEF TypeInv, SessionTypeOK
<1>2. current' = [s \in Pairs |-> IF s \in S THEN None ELSE current[s]]
  BY DEF Delete
<1>3. caught' \subseteq Pairs
  BY <1>1 DEF Delete
<1>4. QED BY <1>1, <1>2, <1>3

\* A step that neither signs nor touches Redis keeps what requests carry.
LEMMA QuietStep ==
  ASSUME TypeInv, NEW r \in Requests, NEW to \in Steps, Goes(r, to),
         to = "idle" => fresh'[r] = None,
         to \in {"mint", "remember", "recent", "revoke", "handle"} =>
           carried[r] # None,
         UNCHANGED <<redis, tokens, histories>>,
         fresh' \in [Requests -> 0..issued],
         \A q \in Requests : q # r => fresh'[q] = fresh[q],
         todo' \in [Requests -> SUBSET Pairs]
  PROVE  TypeInv'
<1>1. /\ step' \in [Requests -> Steps] /\ step'[r] = to
      /\ \A q \in Requests : q # r => step'[q] = step[q]
      /\ job' = job /\ carried' = carried
  BY Going
<1>2. UNCHANGED <<current, renewed, issued, session, expired, rotated, closed,
                  killed, caught, overlapped>>
  BY DEF redis, tokens, histories
<1>3. SessionTypeOK'
  BY <1>1, <1>2 DEF TypeInv, SessionTypeOK
<1>4. CarriersInv'
  BY <1>1 DEF TypeInv, CarriersInv, NeedsPair
<1>5. SignedInv'
  BY <1>2 DEF TypeInv, SignedInv
<1>6. QED BY <1>3, <1>4, <1>5 DEF TypeInv

\* Deleting sessions and recording why keeps the types.
LEMMA DeleteStep ==
  ASSUME TypeInv, NEW S \in SUBSET Pairs, Delete(S),
         \A s \in S : s <= issued,
         UNCHANGED <<renewed, tokens, fresh, rotated, overlapped, job, carried>>,
         closed' \subseteq closed \union S, killed' \subseteq killed \union S,
         step' \in [Requests -> Steps], todo' \in [Requests -> SUBSET Pairs],
         \A q \in Requests :
           step'[q] = step[q] \/ step'[q] \in {"denied", "ok", "sweep"}
  PROVE  TypeInv'
<1>1. UNCHANGED <<issued, session, expired>>
  BY DEF tokens
<1>2. /\ current' \in [Pairs -> Pairs \union {None}] /\ caught' \subseteq Pairs
      /\ \A s \in Pairs : current'[s] # None => current[s] # None
  BY DeleteType
<1>3. S \subseteq 1..issued
  BY DEF TypeInv, SessionTypeOK
<1>4. SessionTypeOK'
  BY <1>1, <1>2, <1>3 DEF TypeInv, SessionTypeOK
<1>5. CarriersInv'
  BY DEF TypeInv, CarriersInv, NeedsPair
<1>6. SignedInv'
  BY <1>1, <1>2 DEF TypeInv, SignedInv
<1>7. QED BY <1>4, <1>5, <1>6 DEF TypeInv

\* Signing pair issued + 1 for session sid, and answering r with it.
LEMMA SignStep ==
  ASSUME TypeInv, NEW r \in Requests, NEW to \in {"remember", "ok"},
         Goes(r, to), issued < MaxPairs,
         NEW sid \in 1..(issued + 1),
         to = "remember" => carried[r] # None,
         issued' = issued + 1,
         session' = [session EXCEPT ![issued + 1] = sid],
         current' = [current EXCEPT ![sid] = issued + 1],
         fresh' = [fresh EXCEPT ![r] = issued + 1],
         rotated' \subseteq Pairs, overlapped' \subseteq Pairs,
         UNCHANGED <<renewed, expired, todo, closed, killed, caught>>
  PROVE  TypeInv'
<1>0. to \in Steps
  BY DEF Steps, Answers
<1>1. /\ step' \in [Requests -> Steps] /\ step'[r] = to
      /\ \A q \in Requests : q # r => step'[q] = step[q]
      /\ job' = job /\ carried' = carried
  BY <1>0, Going
<1>i. issued \in 0..MaxPairs
  BY DEF TypeInv, SessionTypeOK
<1>2. /\ issued \in 0..MaxPairs /\ issued + 1 \in Pairs /\ sid \in Pairs
      /\ 0..issued \subseteq 0..(issued + 1)
      /\ 1..issued \subseteq 1..(issued + 1)
      /\ issued + 1 \in 0..(issued + 1)
  BY <1>i
<1>3. /\ carried' \in [Requests -> 0..issued']
      /\ fresh' \in [Requests -> 0..issued']
      /\ closed' \subseteq 1..issued' /\ killed' \subseteq 1..issued'
      /\ expired' \in 0..issued'
  <2>1. /\ carried \in [Requests -> 0..issued]
        /\ fresh \in [Requests -> 0..issued]
        /\ closed \subseteq 1..issued /\ killed \subseteq 1..issued
        /\ expired \in 0..issued
    BY DEF TypeInv, SessionTypeOK
  <2>2. carried' \in [Requests -> 0..issued']
    BY <1>1, <1>2, <2>1
  <2>3. fresh' \in [Requests -> 0..issued']
    BY <1>2, <2>1
  <2> QED BY <1>2, <2>1, <2>2, <2>3
<1>4. /\ current' \in [Pairs -> Pairs \union {None}]
      /\ session' \in [Pairs -> Pairs]
      /\ issued' \in 0..MaxPairs
  <2>1. /\ current \in [Pairs -> Pairs \union {None}]
        /\ session \in [Pairs -> Pairs]
    BY DEF TypeInv, SessionTypeOK
  <2> QED BY <1>2, <2>1
<1>5. \A q \in Requests : step'[q] = "idle" => fresh'[q] = None
  BY <1>1 DEF TypeInv, SessionTypeOK
<1>6. SessionTypeOK'
  BY <1>1, <1>3, <1>4, <1>5 DEF TypeInv, SessionTypeOK
<1>7. CarriersInv'
  BY <1>1 DEF TypeInv, CarriersInv, NeedsPair
<1>8. SignedInv'
  <2> SUFFICES ASSUME NEW p \in Pairs
               PROVE  /\ p <= issued' => session'[p] <= issued'
                      /\ current'[p] # None => p <= issued'
                      /\ renewed'[p] # None => p <= issued'
                      /\ renewed'[p] <= issued'
    BY DEF SignedInv
  <2>1. /\ p <= issued => session[p] <= issued
        /\ current[p] # None => p <= issued
        /\ renewed[p] # None => p <= issued
        /\ renewed[p] <= issued /\ renewed[p] \in Pairs \union {None}
        /\ session[p] \in Pairs
    BY DEF TypeInv, SignedInv, SessionTypeOK
  <2>2. session'[p] = IF p = issued + 1 THEN sid ELSE session[p]
    BY <1>2 DEF TypeInv, SessionTypeOK
  <2>3. current'[p] = IF p = sid THEN issued + 1 ELSE current[p]
    BY <1>2 DEF TypeInv, SessionTypeOK
  <2> QED BY <1>2, <2>1, <2>2, <2>3
<1>9. QED BY <1>6, <1>7, <1>8 DEF TypeInv

LEMMA TypeStep == TypeInv /\ [SessionNext]_sessionVars => TypeInv'
<1> SUFFICES ASSUME TypeInv, [SessionNext]_sessionVars PROVE TypeInv'
  OBVIOUS
<1>0. /\ fresh \in [Requests -> 0..issued] /\ issued \in 0..MaxPairs
      /\ todo \in [Requests -> SUBSET Pairs]
      /\ step \in [Requests -> Steps]
      /\ closed \subseteq 1..issued /\ killed \subseteq 1..issued
      /\ caught \subseteq Pairs /\ overlapped \subseteq Pairs
      /\ rotated \subseteq Pairs
  BY DEF TypeInv, SessionTypeOK
<1>a. \A r \in Requests : NeedsPair(r) => carried[r] # None
  BY DEF TypeInv, CarriersInv
<1>b. {"idle", "auth", "mint", "remember", "recent", "revoke", "handle", "sweep",
       "open", "ok", "failed", "denied", "broken"} = Steps
  BY DEF Steps, Answers
<1>c. LiveSessions \subseteq Pairs /\ \A s \in LiveSessions : s <= issued
  BY DEF TypeInv, SignedInv, LiveSessions
<1>1. ASSUME NEW r \in Requests, NEW p \in 0..MaxPairs, NEW j \in Jobs,
             Send(r, p, j)
      PROVE  TypeInv'
  <2>1. /\ step' \in [Requests -> Steps] /\ job' \in [Requests -> Jobs]
        /\ carried' \in [Requests -> 0..issued]
        /\ step'[r] \in {"handle", "auth"}
        /\ step'[r] = "handle" => j \in {"public", "signin"}
        /\ job'[r] = j
        /\ \A q \in Requests : q # r => /\ step'[q] = step[q]
                                      /\ job'[q] = job[q]
                                      /\ carried'[q] = carried[q]
    BY <1>1, <1>0, <1>b DEF TypeInv, SessionTypeOK, Send
  <2>2. UNCHANGED <<current, renewed, issued, session, expired, fresh, todo,
                    rotated, closed, killed, caught, overlapped>>
    BY <1>1 DEF Send, redis, tokens, histories
  <2>3. SessionTypeOK'
    BY <2>1, <2>2 DEF TypeInv, SessionTypeOK
  <2>4. CarriersInv'
    BY <2>1, <1>a DEF CarriersInv, NeedsPair
  <2>5. SignedInv'
    BY <2>2 DEF TypeInv, SignedInv
  <2> QED BY <2>3, <2>4, <2>5 DEF TypeInv
<1>2. ASSUME NEW r \in Requests, Authenticate(r) PROVE TypeInv'
  <2>1. Verdict(carried[r]) \in {"denied", "handle", "mint", "recent"}
    BY DEF Verdict
  <2>2. carried[r] = None => Verdict(carried[r]) = "denied"
    BY DEF Verdict
  <2> PICK to \in Steps : to = Verdict(carried[r])
    BY <1>b, <2>1
  <2>3. /\ to \in Steps /\ to # "idle"
        /\ to = "denied" \/ carried[r] # None
        /\ to \in {"denied", "handle", "mint", "recent"}
    BY <1>b, <2>1, <2>2
  <2>4. /\ Goes(r, to)
        /\ UNCHANGED <<redis, tokens, histories>>
        /\ fresh' \in [Requests -> 0..issued]
        /\ \A q \in Requests : q # r => fresh'[q] = fresh[q]
        /\ todo' \in [Requests -> SUBSET Pairs]
    BY <1>2, <1>0 DEF Authenticate
  <2>5. to \in {"mint", "remember", "recent", "revoke", "handle"} =>
          carried[r] # None
    BY <2>3
  <2> QED BY <2>3, <2>4, <2>5, QuietStep
<1>3. ASSUME NEW r \in Requests, Mint(r) PROVE TypeInv'
  <2>1. NeedsPair(r)
    BY <1>3 DEF Mint, NeedsPair
  <2>2. /\ carried[r] # None /\ carried[r] \in Pairs
        /\ SidOf(r) \in 1..(issued + 1) /\ SidOf(r) \in Pairs
    BY <2>1, <1>0, <1>a, Sids
  <2>3. rotated' \subseteq Pairs /\ overlapped' \subseteq Pairs
    BY <1>3, <1>0, <2>2 DEF Mint
  <2> QED BY <1>3, <2>2, <2>3, SignStep DEF Mint
<1>4. ASSUME NEW r \in Requests, Open(r) PROVE TypeInv'
  <2>1. issued + 1 \in 1..(issued + 1)
    BY <1>0
  <2> QED BY <1>4, <1>0, <2>1, SignStep DEF Open, histories
<1>5. ASSUME NEW r \in Requests, Remember(r) PROVE TypeInv'
  <2>1. "handle" \in Steps /\ NeedsPair(r)
    BY <1>5, <1>b DEF Remember, NeedsPair
  <2>2. /\ step' \in [Requests -> Steps] /\ step'[r] = "handle"
        /\ \A q \in Requests : q # r => step'[q] = step[q]
        /\ job' = job /\ carried' = carried
    BY <1>5, <2>1, Going DEF Remember
  <2>3. carried[r] \in 1..issued /\ carried[r] \in Pairs /\ carried[r] # None
    BY <2>1, <1>a, Sids
  <2>4. fresh[r] \in Pairs \union {None}
    BY Ranges
  <2>5. /\ renewed' = [renewed EXCEPT ![carried[r]] = fresh[r]]
        /\ UNCHANGED <<current, issued, session, expired, fresh, todo, rotated,
                       closed, killed, caught, overlapped>>
    BY <1>5 DEF Remember, tokens, histories
  <2>6. SessionTypeOK'
    BY <2>2, <2>4, <2>5 DEF TypeInv, SessionTypeOK
  <2>7. CarriersInv'
    BY <1>a, <2>2, <2>3 DEF CarriersInv, NeedsPair
  <2>8. SignedInv'
    BY <2>3, <2>5 DEF TypeInv, SignedInv, SessionTypeOK
  <2> QED BY <2>6, <2>7, <2>8 DEF TypeInv
<1>6. ASSUME NEW r \in Requests, Recent(r) PROVE TypeInv'
  <2> DEFINE to == IF renewed[carried[r]] = None THEN "revoke" ELSE "handle"
  <2>1. NeedsPair(r)
    BY <1>6 DEF Recent, NeedsPair
  <2>2. /\ carried[r] # None /\ carried[r] \in Pairs /\ SidOf(r) \in Pairs
    BY <2>1, <1>a, Sids
  <2>3. to \in Steps /\ to \in {"revoke", "handle"} /\ Goes(r, to)
    BY <1>6, <1>b DEF Recent
  <2>4. /\ step' \in [Requests -> Steps] /\ step'[r] = to
        /\ \A q \in Requests : q # r => step'[q] = step[q]
        /\ job' = job /\ carried' = carried
    BY <2>3, Going
  <2>5. renewed[carried[r]] \in 0..issued
    <3>1. renewed[carried[r]] \in Pairs \union {None} /\ issued \in 0..MaxPairs
      BY <2>2 DEF TypeInv, SessionTypeOK
    <3>2. renewed[carried[r]] <= issued
      BY <2>2 DEF TypeInv, SignedInv
    <3> QED BY <3>1, <3>2
  <2>6. /\ fresh' = [fresh EXCEPT ![r] = renewed[carried[r]]]
        /\ overlapped' \subseteq Pairs
        /\ UNCHANGED <<current, renewed, issued, session, expired, todo, rotated,
                       closed, killed, caught>>
    BY <1>6, <1>0, <2>2 DEF Recent, redis, tokens
  <2>7. SessionTypeOK'
    BY <2>3, <2>4, <2>5, <2>6 DEF TypeInv, SessionTypeOK
  <2>8. CarriersInv'
    BY <1>a, <2>2, <2>4 DEF CarriersInv, NeedsPair
  <2>9. SignedInv'
    BY <2>6 DEF TypeInv, SignedInv
  <2> QED BY <2>7, <2>8, <2>9 DEF TypeInv
<1>7. ASSUME NEW r \in Requests, Revoke(r) PROVE TypeInv'
  <2>1. NeedsPair(r) /\ "denied" \in Steps
    BY <1>7, <1>b DEF Revoke, NeedsPair
  <2>2. SidOf(r) \in Pairs /\ SidOf(r) <= issued
    BY <2>1, <1>0, Sids
  <2>3. /\ step' \in [Requests -> Steps]
        /\ \A q \in Requests : step'[q] = step[q] \/ step'[q] \in {"denied", "ok", "sweep"}
        /\ job' = job /\ carried' = carried
    BY <1>7, <2>1, Going DEF Revoke
  <2>4. /\ Delete({SidOf(r)}) /\ killed' = killed \union {SidOf(r)}
        /\ UNCHANGED <<renewed, tokens, fresh, rotated, overlapped>>
        /\ closed' = closed /\ todo' = todo
    BY <1>7 DEF Revoke
  <2> QED BY <1>0, <2>2, <2>3, <2>4, DeleteStep
<1>8. ASSUME NEW r \in Requests, Logout(r) PROVE TypeInv'
  <2>1. NeedsPair(r) /\ "ok" \in Steps
    BY <1>8, <1>b DEF Logout, NeedsPair
  <2>2. SidOf(r) \in Pairs /\ SidOf(r) <= issued
    BY <2>1, <1>0, Sids
  <2>3. /\ step' \in [Requests -> Steps]
        /\ \A q \in Requests : step'[q] = step[q] \/ step'[q] \in {"denied", "ok", "sweep"}
        /\ job' = job /\ carried' = carried
    BY <1>8, <2>1, Going DEF Logout
  <2>4. /\ Delete({SidOf(r)}) /\ closed' = closed \union {SidOf(r)}
        /\ UNCHANGED <<renewed, tokens, fresh, rotated, overlapped>>
        /\ killed' = killed /\ todo' = todo
    BY <1>8 DEF Logout
  <2> QED BY <1>0, <2>2, <2>3, <2>4, DeleteStep
<1>9. ASSUME NEW r \in Requests, Sweep(r) PROVE TypeInv'
  <2>1. PICK batch \in SUBSET LiveSessions :
          /\ Delete(batch) /\ closed' = closed \union batch
          /\ todo' = [todo EXCEPT ![r] = @ \ batch]
    BY <1>9 DEF Sweep
  <2>2. batch \in SUBSET Pairs /\ \A s \in batch : s <= issued
    BY <1>c
  <2>3. /\ step' \in [Requests -> Steps]
        /\ \A q \in Requests : step'[q] = step[q] \/ step'[q] \in {"denied", "ok", "sweep"}
        /\ job' = job /\ carried' = carried
    BY <1>9, <1>b, Going DEF Sweep
  <2>4. /\ UNCHANGED <<renewed, tokens, fresh, rotated, overlapped>>
        /\ killed' = killed
    BY <1>9 DEF Sweep
  <2>5. todo' \in [Requests -> SUBSET Pairs]
    BY <1>0, <2>1
  <2> QED BY <1>0, <2>1, <2>2, <2>3, <2>4, <2>5, DeleteStep
<1>10. ASSUME NEW s \in Pairs, Lapse(s) PROVE TypeInv'
  <2>1. s <= issued
    BY <1>10 DEF Lapse, TypeInv, SignedInv
  <2>2. /\ Delete({s}) /\ closed' = closed \union {s}
        /\ UNCHANGED <<renewed, tokens, fresh, rotated, overlapped, job, carried>>
        /\ killed' = killed /\ todo' = todo /\ step' = step
    BY <1>10 DEF Lapse, handlers
  <2> QED BY <1>0, <2>1, <2>2, DeleteStep
<1>11. ASSUME NEW r \in Requests,
              Work(r) \/ Refuse(r) \/ SignIn(r) \/ Break(r)
                \/ ChangePassword(r) \/ SweepDone(r)
       PROVE  TypeInv'
  <2>1. PICK to \in {"ok", "failed", "open", "broken", "sweep"} : Goes(r, to)
    BY <1>11 DEF Work, Refuse, SignIn, Break, ChangePassword, SweepDone
  <2>2. UNCHANGED <<redis, tokens, histories>> /\ fresh' = fresh
    BY <1>11 DEF Work, Refuse, SignIn, Break, ChangePassword, SweepDone
  <2>3. todo' \in [Requests -> SUBSET Pairs]
    BY <1>11, <1>0, <1>c
       DEF Work, Refuse, SignIn, Break, ChangePassword, SweepDone
  <2>4. fresh' \in [Requests -> 0..issued]
    BY <1>0, <2>2
  <2>5. /\ to \in Steps /\ to # "idle"
        /\ to \notin {"mint", "remember", "recent", "revoke", "handle"}
    BY <2>1, <1>b
  <2> QED BY <2>1, <2>2, <2>3, <2>4, <2>5, QuietStep
<1>12. ASSUME NEW r \in Requests, Receive(r) PROVE TypeInv'
  <2>1. /\ step' \in [Requests -> Steps] /\ job' \in [Requests -> Jobs]
        /\ carried' \in [Requests -> 0..issued]
        /\ fresh' \in [Requests -> 0..issued]
        /\ todo' \in [Requests -> SUBSET Pairs]
        /\ step'[r] = "idle" /\ fresh'[r] = None
        /\ \A q \in Requests : q # r => /\ step'[q] = step[q]
                                      /\ job'[q] = job[q]
                                      /\ carried'[q] = carried[q]
                                      /\ fresh'[q] = fresh[q]
    BY <1>12, <1>0, <1>b DEF TypeInv, SessionTypeOK, Receive, Jobs
  <2>2. UNCHANGED <<current, renewed, issued, session, expired, rotated, closed,
                    killed, caught, overlapped>>
    BY <1>12 DEF Receive, redis, tokens, histories
  <2>3. SessionTypeOK'
    BY <2>1, <2>2 DEF TypeInv, SessionTypeOK
  <2>4. CarriersInv'
    BY <2>1, <1>a DEF CarriersInv, NeedsPair
  <2>5. SignedInv'
    BY <2>2 DEF TypeInv, SignedInv
  <2> QED BY <2>3, <2>4, <2>5 DEF TypeInv
<1>13. ASSUME NEW p \in Pairs, GraceEnds(p) PROVE TypeInv'
  <2>1. /\ renewed' = [renewed EXCEPT ![p] = None]
        /\ UNCHANGED <<current, issued, session, expired, step, job, carried,
                       fresh, todo, rotated, closed, killed, caught, overlapped>>
    BY <1>13 DEF GraceEnds, tokens, handlers, histories
  <2>2. SessionTypeOK'
    BY <2>1 DEF TypeInv, SessionTypeOK
  <2>3. CarriersInv'
    BY <2>1 DEF TypeInv, CarriersInv, NeedsPair
  <2>4. \A q \in Pairs : renewed'[q] = IF q = p THEN None ELSE renewed[q]
    BY <2>1 DEF TypeInv, SessionTypeOK
  <2>5. SignedInv'
    BY <2>1, <2>4, <1>0 DEF TypeInv, SignedInv
  <2> QED BY <2>2, <2>3, <2>5 DEF TypeInv
<1>14. ASSUME Expire \/ UNCHANGED sessionVars PROVE TypeInv'
  <2>1. /\ UNCHANGED <<current, renewed, issued, session, step, job, carried,
                       fresh, todo, rotated, closed, killed, caught, overlapped>>
        /\ \/ expired' = expired
           \/ expired < issued /\ expired' = expired + 1
    <3>1. CASE Expire
      BY <3>1 DEF Expire, redis, handlers, histories
    <3>2. CASE UNCHANGED sessionVars
      BY <3>2 DEF sessionVars, redis, tokens, handlers, histories
    <3> QED BY <1>14, <3>1, <3>2
  <2>5. expired \in 0..issued
    BY DEF TypeInv, SessionTypeOK
  <2>6. expired' \in 0..issued
    BY <2>1, <2>5, <1>0
  <2>2. SessionTypeOK'
    BY <2>1, <2>6 DEF TypeInv, SessionTypeOK
  <2>3. CarriersInv'
    BY <2>1 DEF TypeInv, CarriersInv, NeedsPair
  <2>4. SignedInv'
    BY <2>1 DEF TypeInv, SignedInv
  <2> QED BY <2>2, <2>3, <2>4 DEF TypeInv
<1>15. QED
  BY <1>1, <1>2, <1>3, <1>4, <1>5, <1>6, <1>7, <1>8, <1>9, <1>10, <1>11, <1>12,
     <1>13, <1>14 DEF SessionNext, ServerStep, Clock

\* The Redis keys, the tokens and the requests are what they are declared to
\* be, and an idle request delivers no tokens.
THEOREM TypeCorrect == SessionSpec => []SessionTypeOK
<1>1. TypeInv => SessionTypeOK
  BY DEF TypeInv
<1>2. QED BY TypeInit, TypeStep, <1>1, PTL DEF SessionSpec

-----------------------------------------------------------------------------
\* What is over stays over

LEMMA EndInit == SessionInit => EndInv
  BY DEF SessionInit, EndInv, CaughtInv, EndedStaysEnded, Ended

\* Deleting S while S joins what is over.
LEMMA EndDelete ==
  ASSUME TypeInv, EndInv, NEW S \in SUBSET Pairs, Delete(S),
         Ended' \subseteq Ended \union S,
         session' = session, carried' = carried,
         \A q \in Requests : step'[q] = "mint" => step[q] = "mint"
  PROVE  EndInv'
<1>1. \A s \in Pairs : current'[s] = IF s \in S THEN None ELSE current[s]
  BY DEF Delete
<1>2. caught' = caught \union (S \intersect BeingRotated)
  BY DEF Delete
<1>3. \A q \in Requests : step[q] = "mint" => SidOf(q) \in BeingRotated
  BY DEF BeingRotated
<1>4. \A q \in Requests : SidOf(q)' = SidOf(q)
  BY DEF SidOf
<1>5. CaughtInv'
  BY <1>2, <1>3, <1>4 DEF EndInv, CaughtInv
<1>6. Ended \union S \subseteq Pairs
  BY DEF TypeInv, SessionTypeOK, Ended
<1>7. EndedStaysEnded'
  BY <1>1, <1>2, <1>6 DEF EndInv, EndedStaysEnded
<1>8. QED BY <1>5, <1>7 DEF EndInv

\* A step that writes no session and starts no rotation.
LEMMA EndQuiet ==
  ASSUME EndInv, UNCHANGED <<current, session, closed, killed, caught>>,
         \A q \in Requests :
           step'[q] = "mint" => step[q] = "mint" /\ carried'[q] = carried[q]
  PROVE  EndInv'
  BY DEF EndInv, CaughtInv, EndedStaysEnded, Ended, SidOf

LEMMA EndStep == TypeInv /\ EndInv /\ [SessionNext]_sessionVars => EndInv'
<1> SUFFICES ASSUME TypeInv, EndInv, [SessionNext]_sessionVars PROVE EndInv'
  OBVIOUS
<1>0. /\ step \in [Requests -> Steps] /\ carried \in [Requests -> 0..issued]
      /\ job \in [Requests -> Jobs]
      /\ issued \in 0..MaxPairs
      /\ session \in [Pairs -> Pairs]
      /\ current \in [Pairs -> Pairs \union {None}]
      /\ Ended \subseteq 1..issued /\ Ended \subseteq Pairs
  <2>1. /\ step \in [Requests -> Steps] /\ carried \in [Requests -> 0..issued]
        /\ job \in [Requests -> Jobs]
        /\ issued \in 0..MaxPairs
        /\ session \in [Pairs -> Pairs]
        /\ current \in [Pairs -> Pairs \union {None}]
        /\ closed \subseteq 1..issued /\ killed \subseteq 1..issued
    BY DEF TypeInv, SessionTypeOK
  <2>2. 1..issued \subseteq Pairs
    BY <2>1
  <2> QED BY <2>1, <2>2 DEF Ended
<1>1. ASSUME NEW r \in Requests, NEW p \in 0..MaxPairs, NEW j \in Jobs,
             Send(r, p, j)
      PROVE  EndInv'
  <2>1. \A q \in Requests :
          step'[q] = "mint" => step[q] = "mint" /\ carried'[q] = carried[q]
    BY <1>1, <1>0 DEF Send
  <2> QED BY <1>1, <2>1, EndQuiet DEF Send, redis, tokens, histories
<1>2. ASSUME NEW r \in Requests, Authenticate(r) PROVE EndInv'
  <2>1. UNCHANGED <<current, session, carried, closed, killed, caught>>
    BY <1>2 DEF Authenticate, Goes, redis, tokens, histories
  <2>2. \A q \in Requests : q # r => step'[q] = step[q]
    BY <1>2, <1>0 DEF Authenticate, Goes
  <2>3. step'[r] = "mint" => current[SidOf(r)] # None /\ SidOf(r) \in Pairs
    <3>1. step'[r] = Verdict(carried[r])
      BY <1>2, <1>0 DEF Authenticate, Goes
    <3>2. Verdict(carried[r]) = "mint" =>
            carried[r] # None /\ current[session[carried[r]]] # None
      BY DEF Verdict
    <3>3. carried[r] # None => SidOf(r) \in Pairs
      <4>1. carried[r] \in Pairs \union {None}
        BY Ranges
      <4>2. \A p \in Pairs : session[p] \in Pairs
        BY DEF TypeInv, SessionTypeOK
      <4> QED BY <4>1, <4>2 DEF SidOf
    <3> QED BY <3>1, <3>2, <3>3 DEF SidOf
  <2>4. \A q \in Requests : SidOf(q)' = SidOf(q)
    BY <2>1 DEF SidOf
  <2>5. CaughtInv'
    BY <2>1, <2>2, <2>3, <2>4 DEF EndInv, CaughtInv, EndedStaysEnded, Ended
  <2>6. EndedStaysEnded'
    BY <2>1 DEF EndInv, EndedStaysEnded, Ended
  <2> QED BY <2>5, <2>6 DEF EndInv
<1>3. ASSUME NEW r \in Requests, Mint(r) PROVE EndInv'
  <2>1. UNCHANGED <<closed, killed, caught, carried>>
    BY <1>3 DEF Mint, Goes
  <2>2. NeedsPair(r) /\ step[r] = "mint"
    BY <1>3 DEF Mint, NeedsPair
  <2>3. \A q \in Requests : step'[q] = "mint" => step[q] = "mint" /\ NeedsPair(q)
    BY <1>3, <1>0 DEF Mint, Goes, NeedsPair
  <2>4. \A q \in Requests : NeedsPair(q) => SidOf(q)' = SidOf(q)
    <3> SUFFICES ASSUME NEW q \in Requests, NeedsPair(q)
                 PROVE  SidOf(q)' = SidOf(q)
      OBVIOUS
    <3>1. carried[q] \in Pairs /\ carried[q] # issued + 1
      BY <1>0, Sids
    <3> QED BY <1>3, <1>0, <2>1, <3>1 DEF Mint, SidOf
  <2>5. CaughtInv'
    BY <2>1, <2>3, <2>4 DEF EndInv, CaughtInv, Ended
  <2>6. \A s \in Pairs : current'[s] = IF s = SidOf(r) THEN issued + 1 ELSE current[s]
    BY <1>3, <1>0 DEF Mint
  <2>7. EndedStaysEnded'
    BY <1>0, <2>1, <2>2, <2>6 DEF EndInv, CaughtInv, EndedStaysEnded, Ended
  <2> QED BY <2>5, <2>7 DEF EndInv
<1>4. ASSUME NEW r \in Requests, Open(r) PROVE EndInv'
  <2>1. UNCHANGED <<closed, killed, caught, carried>>
    BY <1>4 DEF Open, Goes, histories
  <2>3. \A q \in Requests : step'[q] = "mint" => step[q] = "mint" /\ NeedsPair(q)
    BY <1>4, <1>0 DEF Open, Goes, NeedsPair
  <2>4. \A q \in Requests : NeedsPair(q) => SidOf(q)' = SidOf(q)
    <3> SUFFICES ASSUME NEW q \in Requests, NeedsPair(q)
                 PROVE  SidOf(q)' = SidOf(q)
      OBVIOUS
    <3>1. carried[q] \in Pairs /\ carried[q] # issued + 1
      BY <1>0, Sids
    <3> QED BY <1>4, <1>0, <2>1, <3>1 DEF Open, SidOf
  <2>5. CaughtInv'
    BY <2>1, <2>3, <2>4 DEF EndInv, CaughtInv, Ended
  <2>6. \A s \in Pairs : s # issued + 1 => current'[s] = current[s]
    BY <1>4, <1>0 DEF Open
  <2>7. issued + 1 \notin Ended
    BY <1>0
  <2>8. EndedStaysEnded'
    BY <1>0, <2>1, <2>6, <2>7 DEF EndInv, EndedStaysEnded, Ended
  <2> QED BY <2>5, <2>8 DEF EndInv
<1>5. ASSUME NEW r \in Requests, Revoke(r) \/ Logout(r) PROVE EndInv'
  <2>1. NeedsPair(r)
    BY <1>5 DEF Revoke, Logout, NeedsPair
  <2>2. SidOf(r) \in Pairs
    BY <2>1, Sids
  <2>3. /\ Delete({SidOf(r)}) /\ Ended' = Ended \union {SidOf(r)}
        /\ session' = session /\ carried' = carried
        /\ \A q \in Requests : step'[q] = "mint" => step[q] = "mint"
    BY <1>5, <1>0 DEF Revoke, Logout, Goes, tokens, Ended
  <2> QED BY <2>2, <2>3, EndDelete
<1>6. ASSUME NEW r \in Requests, Sweep(r) PROVE EndInv'
  <2>1. PICK batch \in SUBSET LiveSessions :
          Delete(batch) /\ closed' = closed \union batch
    BY <1>6 DEF Sweep
  <2>2. /\ Ended' = Ended \union batch /\ batch \in SUBSET Pairs
        /\ session' = session /\ carried' = carried
        /\ \A q \in Requests : step'[q] = "mint" => step[q] = "mint"
    BY <1>6, <1>0, <2>1 DEF Sweep, Goes, tokens, Ended, LiveSessions
  <2> QED BY <2>1, <2>2, EndDelete
<1>7. ASSUME NEW s \in Pairs, Lapse(s) PROVE EndInv'
  <2>1. /\ Delete({s}) /\ Ended' = Ended \union {s}
        /\ session' = session /\ carried' = carried /\ step' = step
    BY <1>7 DEF Lapse, tokens, handlers, Ended
  <2> QED BY <2>1, EndDelete
<1>8. ASSUME NEW r \in Requests,
             Remember(r) \/ Recent(r) \/ Work(r) \/ Refuse(r) \/ SignIn(r)
               \/ Break(r) \/ ChangePassword(r) \/ SweepDone(r) \/ Receive(r)
      PROVE  EndInv'
  <2>1. UNCHANGED <<current, session, closed, killed, caught>>
    BY <1>8 DEF Remember, Recent, Work, Refuse, SignIn, Break, ChangePassword,
                SweepDone, Receive, redis, tokens, histories
  <2>2. \A q \in Requests :
          step'[q] = "mint" => step[q] = "mint" /\ carried'[q] = carried[q]
    BY <1>8, <1>0 DEF Remember, Recent, Work, Refuse, SignIn, Break,
                      ChangePassword, SweepDone, Receive, Goes
  <2> QED BY <2>1, <2>2, EndQuiet
<1>9. ASSUME NEW p \in Pairs, GraceEnds(p) PROVE EndInv'
  <2>1. UNCHANGED <<current, session, closed, killed, caught, step, carried>>
    BY <1>9 DEF GraceEnds, redis, tokens, handlers, histories
  <2> QED BY <2>1, EndQuiet
<1>10. CASE Expire \/ UNCHANGED sessionVars
  <2>1. UNCHANGED <<current, session, closed, killed, caught, step, carried>>
    BY <1>10 DEF Expire, sessionVars, redis, tokens, handlers, histories
  <2> QED BY <2>1, EndQuiet
<1>11. QED
  BY <1>1, <1>2, <1>3, <1>4, <1>5, <1>6, <1>7, <1>8, <1>9, <1>10
     DEF SessionNext, ServerStep, Clock

\* Whoever presents what, a session that was logged out, swept by a password
\* change, aged out or revoked for a replay is not valid again, unless a
\* rotation had read it before.
THEOREM EndIsFinal == SessionSpec => []EndedStaysEnded
<1>1. EndInv => EndedStaysEnded
  BY DEF EndInv
<1>2. QED BY TypeInit, TypeStep, EndInit, EndStep, <1>1, PTL DEF SessionSpec

-----------------------------------------------------------------------------
\* What the losers of a race are given

LEMMA PairInit == SessionInit => PairInv
  BY DEF SessionInit, PairInv, RotationInv, RememberedInv

\* Nothing that worked stops working without a reason.
Lasting ==
  \A p \in 1..issued, n \in Pairs : Works(p, n) => Works(p, n)'

LEMMA PairKeeps ==
  ASSUME TypeInv, PairInv, Lasting,
         \A p \in Pairs : renewed'[p] # None =>
           renewed'[p] = renewed[p] \/ Works(p, renewed[p])',
         \A q \in Requests : step'[q] = "mint" =>
           \/ step[q] = "mint" /\ carried'[q] = carried[q]
           \/ Works(carried[q], carried[q])',
         \A q \in Requests : step'[q] = "remember" =>
           \/ /\ step[q] = "remember" /\ carried'[q] = carried[q]
              /\ fresh'[q] = fresh[q]
           \/ fresh'[q] # None /\ Works(carried[q], fresh[q])'
  PROVE  PairInv'
<1>1. ASSUME NEW q \in Requests, step[q] \in {"mint", "remember"}
      PROVE  carried[q] \in 1..issued /\ carried[q] \in Pairs
  BY <1>1, Sids DEF NeedsPair
<1>2. ASSUME NEW q \in Requests, step'[q] = "mint"
      PROVE  Works(carried[q], carried[q])'
  <2>1. CASE step[q] = "mint" /\ carried'[q] = carried[q]
    <3>1. Works(carried[q], carried[q])
      BY <2>1 DEF PairInv, RotationInv
    <3>2. carried[q] \in 1..issued /\ carried[q] \in Pairs
      BY <1>1, <2>1
    <3> QED BY <2>1, <3>1, <3>2 DEF Lasting, Works
  <2> QED BY <1>2, <2>1
<1>3. ASSUME NEW q \in Requests, step'[q] = "remember"
      PROVE  fresh'[q] # None /\ Works(carried[q], fresh[q])'
  <2>1. CASE /\ step[q] = "remember" /\ carried'[q] = carried[q]
             /\ fresh'[q] = fresh[q]
    <3>1. fresh[q] # None /\ Works(carried[q], fresh[q])
      BY <2>1 DEF PairInv, RotationInv
    <3>2. carried[q] \in 1..issued /\ fresh[q] \in Pairs
      BY <1>1, <2>1, <3>1, Ranges
    <3> QED BY <2>1, <3>1, <3>2 DEF Lasting, Works
  <2> QED BY <1>3, <2>1
<1>4. RotationInv'
  BY <1>2, <1>3 DEF RotationInv
<1>5. ASSUME NEW p \in Pairs, renewed'[p] # None
      PROVE  Works(p, renewed[p])'
  <2>1. CASE renewed'[p] = renewed[p]
    <3>1. Works(p, renewed[p])
      BY <1>5, <2>1 DEF PairInv, RememberedInv
    <3>2. p \in 1..issued /\ renewed[p] \in Pairs
      <4>1. renewed[p] # None
        BY <1>5, <2>1
      <4>2. renewed[p] \in Pairs \union {None} /\ issued \in 0..MaxPairs
        BY <1>5 DEF TypeInv, SessionTypeOK
      <4>3. p <= issued
        BY <1>5, <4>1 DEF TypeInv, SignedInv
      <4> QED BY <1>5, <4>1, <4>2, <4>3
    <3> QED BY <2>1, <3>1, <3>2 DEF Lasting, Works
  <2> QED BY <1>5, <2>1
<1>6. RememberedInv'
  BY <1>5 DEF RememberedInv
<1>7. QED BY <1>4, <1>6 DEF PairInv

\* A step that writes no session lets everything work on.
LEMMA LastingQuiet ==
  ASSUME UNCHANGED <<current, session>>, rotated \subseteq rotated',
         Ended \subseteq Ended', overlapped \subseteq overlapped'
  PROVE  Lasting
  BY DEF Lasting, Works

LEMMA LastingDelete ==
  ASSUME TypeInv, NEW S \in SUBSET Pairs, Delete(S), session' = session,
         rotated' = rotated, overlapped' = overlapped,
         Ended' = Ended \union S
  PROVE  Lasting
<1>1. \A s \in Pairs : s \notin S => current'[s] = current[s]
  BY DEF Delete
<1>2. \A p \in 1..issued : session[p] \in Pairs
  BY DEF TypeInv, SessionTypeOK
<1>3. QED BY <1>1, <1>2 DEF Lasting, Works

LEMMA PairStep == TypeInv /\ PairInv /\ [SessionNext]_sessionVars => PairInv'
<1> SUFFICES ASSUME TypeInv, PairInv, [SessionNext]_sessionVars PROVE PairInv'
  OBVIOUS
<1>0. /\ step \in [Requests -> Steps] /\ carried \in [Requests -> 0..issued]
      /\ issued \in 0..MaxPairs
      /\ session \in [Pairs -> Pairs]
      /\ current \in [Pairs -> Pairs \union {None}]
      /\ renewed \in [Pairs -> Pairs \union {None}]
      /\ fresh \in [Requests -> 0..issued]
  BY DEF TypeInv, SessionTypeOK
<1>s. \A p \in 1..issued : p \in Pairs /\ session[p] \in 1..issued
  <2>1. \A p \in 1..issued : p \in Pairs
    BY <1>0
  <2>2. \A p \in Pairs : session[p] \in Pairs /\ (p <= issued => session[p] <= issued)
    BY DEF TypeInv, SessionTypeOK, SignedInv
  <2> QED BY <2>1, <2>2, <1>0
<1>1. ASSUME NEW r \in Requests, NEW p \in 0..MaxPairs, NEW j \in Jobs,
             Send(r, p, j)
      PROVE  PairInv'
  <2>1. UNCHANGED <<current, session, rotated, overlapped, Ended, renewed>>
    BY <1>1 DEF Send, redis, tokens, histories, Ended
  <2>2. \A q \in Requests :
          step'[q] \in {"mint", "remember"} =>
            step'[q] = step[q] /\ carried'[q] = carried[q] /\ fresh'[q] = fresh[q]
    BY <1>1, <1>0 DEF Send
  <2>3. Lasting
    BY <2>1, LastingQuiet
  <2> QED BY <2>1, <2>2, <2>3, PairKeeps
<1>2. ASSUME NEW r \in Requests, Authenticate(r) PROVE PairInv'
  <2>1. UNCHANGED <<current, session, rotated, overlapped, Ended, renewed, carried,
                    fresh>>
    BY <1>2 DEF Authenticate, Goes, redis, tokens, histories, Ended
  <2>2. \A q \in Requests : q # r => step'[q] = step[q]
    BY <1>2, <1>0 DEF Authenticate, Goes
  <2>3. step'[r] = Verdict(carried[r])
    BY <1>2, <1>0 DEF Authenticate, Goes
  <2>4. /\ Verdict(carried[r]) # "remember"
        /\ Verdict(carried[r]) = "mint" =>
             current[session[carried[r]]] = carried[r]
    BY DEF Verdict
  <2>5. step'[r] = "mint" => Works(carried[r], carried[r])'
    BY <2>1, <2>3, <2>4 DEF Works
  <2>6. Lasting
    BY <2>1, LastingQuiet
  <2> QED BY <2>1, <2>2, <2>3, <2>4, <2>5, <2>6, PairKeeps
<1>3. ASSUME NEW r \in Requests, Mint(r) PROVE PairInv'
  <2>1. NeedsPair(r) /\ step[r] = "mint"
    BY <1>3 DEF Mint, NeedsPair
  <2>2. /\ carried[r] \in 1..issued /\ carried[r] \in Pairs
        /\ SidOf(r) \in 1..issued /\ SidOf(r) \in Pairs
    BY <2>1, Sids
  <2>3. /\ issued + 1 \in Pairs /\ issued + 1 # None
        /\ \A p \in 1..issued : p # issued + 1
    BY <1>3, <1>0 DEF Mint
  <2>4. /\ \A p \in 1..issued : session'[p] = session[p]
        /\ \A s \in Pairs : current'[s] = IF s = SidOf(r) THEN issued + 1
                                                       ELSE current[s]
        /\ fresh'[r] = issued + 1
        /\ \A q \in Requests : q # r => fresh'[q] = fresh[q]
    BY <1>3, <1>0, <1>s, <2>3 DEF Mint
  <2>5. /\ rotated' = rotated \union {carried[r]} /\ Ended' = Ended
        /\ overlapped' = IF carried[r] \in rotated
                           THEN overlapped \union {SidOf(r)} ELSE overlapped
        /\ renewed' = renewed /\ carried' = carried
    BY <1>3 DEF Mint, Goes, Ended
  <2>6. /\ step'[r] = "remember"
        /\ \A q \in Requests : q # r => step'[q] = step[q]
    BY <1>3, <1>0 DEF Mint, Goes
  <2>7. \/ current[SidOf(r)] = carried[r] \/ carried[r] \in rotated
        \/ SidOf(r) \in Ended \union overlapped
    BY <2>1 DEF PairInv, RotationInv, Works, SidOf
  <2>8. Lasting
    <3> SUFFICES ASSUME NEW p \in 1..issued, NEW n \in Pairs, Works(p, n)
                 PROVE  Works(p, n)'
      BY DEF Lasting
    <3>1. session'[p] = session[p] /\ session[p] \in Pairs
      BY <1>s, <2>4, <1>0
    <3>2. CASE session[p] # SidOf(r)
      BY <2>4, <2>5, <3>1, <3>2 DEF Works
    <3>3. CASE session[p] = SidOf(r)
      <4>1. rotated \subseteq rotated' /\ carried[r] \in rotated'
        BY <2>5
      <4>2. Ended \union overlapped \subseteq (Ended \union overlapped)'
        BY <2>5
      <4>3. carried[r] \in rotated => SidOf(r) \in overlapped'
        BY <2>5
      <4>4. n \in rotated' \/ session[p] \in (Ended \union overlapped)'
        <5>1. CASE carried[r] \in rotated \/ SidOf(r) \in Ended \union overlapped
          BY <3>3, <4>2, <4>3, <5>1
        <5>2. CASE current[SidOf(r)] = carried[r]
          BY <3>3, <4>1, <4>2, <5>2 DEF Works
        <5> QED BY <2>7, <5>1, <5>2
      <4> QED BY <3>1, <4>4 DEF Works
    <3> QED BY <3>2, <3>3
  <2>9. Works(carried[r], fresh[r])'
    BY <2>2, <2>4, <2>5 DEF Works, SidOf
  <2> QED BY <2>3, <2>4, <2>5, <2>6, <2>8, <2>9, PairKeeps
<1>4. ASSUME NEW r \in Requests, Open(r) PROVE PairInv'
  <2>1. /\ issued + 1 \in Pairs
        /\ \A p \in 1..issued : p # issued + 1
    BY <1>4, <1>0 DEF Open
  <2>2. \A p \in 1..issued : session'[p] = session[p] /\ current'[p] = current[p]
    BY <1>4, <1>0, <1>s, <2>1 DEF Open
  <2>3. /\ UNCHANGED <<rotated, Ended, overlapped, renewed, carried>>
        /\ step'[r] = "ok"
        /\ \A q \in Requests : q # r => step'[q] = step[q] /\ fresh'[q] = fresh[q]
    BY <1>4, <1>0 DEF Open, Goes, histories, Ended
  <2>4. Lasting
    BY <2>2, <2>3, <1>s DEF Lasting, Works
  <2> QED BY <2>3, <2>4, PairKeeps
<1>5. ASSUME NEW r \in Requests, Remember(r) PROVE PairInv'
  <2>1. NeedsPair(r) /\ step[r] = "remember"
    BY <1>5 DEF Remember, NeedsPair
  <2>2. carried[r] \in Pairs
    BY <2>1, Sids
  <2>3. UNCHANGED <<current, session, rotated, overlapped, Ended, carried, fresh>>
    BY <1>5 DEF Remember, Goes, tokens, histories, Ended
  <2>4. /\ \A p \in Pairs : renewed'[p] = IF p = carried[r] THEN fresh[r]
                                                        ELSE renewed[p]
        /\ step'[r] = "handle"
        /\ \A q \in Requests : q # r => step'[q] = step[q]
    BY <1>5, <1>0 DEF Remember, Goes
  <2>5. Works(carried[r], fresh[r])
    BY <2>1 DEF PairInv, RotationInv
  <2>6. Works(carried[r], renewed[carried[r]])'
    BY <2>2, <2>3, <2>4, <2>5 DEF Works
  <2>7. Lasting
    BY <2>3, LastingQuiet
  <2>8. \A p \in Pairs : renewed'[p] # None =>
          renewed'[p] = renewed[p] \/ Works(p, renewed[p])'
    BY <2>3, <2>4, <2>6 DEF Works
  <2> QED BY <2>3, <2>4, <2>7, <2>8, PairKeeps
<1>6. ASSUME NEW r \in Requests, Revoke(r) \/ Logout(r) PROVE PairInv'
  <2>1. SidOf(r) \in Pairs
    BY <1>6, Sids DEF Revoke, Logout, NeedsPair
  <2>2. /\ Delete({SidOf(r)}) /\ Ended' = Ended \union {SidOf(r)}
        /\ UNCHANGED <<session, rotated, overlapped, renewed, carried, fresh>>
    BY <1>6 DEF Revoke, Logout, Goes, tokens, Ended
  <2>3. \A q \in Requests :
          step'[q] \in {"mint", "remember"} => step'[q] = step[q]
    BY <1>6, <1>0 DEF Revoke, Logout, Goes
  <2>4. Lasting
    BY <2>1, <2>2, LastingDelete
  <2> QED BY <2>2, <2>3, <2>4, PairKeeps
<1>7. ASSUME NEW r \in Requests, Sweep(r) PROVE PairInv'
  <2>1. PICK batch \in SUBSET LiveSessions :
          Delete(batch) /\ closed' = closed \union batch
    BY <1>7 DEF Sweep
  <2>2. /\ Ended' = Ended \union batch /\ batch \in SUBSET Pairs
        /\ UNCHANGED <<session, rotated, overlapped, renewed, carried, fresh>>
    BY <1>7, <2>1 DEF Sweep, Goes, tokens, Ended, LiveSessions
  <2>3. \A q \in Requests :
          step'[q] \in {"mint", "remember"} => step'[q] = step[q]
    BY <1>7, <1>0 DEF Sweep, Goes
  <2>4. Lasting
    BY <2>1, <2>2, LastingDelete
  <2> QED BY <2>2, <2>3, <2>4, PairKeeps
<1>8. ASSUME NEW s \in Pairs, Lapse(s) PROVE PairInv'
  <2>1. /\ Delete({s}) /\ Ended' = Ended \union {s}
        /\ UNCHANGED <<session, rotated, overlapped, renewed, carried, fresh, step>>
    BY <1>8 DEF Lapse, tokens, handlers, Ended
  <2>2. Lasting
    BY <2>1, LastingDelete
  <2> QED BY <2>1, <2>2, PairKeeps
<1>9. ASSUME NEW r \in Requests,
             Recent(r) \/ Work(r) \/ Refuse(r) \/ SignIn(r) \/ Break(r)
               \/ ChangePassword(r) \/ SweepDone(r) \/ Receive(r)
      PROVE  PairInv'
  <2>1. /\ UNCHANGED <<current, session, rotated, Ended, renewed>>
        /\ overlapped \subseteq overlapped'
    BY <1>9 DEF Recent, Work, Refuse, SignIn, Break, ChangePassword,
                SweepDone, Receive, redis, tokens, histories, Ended
  <2>2. \A q \in Requests :
          step'[q] \in {"mint", "remember"} =>
            step'[q] = step[q] /\ carried'[q] = carried[q] /\ fresh'[q] = fresh[q]
    BY <1>9, <1>0 DEF Recent, Work, Refuse, SignIn, Break, ChangePassword,
                      SweepDone, Receive, Goes
  <2>3. Lasting
    BY <2>1, LastingQuiet
  <2> QED BY <2>1, <2>2, <2>3, PairKeeps
<1>10. ASSUME NEW p \in Pairs, GraceEnds(p) PROVE PairInv'
  <2>1. UNCHANGED <<current, session, rotated, overlapped, Ended, step, carried,
                    fresh>>
    BY <1>10 DEF GraceEnds, tokens, handlers, histories, Ended
  <2>2. \A q \in Pairs : renewed'[q] # None => renewed'[q] = renewed[q]
    BY <1>10, <1>0 DEF GraceEnds
  <2>3. Lasting
    BY <2>1, LastingQuiet
  <2> QED BY <2>1, <2>2, <2>3, PairKeeps
<1>11. CASE Expire \/ UNCHANGED sessionVars
  <2>1. UNCHANGED <<current, session, rotated, overlapped, Ended, renewed, step,
                    carried, fresh>>
    BY <1>11 DEF Expire, sessionVars, redis, tokens, handlers, histories, Ended
  <2>2. Lasting
    BY <2>1, LastingQuiet
  <2> QED BY <2>1, <2>2, PairKeeps
<1>12. QED
  BY <1>1, <1>2, <1>3, <1>4, <1>5, <1>6, <1>7, <1>8, <1>9, <1>10, <1>11
     DEF SessionNext, ServerStep, Clock

\* The pair that a losing refresh gets within the grace is one that works,
\* unless the session is over or two rotations overlapped.
THEOREM LosersGetAWorkingPair == SessionSpec => []RememberedPairWorks
<1>1. PairInv => RememberedPairWorks
  BY DEF PairInv, RememberedInv, RememberedPairWorks, Works
<1>2. QED BY TypeInit, TypeStep, PairInit, PairStep, <1>1, PTL DEF SessionSpec

-----------------------------------------------------------------------------
\* Devices do not end each other's sessions

EndsOnlyItself ==
  \A s \in Pairs : current[s] # None /\ current'[s] = None => EndsItself(s)

LEMMA PerDeviceStep ==
  TypeInv /\ [SessionNext]_sessionVars => [EndsOnlyItself]_sessionVars
<1> SUFFICES ASSUME TypeInv, SessionNext,
                    NEW s \in Pairs, current[s] # None, current'[s] = None
             PROVE  EndsItself(s)
  BY DEF EndsOnlyItself
<1>0. current \in [Pairs -> Pairs \union {None}]
  BY DEF TypeInv, SessionTypeOK
<1>1. ASSUME NEW r \in Requests, Revoke(r) \/ Logout(r) PROVE EndsItself(s)
  <2>1. step[r] \in {"handle", "revoke"} /\ NeedsPair(r)
    BY <1>1 DEF Revoke, Logout, NeedsPair
  <2>2. carried[r] # None
    BY <2>1 DEF TypeInv, CarriersInv
  <2>3. Delete({SidOf(r)})
    BY <1>1 DEF Revoke, Logout
  <2>4. SidOf(r) = s
    BY <1>0, <2>3 DEF Delete
  <2> QED BY <2>1, <2>2, <2>4 DEF EndsItself
<1>2. ASSUME NEW r \in Requests, Sweep(r) PROVE EndsItself(s)
  BY <1>2 DEF Sweep, EndsItself
<1>3. ASSUME NEW t \in Pairs, Lapse(t) PROVE EndsItself(s)
  <2>1. t = s
    BY <1>0, <1>3 DEF Lapse, Delete
  <2> QED BY <1>3, <2>1 DEF Lapse, EndsItself
<1>4. ASSUME NEW r \in Requests, Mint(r) \/ Open(r) PROVE FALSE
  <2>1. issued + 1 # None /\ issued \in 0..MaxPairs
    BY DEF TypeInv, SessionTypeOK
  <2> QED BY <1>0, <1>4, <2>1 DEF Mint, Open
<1>5. ASSUME NEW r \in Requests,
             Authenticate(r) \/ Remember(r) \/ Recent(r) \/ Work(r) \/ Refuse(r)
               \/ SignIn(r) \/ Break(r) \/ ChangePassword(r) \/ SweepDone(r)
               \/ Receive(r)
      PROVE  FALSE
  BY <1>5 DEF Authenticate, Remember, Recent, Work, Refuse, SignIn, Break,
              ChangePassword, SweepDone, Receive, redis
<1>6. ASSUME NEW r \in Requests, NEW p \in 0..MaxPairs, NEW j \in Jobs,
             Send(r, p, j)
      PROVE  FALSE
  BY <1>6 DEF Send, redis
<1>7. ASSUME NEW p \in Pairs, GraceEnds(p) PROVE FALSE
  BY <1>7 DEF GraceEnds
<1>8. CASE Expire
  BY <1>8 DEF Expire, redis
<1>9. QED
  BY <1>1, <1>2, <1>3, <1>4, <1>5, <1>6, <1>7, <1>8
     DEF SessionNext, ServerStep, Clock

\* Signing out, replaying a token or growing old on one device ends that
\* device's session and no other; only a change of the password ends them all.
THEOREM DevicesAreSeparate == SessionSpec => SessionsArePerDevice
<1>1. SessionSpec => [][EndsOnlyItself]_sessionVars
  BY TypeInit, TypeStep, PerDeviceStep, PTL DEF SessionSpec
<1>2. QED BY <1>1 DEF SessionsArePerDevice, EndsOnlyItself

-----------------------------------------------------------------------------
\* Phones and browsers are senders that Sessions allows

TaskInv == task \in [Requests -> Jobs]
Joint   == TypeInv /\ TaskInv

LEMMA JobsOfDevice ==
  ASSUME NEW d PROVE JobsOf(d) \subseteq Jobs
  BY DEF JobsOf, Jobs

LEMMA DispatchSends ==
  ASSUME TypeInv, NEW r \in Requests, NEW d, NEW j \in Jobs, Dispatch(r, d, j)
  PROVE  SessionNext
<1>1. PICK p : p = holds[d]
  OBVIOUS
<1>2. Send(r, p, j)
  BY <1>1 DEF Dispatch
<1>3. p \in 0..issued /\ issued \in 0..MaxPairs
  BY <1>2 DEF Send, TypeInv, SessionTypeOK
<1>4. p \in 0..MaxPairs
  BY <1>3
<1>5. QED BY <1>2, <1>4 DEF SessionNext

LEMMA InterceptSends ==
  ASSUME TypeInv, NEW r \in Requests, NEW d, NEW j \in Jobs, Intercept(r, d, j)
  PROVE  SessionNext \/ UNCHANGED sessionVars
<1>1. Dispatch(r, d, j) \/ UNCHANGED sessionVars
  BY DEF Intercept, HoldBack
<1>2. QED BY <1>1, DispatchSends

LEMMA ClientSteps ==
  Joint /\ Next => (SessionNext \/ UNCHANGED sessionVars) /\ TaskInv'
<1> SUFFICES ASSUME Joint, Next
             PROVE  (SessionNext \/ UNCHANGED sessionVars) /\ TaskInv'
  OBVIOUS
<1>0. "public" \in Jobs
  BY DEF Jobs
<1>1. ASSUME NEW r \in Requests, Begin(r)
      PROVE  (SessionNext \/ UNCHANGED sessionVars) /\ TaskInv'
  <2>0. PICK d \in Devices :
          \E j \in JobsOf(d) :
            task' = [task EXCEPT ![r] = j] /\ Intercept(r, d, j)
    BY <1>1 DEF Begin
  <2>1. PICK j \in JobsOf(d) :
          task' = [task EXCEPT ![r] = j] /\ Intercept(r, d, j)
    BY <2>0
  <2>2. j \in Jobs
    BY JobsOfDevice
  <2> QED BY <2>1, <2>2, InterceptSends DEF Joint, TaskInv
<1>2. ASSUME NEW r \in Requests, Resume(r)
      PROVE  (SessionNext \/ UNCHANGED sessionVars) /\ TaskInv'
  <2>1. PICK d, j : d = device[r] /\ j = task[r]
    OBVIOUS
  <2>2. Dispatch(r, d, j) /\ task' = task
    BY <1>2, <2>1 DEF Resume
  <2>3. j \in Jobs
    BY <2>1 DEF Joint, TaskInv
  <2> QED BY <2>2, <2>3, DispatchSends DEF Joint, TaskInv
<1>3. ASSUME NEW r \in Requests, Decide(r)
      PROVE  (SessionNext \/ UNCHANGED sessionVars) /\ TaskInv'
  <2>1. PICK d, j : d = device[r] /\ j = task[r]
    OBVIOUS
  <2>2. j \in Jobs
    BY <2>1 DEF Joint, TaskInv
  <2>3. \/ Intercept(r, d, j) /\ task' = task
        \/ UNCHANGED sessionVars /\ Finish(r)
    BY <1>3, <2>1 DEF Decide, SignOut
  <2> QED BY <1>0, <2>2, <2>3, InterceptSends DEF Joint, TaskInv, Finish
<1>4. ASSUME NEW r \in Requests,
             Arrive(r) \/ NetworkError(r) \/ BelieveIt(r) \/ Forget(r)
      PROVE  (SessionNext \/ UNCHANGED sessionVars) /\ TaskInv'
  <2>1. Receive(r) /\ Finish(r)
    BY <1>4 DEF Arrive, NetworkError, BelieveIt, Forget, SignOut
  <2> QED BY <1>0, <2>1 DEF Joint, TaskInv, Finish, SessionNext
<1>5. ASSUME NEW r \in Requests, TimeUp(r) \/ DoubtIt(r)
      PROVE  (SessionNext \/ UNCHANGED sessionVars) /\ TaskInv'
  BY <1>5 DEF TimeUp, DoubtIt, Joint, TaskInv, SessionNext
<1>6. ASSUME NEW r \in Requests, Serve(r) \/ ServerFails(r)
      PROVE  (SessionNext \/ UNCHANGED sessionVars) /\ TaskInv'
  BY <1>6 DEF Serve, ServerFails, clientSide, Joint, TaskInv, SessionNext
<1>7. ASSUME NEW d \in Killed, Save(d) \/ Restart(d)
      PROVE  (SessionNext \/ UNCHANGED sessionVars) /\ TaskInv'
  BY <1>0, <1>7 DEF Save, Restart, Joint, TaskInv
<1>8. ASSUME NEW p \in Pairs, GraceRunsOut(p) \/ SessionLapses(p)
      PROVE  (SessionNext \/ UNCHANGED sessionVars) /\ TaskInv'
  BY <1>8 DEF GraceRunsOut, SessionLapses, clientSide, Joint, TaskInv,
              SessionNext, Clock
<1>9. CASE TokenExpires
  BY <1>9 DEF TokenExpires, clientSide, Joint, TaskInv, SessionNext, Clock
<1>10. QED
  BY <1>1, <1>2, <1>3, <1>4, <1>5, <1>6, <1>7, <1>8, <1>9 DEF Next, ClientStep

\* What the mobile app and the admin web do is a behaviour of the server with
\* arbitrary senders, so that all that is proved of SessionSpec holds of them.
THEOREM ClientsAreSenders == Spec => SessionSpec
<1>1. Init => SessionInit /\ Joint
  BY TypeInit DEF Init, Joint, TaskInv, Jobs
<1>2. Joint /\ [Next]_vars => [SessionNext]_sessionVars /\ Joint'
  <2> SUFFICES ASSUME Joint, [Next]_vars
               PROVE  [SessionNext]_sessionVars /\ Joint'
    OBVIOUS
  <2>1. [SessionNext]_sessionVars /\ TaskInv'
    <3>1. CASE UNCHANGED vars
      BY <3>1 DEF vars, clientSide, Joint, TaskInv
    <3>2. CASE Next
      BY <3>2, ClientSteps
    <3> QED BY <3>1, <3>2
  <2> QED BY <2>1, TypeStep DEF Joint
<1>3. QED BY <1>1, <1>2, PTL DEF Spec, SessionSpec

\* With the mobile app and the admin web as senders, an ended session stays
\* ended, the losers of a race get a pair that works, and devices are separate.
THEOREM ClientsAreSafe ==
  Spec => []EndedStaysEnded /\ []RememberedPairWorks /\ SessionsArePerDevice
  BY ClientsAreSenders, EndIsFinal, LosersGetAWorkingPair, DevicesAreSeparate

-----------------------------------------------------------------------------
\* Types of the clients

\* A request that a client still follows has its device.
DeviceInv ==
  \A r \in Requests : phase[r] \in {"held", "sent", "doubt"} => device[r] \in Devices

ClientInv == ClientsTypeOK /\ DeviceInv

LEMMA DispatchTypes ==
  ASSUME TypeInv, ClientInv, NEW r \in Requests, NEW d \in Devices, NEW j,
         Dispatch(r, d, j) \/ \E X \in SUBSET Requests : HoldBack(r, X)
  PROVE  /\ phase' \in [Requests -> Phases]
         /\ \A q \in Requests : q # r => phase'[q] = phase[q]
         /\ presented' \in [Requests -> Pairs \union {None}]
         /\ waits' \in [Requests -> SUBSET Requests]
<1>1. /\ phase \in [Requests -> Phases] /\ holds[d] \in Pairs \union {None}
      /\ presented \in [Requests -> Pairs \union {None}]
      /\ waits \in [Requests -> SUBSET Requests]
  BY DEF ClientInv, ClientsTypeOK
<1>2. "sent" \in Phases /\ "held" \in Phases
  BY DEF Phases
<1>3. CASE Dispatch(r, d, j)
  BY <1>1, <1>2, <1>3 DEF Dispatch
<1>4. CASE \E X \in SUBSET Requests : HoldBack(r, X)
  BY <1>1, <1>2, <1>4 DEF HoldBack
<1>5. QED BY <1>3, <1>4

LEMMA InterceptTypes ==
  ASSUME NEW r \in Requests, NEW d, NEW j, Intercept(r, d, j)
  PROVE  Dispatch(r, d, j) \/ \E X \in SUBSET Requests : HoldBack(r, X)
<1>1. InFlightWith(r, d, holds[d]) \in SUBSET Requests
  BY DEF InFlightWith
<1>2. QED BY <1>1 DEF Intercept

LEMMA FinishTypes ==
  ASSUME ClientInv, NEW r \in Requests, Finish(r)
  PROVE  /\ phase' \in [Requests -> Phases]
         /\ phase'[r] = "idle"
         /\ \A q \in Requests : q # r => phase'[q] = phase[q] /\ device'[q] = device[q]
         /\ device' \in [Requests -> Devices \union {Nobody}]
         /\ presented' \in [Requests -> Pairs \union {None}]
         /\ task' \in [Requests -> Jobs]
         /\ retried' \subseteq Requests
<1>1. "idle" \in Phases /\ "public" \in Jobs
  BY DEF Phases, Jobs
<1>2. /\ phase \in [Requests -> Phases]
      /\ device \in [Requests -> Devices \union {Nobody}]
      /\ presented \in [Requests -> Pairs \union {None}]
      /\ task \in [Requests -> Jobs] /\ retried \subseteq Requests
  BY DEF ClientInv, ClientsTypeOK
<1>3. QED BY <1>1, <1>2 DEF Finish, Nobody

\* The sessions that the histories record.
LEMMA Notes ==
  ASSUME TypeInv, ClientInv, NEW r \in Requests
  PROVE  /\ NoteIdling(r) => hurried' \subseteq Pairs
         /\ NoteLoss(r) => lossy' \subseteq Pairs
         /\ fresh[r] \in Pairs \union {None}
<1>1. fresh[r] \in Pairs \union {None}
  BY Ranges
<1>2. hurried \subseteq Pairs /\ lossy \subseteq Pairs
  BY DEF ClientInv, ClientsTypeOK
<1>3. \A p \in Pairs : session[p] \in Pairs
  BY DEF TypeInv, SessionTypeOK
<1>4. NoteIdling(r) => hurried' \subseteq Pairs
  <2>1. 1..expired \subseteq Pairs
    BY DEF TypeInv, SessionTypeOK
  <2> QED BY <1>2, <1>3, <2>1 DEF NoteIdling
<1>5. NoteLoss(r) => lossy' \subseteq Pairs
  BY <1>1, <1>2, <1>3 DEF NoteLoss
<1>6. QED BY <1>1, <1>4, <1>5

LEMMA ClientTypes == TypeInv /\ ClientInv /\ [Next]_vars => ClientInv'
<1> SUFFICES ASSUME TypeInv, ClientInv, [Next]_vars PROVE ClientInv'
  OBVIOUS
<1>0. /\ holds \in [Devices -> Pairs \union {None}]
      /\ stored \in [Devices -> Pairs \union {None}]
      /\ phase \in [Requests -> Phases]
      /\ device \in [Requests -> Devices \union {Nobody}]
      /\ task \in [Requests -> Jobs]
      /\ presented \in [Requests -> Pairs \union {None}]
      /\ waits \in [Requests -> SUBSET Requests]
      /\ retried \subseteq Requests
      /\ hurried \subseteq Pairs /\ lossy \subseteq Pairs /\ misled \subseteq Pairs
  BY DEF ClientInv, ClientsTypeOK
<1>d. \A r \in Requests :
        phase[r] \in {"held", "sent", "doubt"} => device[r] \in Devices
  BY DEF ClientInv, DeviceInv
<1>s. \A p \in Pairs : session[p] \in Pairs
  BY DEF TypeInv, SessionTypeOK
<1>p. {"idle", "gone", "doubt"} \subseteq Phases /\ "public" \in Jobs
  BY DEF Phases, Jobs
<1>1. ASSUME NEW r \in Requests, Begin(r) PROVE ClientInv'
  <2>1. PICK d \in Devices :
          \E j \in JobsOf(d) :
            /\ device' = [device EXCEPT ![r] = d]
            /\ task' = [task EXCEPT ![r] = j] /\ Intercept(r, d, j)
    BY <1>1 DEF Begin
  <2>2. PICK j \in JobsOf(d) :
            /\ device' = [device EXCEPT ![r] = d]
            /\ task' = [task EXCEPT ![r] = j] /\ Intercept(r, d, j)
    BY <2>1
  <2>3. j \in Jobs
    BY JobsOfDevice
  <2>4. /\ phase' \in [Requests -> Phases]
        /\ \A q \in Requests : q # r => phase'[q] = phase[q]
        /\ presented' \in [Requests -> Pairs \union {None}]
        /\ waits' \in [Requests -> SUBSET Requests]
    BY <2>2, InterceptTypes, DispatchTypes
  <2>5. UNCHANGED <<holds, stored, retried, hurried, lossy, misled>>
    BY <1>1 DEF Begin, excuses
  <2>6. ClientsTypeOK'
    BY <1>0, <2>2, <2>3, <2>4, <2>5 DEF ClientsTypeOK, Devices
  <2>7. DeviceInv'
    BY <1>0, <1>d, <2>2, <2>4 DEF DeviceInv, Devices
  <2> QED BY <2>6, <2>7 DEF ClientInv
<1>2. ASSUME NEW r \in Requests, Resume(r) PROVE ClientInv'
  <2>1. PICK d, j : d = device[r] /\ j = task[r]
    OBVIOUS
  <2>2. d \in Devices /\ Dispatch(r, d, j)
    BY <1>2, <1>d, <2>1 DEF Resume
  <2>3. /\ phase' \in [Requests -> Phases]
        /\ \A q \in Requests : q # r => phase'[q] = phase[q]
        /\ presented' \in [Requests -> Pairs \union {None}]
        /\ waits' \in [Requests -> SUBSET Requests]
    BY <2>2, DispatchTypes
  <2>4. UNCHANGED <<holds, stored, device, task, retried, hurried, lossy, misled>>
    BY <1>2 DEF Resume, excuses
  <2>5. ClientsTypeOK'
    BY <1>0, <2>3, <2>4 DEF ClientsTypeOK, Devices
  <2>6. DeviceInv'
    BY <1>d, <2>1, <2>2, <2>3, <2>4 DEF DeviceInv, Devices
  <2> QED BY <2>5, <2>6 DEF ClientInv
<1>3. ASSUME NEW r \in Requests, TimeUp(r) PROVE ClientInv'
  <2>1. UNCHANGED <<holds, stored, phase, device, task, presented, retried, lossy,
                    misled>>
    BY <1>3 DEF TimeUp
  <2>2. waits' \in [Requests -> SUBSET Requests]
    BY <1>0, <1>3 DEF TimeUp
  <2>3. hurried' \subseteq Pairs
    BY <1>0, <1>d, <1>s, <1>3 DEF TimeUp
  <2>4. ClientsTypeOK'
    BY <1>0, <2>1, <2>2, <2>3 DEF ClientsTypeOK, Devices
  <2>5. DeviceInv'
    BY <1>d, <2>1 DEF DeviceInv, Devices
  <2> QED BY <2>4, <2>5 DEF ClientInv
<1>4. ASSUME NEW r \in Requests, Arrive(r) \/ NetworkError(r) \/ BelieveIt(r)
      PROVE  ClientInv'
  <2>1. Finish(r) /\ Untrack(r) /\ NoteIdling(r) /\ stored' = stored
        /\ misled' = misled
    BY <1>4 DEF Arrive, NetworkError, BelieveIt, SignOut
  <2>2. lossy' \subseteq Pairs
    BY <1>0, <1>4, Notes DEF Arrive, NetworkError, BelieveIt
  <2>3. holds' \in [Devices -> Pairs \union {None}]
    <3>1. CASE Arrive(r)
      <4>1. PairAfter(r) \in Pairs \union {None}
        <5>1. fresh[r] \in Pairs \union {None} /\ holds[device[r]] \in Pairs \union {None}
          BY <1>0, <1>d, <3>1, Notes DEF Arrive
        <5> QED BY <5>1 DEF PairAfter
      <4> QED BY <1>0, <3>1, <4>1 DEF Arrive
    <3>2. CASE NetworkError(r) \/ BelieveIt(r)
      BY <1>0, <3>2 DEF NetworkError, BelieveIt, SignOut
    <3> QED BY <1>4, <3>1, <3>2
  <2>4. waits' \in [Requests -> SUBSET Requests]
    BY <1>0, <2>1 DEF Untrack
  <2>5. hurried' \subseteq Pairs
    BY <2>1, Notes
  <2>6. ClientsTypeOK'
    BY <1>0, <2>1, <2>2, <2>3, <2>4, <2>5, FinishTypes DEF ClientsTypeOK, Devices
  <2>7. DeviceInv'
    BY <1>d, <2>1, FinishTypes DEF DeviceInv, Devices
  <2> QED BY <2>6, <2>7 DEF ClientInv
<1>5. ASSUME NEW r \in Requests, DoubtIt(r) PROVE ClientInv'
  <2>1. UNCHANGED <<holds, stored, device, task, presented, retried, lossy, misled>>
    BY <1>5 DEF DoubtIt
  <2>2. InFlightWith(r, device[r], presented[r]) \subseteq Requests
    BY DEF InFlightWith
  <2>3. waits' \in [Requests -> SUBSET Requests]
    BY <1>0, <1>5, <2>2 DEF DoubtIt
  <2>4. hurried' \subseteq Pairs
    BY <1>5, Notes DEF DoubtIt
  <2>5. /\ phase' \in [Requests -> Phases] /\ phase[r] = "sent"
        /\ \A q \in Requests : q # r => phase'[q] = phase[q]
    BY <1>0, <1>p, <1>5 DEF DoubtIt
  <2>6. ClientsTypeOK'
    BY <1>0, <2>1, <2>3, <2>4, <2>5 DEF ClientsTypeOK, Devices
  <2>7. DeviceInv'
    BY <1>d, <2>1, <2>5 DEF DeviceInv, Devices
  <2> QED BY <2>6, <2>7 DEF ClientInv
<1>6. ASSUME NEW r \in Requests, Decide(r) PROVE ClientInv'
  <2>1. PICK d, j : d = device[r] /\ j = task[r]
    OBVIOUS
  <2>2. d \in Devices
    BY <1>d, <1>6, <2>1 DEF Decide
  <2>3. UNCHANGED <<stored, hurried, lossy>>
    BY <1>6 DEF Decide
  <2>4. CASE /\ retried' = retried \union {r} /\ Intercept(r, d, j)
             /\ UNCHANGED <<holds, device, task, misled>>
    <3>1. /\ phase' \in [Requests -> Phases]
          /\ \A q \in Requests : q # r => phase'[q] = phase[q]
          /\ presented' \in [Requests -> Pairs \union {None}]
          /\ waits' \in [Requests -> SUBSET Requests]
      BY <2>2, <2>4, InterceptTypes, DispatchTypes
    <3>2. ClientsTypeOK'
      BY <1>0, <2>3, <2>4, <3>1 DEF ClientsTypeOK, Devices
    <3>3. DeviceInv'
      BY <1>d, <2>1, <2>2, <2>4, <3>1 DEF DeviceInv, Devices
    <3> QED BY <3>2, <3>3 DEF ClientInv
  <2>5. CASE /\ SignOut(r) /\ misled' = misled \union Alive(d) /\ waits' = waits
    <3>1. Alive(d) \subseteq Pairs
      BY <1>s DEF Alive
    <3>2. Finish(r) /\ holds' \in [Devices -> Pairs \union {None}]
      BY <1>0, <2>5 DEF SignOut
    <3>3. ClientsTypeOK'
      BY <1>0, <2>3, <2>5, <3>1, <3>2, FinishTypes DEF ClientsTypeOK, Devices
    <3>4. DeviceInv'
      BY <1>d, <3>2, FinishTypes DEF DeviceInv, Devices
    <3> QED BY <3>3, <3>4 DEF ClientInv
  <2> QED BY <1>6, <2>1, <2>4, <2>5 DEF Decide
<1>7. ASSUME NEW r \in Requests, Forget(r) PROVE ClientInv'
  <2>1. /\ Finish(r)
        /\ UNCHANGED <<holds, stored, waits, hurried, lossy, misled>>
    BY <1>7 DEF Forget, excuses
  <2>2. ClientsTypeOK'
    BY <1>0, <2>1, FinishTypes DEF ClientsTypeOK, Devices
  <2>3. DeviceInv'
    BY <1>d, <2>1, FinishTypes DEF DeviceInv, Devices
  <2> QED BY <2>2, <2>3 DEF ClientInv
<1>8. ASSUME NEW d \in Killed, Save(d) PROVE ClientInv'
  <2>1. d \in Devices
    BY ClientsAssumption DEF Devices
  <2>2. ClientsTypeOK'
    BY <1>0, <1>8, <2>1 DEF Save, excuses, ClientsTypeOK, Devices
  <2>3. DeviceInv'
    BY <1>d, <1>8 DEF Save, DeviceInv, Devices
  <2> QED BY <2>2, <2>3 DEF ClientInv
<1>9. ASSUME NEW d \in Killed, Restart(d) PROVE ClientInv'
  <2>1. d \in Devices
    BY ClientsAssumption DEF Devices
  <2>2. /\ phase' \in [Requests -> Phases]
        /\ \A q \in Requests :
             phase'[q] \in {"held", "sent", "doubt"} =>
               phase[q] = phase'[q] /\ device[q] # d
    BY <1>0, <1>p, <1>9 DEF Restart, InFlightOf
  <2>3. /\ holds' \in [Devices -> Pairs \union {None}]
        /\ task' \in [Requests -> Jobs]
        /\ presented' \in [Requests -> Pairs \union {None}]
        /\ waits' \in [Requests -> SUBSET Requests]
        /\ retried' \subseteq Requests
    BY <1>0, <1>p, <1>9, <2>1 DEF Restart
  <2>4. device' \in [Requests -> Devices \union {Nobody}]
    BY <1>0, <1>9 DEF Restart
  <2>5. lossy' \subseteq Pairs
    BY <1>0, <1>s, <1>9 DEF Restart
  <2>6. UNCHANGED <<stored, hurried, misled>>
    BY <1>9 DEF Restart
  <2>7. ClientsTypeOK'
    BY <1>0, <2>2, <2>3, <2>4, <2>5, <2>6 DEF ClientsTypeOK, Devices
  <2>8. \A q \in Requests : device[q] # d => device'[q] = device[q]
    BY <1>0, <1>9 DEF Restart
  <2>9. DeviceInv'
    BY <1>d, <2>2, <2>8 DEF DeviceInv, Devices
  <2> QED BY <2>7, <2>9 DEF ClientInv
<1>10. ASSUME NEW r \in Requests, ServerFails(r) PROVE ClientInv'
  <2>1. UNCHANGED <<holds, stored, phase, device, task, presented, waits, retried,
                    hurried, misled>> /\ lossy' \subseteq Pairs
    BY <1>10, Notes DEF ServerFails, clientSide
  <2> QED BY <1>0, <1>d, <2>1 DEF ClientInv, ClientsTypeOK, DeviceInv, Devices
<1>11. CASE TokenExpires \/ \E p \in Pairs : GraceRunsOut(p)
  <2>1. UNCHANGED <<holds, stored, phase, device, task, presented, waits, retried,
                    misled>>
    BY <1>11 DEF TokenExpires, GraceRunsOut, clientSide
  <2>2. hurried' \subseteq Pairs
    <3>1. \A r \in Requests : presented[r] \in Pairs \union {None}
      BY <1>0
    <3>2. CASE TokenExpires
      <4>1. expired + 1 \in Pairs
        BY <3>2 DEF TokenExpires, Expire, TypeInv, SessionTypeOK
      <4> QED BY <1>0, <1>s, <3>2, <4>1 DEF TokenExpires
    <3>3. CASE \E p \in Pairs : GraceRunsOut(p)
      BY <1>0, <3>3 DEF GraceRunsOut
    <3> QED BY <1>11, <3>2, <3>3
  <2>3. lossy' \subseteq Pairs
    <3>1. CASE TokenExpires
      BY <1>0, <3>1 DEF TokenExpires
    <3>2. CASE \E p \in Pairs : GraceRunsOut(p)
      <4>1. PICK p \in Pairs : GraceRunsOut(p)
        BY <3>2
      <4>2. lossy' = lossy \/ lossy' = lossy \union {session[p]}
        BY <4>1 DEF GraceRunsOut
      <4>3. session[p] \in Pairs /\ lossy \subseteq Pairs
        BY <1>0, <1>s
      <4> QED BY <4>2, <4>3
    <3> QED BY <1>11, <3>1, <3>2
  <2> QED BY <1>0, <1>d, <2>1, <2>2, <2>3
            DEF ClientInv, ClientsTypeOK, DeviceInv, Devices
<1>12. CASE (\E r \in Requests : Serve(r)) \/ (\E s \in Pairs : SessionLapses(s))
              \/ UNCHANGED vars
  <2>1. UNCHANGED <<holds, stored, phase, device, task, presented, waits, retried,
                    hurried, lossy, misled>>
    BY <1>12 DEF Serve, SessionLapses, vars, clientSide, excuses
  <2> QED BY <1>0, <1>d, <2>1 DEF ClientInv, ClientsTypeOK, DeviceInv, Devices
<1>13. QED
  BY <1>1, <1>2, <1>3, <1>4, <1>5, <1>6, <1>7, <1>8, <1>9, <1>10, <1>11, <1>12
     DEF Next, ClientStep

\* The whole composition keeps its types, and a client knows the device of each
\* request it still follows.
THEOREM ClientsTypeCorrect == Spec => []TypeOK
<1>1. Init => ClientInv
  BY DEF Init, ClientInv, ClientsTypeOK, DeviceInv, Phases, Jobs
<1>2. SessionSpec => []TypeInv
  BY TypeInit, TypeStep, PTL DEF SessionSpec
<1>3. TypeInv /\ ClientInv => TypeOK
  BY DEF TypeInv, ClientInv, TypeOK
<1>4. QED BY <1>1, <1>2, <1>3, ClientTypes, ClientsAreSenders, PTL DEF Spec

-----------------------------------------------------------------------------
\* What is exchanged

\* The types that the following proofs use.
Plainly ==
  /\ issued \in 0..MaxPairs /\ expired \in 0..issued /\ issued \in Int /\ expired \in Int
  /\ session \in [Pairs -> Pairs] /\ \A p \in 1..issued : session[p] \in 1..issued
  /\ current \in [Pairs -> Pairs \union {None}]
  /\ renewed \in [Pairs -> Pairs \union {None}]
  /\ \A p \in Pairs : renewed[p] # None => p \in 1..issued /\ renewed[p] \in 1..issued
  /\ \A p \in Pairs : current[p] # None => p \in 1..issued
  /\ step \in [Requests -> Steps] /\ job \in [Requests -> Jobs]
  /\ carried \in [Requests -> 0..issued] /\ fresh \in [Requests -> 0..issued]
  /\ todo \in [Requests -> SUBSET Pairs]
  /\ \A r \in Requests : NeedsPair(r) => carried[r] \in 1..issued
  /\ \A r \in Requests : step[r] = "idle" => fresh[r] = None
  /\ 1..issued \subseteq Pairs

LEMMA Plain == TypeInv => Plainly
<1> SUFFICES ASSUME TypeInv PROVE Plainly
  OBVIOUS
<1>1. /\ issued \in 0..MaxPairs /\ expired \in 0..issued
      /\ session \in [Pairs -> Pairs]
      /\ current \in [Pairs -> Pairs \union {None}]
      /\ renewed \in [Pairs -> Pairs \union {None}]
      /\ step \in [Requests -> Steps] /\ job \in [Requests -> Jobs]
      /\ carried \in [Requests -> 0..issued] /\ fresh \in [Requests -> 0..issued]
      /\ todo \in [Requests -> SUBSET Pairs]
      /\ \A r \in Requests : step[r] = "idle" => fresh[r] = None
  BY DEF TypeInv, SessionTypeOK
<1>2. \A p \in Pairs : /\ p <= issued => session[p] <= issued
                       /\ current[p] # None => p <= issued
                       /\ renewed[p] # None => p <= issued
                       /\ renewed[p] <= issued
  BY DEF TypeInv, SignedInv
<1>3. \A r \in Requests : NeedsPair(r) => carried[r] # None
  BY DEF TypeInv, CarriersInv
<1>4. issued \in Int /\ expired \in Int /\ 1..issued \subseteq Pairs
  BY <1>1
<1>5. \A p \in 1..issued : session[p] \in 1..issued
  BY <1>1, <1>2
<1>6. \A p \in Pairs : renewed[p] # None => p \in 1..issued /\ renewed[p] \in 1..issued
  BY <1>1, <1>2
<1>7. \A p \in Pairs : current[p] # None => p \in 1..issued
  BY <1>1, <1>2
<1>8. \A r \in Requests : NeedsPair(r) => carried[r] \in 1..issued
  BY <1>1, <1>3
<1> QED
  BY <1>1, <1>4, <1>5, <1>6, <1>7, <1>8 DEF Plainly

\* What each kind of step does, request by request and pair by pair.
SendEffect(r, p, j) ==
  /\ step[r] = "idle" /\ p \in 0..issued
  /\ step' = [step EXCEPT ![r] = IF j \in {"public", "signin"} THEN "handle" ELSE "auth"]
  /\ \A q \in Requests : /\ job'[q] = IF q = r THEN j ELSE job[q]
                         /\ carried'[q] = IF q = r THEN p ELSE carried[q]
  /\ UNCHANGED <<current, renewed, issued, session, expired, fresh, todo,
                 rotated, closed, killed, caught, overlapped>>

LEMMA SendDoes ==
  ASSUME TypeInv, NEW r \in Requests, NEW p, NEW j, Send(r, p, j)
  PROVE  SendEffect(r, p, j)
BY Plain DEF Plainly, SendEffect, Send, redis, tokens, histories

LEMMA GoesDoes ==
  ASSUME TypeInv, NEW r \in Requests, NEW to, Goes(r, to)
  PROVE  /\ \A q \in Requests : step'[q] = IF q = r THEN to ELSE step[q]
         /\ UNCHANGED <<job, carried>>
BY Plain DEF Plainly, Goes

\* Steps after which nothing is stored or delivered that was not before.
Moves(r) ==
  Authenticate(r) \/ Work(r) \/ Refuse(r) \/ SignIn(r) \/ Break(r)
    \/ ChangePassword(r) \/ SweepDone(r)

MoveEffect(r) ==
  /\ \A q \in Requests : q # r => step'[q] = step[q] /\ todo'[q] = todo[q]
  /\ \/ step[r] = "auth" /\ step'[r] = Verdict(carried[r])
     \/ step[r] = "handle" /\ step'[r] \in {"ok", "failed"}
     \/ step[r] = "handle" /\ job[r] = "signin" /\ step'[r] = "open"
     \/ step[r] = "handle" /\ step'[r] = "sweep" /\ todo'[r] = LiveSessions
     \/ step[r] = "sweep" /\ step'[r] = "open" /\ todo[r] \intersect LiveSessions = {}
     \/ step[r] \notin Answers \union {"idle"} /\ step'[r] = "broken"
  /\ UNCHANGED <<current, renewed, issued, session, expired, job, carried, fresh,
                 rotated, closed, killed, caught, overlapped>>

LEMMA MovesDo ==
  ASSUME TypeInv, NEW r \in Requests, Moves(r)
  PROVE  MoveEffect(r)
<1>1. UNCHANGED <<current, renewed, issued, session, expired, job, carried, fresh,
                  rotated, closed, killed, caught, overlapped>>
  BY DEF Moves, Authenticate, Work, Refuse, SignIn, Break, ChangePassword, SweepDone, Goes,
         redis, tokens, histories
<1>2. \A q \in Requests : q # r => todo'[q] = todo[q]
  BY Plain DEF Plainly, Moves, Authenticate, Work, Refuse, SignIn, Break, ChangePassword,
               SweepDone
<1>3. \E to : Goes(r, to)
  BY DEF Moves, Authenticate, Work, Refuse, SignIn, Break, ChangePassword, SweepDone
<1>4. \A q \in Requests : q # r => step'[q] = step[q]
  BY <1>3, GoesDoes
<1>5. CASE Authenticate(r)
  BY <1>1, <1>2, <1>4, <1>5, GoesDoes DEF Authenticate, MoveEffect
<1>6. CASE Work(r) \/ Refuse(r)
  BY <1>1, <1>2, <1>4, <1>6, GoesDoes DEF Work, Refuse, MoveEffect
<1>7. CASE SignIn(r)
  BY <1>1, <1>2, <1>4, <1>7, GoesDoes DEF SignIn, MoveEffect
<1>8. CASE ChangePassword(r)
  <2>1. todo'[r] = LiveSessions
    BY <1>8, Plain DEF ChangePassword, Plainly
  <2> QED
    BY <1>1, <1>2, <1>4, <1>8, <2>1, GoesDoes DEF ChangePassword, MoveEffect
<1>9. CASE SweepDone(r)
  BY <1>1, <1>2, <1>4, <1>9, GoesDoes DEF SweepDone, MoveEffect
<1>10. CASE Break(r)
  BY <1>1, <1>2, <1>4, <1>10, GoesDoes DEF Break, MoveEffect, Answers
<1> QED
  BY <1>5, <1>6, <1>7, <1>8, <1>9, <1>10 DEF Moves

MintEffect(r) ==
  /\ step[r] = "mint" /\ carried[r] \in 1..issued /\ SidOf(r) \in 1..issued
  /\ issued + 1 \in Pairs /\ issued' = issued + 1
  /\ session'[issued + 1] = SidOf(r)
  /\ \A p \in 1..issued : session'[p] = session[p]
  /\ \A s \in Pairs : current'[s] = IF s = SidOf(r) THEN issued + 1 ELSE current[s]
  /\ \A q \in Requests : /\ fresh'[q] = IF q = r THEN issued + 1 ELSE fresh[q]
                         /\ step'[q] = IF q = r THEN "remember" ELSE step[q]
  /\ rotated' = rotated \union {carried[r]}
  /\ overlapped' = IF carried[r] \in rotated
                     THEN overlapped \union {SidOf(r)} ELSE overlapped
  /\ UNCHANGED <<renewed, expired, todo, closed, killed, caught, job, carried>>

LEMMA MintDoes ==
  ASSUME TypeInv, NEW r \in Requests, Mint(r)
  PROVE  MintEffect(r)
<1>1. NeedsPair(r) /\ step[r] = "mint"
  BY DEF Mint, NeedsPair
<1>2. carried[r] \in 1..issued /\ SidOf(r) \in 1..issued
  BY <1>1, Sids
<1>3. issued + 1 \in Pairs
  BY Plain DEF Plainly, Mint
<1>4. \A q \in Requests : step'[q] = IF q = r THEN "remember" ELSE step[q]
  BY GoesDoes DEF Mint
<1>5. /\ session'[issued + 1] = SidOf(r)
      /\ \A p \in 1..issued : session'[p] = session[p]
  BY <1>3, Plain DEF Plainly, Mint
<1>6. \A s \in Pairs : current'[s] = IF s = SidOf(r) THEN issued + 1 ELSE current[s]
  BY Plain DEF Plainly, Mint
<1>7. \A q \in Requests : fresh'[q] = IF q = r THEN issued + 1 ELSE fresh[q]
  BY Plain DEF Plainly, Mint
<1>8. /\ issued' = issued + 1 /\ rotated' = rotated \union {carried[r]}
      /\ overlapped' = IF carried[r] \in rotated
                         THEN overlapped \union {SidOf(r)} ELSE overlapped
      /\ UNCHANGED <<renewed, expired, todo, closed, killed, caught, job, carried>>
  BY DEF Mint, Goes
<1> QED
  BY <1>1, <1>2, <1>3, <1>4, <1>5, <1>6, <1>7, <1>8 DEF MintEffect

OpenEffect(r) ==
  /\ step[r] = "open"
  /\ issued + 1 \in Pairs /\ issued' = issued + 1
  /\ session'[issued + 1] = issued + 1
  /\ \A p \in 1..issued : session'[p] = session[p]
  /\ \A s \in Pairs : current'[s] = IF s = issued + 1 THEN issued + 1 ELSE current[s]
  /\ \A q \in Requests : /\ fresh'[q] = IF q = r THEN issued + 1 ELSE fresh[q]
                         /\ step'[q] = IF q = r THEN "ok" ELSE step[q]
  /\ UNCHANGED <<renewed, expired, todo, rotated, closed, killed, caught, overlapped,
                 job, carried>>

LEMMA OpenDoes ==
  ASSUME TypeInv, NEW r \in Requests, Open(r)
  PROVE  OpenEffect(r)
<1>1. issued + 1 \in Pairs
  BY Plain DEF Plainly, Open
<1>2. \A q \in Requests : step'[q] = IF q = r THEN "ok" ELSE step[q]
  BY GoesDoes DEF Open
<1>3. /\ session'[issued + 1] = issued + 1
      /\ \A p \in 1..issued : session'[p] = session[p]
  BY <1>1, Plain DEF Plainly, Open
<1>4. \A s \in Pairs : current'[s] = IF s = issued + 1 THEN issued + 1 ELSE current[s]
  BY Plain DEF Plainly, Open
<1>5. \A q \in Requests : fresh'[q] = IF q = r THEN issued + 1 ELSE fresh[q]
  BY Plain DEF Plainly, Open
<1>6. /\ issued' = issued + 1 /\ step[r] = "open"
      /\ UNCHANGED <<renewed, expired, todo, rotated, closed, killed, caught, overlapped,
                     job, carried>>
  BY DEF Open, Goes, histories
<1> QED
  BY <1>1, <1>2, <1>3, <1>4, <1>5, <1>6 DEF OpenEffect

RememberEffect(r) ==
  /\ step[r] = "remember" /\ carried[r] \in 1..issued
  /\ \A p \in Pairs : renewed'[p] = IF p = carried[r] THEN fresh[r] ELSE renewed[p]
  /\ \A q \in Requests : step'[q] = IF q = r THEN "handle" ELSE step[q]
  /\ UNCHANGED <<current, issued, session, expired, fresh, todo, rotated, closed,
                 killed, caught, overlapped, job, carried>>

LEMMA RememberDoes ==
  ASSUME TypeInv, NEW r \in Requests, Remember(r)
  PROVE  RememberEffect(r)
<1>1. NeedsPair(r) /\ step[r] = "remember"
  BY DEF Remember, NeedsPair
<1>2. carried[r] \in 1..issued
  BY <1>1, Sids
<1>3. \A p \in Pairs : renewed'[p] = IF p = carried[r] THEN fresh[r] ELSE renewed[p]
  BY Plain DEF Plainly, Remember
<1>4. \A q \in Requests : step'[q] = IF q = r THEN "handle" ELSE step[q]
  BY GoesDoes DEF Remember
<1> QED
  BY <1>1, <1>2, <1>3, <1>4 DEF Remember, Goes, tokens, histories, RememberEffect

RecentEffect(r) ==
  /\ step[r] = "recent" /\ carried[r] \in 1..issued /\ SidOf(r) \in 1..issued
  /\ \A q \in Requests :
       /\ fresh'[q] = IF q = r THEN renewed[carried[r]] ELSE fresh[q]
       /\ q # r => step'[q] = step[q]
  /\ step'[r] = IF renewed[carried[r]] = None THEN "revoke" ELSE "handle"
  /\ overlapped' = IF renewed[carried[r]] = None
                        /\ \E q \in Requests : step[q] = "remember" /\ carried[q] = carried[r]
                     THEN overlapped \union {SidOf(r)} ELSE overlapped
  /\ UNCHANGED <<current, renewed, issued, session, expired, todo, rotated, closed,
                 killed, caught, job, carried>>

LEMMA RecentDoes ==
  ASSUME TypeInv, NEW r \in Requests, Recent(r)
  PROVE  RecentEffect(r)
<1>1. NeedsPair(r) /\ step[r] = "recent"
  BY DEF Recent, NeedsPair
<1>2. carried[r] \in 1..issued /\ SidOf(r) \in 1..issued
  BY <1>1, Sids
<1>3. Goes(r, IF renewed[carried[r]] = None THEN "revoke" ELSE "handle")
  BY DEF Recent
<1>4. \A q \in Requests :
        step'[q] = IF q = r THEN IF renewed[carried[r]] = None THEN "revoke" ELSE "handle"
                            ELSE step[q]
  BY <1>3, GoesDoes
<1>5. \A q \in Requests : fresh'[q] = IF q = r THEN renewed[carried[r]] ELSE fresh[q]
  BY Plain DEF Plainly, Recent
<1>6. overlapped' = IF renewed[carried[r]] = None
                         /\ \E q \in Requests : step[q] = "remember" /\ carried[q] = carried[r]
                      THEN overlapped \union {SidOf(r)} ELSE overlapped
  BY DEF Recent
<1> QED
  BY <1>1, <1>2, <1>4, <1>5, <1>6 DEF Recent, Goes, redis, tokens, RecentEffect

\* Steps that delete sessions.
Drops == (\E r \in Requests : Revoke(r) \/ Logout(r) \/ Sweep(r)) \/ \E s \in Pairs : Lapse(s)

DropEffect ==
  \E S \in SUBSET Pairs :
    /\ \A s \in Pairs : current'[s] = IF s \in S THEN None ELSE current[s]
    /\ caught' = caught \union (S \intersect BeingRotated)
    /\ \A q \in Requests :
         /\ \/ step'[q] = step[q]
            \/ step[q] = "revoke" /\ step'[q] = "denied" /\ S = {SidOf(q)}
            \/ step[q] = "handle" /\ step'[q] = "ok"
         /\ todo'[q] = todo[q] \/ todo'[q] = todo[q] \ S
    /\ UNCHANGED <<renewed, issued, session, expired, fresh, rotated, overlapped,
                   job, carried>>
    /\ \A s \in killed' :
         s \in killed \/ \E q \in Requests : step[q] = "revoke" /\ s = SidOf(q)

LEMMA DropsDo ==
  ASSUME TypeInv, Drops
  PROVE  DropEffect
<1> USE DEF DropEffect
<1>1. ASSUME NEW r \in Requests, Revoke(r) \/ Logout(r)
      PROVE  /\ SidOf(r) \in Pairs
             /\ Delete({SidOf(r)})
             /\ \A q \in Requests :
                  step'[q] = IF q # r THEN step[q]
                             ELSE IF step[r] = "revoke" THEN "denied" ELSE "ok"
             /\ step[r] \in {"revoke", "handle"}
             /\ todo' = todo
             /\ UNCHANGED <<renewed, issued, session, expired, fresh, rotated, overlapped,
                            job, carried>>
  <2>1. NeedsPair(r)
    BY <1>1 DEF Revoke, Logout, NeedsPair
  <2>2. SidOf(r) \in Pairs
    BY <2>1, Sids
  <2>3. Goes(r, IF step[r] = "revoke" THEN "denied" ELSE "ok")
    BY <1>1 DEF Revoke, Logout
  <2>4. \A q \in Requests :
          step'[q] = IF q # r THEN step[q]
                     ELSE IF step[r] = "revoke" THEN "denied" ELSE "ok"
    BY <2>3, GoesDoes
  <2> QED
    BY <1>1, <2>2, <2>3, <2>4 DEF Revoke, Logout, Goes, tokens
<1>k. \A s \in killed' :
         s \in killed \/ \E q \in Requests : step[q] = "revoke" /\ s = SidOf(q)
  BY DEF Drops, Revoke, Logout, Sweep, Lapse
<1>2. CASE \E r \in Requests : Revoke(r) \/ Logout(r)
  <2>1. PICK r \in Requests : Revoke(r) \/ Logout(r)
    BY <1>2
  <2> SidOf(r) \in Pairs
    BY <1>1, <2>1
  <2> WITNESS {SidOf(r)} \in SUBSET Pairs
  <2> QED
    BY <1>1, <1>k, <2>1 DEF Delete
<1>3. CASE \E r \in Requests : Sweep(r)
  <2>1. PICK r \in Requests : Sweep(r)
    BY <1>3
  <2>2. PICK S \in SUBSET LiveSessions :
          Delete(S) /\ todo' = [todo EXCEPT ![r] = @ \ S]
    BY <2>1 DEF Sweep
  <2>3. S \in SUBSET Pairs
    BY DEF LiveSessions
  <2>4. \A q \in Requests : step'[q] = step[q]
    BY <2>1, Plain DEF Plainly, Sweep, Goes
  <2>5. \A q \in Requests : todo'[q] = todo[q] \/ todo'[q] = todo[q] \ S
    BY <2>2, Plain DEF Plainly
  <2>6. UNCHANGED <<renewed, issued, session, expired, fresh, rotated, overlapped,
                    job, carried>>
    BY <2>1 DEF Sweep, Goes, tokens
  <2> QED
    BY <1>k, <2>2, <2>3, <2>4, <2>5, <2>6 DEF Delete
<1>4. CASE \E s \in Pairs : Lapse(s)
  <2>1. PICK s \in Pairs : Lapse(s)
    BY <1>4
  <2> WITNESS {s} \in SUBSET Pairs
  <2> QED
    BY <1>k, <2>1 DEF Lapse, Delete, handlers, tokens
<1> QED
  BY <1>2, <1>3, <1>4 DEF Drops

ReceiveEffect(r) ==
  /\ step[r] \in Answers
  /\ \A q \in Requests :
       /\ step'[q] = IF q = r THEN "idle" ELSE step[q]
       /\ job'[q] = IF q = r THEN "public" ELSE job[q]
       /\ carried'[q] = IF q = r THEN None ELSE carried[q]
       /\ fresh'[q] = IF q = r THEN None ELSE fresh[q]
       /\ todo'[q] = IF q = r THEN {} ELSE todo[q]
  /\ UNCHANGED <<current, renewed, issued, session, expired, rotated, closed, killed,
                 caught, overlapped>>

LEMMA ReceiveDoes ==
  ASSUME TypeInv, NEW r \in Requests, Receive(r)
  PROVE  ReceiveEffect(r)
BY Plain DEF Plainly, ReceiveEffect, Receive, redis, tokens, histories

ClockEffect ==
  /\ \A p \in Pairs : renewed'[p] \in {renewed[p], None}
  /\ expired' \in {expired, expired + 1}
  /\ UNCHANGED <<current, issued, session, step, job, carried, fresh, todo, rotated,
                 closed, killed, caught, overlapped>>

LEMMA ClockDoes ==
  ASSUME TypeInv, Expire \/ \E p \in Pairs : GraceEnds(p)
  PROVE  ClockEffect
BY Plain DEF Plainly, ClockEffect, Expire, GraceEnds, redis, tokens, handlers, histories

\* The kinds are all.
LEMMA StepKinds ==
  ASSUME [SessionNext]_sessionVars
  PROVE  \/ \E r \in Requests, p \in 0..MaxPairs, j \in Jobs : Send(r, p, j)
         \/ \E r \in Requests : \/ Moves(r) \/ Mint(r) \/ Open(r) \/ Remember(r) \/ Recent(r)
                                \/ Receive(r)
         \/ Drops
         \/ Expire \/ \E p \in Pairs : GraceEnds(p)
         \/ UNCHANGED sessionVars
BY DEF SessionNext, ServerStep, Clock, Moves, Drops

-----------------------------------------------------------------------------
\* Only pairs whose access token is past its exp are exchanged.
RotatedInv ==
  /\ rotated \subseteq 1..expired
  /\ \A r \in Requests : step[r] \in {"mint", "recent"} => carried[r] <= expired

\* The pair that a session's key holds was never exchanged, and is its own.
KeysInv ==
  \A s \in Pairs :
    current[s] # None =>
      current[s] \notin rotated /\ current[s] \in 1..issued /\ session[current[s]] = s

\* Of the pairs of a session all but one were, unless two refreshes overlapped.
OneLeftInv ==
  \A p, q \in 1..issued :
    p # q /\ session[p] = session[q] =>
      p \in rotated \/ q \in rotated \/ session[p] \in overlapped

\* Whoever finds another pair in the key presents one that was exchanged.
LosersInv ==
  /\ overlapped \subseteq 1..issued
  /\ \A r \in Requests :
       step[r] = "recent" => carried[r] \in rotated \/ SidOf(r) \in overlapped

ExchangeInv == RotatedInv /\ KeysInv /\ OneLeftInv /\ LosersInv

\* What a handler is about to deliver belongs to the session it was asked with.
FreshInv ==
  /\ \A p \in Pairs : renewed[p] # None => session[renewed[p]] = session[p]
  /\ \A r \in Requests :
       /\ fresh[r] # None /\ step[r] \in {"remember", "handle", "sweep", "open"} =>
            carried[r] # None /\ session[fresh[r]] = SidOf(r)
       /\ step[r] \in {"idle", "auth", "mint", "recent", "revoke", "denied"} =>
            fresh[r] = None
       /\ step[r] = "remember" => fresh[r] # None

\* A rotation under way has read a session that is there, or was caught.
MintInv ==
  \A r \in Requests : step[r] = "mint" => current[SidOf(r)] # None \/ SidOf(r) \in caught

LEMMA ExchangeStep == TypeInv /\ ExchangeInv /\ [SessionNext]_sessionVars => ExchangeInv'
<1> SUFFICES ASSUME TypeInv, ExchangeInv, [SessionNext]_sessionVars PROVE ExchangeInv'
  OBVIOUS
<1>p. Plainly
  BY Plain
<1>n. /\ issued \in Int /\ expired \in Int /\ expired <= issued /\ issued >= 0
      /\ \A x \in 1..issued : session[x] \in 1..issued
  BY <1>p DEF Plainly
<1>i. RotatedInv /\ KeysInv /\ OneLeftInv /\ LosersInv
  BY DEF ExchangeInv
<1>s. ASSUME UNCHANGED <<issued, session, expired, rotated>>, overlapped \subseteq overlapped',
             overlapped' \subseteq 1..issued,
             \A s \in Pairs : current'[s] \in {current[s], None},
             \A r \in Requests : step'[r] \in {"mint", "recent"} =>
               step'[r] = step[r] /\ carried'[r] = carried[r]
      PROVE  ExchangeInv'
  <2>1. RotatedInv'
    BY <1>i, <1>s DEF RotatedInv
  <2>2. KeysInv'
    BY <1>i, <1>s DEF KeysInv
  <2>3. OneLeftInv'
    BY <1>i, <1>s DEF OneLeftInv
  <2>4. LosersInv'
    BY <1>i, <1>s DEF LosersInv, SidOf
  <2> QED
    BY <2>1, <2>2, <2>3, <2>4 DEF ExchangeInv
<1>o. overlapped \subseteq 1..issued
  BY <1>i DEF LosersInv
<1>1. ASSUME NEW r \in Requests, NEW p, NEW j, Send(r, p, j) PROVE ExchangeInv'
  <2>1. SendEffect(r, p, j)
    BY <1>1, SendDoes
  <2>2. /\ \A q \in Requests : step'[q] \in {"mint", "recent"} =>
             step'[q] = step[q] /\ carried'[q] = carried[q]
        /\ UNCHANGED <<current, issued, session, expired, rotated, overlapped>>
    BY <2>1, <1>p DEF SendEffect, Plainly
  <2> QED
    BY <2>2, <1>s, <1>o
<1>2. ASSUME NEW r \in Requests, Moves(r) PROVE ExchangeInv'
  <2>1. /\ \A q \in Requests : q # r => step'[q] = step[q]
        /\ \/ step[r] = "auth" /\ step'[r] = Verdict(carried[r])
           \/ step'[r] \in {"ok", "failed", "broken", "sweep", "open"}
        /\ UNCHANGED <<current, issued, session, expired, carried, rotated, overlapped>>
    BY <1>2, MovesDo DEF MoveEffect
  <2>2. step'[r] \in {"mint", "recent"} => carried[r] <= expired
    BY <2>1, <1>p DEF Verdict, Plainly
  <2>3. step'[r] = "recent" => carried[r] \in rotated \/ SidOf(r) \in overlapped
    <3> SUFFICES ASSUME Verdict(carried[r]) = "recent"
                 PROVE  carried[r] \in rotated \/ SidOf(r) \in overlapped
      BY <2>1
    <3>1. PICK c : c = current[SidOf(r)]
      OBVIOUS
    <3>2. carried[r] \in 1..issued /\ SidOf(r) \in 1..issued /\ c # None /\ c # carried[r]
      BY <3>1, <1>p DEF Verdict, SidOf, Plainly
    <3>3. c \in 1..issued /\ c \notin rotated /\ session[c] = SidOf(r)
      BY <3>1, <3>2, <1>i, <1>p DEF KeysInv, Plainly
    <3> QED
      BY <3>2, <3>3, <1>i DEF OneLeftInv, SidOf
  <2>4. RotatedInv'
    BY <2>1, <2>2, <1>i DEF RotatedInv
  <2>5. KeysInv'
    BY <2>1, <1>i DEF KeysInv
  <2>6. OneLeftInv'
    BY <2>1, <1>i DEF OneLeftInv
  <2>7. LosersInv'
    BY <2>1, <2>3, <1>i DEF LosersInv, SidOf
  <2> QED
    BY <2>4, <2>5, <2>6, <2>7 DEF ExchangeInv
<1>3. ASSUME NEW r \in Requests, Mint(r) PROVE ExchangeInv'
  <2>e. MintEffect(r)
    BY <1>3, MintDoes
  <2>1. carried[r] \in 1..expired
    BY <2>e, <1>i, <1>p DEF RotatedInv, MintEffect, Plainly
  <2>2. RotatedInv'
    BY <2>e, <2>1, <1>i DEF RotatedInv, MintEffect
  <2>3. KeysInv'
    <3> SUFFICES ASSUME NEW s \in Pairs, current'[s] # None
                 PROVE  /\ current'[s] \notin rotated' /\ current'[s] \in 1..issued'
                        /\ session'[current'[s]] = s
      BY DEF KeysInv
    <3>1. CASE s = SidOf(r)
      <4>1. current'[s] = issued + 1 /\ issued' = issued + 1 /\ session'[issued + 1] = s
        BY <2>e, <3>1 DEF MintEffect
      <4>2. rotated' = rotated \union {carried[r]}
        BY <2>e DEF MintEffect
      <4>3. rotated \subseteq 1..expired
        BY <1>i DEF RotatedInv
      <4>4. issued + 1 \notin rotated'
        BY <2>1, <4>2, <4>3, <1>n
      <4> QED
        BY <4>1, <4>4, <1>n
    <3>2. CASE s # SidOf(r)
      <4>1. current'[s] = current[s]
        BY <2>e, <3>2 DEF MintEffect
      <4>2. current[s] \notin rotated /\ current[s] \in 1..issued /\ session[current[s]] = s
        BY <4>1, <1>i DEF KeysInv
      <4>3. current[s] # carried[r]
        BY <3>2, <4>2 DEF SidOf
      <4>4. /\ rotated' = rotated \union {carried[r]} /\ issued' = issued + 1
            /\ \A p \in 1..issued : session'[p] = session[p]
        BY <2>e DEF MintEffect
      <4>5. current[s] \in 1..issued + 1
        BY <4>2, <1>p DEF Plainly
      <4> QED
        BY <4>1, <4>2, <4>3, <4>4, <4>5
    <3> QED
      BY <3>1, <3>2
  <2>5. ASSUME NEW p \in 1..issued, p \notin rotated', session[p] = SidOf(r)
        PROVE  SidOf(r) \in overlapped'
    <3>1. p \notin rotated /\ p # carried[r]
      BY <2>e, <2>5 DEF MintEffect
    <3>2. CASE carried[r] \in rotated
      BY <2>e, <3>2 DEF MintEffect
    <3>3. CASE carried[r] \notin rotated
      <4>1. carried[r] \in 1..issued /\ session[carried[r]] = SidOf(r)
        BY <2>e DEF SidOf, MintEffect
      <4>2. SidOf(r) \in overlapped
        BY <2>5, <3>1, <3>3, <4>1, <1>i DEF OneLeftInv
      <4> QED
        BY <2>e, <4>2 DEF MintEffect
    <3> QED
      BY <3>2, <3>3
  <2>6. ASSUME NEW p \in 1..issued', NEW q \in 1..issued', p # q, session'[p] = session'[q],
               p \notin rotated', q \notin rotated'
        PROVE  session'[p] \in overlapped'
    <3>e. /\ session'[issued + 1] = SidOf(r)
          /\ \A x \in 1..issued : session'[x] = session[x]
          /\ rotated \subseteq rotated' /\ overlapped \subseteq overlapped'
      BY <2>e DEF MintEffect
    <3>f. p \in 1..issued \/ p = issued + 1
      BY <2>e, <1>p DEF MintEffect, Plainly
    <3>g. q \in 1..issued \/ q = issued + 1
      BY <2>e, <1>p DEF MintEffect, Plainly
    <3>1. CASE p \in 1..issued /\ q \in 1..issued
      <4>1. session[p] = session[q] /\ p \notin rotated /\ q \notin rotated
        BY <3>e, <2>6, <3>1
      <4>2. session[p] \in overlapped
        BY <4>1, <2>6, <3>1, <1>i DEF OneLeftInv
      <4> QED
        BY <3>e, <3>1, <4>2
    <3>2. CASE p = issued + 1
      <4>1. q \in 1..issued /\ session[q] = SidOf(r) /\ session'[p] = SidOf(r)
        BY <3>e, <3>2, <3>g, <2>6
      <4> QED
        BY <4>1, <2>5, <2>6
    <3>3. CASE q = issued + 1
      <4>1. p \in 1..issued /\ session[p] = SidOf(r) /\ session'[p] = SidOf(r)
        BY <3>e, <3>3, <3>f, <2>6
      <4> QED
        BY <4>1, <2>5, <2>6
    <3> QED
      BY <3>f, <3>g, <3>1, <3>2, <3>3
  <2>7. OneLeftInv'
    BY <2>6 DEF OneLeftInv
  <2>8. LosersInv'
    <3>a. /\ overlapped' \subseteq overlapped \union {SidOf(r)} /\ issued' = issued + 1
          /\ overlapped \subseteq overlapped' /\ rotated \subseteq rotated'
          /\ SidOf(r) \in 1..issued
      BY <2>e DEF MintEffect
    <3>1. overlapped' \subseteq 1..issued' /\ overlapped \subseteq overlapped'
            /\ rotated \subseteq rotated'
      BY <3>a, <1>o, <1>n
    <3> SUFFICES ASSUME NEW q \in Requests, step'[q] = "recent"
                 PROVE  carried'[q] \in rotated' \/ session'[carried'[q]] \in overlapped'
      BY <3>1 DEF LosersInv, SidOf
    <3>2. step[q] = "recent" /\ carried'[q] = carried[q]
      BY <2>e DEF MintEffect
    <3>3. carried[q] \in 1..issued
      BY <3>2, <1>p DEF NeedsPair, Plainly
    <3>4. session'[carried[q]] = session[carried[q]]
      BY <2>e, <3>3 DEF MintEffect
    <3> QED
      BY <3>1, <3>2, <3>4, <1>i DEF LosersInv, SidOf
  <2> QED
    BY <2>2, <2>3, <2>7, <2>8 DEF ExchangeInv
<1>4. ASSUME NEW r \in Requests, Open(r) PROVE ExchangeInv'
  <2>e. OpenEffect(r)
    BY <1>4, OpenDoes
  <2>t. /\ session'[issued + 1] = issued + 1 /\ issued' = issued + 1
        /\ \A x \in 1..issued : session'[x] = session[x]
        /\ UNCHANGED <<rotated, overlapped, expired, carried>>
    BY <2>e DEF OpenEffect
  <2>s. /\ session'[issued + 1] = issued + 1 /\ issued' = issued + 1
        /\ \A x \in 1..issued : session'[x] = session[x] /\ session[x] # issued + 1
        /\ \A x \in 1..issued' : x \in 1..issued \/ x = issued + 1
        /\ UNCHANGED <<rotated, overlapped, expired, carried>>
    BY <2>t, <1>n
  <2>1. RotatedInv'
    BY <2>e, <1>i DEF RotatedInv, OpenEffect
  <2>2. KeysInv'
    <3> SUFFICES ASSUME NEW s \in Pairs, current'[s] # None
                 PROVE  /\ current'[s] \notin rotated' /\ current'[s] \in 1..issued'
                        /\ session'[current'[s]] = s
      BY DEF KeysInv
    <3>1. CASE s = issued + 1
      <4>1. current'[s] = issued + 1
        BY <2>e, <3>1 DEF OpenEffect
      <4>2. issued + 1 \notin rotated
        BY <1>i, <1>p DEF RotatedInv, Plainly
      <4> QED
        BY <4>1, <4>2, <3>1, <2>s, <1>p DEF Plainly
    <3>2. CASE s # issued + 1
      <4>1. current'[s] = current[s]
        BY <2>e, <3>2 DEF OpenEffect
      <4>2. current[s] \notin rotated /\ current[s] \in 1..issued /\ session[current[s]] = s
        BY <4>1, <1>i DEF KeysInv
      <4>3. current[s] \in 1..issued + 1
        BY <4>2, <1>p DEF Plainly
      <4> QED
        BY <4>1, <4>2, <4>3, <2>s
    <3> QED
      BY <3>1, <3>2
  <2>3. OneLeftInv'
    BY <2>s, <1>i DEF OneLeftInv
  <2>4. LosersInv'
    <3>1. overlapped' \subseteq 1..issued'
      BY <2>s, <1>o, <1>p DEF Plainly
    <3> SUFFICES ASSUME NEW q \in Requests, step'[q] = "recent"
                 PROVE  carried'[q] \in rotated' \/ session'[carried'[q]] \in overlapped'
      BY <3>1 DEF LosersInv, SidOf
    <3>2. step[q] = "recent" /\ carried'[q] = carried[q]
      BY <2>e DEF OpenEffect
    <3>3. carried[q] \in 1..issued
      BY <3>2, <1>p DEF NeedsPair, Plainly
    <3> QED
      BY <3>2, <3>3, <2>s, <1>i DEF LosersInv, SidOf
  <2> QED
    BY <2>1, <2>2, <2>3, <2>4 DEF ExchangeInv
<1>5. ASSUME NEW r \in Requests, Remember(r) PROVE ExchangeInv'
  <2>1. /\ UNCHANGED <<current, issued, session, expired, rotated, overlapped, carried>>
        /\ \A q \in Requests : step'[q] \in {"mint", "recent"} => step'[q] = step[q]
    BY <1>5, RememberDoes DEF RememberEffect
  <2> QED
    BY <2>1, <1>s, <1>o
<1>6. ASSUME NEW r \in Requests, Recent(r) PROVE ExchangeInv'
  <2>1. /\ \A q \in Requests : step'[q] \in {"mint", "recent"} => step'[q] = step[q]
        /\ overlapped \subseteq overlapped' /\ overlapped' \subseteq overlapped \union {SidOf(r)}
        /\ SidOf(r) \in 1..issued
        /\ UNCHANGED <<current, issued, session, expired, carried, rotated>>
    BY <1>6, RecentDoes DEF RecentEffect
  <2>2. overlapped' \subseteq 1..issued
    BY <2>1, <1>o
  <2> QED
    BY <2>1, <2>2, <1>s
<1>7. ASSUME NEW r \in Requests, Receive(r) PROVE ExchangeInv'
  <2>1. /\ UNCHANGED <<current, issued, session, expired, rotated, overlapped>>
        /\ \A q \in Requests : step'[q] \in {"mint", "recent"} =>
             step'[q] = step[q] /\ carried'[q] = carried[q]
    BY <1>7, ReceiveDoes DEF ReceiveEffect
  <2> QED
    BY <2>1, <1>s, <1>o
<1>8. CASE Drops
  <2>1. /\ \A s \in Pairs : current'[s] \in {current[s], None}
        /\ \A q \in Requests : step'[q] \in {"mint", "recent"} => step'[q] = step[q]
        /\ UNCHANGED <<issued, session, expired, carried, rotated, overlapped>>
    BY <1>8, DropsDo DEF DropEffect
  <2> QED
    BY <2>1, <1>s, <1>o
<1>9. CASE Expire \/ \E p \in Pairs : GraceEnds(p)
  <2>1. /\ expired' \in {expired, expired + 1}
        /\ UNCHANGED <<current, issued, session, step, carried, rotated, overlapped>>
    BY <1>9, ClockDoes DEF ClockEffect
  <2>2. RotatedInv'
    BY <2>1, <1>i, <1>p DEF RotatedInv, Plainly
  <2>3. KeysInv' /\ OneLeftInv'
    BY <2>1, <1>i DEF KeysInv, OneLeftInv
  <2>4. LosersInv'
    BY <2>1, <1>i DEF LosersInv, SidOf
  <2> QED
    BY <2>2, <2>3, <2>4 DEF ExchangeInv
<1>10. CASE UNCHANGED sessionVars
  <2>1. UNCHANGED <<current, issued, session, expired, rotated, overlapped, step, carried>>
    BY <1>10 DEF sessionVars, redis, tokens, handlers, histories
  <2> QED
    BY <2>1, <1>s, <1>o
<1> QED
  BY <1>1, <1>2, <1>3, <1>4, <1>5, <1>6, <1>7, <1>8, <1>9, <1>10, StepKinds

LEMMA FreshStep ==
  TypeInv /\ FreshInv /\ [SessionNext]_sessionVars => FreshInv'
<1> SUFFICES ASSUME TypeInv, FreshInv, [SessionNext]_sessionVars PROVE FreshInv'
  OBVIOUS
<1>p. Plainly
  BY Plain
<1>n. /\ \A q \in Requests : carried[q] \in 0..issued /\ fresh[q] \in 0..issued
      /\ \A x \in 1..issued : session[x] \in 1..issued
      /\ issued \in Int /\ issued >= 0
  BY <1>p DEF Plainly
<1>1. ASSUME NEW r \in Requests, NEW p, NEW j, Send(r, p, j) PROVE FreshInv'
  <2>1. SendEffect(r, p, j)
    BY <1>1, SendDoes
  <2>2. step[r] = "idle" /\ fresh[r] = None /\ UNCHANGED <<renewed, session, fresh>>
    BY <2>1, <1>p DEF SendEffect, Plainly
  <2>3. \A q \in Requests : q # r => step'[q] = step[q] /\ carried'[q] = carried[q]
    BY <2>1, <1>p DEF SendEffect, Plainly
  <2>4. step'[r] \in {"handle", "auth"}
    BY <2>1, <1>p DEF SendEffect, Plainly
  <2> QED
    BY <2>2, <2>3, <2>4 DEF FreshInv, SidOf
<1>2. ASSUME NEW r \in Requests, Moves(r) PROVE FreshInv'
  <2>1. MoveEffect(r)
    BY <1>2, MovesDo
  <2>2. /\ UNCHANGED <<renewed, session, fresh, carried>>
        /\ \A q \in Requests : q # r => step'[q] = step[q]
    BY <2>1 DEF MoveEffect
  <2>3. step'[r] # "remember"
    BY <2>1 DEF MoveEffect, Verdict
  <2>4. step'[r] \in {"auth", "mint", "recent", "revoke", "denied"} => step[r] = "auth"
    BY <2>1 DEF MoveEffect
  <2>5. step'[r] \in {"handle", "sweep", "open"} => step[r] \in {"auth", "handle", "sweep"}
    BY <2>1 DEF MoveEffect
  <2>6. step'[r] # "idle"
    BY <2>1 DEF MoveEffect, Verdict
  <2> QED
    BY <2>2, <2>3, <2>4, <2>5, <2>6 DEF FreshInv, SidOf
<1>s. ASSUME \A x \in 1..issued : session'[x] = session[x],
             UNCHANGED <<renewed>>
      PROVE  \A p \in Pairs : renewed'[p] # None => session'[renewed'[p]] = session'[p]
  BY <1>p, <1>s DEF FreshInv, Plainly
<1>3. ASSUME NEW r \in Requests, Mint(r) PROVE FreshInv'
  <2>e. MintEffect(r)
    BY <1>3, MintDoes
  <2>1. \A p \in Pairs : renewed'[p] # None => session'[renewed'[p]] = session'[p]
    BY <2>e, <1>s DEF MintEffect
  <2>2. /\ carried[r] \in 1..issued /\ session'[issued + 1] = SidOf(r)
        /\ \A p \in 1..issued : session'[p] = session[p]
        /\ carried' = carried /\ fresh'[r] = issued + 1 /\ step'[r] = "remember"
        /\ \A q \in Requests : q # r => step'[q] = step[q] /\ fresh'[q] = fresh[q]
    BY <2>e DEF MintEffect
  <2>3. ASSUME NEW q \in Requests, q # r, fresh[q] # None,
               step[q] \in {"remember", "handle", "sweep", "open"}
        PROVE  carried[q] # None /\ session'[fresh[q]] = session'[carried[q]]
    <3>1. carried[q] # None /\ session[fresh[q]] = session[carried[q]]
      BY <2>3 DEF FreshInv, SidOf
    <3>2. carried[q] \in 1..issued /\ fresh[q] \in 1..issued
      BY <1>n, <2>3, <3>1
    <3> QED
      BY <3>1, <3>2, <2>2
  <2>4. issued + 1 # None /\ carried[r] # None /\ session'[issued + 1] = session'[carried[r]]
    BY <2>2, <1>n DEF SidOf
  <2>5. ASSUME NEW q \in Requests PROVE
        /\ fresh'[q] # None /\ step'[q] \in {"remember", "handle", "sweep", "open"} =>
             carried'[q] # None /\ session'[fresh'[q]] = session'[carried'[q]]
        /\ step'[q] \in {"idle", "auth", "mint", "recent", "revoke", "denied"} =>
             fresh'[q] = None
        /\ step'[q] = "remember" => fresh'[q] # None
    <3>1. CASE q = r
      BY <2>2, <2>4, <3>1
    <3>2. CASE q # r
      BY <2>2, <2>3, <3>2 DEF FreshInv
    <3> QED
      BY <3>1, <3>2
  <2> QED
    BY <2>1, <2>5 DEF FreshInv, SidOf
<1>4. ASSUME NEW r \in Requests, Open(r) PROVE FreshInv'
  <2>e. OpenEffect(r)
    BY <1>4, OpenDoes
  <2>1. \A p \in Pairs : renewed'[p] # None => session'[renewed'[p]] = session'[p]
    BY <2>e, <1>s DEF OpenEffect
  <2>2. /\ \A p \in 1..issued : session'[p] = session[p]
        /\ carried' = carried /\ step'[r] = "ok"
        /\ \A q \in Requests : q # r => step'[q] = step[q] /\ fresh'[q] = fresh[q]
    BY <2>e DEF OpenEffect
  <2>3. ASSUME NEW q \in Requests, q # r, fresh[q] # None,
               step[q] \in {"remember", "handle", "sweep", "open"}
        PROVE  carried[q] # None /\ session'[fresh[q]] = session'[carried[q]]
    <3>1. carried[q] # None /\ session[fresh[q]] = session[carried[q]]
      BY <2>3 DEF FreshInv, SidOf
    <3>2. carried[q] \in 1..issued /\ fresh[q] \in 1..issued
      BY <1>n, <2>3, <3>1
    <3> QED
      BY <3>1, <3>2, <2>2
  <2>5. ASSUME NEW q \in Requests PROVE
        /\ fresh'[q] # None /\ step'[q] \in {"remember", "handle", "sweep", "open"} =>
             carried'[q] # None /\ session'[fresh'[q]] = session'[carried'[q]]
        /\ step'[q] \in {"idle", "auth", "mint", "recent", "revoke", "denied"} =>
             fresh'[q] = None
        /\ step'[q] = "remember" => fresh'[q] # None
    <3>1. CASE q = r
      BY <2>2, <3>1
    <3>2. CASE q # r
      BY <2>2, <2>3, <3>2 DEF FreshInv
    <3> QED
      BY <3>1, <3>2
  <2> QED
    BY <2>1, <2>5 DEF FreshInv, SidOf
<1>5. ASSUME NEW r \in Requests, Remember(r) PROVE FreshInv'
  <2>e. RememberEffect(r)
    BY <1>5, RememberDoes
  <2>1. fresh[r] # None /\ session[fresh[r]] = session[carried[r]]
    BY <2>e DEF RememberEffect, FreshInv, SidOf
  <2> QED
    BY <2>e, <2>1 DEF RememberEffect, FreshInv, SidOf
<1>6. ASSUME NEW r \in Requests, Recent(r) PROVE FreshInv'
  <2>1. /\ carried[r] \in 1..issued /\ step[r] = "recent"
        /\ fresh'[r] = renewed[carried[r]]
        /\ \A q \in Requests : q # r => step'[q] = step[q] /\ fresh'[q] = fresh[q]
        /\ step'[r] = IF renewed[carried[r]] = None THEN "revoke" ELSE "handle"
        /\ UNCHANGED <<renewed, session, carried>>
    BY <1>6, RecentDoes DEF RecentEffect
  <2>2. renewed[carried[r]] # None => session[renewed[carried[r]]] = session[carried[r]]
    BY <2>1, <1>p DEF FreshInv, Plainly
  <2> QED
    BY <2>1, <2>2 DEF FreshInv, SidOf
<1>7. ASSUME NEW r \in Requests, Receive(r) PROVE FreshInv'
  <2>1. ReceiveEffect(r)
    BY <1>7, ReceiveDoes
  <2> QED
    BY <2>1 DEF ReceiveEffect, FreshInv, SidOf
<1>8. CASE Drops
  <2>1. /\ \A q \in Requests : \/ step'[q] = step[q]
                               \/ step[q] = "revoke" /\ step'[q] = "denied"
                               \/ step[q] = "handle" /\ step'[q] = "ok"
        /\ UNCHANGED <<renewed, session, fresh, carried>>
    BY <1>8, DropsDo DEF DropEffect
  <2> QED
    BY <2>1 DEF FreshInv, SidOf
<1>9. CASE Expire \/ \E p \in Pairs : GraceEnds(p)
  <2>1. /\ \A p \in Pairs : renewed'[p] \in {renewed[p], None}
        /\ UNCHANGED <<session, step, carried, fresh>>
    BY <1>9, ClockDoes DEF ClockEffect
  <2> QED
    BY <2>1 DEF FreshInv, SidOf
<1>10. CASE UNCHANGED sessionVars
  <2>1. UNCHANGED <<renewed, session, step, carried, fresh>>
    BY <1>10 DEF sessionVars, redis, tokens, handlers, histories
  <2> QED
    BY <2>1 DEF FreshInv, SidOf
<1> QED
  BY <1>1, <1>2, <1>3, <1>4, <1>5, <1>6, <1>7, <1>8, <1>9, <1>10, StepKinds

LEMMA MintingStep == TypeInv /\ MintInv /\ [SessionNext]_sessionVars => MintInv'
<1> SUFFICES ASSUME TypeInv, MintInv, [SessionNext]_sessionVars PROVE MintInv'
  OBVIOUS
<1>p. Plainly
  BY Plain
<1>n. issued + 1 # None
  BY <1>p DEF Plainly
<1>s. ASSUME \A q \in Requests : step'[q] = "mint" =>
               step[q] = "mint" /\ session'[carried'[q]] = session[carried[q]],
             \A s \in Pairs : current[s] # None => current'[s] # None,
             caught \subseteq caught'
      PROVE  MintInv'
  <2> SUFFICES ASSUME NEW q \in Requests, step'[q] = "mint"
               PROVE  current'[session'[carried'[q]]] # None \/ session'[carried'[q]] \in caught'
    BY DEF MintInv, SidOf
  <2>1. step[q] = "mint" /\ session'[carried'[q]] = session[carried[q]]
    BY <1>s
  <2>2. NeedsPair(q)
    BY <2>1 DEF NeedsPair
  <2>3. session[carried[q]] \in Pairs
    BY <2>2, Sids DEF SidOf
  <2> QED
    BY <2>1, <2>3, <1>s DEF MintInv, SidOf
<1>c. \A q \in Requests : step[q] = "mint" => carried[q] \in 1..issued
  BY <1>p DEF NeedsPair, Plainly
<1>1. ASSUME NEW r \in Requests, NEW p, NEW j, Send(r, p, j) PROVE MintInv'
  <2>1. SendEffect(r, p, j)
    BY <1>1, SendDoes
  <2>2. \A q \in Requests : step'[q] = "mint" => step[q] = "mint" /\ carried'[q] = carried[q]
    BY <2>1, <1>p DEF SendEffect, Plainly
  <2> QED
    BY <2>1, <2>2, <1>s DEF SendEffect
<1>2. ASSUME NEW r \in Requests, Moves(r) PROVE MintInv'
  <2>1. MoveEffect(r)
    BY <1>2, MovesDo
  <2>2. \A q \in Requests : q # r => step'[q] = step[q]
    BY <2>1 DEF MoveEffect
  <2>3. step'[r] = "mint" => current[SidOf(r)] # None
    BY <2>1, <1>p DEF MoveEffect, Verdict, SidOf, Plainly
  <2> QED
    BY <2>1, <2>2, <2>3 DEF MintInv, MoveEffect, SidOf
<1>3. ASSUME NEW r \in Requests, Mint(r) PROVE MintInv'
  <2>e. MintEffect(r)
    BY <1>3, MintDoes
  <2>1. \A s \in Pairs : current[s] # None => current'[s] # None
    BY <2>e, <1>n DEF MintEffect
  <2>2. \A q \in Requests : step'[q] = "mint" => step[q] = "mint"
    BY <2>e DEF MintEffect
  <2>3. \A q \in Requests : step[q] = "mint" => session'[carried'[q]] = session[carried[q]]
    BY <2>e, <1>c DEF MintEffect
  <2>4. caught' = caught
    BY <2>e DEF MintEffect
  <2> QED
    BY <2>1, <2>2, <2>3, <2>4, <1>s
<1>4. ASSUME NEW r \in Requests, Open(r) PROVE MintInv'
  <2>e. OpenEffect(r)
    BY <1>4, OpenDoes
  <2>1. \A s \in Pairs : current[s] # None => current'[s] # None
    BY <2>e, <1>n DEF OpenEffect
  <2>2. \A q \in Requests : step'[q] = "mint" => step[q] = "mint"
    BY <2>e DEF OpenEffect
  <2>3. \A q \in Requests : step[q] = "mint" => session'[carried'[q]] = session[carried[q]]
    BY <2>e, <1>c DEF OpenEffect
  <2>4. caught' = caught
    BY <2>e DEF OpenEffect
  <2> QED
    BY <2>1, <2>2, <2>3, <2>4, <1>s
<1>5. ASSUME NEW r \in Requests, Remember(r) PROVE MintInv'
  <2>1. RememberEffect(r)
    BY <1>5, RememberDoes
  <2> QED
    BY <2>1, <1>s DEF RememberEffect
<1>6. ASSUME NEW r \in Requests, Recent(r) PROVE MintInv'
  <2>1. /\ UNCHANGED <<current, session, carried, caught>>
        /\ \A q \in Requests : step'[q] = "mint" => step[q] = "mint"
    BY <1>6, RecentDoes DEF RecentEffect
  <2> QED
    BY <2>1, <1>s
<1>7. ASSUME NEW r \in Requests, Receive(r) PROVE MintInv'
  <2>1. ReceiveEffect(r)
    BY <1>7, ReceiveDoes
  <2> QED
    BY <2>1, <1>s DEF ReceiveEffect
<1>8. CASE Drops
  <2>1. PICK S \in SUBSET Pairs :
          /\ \A s \in Pairs : current'[s] = IF s \in S THEN None ELSE current[s]
          /\ caught' = caught \union (S \intersect BeingRotated)
          /\ \A q \in Requests : step'[q] = "mint" => step[q] = "mint"
          /\ UNCHANGED <<session, carried>>
    BY <1>8, DropsDo DEF DropEffect
  <2> SUFFICES ASSUME NEW q \in Requests, step'[q] = "mint"
               PROVE  current'[SidOf(q)] # None \/ SidOf(q) \in caught'
    BY <2>1 DEF MintInv, SidOf
  <2>2. step[q] = "mint" /\ NeedsPair(q)
    BY <2>1 DEF NeedsPair
  <2>3. SidOf(q) \in Pairs /\ SidOf(q) \in BeingRotated
    BY <2>2, Sids DEF BeingRotated
  <2>4. current[SidOf(q)] # None \/ SidOf(q) \in caught
    BY <2>2 DEF MintInv
  <2> QED
    BY <2>1, <2>3, <2>4
<1>9. CASE Expire \/ \E p \in Pairs : GraceEnds(p)
  BY <1>9, <1>s, ClockDoes DEF ClockEffect
<1>10. CASE UNCHANGED sessionVars
  BY <1>10, <1>s DEF sessionVars, redis, tokens, handlers, histories
<1> QED
  BY <1>1, <1>2, <1>3, <1>4, <1>5, <1>6, <1>7, <1>8, <1>9, <1>10, StepKinds

\* Only what the middleware let through can have rotated.
JobInv ==
  \A r \in Requests :
    job[r] \in {"public", "signin"} =>
      /\ step[r] \notin {"auth", "mint", "remember", "recent"}
      /\ step[r] = "handle" => fresh[r] = None

LEMMA JobStep == TypeInv /\ JobInv /\ [SessionNext]_sessionVars => JobInv'
<1> SUFFICES ASSUME TypeInv, JobInv, [SessionNext]_sessionVars PROVE JobInv'
  OBVIOUS
<1>p. Plainly
  BY Plain
<1>1. ASSUME NEW r \in Requests, NEW p, NEW j, Send(r, p, j) PROVE JobInv'
  <2>1. SendEffect(r, p, j)
    BY <1>1, SendDoes
  <2>2. /\ \A q \in Requests : q # r => step'[q] = step[q] /\ job'[q] = job[q]
        /\ fresh' = fresh /\ fresh[r] = None /\ job'[r] = j
        /\ step'[r] = IF j \in {"public", "signin"} THEN "handle" ELSE "auth"
    BY <2>1, <1>p DEF SendEffect, Plainly
  <2> QED
    BY <2>2 DEF JobInv
<1>2. ASSUME NEW r \in Requests, Moves(r) PROVE JobInv'
  <2>1. MoveEffect(r)
    BY <1>2, MovesDo
  <2>2. /\ \A q \in Requests : q # r => step'[q] = step[q]
        /\ UNCHANGED <<fresh, job>>
        /\ step[r] = "auth" \/ step'[r] \notin {"auth", "mint", "remember", "recent", "handle"}
    BY <2>1 DEF MoveEffect
  <2> QED
    BY <2>2 DEF JobInv
<1>3. ASSUME NEW r \in Requests, Mint(r) \/ Open(r) \/ Remember(r) \/ Recent(r) PROVE JobInv'
  <2>1. /\ \A q \in Requests : q # r => step'[q] = step[q] /\ fresh'[q] = fresh[q]
        /\ job' = job
        /\ step[r] \in {"mint", "remember", "recent"} \/ step'[r] = "ok"
    BY <1>3, MintDoes, OpenDoes, RememberDoes, RecentDoes
       DEF MintEffect, OpenEffect, RememberEffect, RecentEffect
  <2> QED
    BY <2>1 DEF JobInv
<1>4. ASSUME NEW r \in Requests, Receive(r) PROVE JobInv'
  BY <1>4, ReceiveDoes DEF ReceiveEffect, JobInv
<1>5. CASE Drops
  <2>1. /\ \A q \in Requests : \/ step'[q] = step[q]
                               \/ step'[q] = "denied"
                               \/ step'[q] = "ok"
        /\ UNCHANGED <<fresh, job>>
    BY <1>5, DropsDo DEF DropEffect
  <2> QED
    BY <2>1 DEF JobInv
<1>6. CASE Expire \/ \E p \in Pairs : GraceEnds(p)
  BY <1>6, ClockDoes DEF ClockEffect, JobInv
<1>7. CASE UNCHANGED sessionVars
  BY <1>7 DEF sessionVars, handlers, JobInv
<1> QED
  BY <1>1, <1>2, <1>3, <1>4, <1>5, <1>6, <1>7, StepKinds

-----------------------------------------------------------------------------
\* What the clients' steps do

\* The types that the following proofs use.
Clients ==
  /\ holds \in [Devices -> Pairs \union {None}] /\ stored \in [Devices -> Pairs \union {None}]
  /\ phase \in [Requests -> Phases] /\ task \in [Requests -> Jobs]
  /\ device \in [Requests -> Devices \union {Nobody}]
  /\ presented \in [Requests -> Pairs \union {None}]
  /\ waits \in [Requests -> SUBSET Requests]
  /\ \A r \in Requests : phase[r] \in {"held", "sent", "doubt"} => device[r] \in Devices

LEMMA Client == ClientInv => Clients
  BY DEF ClientInv, ClientsTypeOK, DeviceInv, Clients

\* The clock of these phones is the server's.
Guarded == Phones \ Skewed

\* What a request starts with, or comes back from, when it is to be sent.
Starts(r, d, j) ==
  /\ d \in Devices /\ j \in Jobs
  /\ phase[r] \in {"idle", "held", "doubt"}
  /\ phase[r] # "idle" => d = device[r] /\ j = task[r] /\ waits[r] = {}
  /\ phase[r] = "idle" /\ j = "signin" => holds[d] = None
  /\ \A q \in Requests : /\ device'[q] = IF q = r THEN d ELSE device[q]
                         /\ task'[q] = IF q = r THEN j ELSE task[q]
  /\ UNCHANGED <<holds, stored, hurried, lossy, misled>>

\* It leaves: past guard 1, or after it was held back.
LeaveEffect(r, d, j) ==
  /\ Starts(r, d, j)
  /\ SendEffect(r, holds[d], j)
  /\ \A q \in Requests : /\ phase'[q] = IF q = r THEN "sent" ELSE phase[q]
                         /\ presented'[q] = IF q = r THEN holds[d] ELSE presented[q]
                         /\ waits'[q] = IF q = r THEN {} ELSE waits[q]
  /\ \/ phase[r] = "held"
     \/ InFlightWith(r, d, holds[d]) = {}
     \/ ~(d \in Guarded /\ holds[d] \in 1..expired)

\* Guard 1 holds it back.
BackEffect(r, d, j) ==
  /\ Starts(r, d, j)
  /\ d \in Phones /\ InFlightWith(r, d, holds[d]) # {}
  /\ phase[r] # "held"
  /\ \A q \in Requests :
       /\ phase'[q] = IF q = r THEN "held" ELSE phase[q]
       /\ presented'[q] = IF q = r THEN None ELSE presented[q]
       /\ waits'[q] = IF q = r THEN InFlightWith(r, d, holds[d]) ELSE waits[q]
  /\ UNCHANGED sessionVars

LEMMA DispatchDoes ==
  ASSUME TypeInv, ClientInv, NEW r \in Requests, NEW d \in Devices, NEW j \in Jobs,
         Dispatch(r, d, j)
  PROVE  /\ SendEffect(r, holds[d], j)
         /\ \A q \in Requests :
              /\ phase'[q] = IF q = r THEN "sent" ELSE phase[q]
              /\ presented'[q] = IF q = r THEN holds[d] ELSE presented[q]
              /\ waits'[q] = IF q = r THEN {} ELSE waits[q]
BY SendDoes, Client DEF Dispatch, Clients

LEMMA HoldBackDoes ==
  ASSUME ClientInv, NEW r \in Requests, NEW X, HoldBack(r, X)
  PROVE  \A q \in Requests :
              /\ phase'[q] = IF q = r THEN "held" ELSE phase[q]
              /\ presented'[q] = IF q = r THEN None ELSE presented[q]
              /\ waits'[q] = IF q = r THEN X ELSE waits[q]
BY Client DEF HoldBack, Clients

LEMMA InterceptDoes ==
  ASSUME TypeInv, ClientInv, NEW r \in Requests, NEW d \in Devices, NEW j \in Jobs,
         Starts(r, d, j), phase[r] # "held", Intercept(r, d, j)
  PROVE  LeaveEffect(r, d, j) \/ BackEffect(r, d, j)
<1>1. PICK late \in Believes(d) :
        IF d \in Phones /\ holds[d] # None /\ late /\ InFlightWith(r, d, holds[d]) # {}
          THEN HoldBack(r, InFlightWith(r, d, holds[d]))
          ELSE Dispatch(r, d, j)
  BY DEF Intercept
<1>2. CASE d \in Phones /\ holds[d] # None /\ late /\ InFlightWith(r, d, holds[d]) # {}
  BY <1>1, <1>2, HoldBackDoes DEF BackEffect, HoldBack
<1>3. CASE ~(d \in Phones /\ holds[d] # None /\ late /\ InFlightWith(r, d, holds[d]) # {})
  <2>1. Dispatch(r, d, j)
    BY <1>1, <1>3
  <2>2. ASSUME d \in Guarded, holds[d] \in 1..expired
        PROVE  InFlightWith(r, d, holds[d]) = {}
    <3>1. d \in Phones /\ d \notin Skewed
      BY <2>2 DEF Guarded
    <3>2. holds[d] # None /\ holds[d] <= expired
      BY <2>2
    <3>3. late
      BY <3>1, <3>2 DEF Believes
    <3> QED
      BY <1>3, <3>1, <3>2, <3>3
  <2> QED
    BY <2>1, <2>2, DispatchDoes DEF LeaveEffect
<1> QED
  BY <1>2, <1>3

\* A request that settles frees those that wait for it.
SettleEffect(r) ==
  /\ phase[r] = "sent" /\ device[r] \in Devices
  /\ ReceiveEffect(r)
  /\ NoteIdling(r)
  /\ \A q \in Requests : /\ phase'[q] = IF q = r THEN "idle" ELSE phase[q]
                         /\ device'[q] = IF q = r THEN Nobody ELSE device[q]
                         /\ presented'[q] = IF q = r THEN None ELSE presented[q]
                         /\ task'[q] = IF q = r THEN "public" ELSE task[q]
                         /\ waits'[q] = waits[q] \ {r}
  /\ \A d \in Devices : d # device[r] => holds'[d] = holds[d]
  /\ \/ holds'[device[r]] = None
     \/ holds'[device[r]] = fresh[r]
     \/ /\ holds'[device[r]] = holds[device[r]]
        /\ fresh[r] = None \/ session[fresh[r]] \in lossy'
  /\ lossy \subseteq lossy' /\ hurried \subseteq hurried'
  /\ UNCHANGED <<stored, misled>>

LEMMA Hurrying ==
  ASSUME NEW r \in Requests, NoteIdling(r)
  PROVE  hurried \subseteq hurried'
BY DEF NoteIdling

LEMMA SettlesDo ==
  ASSUME TypeInv, FreshInv, ClientInv, NEW r \in Requests,
         Arrive(r) \/ NetworkError(r) \/ BelieveIt(r)
  PROVE  SettleEffect(r)
<1>c. Clients
  BY Client
<1>1. phase[r] = "sent" /\ device[r] \in Devices
  BY <1>c DEF Arrive, NetworkError, BelieveIt, Clients
<1>2. Receive(r) /\ NoteIdling(r) /\ Finish(r) /\ Untrack(r) /\ UNCHANGED <<stored, misled>>
  BY DEF Arrive, NetworkError, BelieveIt, SignOut
<1>3. ReceiveEffect(r)
  BY <1>2, ReceiveDoes
<1>4. \A q \in Requests : /\ phase'[q] = IF q = r THEN "idle" ELSE phase[q]
                          /\ device'[q] = IF q = r THEN Nobody ELSE device[q]
                          /\ presented'[q] = IF q = r THEN None ELSE presented[q]
                          /\ task'[q] = IF q = r THEN "public" ELSE task[q]
                          /\ waits'[q] = waits[q] \ {r}
  BY <1>2, <1>c DEF Finish, Untrack, Clients
<1>5. \A d \in Devices : d # device[r] => holds'[d] = holds[d]
  BY <1>c DEF Arrive, NetworkError, BelieveIt, SignOut, Clients
<1>6. hurried \subseteq hurried'
  BY <1>2, Hurrying
<1>7. CASE Arrive(r)
  <2>1. holds'[device[r]] = PairAfter(r) /\ lossy' = lossy
    BY <1>1, <1>7, <1>c DEF Arrive, Clients
  <2>2. \/ holds'[device[r]] = None
        \/ holds'[device[r]] = fresh[r]
        \/ holds'[device[r]] = holds[device[r]] /\ fresh[r] = None
    BY <2>1 DEF PairAfter
  <2> QED
    BY <1>1, <1>2, <1>3, <1>4, <1>5, <1>6, <2>1, <2>2 DEF SettleEffect
<1>8. CASE NetworkError(r)
  <2>1. holds'[device[r]] = None \/ holds'[device[r]] = holds[device[r]]
    BY <1>1, <1>8, <1>c DEF NetworkError, Clients
  <2>2. /\ fresh[r] = None \/ session[fresh[r]] \in lossy'
        /\ lossy \subseteq lossy'
    BY <1>8 DEF NetworkError, NoteLoss
  <2> QED
    BY <1>1, <1>2, <1>3, <1>4, <1>5, <1>6, <2>1, <2>2 DEF SettleEffect
<1>9. CASE BelieveIt(r)
  <2>1. holds'[device[r]] = None \/ holds'[device[r]] = holds[device[r]]
    BY <1>1, <1>9, <1>c DEF BelieveIt, SignOut, Clients
  <2>2. fresh[r] = None /\ lossy' = lossy
    BY <1>9 DEF BelieveIt, FreshInv
  <2> QED
    BY <1>1, <1>2, <1>3, <1>4, <1>5, <1>6, <2>1, <2>2 DEF SettleEffect
<1> QED
  BY <1>7, <1>8, <1>9

\* A first 401 waits for the request's siblings.
DoubtEffect(r) ==
  /\ phase[r] = "sent" /\ device[r] \in Phones /\ step[r] = "denied"
  /\ ReceiveEffect(r)
  /\ NoteIdling(r) /\ hurried \subseteq hurried'
  /\ \A q \in Requests :
       /\ phase'[q] = IF q = r THEN "doubt" ELSE phase[q]
       /\ waits'[q] = IF q = r THEN InFlightWith(r, device[r], presented[r])
                               ELSE waits[q] \ {r}
  /\ UNCHANGED <<holds, stored, device, task, presented, lossy, misled>>

LEMMA DoubtsDo ==
  ASSUME TypeInv, ClientInv, NEW r \in Requests, DoubtIt(r)
  PROVE  DoubtEffect(r)
<1>1. ReceiveEffect(r)
  BY ReceiveDoes DEF DoubtIt
<1>2. hurried \subseteq hurried'
  BY Hurrying DEF DoubtIt
<1>3. \A q \in Requests :
       /\ phase'[q] = IF q = r THEN "doubt" ELSE phase[q]
       /\ waits'[q] = IF q = r THEN InFlightWith(r, device[r], presented[r])
                               ELSE waits[q] \ {r}
  BY Client DEF DoubtIt, Clients
<1> QED
  BY <1>1, <1>2, <1>3 DEF DoubtIt, DoubtEffect

\* Nobody but the server is concerned, or a slot is free again.
ForgetEffect(r) ==
  /\ phase[r] \in {"gone", "doubt"}
  /\ \/ phase[r] = "gone" /\ ReceiveEffect(r) /\ UNCHANGED <<holds, misled>>
     \/ /\ phase[r] = "doubt" /\ waits[r] = {} /\ UNCHANGED sessionVars
        /\ ~Superseded(r) /\ misled' = misled \union Alive(device[r])
        /\ \A d \in Devices : holds'[d] = IF d = device[r] THEN None ELSE holds[d]
  /\ \A q \in Requests : /\ phase'[q] = IF q = r THEN "idle" ELSE phase[q]
                         /\ device'[q] = IF q = r THEN Nobody ELSE device[q]
                         /\ presented'[q] = IF q = r THEN None ELSE presented[q]
                         /\ task'[q] = IF q = r THEN "public" ELSE task[q]
  /\ UNCHANGED <<stored, waits, hurried, lossy>>

Leave(r) ==
  /\ phase[r] = "doubt" /\ waits[r] = {} /\ ~Superseded(r)
  /\ SignOut(r)
  /\ misled' = misled \union Alive(device[r])
  /\ UNCHANGED <<sessionVars, waits, stored, hurried, lossy>>

LEMMA ForgetsDo ==
  ASSUME TypeInv, ClientInv, NEW r \in Requests, Forget(r) \/ Leave(r)
  PROVE  ForgetEffect(r)
<1>c. Clients
  BY Client
<1>1. \A q \in Requests : /\ phase'[q] = IF q = r THEN "idle" ELSE phase[q]
                          /\ device'[q] = IF q = r THEN Nobody ELSE device[q]
                          /\ presented'[q] = IF q = r THEN None ELSE presented[q]
                          /\ task'[q] = IF q = r THEN "public" ELSE task[q]
  BY <1>c DEF Forget, Leave, SignOut, Finish, Clients
<1>2. CASE Forget(r)
  BY <1>1, <1>2, ReceiveDoes DEF Forget, ForgetEffect, excuses
<1>3. CASE Leave(r)
  <2>1. \A d \in Devices : holds'[d] = IF d = device[r] THEN None ELSE holds[d]
    BY <1>3, <1>c DEF Leave, SignOut, Clients
  <2> QED
    BY <1>1, <1>3, <2>1 DEF Leave, ForgetEffect
<1> QED
  BY <1>2, <1>3

\* The app is killed and started again.
RestartEffect(d) ==
  /\ d \in Devices
  /\ \A e \in Devices : holds'[e] = IF e = d THEN stored[d] ELSE holds[e]
  /\ \A q \in Requests :
       /\ device[q] # d => /\ phase'[q] = phase[q] /\ device'[q] = device[q]
                           /\ presented'[q] = presented[q] /\ task'[q] = task[q]
                           /\ waits'[q] = waits[q]
       /\ device[q] = d => /\ device'[q] = Nobody /\ presented'[q] = None /\ waits'[q] = {}
                           /\ phase'[q] = IF phase[q] = "sent" THEN "gone"
                                          ELSE IF phase[q] \in {"held", "doubt"} THEN "idle"
                                          ELSE phase[q]
       /\ device[q] = d /\ phase[q] = "sent" /\ presented[q] # None =>
            session[presented[q]] \in lossy'
  /\ holds[d] # stored[d] =>
       \A p \in {holds[d], stored[d]} : p # None => session[p] \in lossy'
  /\ lossy \subseteq lossy'
  /\ UNCHANGED <<sessionVars, stored, hurried, misled>>

LEMMA RestartDoes ==
  ASSUME ClientInv, NEW d \in Killed, Restart(d)
  PROVE  RestartEffect(d)
<1>c. Clients
  BY Client
<1>1. d \in Devices
  BY ClientsAssumption DEF Devices
<1>2. \A e \in Devices : holds'[e] = IF e = d THEN stored[d] ELSE holds[e]
  BY <1>c DEF Restart, Clients
<1>3. \A q \in Requests :
       /\ device[q] # d => /\ phase'[q] = phase[q] /\ device'[q] = device[q]
                           /\ presented'[q] = presented[q]
                           /\ waits'[q] = waits[q]
       /\ device[q] = d => /\ device'[q] = Nobody /\ presented'[q] = None /\ waits'[q] = {}
                           /\ phase'[q] = IF phase[q] = "sent" THEN "gone"
                                          ELSE IF phase[q] \in {"held", "doubt"} THEN "idle"
                                          ELSE phase[q]
  BY <1>c DEF Restart, InFlightOf, Clients
<1>4. \A q \in Requests : device[q] # d => task'[q] = task[q]
  BY DEF Restart
<1>5. \A q \in Requests :
        device[q] = d /\ phase[q] = "sent" /\ presented[q] # None =>
          session[presented[q]] \in lossy'
  <2> SUFFICES ASSUME NEW q \in Requests, device[q] = d, phase[q] = "sent",
                      presented[q] # None
               PROVE  session[presented[q]] \in lossy'
    OBVIOUS
  <2>1. presented[q] \in {presented[r] : r \in InFlightOf(d)} \intersect Pairs
    BY <1>c DEF InFlightOf, Clients
  <2> QED
    BY <2>1 DEF Restart
<1>6. ASSUME holds[d] # stored[d], NEW p \in {holds[d], stored[d]}, p # None
      PROVE  session[p] \in lossy'
  <2>1. p \in Pairs
    BY <1>c, <1>1, <1>6 DEF Clients
  <2> QED
    BY <1>6, <2>1 DEF Restart
<1>7. lossy \subseteq lossy' /\ UNCHANGED <<sessionVars, stored, hurried, misled>>
  BY DEF Restart
<1> QED
  BY <1>1, <1>2, <1>3, <1>4, <1>5, <1>6, <1>7 DEF RestartEffect

\* AsyncStorage, the deadline of a wait, and the server's steps.
SaveEffect ==
  /\ \A d \in Devices : stored'[d] \in {stored[d], holds[d]}
  /\ UNCHANGED <<sessionVars, holds, phase, device, task, presented, waits, excuses>>

LEMMA SavesDo == ASSUME ClientInv, NEW d \in Killed, Save(d) PROVE SaveEffect
  BY Client DEF Save, SaveEffect, Clients

TimeEffect(r) ==
  /\ \A q \in Requests : waits'[q] = IF q = r THEN {} ELSE waits[q]
  /\ phase[r] = "held" /\ holds[device[r]] # None => session[holds[device[r]]] \in hurried'
  /\ hurried \subseteq hurried'
  /\ UNCHANGED <<sessionVars, holds, stored, phase, device, task, presented, lossy, misled>>

LEMMA TimesUp == ASSUME ClientInv, NEW r \in Requests, TimeUp(r) PROVE TimeEffect(r)
  BY Client DEF TimeUp, TimeEffect, Clients

\* The clients stand still; an answer that will not come is lost.
Still == UNCHANGED <<clientSide, hurried, misled>> /\ lossy \subseteq lossy'

Breaks(r) ==
  Break(r) /\ Still /\ (fresh[r] # None => session[fresh[r]] \in lossy')

LEMMA ClientKinds ==
  ASSUME TypeInv, FreshInv, ClientInv, [Next]_vars
  PROVE  \/ \E r \in Requests, d \in Devices, j \in Jobs :
              LeaveEffect(r, d, j) \/ BackEffect(r, d, j)
         \/ \E r \in Requests : SettleEffect(r) \/ DoubtEffect(r) \/ ForgetEffect(r)
         \/ SaveEffect \/ \E d \in Devices : RestartEffect(d)
         \/ \E r \in Requests : TimeEffect(r)
         \/ \E r \in Requests : Serve(r) \/ Breaks(r)
         \/ \E p \in Pairs : GraceRunsOut(p) \/ SessionLapses(p)
         \/ TokenExpires
         \/ UNCHANGED vars
<1>c. Clients
  BY Client
<1>1. ASSUME NEW r \in Requests, Begin(r)
      PROVE  \E d \in Devices, j \in Jobs : LeaveEffect(r, d, j) \/ BackEffect(r, d, j)
  <2>1. PICK d \in Devices :
          \E j \in JobsOf(d) :
            /\ device' = [device EXCEPT ![r] = d]
            /\ task' = [task EXCEPT ![r] = j] /\ Intercept(r, d, j)
    BY <1>1 DEF Begin
  <2>2. PICK j \in JobsOf(d) :
            /\ device' = [device EXCEPT ![r] = d]
            /\ task' = [task EXCEPT ![r] = j] /\ Intercept(r, d, j)
    BY <2>1
  <2>3. j \in Jobs /\ (j = "signin" => holds[d] = None)
    BY JobsOfDevice DEF JobsOf
  <2>4. Starts(r, d, j)
    BY <1>1, <1>c, <2>2, <2>3 DEF Begin, Starts, excuses, Clients
  <2> QED
    BY <1>1, <2>2, <2>3, <2>4, InterceptDoes DEF Begin
<1>2. ASSUME NEW r \in Requests, Resume(r)
      PROVE  \E d \in Devices, j \in Jobs : LeaveEffect(r, d, j)
  <2>1. PICK d, j : d = device[r] /\ j = task[r]
    OBVIOUS
  <2>2. d \in Devices /\ j \in Jobs
    BY <1>2, <1>c, <2>1 DEF Resume, Clients
  <2>3. Starts(r, d, j) /\ phase[r] = "held"
    BY <1>2, <1>c, <2>1, <2>2 DEF Resume, Starts, excuses, Clients
  <2>4. Dispatch(r, d, j)
    BY <1>2, <2>1 DEF Resume
  <2> QED
    BY <2>2, <2>3, <2>4, DispatchDoes DEF LeaveEffect
<1>3. ASSUME NEW r \in Requests, Decide(r)
      PROVE  \/ \E d \in Devices, j \in Jobs : LeaveEffect(r, d, j) \/ BackEffect(r, d, j)
             \/ ForgetEffect(r)
  <2>1. PICK d, j : d = device[r] /\ j = task[r]
    OBVIOUS
  <2>2. d \in Devices /\ j \in Jobs
    BY <1>3, <1>c, <2>1 DEF Decide, Clients
  <2>3. CASE Superseded(r) /\ Intercept(r, d, j) /\ UNCHANGED <<holds, device, task, misled>>
    <3>1. Starts(r, d, j) /\ phase[r] = "doubt"
      BY <1>3, <1>c, <2>1, <2>2, <2>3 DEF Decide, Starts, Clients
    <3> QED
      BY <2>2, <2>3, <3>1, InterceptDoes
  <2>4. CASE Leave(r)
    BY <2>4, ForgetsDo
  <2> QED
    BY <1>3, <2>1, <2>3, <2>4 DEF Decide, Leave
<1>4. ASSUME NEW r \in Requests, ServerFails(r) PROVE Breaks(r)
  BY <1>4 DEF ServerFails, Breaks, Still, NoteLoss
<1>5. ASSUME NEW d \in Killed, Save(d) \/ Restart(d)
      PROVE  SaveEffect \/ \E e \in Devices : RestartEffect(e)
  <2>1. d \in Devices
    BY ClientsAssumption DEF Devices
  <2> QED
    BY <1>5, <2>1, SavesDo, RestartDoes
<1> QED
  BY <1>1, <1>2, <1>3, <1>4, <1>5, SettlesDo, DoubtsDo, ForgetsDo, TimesUp
     DEF Next, ClientStep

-----------------------------------------------------------------------------
\* Where requests are, and what phones leave

\* The server's part of a step, while the clients stand still.
ServedEffect(r) ==
  /\ \/ MoveEffect(r) \/ MintEffect(r) \/ OpenEffect(r) \/ RememberEffect(r)
     \/ RecentEffect(r)
  /\ step[r] = "remember" /\ step'[r] = "broken" /\ fresh[r] # None =>
       session[fresh[r]] \in lossy'
  /\ Still

GraceEffect ==
  /\ ClockEffect /\ expired' = expired /\ Still
  /\ \A p \in Pairs, r \in Requests :
       renewed[p] # None /\ renewed'[p] = None /\ carried[r] = p => session[p] \in lossy'

ExpireEffect ==
  /\ ClockEffect /\ expired' = expired + 1 /\ renewed' = renewed
  /\ \A r \in Requests :
       /\ ~Ready(r) /\ fresh[r] # expired + 1
       /\ presented[r] = expired + 1 => session[presented[r]] \in hurried'
  /\ \A p \in Pairs : renewed[p] # expired + 1
  /\ hurried \subseteq hurried'
  /\ UNCHANGED <<clientSide, lossy, misled>>

\* The kinds of a step of the composition.
Kinds ==
  \/ \E r \in Requests, d \in Devices, j \in Jobs :
       LeaveEffect(r, d, j) \/ BackEffect(r, d, j)
  \/ \E r \in Requests :
       \/ SettleEffect(r) \/ DoubtEffect(r) \/ ForgetEffect(r) \/ TimeEffect(r)
       \/ ServedEffect(r)
  \/ SaveEffect \/ \E d \in Devices : RestartEffect(d)
  \/ DropEffect /\ Still
  \/ GraceEffect
  \/ ExpireEffect
  \/ UNCHANGED vars

LEMMA AllKinds == ASSUME TypeInv, FreshInv, ClientInv, [Next]_vars PROVE Kinds
<1>1. ASSUME NEW r \in Requests, Serve(r)
      PROVE  ServedEffect(r) \/ (DropEffect /\ Still)
  <2>1. Still
    BY <1>1 DEF Serve, Still, excuses
  <2>2. Moves(r) \/ Mint(r) \/ Open(r) \/ Remember(r) \/ Recent(r) \/ Drops
    BY <1>1 DEF Serve, ServerStep, Moves, Drops
  <2>3. step[r] = "remember" => Remember(r)
    BY <1>1 DEF Serve, ServerStep, Authenticate, Mint, Recent, Revoke, Work, Refuse, Logout,
                SignIn, Open, ChangePassword, Sweep, SweepDone
  <2>4. step[r] = "remember" => step'[r] = "handle"
    BY <2>3, RememberDoes DEF RememberEffect
  <2> QED
    BY <2>1, <2>2, <2>4, MovesDo, MintDoes, OpenDoes, RememberDoes, RecentDoes, DropsDo
       DEF ServedEffect
<1>2. ASSUME NEW r \in Requests, Breaks(r) PROVE ServedEffect(r)
  BY <1>2, MovesDo DEF Breaks, Moves, ServedEffect
<1>3. ASSUME NEW p \in Pairs, SessionLapses(p) PROVE DropEffect /\ Still
  BY <1>3, DropsDo DEF SessionLapses, Drops, Still, excuses
<1>4. ASSUME NEW p \in Pairs, GraceRunsOut(p) PROVE GraceEffect
  <2>1. ClockEffect
    BY <1>4, ClockDoes DEF GraceRunsOut
  <2>2. expired' = expired /\ Still
    BY <1>4 DEF GraceRunsOut, GraceEnds, tokens, Still
  <2>3. \A q \in Pairs : q # p => renewed'[q] = renewed[q]
    BY <1>4, Plain DEF GraceRunsOut, GraceEnds, Plainly
  <2>4. \A r \in Requests : carried[r] = p => session[p] \in lossy'
    BY <1>4 DEF GraceRunsOut
  <2> QED
    BY <2>1, <2>2, <2>3, <2>4 DEF GraceEffect
<1>5. ASSUME TokenExpires PROVE ExpireEffect
  <2>1. ClockEffect
    BY <1>5, ClockDoes DEF TokenExpires
  <2>2. \A r \in Requests :
          presented[r] = expired + 1 => session[presented[r]] \in hurried'
    BY <1>5 DEF TokenExpires
  <2>4. \A r \in Requests : ~Ready(r) /\ fresh[r] # expired + 1
    BY <1>5 DEF TokenExpires
  <2>5. /\ \A p \in Pairs : renewed[p] # expired + 1
        /\ hurried \subseteq hurried' /\ UNCHANGED <<clientSide, lossy, misled>>
    BY <1>5 DEF TokenExpires
  <2>3. expired' = expired + 1 /\ renewed' = renewed
    BY <1>5 DEF TokenExpires, Expire, redis
  <2> QED
    BY <2>1, <2>2, <2>3, <2>4, <2>5 DEF ExpireEffect
<1> QED
  BY <1>1, <1>2, <1>3, <1>4, <1>5, ClientKinds DEF Kinds

\* What only grows, and what never changes.
Growth ==
  /\ issued \in Nat /\ issued' \in Nat /\ issued <= issued'
  /\ \A p \in 1..issued : session'[p] = session[p] /\ session[p] \in 1..issued
  /\ rotated \subseteq rotated' /\ overlapped \subseteq overlapped'
  /\ lossy \subseteq lossy' /\ hurried \subseteq hurried' /\ caught \subseteq caught'

LEMMA Grows == ASSUME TypeInv, Kinds PROVE Growth
<1>p. Plainly
  BY Plain
<1>n. issued \in Nat /\ \A p \in 1..issued : session[p] \in 1..issued
  BY <1>p DEF Plainly
<1>s. ASSUME UNCHANGED <<issued, session>>,
             rotated \subseteq rotated', overlapped \subseteq overlapped',
             lossy \subseteq lossy', hurried \subseteq hurried', caught \subseteq caught'
      PROVE  Growth
  BY <1>n, <1>s DEF Growth
<1>t. ASSUME issued' = issued + 1, \A p \in 1..issued : session'[p] = session[p],
             rotated \subseteq rotated', overlapped \subseteq overlapped',
             lossy \subseteq lossy', hurried \subseteq hurried', caught \subseteq caught'
      PROVE  Growth
  BY <1>n, <1>t DEF Growth
<1>1. ASSUME NEW r \in Requests, NEW d \in Devices, NEW j \in Jobs,
             LeaveEffect(r, d, j) \/ BackEffect(r, d, j)
      PROVE  Growth
  BY <1>s, <1>1 DEF LeaveEffect, BackEffect, Starts, SendEffect, sessionVars, redis, tokens,
                    handlers, histories
<1>2. ASSUME NEW r \in Requests, SettleEffect(r) \/ DoubtEffect(r) PROVE Growth
  BY <1>s, <1>2 DEF SettleEffect, DoubtEffect, ReceiveEffect
<1>3. ASSUME NEW r \in Requests, ForgetEffect(r) \/ TimeEffect(r) PROVE Growth
  BY <1>s, <1>3 DEF ForgetEffect, TimeEffect, ReceiveEffect, sessionVars, redis, tokens,
                    handlers, histories
<1>4. ASSUME NEW r \in Requests, ServedEffect(r) PROVE Growth
  <2>1. lossy \subseteq lossy' /\ hurried \subseteq hurried'
    BY <1>4 DEF ServedEffect, Still
  <2>2. CASE MoveEffect(r) \/ RememberEffect(r) \/ RecentEffect(r)
    BY <1>s, <2>1, <2>2 DEF MoveEffect, RememberEffect, RecentEffect
  <2>3. CASE MintEffect(r) \/ OpenEffect(r)
    BY <1>t, <2>1, <2>3 DEF MintEffect, OpenEffect
  <2> QED
    BY <1>4, <2>2, <2>3 DEF ServedEffect
<1>5. CASE SaveEffect \/ \E d \in Devices : RestartEffect(d)
  BY <1>s, <1>5 DEF SaveEffect, RestartEffect, excuses, sessionVars, redis, tokens, handlers,
                    histories
<1>6. CASE DropEffect /\ Still
  BY <1>s, <1>6 DEF DropEffect, Still
<1>7. CASE GraceEffect \/ ExpireEffect
  BY <1>s, <1>7 DEF GraceEffect, ExpireEffect, ClockEffect, Still
<1>8. CASE UNCHANGED vars
  BY <1>s, <1>8 DEF vars, excuses, sessionVars, redis, tokens, handlers, histories
<1> QED
  BY <1>1, <1>2, <1>3, <1>4, <1>5, <1>6, <1>7, <1>8 DEF Kinds

\* Where a request's pair is, and where its handler is not.
PlacesInv ==
  /\ \A d \in Devices : holds[d] \in 0..issued /\ stored[d] \in 0..issued
  /\ \A r \in Requests :
       /\ presented[r] \in 0..issued
       /\ phase[r] = "sent" => presented[r] = carried[r]
       /\ phase[r] \in {"idle", "held", "doubt"} => carried[r] = None
       /\ phase[r] \in {"held", "doubt"} => device[r] \in Phones
       /\ phase[r] = "gone" /\ carried[r] # None => SidOf(r) \in lossy

LEMMA PlacesStep ==
  ASSUME TypeInv, FreshInv, ClientInv, PlacesInv, Kinds PROVE PlacesInv'
<1>p. Plainly /\ Clients
  BY Plain, Client
<1>g. Growth
  BY Grows
<1>n. \A x \in 0..issued : x \in 0..issued'
  BY <1>g DEF Growth
<1>c. \A r \in Requests : carried[r] \in 0..issued /\ fresh[r] \in 0..issued
  BY <1>p DEF Plainly
<1>a. /\ \A d \in Devices : holds[d] \in 0..issued /\ stored[d] \in 0..issued
      /\ \A r \in Requests : presented[r] \in 0..issued
  BY DEF PlacesInv
<1>q. ASSUME NEW r \in Requests, carried'[r] = carried[r], presented'[r] = presented[r],
             device'[r] = device[r], phase'[r] = phase[r]
      PROVE  /\ presented'[r] \in 0..issued'
             /\ phase'[r] = "sent" => presented'[r] = carried'[r]
             /\ phase'[r] \in {"idle", "held", "doubt"} => carried'[r] = None
             /\ phase'[r] \in {"held", "doubt"} => device'[r] \in Phones
             /\ phase'[r] = "gone" /\ carried'[r] # None => session'[carried'[r]] \in lossy'
  <2>1. phase[r] = "gone" /\ carried[r] # None => session[carried[r]] \in lossy
    BY DEF PlacesInv, SidOf
  <2>2. carried[r] # None => session'[carried[r]] = session[carried[r]]
    BY <1>c, <1>g DEF Growth
  <2>3. lossy \subseteq lossy'
    BY <1>g DEF Growth
  <2> QED
    BY <2>1, <2>2, <2>3, <1>n, <1>a, <1>q DEF PlacesInv
<1>s. ASSUME UNCHANGED <<holds, phase, device, presented, carried>>,
             \A d \in Devices : stored'[d] \in {stored[d], holds[d]}
      PROVE  PlacesInv'
  BY <1>s, <1>q, <1>n, <1>a DEF PlacesInv, SidOf, Devices
<1>1. ASSUME NEW r \in Requests, NEW d \in Devices, NEW j \in Jobs, LeaveEffect(r, d, j)
      PROVE  PlacesInv'
  <2>1. /\ \A q \in Requests : q # r => /\ carried'[q] = carried[q] /\ presented'[q] = presented[q]
                                        /\ device'[q] = device[q] /\ phase'[q] = phase[q]
        /\ carried'[r] = holds[d] /\ presented'[r] = holds[d] /\ phase'[r] = "sent"
        /\ UNCHANGED <<holds, stored>>
    BY <1>1 DEF LeaveEffect, SendEffect, Starts
  <2> QED
    BY <2>1, <1>q, <1>n, <1>a DEF PlacesInv, SidOf, Devices
<1>2. ASSUME NEW r \in Requests, NEW d \in Devices, NEW j \in Jobs, BackEffect(r, d, j)
      PROVE  PlacesInv'
  <2>1. /\ \A q \in Requests : q # r => /\ presented'[q] = presented[q]
                                        /\ device'[q] = device[q] /\ phase'[q] = phase[q]
        /\ presented'[r] = None /\ phase'[r] = "held" /\ device'[r] \in Phones
        /\ UNCHANGED <<holds, stored, carried>>
        /\ phase[r] \in {"idle", "doubt"}
    BY <1>2 DEF BackEffect, Starts, sessionVars, handlers
  <2>2. 0 \in 0..issued'
    BY <1>g DEF Growth
  <2>3. carried[r] = None
    BY <2>1 DEF PlacesInv
  <2> QED
    BY <2>1, <2>2, <2>3, <1>q, <1>n, <1>a DEF PlacesInv, SidOf, Devices
<1>3. ASSUME NEW r \in Requests, SettleEffect(r) PROVE PlacesInv'
  <2>1. /\ \A q \in Requests : q # r => /\ carried'[q] = carried[q] /\ presented'[q] = presented[q]
                                        /\ device'[q] = device[q] /\ phase'[q] = phase[q]
        /\ presented'[r] = None /\ phase'[r] = "idle" /\ carried'[r] = None
        /\ \A d \in Devices : holds'[d] \in {holds[d], fresh[r], None}
        /\ stored' = stored
    BY <1>3 DEF SettleEffect, ReceiveEffect
  <2>2. 0 \in 0..issued'
    BY <1>g DEF Growth
  <2> QED
    BY <2>1, <2>2, <1>q, <1>n, <1>a, <1>c DEF PlacesInv, SidOf, Devices
<1>4. ASSUME NEW r \in Requests, DoubtEffect(r) PROVE PlacesInv'
  <2>1. /\ \A q \in Requests : q # r => carried'[q] = carried[q] /\ phase'[q] = phase[q]
        /\ UNCHANGED <<presented, device, holds, stored>>
        /\ phase'[r] = "doubt" /\ carried'[r] = None /\ device[r] \in Phones
    BY <1>4 DEF DoubtEffect, ReceiveEffect
  <2> QED
    BY <2>1, <1>q, <1>n, <1>a DEF PlacesInv, SidOf, Devices
<1>5. ASSUME NEW r \in Requests, ForgetEffect(r) PROVE PlacesInv'
  <2>0. phase[r] = "doubt" => carried[r] = None
    BY DEF PlacesInv
  <2>1. /\ \A q \in Requests : q # r => /\ carried'[q] = carried[q] /\ presented'[q] = presented[q]
                                        /\ device'[q] = device[q] /\ phase'[q] = phase[q]
        /\ presented'[r] = None /\ phase'[r] = "idle" /\ carried'[r] = None
        /\ \A d \in Devices : holds'[d] \in {holds[d], None}
        /\ stored' = stored
    BY <1>5, <2>0 DEF ForgetEffect, ReceiveEffect, sessionVars, handlers
  <2>2. 0 \in 0..issued'
    BY <1>g DEF Growth
  <2> QED
    BY <2>1, <2>2, <1>q, <1>n, <1>a DEF PlacesInv, SidOf, Devices
<1>6. ASSUME NEW r \in Requests, TimeEffect(r) PROVE PlacesInv'
  BY <1>6, <1>s DEF TimeEffect, sessionVars, handlers
<1>7. ASSUME NEW r \in Requests, ServedEffect(r) PROVE PlacesInv'
  <2>1. UNCHANGED <<holds, stored, phase, device, presented>>
    BY <1>7 DEF ServedEffect, Still, clientSide
  <2>2. carried' = carried
    BY <1>7 DEF ServedEffect, MoveEffect, MintEffect, OpenEffect, RememberEffect, RecentEffect
  <2> QED
    BY <2>1, <2>2, <1>s
<1>8. CASE SaveEffect
  BY <1>8, <1>s DEF SaveEffect, sessionVars, handlers
<1>9. ASSUME NEW d \in Devices, RestartEffect(d) PROVE PlacesInv'
  <2>1. /\ \A e \in Devices : holds'[e] \in {holds[e], stored[e]}
        /\ UNCHANGED <<stored, carried>>
    BY <1>9 DEF RestartEffect, sessionVars, handlers
  <2>2. ASSUME NEW q \in Requests, device[q] = d
        PROVE  /\ presented'[q] \in 0..issued'
               /\ phase'[q] = "sent" => presented'[q] = carried'[q]
               /\ phase'[q] \in {"idle", "held", "doubt"} => carried'[q] = None
               /\ phase'[q] \in {"held", "doubt"} => device'[q] \in Phones
               /\ phase'[q] = "gone" /\ carried'[q] # None => session'[carried'[q]] \in lossy'
    <3>1. /\ presented'[q] = None
          /\ phase'[q] = IF phase[q] = "sent" THEN "gone"
                         ELSE IF phase[q] \in {"held", "doubt"} THEN "idle" ELSE phase[q]
          /\ phase[q] = "sent" /\ presented[q] # None => session[presented[q]] \in lossy'
          /\ lossy \subseteq lossy' /\ session' = session
      BY <1>9, <2>2 DEF RestartEffect, sessionVars, tokens
    <3>2. 0 \in 0..issued' /\ phase[q] \in Phases
      BY <1>g, <1>p DEF Growth, Clients
    <3>3. phase'[q] \notin {"sent", "held", "doubt"}
      BY <3>1, <3>2 DEF Phases
    <3>4. phase'[q] = "idle" => carried'[q] = None
      BY <3>1, <2>1 DEF PlacesInv
    <3>5. phase'[q] = "gone" /\ carried'[q] # None => session'[carried'[q]] \in lossy'
      BY <3>1, <2>1 DEF PlacesInv, SidOf
    <3> QED
      BY <3>1, <3>2, <3>3, <3>4, <3>5
  <2>3. \A q \in Requests : device[q] # d =>
          phase'[q] = phase[q] /\ device'[q] = device[q] /\ presented'[q] = presented[q]
    BY <1>9 DEF RestartEffect
  <2>4. \A q \in Requests :
          /\ presented'[q] \in 0..issued'
          /\ phase'[q] = "sent" => presented'[q] = carried'[q]
          /\ phase'[q] \in {"idle", "held", "doubt"} => carried'[q] = None
          /\ phase'[q] \in {"held", "doubt"} => device'[q] \in Phones
          /\ phase'[q] = "gone" /\ carried'[q] # None => session'[carried'[q]] \in lossy'
    BY <2>1, <2>2, <2>3, <1>q
  <2> QED
    BY <2>1, <2>4, <1>n, <1>a DEF PlacesInv, SidOf, Devices
<1>10. CASE DropEffect /\ Still
  BY <1>10, <1>s DEF DropEffect, Still, clientSide
<1>11. CASE GraceEffect \/ ExpireEffect
  BY <1>11, <1>s DEF GraceEffect, ExpireEffect, ClockEffect, Still, clientSide
<1>12. CASE UNCHANGED vars
  BY <1>12, <1>s DEF vars, clientSide, sessionVars, handlers
<1> QED
  BY <1>1, <1>2, <1>3, <1>4, <1>5, <1>6, <1>7, <1>8, <1>9, <1>10, <1>11, <1>12 DEF Kinds

\* Only a rotation writes a session's key again.
LEMMA KeysStay ==
  ASSUME TypeInv, Kinds, NEW s \in 1..issued
  PROVE  \/ current'[s] \in {current[s], None}
         \/ \E r \in Requests : MintEffect(r) /\ SidOf(r) = s
<1>p. Plainly
  BY Plain
<1>s. s \in Pairs /\ s # issued + 1
  BY <1>p DEF Plainly
<1>1. ASSUME NEW r \in Requests, NEW d \in Devices, NEW j \in Jobs,
             LeaveEffect(r, d, j) \/ BackEffect(r, d, j)
      PROVE  current' = current
  BY <1>1 DEF LeaveEffect, BackEffect, SendEffect, sessionVars, redis
<1>2. ASSUME NEW r \in Requests,
             SettleEffect(r) \/ DoubtEffect(r) \/ ForgetEffect(r) \/ TimeEffect(r)
      PROVE  current' = current
  BY <1>2 DEF SettleEffect, DoubtEffect, ForgetEffect, TimeEffect, ReceiveEffect, sessionVars,
              redis
<1>3. ASSUME NEW r \in Requests, ServedEffect(r)
      PROVE  current'[s] = current[s] \/ (MintEffect(r) /\ SidOf(r) = s)
  <2>1. MintEffect(r) /\ SidOf(r) # s => current'[s] = current[s]
    BY <1>s DEF MintEffect
  <2>2. OpenEffect(r) => current'[s] = current[s]
    BY <1>s DEF OpenEffect
  <2>3. MoveEffect(r) \/ RememberEffect(r) \/ RecentEffect(r) => current'[s] = current[s]
    BY DEF MoveEffect, RememberEffect, RecentEffect
  <2> QED
    BY <1>3, <2>1, <2>2, <2>3 DEF ServedEffect
<1>4. CASE SaveEffect \/ \E d \in Devices : RestartEffect(d)
  BY <1>4 DEF SaveEffect, RestartEffect, sessionVars, redis
<1>5. CASE DropEffect /\ Still
  BY <1>5, <1>s DEF DropEffect
<1>6. CASE GraceEffect \/ ExpireEffect
  BY <1>6 DEF GraceEffect, ExpireEffect, ClockEffect
<1>7. CASE UNCHANGED vars
  BY <1>7 DEF vars, sessionVars, redis
<1> QED
  BY <1>1, <1>2, <1>3, <1>4, <1>5, <1>6, <1>7 DEF Kinds

\* The session is dead, or a rotation may bring it back.
Over(s) == current[s] = None \/ s \in caught

\* A 401 is the answer for such a session.
DeniedInv ==
  /\ misled \subseteq caught
  /\ \A r \in Requests :
       /\ phase[r] = "doubt" \/ (phase[r] = "sent" /\ step[r] = "denied")
       /\ presented[r] # None
       => Over(session[presented[r]])

LEMMA DeniedStep ==
  ASSUME TypeInv, FreshInv, MintInv, ClientInv, PlacesInv, DeniedInv, Kinds
  PROVE  DeniedInv'
<1>p. Plainly /\ Clients
  BY Plain, Client
<1>g. Growth
  BY Grows
<1>o. ASSUME NEW s \in 1..issued, Over(s) PROVE current'[s] = None \/ s \in caught'
  <2>1. s \in caught => s \in caught'
    BY <1>g DEF Growth
  <2>2. CASE current'[s] \in {current[s], None}
    BY <1>o, <2>1, <2>2 DEF Over
  <2>3. ASSUME NEW r \in Requests, MintEffect(r), SidOf(r) = s PROVE s \in caught'
    BY <1>o, <2>1, <2>3 DEF Over, MintInv, MintEffect
  <2> QED
    BY <2>2, <2>3, KeysStay
<1>q. ASSUME NEW r \in Requests, presented'[r] = presented[r],
             phase[r] = "doubt" \/ (phase[r] = "sent" /\ step[r] = "denied"),
             presented[r] # None
      PROVE  current'[session'[presented'[r]]] = None \/ session'[presented'[r]] \in caught'
  <2>1. presented[r] \in 1..issued
    BY <1>q DEF PlacesInv
  <2>2. session'[presented[r]] = session[presented[r]] /\ session[presented[r]] \in 1..issued
    BY <2>1, <1>g DEF Growth
  <2>3. Over(session[presented[r]])
    BY <1>q DEF DeniedInv
  <2> QED
    BY <1>q, <2>2, <2>3, <1>o
<1>s. ASSUME \A r \in Requests :
               /\ phase'[r] = "doubt" \/ (phase'[r] = "sent" /\ step'[r] = "denied")
               /\ presented'[r] # None
               => \/ /\ presented'[r] = presented[r]
                     /\ phase[r] = "doubt" \/ (phase[r] = "sent" /\ step[r] = "denied")
                  \/ current'[session'[presented'[r]]] = None,
             misled' = misled
      PROVE  DeniedInv'
  <2>1. misled' \subseteq caught'
    BY <1>s, <1>g DEF DeniedInv, Growth
  <2>2. ASSUME NEW r \in Requests,
               phase'[r] = "doubt" \/ (phase'[r] = "sent" /\ step'[r] = "denied"),
               presented'[r] # None
        PROVE  current'[session'[presented'[r]]] = None \/ session'[presented'[r]] \in caught'
    BY <2>2, <1>s, <1>q
  <2> QED
    BY <2>1, <2>2 DEF DeniedInv, Over
<1>1. ASSUME NEW r \in Requests, NEW d \in Devices, NEW j \in Jobs, LeaveEffect(r, d, j)
      PROVE  DeniedInv'
  <2>1. /\ \A q \in Requests : q # r => /\ presented'[q] = presented[q] /\ phase'[q] = phase[q]
                                        /\ step'[q] = step[q]
        /\ phase'[r] = "sent" /\ misled' = misled
    BY <1>1, <1>p DEF LeaveEffect, SendEffect, Starts, Plainly
  <2>2. step'[r] # "denied"
    BY <1>1, <1>p DEF LeaveEffect, SendEffect, Plainly
  <2> QED
    BY <2>1, <2>2, <1>s
<1>2. ASSUME NEW r \in Requests, NEW d \in Devices, NEW j \in Jobs, BackEffect(r, d, j)
      PROVE  DeniedInv'
  <2>1. /\ \A q \in Requests : q # r => /\ presented'[q] = presented[q] /\ phase'[q] = phase[q]
                                        /\ step'[q] = step[q]
        /\ phase'[r] = "held" /\ misled' = misled
    BY <1>2 DEF BackEffect, Starts, sessionVars, handlers
  <2> QED
    BY <2>1, <1>s
<1>3. ASSUME NEW r \in Requests, SettleEffect(r) PROVE DeniedInv'
  <2>1. /\ \A q \in Requests : q # r => /\ presented'[q] = presented[q] /\ phase'[q] = phase[q]
                                        /\ step'[q] = step[q]
        /\ phase'[r] = "idle" /\ misled' = misled
    BY <1>3 DEF SettleEffect, ReceiveEffect
  <2> QED
    BY <2>1, <1>s
<1>4. ASSUME NEW r \in Requests, DoubtEffect(r) PROVE DeniedInv'
  <2>1. /\ \A q \in Requests : q # r => phase'[q] = phase[q] /\ step'[q] = step[q]
        /\ phase[r] = "sent" /\ step[r] = "denied" /\ UNCHANGED <<presented, misled>>
    BY <1>4 DEF DoubtEffect, ReceiveEffect
  <2> QED
    BY <2>1, <1>s
<1>5. ASSUME NEW r \in Requests, ForgetEffect(r) PROVE DeniedInv'
  <2>1. /\ \A q \in Requests : q # r => /\ presented'[q] = presented[q] /\ phase'[q] = phase[q]
                                        /\ step'[q] = step[q]
        /\ phase'[r] = "idle"
    BY <1>5 DEF ForgetEffect, ReceiveEffect, sessionVars, handlers
  <2>2. CASE misled' = misled
    BY <2>1, <2>2, <1>s
  <2>3. CASE /\ phase[r] = "doubt" /\ ~Superseded(r)
             /\ misled' = misled \union Alive(device[r]) /\ UNCHANGED sessionVars
    <3>1. ASSUME NEW s \in Alive(device[r]) PROVE s \in caught
      <4>1. PICK p \in Pairs : p = holds[device[r]] /\ current[session[p]] # None /\ s = session[p]
        BY <3>1 DEF Alive
      <4>2. p = presented[r] /\ presented[r] # None
        BY <2>3, <4>1 DEF Superseded
      <4> QED
        BY <2>3, <4>1, <4>2 DEF DeniedInv, Over
    <3>2. misled' \subseteq caught'
      BY <2>3, <3>1 DEF DeniedInv, sessionVars, histories
    <3>3. ASSUME NEW q \in Requests,
                 phase'[q] = "doubt" \/ (phase'[q] = "sent" /\ step'[q] = "denied"),
                 presented'[q] # None
          PROVE  current'[session'[presented'[q]]] = None \/ session'[presented'[q]] \in caught'
      BY <3>3, <2>1, <1>q
    <3> QED
      BY <3>2, <3>3 DEF DeniedInv, Over
  <2> QED
    BY <1>5, <2>2, <2>3 DEF ForgetEffect
<1>6. ASSUME NEW r \in Requests, TimeEffect(r) PROVE DeniedInv'
  BY <1>6, <1>s DEF TimeEffect, sessionVars, handlers
<1>7. ASSUME NEW r \in Requests, ServedEffect(r) PROVE DeniedInv'
  <2>1. UNCHANGED <<presented, phase, misled>>
    BY <1>7 DEF ServedEffect, Still, clientSide
  <2>2. \A q \in Requests : q # r => step'[q] = step[q]
    BY <1>7 DEF ServedEffect, MoveEffect, MintEffect, OpenEffect, RememberEffect, RecentEffect
  <2>3. ASSUME step'[r] = "denied", phase[r] = "sent", presented[r] # None
        PROVE  current'[session'[presented'[r]]] = None
    <3>1. MoveEffect(r) /\ Verdict(carried[r]) = "denied"
      BY <1>7, <2>3 DEF ServedEffect, MoveEffect, MintEffect, OpenEffect, RememberEffect,
                        RecentEffect
    <3>2. carried[r] = presented[r]
      BY <2>3 DEF PlacesInv
    <3>3. current[session[presented[r]]] = None
      BY <2>3, <3>1, <3>2 DEF Verdict
    <3> QED
      BY <2>1, <3>1, <3>3 DEF MoveEffect
  <2> QED
    BY <2>1, <2>2, <2>3, <1>s
<1>8. CASE SaveEffect
  BY <1>8, <1>s DEF SaveEffect, excuses, sessionVars, handlers
<1>9. ASSUME NEW d \in Devices, RestartEffect(d) PROVE DeniedInv'
  <2>1. /\ \A q \in Requests : \/ presented'[q] = presented[q] /\ phase'[q] = phase[q]
                               \/ presented'[q] = None
        /\ step' = step /\ misled' = misled
    BY <1>9 DEF RestartEffect, sessionVars, handlers
  <2> QED
    BY <2>1, <1>s
<1>10. CASE DropEffect /\ Still
  <2>1. UNCHANGED <<presented, phase, misled>>
    BY <1>10 DEF Still, clientSide
  <2>2. ASSUME NEW q \in Requests, step'[q] = "denied", step[q] # "denied", phase[q] = "sent",
               presented[q] # None
        PROVE  current'[session'[presented'[q]]] = None
    <3>1. current'[SidOf(q)] = None /\ session' = session
      <4>1. PICK S \in SUBSET Pairs :
              /\ \A s \in Pairs : current'[s] = IF s \in S THEN None ELSE current[s]
              /\ \/ step'[q] = step[q]
                 \/ step[q] = "revoke" /\ step'[q] = "denied" /\ S = {SidOf(q)}
                 \/ step[q] = "handle" /\ step'[q] = "ok"
              /\ session' = session
        BY <1>10 DEF DropEffect
      <4>2. S = {SidOf(q)}
        BY <2>2, <4>1
      <4> QED
        BY <4>1, <4>2
    <3>2. carried[q] = presented[q]
      BY <2>2 DEF PlacesInv
    <3> QED
      BY <2>1, <3>1, <3>2 DEF SidOf
  <2> QED
    BY <2>1, <2>2, <1>s
<1>11. CASE GraceEffect \/ ExpireEffect
  BY <1>11, <1>s DEF GraceEffect, ExpireEffect, ClockEffect, Still, clientSide
<1>12. CASE UNCHANGED vars
  BY <1>12, <1>s DEF vars, clientSide, excuses, sessionVars, handlers
<1> QED
  BY <1>1, <1>2, <1>3, <1>4, <1>5, <1>6, <1>7, <1>8, <1>9, <1>10, <1>11, <1>12 DEF Kinds

\* All that is known of the server and of where the clients' requests are.
BaseInv == /\ TypeInv /\ ExchangeInv /\ FreshInv /\ MintInv /\ JobInv
           /\ ClientInv /\ PlacesInv /\ DeniedInv

LEMMA BaseInit == Init => BaseInv
<1> SUFFICES ASSUME Init PROVE BaseInv
  OBVIOUS
<1>1. TypeInv
  BY TypeInit DEF Init
<1>2. ExchangeInv
  BY DEF Init, SessionInit, ExchangeInv, RotatedInv, KeysInv, OneLeftInv, LosersInv
<1>3. FreshInv /\ MintInv /\ JobInv
  BY DEF Init, SessionInit, FreshInv, MintInv, JobInv
<1>4. ClientInv
  BY DEF Init, ClientInv, ClientsTypeOK, DeviceInv, Phases, Jobs
<1>5. PlacesInv /\ DeniedInv
  BY DEF Init, SessionInit, PlacesInv, DeniedInv, Devices
<1> QED
  BY <1>1, <1>2, <1>3, <1>4, <1>5 DEF BaseInv

LEMMA BaseStep == BaseInv /\ [Next]_vars => BaseInv' /\ Kinds
<1> SUFFICES ASSUME BaseInv, [Next]_vars PROVE BaseInv' /\ Kinds
  OBVIOUS
<1>1. /\ TypeInv /\ ExchangeInv /\ FreshInv /\ MintInv /\ JobInv
      /\ ClientInv /\ PlacesInv /\ DeniedInv
  BY DEF BaseInv
<1>2. [SessionNext]_sessionVars
  <2>1. Joint
    BY <1>1 DEF Joint, TaskInv, ClientInv, ClientsTypeOK
  <2> QED
    BY <2>1, ClientSteps DEF vars
<1>3. Kinds
  BY <1>1, AllKinds
<1>4. TypeInv' /\ ExchangeInv' /\ FreshInv' /\ MintInv' /\ JobInv'
  BY <1>1, <1>2, TypeStep, ExchangeStep, FreshStep, MintingStep, JobStep
<1>5. ClientInv' /\ PlacesInv' /\ DeniedInv'
  BY <1>1, <1>3, ClientTypes, PlacesStep, DeniedStep
<1> QED
  BY <1>3, <1>4, <1>5 DEF BaseInv

\* When a phone has waited for the siblings of a request's first 401, it leaves
\* a session only if it is dead, or a rotation brought it back.
THEOREM PhonesLeaveOnlyTheDead == Spec => []LeftOnlyTheDead
<1>1. BaseInv => LeftOnlyTheDead
  BY DEF BaseInv, DeniedInv, LeftOnlyTheDead
<1> QED
  BY <1>1, BaseInit, BaseStep, PTL DEF Spec

-----------------------------------------------------------------------------
\* Why a session is killed

\* The kinds of a step, as the server sees them.
ServerKinds ==
  \/ \E r \in Requests, d \in Devices, j \in Jobs : LeaveEffect(r, d, j)
  \/ \E r \in Requests : ReceiveEffect(r) \/ ServedEffect(r)
  \/ DropEffect \/ GraceEffect \/ ExpireEffect
  \/ UNCHANGED sessionVars

LEMMA Coarsely == Kinds => ServerKinds
  BY DEF Kinds, ServerKinds, BackEffect, SettleEffect, DoubtEffect, ForgetEffect, TimeEffect,
         SaveEffect, RestartEffect, vars

\* What an answer delivers, or will to whoever comes late, has not expired.
AheadInv ==
  /\ \A r \in Requests : fresh[r] # None => fresh[r] > expired
  /\ \A p \in Pairs : renewed[p] # None => renewed[p] > expired

LEMMA AheadStep == ASSUME TypeInv, AheadInv, ServerKinds PROVE AheadInv'
<1>p. Plainly
  BY Plain
<1>n. issued \in Int /\ expired \in Int /\ expired <= issued
  BY <1>p DEF Plainly
<1>1. ASSUME UNCHANGED <<renewed, expired>>,
             \A r \in Requests : fresh'[r] \in {fresh[r], None, issued + 1}
      PROVE  AheadInv'
  BY <1>n, <1>1 DEF AheadInv
<1>2. ASSUME NEW r \in Requests, NEW d \in Devices, NEW j \in Jobs, LeaveEffect(r, d, j)
      PROVE  AheadInv'
  BY <1>1, <1>2 DEF LeaveEffect, SendEffect
<1>3. ASSUME NEW r \in Requests, ReceiveEffect(r) PROVE AheadInv'
  BY <1>1, <1>3 DEF ReceiveEffect
<1>4. ASSUME NEW r \in Requests, ServedEffect(r) PROVE AheadInv'
  <2>1. CASE MoveEffect(r) \/ MintEffect(r) \/ OpenEffect(r)
    BY <1>1, <2>1 DEF MoveEffect, MintEffect, OpenEffect
  <2>2. CASE RememberEffect(r)
    BY <2>2 DEF AheadInv, RememberEffect
  <2>3. CASE RecentEffect(r)
    <3>1. carried[r] \in Pairs /\ UNCHANGED <<renewed, expired>>
          /\ \A q \in Requests : fresh'[q] = IF q = r THEN renewed[carried[r]] ELSE fresh[q]
      BY <2>3, <1>p DEF RecentEffect, Plainly
    <3> QED
      BY <3>1 DEF AheadInv
  <2> QED
    BY <1>4, <2>1, <2>2, <2>3 DEF ServedEffect
<1>5. CASE DropEffect
  BY <1>1, <1>5 DEF DropEffect
<1>6. CASE GraceEffect
  BY <1>6 DEF GraceEffect, ClockEffect, AheadInv
<1>7. CASE ExpireEffect
  <2>1. \A r \in Requests : fresh[r] \in Int /\ fresh[r] # expired + 1 /\ fresh'[r] = fresh[r]
    BY <1>7, <1>p DEF ExpireEffect, ClockEffect, Plainly
  <2>2. \A p \in Pairs : renewed[p] \in Int /\ renewed[p] # expired + 1
    BY <1>7, <1>p DEF ExpireEffect, Plainly
  <2>3. expired' = expired + 1 /\ renewed' = renewed
    BY <1>7 DEF ExpireEffect
  <2> QED
    BY <1>n, <2>1, <2>2, <2>3 DEF AheadInv
<1>8. CASE UNCHANGED sessionVars
  BY <1>1, <1>8 DEF sessionVars, redis, tokens, handlers
<1> QED
  BY <1>2, <1>3, <1>4, <1>5, <1>6, <1>7, <1>8 DEF ServerKinds

\* A device knows the sessions of its pairs, wherever it keeps them.
Knows(d, s) ==
  \/ \E p \in {holds[d], stored[d]} : p # None /\ session[p] = s
  \/ \E r \in Requests :
       /\ phase[r] = "sent" /\ device[r] = d
       /\ \E p \in {carried[r], fresh[r]} : p # None /\ session[p] = s

\* No two devices know the same.
OwnInv == \A d, e \in Devices : \A s \in Pairs : Knows(d, s) /\ Knows(e, s) => d = e

LEMMA Known ==
  ASSUME TypeInv, PlacesInv, NEW d \in Devices, NEW s, Knows(d, s)
  PROVE  s \in 1..issued
<1>1. /\ \A p \in 1..issued : session[p] \in 1..issued
      /\ \A r \in Requests : carried[r] \in 0..issued /\ fresh[r] \in 0..issued
  BY Plain DEF Plainly
<1>2. holds[d] \in 0..issued /\ stored[d] \in 0..issued
  BY DEF PlacesInv
<1> QED
  BY <1>1, <1>2 DEF Knows

LEMMA Learns ==
  ASSUME BaseInv, Kinds, NEW d \in Devices, NEW s, Knows(d, s)'
  PROVE  \/ Knows(d, s)
         \/ \E r \in Requests :
              OpenEffect(r) /\ phase[r] = "sent" /\ device[r] = d /\ s = issued + 1
<1>b. TypeInv /\ FreshInv /\ ClientInv /\ PlacesInv
  BY DEF BaseInv
<1>p. Plainly /\ Clients
  BY <1>b, Plain, Client
<1>g. \A p \in 1..issued : session'[p] = session[p]
  BY <1>b, Grows DEF Growth
<1>r. /\ \A r \in Requests : carried[r] \in 0..issued /\ fresh[r] \in 0..issued
      /\ holds[d] \in 0..issued /\ stored[d] \in 0..issued
  BY <1>b, <1>p DEF Plainly, PlacesInv
<1>s. ASSUME \A p \in {holds'[d], stored'[d]} :
               p # None => \/ p \in {holds[d], stored[d]}
                           \/ \E r \in Requests : /\ phase[r] = "sent" /\ device[r] = d
                                                  /\ p = fresh[r],
             \A r \in Requests :
               phase'[r] = "sent" /\ device'[r] = d =>
                 /\ carried'[r] # None => \/ carried'[r] = holds[d]
                                          \/ /\ phase[r] = "sent" /\ device[r] = d
                                             /\ carried'[r] = carried[r]
                 /\ fresh'[r] # None => /\ phase[r] = "sent" /\ device[r] = d
                                        /\ fresh'[r] = fresh[r]
      PROVE  Knows(d, s)
  <2>1. ASSUME NEW p \in {holds'[d], stored'[d]}, p # None, session'[p] = s
        PROVE  Knows(d, s)
    <3>1. CASE p \in {holds[d], stored[d]}
      <4>1. p \in 1..issued
        BY <2>1, <3>1, <1>r
      <4> QED
        BY <2>1, <3>1, <4>1, <1>g DEF Knows
    <3>2. CASE \E r \in Requests : phase[r] = "sent" /\ device[r] = d /\ p = fresh[r]
      <4>1. p \in 1..issued
        BY <2>1, <3>2, <1>r
      <4> QED
        BY <2>1, <3>2, <4>1, <1>g DEF Knows
    <3> QED
      BY <2>1, <3>1, <3>2, <1>s
  <2>2. ASSUME NEW r \in Requests, phase'[r] = "sent", device'[r] = d, carried'[r] # None,
               session'[carried'[r]] = s
        PROVE  Knows(d, s)
    <3>1. CASE carried'[r] = holds[d]
      <4>1. holds[d] \in 1..issued
        BY <2>2, <3>1, <1>r
      <4> QED
        BY <2>2, <3>1, <4>1, <1>g DEF Knows
    <3>2. CASE phase[r] = "sent" /\ device[r] = d /\ carried'[r] = carried[r]
      <4>1. carried[r] \in 1..issued
        BY <2>2, <3>2, <1>r
      <4> QED
        BY <2>2, <3>2, <4>1, <1>g DEF Knows
    <3> QED
      BY <2>2, <3>1, <3>2, <1>s
  <2>3. ASSUME NEW r \in Requests, phase'[r] = "sent", device'[r] = d, fresh'[r] # None,
               session'[fresh'[r]] = s
        PROVE  Knows(d, s)
    <3>1. phase[r] = "sent" /\ device[r] = d /\ fresh'[r] = fresh[r]
      BY <2>3, <1>s
    <3>2. fresh[r] \in 1..issued
      BY <2>3, <3>1, <1>r
    <3> QED
      BY <2>3, <3>1, <3>2, <1>g DEF Knows
  <2> QED
    BY <2>1, <2>2, <2>3 DEF Knows
<1>1. ASSUME NEW r \in Requests, NEW e \in Devices, NEW j \in Jobs, LeaveEffect(r, e, j)
      PROVE  Knows(d, s)
  <2>1. /\ \A q \in Requests : q # r => /\ carried'[q] = carried[q] /\ device'[q] = device[q]
                                        /\ phase'[q] = phase[q] /\ fresh'[q] = fresh[q]
        /\ carried'[r] = holds[e] /\ device'[r] = e /\ fresh'[r] = None
        /\ UNCHANGED <<holds, stored>>
    BY <1>1, <1>p DEF LeaveEffect, SendEffect, Starts, Plainly
  <2> QED
    BY <2>1, <1>s
<1>2. ASSUME NEW r \in Requests, NEW e \in Devices, NEW j \in Jobs, BackEffect(r, e, j)
      PROVE  Knows(d, s)
  <2>1. /\ \A q \in Requests : q # r => device'[q] = device[q] /\ phase'[q] = phase[q]
        /\ phase'[r] = "held"
        /\ UNCHANGED <<holds, stored, carried, fresh>>
    BY <1>2 DEF BackEffect, Starts, sessionVars, handlers
  <2> QED
    BY <2>1, <1>s
<1>3. ASSUME NEW r \in Requests, SettleEffect(r) PROVE Knows(d, s)
  <2>1. /\ \A q \in Requests : q # r => /\ carried'[q] = carried[q] /\ device'[q] = device[q]
                                        /\ phase'[q] = phase[q] /\ fresh'[q] = fresh[q]
        /\ phase'[r] = "idle" /\ phase[r] = "sent"
        /\ holds'[d] = holds[d] \/ holds'[d] = None \/ (device[r] = d /\ holds'[d] = fresh[r])
        /\ stored' = stored
    BY <1>3 DEF SettleEffect, ReceiveEffect
  <2> QED
    BY <2>1, <1>s
<1>4. ASSUME NEW r \in Requests, DoubtEffect(r) PROVE Knows(d, s)
  <2>1. /\ \A q \in Requests : q # r => /\ carried'[q] = carried[q]
                                        /\ phase'[q] = phase[q] /\ fresh'[q] = fresh[q]
        /\ phase'[r] = "doubt"
        /\ UNCHANGED <<holds, stored, device>>
    BY <1>4 DEF DoubtEffect, ReceiveEffect
  <2> QED
    BY <2>1, <1>s
<1>5. ASSUME NEW r \in Requests, ForgetEffect(r) PROVE Knows(d, s)
  <2>1. /\ \A q \in Requests : q # r => /\ carried'[q] = carried[q] /\ device'[q] = device[q]
                                        /\ phase'[q] = phase[q] /\ fresh'[q] = fresh[q]
        /\ phase'[r] = "idle"
        /\ holds'[d] \in {holds[d], None} /\ stored' = stored
    BY <1>5 DEF ForgetEffect, ReceiveEffect, sessionVars, handlers
  <2> QED
    BY <2>1, <1>s
<1>6. ASSUME NEW r \in Requests, TimeEffect(r) PROVE Knows(d, s)
  BY <1>6, <1>s DEF TimeEffect, sessionVars, handlers
<1>7. ASSUME NEW r \in Requests, ServedEffect(r)
      PROVE  \/ Knows(d, s)
             \/ \E q \in Requests :
                  OpenEffect(q) /\ phase[q] = "sent" /\ device[q] = d /\ s = issued + 1
  <2>1. UNCHANGED <<holds, stored, phase, device>>
    BY <1>7 DEF ServedEffect, Still, clientSide
  <2>2. carried' = carried /\ \A q \in Requests : q # r => fresh'[q] = fresh[q]
    BY <1>7 DEF ServedEffect, MoveEffect, MintEffect, OpenEffect, RememberEffect, RecentEffect
  <2>3. CASE fresh'[r] = fresh[r]
    BY <2>1, <2>2, <2>3, <1>s
  <2>4. CASE phase[r] # "sent" \/ device[r] # d
    BY <2>1, <2>2, <2>4, <1>s
  <2>5. CASE fresh'[r] # None => session'[fresh'[r]] # s
    <3>1. ASSUME NEW p \in {holds[d], stored[d]}, p # None, session'[p] = s PROVE Knows(d, s)
      BY <3>1, <1>r, <1>g DEF Knows
    <3>2. ASSUME NEW q \in Requests, phase[q] = "sent", device[q] = d,
                 NEW p \in {carried[q], fresh[q]}, p # None, session'[p] = s
          PROVE  Knows(d, s)
      BY <3>2, <1>r, <1>g DEF Knows
    <3>3. Knows(d, s)
      BY <2>1, <2>2, <2>5, <3>1, <3>2 DEF Knows
    <3> QED
      BY <3>3
  <2>6. CASE /\ fresh'[r] # fresh[r] /\ phase[r] = "sent" /\ device[r] = d
             /\ fresh'[r] # None /\ session'[fresh'[r]] = s
    <3>1. CASE MintEffect(r)
      <4>1. session[carried[r]] = s /\ carried[r] # None
        BY <2>6, <3>1 DEF MintEffect, SidOf
      <4> QED
        BY <2>6, <4>1 DEF Knows
    <3>2. CASE RecentEffect(r)
      <4>1. /\ carried[r] \in 1..issued /\ fresh'[r] = renewed[carried[r]]
            /\ session' = session
        BY <3>2 DEF RecentEffect
      <4>2. session[carried[r]] = s /\ carried[r] # None
        BY <2>6, <4>1, <1>b, <1>p DEF FreshInv, Plainly
      <4> QED
        BY <2>6, <4>2 DEF Knows
    <3>3. CASE OpenEffect(r)
      <4>1. s = issued + 1
        BY <2>6, <3>3 DEF OpenEffect
      <4> QED
        BY <2>6, <3>3, <4>1
    <3>4. CASE MoveEffect(r) \/ RememberEffect(r)
      BY <2>6, <3>4 DEF MoveEffect, RememberEffect
    <3> QED
      BY <1>7, <3>1, <3>2, <3>3, <3>4 DEF ServedEffect
  <2> QED
    BY <2>3, <2>4, <2>5, <2>6
<1>8. CASE SaveEffect
  <2>1. Knows(d, s)
    BY <1>8, <1>s DEF SaveEffect, sessionVars, handlers
  <2> QED
    BY <2>1
<1>9. ASSUME NEW e \in Devices, RestartEffect(e) PROVE Knows(d, s)
  <2>1. /\ holds'[d] \in {holds[d], stored[d]} /\ UNCHANGED <<stored, carried, fresh>>
        /\ \A q \in Requests : phase'[q] = "sent" =>
             phase[q] = "sent" /\ device'[q] = device[q]
    BY <1>9 DEF RestartEffect, sessionVars, handlers
  <2> QED
    BY <2>1, <1>s
<1>10. CASE DropEffect /\ Still
  <2>1. Knows(d, s)
    BY <1>10, <1>s DEF DropEffect, Still, clientSide
  <2> QED
    BY <2>1
<1>11. CASE GraceEffect \/ ExpireEffect
  <2>1. Knows(d, s)
    BY <1>11, <1>s DEF GraceEffect, ExpireEffect, ClockEffect, Still, clientSide
  <2> QED
    BY <2>1
<1>12. CASE UNCHANGED vars
  <2>1. Knows(d, s)
    BY <1>12, <1>s DEF vars, clientSide, sessionVars, handlers
  <2> QED
    BY <2>1
<1> QED
  BY <1>1, <1>2, <1>3, <1>4, <1>5, <1>6, <1>7, <1>8, <1>9, <1>10, <1>11, <1>12 DEF Kinds

LEMMA OwnStep == ASSUME BaseInv, OwnInv, Kinds PROVE OwnInv'
<1>b. TypeInv /\ PlacesInv
  BY DEF BaseInv
<1>n. issued + 1 \notin 1..issued
  BY <1>b, Plain DEF Plainly
<1> SUFFICES ASSUME NEW d \in Devices, NEW e \in Devices, NEW s \in Pairs,
                    Knows(d, s)', Knows(e, s)'
             PROVE  d = e
  BY DEF OwnInv
<1>1. CASE Knows(d, s) /\ Knows(e, s)
  BY <1>1 DEF OwnInv
<1>2. CASE s = issued + 1
  <2>1. ~Knows(d, s) /\ ~Knows(e, s)
    BY <1>2, <1>b, <1>n, Known
  <2>2. PICK q \in Requests : OpenEffect(q) /\ device[q] = d
    BY <2>1, Learns
  <2>3. PICK r \in Requests : OpenEffect(r) /\ device[r] = e
    BY <2>1, Learns
  <2>4. q = r
    <3> SUFFICES ASSUME q # r PROVE FALSE
      OBVIOUS
    <3>1. step'[r] = "ok"
      BY <2>3 DEF OpenEffect
    <3>2. step'[r] = step[r] /\ step[r] = "open"
      BY <2>2, <2>3 DEF OpenEffect
    <3> QED
      BY <3>1, <3>2
  <2> QED
    BY <2>2, <2>3, <2>4
<1> QED
  BY <1>1, <1>2, Learns

\* The causes: two refreshes of a pair overlapped, or tokens did not arrive.
Excused(s) == s \in overlapped \union lossy

\* The key is gone, and nobody will write it but with a second refresh.
Dead(s) ==
  /\ current[s] = None
  /\ \A q \in Requests : step[q] = "mint" /\ SidOf(q) = s => carried[q] \in rotated

\* Whoever comes late with p is given another pair.
Given(p) ==
  \/ renewed[p] # None
  \/ \E q \in Requests : step[q] = "remember" /\ carried[q] = p

LEMMA ExcusesStay ==
  ASSUME TypeInv, Kinds
  PROVE  \A s : Excused(s) => Excused(s)'
  BY Grows DEF Growth, Excused

\* Who is about to mint was, or has just read the pair it carries in the key.
LEMMA Minters ==
  ASSUME TypeInv, ServerKinds, NEW q \in Requests, step'[q] = "mint"
  PROVE  /\ carried'[q] = carried[q]
         /\ \/ step[q] = "mint"
            \/ carried[q] \in 1..issued /\ current[SidOf(q)] = carried[q] /\ MoveEffect(q)
<1>p. Plainly
  BY Plain
<1>1. ASSUME NEW r \in Requests, NEW d \in Devices, NEW j \in Jobs, LeaveEffect(r, d, j)
      PROVE  carried'[q] = carried[q] /\ step[q] = "mint"
  BY <1>1, <1>p DEF LeaveEffect, SendEffect, Plainly
<1>2. ASSUME NEW r \in Requests, ReceiveEffect(r)
      PROVE  carried'[q] = carried[q] /\ step[q] = "mint"
  BY <1>2 DEF ReceiveEffect
<1>3. ASSUME NEW r \in Requests, ServedEffect(r)
      PROVE  /\ carried'[q] = carried[q]
             /\ \/ step[q] = "mint"
                \/ carried[q] \in 1..issued /\ current[SidOf(q)] = carried[q] /\ MoveEffect(q)
  <2>1. ASSUME MoveEffect(r), q = r
        PROVE  carried[q] \in 1..issued /\ current[SidOf(q)] = carried[q]
    <3>1. Verdict(carried[r]) = "mint" \/ step[r] = "mint"
      BY <2>1 DEF MoveEffect
    <3>2. step[r] = "auth"
      BY <2>1 DEF MoveEffect
    <3> QED
      BY <2>1, <3>1, <3>2, <1>p DEF Verdict, SidOf, Plainly
  <2>2. MoveEffect(r) => /\ carried' = carried
                         /\ \A x \in Requests : x # r => step'[x] = step[x]
    BY DEF MoveEffect
  <2>3. MintEffect(r) \/ OpenEffect(r) \/ RememberEffect(r) \/ RecentEffect(r) =>
          step[q] = "mint" /\ carried' = carried
    BY DEF MintEffect, OpenEffect, RememberEffect, RecentEffect
  <2> QED
    BY <1>3, <2>1, <2>2, <2>3 DEF ServedEffect
<1>4. ASSUME DropEffect \/ GraceEffect \/ ExpireEffect \/ UNCHANGED sessionVars
      PROVE  carried'[q] = carried[q] /\ step[q] = "mint"
  BY <1>4 DEF DropEffect, GraceEffect, ExpireEffect, ClockEffect, sessionVars, handlers
<1> QED
  BY <1>1, <1>2, <1>3, <1>4 DEF ServerKinds

LEMMA DeadStays ==
  ASSUME TypeInv, Kinds, NEW s \in 1..issued, Dead(s)
  PROVE  Dead(s)' \/ s \in overlapped'
<1>p. Plainly
  BY Plain
<1>g. Growth
  BY Grows
<1>1. ASSUME NEW r \in Requests, MintEffect(r), SidOf(r) = s PROVE s \in overlapped'
  BY <1>1 DEF MintEffect, Dead
<1>2. CASE current'[s] \in {current[s], None}
  <2>1. current'[s] = None
    BY <1>2 DEF Dead
  <2>2. ASSUME NEW q \in Requests, step'[q] = "mint", session'[carried'[q]] = s
        PROVE  carried'[q] \in rotated'
    <3>1. carried'[q] = carried[q]
      BY <2>2, Coarsely, Minters
    <3>2. CASE step[q] = "mint"
      <4>1. carried[q] \in 1..issued
        BY <3>2, <1>p DEF NeedsPair, Plainly
      <4>2. SidOf(q) = s
        BY <2>2, <3>1, <4>1, <1>g DEF Growth, SidOf
      <4> QED
        BY <3>1, <3>2, <4>2, <1>g DEF Growth, Dead
    <3>3. CASE carried[q] \in 1..issued /\ current[SidOf(q)] = carried[q] /\ MoveEffect(q)
      <4>1. SidOf(q) = s
        BY <2>2, <3>1, <3>3, <1>g DEF Growth, SidOf
      <4> QED
        BY <3>3, <4>1 DEF Dead
    <3> QED
      BY <2>2, <3>2, <3>3, Coarsely, Minters
  <2> QED
    BY <2>1, <2>2 DEF Dead, SidOf
<1> QED
  BY <1>1, <1>2, KeysStay

\* Beside a pair about to be delivered nobody refreshes its session with a pair
\* that was not exchanged.
LEMMA Lonely ==
  ASSUME TypeInv, ExchangeInv, AheadInv, NEW q \in Requests, fresh[q] # None,
         NEW m \in Requests, step[m] = "mint", SidOf(m) = session[fresh[q]]
  PROVE  carried[m] \in rotated \/ session[fresh[q]] \in overlapped
<1>p. Plainly
  BY Plain
<1>1. carried[m] \in 1..issued /\ carried[m] <= expired
  BY <1>p DEF NeedsPair, ExchangeInv, RotatedInv, Plainly
<1>2. fresh[q] \in 1..issued /\ fresh[q] > expired
  BY <1>p DEF AheadInv, Plainly
<1>3. fresh[q] \notin rotated
  BY <1>2, <1>p DEF ExchangeInv, RotatedInv, Plainly
<1>4. carried[m] # fresh[q]
  BY <1>1, <1>2, <1>p DEF Plainly
<1> QED
  BY <1>1, <1>2, <1>3, <1>4 DEF ExchangeInv, OneLeftInv, SidOf

LEMMA DeadThen ==
  ASSUME TypeInv, ExchangeInv, AheadInv, NEW q \in Requests, fresh[q] # None,
         current[session[fresh[q]]] = None
  PROVE  Dead(session[fresh[q]]) \/ session[fresh[q]] \in overlapped
  BY Lonely DEF Dead

LEMMA GivenStays ==
  ASSUME TypeInv, FreshInv, ServerKinds,
         NEW p \in Pairs, NEW r \in Requests, carried[r] = p, Given(p)
  PROVE  Given(p)' \/ session[p] \in lossy'
<1>p. Plainly
  BY Plain
<1> SUFFICES ASSUME ~(\E q \in Requests : step'[q] = "remember" /\ carried'[q] = p),
                    renewed'[p] = None
             PROVE  session[p] \in lossy'
  BY DEF Given
<1>1. ASSUME UNCHANGED renewed,
             \A q \in Requests : step[q] = "remember" =>
               step'[q] = "remember" /\ carried'[q] = carried[q]
      PROVE  FALSE
  BY <1>1 DEF Given
<1>2. ASSUME NEW q \in Requests, NEW d \in Devices, NEW j \in Jobs, LeaveEffect(q, d, j)
      PROVE  FALSE
  BY <1>1, <1>2, <1>p DEF LeaveEffect, SendEffect, Plainly
<1>3. ASSUME NEW q \in Requests, ReceiveEffect(q) PROVE FALSE
  BY <1>1, <1>3 DEF ReceiveEffect, Answers
<1>4. ASSUME NEW q \in Requests, ServedEffect(q) PROVE session[p] \in lossy'
  <2>1. CASE MintEffect(q) \/ OpenEffect(q) \/ RecentEffect(q)
    BY <1>1, <2>1 DEF MintEffect, OpenEffect, RecentEffect
  <2>2. CASE RememberEffect(q)
    <3>1. fresh[q] # None
      BY <2>2 DEF RememberEffect, FreshInv
    <3>2. p # carried[q] /\ renewed[p] = None
      BY <2>2, <3>1 DEF RememberEffect
    <3>3. PICK x \in Requests : step[x] = "remember" /\ carried[x] = p
      BY <3>2 DEF Given
    <3>4. x # q /\ step'[x] = "remember" /\ carried'[x] = p
      BY <2>2, <3>2, <3>3 DEF RememberEffect
    <3> QED
      BY <3>4
  <2>3. CASE MoveEffect(q)
    <3>1. PICK x \in Requests : step[x] = "remember" /\ carried[x] = p
      BY <2>3 DEF MoveEffect, Given
    <3>2. x = q /\ step[q] = "remember" /\ step'[q] # "remember"
      BY <2>3, <3>1 DEF MoveEffect
    <3>3. step'[q] = "broken"
      BY <2>3, <3>2 DEF MoveEffect
    <3>4. fresh[q] # None /\ session[fresh[q]] = session[p]
      BY <3>1, <3>2 DEF FreshInv, SidOf
    <3> QED
      BY <1>4, <3>2, <3>3, <3>4 DEF ServedEffect
  <2> QED
    BY <1>4, <2>1, <2>2, <2>3 DEF ServedEffect
<1>5. CASE DropEffect
  BY <1>1, <1>5 DEF DropEffect
<1>6. CASE GraceEffect
  <2>1. renewed[p] # None
    BY <1>6 DEF GraceEffect, ClockEffect, Given
  <2> QED
    BY <1>6, <2>1 DEF GraceEffect
<1>7. CASE ExpireEffect
  BY <1>1, <1>7 DEF ExpireEffect, ClockEffect
<1>8. CASE UNCHANGED sessionVars
  BY <1>1, <1>8 DEF sessionVars, redis, handlers
<1> QED
  BY <1>2, <1>3, <1>4, <1>5, <1>6, <1>7, <1>8 DEF ServerKinds

\* Who sweeps with tokens to deliver has its session before it, or dead.
SweepInv ==
  \A q \in Requests :
    /\ step[q] = "sweep" /\ fresh[q] # None =>
         SidOf(q) \in todo[q] \/ Dead(SidOf(q)) \/ Excused(SidOf(q))
    /\ step[q] = "open" /\ fresh[q] # None => Dead(SidOf(q)) \/ Excused(SidOf(q))

LEMMA SweepStep ==
  ASSUME BaseInv, AheadInv, SweepInv, Kinds
  PROVE  SweepInv'
<1>b. TypeInv /\ ExchangeInv /\ FreshInv /\ JobInv
  BY DEF BaseInv
<1>p. Plainly
  BY <1>b, Plain
<1>g. Growth
  BY <1>b, Grows
<1>k. ServerKinds
  BY Coarsely
<1>d. \A s \in 1..issued : Dead(s) \/ Excused(s) => Dead(s)' \/ Excused(s)'
  BY <1>b, DeadStays, ExcusesStay DEF Excused
<1>s. ASSUME NEW q \in Requests, carried'[q] = carried[q], fresh'[q] = fresh[q], fresh[q] # None,
             step[q] \in {"handle", "sweep", "open"}
      PROVE  /\ SidOf(q) \in 1..issued /\ session'[carried'[q]] = SidOf(q)
             /\ session[fresh[q]] = SidOf(q)
  <2>1. carried[q] # None /\ session[fresh[q]] = SidOf(q)
    BY <1>s, <1>b DEF FreshInv
  <2>2. carried[q] \in 1..issued
    BY <2>1, <1>p DEF Plainly
  <2> QED
    BY <1>s, <2>1, <2>2, <1>g DEF Growth, SidOf
<1>q. ASSUME NEW q \in Requests, step'[q] = step[q], carried'[q] = carried[q],
             fresh'[q] = fresh[q], todo'[q] = todo[q]
      PROVE  /\ step'[q] = "sweep" /\ fresh'[q] # None =>
                  SidOf(q)' \in todo'[q] \/ Dead(SidOf(q))' \/ Excused(SidOf(q))'
             /\ step'[q] = "open" /\ fresh'[q] # None => Dead(SidOf(q))' \/ Excused(SidOf(q))'
  <2> SUFFICES ASSUME step[q] \in {"sweep", "open"}, fresh[q] # None
               PROVE  /\ step[q] = "sweep" =>
                           SidOf(q)' \in todo[q] \/ Dead(SidOf(q))' \/ Excused(SidOf(q))'
                      /\ step[q] = "open" => Dead(SidOf(q))' \/ Excused(SidOf(q))'
    BY <1>q
  <2>1. PICK s : s = SidOf(q)
    OBVIOUS
  <2>2. s \in 1..issued /\ SidOf(q)' = s
    BY <2>1, <1>s, <1>q DEF SidOf
  <2>3. Dead(s) \/ Excused(s) => Dead(s)' \/ Excused(s)'
    BY <2>2, <1>d
  <2>4. /\ step[q] = "sweep" => s \in todo[q] \/ Dead(s) \/ Excused(s)
        /\ step[q] = "open" => Dead(s) \/ Excused(s)
    BY <2>1 DEF SweepInv
  <2>5. (Dead(SidOf(q))' <=> Dead(s)') /\ (Excused(SidOf(q))' <=> Excused(s)')
    BY <2>2 DEF Dead, Excused
  <2> QED
    BY <2>2, <2>3, <2>4, <2>5
<1>1. ASSUME NEW r \in Requests, NEW d \in Devices, NEW j \in Jobs, LeaveEffect(r, d, j)
      PROVE  SweepInv'
  <2>1. /\ \A q \in Requests : q # r => /\ step'[q] = step[q] /\ carried'[q] = carried[q]
                                        /\ fresh'[q] = fresh[q] /\ todo'[q] = todo[q]
        /\ fresh'[r] = None
    BY <1>1, <1>p DEF LeaveEffect, SendEffect, Plainly
  <2> QED
    BY <2>1, <1>q DEF SweepInv
<1>2. ASSUME NEW r \in Requests, ReceiveEffect(r) PROVE SweepInv'
  <2>1. /\ \A q \in Requests : q # r => /\ step'[q] = step[q] /\ carried'[q] = carried[q]
                                        /\ fresh'[q] = fresh[q] /\ todo'[q] = todo[q]
        /\ fresh'[r] = None
    BY <1>2 DEF ReceiveEffect
  <2> QED
    BY <2>1, <1>q DEF SweepInv
<1>3. ASSUME NEW r \in Requests, ServedEffect(r) PROVE SweepInv'
  <2>1. \A q \in Requests : q # r => /\ step'[q] = step[q] /\ carried'[q] = carried[q]
                                     /\ fresh'[q] = fresh[q] /\ todo'[q] = todo[q]
    BY <1>3 DEF ServedEffect, MoveEffect, MintEffect, OpenEffect, RememberEffect, RecentEffect
  <2>2. CASE MintEffect(r) \/ OpenEffect(r) \/ RememberEffect(r) \/ RecentEffect(r)
    <3>1. step'[r] \notin {"sweep", "open"}
      BY <2>2 DEF MintEffect, OpenEffect, RememberEffect, RecentEffect
    <3> QED
      BY <2>1, <3>1, <1>q DEF SweepInv
  <2>3. CASE MoveEffect(r)
    <3>1. fresh'[r] = fresh[r] /\ carried'[r] = carried[r] /\ UNCHANGED <<current, session>>
      BY <2>3 DEF MoveEffect
    <3>2. ASSUME step'[r] \in {"sweep", "open"}, fresh[r] # None
          PROVE  /\ step'[r] = "sweep" =>
                      SidOf(r)' \in todo'[r] \/ Dead(SidOf(r))' \/ Excused(SidOf(r))'
                 /\ step'[r] = "open" => Dead(SidOf(r))' \/ Excused(SidOf(r))'
      <4>1. \/ step[r] = "handle" /\ step'[r] = "open"
            \/ step[r] = "handle" /\ step'[r] = "sweep" /\ todo'[r] = LiveSessions
            \/ step[r] = "sweep" /\ step'[r] = "open" /\ todo[r] \intersect LiveSessions = {}
        BY <2>3, <3>2 DEF MoveEffect, Verdict
      <4>2. PICK s : s = SidOf(r)
        OBVIOUS
      <4>3. s \in 1..issued /\ SidOf(r)' = s /\ session[fresh[r]] = s /\ s \in Pairs
        BY <4>1, <4>2, <3>1, <3>2, <1>s, <1>p DEF SidOf, Plainly
      <4>4. current[s] = None => Dead(s) \/ Excused(s)
        BY <4>3, <3>2, <1>b, DeadThen DEF Excused
      <4>5. Dead(s) \/ Excused(s) => Dead(s)' \/ Excused(s)'
        BY <4>3, <1>d
      <4>6. (Dead(SidOf(r))' <=> Dead(s)') /\ (Excused(SidOf(r))' <=> Excused(s)')
        BY <4>3 DEF Dead, Excused
      <4>7. CASE step[r] = "handle" /\ step'[r] = "sweep" /\ todo'[r] = LiveSessions
        <5>1. s \in todo'[r] \/ current[s] = None
          BY <4>3, <4>7 DEF LiveSessions
        <5> QED
          BY <5>1, <4>3, <4>4, <4>5, <4>6, <4>7
      <4>8. CASE step[r] = "sweep" /\ step'[r] = "open" /\ todo[r] \intersect LiveSessions = {}
        <5>1. s \in todo[r] \/ Dead(s) \/ Excused(s)
          BY <3>2, <4>2, <4>8 DEF SweepInv
        <5>2. s \in todo[r] => current[s] = None
          BY <4>3, <4>8 DEF LiveSessions
        <5> QED
          BY <5>1, <5>2, <4>4, <4>5, <4>6, <4>8
      <4>9. CASE step[r] = "handle" /\ step'[r] = "open"
        <5>1. job[r] = "signin"
          BY <2>3, <4>9 DEF MoveEffect
        <5> QED
          BY <5>1, <3>2, <4>9, <1>b DEF JobInv
      <4> QED
        BY <4>1, <4>7, <4>8, <4>9
    <3> QED
      BY <2>1, <3>1, <3>2, <1>q DEF SweepInv
  <2> QED
    BY <1>3, <2>2, <2>3 DEF ServedEffect
<1>4. CASE DropEffect
  <2>1. PICK S \in SUBSET Pairs :
          /\ \A s \in Pairs : current'[s] = IF s \in S THEN None ELSE current[s]
          /\ \A q \in Requests :
               /\ \/ step'[q] = step[q]
                  \/ step[q] = "revoke" /\ step'[q] = "denied" /\ S = {SidOf(q)}
                  \/ step[q] = "handle" /\ step'[q] = "ok"
               /\ todo'[q] = todo[q] \/ todo'[q] = todo[q] \ S
          /\ UNCHANGED <<issued, session, fresh, rotated, overlapped, carried>>
    BY <1>4 DEF DropEffect
  <2>2. ASSUME NEW q \in Requests, step'[q] \in {"sweep", "open"}, fresh[q] # None
        PROVE  /\ step'[q] = "sweep" =>
                    SidOf(q)' \in todo'[q] \/ Dead(SidOf(q))' \/ Excused(SidOf(q))'
               /\ step'[q] = "open" => Dead(SidOf(q))' \/ Excused(SidOf(q))'
    <3>1. step'[q] = step[q]
      BY <2>1, <2>2
    <3>2. PICK s : s = SidOf(q)
      OBVIOUS
    <3>3. s \in 1..issued /\ SidOf(q)' = s /\ session[fresh[q]] = s /\ s \in Pairs
      BY <2>1, <2>2, <3>1, <3>2, <1>s, <1>p DEF SidOf, Plainly
    <3>4. CASE todo'[q] = todo[q]
      BY <2>1, <3>1, <3>4, <2>2, <1>q
    <3>5. CASE s \notin S /\ todo'[q] = todo[q] \ S
      <4>1. /\ step[q] = "sweep" => s \in todo[q] \/ Dead(s) \/ Excused(s)
            /\ step[q] = "open" => Dead(s) \/ Excused(s)
        BY <2>2, <3>1, <3>2 DEF SweepInv
      <4>2. Dead(s) \/ Excused(s) => Dead(s)' \/ Excused(s)'
        BY <3>3, <1>d
      <4>3. (Dead(SidOf(q))' <=> Dead(s)') /\ (Excused(SidOf(q))' <=> Excused(s)')
        BY <3>3 DEF Dead, Excused
      <4> QED
        BY <3>1, <3>3, <3>5, <4>1, <4>2, <4>3
    <3>6. CASE s \in S
      <4>1. current'[s] = None
        BY <2>1, <3>3, <3>6
      <4>2. ASSUME s \notin overlapped, NEW m \in Requests, step'[m] = "mint",
                   session'[carried'[m]] = s
            PROVE  carried'[m] \in rotated'
        <5>1. step[m] = "mint" /\ SidOf(m) = s
          BY <2>1, <4>2 DEF SidOf
        <5> QED
          BY <2>1, <2>2, <3>3, <4>2, <5>1, <1>b, Lonely
      <4>3. Dead(s)' \/ Excused(s)'
        BY <2>1, <4>1, <4>2 DEF Dead, Excused, SidOf
      <4>4. (Dead(SidOf(q))' <=> Dead(s)') /\ (Excused(SidOf(q))' <=> Excused(s)')
        BY <3>3 DEF Dead, Excused
      <4> QED
        BY <4>3, <4>4
    <3> QED
      BY <2>1, <3>4, <3>5, <3>6
  <2> QED
    BY <2>1, <2>2 DEF SweepInv
<1>5. CASE GraceEffect \/ ExpireEffect
  BY <1>5, <1>q DEF GraceEffect, ExpireEffect, ClockEffect, SweepInv
<1>6. CASE UNCHANGED sessionVars
  BY <1>6, <1>q DEF sessionVars, handlers, SweepInv
<1> QED
  BY <1>1, <1>2, <1>3, <1>4, <1>5, <1>6, <1>k DEF ServerKinds

\* A pair that was exchanged gets whoever presents it its successor, or its
\* session is dead, or excused.
CarryInv ==
  \A r \in Requests :
    carried[r] \in rotated =>
      \/ Excused(SidOf(r)) \/ Given(carried[r])
      \/ Dead(SidOf(r)) /\ step[r] # "recent"

\* A device holds such a pair only while its successor is on the way to it.
Brings(q, d, p) ==
  /\ phase[q] = "sent" /\ device[q] = d /\ carried[q] = p
  /\ fresh[q] # None /\ session[fresh[q]] = session[p]

HoldInv ==
  \A d \in Devices :
    holds[d] \in rotated =>
      \/ Excused(session[holds[d]]) \/ Dead(session[holds[d]])
      \/ \E q \in Requests : Brings(q, d, holds[d])

RevokeInv == \A r \in Requests : step[r] = "revoke" => Excused(SidOf(r))

CauseInv == /\ AheadInv /\ OwnInv /\ SweepInv /\ CarryInv /\ HoldInv
            /\ RevokeInv /\ KilledForACause

LEMMA CarryStep ==
  ASSUME BaseInv, CarryInv, HoldInv, Kinds PROVE CarryInv'
<1>b. TypeInv /\ FreshInv /\ ExchangeInv /\ PlacesInv
  BY DEF BaseInv
<1>p. Plainly
  BY <1>b, Plain
<1>g. Growth
  BY <1>b, Grows
<1>k. ServerKinds
  BY Coarsely
<1>r. \A p \in rotated : p \in 1..issued /\ p \in Pairs
  BY <1>b, <1>p DEF ExchangeInv, RotatedInv, Plainly
<1>d. \A s \in 1..issued : Dead(s) \/ Excused(s) => Dead(s)' \/ Excused(s)'
  BY <1>b, DeadStays, ExcusesStay DEF Excused
<1>e. \A s : Excused(s) => Excused(s)'
  BY <1>b, ExcusesStay
<1>f. \A s : s \in lossy' => Excused(s)'
  BY DEF Excused
\* What is known of a pair carries over, whoever presents it next.
<1>t. ASSUME NEW p \in rotated, NEW q \in Requests, carried[q] = p,
             Excused(session[p]) \/ Given(p) \/ Dead(session[p])
      PROVE  Excused(session[p])' \/ Given(p)' \/ Dead(session[p])'
  <2>1. PICK s \in 1..issued : s = session[p]
    BY <1>r, <1>p DEF Plainly
  <2>2. session'[p] = s
    BY <2>1, <1>r, <1>g DEF Growth
  <2>3. Given(p) => Given(p)' \/ Excused(s)'
    BY <2>1, <1>b, <1>f, <1>k, <1>r, <1>t, GivenStays
  <2>4. Dead(s) \/ Excused(s) => Dead(s)' \/ Excused(s)'
    BY <1>d
  <2>5. Excused(s)' \/ Given(p)' \/ Dead(s)'
    BY <2>1, <2>3, <2>4, <1>t
  <2> QED
    BY <2>2, <2>5 DEF Excused, Dead
<1>s. ASSUME NEW q \in Requests, carried'[q] = carried[q], carried[q] \in rotated,
             step'[q] = "recent" => step[q] = "recent" \/ ~Dead(SidOf(q))
      PROVE  \/ Excused(SidOf(q))' \/ Given(carried[q])'
             \/ Dead(SidOf(q))' /\ step'[q] # "recent"
  <2>1. PICK p, s : p = carried[q] /\ s = session[p]
    OBVIOUS
  <2>2. p \in 1..issued /\ s \in 1..issued /\ session'[p] = s
    BY <2>1, <1>r, <1>s, <1>g DEF Growth
  <2>3. Excused(s) \/ Given(p) \/ (Dead(s) /\ step[q] # "recent")
    BY <2>1, <1>s DEF CarryInv, SidOf
  <2>4. Given(p) => Given(p)' \/ Excused(s)'
    BY <2>1, <1>b, <1>f, <1>k, <1>r, <1>s, GivenStays
  <2>5. Excused(s)' \/ Given(p)' \/ (Dead(s)' /\ step'[q] # "recent")
    <3>1. CASE Excused(s)
      BY <3>1, <1>e
    <3>2. CASE Given(p)
      BY <3>2, <2>4
    <3>3. CASE Dead(s) /\ step[q] # "recent"
      <4>1. Dead(s)' \/ Excused(s)'
        BY <3>3, <2>2, <1>d
      <4> QED
        BY <4>1, <3>3, <2>1, <1>s DEF SidOf
    <3> QED
      BY <2>3, <3>1, <3>2, <3>3
  <2>6. SidOf(q)' = s
    BY <2>1, <2>2, <1>s DEF SidOf
  <2>7. (Excused(SidOf(q))' <=> Excused(s)') /\ (Dead(SidOf(q))' <=> Dead(s)')
        /\ (Given(carried[q])' <=> Given(p)')
    BY <2>1, <2>6, <1>s DEF Excused, Dead, Given
  <2> QED
    BY <2>5, <2>7
<1>1. ASSUME NEW r \in Requests, NEW d \in Devices, NEW j \in Jobs, LeaveEffect(r, d, j)
      PROVE  CarryInv'
  <2>1. /\ \A q \in Requests : q # r => step'[q] = step[q] /\ carried'[q] = carried[q]
        /\ carried'[r] = holds[d] /\ step'[r] # "recent" /\ rotated' = rotated
    BY <1>1, <1>p DEF LeaveEffect, SendEffect, Plainly
  <2>2. ASSUME NEW p \in rotated, p = holds[d]
        PROVE  Excused(session[p])' \/ Given(p)' \/ Dead(session[p])'
    <3>1. PICK s \in 1..issued : s = session[p]
      BY <1>r, <1>p DEF Plainly
    <3>2. session'[p] = s
      BY <3>1, <1>r, <1>g DEF Growth
    <3>3. CASE Excused(s) \/ Dead(s)
      <4>1. Dead(s)' \/ Excused(s)'
        BY <3>3, <1>d
      <4> QED
        BY <3>2, <4>1 DEF Excused, Dead
    <3>4. ASSUME NEW q \in Requests, carried[q] = p
          PROVE  Excused(session[p])' \/ Given(p)' \/ Dead(session[p])'
      <4>1. Excused(session[p]) \/ Given(p) \/ Dead(session[p])
        BY <2>2, <3>4 DEF CarryInv, SidOf
      <4> QED
        BY <3>4, <4>1, <1>t
    <3> QED
      BY <2>2, <3>1, <3>3, <3>4 DEF HoldInv, Brings
  <2>3. ASSUME NEW q \in Requests, carried'[q] \in rotated'
        PROVE  \/ Excused(SidOf(q))' \/ Given(carried[q])'
               \/ Dead(SidOf(q))' /\ step'[q] # "recent"
    <3>1. CASE q # r
      BY <2>1, <2>3, <3>1, <1>s
    <3>2. CASE q = r
      <4>1. PICK p \in rotated : p = holds[d]
        BY <2>1, <2>3, <3>2
      <4>2. Excused(session[p])' \/ Given(p)' \/ Dead(session[p])'
        BY <2>2, <4>1
      <4>3. carried'[q] = p /\ step'[q] # "recent"
        BY <2>1, <3>2, <4>1
      <4>4. /\ Excused(SidOf(q))' <=> Excused(session[p])'
            /\ Dead(SidOf(q))' <=> Dead(session[p])'
            /\ Given(carried[q])' <=> Given(p)'
        BY <4>3 DEF Excused, Dead, Given, SidOf
      <4> QED
        BY <4>2, <4>3, <4>4
    <3> QED
      BY <3>1, <3>2
  <2> QED
    BY <2>3 DEF CarryInv
<1>u. ASSUME UNCHANGED <<rotated, carried>>,
             \A q \in Requests : step'[q] = "recent" => step[q] = "recent" \/ ~Dead(SidOf(q))
      PROVE  CarryInv'
  BY <1>u, <1>s DEF CarryInv
<1>2. ASSUME NEW r \in Requests, ReceiveEffect(r) PROVE CarryInv'
  <2>1. /\ \A q \in Requests : q # r => step'[q] = step[q] /\ carried'[q] = carried[q]
        /\ carried'[r] = None /\ rotated' = rotated /\ None \notin rotated
    BY <1>2, <1>r DEF ReceiveEffect
  <2> QED
    BY <2>1, <1>s DEF CarryInv
<1>3. ASSUME NEW r \in Requests, ServedEffect(r) PROVE CarryInv'
  <2>1. CASE MintEffect(r)
    <3>1. /\ rotated' = rotated \union {carried[r]} /\ carried' = carried
          /\ step'[r] = "remember" /\ \A q \in Requests : step'[q] = "recent" => step[q] = "recent"
      BY <2>1 DEF MintEffect
    <3>2. ASSUME NEW q \in Requests, carried[q] = carried[r] PROVE Given(carried[q])'
      BY <3>1, <3>2 DEF Given
    <3> QED
      BY <3>1, <3>2, <1>s DEF CarryInv
  <2>2. CASE OpenEffect(r) \/ RememberEffect(r) \/ RecentEffect(r)
    <3>1. /\ UNCHANGED <<rotated, carried>>
          /\ \A q \in Requests : step'[q] = "recent" => step[q] = "recent"
      BY <2>2 DEF OpenEffect, RememberEffect, RecentEffect
    <3> QED
      BY <3>1, <1>u
  <2>3. CASE MoveEffect(r)
    <3>1. /\ UNCHANGED <<rotated, carried>>
          /\ \A q \in Requests : q # r => step'[q] = step[q]
      BY <2>3 DEF MoveEffect
    <3>2. step'[r] = "recent" => ~Dead(SidOf(r))
      BY <2>3 DEF MoveEffect, Verdict, Dead, SidOf
    <3> QED
      BY <3>1, <3>2, <1>u
  <2> QED
    BY <1>3, <2>1, <2>2, <2>3 DEF ServedEffect
<1>4. CASE DropEffect \/ GraceEffect \/ ExpireEffect
  <2>1. /\ UNCHANGED <<rotated, carried>>
        /\ \A q \in Requests : step'[q] = "recent" => step[q] = "recent"
    BY <1>4 DEF DropEffect, GraceEffect, ExpireEffect, ClockEffect
  <2> QED
    BY <2>1, <1>u
<1>5. CASE UNCHANGED sessionVars
  BY <1>5, <1>u DEF sessionVars, handlers, histories
<1> QED
  BY <1>1, <1>2, <1>3, <1>4, <1>5, <1>k DEF ServerKinds

\* A session is killed for a cause.
LEMMA RevokeStep ==
  ASSUME BaseInv, CarryInv, RevokeInv, KilledForACause, Kinds
  PROVE  RevokeInv' /\ KilledForACause'
<1>b. TypeInv /\ FreshInv /\ ExchangeInv /\ PlacesInv
  BY DEF BaseInv
<1>p. Plainly
  BY <1>b, Plain
<1>g. Growth
  BY <1>b, Grows
<1>k. ServerKinds
  BY Coarsely
<1>e. \A s : Excused(s) => Excused(s)'
  BY <1>b, ExcusesStay
<1>s. ASSUME NEW q \in Requests, step[q] = "revoke", carried'[q] = carried[q]
      PROVE  Excused(SidOf(q))'
  <2>1. carried[q] \in 1..issued
    BY <1>s, <1>p DEF NeedsPair, Plainly
  <2>2. session'[carried'[q]] = SidOf(q)
    BY <2>1, <1>s, <1>g DEF Growth, SidOf
  <2>3. Excused(SidOf(q))
    BY <1>s DEF RevokeInv
  <2>4. overlapped \subseteq overlapped' /\ lossy \subseteq lossy'
    BY <1>g DEF Growth
  <2> QED
    BY <2>2, <2>3, <2>4 DEF Excused, SidOf
<1>u. ASSUME \A q \in Requests : step'[q] = "revoke" =>
               step[q] = "revoke" /\ carried'[q] = carried[q],
             \A s \in killed' :
               s \in killed \/ \E q \in Requests : step[q] = "revoke" /\ s = SidOf(q)
      PROVE  RevokeInv' /\ KilledForACause'
  <2>1. RevokeInv'
    BY <1>u, <1>s DEF RevokeInv
  <2>2. ASSUME NEW s \in killed' PROVE s \in overlapped' \union lossy'
    <3>1. s \in killed => Excused(s)
      BY DEF KilledForACause, Excused
    <3>2. Excused(s)
      BY <1>u, <2>2, <3>1 DEF RevokeInv
    <3> QED
      BY <3>2, <1>g DEF Excused, Growth
  <2> QED
    BY <2>1, <2>2 DEF KilledForACause
<1>1. ASSUME NEW r \in Requests, NEW d \in Devices, NEW j \in Jobs, LeaveEffect(r, d, j)
      PROVE  RevokeInv' /\ KilledForACause'
  <2>1. /\ \A q \in Requests : q # r => step'[q] = step[q] /\ carried'[q] = carried[q]
        /\ step'[r] # "revoke" /\ killed' = killed
    BY <1>1, <1>p DEF LeaveEffect, SendEffect, Plainly
  <2> QED
    BY <2>1, <1>u
<1>2. ASSUME NEW r \in Requests, ReceiveEffect(r) PROVE RevokeInv' /\ KilledForACause'
  <2>1. /\ \A q \in Requests : q # r => step'[q] = step[q] /\ carried'[q] = carried[q]
        /\ step'[r] # "revoke" /\ killed' = killed
    BY <1>2 DEF ReceiveEffect
  <2> QED
    BY <2>1, <1>u
<1>3. ASSUME NEW r \in Requests, ServedEffect(r) PROVE RevokeInv' /\ KilledForACause'
  <2>1. CASE MoveEffect(r) \/ MintEffect(r) \/ OpenEffect(r) \/ RememberEffect(r)
    <3>1. /\ \A q \in Requests : q # r => step'[q] = step[q]
          /\ step'[r] # "revoke" /\ killed' = killed /\ carried' = carried
      BY <2>1 DEF MoveEffect, MintEffect, OpenEffect, RememberEffect, Verdict
    <3> QED
      BY <3>1, <1>u
  <2>2. CASE RecentEffect(r)
    <3>1. /\ \A q \in Requests : q # r => step'[q] = step[q]
          /\ step'[r] = IF renewed[carried[r]] = None THEN "revoke" ELSE "handle"
          /\ UNCHANGED <<session, carried, killed>> /\ step[r] = "recent"
          /\ overlapped \subseteq overlapped'
      BY <2>2 DEF RecentEffect
    <3>2. ASSUME renewed[carried[r]] = None PROVE Excused(SidOf(r))'
      <4>1. CASE Excused(SidOf(r))
        BY <3>1, <4>1, <1>g DEF Excused, SidOf, Growth
      <4>2. CASE \E q \in Requests : step[q] = "remember" /\ carried[q] = carried[r]
        <5>1. SidOf(r) \in overlapped'
          BY <2>2, <3>2, <4>2 DEF RecentEffect
        <5> QED
          BY <3>1, <5>1 DEF Excused, SidOf
      <4>3. carried[r] \in rotated \/ SidOf(r) \in overlapped
        BY <3>1, <1>b DEF ExchangeInv, LosersInv
      <4>4. carried[r] \in rotated => Excused(SidOf(r)) \/ Given(carried[r])
        BY <3>1 DEF CarryInv
      <4> QED
        BY <3>2, <4>1, <4>2, <4>3, <4>4 DEF Given, Excused
    <3>3. RevokeInv'
      BY <3>1, <3>2, <1>s DEF RevokeInv
    <3>4. KilledForACause'
      BY <3>1, <1>g DEF KilledForACause, Growth
    <3> QED
      BY <3>3, <3>4
  <2> QED
    BY <1>3, <2>1, <2>2 DEF ServedEffect
<1>4. CASE DropEffect
  BY <1>4, <1>u DEF DropEffect
<1>5. CASE GraceEffect \/ ExpireEffect
  BY <1>5, <1>u DEF GraceEffect, ExpireEffect, ClockEffect
<1>6. CASE UNCHANGED sessionVars
  BY <1>6, <1>u DEF sessionVars, handlers, histories
<1> QED
  BY <1>1, <1>2, <1>3, <1>4, <1>5, <1>6, <1>k DEF ServerKinds

\* Only a rotation adds a pair to those that were exchanged.
LEMMA Rotates ==
  ASSUME ServerKinds, NEW p \in rotated'
  PROVE  p \in rotated \/ \E r \in Requests : MintEffect(r) /\ p = carried[r]
<1>1. ASSUME NEW r \in Requests, MintEffect(r)
      PROVE  p \in rotated \/ p = carried[r]
  BY <1>1 DEF MintEffect
<1>2. CASE UNCHANGED sessionVars
  BY <1>2 DEF sessionVars, histories
<1>3. rotated' = rotated \/ UNCHANGED sessionVars \/ \E r \in Requests : MintEffect(r)
  BY DEF ServerKinds, LeaveEffect, SendEffect, ReceiveEffect, ServedEffect, MoveEffect,
         OpenEffect, RememberEffect, RecentEffect, DropEffect, GraceEffect, ExpireEffect,
         ClockEffect
<1> QED
  BY <1>1, <1>2, <1>3

LEMMA HoldStep ==
  ASSUME BaseInv, AheadInv, OwnInv, SweepInv, HoldInv, Kinds PROVE HoldInv'
<1>b. TypeInv /\ FreshInv /\ ExchangeInv /\ PlacesInv /\ ClientInv
  BY DEF BaseInv
<1>p. Plainly /\ Clients
  BY <1>b, Plain, Client
<1>g. Growth
  BY <1>b, Grows
<1>m. issued \in Int /\ 1..issued \subseteq Pairs
  BY <1>p DEF Plainly
<1>r. \A p \in rotated : p \in 1..issued /\ p \in Pairs
  BY <1>b, <1>p DEF ExchangeInv, RotatedInv, Plainly
<1>d. \A s \in 1..issued : Dead(s) \/ Excused(s) => Dead(s)' \/ Excused(s)'
  BY <1>b, DeadStays, ExcusesStay DEF Excused
<1>f. \A s : s \in lossy' => Excused(s)'
  BY DEF Excused
<1> SUFFICES ASSUME NEW d \in Devices, NEW p \in rotated', p = holds'[d],
                    NEW s, s = session'[p]
             PROVE  Excused(s)' \/ Dead(s)' \/ \E q \in Requests : Brings(q, d, p)'
  BY DEF HoldInv, Excused, Dead, Brings, SidOf
\* The pair was held and exchanged already, and whoever brings its successor
\* still does, or there is a cause.
<1>s. ASSUME p = holds[d], p \in rotated,
             \A q \in Requests :
               Brings(q, d, p) =>
                 \/ /\ phase'[q] = phase[q] /\ device'[q] = device[q]
                    /\ carried'[q] = carried[q] /\ fresh'[q] = fresh[q]
                 \/ Excused(s)' \/ Dead(s)'
      PROVE  \/ Excused(s)' \/ Dead(s)' \/ \E q \in Requests : Brings(q, d, p)'
  <2>1. p \in 1..issued /\ session[p] = s /\ s \in 1..issued
    BY <1>s, <1>r, <1>g DEF Growth
  <2>2. CASE Excused(s) \/ Dead(s)
    BY <2>1, <2>2, <1>d
  <2>3. ASSUME NEW q \in Requests, Brings(q, d, p)
        PROVE  Excused(s)' \/ Dead(s)' \/ Brings(q, d, p)'
    <3>1. fresh[q] \in 1..issued
      BY <2>3, <1>p DEF Brings, Plainly
    <3>2. session'[fresh[q]] = session[fresh[q]]
      BY <3>1, <1>g DEF Growth
    <3> QED
      BY <2>1, <2>3, <3>2, <1>s DEF Brings
  <2> QED
    BY <2>1, <2>2, <2>3, <1>s DEF HoldInv
<1>n. None \notin rotated'
  <2>1. \A x \in rotated' : x \in 1..issued
    BY <1>r, Coarsely, Rotates DEF MintEffect
  <2> QED
    BY <2>1, <1>m
<1>1. ASSUME NEW r \in Requests, NEW e \in Devices, NEW j \in Jobs,
             LeaveEffect(r, e, j) \/ BackEffect(r, e, j)
      PROVE  \/ Excused(s)' \/ Dead(s)' \/ \E q \in Requests : Brings(q, d, p)'
  <2>1. phase[r] # "sent" /\ UNCHANGED <<holds, rotated>>
    BY <1>1 DEF LeaveEffect, BackEffect, Starts, SendEffect, sessionVars, histories
  <2>2. \A q \in Requests : q # r => /\ phase'[q] = phase[q] /\ device'[q] = device[q]
                                     /\ carried'[q] = carried[q] /\ fresh'[q] = fresh[q]
    BY <1>1 DEF LeaveEffect, BackEffect, Starts, SendEffect, sessionVars, handlers
  <2> QED
    BY <2>1, <2>2, <1>s DEF Brings
<1>2. ASSUME NEW r \in Requests, SettleEffect(r)
      PROVE  \/ Excused(s)' \/ Dead(s)' \/ \E q \in Requests : Brings(q, d, p)'
  <2>1. /\ \A q \in Requests : q # r => /\ phase'[q] = phase[q] /\ device'[q] = device[q]
                                        /\ carried'[q] = carried[q] /\ fresh'[q] = fresh[q]
        /\ UNCHANGED <<rotated, session>> /\ device[r] \in Devices
    BY <1>2 DEF SettleEffect, ReceiveEffect
  <2>2. CASE d # device[r]
    <3>1. holds'[d] = holds[d]
      BY <1>2, <2>2 DEF SettleEffect
    <3> QED
      BY <2>1, <2>2, <3>1, <1>s DEF Brings
  <2>3. CASE d = device[r] /\ holds'[d] = holds[d]
             /\ (fresh[r] = None \/ session[fresh[r]] \in lossy')
    <3>1. Brings(r, d, p) => Excused(s)'
      BY <2>1, <2>3, <1>f DEF Brings
    <3> QED
      BY <2>1, <2>3, <3>1, <1>s
  <2>4. CASE p = fresh[r]
    <3>1. p \in rotated /\ p # None
      BY <2>1, <1>r, <1>n
    <3>2. p <= expired /\ p > expired /\ p \in Int /\ expired \in Int
      BY <2>4, <3>1, <1>b, <1>p DEF AheadInv, ExchangeInv, RotatedInv, Plainly
    <3> QED
      BY <3>2
  <2>5. \/ holds'[device[r]] = None
        \/ holds'[device[r]] = fresh[r]
        \/ /\ holds'[device[r]] = holds[device[r]]
           /\ fresh[r] = None \/ session[fresh[r]] \in lossy'
    BY <1>2 DEF SettleEffect
  <2> QED
    BY <2>2, <2>3, <2>4, <2>5, <1>n
<1>3. ASSUME NEW r \in Requests, DoubtEffect(r)
      PROVE  \/ Excused(s)' \/ Dead(s)' \/ \E q \in Requests : Brings(q, d, p)'
  <2>1. fresh[r] = None
    BY <1>3, <1>b DEF DoubtEffect, FreshInv
  <2>2. /\ \A q \in Requests : q # r => /\ phase'[q] = phase[q] /\ device'[q] = device[q]
                                        /\ carried'[q] = carried[q] /\ fresh'[q] = fresh[q]
        /\ UNCHANGED <<rotated, holds>>
    BY <1>3 DEF DoubtEffect, ReceiveEffect
  <2> QED
    BY <2>1, <2>2, <1>s DEF Brings
<1>4. ASSUME NEW r \in Requests, ForgetEffect(r)
      PROVE  \/ Excused(s)' \/ Dead(s)' \/ \E q \in Requests : Brings(q, d, p)'
  <2>1. /\ \A q \in Requests : q # r => /\ phase'[q] = phase[q] /\ device'[q] = device[q]
                                        /\ carried'[q] = carried[q] /\ fresh'[q] = fresh[q]
        /\ rotated' = rotated /\ phase[r] # "sent"
        /\ holds'[d] = holds[d] \/ holds'[d] = None
    BY <1>4 DEF ForgetEffect, ReceiveEffect, sessionVars, handlers, histories
  <2> QED
    BY <2>1, <1>n, <1>s DEF Brings
<1>5. ASSUME NEW r \in Requests, TimeEffect(r)
      PROVE  \/ Excused(s)' \/ Dead(s)' \/ \E q \in Requests : Brings(q, d, p)'
  BY <1>5, <1>s DEF TimeEffect, sessionVars, handlers, histories
<1>6. ASSUME NEW r \in Requests, ServedEffect(r)
      PROVE  \/ Excused(s)' \/ Dead(s)' \/ \E q \in Requests : Brings(q, d, p)'
  <2>1. /\ UNCHANGED <<holds, phase, device, carried>>
        /\ \A q \in Requests : q # r => fresh'[q] = fresh[q]
    BY <1>6 DEF ServedEffect, Still, clientSide, MoveEffect, MintEffect, OpenEffect,
                RememberEffect, RecentEffect
  <2>2. CASE p \in rotated /\ (fresh'[r] = fresh[r] \/ fresh[r] = None)
    BY <2>1, <2>2, <1>s DEF Brings
  <2>3. CASE MoveEffect(r) \/ RememberEffect(r)
    BY <2>2, <2>3 DEF MoveEffect, RememberEffect
  <2>4. CASE RecentEffect(r)
    BY <2>2, <2>4, <1>b DEF RecentEffect, FreshInv
  <2>5. CASE OpenEffect(r)
    <3>1. ASSUME Brings(r, d, p), p \in rotated PROVE Excused(s)' \/ Dead(s)'
      <4>1. SidOf(r) = s /\ s \in 1..issued
        BY <3>1, <1>r, <1>g DEF Growth, Brings, SidOf
      <4>2. Dead(s) \/ Excused(s)
        BY <2>5, <3>1, <4>1 DEF OpenEffect, SweepInv, Brings
      <4> QED
        BY <4>1, <4>2, <1>d
    <3>2. rotated' = rotated
      BY <2>5 DEF OpenEffect
    <3> QED
      BY <2>1, <3>1, <3>2, <1>s
  <2>6. CASE MintEffect(r)
    <3>1. step[r] = "mint" /\ fresh[r] = None /\ rotated' = rotated \union {carried[r]}
      BY <2>6, <1>b DEF MintEffect, FreshInv
    <3>2. CASE p \in rotated
      BY <2>2, <3>1, <3>2
    <3>3. CASE p = carried[r]
      <4>1. p \in 1..issued /\ s = session[p] /\ s = SidOf(r) /\ s \in 1..issued
        <5>1. p \in 1..issued /\ session'[p] = session[p]
          BY <2>6, <3>3 DEF MintEffect
        <5> QED
          BY <2>6, <3>3, <5>1 DEF MintEffect, SidOf
      <4>n. s \in Pairs /\ p # None
        BY <4>1, <1>m
      <4>2. CASE phase[r] = "gone"
        <5>1. s \in lossy
          BY <3>3, <4>1, <4>n, <4>2, <1>b DEF PlacesInv
        <5> QED
          BY <4>1, <4>n, <5>1, <1>d DEF Excused
      <4>3. CASE phase[r] = "sent"
        <5>1. device[r] \in Devices
          BY <4>3, <1>p DEF Clients
        <5>2. Knows(device[r], s)
          BY <3>3, <4>1, <4>n, <4>3 DEF Knows
        <5>3. Knows(d, s)
          BY <2>1, <4>1 DEF Knows
        <5>4. device[r] = d
          BY <4>1, <4>n, <5>1, <5>2, <5>3 DEF OwnInv
        <5>5. fresh'[r] = issued + 1 /\ session'[issued + 1] = s /\ issued + 1 # None
          BY <2>6, <4>1, <4>n, <1>p DEF MintEffect, Plainly
        <5>6. Brings(r, d, p)'
          BY <2>1, <3>3, <4>3, <5>4, <5>5 DEF Brings
        <5> QED
          BY <5>6
      <4>4. phase[r] \in {"idle", "held", "doubt"} => carried[r] = None
        BY <1>b DEF PlacesInv
      <4>5. phase[r] \in Phases
        BY <1>p DEF Clients
      <4> QED
        BY <3>3, <4>1, <4>n, <4>2, <4>3, <4>4, <4>5 DEF Phases
    <3> QED
      BY <3>1, <3>2, <3>3
  <2> QED
    BY <1>6, <2>3, <2>4, <2>5, <2>6 DEF ServedEffect
<1>7. CASE SaveEffect
  BY <1>7, <1>s DEF SaveEffect, sessionVars, handlers, histories
<1>8. ASSUME NEW e \in Devices, RestartEffect(e)
      PROVE  \/ Excused(s)' \/ Dead(s)' \/ \E q \in Requests : Brings(q, d, p)'
  <2>1. UNCHANGED <<rotated, carried, fresh, session>>
    BY <1>8 DEF RestartEffect, sessionVars, handlers, histories, tokens
  <2>2. CASE d # e
    BY <1>8, <2>1, <2>2, <1>s DEF RestartEffect, Brings
  <2>3. CASE d = e /\ stored[d] = holds[d]
    <3>1. p = holds[d] /\ p # None
      BY <1>8, <2>3, <1>n DEF RestartEffect
    <3>2. ASSUME NEW q \in Requests, Brings(q, d, p) PROVE Excused(s)'
      <4>1. presented[q] = p /\ phase[q] = "sent" /\ device[q] = d
        BY <3>2, <1>b DEF Brings, PlacesInv
      <4>2. session[p] \in lossy'
        BY <1>8, <2>3, <3>1, <4>1 DEF RestartEffect
      <4> QED
        BY <2>1, <4>2, <1>f
    <3> QED
      BY <2>1, <3>1, <3>2, <1>s
  <2>4. CASE d = e /\ stored[d] # holds[d]
    <3>1. p = stored[d] /\ p # None
      BY <1>8, <2>4, <1>n DEF RestartEffect
    <3>2. session[p] \in lossy'
      BY <1>8, <2>4, <3>1 DEF RestartEffect
    <3> QED
      BY <2>1, <3>2, <1>f
  <2> QED
    BY <2>2, <2>3, <2>4
<1>9. CASE (DropEffect /\ Still) \/ GraceEffect \/ ExpireEffect
  <2>1. UNCHANGED <<holds, phase, device, carried, fresh, rotated>>
    BY <1>9 DEF DropEffect, GraceEffect, ExpireEffect, ClockEffect, Still, clientSide
  <2> QED
    BY <2>1, <1>s
<1>10. CASE UNCHANGED vars
  BY <1>10, <1>s DEF vars, clientSide, sessionVars, handlers, histories
<1> QED
  BY <1>1, <1>2, <1>3, <1>4, <1>5, <1>6, <1>7, <1>8, <1>9, <1>10 DEF Kinds

LEMMA CauseInit == Init => CauseInv
<1> SUFFICES ASSUME Init PROVE CauseInv
  OBVIOUS
<1>1. AheadInv /\ SweepInv /\ RevokeInv
  BY DEF Init, SessionInit, AheadInv, SweepInv, RevokeInv
<1>2. OwnInv
  BY DEF Init, OwnInv, Knows
<1>3. CarryInv /\ HoldInv /\ KilledForACause
  BY DEF Init, SessionInit, CarryInv, HoldInv, KilledForACause
<1> QED
  BY <1>1, <1>2, <1>3 DEF CauseInv

LEMMA CauseStep == BaseInv /\ CauseInv /\ [Next]_vars => CauseInv'
<1> SUFFICES ASSUME BaseInv, CauseInv, [Next]_vars PROVE CauseInv'
  OBVIOUS
<1>1. Kinds /\ ServerKinds /\ TypeInv
  BY BaseStep, Coarsely DEF BaseInv
<1>2. /\ AheadInv /\ OwnInv /\ SweepInv /\ CarryInv /\ HoldInv
      /\ RevokeInv /\ KilledForACause
  BY DEF CauseInv
<1> QED
  BY <1>1, <1>2, AheadStep, OwnStep, SweepStep, CarryStep, HoldStep, RevokeStep DEF CauseInv

\* No client is taken for a thief without a cause: a session that was killed as
\* replayed had two refreshes of a pair at once, or tokens that did not arrive.
THEOREM SessionsKilledForACause == Spec => []KilledForACause
<1>1. CauseInv => KilledForACause
  BY DEF CauseInv
<1> QED
  BY <1>1, CauseInit, CauseStep, BaseInit, BaseStep, PTL DEF Spec

-----------------------------------------------------------------------------
\* What guard 1 prevents

\* A request waits for its siblings only while they are on their way.
WaitInv ==
  \A r \in Requests : \A q \in waits[r] :
    phase[q] = "sent" /\ device[q] = device[r] /\ phase[r] \in {"held", "doubt"}

\* The guard could not see it.
Hasty(s) == s \in hurried \union lossy

\* Two requests of a phone are on their way with the same expired pair, one is
\* about to exchange a pair for the second time, or one is about to leave with
\* an expired pair that it waited for in vain, only where the guard is blind.
TwinsInv ==
  \A q, r \in Requests :
    /\ q # r /\ phase[q] = "sent" /\ phase[r] = "sent"
    /\ device[q] \in Guarded /\ device[q] = device[r]
    /\ carried[q] = carried[r] /\ carried[r] \in 1..expired
    => Hasty(SidOf(r))

SecondInv ==
  \A r \in Requests :
    /\ phase[r] = "sent" /\ device[r] \in Guarded
    /\ step[r] = "mint" /\ carried[r] \in rotated
    => Hasty(SidOf(r))

FreedInv ==
  \A r \in Requests :
    /\ phase[r] = "held" /\ waits[r] = {} /\ device[r] \in Guarded
    /\ holds[device[r]] \in 1..expired
    => Hasty(session[holds[device[r]]])

\* So a phone knows of no other overlaps.
BlindInv ==
  \A d \in Guarded, s \in Pairs : Knows(d, s) /\ s \in overlapped => Hasty(s)

GuardInv == WaitInv /\ TwinsInv /\ SecondInv /\ FreedInv /\ BlindInv

LEMMA WaitStep == ASSUME TypeInv, ClientInv, WaitInv, Kinds PROVE WaitInv'
<1>c. Clients
  BY Client
<1>s. ASSUME \A r \in Requests :
               \/ waits'[r] = {}
               \/ /\ waits'[r] \subseteq waits[r]
                  /\ phase'[r] = phase[r] \/ phase'[r] = "doubt"
                  /\ device'[r] = device[r]
                  /\ \A q \in waits'[r] : phase'[q] = phase[q] /\ device'[q] = device[q]
               \/ /\ phase'[r] \in {"held", "doubt"}
                  /\ \A q \in waits'[r] : phase'[q] = "sent" /\ device'[q] = device'[r]
      PROVE  WaitInv'
  BY <1>s DEF WaitInv
<1>w. \A r \in Requests : waits[r] \subseteq Requests
  BY <1>c DEF Clients
<1>1. ASSUME NEW r \in Requests, NEW d \in Devices, NEW j \in Jobs,
             LeaveEffect(r, d, j) \/ BackEffect(r, d, j)
      PROVE  WaitInv'
  <2>1. \A q \in Requests : q # r => /\ waits'[q] = waits[q] /\ phase'[q] = phase[q]
                                     /\ device'[q] = device[q] /\ r \notin waits[q]
    BY <1>1 DEF LeaveEffect, BackEffect, Starts, WaitInv
  <2>2. \/ waits'[r] = {}
        \/ /\ phase'[r] = "held" /\ device'[r] = d
           /\ \A q \in waits'[r] : /\ q \in Requests /\ q # r /\ phase[q] = "sent"
                                   /\ device[q] = d
    BY <1>1 DEF LeaveEffect, BackEffect, Starts, InFlightWith
  <2>3. \/ waits'[r] = {}
        \/ /\ phase'[r] \in {"held", "doubt"}
           /\ \A q \in waits'[r] : phase'[q] = "sent" /\ device'[q] = device'[r]
    BY <2>1, <2>2
  <2>4. \A q \in Requests : q # r =>
          \A x \in waits'[q] : phase'[x] = phase[x] /\ device'[x] = device[x]
    BY <2>1, <1>w
  <2> QED
    BY <2>1, <2>3, <2>4, <1>s
<1>2. ASSUME NEW r \in Requests, SettleEffect(r) PROVE WaitInv'
  <2>1. waits'[r] = {}
    BY <1>2 DEF SettleEffect, WaitInv
  <2>2. \A q \in Requests : /\ waits'[q] \subseteq waits[q] /\ r \notin waits'[q]
                            /\ q # r => phase'[q] = phase[q] /\ device'[q] = device[q]
    BY <1>2 DEF SettleEffect
  <2>3. \A q \in Requests : \A x \in waits'[q] : x \in Requests /\ x # r
    BY <2>2, <1>w
  <2> QED
    BY <2>1, <2>2, <2>3, <1>s
<1>3. ASSUME NEW r \in Requests, DoubtEffect(r) PROVE WaitInv'
  <2>1. /\ phase'[r] = "doubt" /\ device' = device
        /\ \A q \in waits'[r] : q \in Requests /\ q # r /\ phase[q] = "sent"
                                /\ device[q] = device[r]
    BY <1>3 DEF DoubtEffect, InFlightWith
  <2>2. \A q \in Requests : q # r => /\ waits'[q] \subseteq waits[q] /\ r \notin waits'[q]
                                     /\ phase'[q] = phase[q]
    BY <1>3 DEF DoubtEffect
  <2>3. \A q \in Requests : q # r => \A x \in waits'[q] : x \in Requests /\ x # r
    BY <2>2, <1>w
  <2> QED
    BY <2>1, <2>2, <2>3, <1>s
<1>4. ASSUME NEW r \in Requests, ForgetEffect(r) PROVE WaitInv'
  <2>1. waits' = waits /\ waits[r] = {}
    BY <1>4 DEF ForgetEffect, WaitInv
  <2>2. \A q \in Requests : q # r => /\ phase'[q] = phase[q] /\ device'[q] = device[q]
                                     /\ r \notin waits[q]
    BY <1>4 DEF ForgetEffect, WaitInv
  <2>3. \A q \in Requests : q # r => \A x \in waits'[q] : x \in Requests /\ x # r
    BY <2>1, <2>2, <1>w
  <2> QED
    BY <2>1, <2>2, <2>3, <1>s
<1>5. ASSUME NEW r \in Requests, TimeEffect(r) PROVE WaitInv'
  BY <1>5, <1>s DEF TimeEffect
<1>6. ASSUME NEW r \in Requests, ServedEffect(r) PROVE WaitInv'
  BY <1>6, <1>s DEF ServedEffect, Still, clientSide
<1>7. CASE SaveEffect
  BY <1>7, <1>s DEF SaveEffect
<1>8. ASSUME NEW d \in Devices, RestartEffect(d) PROVE WaitInv'
  <2>1. \A q \in Requests :
          /\ device[q] # d => /\ phase'[q] = phase[q] /\ device'[q] = device[q]
                              /\ waits'[q] = waits[q]
          /\ device[q] = d => waits'[q] = {}
    BY <1>8 DEF RestartEffect
  <2>2. \A q \in Requests : device[q] # d =>
          \A x \in waits'[q] : x \in Requests /\ device[x] # d
    BY <2>1, <1>w DEF WaitInv
  <2> QED
    BY <2>1, <2>2, <1>s
<1>9. CASE (DropEffect /\ Still) \/ GraceEffect \/ ExpireEffect
  BY <1>9, <1>s DEF GraceEffect, ExpireEffect, Still, clientSide
<1>10. CASE UNCHANGED vars
  BY <1>10, <1>s DEF vars, clientSide
<1> QED
  BY <1>1, <1>2, <1>3, <1>4, <1>5, <1>6, <1>7, <1>8, <1>9, <1>10 DEF Kinds

\* Who is on the way was, with the same pair, or has just left.
LEMMA OnTheWay ==
  ASSUME Kinds, NEW r \in Requests, phase'[r] = "sent"
  PROVE  \/ phase[r] = "sent" /\ device'[r] = device[r] /\ carried'[r] = carried[r]
         \/ \E d \in Devices, j \in Jobs : LeaveEffect(r, d, j)
<1>1. ASSUME NEW q \in Requests, NEW d \in Devices, NEW j \in Jobs, LeaveEffect(q, d, j), q # r
      PROVE  phase[r] = "sent" /\ device'[r] = device[r] /\ carried'[r] = carried[r]
  BY <1>1 DEF LeaveEffect, Starts, SendEffect
<1>2. ASSUME NEW q \in Requests, NEW d \in Devices, NEW j \in Jobs, BackEffect(q, d, j)
      PROVE  phase[r] = "sent" /\ device'[r] = device[r] /\ carried'[r] = carried[r]
  BY <1>2 DEF BackEffect, Starts, sessionVars, handlers
<1>3. ASSUME NEW q \in Requests, SettleEffect(q) \/ DoubtEffect(q) \/ ForgetEffect(q)
      PROVE  phase[r] = "sent" /\ device'[r] = device[r] /\ carried'[r] = carried[r]
  <2>1. q # r /\ phase'[r] = phase[r]
    BY <1>3 DEF SettleEffect, DoubtEffect, ForgetEffect
  <2>2. device'[r] = device[r]
    BY <1>3, <2>1 DEF SettleEffect, DoubtEffect, ForgetEffect
  <2>3. carried'[r] = carried[r]
    BY <1>3, <2>1 DEF SettleEffect, DoubtEffect, ForgetEffect, ReceiveEffect, sessionVars,
                      handlers
  <2> QED
    BY <2>1, <2>2, <2>3
<1>4. ASSUME NEW q \in Requests, TimeEffect(q)
      PROVE  phase[r] = "sent" /\ device'[r] = device[r] /\ carried'[r] = carried[r]
  BY <1>4 DEF TimeEffect, sessionVars, handlers
<1>5. ASSUME NEW q \in Requests, ServedEffect(q)
      PROVE  phase[r] = "sent" /\ device'[r] = device[r] /\ carried'[r] = carried[r]
  BY <1>5 DEF ServedEffect, Still, clientSide, MoveEffect, MintEffect, OpenEffect,
              RememberEffect, RecentEffect
<1>6. ASSUME NEW d \in Devices, RestartEffect(d)
      PROVE  phase[r] = "sent" /\ device'[r] = device[r] /\ carried'[r] = carried[r]
  <2>1. device[r] # d
    BY <1>6 DEF RestartEffect
  <2> QED
    BY <1>6, <2>1 DEF RestartEffect, sessionVars, handlers
<1>7. CASE SaveEffect \/ (DropEffect /\ Still) \/ GraceEffect \/ ExpireEffect \/ UNCHANGED vars
  BY <1>7 DEF SaveEffect, DropEffect, GraceEffect, ExpireEffect, ClockEffect, Still, clientSide,
              vars, sessionVars, handlers
<1> QED
  BY <1>1, <1>2, <1>3, <1>4, <1>5, <1>6, <1>7 DEF Kinds

\* Who carries a pair of a session that d knows is d's, or its app is gone.
LEMMA OneDevice ==
  ASSUME TypeInv, ClientInv, PlacesInv, OwnInv, NEW d \in Devices, NEW s \in Pairs, Knows(d, s),
         NEW q \in Requests, carried[q] # None, SidOf(q) = s
  PROVE  s \in lossy \/ (phase[q] = "sent" /\ device[q] = d)
<1>c. Clients
  BY Client
<1>1. phase[q] \in {"gone", "sent"}
  BY <1>c DEF Clients, Phases, PlacesInv
<1>2. phase[q] = "gone" => s \in lossy
  BY DEF PlacesInv
<1>3. phase[q] = "sent" => Knows(device[q], s) /\ device[q] \in Devices
  BY <1>c DEF Clients, Knows, SidOf
<1> QED
  BY <1>1, <1>2, <1>3 DEF OwnInv

\* Two refreshes of a pair overlap when the second is minted, or sees that the
\* first is about to store its successor.
LEMMA Overlaps ==
  ASSUME ServerKinds, NEW s \in overlapped'
  PROVE  \/ s \in overlapped
         \/ \E r \in Requests : MintEffect(r) /\ carried[r] \in rotated /\ SidOf(r) = s
         \/ \E r, q \in Requests : /\ RecentEffect(r) /\ SidOf(r) = s
                                   /\ step[q] = "remember" /\ carried[q] = carried[r]
<1>1. ASSUME NEW r \in Requests, MintEffect(r)
      PROVE  s \in overlapped \/ (carried[r] \in rotated /\ SidOf(r) = s)
  BY <1>1 DEF MintEffect
<1>2. ASSUME NEW r \in Requests, RecentEffect(r)
      PROVE  \/ s \in overlapped
             \/ /\ SidOf(r) = s
                /\ \E q \in Requests : step[q] = "remember" /\ carried[q] = carried[r]
  BY <1>2 DEF RecentEffect
<1>3. CASE UNCHANGED sessionVars
  BY <1>3 DEF sessionVars, histories
<1>4. \/ overlapped' = overlapped \/ UNCHANGED sessionVars
      \/ \E r \in Requests : MintEffect(r) \/ RecentEffect(r)
  BY DEF ServerKinds, LeaveEffect, SendEffect, ReceiveEffect, ServedEffect, MoveEffect,
         OpenEffect, RememberEffect, DropEffect, GraceEffect, ExpireEffect, ClockEffect
<1> QED
  BY <1>1, <1>2, <1>3, <1>4

LEMMA BlindStep ==
  ASSUME BaseInv, OwnInv, TwinsInv, SecondInv, BlindInv, Kinds PROVE BlindInv'
<1>b. TypeInv /\ ExchangeInv /\ ClientInv /\ PlacesInv
  BY DEF BaseInv
<1>g. Growth
  BY <1>b, Grows
<1>n. issued \in Int /\ expired \in Int /\ \A r \in Requests : carried[r] \in 0..issued
  BY <1>b, Plain DEF Plainly
<1> SUFFICES ASSUME NEW d \in Guarded, NEW s \in Pairs, Knows(d, s)', s \in overlapped'
             PROVE  Hasty(s)'
  BY DEF BlindInv
<1>d. d \in Devices
  BY DEF Guarded, Devices
<1>h. Hasty(s) => Hasty(s)'
  BY <1>g DEF Hasty, Growth
<1>1. CASE \E r \in Requests : OpenEffect(r) /\ s = issued + 1
  <2>1. s \in overlapped /\ s = issued + 1
    BY <1>1 DEF OpenEffect
  <2> QED
    BY <2>1, <1>b, <1>n DEF ExchangeInv, LosersInv
<1>2. CASE Knows(d, s)
  <2>1. CASE s \in overlapped
    BY <1>2, <1>h, <2>1 DEF BlindInv
  <2>2. ASSUME NEW r \in Requests, MintEffect(r), carried[r] \in rotated, SidOf(r) = s
        PROVE  Hasty(s)
    <3>1. carried[r] # None /\ step[r] = "mint"
      BY <2>2, <1>n DEF MintEffect
    <3>2. s \in lossy \/ (phase[r] = "sent" /\ device[r] = d)
      BY <1>2, <1>b, <1>d, <2>2, <3>1, OneDevice
    <3> QED
      BY <2>2, <3>1, <3>2 DEF SecondInv, Hasty
  <2>3. ASSUME NEW r \in Requests, NEW q \in Requests, RecentEffect(r), SidOf(r) = s,
               step[q] = "remember", carried[q] = carried[r]
        PROVE  Hasty(s)
    <3>1. /\ step[r] = "recent" /\ q # r /\ SidOf(q) = s
          /\ carried[r] \in 1..issued /\ carried[r] <= expired
      BY <2>3, <1>b DEF RecentEffect, ExchangeInv, RotatedInv, SidOf
    <3>2. carried[r] # None /\ carried[r] \in 1..expired
      BY <3>1, <1>n
    <3>3. /\ s \in lossy \/ (phase[r] = "sent" /\ device[r] = d)
          /\ s \in lossy \/ (phase[q] = "sent" /\ device[q] = d)
      BY <1>2, <1>b, <1>d, <2>3, <3>1, <3>2, OneDevice
    <3> QED
      BY <2>3, <3>1, <3>2, <3>3 DEF TwinsInv, Hasty
  <2> QED
    BY <2>1, <2>2, <2>3, <1>h, Coarsely, Overlaps
<1> QED
  BY <1>1, <1>2, <1>d, Learns

LEMMA SecondStep ==
  ASSUME BaseInv, OwnInv, TwinsInv, SecondInv, Kinds PROVE SecondInv'
<1>b. TypeInv /\ ExchangeInv /\ ClientInv /\ PlacesInv
  BY DEF BaseInv
<1>p. Plainly
  BY <1>b, Plain
<1>g. Growth
  BY <1>b, Grows
<1> SUFFICES ASSUME NEW r \in Requests, phase'[r] = "sent", device'[r] \in Guarded,
                    step'[r] = "mint", carried'[r] \in rotated'
             PROVE  session'[carried'[r]] \in hurried' \union lossy'
  BY DEF SecondInv, SidOf, Hasty
<1>1. /\ carried'[r] = carried[r]
      /\ \/ step[r] = "mint"
         \/ carried[r] \in 1..issued /\ current[SidOf(r)] = carried[r] /\ MoveEffect(r)
  BY <1>b, Coarsely, Minters
<1>2. step[r] = "mint"
  <2> SUFFICES ASSUME carried[r] \in 1..issued, current[SidOf(r)] = carried[r], MoveEffect(r)
               PROVE  FALSE
    BY <1>1
  <2>1. carried[r] \in rotated
    BY <1>1 DEF MoveEffect
  <2>2. SidOf(r) \in Pairs
    BY <1>p DEF Plainly, SidOf
  <2>3. carried[r] # None
    BY <1>p DEF Plainly
  <2> QED
    BY <2>1, <2>2, <2>3, <1>b DEF ExchangeInv, KeysInv
<1>3. phase[r] = "sent" /\ device'[r] = device[r]
  <2>1. \A d \in Devices, j \in Jobs : ~LeaveEffect(r, d, j)
    BY <1>2 DEF LeaveEffect, SendEffect
  <2> QED
    BY <2>1, OnTheWay
<1>4. carried[r] \in 1..issued /\ carried[r] <= expired
  BY <1>2, <1>b, <1>p DEF ExchangeInv, RotatedInv, Plainly, NeedsPair
<1>5. /\ session'[carried'[r]] = SidOf(r) /\ SidOf(r) \in Pairs
      /\ carried[r] # None /\ carried[r] \in 1..expired
  <2>1. issued \in Int /\ expired \in Int /\ 1..issued \subseteq Pairs
    BY <1>p DEF Plainly
  <2>2. session'[carried'[r]] = session[carried[r]] /\ session[carried[r]] \in 1..issued
    BY <1>1, <1>4, <1>g DEF Growth
  <2>3. carried[r] # None /\ carried[r] \in 1..expired
    BY <2>1, <1>4
  <2> QED
    BY <2>1, <2>2, <2>3 DEF SidOf
<1>6. Hasty(SidOf(r))
  <2>1. CASE carried[r] \in rotated
    BY <1>2, <1>3, <2>1 DEF SecondInv
  <2>2. ASSUME NEW q \in Requests, MintEffect(q), carried[r] = carried[q] PROVE Hasty(SidOf(r))
    <3>1. q # r
      BY <2>2 DEF MintEffect
    <3>2. Knows(device[r], SidOf(r)) /\ device[r] \in Devices
      BY <1>3, <1>5 DEF Knows, SidOf, Guarded, Devices
    <3>3. SidOf(q) = SidOf(r)
      BY <2>2 DEF SidOf
    <3>4. SidOf(r) \in lossy \/ (phase[q] = "sent" /\ device[q] = device[r])
      BY <1>5, <1>b, <2>2, <3>2, <3>3, OneDevice
    <3> QED
      BY <1>3, <1>5, <2>2, <3>1, <3>3, <3>4 DEF TwinsInv, Hasty
  <2> QED
    BY <1>1, <2>1, <2>2, Coarsely, Rotates
<1> QED
  BY <1>5, <1>6, <1>g DEF Hasty, Growth

\* The clock of the tokens.
LEMMA Expiries == ASSUME Kinds PROVE expired' = expired \/ ExpireEffect
<1>1. CASE UNCHANGED sessionVars
  BY <1>1 DEF sessionVars, tokens
<1> QED
  BY <1>1 DEF Kinds, LeaveEffect, SendEffect, BackEffect, SettleEffect, DoubtEffect, ForgetEffect,
              TimeEffect, SaveEffect, RestartEffect, ReceiveEffect, ServedEffect, MoveEffect,
              MintEffect, OpenEffect, RememberEffect, RecentEffect, DropEffect, GraceEffect, vars

LEMMA TwinsStep ==
  ASSUME BaseInv, TwinsInv, FreedInv, Kinds PROVE TwinsInv'
<1>b. TypeInv /\ PlacesInv
  BY DEF BaseInv
<1>p. issued \in Int /\ expired \in Int /\ expired <= issued
  BY <1>b, Plain DEF Plainly
<1>g. Growth
  BY <1>b, Grows
<1>h. \A s : Hasty(s) => s \in hurried' \union lossy'
  BY <1>g DEF Hasty, Growth
\* The one that leaves beside another was held back, and freed in vain.
<1>l. ASSUME NEW r \in Requests, NEW d \in Devices, NEW j \in Jobs, LeaveEffect(r, d, j),
             NEW q \in Requests, q # r, phase'[q] = "sent", device'[q] = d, d \in Guarded,
             carried'[q] = carried'[r], carried'[r] \in 1..expired'
      PROVE  session'[carried'[r]] \in hurried' \union lossy'
  <2>1. /\ phase[q] = "sent" /\ device[q] = d /\ carried[q] = holds[d]
        /\ carried'[r] = holds[d] /\ UNCHANGED <<expired, session>>
    BY <1>l DEF LeaveEffect, Starts, SendEffect
  <2>2. q \in InFlightWith(r, d, holds[d])
    BY <2>1, <1>b, <1>l DEF InFlightWith, PlacesInv
  <2>3. holds[d] \in 1..expired
    BY <1>l, <2>1
  <2>4. phase[r] = "held"
    BY <1>l, <2>2, <2>3 DEF LeaveEffect
  <2>5. d = device[r] /\ waits[r] = {}
    BY <1>l, <2>4 DEF LeaveEffect, Starts
  <2>6. Hasty(session[holds[d]])
    BY <1>l, <2>3, <2>4, <2>5 DEF FreedInv
  <2> QED
    BY <2>1, <2>6, <1>h
<1> SUFFICES ASSUME NEW q \in Requests, NEW r \in Requests, q # r,
                    phase'[q] = "sent", phase'[r] = "sent",
                    device'[q] \in Guarded, device'[q] = device'[r],
                    carried'[q] = carried'[r], carried'[r] \in 1..expired'
             PROVE  session'[carried'[r]] \in hurried' \union lossy'
  BY DEF TwinsInv, SidOf, Hasty
<1>1. ASSUME NEW d \in Devices, NEW j \in Jobs, LeaveEffect(r, d, j)
      PROVE  session'[carried'[r]] \in hurried' \union lossy'
  <2>1. device'[r] = d
    BY <1>1 DEF LeaveEffect, Starts
  <2> QED
    BY <1>1, <1>l, <2>1
<1>2. ASSUME NEW d \in Devices, NEW j \in Jobs, LeaveEffect(q, d, j)
      PROVE  session'[carried'[r]] \in hurried' \union lossy'
  <2>1. device'[q] = d
    BY <1>2 DEF LeaveEffect, Starts
  <2> QED
    BY <1>2, <1>l, <2>1
<1>3. CASE /\ phase[r] = "sent" /\ device'[r] = device[r] /\ carried'[r] = carried[r]
           /\ phase[q] = "sent" /\ device'[q] = device[q] /\ carried'[q] = carried[q]
  <2>1. CASE carried[r] \in 1..expired
    <3>1. Hasty(SidOf(r))
      BY <1>3, <2>1 DEF TwinsInv
    <3>2. carried[r] \in 1..issued
      BY <2>1, <1>p
    <3>3. session'[carried'[r]] = SidOf(r)
      BY <1>3, <3>2, <1>g DEF Growth, SidOf
    <3> QED
      BY <3>1, <3>3, <1>h
  <2>2. CASE ExpireEffect /\ carried[r] = expired + 1
    <3>1. presented[r] = expired + 1 /\ session' = session
      BY <1>3, <2>2, <1>b DEF PlacesInv, ExpireEffect, ClockEffect
    <3> QED
      BY <1>3, <2>2, <3>1 DEF ExpireEffect
  <2>3. expired' = expired \/ (ExpireEffect /\ expired' = expired + 1)
    BY Expiries DEF ExpireEffect
  <2>4. carried[r] \in 1..expired \/ (ExpireEffect /\ carried[r] = expired + 1)
    BY <1>3, <2>3, <1>p
  <2> QED
    BY <2>1, <2>2, <2>4
<1> QED
  BY <1>1, <1>2, <1>3, OnTheWay

LEMMA FreedStep ==
  ASSUME BaseInv, AheadInv, WaitInv, FreedInv, Kinds PROVE FreedInv'
<1>b. TypeInv /\ PlacesInv /\ ClientInv
  BY DEF BaseInv
<1>p. /\ issued \in Int /\ expired \in Int /\ expired <= issued
      /\ \A q \in Requests : fresh[q] \in Int
  BY <1>b, Plain DEF Plainly
<1>c. \A q \in Requests : waits[q] \subseteq Requests
  BY <1>b, Client DEF Clients
<1>g. Growth
  BY <1>b, Grows
<1>h. \A s : Hasty(s) => s \in hurried' \union lossy'
  BY <1>g DEF Hasty, Growth
<1> SUFFICES ASSUME NEW r \in Requests, NEW d \in Guarded, NEW p, d = device'[r],
                    p = holds'[d], phase'[r] = "held", waits'[r] = {}, p \in 1..expired'
             PROVE  session'[p] \in hurried' \union lossy'
  BY DEF FreedInv, Hasty
<1>d. d \in Devices
  BY DEF Guarded, Devices
\* It was free before, and its device has got no other pair.
<1>s. ASSUME phase[r] = "held", waits[r] = {}, device[r] = d, holds[d] = p, expired' = expired
      PROVE  session'[p] \in hurried' \union lossy'
  <2>1. Hasty(session[p])
    BY <1>s DEF FreedInv
  <2>2. session'[p] = session[p]
    BY <1>s, <1>p, <1>g DEF Growth
  <2> QED
    BY <2>1, <2>2, <1>h
\* It has just been freed.
<1>f. ASSUME NEW q \in Requests, NoteIdling(q), phase[r] = "held", device[r] = d,
             q \in waits[r], UNCHANGED <<session, expired>>
      PROVE  session'[p] \in hurried' \union lossy'
  <2>1. Frees(q)
    BY <1>f DEF Frees
  <2>2. device[q] = d
    BY <1>f DEF WaitInv
  <2>3. p \in {holds'[device[q]]} \intersect 1..expired
    BY <1>f, <2>2
  <2> QED
    BY <1>f, <2>1, <2>3 DEF NoteIdling
<1>1. ASSUME NEW q \in Requests, NEW e \in Devices, NEW j \in Jobs,
             LeaveEffect(q, e, j) \/ BackEffect(q, e, j)
      PROVE  session'[p] \in hurried' \union lossy'
  <2>1. q # r
    BY <1>1 DEF LeaveEffect, BackEffect
  <2>2. UNCHANGED <<holds, expired>>
    BY <1>1 DEF LeaveEffect, BackEffect, Starts, SendEffect, sessionVars, tokens
  <2>3. phase'[r] = phase[r] /\ waits'[r] = waits[r] /\ device'[r] = device[r]
    BY <1>1, <2>1 DEF LeaveEffect, BackEffect, Starts
  <2> QED
    BY <2>2, <2>3, <1>s
<1>2. ASSUME NEW q \in Requests, SettleEffect(q)
      PROVE  session'[p] \in hurried' \union lossy'
  <2>1. q # r /\ UNCHANGED <<session, expired>>
    BY <1>2 DEF SettleEffect, ReceiveEffect
  <2>2. /\ phase[r] = "held" /\ device[r] = d /\ waits[r] \subseteq {q}
        /\ NoteIdling(q)
    BY <1>2, <2>1 DEF SettleEffect
  <2>3. CASE q \in waits[r]
    BY <2>1, <2>2, <2>3, <1>f
  <2>4. CASE waits[r] = {}
    <3>1. d # device[q] => holds'[d] = holds[d]
      BY <1>2, <1>d DEF SettleEffect
    <3>2. p # None
      BY <2>1, <1>p
    <3>3. p # fresh[q]
      <4>1. fresh[q] # None => fresh[q] > expired
        BY DEF AheadInv
      <4> QED
        BY <2>1, <3>2, <4>1, <1>p
    <3>4. d = device[q] => holds'[d] = holds[d]
      BY <1>2, <3>2, <3>3 DEF SettleEffect
    <3> QED
      BY <2>1, <2>2, <2>4, <3>1, <3>4, <1>s
  <2> QED
    BY <2>2, <2>3, <2>4
<1>3. ASSUME NEW q \in Requests, DoubtEffect(q)
      PROVE  session'[p] \in hurried' \union lossy'
  <2>1. q # r /\ UNCHANGED <<session, expired, holds, device>> /\ NoteIdling(q)
    BY <1>3 DEF DoubtEffect, ReceiveEffect
  <2>2. phase[r] = "held" /\ device[r] = d /\ waits[r] \subseteq {q}
    BY <1>3, <2>1 DEF DoubtEffect
  <2>3. CASE q \in waits[r]
    BY <2>1, <2>2, <2>3, <1>f
  <2>4. CASE waits[r] = {}
    BY <2>1, <2>2, <2>4, <1>s
  <2> QED
    BY <2>2, <2>3, <2>4
<1>4. ASSUME NEW q \in Requests, ForgetEffect(q)
      PROVE  session'[p] \in hurried' \union lossy'
  <2>1. /\ q # r /\ waits' = waits /\ expired' = expired
        /\ phase'[r] = phase[r] /\ device'[r] = device[r]
    BY <1>4 DEF ForgetEffect, ReceiveEffect, sessionVars, tokens
  <2>2. holds'[d] = holds[d] \/ holds'[d] = None
    BY <1>4, <1>d DEF ForgetEffect
  <2>3. p # None
    BY <2>1, <1>p
  <2> QED
    BY <2>1, <2>2, <2>3, <1>s
<1>5. ASSUME NEW q \in Requests, TimeEffect(q)
      PROVE  session'[p] \in hurried' \union lossy'
  <2>1. UNCHANGED <<phase, device, holds, session, expired>>
    BY <1>5 DEF TimeEffect, sessionVars, tokens
  <2>2. p # None
    BY <2>1, <1>p
  <2>3. q = r => session[p] \in hurried'
    BY <1>5, <2>1, <2>2 DEF TimeEffect
  <2>4. q # r => waits[r] = {}
    BY <1>5 DEF TimeEffect
  <2> QED
    BY <2>1, <2>3, <2>4, <1>s
<1>6. ASSUME NEW q \in Requests, ServedEffect(q)
      PROVE  session'[p] \in hurried' \union lossy'
  <2>1. UNCHANGED <<phase, device, holds, waits>>
    BY <1>6 DEF ServedEffect, Still, clientSide
  <2>2. expired' = expired
    BY <1>6 DEF ServedEffect, MoveEffect, MintEffect, OpenEffect, RememberEffect, RecentEffect
  <2> QED
    BY <2>1, <2>2, <1>s
<1>7. CASE SaveEffect
  BY <1>7, <1>s DEF SaveEffect, sessionVars, tokens
<1>8. ASSUME NEW e \in Devices, RestartEffect(e)
      PROVE  session'[p] \in hurried' \union lossy'
  <2>1. device[r] # e
    BY <1>8 DEF RestartEffect
  <2>2. /\ phase'[r] = phase[r] /\ device'[r] = device[r] /\ waits'[r] = waits[r]
        /\ expired' = expired
    BY <1>8, <2>1 DEF RestartEffect, sessionVars, tokens
  <2>3. holds'[d] = holds[d]
    BY <1>8, <1>d, <2>1, <2>2 DEF RestartEffect
  <2> QED
    BY <2>2, <2>3, <1>s
<1>9. CASE (DropEffect /\ Still) \/ GraceEffect
  BY <1>9, <1>s DEF DropEffect, GraceEffect, Still, clientSide
<1>10. CASE ExpireEffect
  BY <1>10 DEF ExpireEffect, clientSide, Ready
<1>11. CASE UNCHANGED vars
  BY <1>11, <1>s DEF vars, clientSide, sessionVars, tokens
<1> QED
  BY <1>1, <1>2, <1>3, <1>4, <1>5, <1>6, <1>7, <1>8, <1>9, <1>10, <1>11 DEF Kinds

\* Guard 1: a phone whose clock is the server's overlaps two refreshes only
\* where the guard says that it cannot see.
THEOREM PhonesRefreshOnce == Spec => []OneRefresherPerPhone
<1>1. Init => GuardInv
  BY DEF Init, SessionInit, GuardInv, WaitInv, TwinsInv, SecondInv, FreedInv, BlindInv
<1>2. BaseInv /\ CauseInv /\ GuardInv /\ [Next]_vars => GuardInv'
  <2> SUFFICES ASSUME BaseInv, CauseInv, GuardInv, [Next]_vars PROVE GuardInv'
    OBVIOUS
  <2>1. Kinds /\ TypeInv /\ ClientInv
    BY BaseStep DEF BaseInv
  <2>2. /\ AheadInv /\ OwnInv
        /\ WaitInv /\ TwinsInv /\ SecondInv /\ FreedInv /\ BlindInv
    BY DEF CauseInv, GuardInv
  <2> QED
    BY <2>1, <2>2, WaitStep, TwinsStep, SecondStep, FreedStep, BlindStep DEF GuardInv
<1>3. BaseInv /\ GuardInv => OneRefresherPerPhone
  <2> SUFFICES ASSUME BaseInv, GuardInv, NEW d \in Phones \ Skewed,
                      NEW s \in SessionsOf(d) \intersect overlapped
               PROVE  s \in hurried \union lossy
    BY DEF OneRefresherPerPhone
  <2>1. PICK p \in Pairs : p = holds[d] /\ s = session[p]
    BY DEF SessionsOf
  <2>2. Knows(d, s) /\ s \in Pairs
    BY <2>1, Plain DEF Knows, BaseInv, Plainly
  <2> QED
    BY <2>1, <2>2 DEF GuardInv, BlindInv, Guarded, Hasty
<1> QED
  BY <1>1, <1>2, <1>3, CauseInit, CauseStep, BaseInit, BaseStep, PTL DEF Spec
=============================================================================
