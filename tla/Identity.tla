------------------------------- MODULE Identity -------------------------------
(***************************************************************************)
(* How accounts of apps/api come to be and what proves who one is: the     *)
(* registration that an e-mailed code activates, the Bluesky callback with *)
(* its one-time code for the phone, and the iM8 login that signs in or     *)
(* links an identity to the account one is signed in to.                   *)
(*                                                                         *)
(* A registration, a code and an iM8 state are named after the request     *)
(* that made them.  What the mail, Bluesky and iM8 answer is any outcome.  *)
(***************************************************************************)
EXTENDS Handlers

CONSTANTS
  Dids,         \* Bluesky identities
  Member,       \* an account with a session and no identity yet
  Waiting,      \* a registration that waits for its code
  MaxAttempts   \* MAX_ACTIVATION_ATTEMPTS

ASSUME IdentityAssumption ==
  /\ MaxAttempts \in Nat \ {0}
  /\ Waiting \notin Requests /\ Member \notin Requests /\ Member # Nothing

Registrations == Requests \union {Waiting}
Accounts == Requests \union {Member}

\* The address that everybody registers with here, and the made-up ones.
Own == <<"own", Nothing>>
Emails == {Own} \union ({"atproto", "im8"} \X Dids)

VARIABLES
  pending,     \* Redis registration:{id}: attempts, and whether it runs out
  told,        \* registrations whose id a client holds
  codes,       \* Redis: login codes
  states,      \* Redis im8:state:*
  did,         \* whose DID a code or a state is for
  emails,      \* User.email, unique: <<account, email>>
  holderOf     \* User.blueskyDid, unique: the account of each DID

\* History.
VARIABLES
  guesses,     \* wrong codes that were compared: <<registration, request>>
  ended,       \* registrations that were used, given up or ran out
  raced,       \* registrations of which two uses overlapped, or a use and
               \* the end of its time
  signIns,     \* sessions opened with a code or a state: <<key, request>>
  shared       \* codes and states of which two uses overlapped

store == <<pending, told, codes, states, did>>
userRows == <<emails, holderOf>>
uses == <<guesses, ended, raced, signIns, shared>>
identityVars == <<store, userRows, handlers, uses>>

\* key: the registration, code or state that the request presents; tries: the
\* attempts it has read; linking: it wants the identity linked to Member.
IdentityMemory == [key : Registrations, tries : Nat, linking : BOOLEAN]

IdentitySteps ==
  {"free", "register", "mail", "withdraw", "miss", "hit", "check", "activate",
   "find", "adopt", "hand out", "redeem", "open", "start", "verify", "attach",
   "seek", "probe", "enroll", "clean", "enter", "done"}

Uses(k) == {r \in Requests : step[r] \in {"miss", "hit", "redeem", "verify",
              "attach", "seek", "probe", "enroll", "clean"} /\ mem[r].key = k}

IdentityTypeOK ==
  /\ pending \in [Registrations ->
       [attempts : 0..MaxAttempts, ttl : BOOLEAN] \union {Nothing}]
  /\ told \subseteq Registrations
  /\ codes \subseteq Requests /\ states \subseteq Requests
  /\ did \in [Requests -> Dids]
  /\ emails \subseteq Accounts \X Emails
  /\ holderOf \in [Dids -> Accounts \union {Nothing}]
  /\ step \in [Requests -> IdentitySteps]
  /\ mem \in [Requests -> IdentityMemory \union {Nothing}]
  /\ breaks \in 0..MaxBreaks
  /\ guesses \subseteq Registrations \X Requests
  /\ ended \subseteq Registrations /\ raced \subseteq Registrations
  /\ signIns \subseteq Requests \X Requests /\ shared \subseteq Requests

Taken(e) == \E a \in Accounts : <<a, e>> \in emails

-----------------------------------------------------------------------------
\* registrationUser.

Register(r) ==
  /\ step[r] = "free"
  /\ Goes(r, IF Taken(Own) THEN "done" ELSE "register")
  /\ UNCHANGED <<store, userRows, breaks, uses>>

\* The pending registration, for ten minutes.
SavePending(r) ==
  /\ step[r] = "register"
  /\ Goes(r, "mail")
  /\ pending' = [pending EXCEPT ![r] = [attempts |-> 0, ttl |-> TRUE]]
  /\ UNCHANGED <<told, codes, states, did, userRows, breaks, uses>>

\* The client learns the id once the mail has left.
MailCode(r) ==
  /\ step[r] = "mail"
  /\ Goes(r, "done")
  /\ told' = told \union {r}
  /\ UNCHANGED <<pending, codes, states, did, userRows, breaks, uses>>

\* ... or not: then the registration is taken back, unless the process dies.
MailFails(r) ==
  /\ step[r] = "mail" /\ breaks < MaxBreaks
  /\ breaks' = breaks + 1
  /\ \E to \in {"withdraw", "done"} : Goes(r, to)
  /\ UNCHANGED <<store, userRows, uses>>

Withdraw(r) ==
  /\ step[r] = "withdraw"
  /\ Goes(r, "done")
  /\ pending' = [pending EXCEPT ![r] = Nothing]
  /\ ended' = ended \union {r}
  /\ UNCHANGED <<told, codes, states, did, userRows, breaks, guesses, raced,
                 signIns, shared>>

-----------------------------------------------------------------------------
\* activateUser.

\* The form has the id that the registration was answered with.
Enterable(p) == p \in told

\* The registration is read; the code is right or wrong.
Present(r, p, right) ==
  /\ step[r] = "free" /\ Enterable(p)
  /\ IF pending[p] = Nothing
     THEN Goes(r, "done") /\ UNCHANGED <<guesses, raced>>
     ELSE /\ GoesWith(r, IF right THEN "hit" ELSE "miss",
               [key |-> p, tries |-> pending[p].attempts, linking |-> FALSE])
          /\ guesses' = IF right THEN guesses ELSE guesses \union {<<p, r>>}
          /\ raced' = IF Uses(p) = {} THEN raced ELSE raced \union {p}
  /\ UNCHANGED <<store, userRows, breaks, ended, signIns, shared>>

\* Mutant of GivesUp: one attempt too many.
GivesUpLater(tries) == tries + 1 > MaxAttempts

\* The last attempt ends the registration.
GivesUp(tries) == tries + 1 >= MaxAttempts

\* The attempt is counted on what was read.  SET KEEPTTL keeps the time the
\* key has left; a key that is gone it makes again, for ever.
CountMiss(r) ==
  LET p == mem[r].key
      kept == IF pending[p] = Nothing THEN FALSE ELSE pending[p].ttl IN
  /\ step[r] = "miss"
  /\ Goes(r, "done")
  /\ IF GivesUp(mem[r].tries)
     THEN /\ pending' = [pending EXCEPT ![p] = Nothing]
          /\ ended' = ended \union {p}
     ELSE /\ pending' = [pending EXCEPT ![p] =
                           [attempts |-> mem[r].tries + 1, ttl |-> kept]]
          /\ UNCHANGED ended
  /\ UNCHANGED <<told, codes, states, did, userRows, breaks, guesses, raced,
                 signIns, shared>>

\* Mutant of Consumed: the registration is left to run out.
ConsumedLater(p) == pending

Consumed(p) == [pending EXCEPT ![p] = Nothing]

\* "Consume before creating, so a replay can't double-create."
Consume(r) ==
  LET p == mem[r].key IN
  /\ step[r] = "hit"
  /\ GoesWith(r, "check", Nothing)
  /\ pending' = Consumed(p)
  /\ ended' = ended \union {p}
  /\ UNCHANGED <<told, codes, states, did, userRows, breaks, guesses, raced,
                 signIns, shared>>

CheckEmail(r) ==
  /\ step[r] = "check"
  /\ Goes(r, IF Taken(Own) THEN "done" ELSE "activate")
  /\ UNCHANGED <<store, userRows, breaks, uses>>

\* The unique key decides between two that were checked at once.
Activate(r) ==
  /\ step[r] = "activate"
  /\ Goes(r, "done")
  /\ emails' = IF Taken(Own) THEN emails ELSE emails \union {<<r, Own>>}
  /\ UNCHANGED <<store, holderOf, breaks, uses>>

-----------------------------------------------------------------------------
\* Bluesky: the callback, and the exchange of the code by the phone.

\* completeAuthorization has a session for d.
Callback(r, d) ==
  /\ step[r] = "free"
  /\ Goes(r, "find")
  /\ did' = [did EXCEPT ![r] = d]
  /\ UNCHANGED <<pending, told, codes, states, userRows, breaks, uses>>

FindByDid(r) ==
  /\ step[r] = "find"
  /\ Goes(r, IF holderOf[did[r]] = Nothing THEN "adopt" ELSE "hand out")
  /\ UNCHANGED <<store, userRows, breaks, uses>>

\* A new account for d, with the made-up address of its provider; the unique
\* keys refuse a second one.
Creates(r, d, provider, then) ==
  IF holderOf[d] = Nothing /\ ~Taken(<<provider, d>>)
  THEN /\ emails' = emails \union {<<r, <<provider, d>>>>}
       /\ holderOf' = [holderOf EXCEPT ![d] = r]
       /\ Goes(r, then)
  ELSE Goes(r, "done") /\ UNCHANGED <<emails, holderOf>>

AdoptDid(r) ==
  /\ step[r] = "adopt"
  /\ Creates(r, did[r], "atproto", "hand out")
  /\ UNCHANGED <<store, breaks, uses>>

\* The phone gets a code, a browser its session.
HandOut(r) ==
  /\ step[r] = "hand out"
  /\ Goes(r, "done")
  /\ \E mobile \in BOOLEAN :
       codes' = IF mobile THEN codes \union {r} ELSE codes
  /\ UNCHANGED <<pending, told, states, did, userRows, breaks, uses>>

\* Mutant of Redeemed: the code is left to run out.
RedeemedLater(c) == codes

\* exchangeAtprotoLoginCode reads the code, then deletes it.
Redeemed(c) == codes \ {c}

Exchange(r, c) ==
  /\ step[r] = "free" /\ step[c] = "done"
  /\ IF c \in codes
     THEN /\ GoesWith(r, "redeem", [key |-> c, tries |-> 0, linking |-> FALSE])
          /\ shared' = IF Uses(c) = {} THEN shared ELSE shared \union {c}
     ELSE Goes(r, "done") /\ UNCHANGED shared
  /\ UNCHANGED <<store, userRows, breaks, guesses, ended, raced, signIns>>

DropCode(r) ==
  /\ step[r] = "redeem"
  /\ Goes(r, "open")
  /\ codes' = Redeemed(mem[r].key)
  /\ UNCHANGED <<pending, told, states, did, userRows, breaks, uses>>

SignInByCode(r) ==
  /\ step[r] = "open"
  /\ Goes(r, "done")
  /\ signIns' = signIns \union {<<mem[r].key, r>>}
  /\ UNCHANGED <<store, userRows, breaks, guesses, ended, raced, shared>>

-----------------------------------------------------------------------------
\* iM8: start and complete.

StartIM8(r, d) ==
  /\ step[r] = "free"
  /\ Goes(r, "start")
  /\ did' = [did EXCEPT ![r] = d]
  /\ UNCHANGED <<pending, told, codes, states, userRows, breaks, uses>>

SaveState(r) ==
  /\ step[r] = "start"
  /\ Goes(r, "done")
  /\ states' = states \union {r}
  /\ UNCHANGED <<pending, told, codes, did, userRows, breaks, uses>>

\* The phone presents the state it was given, and its token to link.
CompleteIM8(r, s, linking) ==
  /\ step[r] = "free" /\ step[s] = "done"
  /\ IF s \in states
     THEN /\ GoesWith(r, "verify", [key |-> s, tries |-> 0, linking |-> linking])
          /\ shared' = IF Uses(s) = {} THEN shared ELSE shared \union {s}
     ELSE Goes(r, "done") /\ UNCHANGED shared
  /\ UNCHANGED <<store, userRows, breaks, guesses, ended, raced, signIns>>

Whose(r) == did[mem[r].key]

\* iM8 vouches for the DID, or does not; then it is looked up.
Verify(r) ==
  LET h == holderOf[Whose(r)] IN
  /\ step[r] = "verify"
  /\ \/ Goes(r, "done")
     \/ mem[r].linking /\ Goes(r, IF h \in {Nothing, Member} THEN "attach" ELSE "done")
     \/ ~mem[r].linking /\ Goes(r, IF h = Nothing THEN "probe" ELSE "seek")
  /\ UNCHANGED <<store, userRows, breaks, uses>>

\* The identity is linked, in the place of the one there was.
Attach(r) ==
  LET d == Whose(r) IN
  /\ step[r] = "attach"
  /\ IF holderOf[d] \in {Nothing, Member}
     THEN /\ holderOf' = [e \in Dids |-> IF e = d THEN Member
                                         ELSE IF holderOf[e] = Member THEN Nothing
                                         ELSE holderOf[e]]
          /\ Goes(r, "clean")
     ELSE Goes(r, "done") /\ UNCHANGED holderOf
  /\ UNCHANGED <<store, emails, breaks, uses>>

\* The handle of the account that was found is updated.
Greet(r) ==
  /\ step[r] = "seek"
  /\ Goes(r, "clean")
  /\ UNCHANGED <<store, userRows, breaks, uses>>

ProbeEmail(r) ==
  /\ step[r] = "probe"
  /\ Goes(r, IF Taken(<<"im8", Whose(r)>>) THEN "done" ELSE "enroll")
  /\ UNCHANGED <<store, userRows, breaks, uses>>

AdoptIM8(r) ==
  /\ step[r] = "enroll"
  /\ Creates(r, Whose(r), "im8", "clean")
  /\ UNCHANGED <<store, breaks, uses>>

\* "Clean up the one-time pending state", then signIn.
DropState(r) ==
  /\ step[r] = "clean"
  /\ Goes(r, "enter")
  /\ states' = states \ {mem[r].key}
  /\ UNCHANGED <<pending, told, codes, did, userRows, breaks, uses>>

SignInByState(r) ==
  /\ step[r] = "enter"
  /\ Goes(r, "done")
  /\ signIns' = signIns \union {<<mem[r].key, r>>}
  /\ UNCHANGED <<store, userRows, breaks, guesses, ended, raced, shared>>

-----------------------------------------------------------------------------
\* A key of Redis runs out.
RunOut(k) ==
  /\ \/ /\ pending[k] # Nothing /\ pending[k].ttl
        /\ pending' = [pending EXCEPT ![k] = Nothing]
        /\ ended' = ended \union {k}
        /\ raced' = IF Uses(k) = {} THEN raced ELSE raced \union {k}
        /\ UNCHANGED <<codes, states>>
     \/ /\ k \in codes \union states
        /\ codes' = codes \ {k} /\ states' = states \ {k}
        /\ UNCHANGED <<pending, ended, raced>>
  /\ UNCHANGED <<told, did, userRows, handlers, guesses, signIns, shared>>

IdentityHandler(r) ==
  \/ Register(r) \/ SavePending(r) \/ MailCode(r) \/ MailFails(r) \/ Withdraw(r)
  \/ \E p \in Registrations, right \in BOOLEAN : Present(r, p, right)
  \/ CountMiss(r) \/ Consume(r) \/ CheckEmail(r) \/ Activate(r)
  \/ \E d \in Dids : Callback(r, d) \/ StartIM8(r, d)
  \/ FindByDid(r) \/ AdoptDid(r) \/ HandOut(r)
  \/ \E c \in Requests : Exchange(r, c)
  \/ DropCode(r) \/ SignInByCode(r) \/ SaveState(r)
  \/ \E s \in Requests, linking \in BOOLEAN : CompleteIM8(r, s, linking)
  \/ Verify(r) \/ Attach(r) \/ Greet(r) \/ ProbeEmail(r) \/ AdoptIM8(r)
  \/ DropState(r) \/ SignInByState(r)

RestIdentity == AtRest /\ UNCHANGED identityVars

IdentityNext ==
  \/ \E r \in Requests : IdentityHandler(r)
  \/ \E k \in Registrations : RunOut(k)
  \/ RestIdentity

\* A member, and a registration that waits for its code.
IdentityInit ==
  /\ pending = [p \in Registrations |->
       IF p = Waiting THEN [attempts |-> 0, ttl |-> TRUE] ELSE Nothing]
  /\ told = {Waiting} /\ codes = {} /\ states = {}
  /\ did \in [Requests -> Dids] /\ \A r, q \in Requests : did[r] = did[q]
  /\ emails = {} /\ holderOf = [d \in Dids |-> Nothing]
  /\ step = [r \in Requests |-> "free"] /\ mem = [r \in Requests |-> Nothing]
  /\ breaks = 0
  /\ guesses = {} /\ ended = {} /\ raced = {} /\ signIns = {} /\ shared = {}

IdentitySpec == IdentityInit /\ [][IdentityNext]_identityVars

-----------------------------------------------------------------------------
\* Properties.

GuessesOn(p) == {r \in Requests : <<p, r>> \in guesses}
SignInsBy(k) == {r \in Requests : <<k, r>> \in signIns}

\* No registration stands more wrong codes than the cap allows, unless two
\* uses of it overlapped: each counts on the attempts it has read
\* (MAX_ACTIVATION_ATTEMPTS, "so it can't be brute-forced").
GuessesAreCapped ==
  \A p \in Registrations :
    Cardinality(GuessesOn(p)) <= MaxAttempts \/ p \in raced

\* A registration that was used, given up or ran out does not come back, nor
\* does one stay for ever, unless a wrong code was being counted meanwhile
\* ("one-time", REGISTRATION_TTL_SECONDS).
DeadStayDead ==
  \A p \in Registrations :
    pending[p] # Nothing /\ (p \in ended \/ ~pending[p].ttl) => p \in raced

\* A login code and an iM8 state open one session, unless two uses of it
\* overlapped ("Single use", "one-time pending state").
KeysWorkOnce ==
  \A k \in Requests : Cardinality(SignInsBy(k)) <= 1 \/ k \in shared

\* A secret is spent by its use: registrations, login codes and iM8 states,
\* but for uses that overlap.
SecretsAreSpent == GuessesAreCapped /\ DeadStayDead /\ KeysWorkOnce
=============================================================================
