------------------------------- MODULE Handlers -------------------------------
(***************************************************************************)
(* What the request handlers of apps/api have in common: each request is   *)
(* handled once, one query, Redis command or call to a service at a time,  *)
(* and between two of them the handler keeps its local variables.  The     *)
(* modules about components say what the steps are.                        *)
(***************************************************************************)
EXTENDS Integers, FiniteSets

CONSTANTS
  Requests,    \* requests, each handled once; what one writes has its name
  MaxBreaks,   \* bound: handlers that die, calls of a service that fail
  Nothing      \* no value: nothing in Redis, no row, no local variables

ASSUME HandlersAssumption == MaxBreaks \in Nat /\ Nothing \notin Requests

VARIABLES
  step,        \* where the request's handler is
  mem,         \* its local variables
  breaks       \* handlers that died so far

handlers == <<step, mem, breaks>>

\* r goes on with the local variables m; when it ends they are gone.
GoesWith(r, to, m) ==
  /\ step' = [step EXCEPT ![r] = to]
  /\ mem' = [mem EXCEPT ![r] = IF to = "done" THEN Nothing ELSE m]

Goes(r, to) == GoesWith(r, to, mem[r])

\* Every request is answered, or was never sent.
AtRest == \A r \in Requests : step[r] \in {"free", "done"}
=============================================================================
