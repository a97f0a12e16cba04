---------------------------- MODULE QueryService ----------------------------
(***************************************************************************)
(* What an agent may assume of a graph query, whatever the client does     *)
(* inside: the call ends, exactly once, with records or with one of two    *)
(* exceptions, and it takes no longer than QueryTicks.                     *)
(***************************************************************************)
EXTENDS Integers

CONSTANTS
  QueryTicks,   \* the longest a query may take
  Outcomes,     \* what a query can end with, Pending included
  Pending       \* no outcome yet

VARIABLES phase, outcome, elapsed

serviceVars == <<phase, outcome, elapsed>>

Init ==
  /\ phase = "idle"
  /\ outcome = Pending
  /\ elapsed = 0

\* A query is asked when none is running; it forgets the previous answer.
Ask ==
  /\ phase # "running"
  /\ phase' = "running"
  /\ outcome' = Pending
  /\ elapsed' = 0

\* The query ends with an outcome, within its time.
Reply ==
  /\ phase = "running"
  /\ phase' = "returned"
  /\ outcome' \in Outcomes \ {Pending}
  /\ elapsed' \in 0..QueryTicks

Next == Ask \/ Reply

Spec == Init /\ [][Next]_serviceVars

FairSpec == Spec /\ WF_serviceVars(Reply)
=============================================================================
