-------------------------- MODULE CompositeAnswer --------------------------
(***************************************************************************)
(* What the orchestrator promises its caller, without agents, payloads,    *)
(* queries or clocks.  A request is turned down or it runs a number of     *)
(* steps; each step reports a status; an error is the last status there is;*)
(* the verdict is a function of the statuses, except that the orchestrator *)
(* may give up before any step.                                            *)
(***************************************************************************)
EXTENDS Integers, Sequences

VARIABLES
  phase,    \* "idle", "judging" a request, "working" on it, "answered"
  steps,    \* how many steps the request takes: 1 or 3
  reports,  \* the statuses reported so far
  verdict   \* "none", "ok", "empty", "error" or "timeout"

promiseVars == <<phase, steps, reports, verdict>>

Reported == {"ok", "empty", "error"}

\* The status the caller sees when all reports are in.
Verdict ==
  IF steps = 1 THEN reports[1]
  ELSE IF Len(reports) = steps /\ \A i \in 1..steps : reports[i] = "ok" THEN "ok"
  ELSE "error"

Finished ==
  Len(reports) = steps \/ (reports # <<>> /\ reports[Len(reports)] = "error")

Init ==
  /\ phase = "idle"
  /\ steps = 0
  /\ reports = <<>>
  /\ verdict = "none"

Receive ==
  /\ phase = "idle"
  /\ phase' = "judging"
  /\ UNCHANGED <<steps, reports, verdict>>

TurnDown ==
  /\ phase = "judging"
  /\ phase' = "answered"
  /\ verdict' = "error"
  /\ UNCHANGED <<steps, reports>>

TakeOn ==
  /\ phase = "judging"
  /\ phase' = "working"
  /\ steps' \in {1, 3}
  /\ UNCHANGED <<reports, verdict>>

\* Nothing follows an error, and no step is taken twice.
Report ==
  /\ phase = "working"
  /\ ~Finished
  /\ \E s \in Reported : reports' = Append(reports, s)
  /\ UNCHANGED <<phase, steps, verdict>>

\* Giving up is possible before a step, the first one included; not after the last, and
\* not after an error.
GiveUp ==
  /\ phase = "working"
  /\ ~Finished
  /\ phase' = "answered"
  /\ verdict' = "timeout"
  /\ UNCHANGED <<steps, reports>>

Answer ==
  /\ phase = "working"
  /\ Finished
  /\ phase' = "answered"
  /\ verdict' = Verdict
  /\ UNCHANGED <<steps, reports>>

Forget ==
  /\ phase = "answered"
  /\ phase' = "idle"
  /\ steps' = 0
  /\ reports' = <<>>
  /\ verdict' = "none"

Serve == TurnDown \/ TakeOn \/ Report \/ GiveUp \/ Answer

Next == Receive \/ Serve \/ Forget

Spec == Init /\ [][Next]_promiseVars

FairSpec == Spec /\ WF_promiseVars(Serve)
=============================================================================
