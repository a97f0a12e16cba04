----------------------- MODULE OrchestratorProperties -----------------------
(***************************************************************************)
(* What must hold of the orchestrator, over every request, every graph and *)
(* every failure of the database.                                          *)
(***************************************************************************)
EXTENDS Orchestrator

\* A status of an envelope and the four other fields of ResponseBuilder.
IsEnvelope(r) ==
  /\ DOMAIN r = {"status", "data", "provenance", "confidence", "errors"}
  /\ r.status \in Statuses

Answered   == pc = "answered"
Returned   == Answered /\ result # TimeoutRaised
MixedReply == Returned /\ IsMixed /\ responses # <<>>

\* The variables have their types.
TypeOK ==
  /\ pc \in {"idle", "validating", "dispatching", "querying", "concluding", "answered"}
  /\ intent \in Intents
  /\ payload \in Payloads
  /\ ctx \in Payloads
  /\ Len(asked) <= 3 /\ \A i \in DOMAIN asked : asked[i] \in Payloads
  /\ Len(responses) <= 3 /\ \A i \in DOMAIN responses : IsEnvelope(responses[i])
  /\ now \in Nat
  /\ result = NoResult \/ result = TimeoutRaised \/ IsEnvelope(result)
  /\ Client!ClientTypeOK

\* The agents called are a prefix of the sequence, each called once, and only the last
\* of them can have failed: an error stops the sequence (executor.py:276), an empty
\* answer does not.
StopsAtFirstError ==
  /\ \A i \in DOMAIN responses : IsError(responses[i]) => i = Len(responses)
  /\ Len(asked) = Len(responses) + (IF pc = "querying" THEN 1 ELSE 0)
  /\ asked # <<>> => Len(asked) <= Len(Plan(intent))
  /\ pc = "dispatching" => \A i \in DOMAIN responses : ~IsError(responses[i])

\* In a mixed request an agent is asked about the id its predecessor found; only when
\* that found none, about the caller's own (executor.py:266-267, 325-341).  So no
\* technique is mapped to defences that neither the caller named nor a path led to.
AskedAboutWhatWasFound ==
  IsMixed /\ pc # "idle" =>
    /\ 2 \in DOMAIN asked =>
         LET found == ExtractCweId(responses[1]) IN
         IF found # NoId THEN asked[2] = Only("cweId", found)
         ELSE Truthy(payload, "cweId") => asked[2] = Only("cweId", payload["cweId"])
    /\ 3 \in DOMAIN asked =>
         LET found == ExtractAttackId(responses[2]) IN
         IF found # NoId THEN asked[3] = Only("attackId", found)
         ELSE Truthy(payload, "attackId") => asked[3] = Only("attackId", payload["attackId"])

\* No step of an accepted request is called with an empty payload: the branch of
\* executor.py:239-246 that gives up on one is dead code behind the router.
PlanNeverStarved ==
  /\ \A i \in DOMAIN asked : DOMAIN asked[i] # {}
  /\ pc = "dispatching" => DOMAIN StepPayload # {}

\* An aggregated answer says ok only when every agent of the sequence was reached and
\* said ok; its data and its provenance are those of the agents that said ok, of
\* nobody else, also when the sequence broke off; and each section of data comes with
\* a source.
AnswerAccountsForAgents ==
  MixedReply =>
    LET ok == {i \in DOMAIN responses : IsOk(responses[i])} IN
    /\ result.status = "ok" <=> ok = DOMAIN Plan(intent)
    /\ DOMAIN result.data = UNION {DOMAIN responses[i].data : i \in ok}
    /\ \A i \in ok, k \in DOMAIN result.data :
         k \in DOMAIN responses[i].data => result.data[k] = responses[i].data[k]
    /\ {<<e.source, e.ids>> : e \in result.provenance}
         = {<<e.source, e.ids>> : e \in UNION {responses[i].provenance : i \in ok}}
    /\ DOMAIN result.data # {} => result.provenance # {}

\* The only ok answers are supported ones, single or mixed: provenance is there, and no
\* error is carried along.
OkIsSupported ==
  Returned /\ result.status = "ok" => result.provenance # {} /\ result.errors = <<>>

\* The deadline is a bound on when agents are called, not on when the answer is there:
\* once an agent has been called, execute() overruns the deadline by less than one
\* agent's turn, however the retries fall (executor.py:159-162, 231-234).
OverrunBounded ==
  /\ asked = <<>> => now <= WorkTicks
  /\ asked # <<>> => now < Deadline + Client!QueryTicks + WorkTicks

\* The router lets the request pass.
Accepted == intent \in ValidIntents /\ PayloadAccepted(intent, payload)

\* Some agent of the plan has not answered, and none of those that have has failed.
Unfinished ==
  /\ Len(responses) < Len(Plan(intent))
  /\ \A i \in DOMAIN responses : ~IsError(responses[i])

\* A request ends in OrchestratorTimeoutError exactly if it was valid and is unfinished,
\* and then the budget is spent.  So work that is done is not thrown away for coming
\* late, a failure is reported as what it is and not as a timeout, and an invalid
\* request gets its error also when there is no time left.  How many agents of a mixed
\* request have answered, whether any, is open (executor.py:159-162, 231-234).
TimeoutMeansUnfinished ==
  Answered =>
    /\ result = TimeoutRaised <=> Accepted /\ Unfinished
    /\ result = TimeoutRaised => now >= Deadline

\* test_timeout.py:150-170, for every request and budget: when the budget is spent
\* before execute() starts, no agent is called, and a valid request, whatever its
\* intent, ends in OrchestratorTimeoutError.
SpentBudgetCallsNobody ==
  Deadline <= 0 =>
    /\ asked = <<>>
    /\ Answered => result = IF Accepted THEN TimeoutRaised ELSE Refusal

\* Every request that arrives is answered: by an envelope or by the timeout.
EveryRequestAnswered == pc = "validating" ~> Answered

\* The orchestrator implements CompositeAnswer.
Promise ==
  INSTANCE CompositeAnswer WITH
    phase   <- CASE pc = "idle"       -> "idle"
                 [] pc = "validating" -> "judging"
                 [] pc = "answered"   -> "answered"
                 [] OTHER             -> "working",
    steps   <- IF pc \in {"dispatching", "querying", "concluding"} \/ responses # <<>>
                    \/ result = TimeoutRaised
               THEN Len(Plan(intent)) ELSE 0,
    reports <- [i \in DOMAIN responses |-> responses[i].status],
    verdict <- IF result = NoResult THEN "none"
               ELSE IF result = TimeoutRaised THEN "timeout" ELSE result.status

ImplementsCompositeAnswer == Promise!FairSpec

----------------------------------------------------------------------------
(* What a comment of the repository says, and the code does not do.         *)

\* neo4j_client.py:98-100, "A TimeoutError is raised when the Neo4j driver reports a
\* query timeout so the orchestrator can surface an HTTP 504 instead of 500".
QueryTimeoutSurfaces ==
  Answered /\ outcome.kind = "TimeoutError" => result = TimeoutRaised
=============================================================================
