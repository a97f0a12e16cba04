---------------------------- MODULE Orchestrator ----------------------------
(***************************************************************************)
(* The master orchestrator (orchestrator/executor.py): one request,        *)
(* executed synchronously from validation to the answer.                   *)
(*                                                                         *)
(* A request is routed to one agent, or, for intent "mixed", to the three  *)
(* agents of MixedIntentSequence in turn, each asked with what the previous*)
(* one found.  Every agent call runs one query of the graph client, whose  *)
(* state machine (Neo4jClient) is composed with this one: while pc is      *)
(* "querying" the client takes the steps.  The deadline is looked at only  *)
(* before an agent is called.  Time is counted in ticks from the start of  *)
(* execute(); besides the queries, what the orchestrator and its agents do *)
(* themselves takes time, and the budget may be spent from the beginning.  *)
(***************************************************************************)
EXTENDS Agents

CONSTANTS
  Deadline,           \* _ORCHESTRATOR_TIMEOUT_S, in ticks: any number, negative too
  WorkTicks,          \* the longest that the work before or within a step takes,
                      \* its query left out
  RequestFields,      \* bound of the model: the payload fields requests use
  ErrorDataConforms,  \* the agents whose data schema accepts the {} of an error
  MaxRetries, RetryBackoff, MaxBackoff, AttemptTicks, MaxRows  \* see Neo4jClient

ASSUME DeadlineAssumption == Deadline \in Int /\ WorkTicks \in Nat
ASSUME RequestFieldsAssumption == RequestFields \subseteq Fields
ASSUME ClientAssumption ==   \* those of Neo4jClient, for the Client below
  /\ MaxRetries \in Nat /\ AttemptTicks \in Nat /\ MaxRows \in Nat
  /\ RetryBackoff \in Seq(Nat) /\ RetryBackoff # <<>>
  /\ MaxBackoff \in Nat
  /\ \A i \in DOMAIN RetryBackoff : RetryBackoff[i] <= MaxBackoff

VARIABLES
  pc,         \* where execute() is
  intent,     \* of the request
  payload,    \* of the request
  ctx,        \* payload_context of a mixed request
  asked,      \* history: the payload each agent was called with
  responses,  \* the envelopes collected so far
  now,        \* ticks since execute() began
  result,     \* what execute() returned or raised
  phase, attempt, elapsed, outcome, raised  \* the client's, see Neo4jClient

Client == INSTANCE Neo4jClient

clientVars  == <<phase, attempt, elapsed, outcome, raised>>
requestVars == <<intent, payload>>
vars == <<pc, intent, payload, ctx, asked, responses, now, result,
          phase, attempt, elapsed, outcome, raised>>

\* What is no envelope: execute() raised OrchestratorTimeoutError, or has not ended.
TimeoutRaised == [exception |-> "OrchestratorTimeoutError"]
NoResult      == [exception |-> "none"]

----------------------------------------------------------------------------
(* Requests *)

Intents == ValidIntents \cup {"unsupported"}

FieldValues(f) ==
  CASE f \in LookupKeys -> {Blank, Given}
    [] f = "cweId"      -> {Blank} \cup Cwes
    [] f = "attackId"   -> {Blank, Malformed} \cup Techs

\* The payloads a caller can send: any of the fields, each usable or not.
RequestPayloads ==
  UNION {{p \in [D -> Values] : \A f \in D : p[f] \in FieldValues(f)} :
           D \in SUBSET RequestFields}

----------------------------------------------------------------------------
(* The step the orchestrator is at *)

IsMixed   == intent = "mixed"
StepNo    == Len(responses) + 1
SubIntent == Plan(intent)[StepNo]
Agent     == IntentToAgent[SubIntent]

\* Mutant: a deadline that still admits an agent at the last tick.
LateByOne == now > Deadline

\* The deadline check before an agent is called.
Late == now >= Deadline

\* Mutant: what the previous agent found is asked for, whatever it answered.
PayloadFromPriorOnly(subIntent, c, prior) ==
  CASE subIntent = "vuln_lookup"  -> c
    [] subIntent = "attack_path"  -> Only("cweId", ExtractCweId(prior[Len(prior)]))
    [] subIntent = "coverage_map" -> Only("attackId", ExtractAttackId(prior[Len(prior)]))

\* The first of keys whose value in c is truthy, alone; all of c if there is none.
FirstUsable(c, keys) ==
  LET usable == {i \in DOMAIN keys : Truthy(c, keys[i])}
  IN  IF usable = {} THEN c ELSE Only(keys[Min(usable)], c[keys[Min(usable)]])

\* _build_mixed_payload: c is the context, prior the responses so far.
BuildMixedPayload(subIntent, c, prior) ==
  LET derived(f, id) == IF Truthy(c, f) \/ id = NoId THEN c ELSE Update(c, Only(f, id))
  IN  CASE subIntent = "vuln_lookup"  -> FirstUsable(c, TemplateOrder)
        [] subIntent = "attack_path"  ->
             FirstUsable(derived("cweId", ExtractCweId(prior[Len(prior)])),
                         <<"cweId", "cveId">>)
        [] subIntent = "coverage_map" ->
             FirstUsable(derived("attackId", ExtractAttackId(prior[Len(prior)])),
                         <<"attackId">>)

\* The payload of the next agent call: the caller's own, or the derived one.
StepPayload ==
  IF IsMixed THEN BuildMixedPayload(SubIntent, ctx, responses) ELSE payload

----------------------------------------------------------------------------
Init ==
  /\ pc = "idle"
  /\ intent = "unsupported"
  /\ payload = EmptyPayload
  /\ ctx = EmptyPayload
  /\ asked = <<>>
  /\ responses = <<>>
  /\ now = 0
  /\ result = NoResult
  /\ Client!ClientInit

\* A request arrives at a new orchestrator, with new agents and clients.
Receive ==
  /\ pc = "idle"
  /\ pc' = "validating"
  /\ intent' \in Intents
  /\ payload' \in RequestPayloads
  /\ UNCHANGED <<ctx, asked, responses, now, result, clientVars>>

\* validate_intent raises, or validate_payload does: an error envelope, no agent called.
RejectRequest ==
  /\ pc = "validating"
  /\ intent \notin ValidIntents \/ ~PayloadAccepted(intent, payload)
  /\ pc' = "answered"
  /\ result' = Refusal
  /\ UNCHANGED <<requestVars, ctx, asked, responses, now, clientVars>>

\* The request is valid; a mixed one starts with its payload as context.  Validating and
\* routing it has taken its time.
AcceptRequest ==
  /\ pc = "validating"
  /\ intent \in ValidIntents
  /\ PayloadAccepted(intent, payload)
  /\ pc' = "dispatching"
  /\ ctx' = IF IsMixed THEN payload ELSE ctx
  /\ now' \in now..(now + WorkTicks)
  /\ UNCHANGED <<requestVars, asked, responses, result, clientVars>>

\* Mutant: the clock is looked at once more before the answer is made.
ExpireBeforeAnswer ==
  /\ pc \in {"dispatching", "concluding"}
  /\ Late
  /\ pc' = "answered"
  /\ result' = TimeoutRaised
  /\ UNCHANGED <<requestVars, ctx, asked, responses, now, clientVars>>

\* The budget is spent before the next agent, be it the first, is called:
\* OrchestratorTimeoutError, and what the earlier agents found is dropped.
ExpireDeadline ==
  /\ pc = "dispatching"
  /\ Late
  /\ pc' = "answered"
  /\ result' = TimeoutRaised
  /\ UNCHANGED <<requestVars, ctx, asked, responses, now, clientVars>>

\* Mutant: a context in which a value, once there, is never replaced.
NextContextKeepsOld(c, p, r) ==
  UpdateKeepsOld(UpdateKeepsOld(c, p), ExtractMixedContext(SubIntent, r))

\* payload_context.update(step_payload), then .update(_extract_mixed_context(...)).
NextContext(c, p, r) == Update(Update(c, p), ExtractMixedContext(SubIntent, r))

\* Mutant: a failed agent does not stop the sequence.
SequenceEndsAtLast(r) == StepNo = Len(Plan(intent))

\* The loop ends after response r: an error, or the last agent.
SequenceEnds(r) == IsError(r) \/ StepNo = Len(Plan(intent))

\* The agent called with payload p returns r: it is collected, the context grows, and
\* the sequence goes on unless r is an error or the agent was the last.
Collect(p, r) ==
  /\ responses' = Append(responses, r)
  /\ ctx' = IF IsMixed THEN NextContext(ctx, p, r) ELSE ctx
  /\ pc' = IF SequenceEnds(r) THEN "concluding" ELSE "dispatching"
  /\ UNCHANGED <<requestVars, result>>

\* The agent refuses its payload without a query; that takes time, too.
AgentRefuses ==
  /\ pc = "dispatching"
  /\ ~Late
  /\ ~Accepts(Agent, StepPayload)
  /\ asked' = Append(asked, StepPayload)
  /\ now' \in now..(now + WorkTicks)
  /\ Collect(StepPayload, Refusal)
  /\ UNCHANGED clientVars

\* The agent accepts its payload and queries the graph.
AgentQueries ==
  /\ pc = "dispatching"
  /\ ~Late
  /\ Accepts(Agent, StepPayload)
  /\ pc' = "querying"
  /\ asked' = Append(asked, StepPayload)
  /\ Client!Query
  /\ UNCHANGED <<requestVars, ctx, responses, now, result>>

\* The client works on the query.
ClientSteps ==
  /\ pc = "querying"
  /\ Client!AttemptEnds
  /\ UNCHANGED <<pc, requestVars, ctx, asked, responses, now, result>>

\* The query has ended and the agent makes its envelope of the outcome, in time that
\* counts as well.
AgentReplies ==
  /\ pc = "querying"
  /\ phase = "returned"
  /\ now' \in (now + elapsed)..(now + elapsed + WorkTicks)
  /\ \E r \in Replies(Agent, outcome) : Collect(asked[StepNo], r)
  /\ UNCHANGED <<asked, clientVars>>

\* Mutant: an answer aggregated from the last response alone.
ConclusionOfLast ==
  IF IsMixed THEN AggregateMultiAgentResponses(<<responses[Len(responses)]>>)
  ELSE responses[1]

\* A mixed request is answered by the aggregate.  A single response passes through,
\* after a second validation that the {} of an error may not pass.
Conclusion ==
  IF IsMixed THEN AggregateMultiAgentResponses(responses)
  ELSE IF IsError(responses[1]) /\ IntentToAgent[intent] \notin ErrorDataConforms
       THEN ErrorResponse(<<"agent execution failed">>)
       ELSE responses[1]

Conclude ==
  /\ pc = "concluding"
  /\ pc' = "answered"
  /\ result' = Conclusion
  /\ UNCHANGED <<requestVars, ctx, asked, responses, now, clientVars>>

\* execute() has ended; the orchestrator and its clients are dropped.
Discard ==
  /\ pc = "answered"
  /\ pc' = "idle"
  /\ intent' = "unsupported"
  /\ payload' = EmptyPayload
  /\ ctx' = EmptyPayload
  /\ asked' = <<>>
  /\ responses' = <<>>
  /\ now' = 0
  /\ result' = NoResult
  /\ phase' = "idle"
  /\ attempt' = 0
  /\ elapsed' = 0
  /\ outcome' = Client!Pending
  /\ raised' = <<>>

\* What the server does by itself once a request is there.
Execute ==
  \/ RejectRequest
  \/ AcceptRequest
  \/ ExpireDeadline
  \/ AgentRefuses
  \/ AgentQueries
  \/ ClientSteps
  \/ AgentReplies
  \/ Conclude

Next == Receive \/ Execute \/ Discard

Spec == Init /\ [][Next]_vars

\* execute() is straight-line code around loops of at most three turns: it is never
\* suspended for ever.  Nothing obliges a caller to send a request.
FairSpec == Spec /\ WF_vars(Execute)
=============================================================================
