# A TLA+ model of kgcs-server

kgcs-server answers questions about vulnerabilities, attack techniques and
defences from a graph database. An HTTP gateway takes a request, a master
orchestrator routes it to one agent or, for intent `mixed`, to three agents in
turn, each agent makes one query of the graph through a client that retries, and
the envelopes the agents return are aggregated into one answer. A question in
plain English goes through a pipeline that makes such a request of it and renders
the answer. The contracts all of this obeys are JSON schemas of another
repository, which a tool copies in at a pinned release.

This directory holds a model of these paths in TLA+, the TLC configurations that
check it, and TLAPS proofs of what matters most. Paths below are relative to the
repository. `PROJECT.json` maps every definition to the lines it models.

    tlc -workers 2 -config Orchestrator.cfg MCOrchestrator
    tlapm OrchestratorProofs.tla

## 1. Inventory

| Component | Source | State | Operations | Model |
|---|---|---|---|---|
| Graph client | `agents/shared/neo4j_client.py` | attempt, last exception, time spent | `query` | `Neo4jClient`, `QueryService` |
| Master orchestrator | `orchestrator/executor.py`, `errors.py` | `payload_context`, `responses`, deadline | `execute`, single and mixed path, derived payloads and context | `Orchestrator`, `OrchestratorProperties`, `CompositeAnswer` |
| Router, contract constants | `orchestrator/router.py`, `constants.py` | none | `validate_intent`, `validate_payload`, `route_intent` | `Contract` |
| Aggregator | `orchestrator/aggregator.py` | the accumulators of its loops | `merge_provenance`, `merge_confidence`, `aggregate_multi_agent_responses` | `Aggregator`, `AggregationLoop` |
| Systems, offensive, defensive agent | `agents/*/executor.py` | none kept between calls | `execute` | `Agents` |
| Response builder, schema validator | `agents/shared/response_builder.py`, `schema_validator.py`, `types.py` | loaded schemas | `ok`, `empty`, `error`, `validate_*`, loading | `Contract`, `Agents` (in part), `SyncSpec` (loading) |
| HTTP gateway | `orchestrator/api.py` | rate-limit table, waiting requests | middlewares, `/query`, `/ask`, `/health`, `/ready` | `ApiGateway` |
| Natural-language pipeline | `ai/llm_adapter.py`, `intent_classifier.py`, `entity_extractor.py`, `safety.py` | none kept between prompts | `process`: classify, extract, check, build, execute | `AskPipeline` |
| Renderer | `ai/response_renderer.py` | none | `render` | `Rendering`, `Answers` |
| Transformers | `agents/*/transformers.py` | the accumulators of their loops | rows to data, rows to provenance | `Transformers`, `Answers` |
| Confidence and risk scorers | `agents/shared/confidence_scorer.py`, `risk_scorer.py` | none | `compute`, `get_risk_band` | `Transformers` (confidence only) |
| Specification sync tool | `tools/sync_spec.py` | `spec/` and its pin on disk | `check`, `sync` | `SyncSpec` |
| Cypher templates | `agents/*/cypher_templates.py` | constants | | `Transformers` (what the rows look like; the texts are for an external database) |
| Logging | `agents/shared/logger.py` | none that is read | | no: output only |
| Verification and smoke tools, tests | `tools/`, `agents/shared/verify_shared.py`, `tests/` | | | no: read as statements about the code |

**How they interact.** Everything from `execute()` down is a synchronous call
chain: orchestrator, agent, client, driver. The gateway is the only concurrent
part. It runs on one asyncio event loop, awaits the body of a request, and then
calls `execute()` without yielding, so that one slow query, with its retries and
its `time.sleep`, stops every other request. Each request has an orchestrator of
its own, with three agents and a client each; the components share no state but
the rate limiter's table and the directory `spec/`, which every orchestrator
reads its schemas from and the sync tool, a process of its own, replaces.

**What is hard here.** Retries, timeouts and pauses under a deadline that is only
looked at between agents; a sequence of three agents of which any may fail, find
nothing or come too late; a context that is updated twice per step and read by
the next; exceptions that are caught on the way to the handler meant for them;
two layers that validate the same payload by different tests; a merge whose
result depends on the order and number of its inputs; a fixed-window counter at
its window's end; the event loop behind a blocking call; classification rules that
must leave the extractor something to extract; two loops over the same rows that
must skip the same ones; and a directory that is replaced in many steps under its
readers, with nothing undone if a step fails.

**What makes each part correct.**

- *Client*: retries what is transient and nothing else, tells its caller the
  truth about the last attempt, ends, in bounded time.
- *Orchestrator*: each agent at most once and in order, none after an error; an
  agent is asked about what its predecessor found; an answer is `ok` only if all
  agents said so, and contains what the agents found, with its sources, and
  nothing else; the deadline is overrun by less than an agent's turn; no answer that
  is complete is given up for a timeout, and no agent is called when the budget is
  spent; every request is answered.
- *Router and agents*: what the router accepts, the agent can use (not so: see
  findings); no `ok` without provenance.
- *Aggregator*: its loops compute a function of the responses whose only
  dependence on their order is which time stamp and which section wins.
- *Pipeline of /ask*: what is asked of the graph was said, unambiguously, in the
  prompt; nothing unsafe is executed; classifier, extractor, builder, router and
  agents agree on fields; the status tells whether anything was executed.
- *Transformers and renderer*: the loops compute what the rows say, whatever their
  order and duplicates; what an answer shows is what it cites.
- *Sync tool*: files of one release only, whichever syncs died; a pin that does not
  promise more than there is; validators load one release.
- *Gateway*: quota is used by requests that are let through and by no others; a
  refusal is earned; bursts are bounded; nobody waits for ever, or for a
  client that does not send its body.

## 2. Modules

```
QueryService   <== Neo4jClient        CompositeAnswer <== Orchestrator
                       |                                    |
Contract -- Aggregator -- Agents -- Orchestrator -- OrchestratorProperties
                |                                           |
          AggregationLoop                           OrchestratorProofs
                |                                           |
        AggregationLoopProofs                     OrchestratorAnswerProofs
ApiGateway -- ApiGatewayProofs
Neo4jClient -- Neo4jClientProofs
Agents -- AskPipeline (instantiates CompositeAnswer) -- AskPipelineProofs
Transformers -- Rendering -- Answers -- AnswersProofs
SyncSpec -- SyncSpecProofs
```

`--` is EXTENDS, `<==` is "is implemented by". `Orchestrator` composes with
`Neo4jClient` by INSTANCE: the client's variables are the orchestrator's, and
while `pc = "querying"` the client takes the steps.

### Neo4jClient (and QueryService)

`phase`, `attempt` and `elapsed` are the loop's position, counter and the time
spent; `raised` is the history of driver exceptions; `outcome` is what `query`
returned or raised. An exception is a record of the two things the code tests,
`transient` (by type) and `mentionsTimeout` (by text), in that code's order.
Actions: `Query`, and one per way an attempt ends (`ReturnRecords`,
`RaiseTimeout`, `Retry`, `RaiseFailure`). The line after the loop
(`neo4j_client.py:144`) is unreachable, since the last attempt always returns or
raises, and has no action.

`QueryService` is what an agent may rely on: a query ends, once, with one
outcome, within `QueryTicks`.

*Assumption about the driver*: an attempt ends within `AttemptTicks`. The code
passes its timeout as a keyword of `session.run`; what the driver makes of it is
external.

### Contract, Aggregator, Agents

Vocabulary without state. A payload is a partial function from fields to values,
because the code tests two different things, presence of a key and truth of a
value; `Blank` is present and not true, `Malformed` true and not a technique id.
`Aggregator` states what the merge computes, with sets and quantifiers. `Agents`
states for each agent which payloads it accepts and which envelopes it can return
for an outcome of its query; the graph's contents are a nondeterministic choice,
and so is the verdict of the schemas, which are not in the repository, except
for what `tools/verify_schemas.py` says of them: `ok` without provenance is
rejected, `empty` and `error` are accepted by the envelope schema.

### Orchestrator (and OrchestratorProperties, CompositeAnswer)

One request from `Receive` to `Discard`; then the next one, with a new
orchestrator. `pc` is the place in `execute()`, `ctx` is `payload_context`,
`asked` the history of payloads the agents got, `responses` the envelopes so far,
`now` the ticks since `execute()` began. An iteration of the mixed loop is:
`ExpireDeadline` if it is late, be it before the first agent; otherwise `AgentRefuses` or `AgentQueries`, by
what the agent's own checks say of the payload that `BuildMixedPayload` derives;
`ClientSteps` until the client has returned; `AgentReplies`, with `Collect`, which
appends the response, updates the context twice and ends the loop or not. A
single intent takes the same steps with a plan of one. `Conclude` aggregates, or
passes a single envelope through its second validation.

Everything takes time: a query what the client says it took, and the work before
the first agent and within each agent's turn up to `WorkTicks` more
(`AcceptRequest`, `AgentRefuses`, `AgentReplies`). `Deadline` is any integer, since
`KGCS_ORCHESTRATOR_TIMEOUT` is any number (`executor.py:26`): it may be spent when
`execute()` begins or pass before the first agent.

`CompositeAnswer` is the same without agents, payloads, queries and clocks: a
request is turned down or takes one or three steps, each reports a status, an
error is the last status, and the verdict is a function of the statuses or
"timeout" before any step, the first included.

### AggregationLoop

The aggregator's four loops, an iteration per action, over lists of entries as
the code has them, so that "the loops compute what `Aggregator` states" is a
property and not a definition.

### ApiGateway

`table` is `app[_RATE_DATA_KEY]`, `request` the requests received and not yet
answered with their stage, `began` the start of the execution that blocks the
loop, `passed` the history of what the limiter let through. An action is what a
coroutine does between two suspensions: `AnswerOpen`, `RefuseStranger`,
`RefuseRate` or `Pass` on arrival, then, when the body is there, `RefuseBody` or
`BeginExecute`/`EndExecute`. While a request executes, requests arrive and time
passes, and nothing else happens. The limiter's `asyncio.Lock` has no action of
its own: nothing is awaited while it is held, so on a single loop it is always
free, and the clock read before it is not stale. What execution means is
`Orchestrator`; here it is a time of at most `ExecTicks`, which theorem
`DeadlineOverrunBounded` justifies (deadline plus one
agent's turn; with a deadline that is spent, the work before the first agent).

*External*: that aiohttp runs the middlewares also for a request without a route,
whose handler raises, and turns an exception that leaves them into a response.

### AskPipeline

One prompt from `Ask` to `Finish`. `stage` is the place in `LLMAdapter.process`,
`prompt` what the regular expressions see of the text: which families of patterns
match (`Words`), and for each kind of identifier the list of mentions in their
order. The sums of matches are only compared with zero in the code, so a family
is a Boolean. `PossiblePrompt` keeps the words consistent with the mentions and
with each other (a CVE id matches a vulnerability pattern; strong attack patterns
are weak ones too). An action per step: `MakeOrchestrator`, `Classify`, `Extract`,
`Check`, `Build`, `Execute`, `TimeOut`, `Render`; each may raise, and `Handle` maps
the exception to a status by the handler's except clauses in their order.
Exceptions are told apart by class, not by name. The orchestrator is
`CompositeAnswer`, which `Orchestrator` is shown to implement
(`orchestrator_promise`), plus the agents' own `Accepts`. `Render` has no failing
branch: the envelopes the model can produce do not make the renderer raise, so the
last except clause of the handler (`api.py:406`) is reached from the other steps only.

### Transformers, Rendering, Answers

`Transformers` has one operator per loop body: what one row adds to the data, and
what it adds to the provenance. A node is its id, `None` if the row lacks it (an
OPTIONAL MATCH) and `Anon` if it is there without the property the id is kept in:
the code tests these separately. Of a weakness the code keeps id, abstraction and
name, as far as they are there; `Bare` is one without all three, kept as `{}`, which
a test for truth takes for no weakness, so that a later row's replaces it
(`systems/transformers.py:206`). The tree of configurations, nodes and criteria is
the set of its paths. Which nodes and ids a row may lack follows from the RETURN and
OPTIONAL MATCH of the templates: the sets `VulnerabilityRows`, `TechniqueRows` and
`CoverageRows`. `AddUnique` appends what is not in a list yet, `AddNew` also leaves
out what has no id; the keys of the paths need only the former. `Rendering` says
which items an answer shows.

`Answers` runs them: `Query` returns any list of rows its template can produce,
`Transform` and `Trace` are the two loops, a row per step, `Respond` makes
confidence and envelope (an `ok` without provenance is turned into an error by the
validation), `Render` shows the answer. Which agents a mixed request asks, and
with what, is `Orchestrator`'s business; here it asks all three until one fails.

### SyncSpec

`wanted` is `SPEC_VERSION`, `tree`, `dir` and `pin` what is on disk, `sync` the
running sync with its phase and the tag it was started for, `load` a
`SchemaValidator` being made. An action is one file operation: rmtree removes
entries in any order, the pin among them; copytree opens and fills file after
file; `write_text` opens (and empties) the pin and then writes it. `Die` may come
between any two, for a signal or for an exception that `main()` does not catch,
and leaves everything as it is; `GitFails` is the one failure that is handled.
`gutted`, `sync.touched` and `load.overlapped` are history variables.

*Assumptions*: at most one sync at a time, and no hand edits of `spec/` while a
sync removes or copies. The code has no lock for either.

## 3. Runs

| Run | Question | States | Result |
|---|---|---|---|
| `neo4j_client` | Does the retry loop keep its promises, and implement `QueryService` (with liveness)? | 149 | pass |
| `orchestrator` | Eight safety properties of the composed system | 1.7 million | pass |
| `orchestrator_promise` | Is every request answered? Is `CompositeAnswer` implemented? | 41 thousand | pass |
| `aggregation_loop` | Do the loops compute `Aggregator`? What does order decide, what does failure cost? | 121 thousand | pass |
| `api_gateway` | What does the limiter count, let through and refuse? How long does a request wait? | 1.9 million | pass |
| `gateway_promise` | Is every request served, if only the loop goes on? | 44 thousand | pass |
| `query_timeout` | Does a query timeout surface as the doc says? | | violated |
| `sync_spec` | What do interrupted syncs, version bumps and hand edits leave in `spec/`, and what is loaded from it? | 673 thousand | pass |
| `ask_pipeline` | What is executed for a prompt, what is refused, and does the status tell? Is every prompt answered? | 89 thousand | pass |
| `answers` | Do data, provenance and the shown answer agree with the rows and with each other? | 287 thousand | pass |
| `ask_unsupported` | Is an unsupported prompt a bad request? | | violated |
| `causal_links` | Do causal links name their pattern? | | violated |

### Bounds, and why they are enough

- *Neo4jClient*: the code's own two retries and pauses (1 and 2 ticks of 100 ms),
  attempts of 0..3 ticks, up to 2 rows. The proofs remove the bounds.
- *Orchestrator*: two weaknesses and two techniques, so that "the one found" can
  differ from "the one sent"; one framework, so that coverage is there or not;
  all payloads over four fields, blank, well-formed or malformed, which is every
  way the two validations and the two updates of the context can differ (the
  two lookup keys that are left out are treated like `cpeName`); row limit 2 with
  up to 3 rows; one retry, attempts of 0..1 tick, a pause of 1, up to
  2 ticks of work around a query and a deadline of 2, so that it can pass before
  the first, the second or the third agent, and during a query. A
  deadline that is spent from the start, like the -1 of `test_timeout.py:155`, is the
  subject of a theorem (`SpentBudgetsCallNobody`). Weaknesses are symmetric: only
  equality is asked of them.
  Techniques are not, since the code takes the first of them.
- `orchestrator_promise` has fewer values, as liveness is checked on it, and a
  deadline of 1, so that every request may or may not get its first agent.
- *AggregationLoop*: lists of up to three responses (the code never has more),
  of four provenance lists that overlap in sources, ids and time stamps. It stops
  when the function returns, so deadlock is not checked there.
- *ApiGateway*: limit 2, window 2, the clock up to 3, four requests: one full
  window and the beginning of the next, which is what a burst around a boundary
  takes. At most two requests unanswered at a time: what one does to another
  takes two. The clock and the number of requests are bounds of the model
  (`MaxTime`, `MaxRequests`, `MaxWaiting`) and stand in guards.

- *AskPipeline*: all 64 combinations of word families, and for each of the five
  kinds none, one, or two mentions; a CVE in two spellings, a CPE name with a
  banned keyword. One prompt at a time: nothing is kept between prompts.
- *Answers*: up to three rows per query, so that a vulnerability or technique can
  be met, left and met again; two ids per kind, `Anon` and `None` where the
  template can return them, and `Bare` weaknesses in lookups of one CVE; rows in the order of its ORDER BY. One row for
  coverage, as its template groups by the technique, with the duplicates its
  joins produce. In a mixed request one row per agent (`MaxMixedRows`), since the
  agents share nothing but the final answer.
- *SyncSpec*: two releases, the second without a file of the first, three files of
  which two are schemas (the code loads five in the same way). Any number of
  syncs, deaths, bumps, edits and loads.

### Fairness

- `ClientFairSpec`: WF of the attempt's end. Justified by the assumption that the
  driver answers or raises, and by a loop that runs on a thread of its own.
- `Orchestrator!FairSpec`: WF of `Execute`, straight-line code around a loop of at
  most three turns. `Receive` is not fair: nobody is obliged to send a request.
- `AskPipeline!FairSpec`: WF of `Process`. Once the handler has the body it runs
  without awaiting anything. `Ask` is not fair.
- `ApiGateway!FairSpec`: WF of `LoopStep`, the event loop running what is ready.
  Neither arrivals nor bodies are fair. Requests are finitely many, so weak
  fairness of the whole loop serves each of them; asyncio's ready queue is FIFO
  and would do so for infinitely many.

### Findings

1. **A query timeout never becomes a 504.** `neo4j_client.py:98-100` promises a
   `TimeoutError` "so the orchestrator can surface an HTTP 504 instead of 500".
   Each agent wraps the query in `except Exception` (`systems/executor.py:207`,
   `offensive/executor.py:186`, `defensive/executor.py:248`), so the handlers at
   `orchestrator/executor.py:172` and `259` are never reached. (`query_timeout`)
2. **An unsupported prompt is an internal error.** The classifier raises an
   `UnsupportedQueryError` of its own (`ai/intent_classifier.py:76`), the handler
   catches the one of `ai/safety.py` (`api.py:25`, `384`), which never occurs in
   this pipeline: 500 instead of 400. (`ask_unsupported`)
3. **Causal links show "?" for their pattern.** The renderer reads `pattern_id`
   (`ai/response_renderer.py:175`), the transformer writes `attack_pattern_id`
   (`agents/offensive/transformers.py:88`); the renderer's tests use a fixture
   with the wrong name. (`causal_links`)

Observed on the way, without a run: a technique that the graph knows without any
defence gives rows but no provenance, and is answered as an internal error
(`defensive/executor.py:153-203`). The branch for an empty step payload
(`executor.py:239-246`) is dead behind the router (`PlanNeverStarved`).
`.env.example:52` says that requests
exceeding the limit return 504; the deadline is only looked at before
an agent is called, so that a request may exceed it and still be answered with 200
(`OverrunBounded`, `TimeoutMeansUnfinished`).
Requests that arrive while the loop is blocked are counted by the limiter at the
time it gets to them, so that a client that keeps within the limit by its own
clock can be refused. Further:

- *Orchestrator.* `types.py:93` says "Error messages if status=error"; the
  aggregate of agents that found nothing is an error with an empty list
  (`aggregator.py:203-211`). `constants.py:28` says "At least one of these" of
  `cveId` and `cweId` for `attack_path`; the offensive agent knows `cweId` only and
  refuses the other (`offensive/executor.py:145-148`), also when the classifier
  chose this intent for "Show attack paths for CVE-..." (the exception in
  `DispatchedIsAccepted`).
- *Gateway.* `api.py:83` says "every request/response carries a correlation ID"; a
  request without a route gets its answer from outside the middlewares.
- *Pipeline.* `EntityNotFoundError` is in no except clause: a prompt about coverage
  with a CPE name or a weakness, but no technique id, is classified `coverage_map`,
  yields no payload and is answered with 500, as is a UUID without any known word
  (`UnsupportedQueryError`). The extractor refuses the same identifier mentioned
  twice, though its error says "multiple".
- *Answers.* Which weakness a vulnerability is shown with depends on the order of
  rows that ORDER BY leaves open; a first one without an id is kept and shown as
  none, while one of which nothing is kept gives way to the next. Engagements known by an approach or a goal are
  shown as "?" (`response_renderer.py:220`). The parent pattern of an inherited
  mapping is in the data and not in the CAPEC provenance. `has_coverage` ignores
  engagements although its comment says ANY (`defensive/transformers.py:92`).
  Systems and offensive agent count every hop as taken and no data as stale, so
  their confidence is always 1 and the low-confidence warning is never shown
  (`ShownIsSourced`). Empty and error answers carry neither provenance nor
  confidence, against rules 1 and 2 of the renderer.
- *Sync.* `--check` is documented to fail if `spec/` "does not match SPEC_VERSION"
  (`sync_spec.py:15`). It compares the tag in the pin file only: after a sync that
  died while removing, the pin may still be there with half the tree gone, and
  hand edits go unnoticed. `CheckTrusted` states how far the check can be trusted.
  The commit that the pin records is never compared, so a tag that was moved is
  not noticed either.

## 4. Proofs

`Neo4jClientProofs`, for every number of retries, table of pauses, length of an
attempt and number of rows that satisfy the assumptions of `Neo4jClient`:

- `ClientInvariant`: `ClientInv`, the conjunction of the three checked invariants
  and "returned exactly when there is an outcome". The bound on the whole query is
  not inductive as `elapsed <= QueryTicks`; `QueryTimeBounded` therefore also says
  that what is left of the budget covers the attempts that are left. Lemma
  `BudgetOfRetry` is the arithmetic of one retry, `BackoffBounded` the index into
  the table of pauses.
- `ClientTypeCorrect`, `ClientStoryTrue`, `ClientTimeBounded`: its parts.
- `ClientImplementsService`: every step of the client is a step of `QueryService`
  or a stutter (safety part).

`OrchestratorProofs`, for every integer deadline, negative ones included, every set of weaknesses,
techniques and frameworks, every `WorkTicks` and every retry policy: `Inv` is
`FlowInv`, `DataInv`, `EndInv`, two of the checked properties and the client's
`ClientInv`, which `ClientKeepsInv` brings over from the client's proof through
the instance (its assumptions are this module's `ClientAssumption`; lemma
`ClientAssumptions` discharges them). `FlowInv` ties `pc`, `asked`, `responses`,
the plan and the client's phase together; `DataInv` types payloads and envelopes;
`EndInv` says why `execute()` has ended: the request was turned down, the budget
was spent, or the agents had been asked. It is needed because the result does not
say how the sequence stood when it was made.
The lemmas before it say what the helpers return: the union of two payloads is a
payload (`UpdateTyped`), a derived payload is one (`MixedPayloadTyped`), an agent
returns envelopes and at least the first response exists when the second step
reads it (`RepliesTyped`, `StepTyped`). `CollectKeeps` is the step that both
`AgentRefuses` and `AgentReplies` share. From `Invariant` follow

- `TypeCorrect`,
- `SequenceStopsAtFirstError`: each agent at most once, in order, none after an error,
- `DeadlineOverrunBounded`: `now < Deadline + QueryTicks + WorkTicks` once an agent
  has been called,
- `TimeoutsMeanUnfinished`: a valid request that is unfinished, and no other, ends in
  `OrchestratorTimeoutError`, after any number of agents or none,
- `SpentBudgetsCallNobody`, which no run checks, since in a run the deadline has one
  value: with a budget of zero or less no agent is called, and every valid request,
  single or mixed, ends in `OrchestratorTimeoutError` (`test_timeout.py:150-170`).

`OrchestratorAnswerProofs` goes on from `Inv`, which types what is asked and
answered, to what it says. It assumes of the constants, beyond `OrchestratorProofs`,
only that no coverage framework has the name of another source
(`SourcesAssumption` in `Agents`; in the code they are fixed and different names).

- `NoStepStarves` and `AgentsAskAboutFindings`, from `AskingInv`. What an agent is
  asked is written into `asked` and its context changes afterwards, so the property
  is not inductive: `AskingInv` keeps, while an agent is at work, that the payload
  in `asked` is the one the context still gives, and `ContextInv` what the context
  knows: all the request says, and of an id that a predecessor found, that id and
  nothing else. The two updates of the context in `Collect` are the step where
  this could go wrong.
- `OkAnswersSupported` and `AggregatesAccount`, from `AnswerInv`: each response is
  one that the agent of its step makes, and an answer is the refusal, the timeout,
  or `Conclusion` of a sequence that has ended. The replies of three different
  agents are `Separate` (no section and no source in common), and of separate
  replies the merge loses nothing.
- `OrchestratorKeepsPromise`: under `Inv` and `AnswerInv` every step of the
  orchestrator is a step of `CompositeAnswer` or a stutter, and the initial states
  are its initial states. The fairness part stays with TLC.

`AggregationLoopProofs`, for every set of envelopes and every length of the list
of responses. `LoopInv` says that each accumulator is what `Aggregator`'s operator
makes of the prefix its loop has been over. The work is in the operators: each
must be shown to grow by one response the way the loop's body does it
(`DictionaryGrows`, `DataGrows`, `ErrorsGrow`). The folds of the community modules
are a CHOOSE of a recursive function over sets of indices; a lemma names a map over
those sets that satisfies the same equation (`Joined` for the entries of a response,
`Sums` for sums) and `SetInduction`, which is the least-element principle for a
*set* of numbers and so needs no operator parameter, shows that the fold agrees
with it on every prefix. `SumFunctionIsSum` and `FoldIsSum` then say that the
code's `sum()` and the model's are one number, and `SumsAgree` that it does not
depend on the order. From `LoopInvariant` follow

- `LoopsCompute`: the loops compute the operators that the orchestrator model uses,
- `OrderOnlyPicks`: what the order of the agents can and cannot decide,
- `FailureCosts`: where the merged confidence lies between those of its parts,
- `MergingAdds`, an action property: an iteration never takes anything back.

`AskPipelineProofs`, for every set of identifiers, every way they may be written,
every number of mentions and every set of banned words. `AskInv` says what each
stage knows of the ones before (`StageInv`: from the safety check on, the intent is
the classifier's, the prompt is not ambiguous and the payload is the extractor's;
from the building on, the checker did not object), and, since all exceptions meet
in one handler, why one was raised (`WhyRaised`) and how a request that is over has
ended (`WhyAnswered`): the status alone does not tell. From it follow

- `AskTypes`,
- `NothingInvented`: what is asked is what the prompt says, once, in canonical form,
- `UnsafeRefused`: nothing is executed that the safety checker objects to,
- `HandedOverIsAccepted`: the classifier's, the extractor's, the router's and the
  agents' ideas of a usable field agree,
- `CveIsUsable`: whatever intent the rules pick, a CVE in the prompt fits it,
- `StatusTells`: what the HTTP status says about what has been executed.

`ApiGatewayProofs`, for every set of limits and clients, every window, every
length of an execution and every number of requests. `GatewayInv` says that the
requests are typed and numbered (`RequestInv`), that a passage is a request that
has been sent, was known and lies in the past (`PassedInv`), and that each entry
of the table fits what has passed (`TableInv`). A burst is not bounded by an
invariant about the current window alone: `WindowFits` also says that what passed
in the last `Window` ticks before the current window *began* is less than a limit.
That holds because a window begins with a passage and is replaced `Window` ticks
later or more: the first passage of the old window lies outside of those ticks,
and the old window held at most a limit of them. `FirstPassage`, `OthersPassage`,
`NextPassage` and `FurtherPassage` are the four things a passage can be to a
window, stated about sets and cardinalities alone; `CountedFits` collects them.
From `GatewayInvariant` follow

- `GatewayTypeCorrect`,
- `TableIsAccurate`: the table counts what passed in the window, nothing else,
- `BurstsAreBounded`: at most `2 * limit - 1` in any `Window` ticks, which is what
  a fixed window costs over a sliding one,
- `RefusalsAreEarned`, an action property: who is refused has used a full limit
  within the last `Window` ticks,
- `WaitsAreBounded`, with the stronger `WaitInv`: a queued request has waited at
  most `ExecTicks` for each passed request that has been answered, and for the
  one that executes only since it began.

`SyncSpecProofs`, for every set of releases and files, whatever files each release
has, and every list of schema files. `OneRelease` is not inductive: that no file of
another release is there when a file is copied follows from what the phases of a
sync say of the disk (`PhaseInv`: a directory is made where there is none, and
until the pin is written the tree holds nothing but the new release and no pin).
`PinInv` says that a pin nothing was removed under stands for its whole release,
whatever `SPEC_VERSION` is by now; `LoadInv` that a load no sync has disturbed
shares one release with the disk, the release being copied if a copy is under way.
That last part matters: a load may begin while files are copied, or over what a
dead sync left, and must not meet a second release later. Their conjunction with
the types is `SyncInv`; from `SyncInvariant` follow

- `SyncTypeCorrect`,
- `FilesOfOneRelease`: one release on disk, the pinned one if there is a pin,
- `CheckIsTrusted`: when the comparison of the pin speaks for the tree,
- `ValidatorsLoadOneRelease`: what an undisturbed validator has loaded,
- `SyncsDeliver`, an action property: what the results 0 and 1 stand for.

`AnswersProofs`, for every set of ids (`IdsAssumption`: `None`, `Anon` and `Bare` are
not among them) and every set of lists of rows of any length that have the shape the
templates return (`ResultsAssumption`). The order of the rows and the bound on a
mixed request are not assumed. Its first half is about single rows:

- A list without duplicates stays one, and holds the named ids that were added
  (`AddUniqueIs`, `AddNewIs`); `FoldExists` gives each FoldLeft of the transformers
  a function of the prefix that satisfies the fold's equation, and `SetInduction`
  carries a fact along it (`AddAllIs`, `AddEngagementsIs`, `AddApplicabilitiesIs`).
- `AddVulnerabilityIs`, `AddToTechniqueIs` and `AddPathIs` say which entries a row
  leaves alone, which it adds and which it extends.
- `VulnerabilitiesStep`, `TechniquesStep` and `CoverageStep`: data made of the first
  `m` rows becomes, by one more iteration, data made of the first `m + 1`. The first
  weakness is the case with a history: the entry may have been met before with no
  weakness, with a bare one, which the new one replaces, or with one that stays.

The second half is the state. `ProvenanceMatchesData` is not inductive: while the
agent is at work it says nothing of it. `AnswersInv` says instead what each of the
two loops has made of its own prefix of the rows (`AtWork`, by `Computed` and
`Traced`), and that the agents before it match while those after it are untouched
(`Others`); `LoopsAgree` is the point where both loops have been over all rows and
what they made must be the same. `Scored` keeps that each agent that has answered
cites something and what its confidence was, which `ConfidenceLacks` sums up when
the answer is rendered, and `RenderedIsAll` that the renderer, which looks at one
section or all by intent, leaves out nothing there is. From `AnswersInvariant` follow

- `AnswersAreTyped`: nothing is listed twice,
- `AnswersLoopsComputeData`: each prefix of the rows, as a set, is what is computed,
- `AnswersProvenanceMatches`: the two loops agree on what to skip,
- `AnswersShowTheirSources`: what is shown is what is cited; the confidence lacks a
  tenth per missing framework and is never low.

Only model-checked: everything under fairness (`EveryRequestAnswered`,
`EveryRequestServed`, `EveryAskAnswered`, the liveness parts of the two
refinements), since liveness and ENABLED are beyond the prover. Every invariant
and action property of a passing run is a theorem.

## 5. Not modelled, and why

Cypher texts, their validation at import, and the graph (external); contents of logs; pydantic types and
schema files (the schemas are not in the repository); `close()` and the context
managers of the client, which no caller in the repository uses; the weighted and
minimum strategies of `merge_confidence`, which the constant
`CONFIDENCE_MERGE_STRATEGY` switches off; `RiskScorer`, a pure table that nothing
calls but its tests; wording and layout of answers, and how regular expressions
match characters; `process_prompt`, which only tests call; cancellation of a handler whose client
has gone, which aiohttp does not do by default.

## 6. Plan

Models next: two syncs at a time.
