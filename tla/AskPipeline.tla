---------------------------- MODULE AskPipeline ----------------------------
(***************************************************************************)
(* POST /ask: the handler in orchestrator/api.py and the pipeline it runs, *)
(* LLMAdapter.process() (ai/llm_adapter.py) with its classifier, extractor *)
(* and safety checker, up to the orchestrator, of which only the promise   *)
(* of CompositeAnswer is used.                                             *)
(*                                                                         *)
(* A prompt is what the regular expressions see of it: which families of   *)
(* words it contains, and which identifiers it mentions, in which order.   *)
(* An exception is named by its class, and by its module where two classes *)
(* share a name.                                                           *)
(***************************************************************************)
EXTENDS Agents

CONSTANTS
  Tokens,        \* identifiers as they can be written in a prompt
  Canonical,     \* the identifier each is normalised to
  MentionLists,  \* for each kind, the lists of tokens a prompt may mention
  Banned         \* identifiers with a keyword that no payload may contain

\* The kinds of identifiers, named by the payload field each goes into.
Kinds == {"matchCriteriaId", "cveId", "cpeName", "cweId", "attackId"}

ASSUME AskAssumption ==
  /\ \A t \in Tokens : Canonical[t] \notin {Blank, Malformed}
  /\ MentionLists \in [Kinds -> SUBSET Seq(Tokens)]
  \* A keyword fits into a CPE name only; the other kinds are digits and prefixes.
  /\ \A k \in Kinds \ {"cpeName"} : \A l \in MentionLists[k] :
       \A i \in DOMAIN l : Canonical[l[i]] \notin Banned

VARIABLES
  stage,    \* where the handler is
  prompt,   \* the prompt being processed
  intent,   \* the intent it was classified as
  payload,  \* what was extracted from it
  raised,   \* the exception that ended the pipeline, or "none"
  http,     \* the HTTP status of the answer, or 0
  phase, steps, reports, verdict   \* the orchestrator of this request

O == INSTANCE CompositeAnswer

request == <<prompt, intent, payload>>
orch    == <<phase, steps, reports, verdict>>
vars    == <<stage, prompt, intent, payload, raised, http, phase, steps, reports, verdict>>

----------------------------------------------------------------------------
(* Prompts *)

Mentions(p, k) == p.mentions[k] # << >>

MentionMaps ==
  [matchCriteriaId : MentionLists["matchCriteriaId"], cveId : MentionLists["cveId"],
   cpeName : MentionLists["cpeName"], cweId : MentionLists["cweId"],
   attackId : MentionLists["attackId"]]

\* phrase: the prompt asks for everything in so many words.  hostile: it matches an
\* injection pattern or two Cypher keywords.  The others: one of the family's patterns
\* matches.
Words == [phrase : BOOLEAN, vuln : BOOLEAN, attack : BOOLEAN, strong : BOOLEAN,
          defense : BOOLEAN, hostile : BOOLEAN]

\* A CVE id or a CPE name matches a vulnerability pattern by itself; a strong attack
\* pattern implies a weak one.
PossiblePrompt(w, m) ==
  /\ m["cveId"] # << >> \/ m["cpeName"] # << >> => w.vuln
  /\ w.strong => w.attack

NoPrompt ==
  [words |-> [phrase |-> FALSE, vuln |-> FALSE, attack |-> FALSE, strong |-> FALSE,
              defense |-> FALSE, hostile |-> FALSE],
   mentions |-> [k \in Kinds |-> << >>]]

----------------------------------------------------------------------------
(* IntentClassifier.classify *)

\* Step 4: a CVE or a CPE name is the only kind of entity.
EntityFirst(p) ==
  /\ Mentions(p, "cveId") \/ Mentions(p, "cpeName")
  /\ ~Mentions(p, "cweId") /\ ~Mentions(p, "attackId")

\* Mutant: the rule without its test for a CVE (the regression test's old defect).
EntityFirstIntentPlain(p) ==
  CASE p.words.attack /\ p.words.defense -> "mixed"
    [] p.words.strong /\ ~p.words.defense -> "attack_path"
    [] p.words.defense /\ ~p.words.attack -> "coverage_map"
    [] OTHER -> "vuln_lookup"

EntityFirstIntent(p) ==
  CASE p.words.attack /\ p.words.defense -> "mixed"
    [] p.words.strong /\ ~p.words.defense -> "attack_path"
    [] p.words.defense /\ ~p.words.attack /\ ~Mentions(p, "cveId") -> "coverage_map"
    [] OTHER -> "vuln_lookup"

\* Step 5: the domains the words and the entities speak of.
Domains(p) ==
  {d \in {"vuln", "attack", "defense"} :
     CASE d = "vuln"    -> p.words.vuln \/ Mentions(p, "cveId") \/ Mentions(p, "cpeName")
       [] d = "attack"  -> p.words.attack \/ Mentions(p, "cweId")
       [] d = "defense" -> p.words.defense \/ Mentions(p, "attackId")}

\* Step 6; "none" is the case in which UnsupportedQueryError is raised.
GeneralIntent(p) ==
  CASE Domains(p) = {"vuln", "attack", "defense"} -> "mixed"
    [] Domains(p) = {"vuln"}                      -> "vuln_lookup"
    [] Domains(p) \in {{"attack"}, {"vuln", "attack"}} -> "attack_path"
    [] Domains(p) = {}                            -> "none"
    [] OTHER                                      -> "coverage_map"

Classified(p) ==
  IF p.words.phrase THEN "mixed"
  ELSE IF EntityFirst(p) THEN EntityFirstIntent(p)
  ELSE GeneralIntent(p)

----------------------------------------------------------------------------
(* EntityExtractor.extract *)

\* Mutant: the first mention counts, as the module's docstring begins to say.
AmbiguousNever(p) == FALSE

\* Every kind is extracted, whatever the intent; a kind mentioned twice is refused,
\* even if it is the same identifier twice.
Ambiguous(p) == \E k \in Kinds : Len(p.mentions[k]) > 1

\* Mutant: coverage falls back on the weakness.
PriorityWithFallback(i) ==
  CASE i \in {"vuln_lookup", "mixed"} -> <<"matchCriteriaId", "cveId", "cpeName">>
    [] i = "attack_path"              -> <<"cweId", "cveId">>
    [] i = "coverage_map"             -> <<"attackId", "cweId">>

\* The fields an intent can use, in the order of their priority.
Priority(i) ==
  CASE i \in {"vuln_lookup", "mixed"} -> <<"matchCriteriaId", "cveId", "cpeName">>
    [] i = "attack_path"              -> <<"cweId", "cveId">>
    [] i = "coverage_map"             -> <<"attackId">>

\* Mutant: every identifier found goes into the payload.
ExtractedAll(p, i) ==
  [k \in {k \in Kinds : Mentions(p, k)} |-> Canonical[p.mentions[k][1]]]

\* The first field of the intent that is mentioned, or nothing.
Extracted(p, i) ==
  LET usable == {n \in DOMAIN Priority(i) : Mentions(p, Priority(i)[n])}
  IN  IF usable = {} THEN EmptyPayload
      ELSE LET k == Priority(i)[Min(usable)] IN Only(k, Canonical[p.mentions[k][1]])

----------------------------------------------------------------------------
(* SafetyChecker.check and LLMAdapter._validate_payload_fields *)

\* Mutant: the checker that is not given the prompt.
UnsafePayload(p, q) == \E k \in DOMAIN q : q[k] \in Banned

Unsafe(p, q) == (\E k \in DOMAIN q : q[k] \in Banned) \/ p.words.hostile

FieldsValid(i, q) ==
  DOMAIN q \cap RequiredFields(i) # {} /\ DOMAIN q \subseteq RequiredFields(i)

----------------------------------------------------------------------------
(* The handler's except clauses *)

\* The classes the 400 clause names: UnsupportedQueryError is imported from ai.safety.
BadRequests == {"SafetyViolationError", "safety.UnsupportedQueryError",
                "MultipleEntitiesError"}

\* Mutant: a deadline that passes is one more internal error.
StatusWithoutTimeout(exception) == IF exception \in BadRequests THEN 400 ELSE 500

StatusOf(exception) ==
  CASE exception \in BadRequests -> 400
    [] exception = "OrchestratorTimeoutError" -> 504
    [] OTHER -> 500

----------------------------------------------------------------------------
(* The pipeline *)

Init ==
  /\ stage = "idle"
  /\ prompt = NoPrompt
  /\ intent = "none"
  /\ payload = EmptyPayload
  /\ raised = "none"
  /\ http = 0
  /\ O!Init

GoTo(s)  == stage' = s /\ UNCHANGED <<raised, http>>
Raise(x) == stage' = "raised" /\ raised' = x /\ UNCHANGED http

\* A body with a prompt in it arrives.
Ask ==
  /\ stage = "idle"
  /\ \E w \in Words, m \in MentionMaps :
       /\ PossiblePrompt(w, m)
       /\ prompt' = [words |-> w, mentions |-> m]
  /\ GoTo("asked")
  /\ UNCHANGED <<intent, payload, orch>>

\* No JSON object, or a blank or missing prompt.
RefuseBody ==
  /\ stage = "idle"
  /\ stage' = "answered"
  /\ http' = 400
  /\ UNCHANGED <<request, raised, orch>>

\* The factory loads schemas and connects to the database, and may fail.
MakeOrchestrator ==
  /\ stage = "asked"
  /\ GoTo("classifying") \/ Raise("FactoryError")
  /\ UNCHANGED <<request, orch>>

Classify ==
  /\ stage = "classifying"
  /\ intent' = Classified(prompt)
  /\ IF intent' = "none" THEN Raise("classifier.UnsupportedQueryError")
     ELSE GoTo("extracting")
  /\ UNCHANGED <<prompt, payload, orch>>

\* Mutant: with nothing to ask about, the prompt is classified once more.
ExtractOrReclassify ==
  /\ stage = "extracting"
  /\ IF Ambiguous(prompt)
       THEN Raise("MultipleEntitiesError") /\ UNCHANGED payload
       ELSE /\ payload' = Extracted(prompt, intent)
            /\ GoTo(IF payload' = EmptyPayload THEN "classifying" ELSE "checking")
  /\ UNCHANGED <<prompt, intent, orch>>

Extract ==
  /\ stage = "extracting"
  /\ IF Ambiguous(prompt)
       THEN Raise("MultipleEntitiesError") /\ UNCHANGED payload
       ELSE /\ payload' = Extracted(prompt, intent)
            /\ IF payload' = EmptyPayload THEN Raise("EntityNotFoundError")
               ELSE GoTo("checking")
  /\ UNCHANGED <<prompt, intent, orch>>

Check ==
  /\ stage = "checking"
  /\ IF intent \notin ValidIntents THEN Raise("safety.UnsupportedQueryError")
     ELSE IF Unsafe(prompt, payload) THEN Raise("SafetyViolationError")
     ELSE GoTo("building")
  /\ UNCHANGED <<request, orch>>

\* _build_request, and the call of execute().
Build ==
  /\ stage = "building"
  /\ IF FieldsValid(intent, payload)
       THEN GoTo("executing") /\ O!Receive
       ELSE Raise("ValueError") /\ UNCHANGED orch
  /\ UNCHANGED request

\* execute() judges the request by its router and works through its plan.  An agent
\* that does not accept the payload reports an error.
Execute ==
  /\ stage = "executing"
  /\ \/ ~PayloadAccepted(intent, payload) /\ O!TurnDown
     \/ PayloadAccepted(intent, payload) /\ O!TakeOn /\ steps' = Len(Plan(intent))
     \/ /\ O!Report
        /\ reports = << >> /\ ~Accepts(IntentToAgent[Plan(intent)[1]], payload)
             => reports' = <<"error">>
     \/ O!Answer
  /\ UNCHANGED <<stage, request, raised, http>>

\* The deadline has passed before an agent is called, the first one included.
TimeOut ==
  /\ stage = "executing"
  /\ O!GiveUp
  /\ Raise("OrchestratorTimeoutError")
  /\ UNCHANGED request

\* ResponseRenderer.render, and the answer.
Render ==
  /\ stage = "executing"
  /\ phase = "answered"
  /\ stage' = "answered"
  /\ http' = 200
  /\ UNCHANGED <<request, raised, orch>>

Handle ==
  /\ stage = "raised"
  /\ stage' = "answered"
  /\ http' = StatusOf(raised)
  /\ UNCHANGED <<request, raised, orch>>

\* The request is over; the next one has an orchestrator of its own.
Finish ==
  /\ stage = "answered"
  /\ stage' = "idle"
  /\ prompt' = NoPrompt /\ intent' = "none" /\ payload' = EmptyPayload
  /\ raised' = "none" /\ http' = 0
  /\ IF phase = "idle" THEN UNCHANGED orch ELSE O!Forget

Process ==
  \/ MakeOrchestrator \/ Classify \/ Extract \/ Check \/ Build
  \/ Execute \/ TimeOut \/ Render \/ Handle

Next == Ask \/ RefuseBody \/ Process \/ Finish

Spec == Init /\ [][Next]_vars

\* The handler never waits once it has the body: it runs to its end.
FairSpec == Spec /\ WF_vars(Process)

----------------------------------------------------------------------------
(* Properties *)

Exceptions ==
  {"none", "FactoryError", "classifier.UnsupportedQueryError", "MultipleEntitiesError",
   "EntityNotFoundError", "safety.UnsupportedQueryError", "SafetyViolationError",
   "ValueError", "OrchestratorTimeoutError"}

\* The request has been handed to the orchestrator.
Dispatched == phase # "idle"

\* Each kind of identifier is mentioned once at most.
Unambiguous(p) == \A k \in Kinds : Len(p.mentions[k]) <= 1

\* The variables keep their types; a payload has one field at most.
AskTypeOK ==
  /\ stage \in {"idle", "asked", "classifying", "extracting", "checking", "building",
                "executing", "raised", "answered"}
  /\ intent \in ValidIntents \cup {"none"}
  /\ payload = EmptyPayload \/ \E k \in Kinds : DOMAIN payload = {k}
  /\ raised \in Exceptions
  /\ http \in {0, 200, 400, 500, 504}
  /\ phase \in {"idle", "judging", "working", "answered"}

\* entity_extractor.py:13, "Never invents identifiers": what is asked of the graph is
\* one identifier, the only one of its kind in the prompt, in its canonical form and
\* under the field its kind belongs to, and the intent has a use for that field.
AsksOnlyWhatIsSaid ==
  Dispatched =>
    \E k \in Kinds \cap RequiredFields(intent), t \in Tokens :
      prompt.mentions[k] = <<t>> /\ payload = Only(k, Canonical[t])

\* Whatever the words make of the intent, and whichever of the identifiers the payload
\* takes, nothing is executed for a prompt that the safety checker objects to, and its
\* answer is a refusal.
UnsafeNeverExecuted ==
  prompt.words.hostile \/ (\E k \in DOMAIN payload : payload[k] \in Banned) =>
    ~Dispatched /\ http \in {0, 400, 500}

\* Classifier, extractor and builder agree with the router and the agents: the fields
\* that _build_request checks are never wrong, the router never turns a request of this
\* pipeline down, and the first agent accepts its payload, unless it is the offensive
\* agent asked about a vulnerability.
DispatchedIsAccepted ==
  /\ raised \notin {"ValueError", "safety.UnsupportedQueryError"}
  /\ Dispatched =>
       /\ PayloadAccepted(intent, payload)
       /\ \/ Accepts(IntentToAgent[Plan(intent)[1]], payload)
          \/ intent = "attack_path" /\ Has(payload, "cveId")

\* intent_classifier.py:228, "so the CVE entity is usable": whatever else an
\* unambiguous prompt says, a vulnerability in it gives the classified intent something
\* to ask about.
CveAlwaysUsable ==
  stage = "answered" /\ Mentions(prompt, "cveId") /\ Unambiguous(prompt) =>
    \/ Dispatched
    \/ raised \in {"FactoryError", "SafetyViolationError"}

\* The HTTP status tells what ran: 200 is an answer of the orchestrator, whatever it
\* says; 504 a deadline that passed while the orchestrator was at work: no agent had
\* failed, and not all had answered; and after 400 or 500 nothing has been executed, so
\* asking again repeats no query.
StatusTellsWhatRan ==
  stage = "answered" =>
    /\ http = 200 => verdict \in O!Reported
    /\ http = 504 => verdict = "timeout" /\ ~O!Finished
    /\ http \in {400, 500} => ~Dispatched
    /\ http # 0

\* Every prompt is answered.
EveryAskAnswered == stage = "asked" ~> stage = "answered"

\* api.py:384 and safety.py:20: an UnsupportedQueryError is answered with 400.
UnsupportedIsBadRequest ==
  stage = "answered" /\
  raised \in {"classifier.UnsupportedQueryError", "safety.UnsupportedQueryError"} =>
    http = 400
=============================================================================
