------------------------------- MODULE Agents -------------------------------
(***************************************************************************)
(* The three agents as the orchestrator sees them (agents/systems,         *)
(* agents/offensive, agents/defensive: executor.py).  An agent first       *)
(* inspects its payload and may refuse it; then it makes one query; then it*)
(* turns the outcome of the query into an envelope and checks the envelope *)
(* against the shared schemas.                                             *)
(*                                                                         *)
(* The schemas are not part of the repository.  What is known of them is   *)
(* what tools/verify_schemas.py states: an ok envelope without provenance  *)
(* is rejected, an empty one is accepted.  Any other ok envelope may or may*)
(* not conform, since it holds what the graph holds.                       *)
(***************************************************************************)
EXTENDS Aggregator

CONSTANT MaxResultRows   \* MAX_RESULT_ROWS

\* The provenance sources of coverage are named differently from the others.
ASSUME SourcesAssumption ==
  {"NVD", "MITRE CAPEC", "MITRE ATT&CK"} \cap Frameworks = {}

----------------------------------------------------------------------------
(* Payload checks *)

\* _select_template, by presence: the first key of this order that is in the payload.
TemplateOrder == <<"matchCriteriaId", "cpeName", "cpe", "cveId">>

TemplateKey(p) ==
  TemplateOrder[Min({i \in DOMAIN TemplateOrder : Has(p, TemplateOrder[i])})]

\* The payload passes the agent's own validation and leads to a query.  The systems
\* agent selects a key by presence and then requires its value to be truthy; the
\* offensive agent knows cweId only; the defensive agent requires a well-formed attackId.
Accepts(agent, p) ==
  CASE agent = "systems"   -> /\ \E k \in LookupKeys : Has(p, k)
                              /\ Truthy(p, TemplateKey(p))
    [] agent = "offensive" -> Truthy(p, "cweId")
    [] agent = "defensive" -> Truthy(p, "attackId") /\ p["attackId"] # Malformed

----------------------------------------------------------------------------
(* Envelopes *)

Refusal       == ErrorResponse(<<"invalid payload">>)
QueryError    == ErrorResponse(<<"query execution failed">>)
InternalError == ErrorResponse(<<"internal service error">>)

\* One row of the graph per vulnerability: its weakness, or NoId.  (The time stamp is
\* the latest lastModified of the rows, if any; nothing the orchestrator does reads it.)
SystemsOk(weaknesses) ==
  OkResponse([k \in {"vulnerabilities"} |-> weaknesses],
             {Entry("NVD", {Given}, Now)}, <<10, 1>>)

\* The techniques, sorted by id, that the weakness leads to.  A row whose technique
\* carries no id adds its attack pattern to the provenance and nothing to the data.
OffensiveOk(techniques) ==
  OkResponse([k \in {"techniques"} |-> techniques],
             {Entry("MITRE CAPEC", {Given}, Now)} \cup
               (IF techniques = {} THEN {} ELSE {Entry("MITRE ATT&CK", techniques, Now)}),
             <<10, 1>>)

\* The frameworks that cover the technique; a tenth of confidence per missing one.
DefensiveOk(frameworks) ==
  OkResponse([k \in {"coverage"} |-> frameworks],
             {Entry(f, {Given}, Now) : f \in frameworks},
             <<10 - Cardinality(Frameworks \ frameworks), 1>>)

\* The envelopes that n > 0 rows of the graph can make, before validation.
OkResponses(agent, n) ==
  CASE agent = "systems"   ->
         {SystemsOk(w) : w \in UNION {[1..k -> Cwes \cup {NoId}] : k \in 1..n}}
    [] agent = "offensive" -> {OffensiveOk(t) : t \in SUBSET Techs}
    [] agent = "defensive" -> {DefensiveOk(f) : f \in SUBSET Frameworks}

EmptyEnvelope(agent) ==
  CASE agent = "systems"   -> EmptyResponse([k \in {"vulnerabilities"} |-> <<>>])
    [] agent = "offensive" -> EmptyResponse([k \in {"techniques"} |-> {}])
    [] agent = "defensive" -> EmptyResponse([k \in {"coverage"} |-> {}])

\* Mutant: an agent that skips validate_response.
UnvalidatedEnvelope(r) == {r}

\* validate_response: the envelope, or InternalError when it raises.
Validated(r) == IF r.provenance = {} THEN {InternalError} ELSE {r, InternalError}

\* The row limit is checked by two of the three agents.
TooManyRows(agent, n) == n > MaxResultRows /\ agent # "defensive"

\* Mutant: an agent whose handlers let the client's TimeoutError through to nobody.
RepliesExceptOnTimeout(agent, o) ==
  IF o.kind = "TimeoutError" THEN {}
  ELSE IF o.kind # "records" \/ TooManyRows(agent, o.rows) THEN {QueryError}
  ELSE IF o.rows = 0 THEN {EmptyEnvelope(agent)}
  ELSE UNION {Validated(r) : r \in OkResponses(agent, o.rows)}

\* The envelopes an agent can return for outcome o of its query.  "except Exception"
\* turns a TimeoutError of the client into the same envelope as any other failure.
Replies(agent, o) ==
  IF o.kind # "records" \/ TooManyRows(agent, o.rows) THEN {QueryError}
  ELSE IF o.rows = 0 THEN {EmptyEnvelope(agent)}
  ELSE UNION {Validated(r) : r \in OkResponses(agent, o.rows)}

----------------------------------------------------------------------------
(* What the orchestrator reads from an envelope *)

\* _extract_cwe_id: the weakness of the first vulnerability that has one.
ExtractCweId(r) ==
  LET found == IF "vulnerabilities" \in DOMAIN r.data
               THEN {i \in DOMAIN r.data["vulnerabilities"] :
                       r.data["vulnerabilities"][i] # NoId}
               ELSE {}
  IN  IF found = {} THEN NoId ELSE r.data["vulnerabilities"][Min(found)]

\* _extract_attack_id: the first technique.
ExtractAttackId(r) ==
  IF "techniques" \in DOMAIN r.data /\ r.data["techniques"] # {}
  THEN Min(r.data["techniques"]) ELSE NoId

\* _extract_mixed_context: what an ok response adds to the context of later steps.
ExtractMixedContext(subIntent, r) ==
  IF ~IsOk(r) THEN EmptyPayload
  ELSE IF subIntent = "vuln_lookup" /\ ExtractCweId(r) # NoId
       THEN Only("cweId", ExtractCweId(r))
  ELSE IF subIntent = "attack_path" /\ ExtractAttackId(r) # NoId
       THEN Only("attackId", ExtractAttackId(r))
  ELSE EmptyPayload
=============================================================================
