------------------------------ MODULE Contract ------------------------------
(***************************************************************************)
(* The vocabulary the orchestrator and its three agents share: intents,    *)
(* payloads and response envelopes (orchestrator/constants.py, router.py,  *)
(* agents/shared/response_builder.py).                                     *)
(*                                                                         *)
(* A payload is a partial function from field names to values.  The code   *)
(* tests two different things about a field, and so does the model: the    *)
(* key is present (Has), and its value is truthy (Truthy).  Blank stands   *)
(* for a value that is present and not truthy, the empty string; Malformed *)
(* for a truthy attackId that does not match TECHNIQUE_PATTERN.            *)
(***************************************************************************)
EXTENDS Integers, Sequences, FiniteSets

CONSTANTS
  Cwes,        \* weakness ids
  Techs,       \* technique ids, ordered as the transformer sorts them
  Frameworks,  \* the provenance sources of coverage: D3FEND, CAR, SHIELD, ENGAGE
  Blank,       \* the empty value
  Malformed,   \* a technique id that is none
  Given,       \* the value of a platform or vulnerability key
  NoId         \* a vulnerability without a weakness

ASSUME TechsAssumption == Techs \subseteq Nat
ASSUME DistinctValues ==
  /\ Blank \notin Cwes \cup Techs \cup {Given, Malformed, NoId}
  /\ Malformed \notin Techs
  /\ NoId \notin Cwes

----------------------------------------------------------------------------
(* Intents and agents *)

ValidIntents == {"vuln_lookup", "attack_path", "coverage_map", "mixed"}

Agents == {"systems", "offensive", "defensive"}

IntentToAgent ==
  [vuln_lookup |-> "systems", attack_path |-> "offensive", coverage_map |-> "defensive"]

\* The sub-intents of a mixed request, in the order the agents are called.
MixedIntentSequence == <<"vuln_lookup", "attack_path", "coverage_map">>

\* The sub-intents the orchestrator executes for a request.
Plan(intent) == IF intent = "mixed" THEN MixedIntentSequence ELSE <<intent>>

----------------------------------------------------------------------------
(* Payloads *)

LookupKeys == {"matchCriteriaId", "cpeName", "cpe", "cveId"}
Fields     == LookupKeys \cup {"cweId", "attackId"}
Values     == {Blank, Malformed, Given} \cup Cwes \cup Techs

Payloads == UNION {[D -> Values] : D \in SUBSET Fields}

Has(p, f)    == f \in DOMAIN p
Truthy(p, f) == f \in DOMAIN p /\ p[f] # Blank

\* dict.update: the fields of q replace those of p.
Update(p, q) ==
  [f \in DOMAIN p \cup DOMAIN q |-> IF f \in DOMAIN q THEN q[f] ELSE p[f]]

\* Mutant: a merge that keeps the value that was there first.
UpdateKeepsOld(p, q) ==
  [f \in DOMAIN p \cup DOMAIN q |-> IF f \in DOMAIN p THEN p[f] ELSE q[f]]

\* A payload of one field.
Only(f, v) == [g \in {f} |-> v]

EmptyPayload == [g \in {} |-> Blank]

\* INTENT_PAYLOAD_FIELDS: one of these must be present for the intent.
RequiredFields(intent) ==
  CASE intent \in {"vuln_lookup", "mixed"} -> LookupKeys
    [] intent = "attack_path"              -> {"cveId", "cweId"}
    [] intent = "coverage_map"             -> {"attackId"}
    [] OTHER                               -> {}

\* Mutant: a router that lets any payload through.
PayloadAcceptedAlways(intent, p) == intent \in ValidIntents

\* RequestRouter.validate_payload: a required key is present, whatever its value.
PayloadAccepted(intent, p) == \E f \in RequiredFields(intent) : Has(p, f)

----------------------------------------------------------------------------
(* Response envelopes *)

Statuses == {"ok", "empty", "error"}

\* The data of an envelope is a partial function from sections to contents: the
\* weakness of each vulnerability, the set of techniques, the set of frameworks that
\* cover a technique.
NoData == [k \in {} |-> Blank]

\* A provenance entry names a source and the ids taken from it.
Entry(source, ids, ts) == [source |-> source, ids |-> ids, timestamp |-> ts]

\* ResponseBuilder.ok, and the confidence in tenths.
OkResponse(data, provenance, confidence) ==
  [status |-> "ok", data |-> data, provenance |-> provenance,
   confidence |-> confidence, errors |-> <<>>]

\* The agents' own empty envelopes: no provenance, confidence 0, no error.
EmptyResponse(data) ==
  [status |-> "empty", data |-> data, provenance |-> {}, confidence |-> <<0, 1>>,
   errors |-> <<>>]

\* ResponseBuilder.error: no data, confidence 0.
ErrorResponse(errors) ==
  [status |-> "error", data |-> NoData, provenance |-> {}, confidence |-> <<0, 1>>,
   errors |-> errors]
=============================================================================
