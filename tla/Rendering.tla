----------------------------- MODULE Rendering -----------------------------
(***************************************************************************)
(* ai/response_renderer.py: what an answer shows of a response.  An answer *)
(* is a set of items, each a tuple of the section it stands in and the     *)
(* values it names; wording and layout are left out.                       *)
(***************************************************************************)
EXTENDS Transformers

\* The "?" that stands for a field the renderer does not find.
Unknown == "?"

ToItems(section, list) == {<<section, list[n]>> : n \in DOMAIN list}

\* _render_vuln_lookup: the first score and the weakness of each vulnerability.
VulnerabilityItems(data) ==
  {<<"vulnerability", data[n].cve,
     IF data[n].scores = << >> THEN None ELSE data[n].scores[1],
     IdOf(data[n].weakness)>> : n \in DOMAIN data}

\* Mutant: subtechniques are listed among the techniques.
TechniqueItemsWithSubs(data) ==
  {<<"technique", data.techniques[n].id>> : n \in DOMAIN data.techniques} \cup
  UNION {ToItems("technique", data.techniques[n].subs) : n \in DOMAIN data.techniques}

TechniqueItems(data) ==
  {<<"technique", data.techniques[n].id>> : n \in DOMAIN data.techniques}

\* A causal link for each path.  Its pattern is looked up as pattern_id, which no path
\* has: the transformer writes attack_pattern_id.
LinkItems(data) ==
  {<<"link", data.paths[n].weakness, Unknown, data.paths[n].technique>> :
     n \in DOMAIN data.paths}

AttackItems(data) == TechniqueItems(data) \cup LinkItems(data)

\* An engagement is shown by its activityId, whichever id it has.
EngagementItems(list) ==
  {<<"engagement", IF Named(list[n].activity) THEN list[n].activity ELSE Unknown>> :
     n \in DOMAIN list}

CoverageItems(data) ==
  ToItems("mitigation", data.mitigations) \cup ToItems("detection", data.detections)
    \cup ToItems("deception", data.deceptions) \cup EngagementItems(data.engagements)

\* _render_mixed: the attack section is there if there are techniques.
MixedItems(vulnerabilities, attack, coverage) ==
  VulnerabilityItems(vulnerabilities)
    \cup (IF attack.techniques = << >> THEN {} ELSE AttackItems(attack))
    \cup CoverageItems(coverage)

\* _LOW_CONFIDENCE_THRESHOLD is a quarter; n / d is the confidence.
LowConfidence(n, d) == 4 * n < d
=============================================================================
