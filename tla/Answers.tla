------------------------------ MODULE Answers ------------------------------
(***************************************************************************)
(* From the rows of the graph to the answer a user reads: the agents'      *)
(* transformers and their provenance, which loop over the rows separately, *)
(* the confidence and the envelope (agents/*/executor.py), the merge of a  *)
(* mixed request, and the renderer.                                        *)
(*                                                                         *)
(* The database returns any list of the rows its query can produce, in any *)
(* order within what ORDER BY leaves open.  Which agents are asked, with   *)
(* which payload, is Orchestrator's; here a mixed request asks all three   *)
(* unless one of them fails.                                               *)
(***************************************************************************)
EXTENDS Rendering

CONSTANTS
  Results,      \* for each template, the lists of rows its query may return
  MaxMixedRows  \* bound of the model: how many of them in a mixed request, per agent

ASSUME ResultsAssumption ==
  /\ Results["T_SYS_01"] \subseteq Seq(VulnerabilityRows)
  /\ Results["T_SYS_02"] \subseteq Seq(VulnerabilityRows)
  /\ Results["T_OFF_01"] \subseteq Seq(TechniqueRows)
  /\ Results["T_DEF_01"] \subseteq Seq(CoverageRows)

VARIABLES
  intent,      \* the intent, "none" between requests
  byPlatform,  \* the vulnerabilities are looked up by platform, not by CVE
  agent,       \* the number of the agent at work in the intent's list
  pass,        \* its loop: "query", "transform", "provenance", "respond", or "done"
  rows,        \* the rows it loops over
  row,         \* the next row of the loop
  data,        \* what the transformers have made of the rows
  sources,     \* the ids each source contributed
  scores,      \* the confidences of the ok responses, in tenths
  answer       \* what is shown

vars == <<intent, byPlatform, agent, pass, rows, row, data, sources, scores, answer>>

Intents == {"vuln_lookup", "attack_path", "coverage_map", "mixed"}

AgentsOf(i) ==
  CASE i = "vuln_lookup"  -> <<"systems">>
    [] i = "attack_path"  -> <<"offensive">>
    [] i = "coverage_map" -> <<"defensive">>
    [] i = "mixed"        -> <<"systems", "offensive", "defensive">>

\* The Cypher template an agent runs.
TemplateOf(a) ==
  CASE a = "systems"   -> IF byPlatform THEN "T_SYS_01" ELSE "T_SYS_02"
    [] a = "offensive" -> "T_OFF_01"
    [] a = "defensive" -> "T_DEF_01"

SourcesOf(a) ==
  CASE a = "systems" -> {"NVD"} [] a = "offensive" -> {"CAPEC", "ATTACK"}
    [] a = "defensive" -> {"D3FEND", "CAR", "SHIELD", "ENGAGE"}

Sources == UNION {SourcesOf(a) : a \in {"systems", "offensive", "defensive"}}

NoAnswer == [kind |-> "none", items |-> {}, sources |-> [s \in {} |-> {}],
             confidence |-> <<0, 1>>, warned |-> FALSE]
Failed   == [NoAnswer EXCEPT !.kind = "failed"]
Nothing  == [NoAnswer EXCEPT !.kind = "nothing"]

NoData    == [systems |-> << >>, offensive |-> NoTechniques, defensive |-> NoCoverage]
NoSources == [s \in Sources |-> {}]

Init ==
  /\ intent = "none" /\ byPlatform = FALSE
  /\ agent = 1 /\ pass = "done" /\ rows = << >> /\ row = 1
  /\ data = NoData /\ sources = NoSources /\ scores = << >>
  /\ answer = NoAnswer

Agent == AgentsOf(intent)[agent]

\* A request reaches its first agent.
Start ==
  /\ intent = "none"
  /\ intent' \in Intents
  /\ byPlatform' \in IF intent' \in {"vuln_lookup", "mixed"} THEN BOOLEAN ELSE {FALSE}
  /\ pass' = "query"
  /\ UNCHANGED <<agent, rows, row, data, sources, scores, answer>>

\* The query returns; without rows the response is empty, and for a single intent so
\* is the answer.  (A mixed answer with an empty response is an error.)
Query ==
  /\ pass = "query"
  /\ rows' \in Results[TemplateOf(Agent)]
  /\ intent = "mixed" => Len(rows') <= MaxMixedRows
  /\ row' = 1
  /\ IF rows' # << >>
       THEN pass' = "transform" /\ UNCHANGED answer
       ELSE pass' = "done" /\ answer' = IF intent = "mixed" THEN Failed ELSE Nothing
  /\ UNCHANGED <<intent, byPlatform, agent, data, sources, scores>>

\* One iteration of the transformer's loop, or its end.
Transform ==
  /\ pass = "transform"
  /\ IF row <= Len(rows)
       THEN /\ data' = [data EXCEPT ![Agent] =
                 CASE Agent = "systems"   -> AddVulnerability(@, rows[row], byPlatform)
                   [] Agent = "offensive" -> AddTechnique(@, rows[row])
                   [] Agent = "defensive" -> AddCoverage(@, rows[row])]
            /\ row' = row + 1
            /\ UNCHANGED pass
       ELSE pass' = "provenance" /\ row' = 1 /\ UNCHANGED data
  /\ UNCHANGED <<intent, byPlatform, agent, rows, sources, scores, answer>>

SourcesIn(a, r) ==
  CASE a = "systems"   -> VulnerabilitySources(r)
    [] a = "offensive" -> TechniqueSources(r)
    [] a = "defensive" -> CoverageSources(r)

\* One iteration of extract_provenance, which goes over the same rows, or its end.
Trace ==
  /\ pass = "provenance"
  /\ IF row <= Len(rows)
       THEN /\ sources' = [s \in Sources |->
                 IF s \in SourcesOf(Agent)
                 THEN sources[s] \cup SourcesIn(Agent, rows[row])[s] ELSE sources[s]]
            /\ row' = row + 1
            /\ UNCHANGED pass
       ELSE pass' = "respond" /\ UNCHANGED <<row, sources>>
  /\ UNCHANGED <<intent, byPlatform, agent, rows, data, scores, answer>>

\* The sources of S that get a provenance entry.
Cited(S) == {s \in S : sources[s] # {}}

\* The systems and the offensive agent count every hop as taken and no data as stale.
Confidence ==
  IF Agent = "defensive" THEN CoverageScore(Cardinality(Cited(SourcesOf(Agent))))
  ELSE Score(Len(rows), 3, 3, FALSE)

\* The envelope is validated: without provenance it becomes an error, which ends the
\* request; otherwise the next agent is asked, if there is one.
Respond ==
  /\ pass = "respond"
  /\ IF Cited(SourcesOf(Agent)) = {}
       THEN /\ answer' = Failed
            /\ pass' = "done"
            /\ UNCHANGED <<agent, scores>>
       ELSE /\ scores' = Append(scores, Confidence)
            /\ IF agent < Len(AgentsOf(intent))
                 THEN agent' = agent + 1 /\ pass' = "query"
                 ELSE pass' = "render" /\ UNCHANGED agent
            /\ UNCHANGED answer
  /\ UNCHANGED <<intent, byPlatform, rows, row, data, sources>>

Total == LET sum[n \in 0..Len(scores)] == IF n = 0 THEN 0 ELSE sum[n - 1] + scores[n]
         IN  sum[Len(scores)]

\* render(), for an ok response: data, provenance and confidence; the confidence of a
\* mixed answer is the average.
Render ==
  /\ pass = "render"
  /\ answer' =
       [kind |-> "answer",
        items |-> CASE intent = "vuln_lookup"  -> VulnerabilityItems(data.systems)
                    [] intent = "attack_path"  -> AttackItems(data.offensive)
                    [] intent = "coverage_map" -> CoverageItems(data.defensive)
                    [] intent = "mixed" ->
                         MixedItems(data.systems, data.offensive, data.defensive),
        sources |-> [s \in Cited(Sources) |-> sources[s]],
        confidence |-> <<Total, 10 * Len(scores)>>,
        warned |-> LowConfidence(Total, 10 * Len(scores))]
  /\ pass' = "done"
  /\ UNCHANGED <<intent, byPlatform, agent, rows, row, data, sources, scores>>

\* The next request starts from nothing.
Finish ==
  /\ intent # "none" /\ pass = "done"
  /\ intent' = "none" /\ byPlatform' = FALSE
  /\ agent' = 1 /\ rows' = << >> /\ row' = 1
  /\ data' = NoData /\ sources' = NoSources /\ scores' = << >>
  /\ answer' = NoAnswer
  /\ UNCHANGED pass

Next == Start \/ Query \/ Transform \/ Trace \/ Respond \/ Render \/ Finish

Spec == Init /\ [][Next]_vars

----------------------------------------------------------------------------
(* Properties *)

NoDuplicates(list) == Cardinality(ToSet(list)) = Len(list)

\* Every variable has its type, and nothing is listed twice: not a vulnerability or its
\* scores and platforms, not a technique or its tactics, not a path, not a control
\* (the joins of the queries repeat all of them; the transformers deduplicate).
AnswersTypeOK ==
  /\ intent \in Intents \cup {"none"} /\ byPlatform \in BOOLEAN
  /\ agent \in 1..3 /\ row \in 1..Len(rows) + 1 /\ Len(scores) <= 3
  /\ pass \in {"query", "transform", "provenance", "respond", "render", "done"}
  /\ answer.kind \in {"none", "failed", "nothing", "answer"}
  /\ NoDuplicates([n \in DOMAIN data.systems |-> data.systems[n].cve])
  /\ \A v \in ToSet(data.systems) :
       NoDuplicates(v.scores) /\ NoDuplicates(v.platforms) /\ NoDuplicates(v.resolved)
  /\ NoDuplicates([n \in DOMAIN data.offensive.techniques |->
                     data.offensive.techniques[n].id])
  /\ \A t \in ToSet(data.offensive.techniques) :
       NoDuplicates(t.capec) /\ NoDuplicates(t.tactics) /\ NoDuplicates(t.subs)
  /\ NoDuplicates(data.offensive.paths)
  /\ \A list \in {data.defensive.mitigations, data.defensive.detections,
                   data.defensive.deceptions} : NoDuplicates(list)
  /\ NoDuplicates([n \in DOMAIN data.defensive.engagements |->
                     EngagementKey(data.defensive.engagements[n])])

\* The rows the transformer has been over.
Transformed == {n \in DOMAIN rows : pass = "transform" => n < row}

\* What vulnerability v is to be made of: its own rows, whichever other rows stand
\* between them, and the first weakness of theirs that is more than {}.
VulnerabilityComputed(v, rs, own, enriched) ==
  LET weak       == {n \in own : rs[n].weakness \notin {None, Bare}}
      applicable == UNION {ToSet(rs[n].applicability) : n \in own}
  IN  /\ own # {}
      /\ IF weak = {}
         THEN v.weakness = IF \E n \in own : rs[n].weakness = Bare THEN Bare ELSE None
         ELSE \E n \in weak : v.weakness = rs[n].weakness /\ \A k \in weak : n <= k
      /\ ToSet(v.scores) = UNION {IdsIn(rs[n].scores) : n \in own}
      /\ ToSet(v.platforms) =
           IF enriched THEN {rs[n].configuration : n \in own} \ {None, Anon} ELSE {}
      /\ v.applicability = UNION {PathsOf(a) : a \in applicable}
      /\ ToSet(v.resolved) =
           (IF enriched THEN UNION {IdsIn(rs[n].matches) : n \in own} ELSE {})
             \cup ({ResolvedBy(a) : a \in applicable} \ {None})

VulnerabilitiesComputed(list, rs, done, enriched) ==
  /\ {v.cve : v \in ToSet(list)} = {rs[n].cve : n \in done} \ {Anon}
  /\ \A v \in ToSet(list) :
       VulnerabilityComputed(v, rs, {n \in done : rs[n].cve = v.cve}, enriched)

TechniqueComputed(t, rs, own) ==
  /\ own # {}
  /\ ToSet(t.capec) = {rs[n].ap : n \in own} \ {None, Anon}
  /\ ToSet(t.tactics) = {rs[n].tactic : n \in own} \ {None, Anon}
  /\ ToSet(t.subs) = {rs[n].sub : n \in own} \ {None, Anon}

TechniquesComputed(attack, rs, done) ==
  /\ {t.id : t \in ToSet(attack.techniques)} = {rs[n].t : n \in done} \ {Anon}
  /\ \A t \in ToSet(attack.techniques) :
       TechniqueComputed(t, rs, {n \in done : rs[n].t = t.id})
  /\ ToSet(attack.paths) = {AttackPath(rs[n]) : n \in {k \in done : rs[k].t # Anon}}

CoverageComputed(coverage, rs, done) ==
  /\ ToSet(coverage.mitigations) = UNION {IdsIn(rs[n].mitigations) : n \in done}
  /\ ToSet(coverage.detections) = UNION {IdsIn(rs[n].detections) : n \in done}
  /\ ToSet(coverage.deceptions) = UNION {IdsIn(rs[n].deceptions) : n \in done}
  /\ {EngagementKey(e) : e \in ToSet(coverage.engagements)} =
       UNION {CoverageSources(rs[n])["ENGAGE"] : n \in done}

\* The loop over the rows computes, for every prefix, what the rows say as a set: each
\* vulnerability and technique has what its own rows bring and nothing of another's,
\* the paths are those of the rows with all three nodes, and only the weakness depends
\* on the order of the rows (transform_* of the three agents).
LoopsComputeData ==
  (intent # "none" /\ pass \in {"transform", "provenance", "respond"}) =>
    CASE Agent = "systems" ->
           VulnerabilitiesComputed(data.systems, rows, Transformed, byPlatform)
      [] Agent = "offensive" -> TechniquesComputed(data.offensive, rows, Transformed)
      [] Agent = "defensive" -> CoverageComputed(data.defensive, rows, Transformed)

\* What agent a has answered is complete: it is not at work on it.
Complete(a) == ~(intent # "none" /\ pass \in {"transform", "provenance"} /\ Agent = a)

\* Two loops over the same rows, with different conditions for skipping one, agree: the
\* provenance names exactly the vulnerabilities, techniques and controls in the data.
\* Of the attack patterns it names all that a technique has, and more only from rows
\* whose technique has no id (extract_provenance of the three agents).
ProvenanceMatchesData ==
  /\ Complete("systems") =>
       sources["NVD"] = {v.cve : v \in ToSet(data.systems)}
  /\ Complete("offensive") =>
       LET patterns == UNION {ToSet(t.capec) : t \in ToSet(data.offensive.techniques)}
       IN  /\ sources["ATTACK"] = {t.id : t \in ToSet(data.offensive.techniques)}
           /\ patterns \subseteq sources["CAPEC"]
           /\ (intent # "none" /\ pass = "respond" /\ Agent = "offensive") =>
                sources["CAPEC"] \ patterns \subseteq
                  {rows[n].ap : n \in {k \in DOMAIN rows : rows[k].t = Anon}}
  /\ Complete("defensive") =>
       /\ sources["D3FEND"] = ToSet(data.defensive.mitigations)
       /\ sources["CAR"] = ToSet(data.defensive.detections)
       /\ sources["SHIELD"] = ToSet(data.defensive.deceptions)
       /\ sources["ENGAGE"] = {EngagementKey(e) : e \in ToSet(data.defensive.engagements)}

\* The ids an answer shows in a section.
Shown(section) == {item[2] : item \in {i \in answer.items : i[1] = section}}

\* The ids an answer cites of a source.
CitedIds(s) == IF s \in DOMAIN answer.sources THEN answer.sources[s] ELSE {}

\* What is shown and what is cited are the same, section by section (an engagement known
\* by another id than its activity's is shown as "?"); a link leads to a technique that
\* is cited; the confidence lacks a tenth for every framework that is not cited and
\* nothing else, so that no answer carries the low-confidence warning
\* (response_renderer.py rules 1, 2 and 4).
ShownIsSourced ==
  answer.kind = "answer" =>
    /\ Shown("vulnerability") = CitedIds("NVD")
    /\ Shown("technique") = CitedIds("ATTACK")
    /\ Shown("mitigation") = CitedIds("D3FEND")
    /\ Shown("detection") = CitedIds("CAR")
    /\ Shown("deception") = CitedIds("SHIELD")
    /\ Shown("engagement") \ {Unknown} \subseteq CitedIds("ENGAGE")
    /\ Shown("engagement") = {} <=> CitedIds("ENGAGE") = {}
    /\ \A i \in answer.items : i[1] = "link" => i[4] \in CitedIds("ATTACK")
    /\ DOMAIN answer.sources # {}
    /\ LET missing == IF intent \in {"coverage_map", "mixed"}
                      THEN SourcesOf("defensive") \ DOMAIN answer.sources ELSE {}
       IN  answer.confidence[2] - answer.confidence[1] = Cardinality(missing)
    /\ ~answer.warned

\* The causal links of an answer name weakness, pattern and technique of each path
\* (agents/offensive/README.md and rule 5 of response_renderer.py: links are rendered
\* from the attack_paths data).  The code does not do this.
CausalLinksNamed ==
  (answer.kind = "answer" /\ intent = "attack_path") =>
    \A path \in ToSet(data.offensive.paths) :
      path.pattern # None =>
        <<"link", path.weakness, path.pattern, path.technique>> \in answer.items
=============================================================================
