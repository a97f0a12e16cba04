---------------------------- MODULE Transformers ----------------------------
(***************************************************************************)
(* What one row of the graph adds to an agent's data and to its provenance *)
(* (transformers.py of the three agents; each operator is the body of a    *)
(* loop over the rows).                                                    *)
(*                                                                         *)
(* A node is named by its id, None if the row has no such node, and Anon   *)
(* if it is there without the property its id is kept in.  Of a weakness   *)
(* id, abstraction and name are kept: Bare is one that has other           *)
(* properties, but none of these.                                          *)
(***************************************************************************)
EXTENDS Integers, FiniteSets, SequencesExt

CONSTANTS
  None,  \* no such node
  Anon,  \* a node without an id
  Bare,  \* a weakness of which nothing is kept: {} in the data
  Ids    \* the ids of the nodes

ASSUME IdsAssumption ==
  /\ None # Anon /\ Bare \notin {None, Anon}
  /\ None \notin Ids /\ Anon \notin Ids /\ Bare \notin Ids

\* What the queries return.  A node an OPTIONAL MATCH is for may be missing; collect()
\* leaves out what is missing.
OptionalIds == Ids \cup {None, Anon}
NodeIds     == Ids \cup {Anon}
Weaknesses  == OptionalIds \cup {Bare}

ApplicabilityRows ==
  [vc : OptionalIds, vcn : OptionalIds, criterion : OptionalIds, platform : OptionalIds]

VulnerabilityRows ==
  [cve : NodeIds, weakness : Weaknesses, scores : Seq(NodeIds), configuration : OptionalIds,
   matches : Seq(NodeIds), applicability : Seq(ApplicabilityRows)]

TechniqueRows ==
  [w : NodeIds, ap : NodeIds, mapped : OptionalIds, depth : Nat, t : NodeIds,
   tactic : OptionalIds, sub : OptionalIds]

EngagementRows == [activity : OptionalIds, approach : OptionalIds, goal : OptionalIds]

CoverageRows ==
  [mitigations : Seq(NodeIds), detections : Seq(NodeIds), deceptions : Seq(NodeIds),
   engagements : Seq(EngagementRows)]

----------------------------------------------------------------------------
Named(x) == x \notin {None, Anon}

\* The id of a node, None if it has none.
IdOf(x) == IF x \in {Anon, Bare} THEN None ELSE x

\* Mutant: a list that is not deduplicated.
AddAlways(list, x) == IF Named(x) THEN Append(list, x) ELSE list

\* What is in a list already is not appended again.
AddUnique(list, x) == IF Contains(list, x) THEN list ELSE Append(list, x)

\* A node without an id is left out.
AddNew(list, x) == IF Named(x) THEN AddUnique(list, x) ELSE list

AddAll(list, xs) == FoldLeft(AddNew, list, xs)

----------------------------------------------------------------------------
(* Systems: vulnerabilities, in the order they are first seen *)

NewVulnerability(cve) ==
  [cve |-> cve, weakness |-> None, scores |-> << >>, platforms |-> << >>,
   resolved |-> << >>, applicability |-> {}]

\* Mutant: the first weakness wins, even one that is {}.
FirstWeaknessEvenBare(old, new) == IF old = None THEN new ELSE old

\* The first weakness that is not {} wins, even one without an id: what is there is
\* tested for being true, and {} is not.
FirstWeakness(old, new) == IF old \in {None, Bare} /\ new # None THEN new ELSE old

\* The configurations, nodes and criteria of a vulnerability are a tree; here it is the
\* set of its paths.  A record whose four nodes are not all there adds nothing; one with
\* a node without an id adds the path as far as that node.
PathOf(a) ==
  IF a.vc = Anon THEN << >>
  ELSE IF a.vcn = Anon THEN <<a.vc>>
  ELSE IF a.criterion = Anon THEN <<a.vc, a.vcn>>
  ELSE IF Named(a.platform) THEN <<a.vc, a.vcn, a.criterion, a.platform>>
  ELSE <<a.vc, a.vcn, a.criterion>>

PathsOf(a) ==
  IF None \in {a.vc, a.vcn, a.criterion} THEN {}
  ELSE {SubSeq(PathOf(a), 1, n) : n \in 1..Len(PathOf(a))}

ResolvedBy(a) ==
  IF \E p \in PathsOf(a) : Len(p) = 4 THEN a.platform ELSE None

AddApplicability(v, a) ==
  [v EXCEPT !.applicability = @ \cup PathsOf(a), !.resolved = AddNew(@, ResolvedBy(a))]

\* The rows of a lookup by platform carry a configuration and its platforms as well.
Enriched(v, row, byPlatform) ==
  FoldLeft(AddApplicability,
           [v EXCEPT !.weakness  = FirstWeakness(@, row.weakness),
                     !.scores    = AddAll(@, row.scores),
                     !.platforms = IF byPlatform THEN AddNew(@, row.configuration) ELSE @,
                     !.resolved  = IF byPlatform THEN AddAll(@, row.matches) ELSE @],
           row.applicability)

\* A row whose vulnerability has no id is skipped.
AddVulnerability(data, row, byPlatform) ==
  LET seen == {n \in DOMAIN data : data[n].cve = row.cve}
  IN  IF ~Named(row.cve) THEN data
      ELSE IF seen = {}
           THEN Append(data, Enriched(NewVulnerability(row.cve), row, byPlatform))
      ELSE [n \in DOMAIN data |->
              IF n \in seen THEN Enriched(data[n], row, byPlatform) ELSE data[n]]

VulnerabilitySources(row) == [NVD |-> {row.cve} \ {Anon, None}]

----------------------------------------------------------------------------
(* Offensive: techniques, and the paths that lead to them *)

NoTechniques == [techniques |-> << >>, paths |-> << >>]

NewTechnique(t) == [id |-> t, capec |-> << >>, tactics |-> << >>, subs |-> << >>]

Aggregated(tech, row) ==
  [tech EXCEPT !.capec = AddNew(@, row.ap), !.tactics = AddNew(@, row.tactic),
               !.subs = AddNew(@, row.sub)]

\* The technique may be mapped to a parent of the pattern the weakness leads to.
AttackPath(row) ==
  LET source == IdOf(row.ap)
      mapped == IF row.mapped = None THEN source ELSE IdOf(row.mapped)
  IN  [weakness  |-> IdOf(row.w),
       pattern   |-> source,
       technique |-> row.t,
       mapping   |-> IF None \notin {mapped, source} /\ mapped # source
                     THEN "inherited" ELSE "direct",
       parent    |-> IF mapped # source THEN mapped ELSE None,
       depth     |-> row.depth]

\* A row whose technique has no id is skipped.  (The list of techniques is sorted by id
\* at the end; the order in which they are met is kept here.)
AddTechnique(data, row) ==
  LET list == data.techniques
      seen == {n \in DOMAIN list : list[n].id = row.t}
  IN  IF ~Named(row.t) THEN data
      ELSE [techniques |->
              IF seen = {} THEN Append(list, Aggregated(NewTechnique(row.t), row))
              ELSE [n \in DOMAIN list |->
                      IF n \in seen THEN Aggregated(list[n], row) ELSE list[n]],
            paths |->
              IF None \in {row.w, row.ap} THEN data.paths
              ELSE AddUnique(data.paths, AttackPath(row))]

\* Sources are taken from every row, those without a technique included; the parent
\* pattern is not among them.
TechniqueSources(row) ==
  [CAPEC |-> {row.ap} \ {None, Anon}, ATTACK |-> {row.t} \ {None, Anon}]

----------------------------------------------------------------------------
(* Defensive: four lists *)

NoCoverage ==
  [mitigations |-> << >>, detections |-> << >>, deceptions |-> << >>, engagements |-> << >>]

\* activityId or approachId or goalId.
EngagementKey(e) ==
  IF Named(e.activity) THEN e.activity
  ELSE IF Named(e.approach) THEN e.approach
  ELSE e.goal

AddEngagement(list, e) ==
  IF Named(EngagementKey(e)) /\ \A n \in DOMAIN list : EngagementKey(list[n]) # EngagementKey(e)
  THEN Append(list, e) ELSE list

AddCoverage(data, row) ==
  [mitigations |-> AddAll(data.mitigations, row.mitigations),
   detections  |-> AddAll(data.detections, row.detections),
   deceptions  |-> AddAll(data.deceptions, row.deceptions),
   engagements |-> FoldLeft(AddEngagement, data.engagements, row.engagements)]

IdsIn(list) == ToSet(list) \ {None, Anon}

\* Mutant: engagements are known by their activities.
CoverageSourcesByActivity(row) ==
  [D3FEND |-> IdsIn(row.mitigations), CAR |-> IdsIn(row.detections),
   SHIELD |-> IdsIn(row.deceptions),
   ENGAGE |-> {e.activity : e \in ToSet(row.engagements)} \ {None, Anon}]

CoverageSources(row) ==
  [D3FEND |-> IdsIn(row.mitigations), CAR |-> IdsIn(row.detections),
   SHIELD |-> IdsIn(row.deceptions),
   ENGAGE |-> {EngagementKey(e) : e \in ToSet(row.engagements)} \ {None, Anon}]

----------------------------------------------------------------------------
(* ConfidenceScorer.compute and the defensive agent's own score, in tenths *)

\* stale: the age of the data is known and more than a year.
Score(rows, hops, expected, stale) ==
  LET lost == 2 * (IF hops < expected THEN expected - hops ELSE 0)
              + (IF stale THEN 1 ELSE 0)
  IN  IF rows = 0 \/ lost > 10 THEN 0 ELSE 10 - lost

\* A tenth for each of the four frameworks without provenance.
CoverageScore(frameworks) == 10 - (4 - frameworks)
=============================================================================
