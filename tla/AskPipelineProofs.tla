------------------------- MODULE AskPipelineProofs -------------------------
(***************************************************************************)
(* POST /ask, for every set of identifiers, every way to write and to      *)
(* normalise them, every prompt that mentions any number of them, and every*)
(* set of banned keywords.                                                 *)
(***************************************************************************)
EXTENDS AskPipeline, TLAPS

----------------------------------------------------------------------------
(* The classifier and the extractor *)

(* An intent is one of the four that are supported, or there is none. *)
LEMMA ClassifiedIsIntent ==
  ASSUME NEW p
  PROVE  Classified(p) \in ValidIntents \cup {"none"}
<1>1. EntityFirstIntent(p) \in ValidIntents
  BY DEF EntityFirstIntent, ValidIntents
<1>2. GeneralIntent(p) \in ValidIntents \cup {"none"}
  BY DEF GeneralIntent, ValidIntents
<1> QED
  BY <1>1, <1>2 DEF Classified, ValidIntents

\* The kinds an intent has a use for.
UsableKinds(i) == {Priority(i)[n] : n \in DOMAIN Priority(i)}

(* They are fields that the router requires one of, and kinds that are extracted. *)
LEMMA PriorityIs ==
  ASSUME NEW i \in ValidIntents
  PROVE  /\ DOMAIN Priority(i) \in {{1}, {1, 2}, {1, 2, 3}}
         /\ UsableKinds(i) =
              CASE i \in {"vuln_lookup", "mixed"} -> {"matchCriteriaId", "cveId", "cpeName"}
                [] i = "attack_path"              -> {"cveId", "cweId"}
                [] i = "coverage_map"             -> {"attackId"}
         /\ UsableKinds(i) \subseteq Kinds \cap RequiredFields(i)
<1>1. CASE i \in {"vuln_lookup", "mixed"}
  <2>1. Priority(i) = <<"matchCriteriaId", "cveId", "cpeName">>
    BY <1>1 DEF Priority
  <2>2. UsableKinds(i) = {"matchCriteriaId", "cveId", "cpeName"}
    BY <2>1 DEF UsableKinds
  <2>3. RequiredFields(i) = LookupKeys
    BY <1>1 DEF RequiredFields
  <2> QED
    BY <1>1, <2>1, <2>2, <2>3 DEF Kinds, LookupKeys
<1>2. CASE i = "attack_path"
  <2>1. Priority(i) = <<"cweId", "cveId">>
    BY <1>2 DEF Priority
  <2>2. UsableKinds(i) = {"cveId", "cweId"}
    BY <2>1 DEF UsableKinds
  <2>3. RequiredFields(i) = {"cveId", "cweId"}
    BY <1>2 DEF RequiredFields
  <2> QED
    BY <1>2, <2>1, <2>2, <2>3 DEF Kinds
<1>3. CASE i = "coverage_map"
  <2>1. Priority(i) = <<"attackId">>
    BY <1>3 DEF Priority
  <2>2. UsableKinds(i) = {"attackId"}
    BY <2>1 DEF UsableKinds
  <2>3. RequiredFields(i) = {"attackId"}
    BY <1>3 DEF RequiredFields
  <2> QED
    BY <1>3, <2>1, <2>2, <2>3 DEF Kinds
<1> QED
  BY <1>1, <1>2, <1>3 DEF ValidIntents

(* The least number of a set of some of 1, 2 and 3. *)
LEMMA MinOfFew ==
  ASSUME NEW S \in SUBSET {1, 2, 3}, S # {}
  PROVE  Min(S) \in S
<1>1. PICK x \in S : \A y \in S : x <= y
  <2>1. CASE 1 \in S
    BY <2>1
  <2>2. CASE 1 \notin S /\ 2 \in S
    BY <2>2
  <2>3. CASE 1 \notin S /\ 2 \notin S
    <3>1. S = {3}
      BY <2>3
    <3> QED
      BY <3>1
  <2> QED
    BY <2>1, <2>2, <2>3
<1> QED
  BY <1>1 DEF Min

(* A payload is one identifier of a kind that the intent uses and the prompt mentions; *)
(* it is there whenever the prompt mentions such a kind.                                *)
LEMMA ExtractedIs ==
  ASSUME NEW p, NEW i \in ValidIntents
  PROVE  /\ \/ Extracted(p, i) = EmptyPayload
            \/ \E k \in UsableKinds(i) :
                 Mentions(p, k) /\ Extracted(p, i) = Only(k, Canonical[p.mentions[k][1]])
         /\ (\E k \in UsableKinds(i) : Mentions(p, k)) => Extracted(p, i) # EmptyPayload
<1> DEFINE usable == {n \in DOMAIN Priority(i) : Mentions(p, Priority(i)[n])}
<1>1. CASE usable = {}
  <2>1. Extracted(p, i) = EmptyPayload
    BY <1>1 DEF Extracted
  <2>2. ~ \E k \in UsableKinds(i) : Mentions(p, k)
    BY <1>1 DEF UsableKinds
  <2> QED
    BY <2>1, <2>2
<1>2. CASE usable # {}
  <2>1. Min(usable) \in usable
    <3>1. usable \in SUBSET {1, 2, 3}
      BY PriorityIs
    <3> HIDE DEF usable
    <3> QED
      BY <1>2, <3>1, MinOfFew
  <2>2. PICK k : k = Priority(i)[Min(usable)]
    OBVIOUS
  <2>3. k \in UsableKinds(i) /\ Mentions(p, k)
    BY <2>1, <2>2 DEF UsableKinds
  <2>4. Extracted(p, i) = Only(k, Canonical[p.mentions[k][1]])
    BY <1>2, <2>2 DEF Extracted
  <2>5. PICK v : v = Canonical[p.mentions[k][1]]
    OBVIOUS
  <2>6. Only(k, v) # EmptyPayload
    <3>1. DOMAIN Only(k, v) = {k} /\ DOMAIN EmptyPayload = {}
      BY DEF Only, EmptyPayload
    <3> QED
      BY <3>1
  <2> QED
    BY <2>3, <2>4, <2>5, <2>6
<1> QED
  BY <1>1, <1>2

(* With a vulnerability in it, a prompt has an intent, and one that finds something to *)
(* ask about (intent_classifier.py:228).                                                *)
LEMMA CveGivesIntent ==
  ASSUME NEW p, Mentions(p, "cveId")
  PROVE  /\ Classified(p) \in ValidIntents
         /\ \E k \in UsableKinds(Classified(p)) : Mentions(p, k)
<1>1. "vuln" \in Domains(p)
  BY DEF Domains
<1>2. Classified(p) # "none"
  <2>1. EntityFirstIntent(p) # "none"
    BY DEF EntityFirstIntent
  <2>2. GeneralIntent(p) # "none"
    BY <1>1 DEF GeneralIntent
  <2> QED
    BY <2>1, <2>2 DEF Classified
<1>3. Classified(p) \in ValidIntents
  BY <1>2, ClassifiedIsIntent
<1>4. CASE Classified(p) # "coverage_map"
  <2>1. "cveId" \in UsableKinds(Classified(p))
    BY <1>3, <1>4, PriorityIs DEF ValidIntents
  <2> QED
    BY <1>3, <2>1
<1>5. CASE Classified(p) = "coverage_map"
  <2>1. ~p.words.phrase
    BY <1>5 DEF Classified
  <2>2. ~EntityFirst(p)
    <3>1. EntityFirstIntent(p) # "coverage_map"
      BY DEF EntityFirstIntent
    <3> QED
      BY <1>5, <2>1, <3>1 DEF Classified
  <2>3. GeneralIntent(p) = "coverage_map"
    BY <1>5, <2>1, <2>2 DEF Classified
  <2>4. Domains(p) # {"vuln", "attack", "defense"} /\ Domains(p) # {"vuln", "attack"}
    BY <2>3 DEF GeneralIntent
  <2>5. "attack" \notin Domains(p)
    BY <1>1, <2>4 DEF Domains
  <2>6. ~Mentions(p, "cweId")
    BY <2>5 DEF Domains
  <2>7. Mentions(p, "attackId")
    BY <2>2, <2>6 DEF EntityFirst
  <2>8. "attackId" \in UsableKinds(Classified(p))
    BY <1>3, <1>5, PriorityIs
  <2> QED
    BY <1>3, <2>7, <2>8
<1> QED
  BY <1>4, <1>5

----------------------------------------------------------------------------
(* What the agents accept *)

(* A payload of one usable identifier passes the router, and the first agent accepts it *)
(* unless it is the offensive agent asked about a vulnerability.                         *)
LEMMA OneKindAccepted ==
  ASSUME NEW i \in ValidIntents, NEW k \in UsableKinds(i), NEW v, v \notin {Blank, Malformed},
         NEW q, q = Only(k, v)
  PROVE  /\ PayloadAccepted(i, q) /\ FieldsValid(i, q)
         /\ \/ Accepts(IntentToAgent[Plan(i)[1]], q)
            \/ i = "attack_path" /\ Has(q, "cveId")
<1>1. DOMAIN q = {k} /\ q[k] = v /\ k \in RequiredFields(i)
  BY PriorityIs DEF Only
<1>2. PayloadAccepted(i, q) /\ FieldsValid(i, q)
  BY <1>1 DEF PayloadAccepted, Has, FieldsValid
<1>3. CASE i \in {"vuln_lookup", "mixed"}
  <2>1. IntentToAgent[Plan(i)[1]] = "systems"
    BY <1>3 DEF IntentToAgent, Plan, MixedIntentSequence
  <2>2. k \in {"matchCriteriaId", "cveId", "cpeName"}
    BY <1>3, PriorityIs
  <2>3. PICK n \in 1..4 : {m \in DOMAIN TemplateOrder : Has(q, TemplateOrder[m])} = {n}
                          /\ TemplateOrder[n] = k
    <3>1. CASE k = "matchCriteriaId"
      <4>1. {m \in DOMAIN TemplateOrder : Has(q, TemplateOrder[m])} = {1}
        BY <1>1, <3>1 DEF TemplateOrder, Has
      <4> QED
        BY <3>1, <4>1 DEF TemplateOrder
    <3>2. CASE k = "cpeName"
      <4>1. {m \in DOMAIN TemplateOrder : Has(q, TemplateOrder[m])} = {2}
        BY <1>1, <3>2 DEF TemplateOrder, Has
      <4> QED
        BY <3>2, <4>1 DEF TemplateOrder
    <3>3. CASE k = "cveId"
      <4>1. {m \in DOMAIN TemplateOrder : Has(q, TemplateOrder[m])} = {4}
        BY <1>1, <3>3 DEF TemplateOrder, Has
      <4> QED
        BY <3>3, <4>1 DEF TemplateOrder
    <3> QED
      BY <2>2, <3>1, <3>2, <3>3
  <2>4. Min({n}) = n
    BY DEF Min
  <2>5. TemplateKey(q) = k
    BY <2>3, <2>4 DEF TemplateKey
  <2>6. Truthy(q, k)
    BY <1>1 DEF Truthy
  <2>7. k \in LookupKeys /\ Has(q, k)
    BY <1>1, <2>2 DEF LookupKeys, Has
  <2> QED
    BY <1>2, <2>1, <2>5, <2>6, <2>7 DEF Accepts
<1>4. CASE i = "attack_path"
  <2>1. IntentToAgent[Plan(i)[1]] = "offensive"
    BY <1>4 DEF IntentToAgent, Plan
  <2>2. k \in {"cveId", "cweId"}
    BY <1>4, PriorityIs
  <2>3. k = "cweId" => Truthy(q, "cweId")
    BY <1>1 DEF Truthy
  <2>4. k = "cveId" => Has(q, "cveId")
    BY <1>1 DEF Has
  <2> QED
    BY <1>2, <1>4, <2>1, <2>2, <2>3, <2>4 DEF Accepts
<1>5. CASE i = "coverage_map"
  <2>1. IntentToAgent[Plan(i)[1]] = "defensive"
    BY <1>5 DEF IntentToAgent, Plan
  <2>2. k = "attackId"
    BY <1>5, PriorityIs
  <2>3. Truthy(q, "attackId") /\ q["attackId"] # Malformed
    BY <1>1, <2>2 DEF Truthy
  <2> QED
    BY <1>2, <2>1, <2>3 DEF Accepts
<1> QED
  BY <1>3, <1>4, <1>5 DEF ValidIntents

----------------------------------------------------------------------------
(* The invariant *)

\* The prompt has been understood: it has an intent, one identifier of each kind at most,
\* and one that the intent can use.
Understood ==
  /\ intent = Classified(prompt) /\ intent \in ValidIntents
  /\ ~Ambiguous(prompt)
  /\ payload = Extracted(prompt, intent) /\ payload # EmptyPayload

\* What is known of a request that an exception has ended.
WhyRaised ==
  \/ raised \in {"FactoryError", "SafetyViolationError"} /\ ~Dispatched
  \/ raised = "classifier.UnsupportedQueryError" /\ ~Dispatched
       /\ Classified(prompt) = "none"
  \/ raised = "MultipleEntitiesError" /\ ~Dispatched /\ Ambiguous(prompt)
  \/ raised = "EntityNotFoundError" /\ ~Dispatched
       /\ intent = Classified(prompt) /\ intent \in ValidIntents
       /\ Extracted(prompt, intent) = EmptyPayload
  \/ raised = "OrchestratorTimeoutError" /\ phase = "answered"
       /\ verdict = "timeout" /\ ~O!Finished

\* How a request that is over has ended.
WhyAnswered ==
  \/ http = 200 /\ raised = "none" /\ phase = "answered" /\ verdict \in O!Reported
  \/ http = StatusOf(raised) /\ WhyRaised
  \/ http = 400 /\ raised = "none" /\ ~Dispatched /\ prompt = NoPrompt

\* The values the variables have.
KindsInv ==
  /\ \A k \in Kinds : prompt.mentions[k] \in Seq(Tokens)
  /\ intent \in ValidIntents \cup {"none"}
  /\ payload = EmptyPayload \/ \E k \in Kinds : DOMAIN payload = {k}
  /\ phase \in {"idle", "judging", "working", "answered"}
  /\ reports \in Seq(O!Reported)

\* What each stage knows of the stages before it.
StageInv ==
  /\ stage \in {"idle", "asked", "classifying", "extracting", "checking", "building",
                "executing", "raised", "answered"}
  /\ stage = "idle" => prompt = NoPrompt
  /\ stage \in {"idle", "asked", "classifying", "extracting"} => payload = EmptyPayload
  /\ stage = "extracting" => intent = Classified(prompt) /\ intent \in ValidIntents
  /\ stage \in {"checking", "building"} \/ Dispatched => Understood
  /\ stage = "building" \/ Dispatched => ~Unsafe(prompt, payload)
  /\ Dispatched => stage \in {"executing", "raised", "answered"}
  /\ ~Dispatched => reports = << >> /\ stage # "executing"
  /\ stage = "executing" /\ phase = "answered" => verdict \in O!Reported

AskInv ==
  /\ KindsInv
  /\ StageInv
  /\ stage \notin {"raised", "answered"} => raised = "none"
  /\ stage # "answered" => http = 0
  /\ stage = "raised" => WhyRaised
  /\ stage = "answered" => WhyAnswered

LEMMA AskInit == Init => AskInv
<1> SUFFICES ASSUME Init PROVE AskInv
  OBVIOUS
<1>1. \A k \in Kinds : prompt.mentions[k] \in Seq(Tokens)
  BY DEF Init, NoPrompt
<1>2. KindsInv
  BY <1>1 DEF Init, KindsInv, O!Init
<1>3. StageInv
  BY DEF Init, StageInv, O!Init, Dispatched
<1> QED
  BY <1>2, <1>3 DEF Init, AskInv

(* What is extracted is a payload of one field. *)
LEMMA ExtractedKind ==
  ASSUME NEW p, NEW i \in ValidIntents
  PROVE  Extracted(p, i) = EmptyPayload \/ \E k \in Kinds : DOMAIN Extracted(p, i) = {k}
<1>1. CASE Extracted(p, i) # EmptyPayload
  <2>1. PICK k \in UsableKinds(i) : Extracted(p, i) = Only(k, Canonical[p.mentions[k][1]])
    BY <1>1, ExtractedIs
  <2>2. PICK v : v = Canonical[p.mentions[k][1]]
    OBVIOUS
  <2>3. DOMAIN Only(k, v) = {k}
    BY DEF Only
  <2>4. k \in Kinds
    BY PriorityIs
  <2> QED
    BY <2>1, <2>2, <2>3, <2>4
<1> QED
  BY <1>1

\* A prompt is understood to ask for the identifier t of kind k.
AsksFor(k, t) == prompt.mentions[k] = <<t>> /\ payload = Only(k, Canonical[t])

(* A prompt that is understood asks for one identifier it mentions, the only one of its *)
(* kind, and what it asks for is accepted everywhere.                                    *)
LEMMA UnderstoodIs ==
  ASSUME KindsInv, Understood
  PROVE  /\ \E k \in Kinds \cap RequiredFields(intent), t \in Tokens : AsksFor(k, t)
         /\ PayloadAccepted(intent, payload) /\ FieldsValid(intent, payload)
         /\ \/ Accepts(IntentToAgent[Plan(intent)[1]], payload)
            \/ intent = "attack_path" /\ Has(payload, "cveId")
<1>1. intent \in ValidIntents /\ payload = Extracted(prompt, intent) /\ payload # EmptyPayload
  BY DEF Understood
<1>2. PICK k \in UsableKinds(intent) :
        Mentions(prompt, k) /\ Extracted(prompt, intent) = Only(k, Canonical[prompt.mentions[k][1]])
  BY <1>1, ExtractedIs
<1>3. k \in Kinds \cap RequiredFields(intent)
  BY <1>1, PriorityIs
<1>4. PICK l : l = prompt.mentions[k]
  OBVIOUS
<1>5. l \in Seq(Tokens) /\ l # << >>
  BY <1>2, <1>3, <1>4 DEF KindsInv, Mentions
<1>6. ~(Len(l) > 1)
  BY <1>3, <1>4 DEF Understood, Ambiguous
<1>7. l = <<l[1]>> /\ l[1] \in Tokens
  <2>1. Len(l) \in Nat /\ Len(l) # 0
    BY <1>5
  <2>2. Len(l) = 1
    <3>1. PICK n : n = Len(l)
      OBVIOUS
    <3>2. n \in Nat /\ n # 0 /\ ~(n > 1)
      BY <1>6, <2>1, <3>1
    <3> QED
      BY <3>1, <3>2
  <2> QED
    BY <1>5, <2>2
<1>8. PICK t \in Tokens : t = l[1]
  BY <1>7
<1>9. payload = Only(k, Canonical[t])
  BY <1>1, <1>2, <1>4, <1>8
<1>10. AsksFor(k, t)
  BY <1>4, <1>7, <1>8, <1>9 DEF AsksFor
<1>11. PICK v : v = Canonical[t]
  OBVIOUS
<1>12. v \notin {Blank, Malformed}
  BY <1>11, AskAssumption
<1>13. payload = Only(k, v)
  BY <1>9, <1>11
<1>14. /\ PayloadAccepted(intent, payload) /\ FieldsValid(intent, payload)
       /\ \/ Accepts(IntentToAgent[Plan(intent)[1]], payload)
          \/ intent = "attack_path" /\ Has(payload, "cveId")
  BY <1>1, <1>12, <1>13, OneKindAccepted
<1> QED
  BY <1>3, <1>10, <1>14

(* The verdict on reports is one of the reported statuses. *)
LEMMA VerdictReported ==
  ASSUME reports \in Seq(O!Reported), O!Finished
  PROVE  O!Verdict \in O!Reported
<1>1. CASE steps = 1
  <2>1. Len(reports) = 1 \/ reports # << >>
    BY <1>1 DEF O!Finished
  <2>2. reports[1] \in O!Reported
    <3> DEFINE R == O!Reported
    <3>1. reports \in Seq(R)
      OBVIOUS
    <3> HIDE DEF R
    <3>2. reports[1] \in R
      BY <2>1, <3>1
    <3> QED
      BY <3>2 DEF R
  <2> QED
    BY <1>1, <2>2 DEF O!Verdict
<1>2. CASE steps # 1
  BY <1>2 DEF O!Verdict, O!Reported
<1> QED
  BY <1>1, <1>2

(* While the request, its exception and its orchestrator stay as they are, so does what *)
(* is known of them.                                                                     *)
LEMMA KnownStays ==
  ASSUME UNCHANGED <<prompt, intent, payload, phase, steps, reports, verdict>>
  PROVE  /\ KindsInv => KindsInv'
         /\ Understood' = Understood /\ Dispatched' = Dispatched
         /\ Unsafe(prompt, payload)' = Unsafe(prompt, payload)
         /\ raised' = raised => WhyRaised' = WhyRaised
         /\ raised' = raised /\ http' = http => WhyAnswered' = WhyAnswered
<1>1. KindsInv => KindsInv'
  BY DEF KindsInv
<1>2. Understood' = Understood /\ Dispatched' = Dispatched
      /\ Unsafe(prompt, payload)' = Unsafe(prompt, payload)
  BY DEF Understood, Dispatched, Unsafe
<1>3. raised' = raised => WhyRaised' = WhyRaised
  <2>1. O!Finished' = O!Finished
    BY DEF O!Finished
  <2> QED
    BY <2>1 DEF WhyRaised, Dispatched
<1>4. raised' = raised /\ http' = http => WhyAnswered' = WhyAnswered
  BY <1>3 DEF WhyAnswered, Dispatched
<1> QED
  BY <1>1, <1>2, <1>3, <1>4

(* Every step keeps the invariant. *)
LEMMA AskStep == AskInv /\ [Next]_vars => AskInv'
<1> SUFFICES ASSUME AskInv, [Next]_vars PROVE AskInv'
  OBVIOUS
<1>0. KindsInv /\ StageInv
  BY DEF AskInv
<1> USE DEF request, orch
<1>1. CASE Ask
  <2>1. PICK w \in Words, m \in MentionMaps : prompt' = [words |-> w, mentions |-> m]
    BY <1>1 DEF Ask
  <2>2. /\ stage = "idle" /\ stage' = "asked" /\ UNCHANGED <<raised, http>>
        /\ UNCHANGED <<intent, payload, phase, steps, reports, verdict>>
    BY <1>1 DEF Ask, GoTo
  <2>3. prompt'.mentions = m
    BY <2>1
  <2>4. \A k \in Kinds : m[k] \in Seq(Tokens)
    <3>1. \A k \in Kinds : m[k] \in MentionLists[k]
      BY DEF MentionMaps, Kinds
    <3>2. \A k \in Kinds : MentionLists[k] \subseteq Seq(Tokens)
      BY AskAssumption
    <3> QED
      BY <3>1, <3>2
  <2>5. KindsInv'
    BY <1>0, <2>2, <2>3, <2>4 DEF KindsInv
  <2>6. ~Dispatched /\ ~Dispatched'
    BY <1>0, <2>2 DEF StageInv, Dispatched
  <2>7. StageInv'
    BY <1>0, <2>2, <2>6 DEF StageInv
  <2> QED
    BY <2>2, <2>5, <2>7 DEF AskInv
<1>2. CASE RefuseBody
  <2>1. /\ stage = "idle" /\ stage' = "answered" /\ http' = 400
        /\ UNCHANGED <<prompt, intent, payload, raised, phase, steps, reports, verdict>>
    BY <1>2 DEF RefuseBody
  <2>2. /\ KindsInv' /\ Understood' = Understood /\ Dispatched' = Dispatched
        /\ Unsafe(prompt, payload)' = Unsafe(prompt, payload) /\ ~Dispatched
        /\ prompt = NoPrompt /\ raised = "none"
    BY <1>0, <2>1, KnownStays DEF StageInv, AskInv
  <2>3. StageInv'
    BY <1>0, <2>1, <2>2 DEF StageInv
  <2>4. WhyAnswered'
    BY <2>1, <2>2 DEF WhyAnswered
  <2> QED
    BY <2>1, <2>2, <2>3, <2>4 DEF AskInv
<1>3. CASE MakeOrchestrator
  <2>1. /\ stage = "asked" /\ http' = http
        /\ UNCHANGED <<prompt, intent, payload, phase, steps, reports, verdict>>
        /\ \/ stage' = "classifying" /\ raised' = raised
           \/ stage' = "raised" /\ raised' = "FactoryError"
    BY <1>3 DEF MakeOrchestrator, GoTo, Raise
  <2>2. /\ KindsInv' /\ Understood' = Understood /\ Dispatched' = Dispatched
        /\ Unsafe(prompt, payload)' = Unsafe(prompt, payload) /\ ~Dispatched
    BY <1>0, <2>1, KnownStays DEF StageInv
  <2>3. StageInv'
    BY <1>0, <2>1, <2>2 DEF StageInv
  <2>4. stage' = "raised" => WhyRaised'
    BY <2>1, <2>2 DEF WhyRaised
  <2> QED
    BY <2>1, <2>2, <2>3, <2>4 DEF AskInv
<1>4. CASE Classify
  <2>1. /\ stage = "classifying" /\ http' = http /\ intent' = Classified(prompt)
        /\ UNCHANGED <<prompt, payload, phase, steps, reports, verdict>>
        /\ \/ intent' # "none" /\ stage' = "extracting" /\ raised' = raised
           \/ /\ intent' = "none" /\ stage' = "raised"
              /\ raised' = "classifier.UnsupportedQueryError"
    BY <1>4 DEF Classify, GoTo, Raise
  <2>2. ~Dispatched /\ ~Dispatched'
    BY <1>0, <2>1 DEF StageInv, Dispatched
  <2>3. intent' \in ValidIntents \cup {"none"}
    BY <2>1, ClassifiedIsIntent
  <2>4. KindsInv'
    BY <1>0, <2>1, <2>3 DEF KindsInv
  <2>5. StageInv'
    BY <1>0, <2>1, <2>2, <2>3 DEF StageInv
  <2>6. stage' = "raised" => WhyRaised'
    BY <2>1, <2>2 DEF WhyRaised
  <2> QED
    BY <2>1, <2>4, <2>5, <2>6 DEF AskInv
<1>5. CASE Extract
  <2>1. stage = "extracting" /\ http' = http /\ ~Dispatched
        /\ UNCHANGED <<prompt, intent, phase, steps, reports, verdict>>
        /\ intent = Classified(prompt) /\ intent \in ValidIntents
    BY <1>0, <1>5 DEF Extract, GoTo, Raise, StageInv
  <2>2. ~Dispatched'
    BY <2>1 DEF Dispatched
  <2>3. CASE Ambiguous(prompt)
    <3>1. stage' = "raised" /\ raised' = "MultipleEntitiesError" /\ payload' = payload
      BY <1>5, <2>3 DEF Extract, Raise
    <3>2. KindsInv'
      BY <1>0, <2>1, <3>1 DEF KindsInv
    <3>3. StageInv'
      BY <1>0, <2>1, <2>2, <3>1 DEF StageInv
    <3>4. WhyRaised'
      BY <2>1, <2>2, <2>3, <3>1 DEF WhyRaised
    <3> QED
      BY <2>1, <3>1, <3>2, <3>3, <3>4 DEF AskInv
  <2>4. CASE ~Ambiguous(prompt)
    <3>1. /\ payload' = Extracted(prompt, intent)
          /\ \/ /\ payload' = EmptyPayload /\ stage' = "raised"
                /\ raised' = "EntityNotFoundError"
             \/ payload' # EmptyPayload /\ stage' = "checking" /\ raised' = raised
      BY <1>5, <2>4 DEF Extract, GoTo, Raise
    <3>2. payload' = EmptyPayload \/ \E k \in Kinds : DOMAIN payload' = {k}
      BY <2>1, <3>1, ExtractedKind
    <3>3. KindsInv'
      BY <1>0, <2>1, <3>2 DEF KindsInv
    <3>4. stage' = "checking" => Understood'
      BY <2>1, <2>4, <3>1 DEF Understood
    <3>5. StageInv'
      BY <1>0, <2>1, <2>2, <3>1, <3>4 DEF StageInv
    <3>6. stage' = "raised" => WhyRaised'
      BY <2>1, <2>2, <3>1 DEF WhyRaised
    <3> QED
      BY <2>1, <3>1, <3>3, <3>5, <3>6 DEF AskInv
  <2> QED
    BY <2>3, <2>4
<1>6. CASE Check
  <2>1. stage = "checking" /\ http' = http
        /\ UNCHANGED <<prompt, intent, payload, phase, steps, reports, verdict>>
    BY <1>6 DEF Check, GoTo, Raise
  <2>2. /\ KindsInv' /\ Understood' = Understood /\ Dispatched' = Dispatched
        /\ Unsafe(prompt, payload)' = Unsafe(prompt, payload)
        /\ ~Dispatched /\ Understood
    BY <1>0, <2>1, KnownStays DEF StageInv
  <2>3. \/ Unsafe(prompt, payload) /\ stage' = "raised" /\ raised' = "SafetyViolationError"
        \/ ~Unsafe(prompt, payload) /\ stage' = "building" /\ raised' = raised
    BY <1>6, <2>2 DEF Check, GoTo, Raise, Understood
  <2>4. StageInv'
    BY <1>0, <2>1, <2>2, <2>3 DEF StageInv
  <2>5. stage' = "raised" => WhyRaised'
    BY <2>2, <2>3 DEF WhyRaised
  <2> QED
    BY <2>1, <2>2, <2>3, <2>4, <2>5 DEF AskInv
<1>7. CASE Build
  <2>1. stage = "building" /\ UNCHANGED <<prompt, intent, payload>>
        /\ Understood /\ ~Unsafe(prompt, payload) /\ reports = << >>
    BY <1>0, <1>7 DEF Build, StageInv
  <2>2. FieldsValid(intent, payload)
    BY <1>0, <2>1, UnderstoodIs
  <2>3. stage' = "executing" /\ UNCHANGED <<raised, http>> /\ O!Receive
    BY <1>7, <2>2 DEF Build, GoTo
  <2>4. phase' = "judging" /\ UNCHANGED <<steps, reports, verdict>>
    BY <2>3 DEF O!Receive
  <2>5. KindsInv'
    BY <1>0, <2>1, <2>4 DEF KindsInv
  <2>6. Understood' /\ ~Unsafe(prompt, payload)'
    BY <2>1 DEF Understood, Unsafe
  <2>7. StageInv'
    BY <1>0, <2>1, <2>3, <2>4, <2>6 DEF StageInv, Dispatched
  <2> QED
    BY <2>1, <2>3, <2>5, <2>7 DEF AskInv
<1>8. CASE Execute
  <2>1. /\ stage = "executing"
        /\ UNCHANGED <<stage, prompt, intent, payload, raised, http>>
        /\ (O!TurnDown \/ O!TakeOn \/ O!Report \/ O!Answer)
    BY <1>8 DEF Execute
  <2>2. Dispatched /\ Understood /\ ~Unsafe(prompt, payload)
    BY <1>0, <2>1 DEF StageInv
  <2>3. Understood' /\ ~Unsafe(prompt, payload)'
    BY <2>1, <2>2 DEF Understood, Unsafe
  <2>4. /\ phase' \in {"working", "answered"}
        /\ reports' = reports \/ \E x \in O!Reported : reports' = Append(reports, x)
        /\ phase' = "answered" => verdict' \in O!Reported
    <3>1. CASE O!TurnDown
      BY <3>1 DEF O!TurnDown, O!Reported
    <3>2. CASE O!TakeOn
      BY <3>2 DEF O!TakeOn
    <3>3. CASE O!Report
      BY <3>3 DEF O!Report
    <3>4. CASE O!Answer
      BY <1>0, <3>4, VerdictReported DEF O!Answer, KindsInv
    <3> QED
      BY <2>1, <3>1, <3>2, <3>3, <3>4
  <2>5. reports' \in Seq(O!Reported)
    <3> DEFINE R == O!Reported
    <3>1. reports \in Seq(R) /\ (reports' = reports \/ \E x \in R : reports' = Append(reports, x))
      BY <1>0, <2>4 DEF KindsInv
    <3> HIDE DEF R
    <3>2. reports' \in Seq(R)
      BY <3>1
    <3> QED
      BY <3>2 DEF R
  <2>6. KindsInv'
    BY <1>0, <2>1, <2>4, <2>5 DEF KindsInv
  <2>7. StageInv'
    BY <1>0, <2>1, <2>3, <2>4 DEF StageInv, Dispatched
  <2> QED
    BY <2>1, <2>6, <2>7 DEF AskInv
<1>9. CASE TimeOut
  <2>1. stage = "executing" /\ stage' = "raised" /\ raised' = "OrchestratorTimeoutError"
        /\ http' = http /\ UNCHANGED <<prompt, intent, payload>>
    BY <1>9 DEF TimeOut, Raise
  <2>2. /\ phase' = "answered" /\ verdict' = "timeout" /\ ~O!Finished
        /\ reports' = reports /\ steps' = steps
    BY <1>9 DEF TimeOut, O!GiveUp
  <2>3. Understood' /\ ~Unsafe(prompt, payload)'
    BY <1>0, <2>1 DEF StageInv, Understood, Unsafe
  <2>4. KindsInv'
    BY <1>0, <2>1, <2>2 DEF KindsInv
  <2>5. StageInv'
    BY <1>0, <2>1, <2>2, <2>3 DEF StageInv, Dispatched
  <2>6. WhyRaised'
    <3>1. ~O!Finished'
      BY <2>2 DEF O!Finished
    <3> QED
      BY <2>1, <2>2, <3>1 DEF WhyRaised
  <2> QED
    BY <2>1, <2>4, <2>5, <2>6 DEF AskInv
<1>10. CASE Render
  <2>1. stage = "executing" /\ phase = "answered" /\ stage' = "answered" /\ http' = 200
        /\ UNCHANGED <<prompt, intent, payload, raised, phase, steps, reports, verdict>>
    BY <1>10 DEF Render
  <2>2. /\ KindsInv' /\ Understood' = Understood /\ Dispatched' = Dispatched
        /\ Unsafe(prompt, payload)' = Unsafe(prompt, payload)
    BY <1>0, <2>1, KnownStays
  <2>3. StageInv'
    BY <1>0, <2>1, <2>2 DEF StageInv
  <2>4. WhyAnswered'
    BY <1>0, <2>1 DEF AskInv, StageInv, WhyAnswered
  <2> QED
    BY <2>1, <2>2, <2>3, <2>4 DEF AskInv
<1>11. CASE Handle
  <2>1. stage = "raised" /\ stage' = "answered" /\ http' = StatusOf(raised)
        /\ UNCHANGED <<prompt, intent, payload, raised, phase, steps, reports, verdict>>
    BY <1>11 DEF Handle
  <2>2. /\ KindsInv' /\ Understood' = Understood /\ Dispatched' = Dispatched
        /\ Unsafe(prompt, payload)' = Unsafe(prompt, payload) /\ WhyRaised' = WhyRaised
    BY <1>0, <2>1, KnownStays
  <2>3. StageInv'
    BY <1>0, <2>1, <2>2 DEF StageInv
  <2>4. WhyAnswered'
    BY <2>1, <2>2 DEF AskInv, WhyAnswered
  <2> QED
    BY <2>1, <2>2, <2>3, <2>4 DEF AskInv
<1>12. CASE Finish
  <2>1. /\ stage' = "idle" /\ prompt' = NoPrompt /\ intent' = "none"
        /\ payload' = EmptyPayload /\ raised' = "none" /\ http' = 0
    BY <1>12 DEF Finish
  <2>2. phase' = "idle" /\ reports' = << >>
    BY <1>0, <1>12 DEF Finish, O!Forget, StageInv, Dispatched
  <2>3. KindsInv'
    BY <2>1, <2>2 DEF KindsInv, NoPrompt
  <2>4. StageInv'
    BY <2>1, <2>2 DEF StageInv, Dispatched
  <2> QED
    BY <2>1, <2>3, <2>4 DEF AskInv
<1>13. CASE UNCHANGED vars
  <2>1. UNCHANGED <<stage, prompt, intent, payload, raised, http, phase, steps, reports, verdict>>
    BY <1>13 DEF vars
  <2>2. /\ KindsInv' /\ Understood' = Understood /\ Dispatched' = Dispatched
        /\ Unsafe(prompt, payload)' = Unsafe(prompt, payload)
        /\ WhyRaised' = WhyRaised /\ WhyAnswered' = WhyAnswered
    BY <1>0, <2>1, KnownStays
  <2>3. StageInv'
    BY <1>0, <2>1, <2>2 DEF StageInv
  <2> QED
    BY <2>1, <2>2, <2>3 DEF AskInv
<1> QED
  BY <1>1, <1>2, <1>3, <1>4, <1>5, <1>6, <1>7, <1>8, <1>9, <1>10, <1>11, <1>12, <1>13
  DEF Next, Process

LEMMA AskInvariant == Spec => []AskInv
  BY AskInit, AskStep, PTL DEF Spec

----------------------------------------------------------------------------
(* What follows from it *)

(* The status of an answer that an exception ended. *)
LEMMA StatusOfRaised ==
  ASSUME WhyRaised
  PROVE  /\ StatusOf(raised) \in {400, 500, 504}
         /\ raised # "OrchestratorTimeoutError" => StatusOf(raised) # 504
         /\ raised = "OrchestratorTimeoutError" => StatusOf(raised) = 504
  BY DEF WhyRaised, StatusOf, BadRequests

(* The variables of /ask keep their types (api.py, llm_adapter.py). *)
THEOREM AskTypes == Spec => []AskTypeOK
<1>1. ASSUME AskInv PROVE AskTypeOK
  <2>1. /\ raised = "none" \/ WhyRaised
        /\ http \in {0, 200, 400} \/ (http = StatusOf(raised) /\ WhyRaised)
    BY <1>1 DEF AskInv, StageInv, WhyAnswered
  <2>2. raised \in Exceptions
    BY <2>1 DEF WhyRaised, Exceptions
  <2>3. http \in {0, 200, 400, 500, 504}
    BY <2>1, StatusOfRaised
  <2> QED
    BY <1>1, <2>2, <2>3 DEF AskInv, KindsInv, StageInv, AskTypeOK
<1> QED
  BY <1>1, AskInvariant, PTL

(* What is asked of the graph is one identifier, the only one of its kind in the prompt, *)
(* in its canonical form and under its own field (entity_extractor.py:13).                *)
THEOREM NothingInvented == Spec => []AsksOnlyWhatIsSaid
<1>1. AskInv => AsksOnlyWhatIsSaid
  BY UnderstoodIs DEF AskInv, StageInv, AsksOnlyWhatIsSaid, AsksFor
<1> QED
  BY <1>1, AskInvariant, PTL

(* Nothing is executed for a prompt that the safety checker objects to (safety.py). *)
THEOREM UnsafeRefused == Spec => []UnsafeNeverExecuted
<1>1. ASSUME AskInv, Unsafe(prompt, payload)
      PROVE  ~Dispatched /\ http \in {0, 400, 500}
  <2>1. ~Dispatched
    BY <1>1 DEF AskInv, StageInv
  <2>2. stage = "answered" => WhyAnswered
    BY <1>1 DEF AskInv
  <2>3. WhyRaised => raised # "OrchestratorTimeoutError"
    BY <2>1 DEF WhyRaised, Dispatched
  <2>4. WhyAnswered => http \in {400, 500}
    BY <2>1, <2>3, StatusOfRaised DEF WhyAnswered, Dispatched
  <2> QED
    BY <1>1, <2>1, <2>2, <2>4 DEF AskInv
<1>2. AskInv => UnsafeNeverExecuted
  BY <1>1 DEF UnsafeNeverExecuted, Unsafe
<1> QED
  BY <1>2, AskInvariant, PTL

(* What /ask hands over is accepted by the router and by the first agent, but for a       *)
(* vulnerability handed to the offensive agent; the field check of _build_request is dead *)
(* code (llm_adapter.py, router.py, executor.py of the agents).                            *)
THEOREM HandedOverIsAccepted == Spec => []DispatchedIsAccepted
<1>1. ASSUME AskInv PROVE DispatchedIsAccepted
  <2>1. raised = "none" \/ WhyRaised
    BY <1>1 DEF AskInv, StageInv, WhyAnswered
  <2>2. raised \notin {"ValueError", "safety.UnsupportedQueryError"}
    BY <2>1 DEF WhyRaised
  <2>3. Dispatched => Understood /\ KindsInv
    BY <1>1 DEF AskInv, StageInv
  <2> QED
    BY <2>2, <2>3, UnderstoodIs DEF DispatchedIsAccepted
<1> QED
  BY <1>1, AskInvariant, PTL

(* An unambiguous prompt with a vulnerability in it is executed, whatever else it says,   *)
(* unless the factory fails or the safety checker objects (intent_classifier.py:228).     *)
THEOREM CveIsUsable == Spec => []CveAlwaysUsable
<1>1. ASSUME AskInv, stage = "answered", Mentions(prompt, "cveId"), Unambiguous(prompt)
      PROVE  Dispatched \/ raised \in {"FactoryError", "SafetyViolationError"}
  <2>1. prompt # NoPrompt
    BY <1>1 DEF Mentions, NoPrompt, Kinds
  <2>2. ~Ambiguous(prompt)
    <3>1. ASSUME NEW k \in Kinds PROVE ~(Len(prompt.mentions[k]) > 1)
      <4>1. PICK l : l = prompt.mentions[k]
        OBVIOUS
      <4>2. l \in Seq(Tokens) /\ Len(l) <= 1
        BY <1>1, <4>1 DEF AskInv, KindsInv, Unambiguous
      <4>3. ~(Len(l) > 1)
        BY <4>2
      <4> QED
        BY <4>1, <4>3
    <3> QED
      BY <3>1 DEF Ambiguous
  <2>3. /\ Classified(prompt) \in ValidIntents
        /\ \E k \in UsableKinds(Classified(prompt)) : Mentions(prompt, k)
    BY <1>1, CveGivesIntent
  <2>4. Classified(prompt) # "none"
    BY <2>3 DEF ValidIntents
  <2>5. Extracted(prompt, Classified(prompt)) # EmptyPayload
    BY <2>3, ExtractedIs
  <2>6. WhyAnswered
    BY <1>1 DEF AskInv
  <2> QED
    BY <2>1, <2>2, <2>4, <2>5, <2>6 DEF WhyAnswered, WhyRaised, Dispatched
<1>2. AskInv => CveAlwaysUsable
  BY <1>1 DEF CveAlwaysUsable
<1> QED
  BY <1>2, AskInvariant, PTL

(* 200 is an answer of the orchestrator, 504 a deadline that passed before all agents had *)
(* answered and before any had failed, and after 400 or 500 nothing has been executed      *)
(* (api.py:370-400).                                                                        *)
THEOREM StatusTells == Spec => []StatusTellsWhatRan
<1>1. ASSUME AskInv, stage = "answered"
      PROVE  /\ http = 200 => verdict \in O!Reported
             /\ http = 504 => verdict = "timeout" /\ ~O!Finished
             /\ http \in {400, 500} => ~Dispatched
             /\ http # 0
  <2>1. WhyAnswered
    BY <1>1 DEF AskInv
  <2>2. CASE http = StatusOf(raised) /\ WhyRaised
    <3>1. http \in {400, 500, 504}
      BY <2>2, StatusOfRaised
    <3>2. CASE raised = "OrchestratorTimeoutError"
      <4>1. http = 504
        BY <2>2, <3>2, StatusOfRaised
      <4> QED
        BY <2>2, <3>2, <4>1 DEF WhyRaised
    <3>3. CASE raised # "OrchestratorTimeoutError"
      <4>1. http # 504 /\ ~Dispatched
        BY <2>2, <3>3, StatusOfRaised DEF WhyRaised
      <4> QED
        BY <3>1, <4>1
    <3> QED
      BY <3>2, <3>3
  <2>3. CASE http # StatusOf(raised) \/ ~WhyRaised
    BY <2>1, <2>3 DEF WhyAnswered
  <2> QED
    BY <2>2, <2>3
<1>2. AskInv => StatusTellsWhatRan
  BY <1>1 DEF StatusTellsWhatRan
<1> QED
  BY <1>2, AskInvariant, PTL
=============================================================================
