---------------------- MODULE OrchestratorAnswerProofs ----------------------
(***************************************************************************)
(* What the agents are asked and what their answers become, for every      *)
(* deadline, every number of retries, every graph and every set of         *)
(* weaknesses, techniques and frameworks; and that the orchestrator keeps  *)
(* the promise of CompositeAnswer.                                         *)
(***************************************************************************)
EXTENDS OrchestratorProofs

----------------------------------------------------------------------------
(* Minima and maxima *)

(* An element below all others is what Min picks. *)
LEMMA MinIs ==
  ASSUME NEW S \in SUBSET Nat, NEW m \in S, \A x \in S : m <= x
  PROVE  Min(S) = m
<1>1. \A x \in S : (\A y \in S : x <= y) => x = m
  OBVIOUS
<1> QED
  BY <1>1 DEF Min

(* The greatest element of a set of one. *)
LEMMA MaxOfOne ==
  ASSUME NEW n \in Nat
  PROVE  Max({n}) = n
  BY DEF Max

(* A set of numbers that is closed under successor and holds 0 holds all of them. *)
LEMMA SetInduction ==
  ASSUME NEW S, 0 \in S, \A n \in Nat : n \in S => n + 1 \in S
  PROVE  \A n \in Nat : n \in S
<1> DEFINE Missing == Nat \ S
<1>1. CASE Missing = {}
  BY <1>1
<1>2. CASE Missing # {}
  <2>1. PICK m \in Missing : \A n \in Missing : ~(n < m)
    <3> DEFINE R == {ss \in Nat \X Nat : ss[1] < ss[2]}
    <3>1. IsWellFoundedOn(R, Nat)
      BY NatLessThanWellFounded DEF OpToRel
    <3>2. PICK m \in Missing : \A n \in Missing : ~(<<n, m>> \in R)
      <4> HIDE DEF R
      <4> QED
        BY <1>2, <3>1, WFMin
    <3> QED
      BY <3>2
  <2>2. m # 0 /\ m - 1 \in Nat
    BY <2>1
  <2>3. m - 1 \in S
    BY <2>1, <2>2
  <2> QED
    BY <2>1, <2>2, <2>3
<1> QED
  BY <1>1, <1>2

----------------------------------------------------------------------------
(* Envelopes *)

\* The section of data and the sources of provenance that are an agent's own.
Section(agent) ==
  CASE agent = "systems"   -> "vulnerabilities"
    [] agent = "offensive" -> "techniques"
    [] agent = "defensive" -> "coverage"

OwnSources(agent) ==
  CASE agent = "systems"   -> {"NVD"}
    [] agent = "offensive" -> {"MITRE CAPEC", "MITRE ATT&CK"}
    [] agent = "defensive" -> Frameworks

\* An ok envelope has the agent's own data with at least one source, each named once,
\* and no error.
Supported(agent, r) ==
  /\ DOMAIN r.data = {Section(agent)}
  /\ r.errors = <<>>
  /\ r.provenance # {}
  /\ \A e \in r.provenance : e.source \in OwnSources(agent)
  /\ \A e, f \in r.provenance : e.source = f.source => e = f

\* Nothing can be read from an envelope that is not ok, and it cites nobody.
Silent(r) == ExtractCweId(r) = NoId /\ ExtractAttackId(r) = NoId

ReplyOf(agent, r) == r.status \in Statuses /\ IF IsOk(r) THEN Supported(agent, r) ELSE Silent(r)

(* The fields of the envelopes that ResponseBuilder makes. *)
LEMMA OtherFields ==
  ASSUME NEW data, NEW errors
  PROVE  /\ EmptyResponse(data).status = "empty" /\ EmptyResponse(data).data = data
         /\ ErrorResponse(errors).status = "error" /\ ErrorResponse(errors).data = NoData
  BY DEF EmptyResponse, ErrorResponse

LEMMA OkFields ==
  ASSUME NEW data, NEW provenance, NEW confidence, NEW r,
         r = OkResponse(data, provenance, confidence)
  PROVE  r.status = "ok" /\ r.data = data /\ r.provenance = provenance /\ r.errors = <<>>
  BY DEF OkResponse

(* An error says nothing. *)
LEMMA ErrorsSilent ==
  ASSUME NEW errors, NEW agent
  PROVE  ReplyOf(agent, ErrorResponse(errors))
<1>1. ErrorResponse(errors).status = "error" /\ ErrorResponse(errors).data = NoData
  BY OtherFields
<1>2. DOMAIN NoData = {}
  BY DEF NoData
<1>3. Silent(ErrorResponse(errors))
  BY <1>1, <1>2 DEF Silent, ExtractCweId, ExtractAttackId
<1> QED
  BY <1>1, <1>3 DEF ReplyOf, IsOk, Statuses

(* Neither does an envelope that reports nothing found. *)
LEMMA EmptiesSilent ==
  ASSUME NEW agent \in Agents
  PROVE  ReplyOf(agent, EmptyEnvelope(agent))
<1>1. PICK d : /\ EmptyEnvelope(agent) = EmptyResponse(d)
               /\ \/ d = [k \in {"vulnerabilities"} |-> <<>>]
                  \/ d = [k \in {"techniques"} |-> {}]
                  \/ d = [k \in {"coverage"} |-> {}]
  BY DEF EmptyEnvelope, Agents
<1>2. EmptyEnvelope(agent).status = "empty" /\ EmptyEnvelope(agent).data = d
  BY <1>1, OtherFields
<1>3. ExtractCweId(EmptyEnvelope(agent)) = NoId
  BY <1>1, <1>2 DEF ExtractCweId
<1>4. ExtractAttackId(EmptyEnvelope(agent)) = NoId
  BY <1>1, <1>2 DEF ExtractAttackId
<1> QED
  BY <1>2, <1>3, <1>4 DEF ReplyOf, IsOk, Silent, Statuses

(* An entry is known by its source. *)
LEMMA EntrySource ==
  ASSUME NEW s, NEW ids, NEW t
  PROVE  Entry(s, ids, t).source = s /\ Entry(s, ids, t).ids = ids
  BY DEF Entry

LEMMA OwnParts ==
  /\ Section("systems") = "vulnerabilities" /\ OwnSources("systems") = {"NVD"}
  /\ Section("offensive") = "techniques"
  /\ OwnSources("offensive") = {"MITRE CAPEC", "MITRE ATT&CK"}
  /\ Section("defensive") = "coverage" /\ OwnSources("defensive") = Frameworks
  BY DEF Section, OwnSources

(* An agent's ok envelope passes validation only with provenance, of its own sources. *)
LEMMA OksSupported ==
  ASSUME NEW agent \in Agents, NEW n, NEW r \in OkResponses(agent, n), r.provenance # {}
  PROVE  ReplyOf(agent, r)
<1>1. SUFFICES r.status = "ok" /\ Supported(agent, r)
  BY DEF ReplyOf, IsOk, Statuses
<1>2. CASE agent = "systems"
  <2>1. PICK w : r = SystemsOk(w)
    BY <1>2 DEF OkResponses
  <2>2. PICK e : e = Entry("NVD", {Given}, Now)
    OBVIOUS
  <2>3. /\ r.status = "ok" /\ r.data = [k \in {"vulnerabilities"} |-> w]
        /\ r.provenance = {e} /\ r.errors = <<>>
    <3>1. PICK d : d = [k \in {"vulnerabilities"} |-> w]
      OBVIOUS
    <3>2. r = OkResponse(d, {e}, <<10, 1>>)
      BY <2>1, <2>2, <3>1, Zenon DEF SystemsOk
    <3> QED
      BY <3>1, <3>2, OkFields
  <2>4. e.source = "NVD"
    BY <2>2, EntrySource
  <2>5. DOMAIN r.data = {"vulnerabilities"}
    BY <2>3
  <2>7. DOMAIN r.data = {Section(agent)}
    BY <1>2, <2>5, OwnParts
  <2>8. \A x \in r.provenance : x.source \in OwnSources(agent)
    BY <1>2, <2>3, <2>4, OwnParts
  <2>9. \A x, y \in r.provenance : x.source = y.source => x = y
    BY <2>3, <2>4
  <2> QED
    BY <2>3, <2>7, <2>8, <2>9 DEF Supported
<1>3. CASE agent = "offensive"
  <2>1. PICK t : r = OffensiveOk(t)
    BY <1>3 DEF OkResponses
  <2>2. PICK e : e = Entry("MITRE CAPEC", {Given}, Now)
    OBVIOUS
  <2>3. PICK f : f = Entry("MITRE ATT&CK", t, Now)
    OBVIOUS
  <2>4. PICK p : p = {e} \cup (IF t = {} THEN {} ELSE {f})
    OBVIOUS
  <2>5. PICK d : d = [k \in {"techniques"} |-> t]
    OBVIOUS
  <2>6. /\ r.status = "ok" /\ r.data = [k \in {"techniques"} |-> t]
        /\ r.provenance = p /\ r.errors = <<>>
    <3>1. r = OkResponse(d, p, <<10, 1>>)
      BY <2>1, <2>2, <2>3, <2>4, <2>5, Zenon DEF OffensiveOk
    <3> QED
      BY <2>5, <3>1, OkFields
  <2>7. e.source = "MITRE CAPEC" /\ f.source = "MITRE ATT&CK"
    <3>1. e.source = "MITRE CAPEC"
      BY <2>2 DEF Entry
    <3>2. f.source = "MITRE ATT&CK"
      BY <2>3 DEF Entry
    <3> QED
      BY <3>1, <3>2
  <2>8. DOMAIN r.data = {"techniques"} /\ p \subseteq {e, f} /\ e \in p
    BY <2>4, <2>6
  <2>9. DOMAIN r.data = {Section(agent)}
    BY <1>3, <2>8, OwnParts
  <2>10. \A x \in r.provenance : x.source \in OwnSources(agent)
    BY <1>3, <2>6, <2>7, <2>8, OwnParts
  <2>11. \A x, y \in r.provenance : x.source = y.source => x = y
    BY <2>6, <2>7, <2>8
  <2> QED
    BY <2>6, <2>9, <2>10, <2>11 DEF Supported
<1>4. CASE agent = "defensive"
  <2>1. PICK fs \in SUBSET Frameworks : r = DefensiveOk(fs)
    BY <1>4 DEF OkResponses
  <2>2. PICK p : p = {Entry(f, {Given}, Now) : f \in fs}
    OBVIOUS
  <2>3. /\ r.status = "ok" /\ r.data = [k \in {"coverage"} |-> fs]
        /\ r.provenance = p /\ r.errors = <<>>
    <3>1. PICK d : d = [k \in {"coverage"} |-> fs]
      OBVIOUS
    <3>2. PICK c : c = <<10 - Cardinality(Frameworks \ fs), 1>>
      OBVIOUS
    <3>3. r = OkResponse(d, p, c)
      BY <2>1, <2>2, <3>1, <3>2, Zenon DEF DefensiveOk
    <3> QED
      BY <3>1, <3>3, OkFields
  <2>4. \A e \in p : e.source \in fs /\ e = Entry(e.source, {Given}, Now)
    <3> SUFFICES ASSUME NEW e \in p
                 PROVE  e.source \in fs /\ e = Entry(e.source, {Given}, Now)
      OBVIOUS
    <3>1. PICK f \in fs : e = Entry(f, {Given}, Now)
      BY <2>2
    <3>2. e.source = f
      BY <3>1, EntrySource
    <3> QED
      BY <3>1, <3>2
  <2>5. \A e, f \in p : e.source = f.source => e = f
    BY <2>4
  <2>6. DOMAIN r.data = {"coverage"} /\ p # {}
    BY <2>3
  <2>7. DOMAIN r.data = {Section(agent)}
    BY <1>4, <2>6, OwnParts
  <2>8. \A x \in r.provenance : x.source \in OwnSources(agent)
    BY <1>4, <2>1, <2>3, <2>4, <2>5, OwnParts
  <2>9. \A x, y \in r.provenance : x.source = y.source => x = y
    BY <2>1, <2>3, <2>4, <2>5
  <2> QED
    BY <2>3, <2>7, <2>8, <2>9 DEF Supported
<1> QED
  BY <1>2, <1>3, <1>4 DEF Agents

(* Whatever the query did, an agent's envelope is supported or silent. *)
LEMMA RepliesOf ==
  ASSUME NEW agent \in Agents, NEW o, NEW r \in Replies(agent, o)
  PROVE  ReplyOf(agent, r)
<1>1. CASE r \in {QueryError, InternalError}
  BY <1>1, ErrorsSilent DEF QueryError, InternalError
<1>2. CASE r = EmptyEnvelope(agent)
  BY <1>2, EmptiesSilent
<1>3. CASE r \in OkResponses(agent, o.rows) /\ r.provenance # {}
  BY <1>3, OksSupported
<1>4. \/ r \in {QueryError, InternalError}
      \/ r = EmptyEnvelope(agent)
      \/ \E q \in OkResponses(agent, o.rows) : r \in Validated(q)
  BY DEF Replies
<1>5. ASSUME NEW q \in OkResponses(agent, o.rows), r \in Validated(q)
      PROVE  r = InternalError \/ (r \in OkResponses(agent, o.rows) /\ r.provenance # {})
  BY <1>5 DEF Validated
<1> QED
  BY <1>1, <1>2, <1>3, <1>4, <1>5

----------------------------------------------------------------------------
(* Payloads *)

\* p is a part of the context c, and not an empty one.
PartOf(p, c) == DOMAIN p # {} /\ \A f \in DOMAIN p : f \in DOMAIN c /\ p[f] = c[f]

(* A payload is a function. *)
LEMMA PayloadIsFunction ==
  ASSUME NEW p \in Payloads
  PROVE  p = [f \in DOMAIN p |-> p[f]]
<1>1. PICK D \in SUBSET Fields : p \in [D -> Values]
  BY DEF Payloads
<1> QED
  BY <1>1

(* The fields and values of an update, and of a payload of one field. *)
LEMMA UpdateFields ==
  ASSUME NEW p, NEW q
  PROVE  /\ DOMAIN Update(p, q) = DOMAIN p \cup DOMAIN q
         /\ \A f \in DOMAIN q : Update(p, q)[f] = q[f]
         /\ \A f \in DOMAIN p \ DOMAIN q : Update(p, q)[f] = p[f]
  BY DEF Update

LEMMA OnlyFields ==
  ASSUME NEW f, NEW v
  PROVE  DOMAIN Only(f, v) = {f} /\ Only(f, v)[f] = v
  BY DEF Only

LEMMA EmptyFields == DOMAIN EmptyPayload = {}
  BY DEF EmptyPayload

(* Updating a context with a part of it changes nothing. *)
LEMMA UpdateWithPart ==
  ASSUME NEW c \in Payloads, NEW p, PartOf(p, c)
  PROVE  Update(c, p) = c
<1>1. DOMAIN Update(c, p) = DOMAIN c
  BY UpdateFields DEF PartOf
<1>2. \A f \in DOMAIN c : Update(c, p)[f] = c[f]
  <2> TAKE f \in DOMAIN c
  <2>1. CASE f \in DOMAIN p
    <3>1. Update(c, p)[f] = p[f]
      BY <2>1, UpdateFields
    <3>2. p[f] = c[f]
      BY <2>1 DEF PartOf
    <3> QED
      BY <3>1, <3>2
  <2>2. CASE f \notin DOMAIN p
    BY <2>2, UpdateFields
  <2> QED
    BY <2>1, <2>2
<1>3. Update(c, p) = [f \in DOMAIN Update(c, p) |-> Update(c, p)[f]]
  BY DEF Update
<1>4. c = [f \in DOMAIN c |-> c[f]]
  BY PayloadIsFunction
<1>5. PICK u : u = Update(c, p)
  OBVIOUS
<1>6. u = [f \in DOMAIN c |-> u[f]]
  BY <1>1, <1>3, <1>5
<1>7. [f \in DOMAIN c |-> u[f]] = [f \in DOMAIN c |-> c[f]]
  BY <1>2, <1>5
<1> QED
  BY <1>4, <1>5, <1>6, <1>7

(* What FirstUsable picks is a part of the context; it is the first field if that one is *)
(* usable.                                                                               *)
LEMMA FirstUsableIsPart ==
  ASSUME NEW c \in Payloads, DOMAIN c # {}, NEW keys, DOMAIN keys \subseteq Nat
  PROVE  PartOf(FirstUsable(c, keys), c)
<1> DEFINE usable == {i \in DOMAIN keys : Truthy(c, keys[i])}
<1>1. CASE usable = {}
  BY <1>1 DEF FirstUsable, PartOf
<1>2. CASE usable # {}
  <2>1. Min(usable) \in usable
    <3>1. usable \in SUBSET Nat
      OBVIOUS
    <3> HIDE DEF usable
    <3> QED
      BY <1>2, <3>1, MinIsMember
  <2> DEFINE k == keys[Min(usable)]
  <2>2. k \in DOMAIN c
    BY <2>1 DEF Truthy
  <2>3. FirstUsable(c, keys) = Only(k, c[k])
    BY <1>2 DEF FirstUsable
  <2> HIDE DEF k
  <2>4. PICK p : p = Only(k, c[k])
    OBVIOUS
  <2>5. DOMAIN p = {k} /\ p[k] = c[k]
    BY <2>4, OnlyFields
  <2>6. PartOf(p, c)
    BY <2>2, <2>5 DEF PartOf
  <2> QED
    BY <2>3, <2>4, <2>6
<1> QED
  BY <1>1, <1>2

LEMMA FirstUsableIsFirst ==
  ASSUME NEW c, NEW keys, DOMAIN keys \subseteq Nat, 1 \in DOMAIN keys,
         \A i \in DOMAIN keys : 1 <= i, Truthy(c, keys[1])
  PROVE  FirstUsable(c, keys) = Only(keys[1], c[keys[1]])
<1> DEFINE usable == {i \in DOMAIN keys : Truthy(c, keys[i])}
<1>1. usable \in SUBSET Nat /\ 1 \in usable /\ \A i \in usable : 1 <= i
  OBVIOUS
<1>2. Min(usable) = 1
  <2> HIDE DEF usable
  <2> QED
    BY <1>1, MinIs
<1> QED
  BY <1>1, <1>2 DEF FirstUsable

\* The context holds under f what was found, or, if nothing was, what the caller said.
Knows(f, found) ==
  IF found # NoId THEN f \in DOMAIN ctx /\ ctx[f] = found
  ELSE Truthy(payload, f) => f \in DOMAIN ctx /\ ctx[f] = payload[f]

\* What the agents before the one at work have found.
FoundCwe    == IF responses = <<>> THEN NoId ELSE ExtractCweId(responses[1])
FoundAttack == IF Len(responses) < 2 THEN NoId ELSE ExtractAttackId(responses[2])

\* The context of a mixed request that is at its next agent.
ContextInv ==
  /\ DOMAIN payload # {} /\ DOMAIN payload \subseteq DOMAIN ctx
  /\ Knows("cweId", FoundCwe)
  /\ Knows("attackId", FoundAttack)

(* Where a mixed request is, in terms of how many agents have answered. *)
LEMMA MixedStep ==
  ASSUME Inv, IsMixed, pc \in {"dispatching", "querying"}
  PROVE  /\ Len(responses) \in 0..2 /\ DOMAIN responses = 1..Len(responses)
         /\ IsSequence(responses) /\ Len(Plan(intent)) = 3
         /\ \A i \in DOMAIN responses : TypedReply(responses[i])
         /\ Len(responses) = 0 => SubIntent = "vuln_lookup" /\ responses = <<>>
         /\ Len(responses) = 1 => SubIntent = "attack_path" /\ responses # <<>>
         /\ Len(responses) = 2 => SubIntent = "coverage_map" /\ responses # <<>>
<1>1. /\ Len(responses) \in Nat /\ DOMAIN responses = 1..Len(responses)
      /\ IsSequence(responses) /\ Len(responses) < Len(Plan(intent))
      /\ \A i \in DOMAIN responses : TypedReply(responses[i])
  BY DEF Inv, FlowInv, DataInv, IsSequence
<1>2. Plan(intent) = <<"vuln_lookup", "attack_path", "coverage_map">>
  BY DEF IsMixed, Plan, MixedIntentSequence
<1>3. Len(Plan(intent)) = 3 /\ Len(responses) \in 0..2
  BY <1>1, <1>2
<1>4. SubIntent = Plan(intent)[Len(responses) + 1]
  BY DEF SubIntent, StepNo
<1>5. Len(responses) = 0 <=> responses = <<>>
  BY <1>1 DEF IsSequence
<1> QED
  BY <1>1, <1>2, <1>3, <1>4, <1>5

(* What an earlier agent found is in the context by the time it is looked for, so that *)
(* the derived field adds nothing to it.                                               *)
LEMMA DerivedIsKnown ==
  ASSUME NEW f, NEW id, Knows(f, id), id \in Cwes \cup Techs \cup {NoId}
  PROVE  ~Truthy(ctx, f) => id = NoId
  BY DistinctValues DEF Knows, Truthy

(* The payload of a step of a mixed request is a part of its context, and it is the id *)
(* the step is about if the context has one.                                           *)
LEMMA StepIsPart ==
  ASSUME Inv, IsMixed, pc \in {"dispatching", "querying"}, ContextInv
  PROVE  /\ PartOf(StepPayload, ctx)
         /\ Len(responses) = 1 /\ Truthy(ctx, "cweId") =>
              StepPayload = Only("cweId", ctx["cweId"])
         /\ Len(responses) = 2 /\ Truthy(ctx, "attackId") =>
              StepPayload = Only("attackId", ctx["attackId"])
<1>1. ctx \in Payloads /\ DOMAIN ctx # {}
  BY DEF Inv, DataInv, ContextInv
<1>2. StepPayload = BuildMixedPayload(SubIntent, ctx, responses)
  BY DEF StepPayload
<1>3. CASE Len(responses) = 0
  <2>1. StepPayload = FirstUsable(ctx, TemplateOrder)
    BY <1>2, <1>3, MixedStep DEF BuildMixedPayload
  <2>2. DOMAIN TemplateOrder \subseteq Nat
    BY DEF TemplateOrder
  <2> QED
    BY <1>1, <1>3, <2>1, <2>2, FirstUsableIsPart
<1>4. CASE Len(responses) = 1
  <2> DEFINE keys == <<"cweId", "cveId">>
  <2>1. ExtractCweId(responses[1]) \in Cwes \cup {NoId}
    BY <1>4, MixedStep, ExtractCweTyped
  <2>2. FoundCwe = ExtractCweId(responses[1])
    BY <1>4, MixedStep DEF FoundCwe
  <2>3. Truthy(ctx, "cweId") \/ ExtractCweId(responses[1]) = NoId
    BY <2>1, <2>2, DerivedIsKnown DEF ContextInv
  <2>4. StepPayload = FirstUsable(ctx, keys)
    BY <1>2, <1>4, <2>3, MixedStep DEF BuildMixedPayload
  <2>5. /\ DOMAIN keys \subseteq Nat /\ 1 \in DOMAIN keys /\ keys[1] = "cweId"
        /\ \A i \in DOMAIN keys : 1 <= i
    OBVIOUS
  <2> HIDE DEF keys
  <2>6. PartOf(StepPayload, ctx)
    BY <1>1, <2>4, <2>5, FirstUsableIsPart
  <2>7. Truthy(ctx, "cweId") => StepPayload = Only("cweId", ctx["cweId"])
    BY <2>4, <2>5, FirstUsableIsFirst
  <2> QED
    BY <1>4, <2>6, <2>7
<1>5. CASE Len(responses) = 2
  <2> DEFINE keys == <<"attackId">>
  <2>1. ExtractAttackId(responses[2]) \in Techs \cup {NoId}
    BY <1>5, MixedStep, ExtractAttackTyped
  <2>2. FoundAttack = ExtractAttackId(responses[2])
    BY <1>5 DEF FoundAttack
  <2>3. Truthy(ctx, "attackId") \/ ExtractAttackId(responses[2]) = NoId
    BY <2>1, <2>2, DerivedIsKnown DEF ContextInv
  <2>4. StepPayload = FirstUsable(ctx, keys)
    BY <1>2, <1>5, <2>3, MixedStep DEF BuildMixedPayload
  <2>5. /\ DOMAIN keys \subseteq Nat /\ 1 \in DOMAIN keys /\ keys[1] = "attackId"
        /\ \A i \in DOMAIN keys : 1 <= i
    OBVIOUS
  <2> HIDE DEF keys
  <2>6. PartOf(StepPayload, ctx)
    BY <1>1, <2>4, <2>5, FirstUsableIsPart
  <2>7. Truthy(ctx, "attackId") => StepPayload = Only("attackId", ctx["attackId"])
    BY <2>4, <2>5, FirstUsableIsFirst
  <2> QED
    BY <1>5, <2>6, <2>7
<1> QED
  BY <1>3, <1>4, <1>5, MixedStep

\* The context u is c, with what was found under f.
Learns(c, f, found, u) ==
  /\ DOMAIN c \subseteq DOMAIN u
  /\ \A g \in DOMAIN c : g # f \/ found = NoId => u[g] = c[g]
  /\ found # NoId => f \in DOMAIN u /\ u[f] = found

(* What a response adds to the context is what was found in it, and nothing if that is *)
(* nothing.                                                                            *)
LEMMA ContextAdds ==
  ASSUME NEW c, NEW f, NEW found, NEW e,
         found # NoId => DOMAIN e = {f} /\ e[f] = found,
         found = NoId => DOMAIN e = {},
         NEW u, u = Update(c, e)
  PROVE  Learns(c, f, found, u)
<1>1. /\ DOMAIN u = DOMAIN c \cup DOMAIN e
      /\ \A g \in DOMAIN e : u[g] = e[g]
      /\ \A g \in DOMAIN c \ DOMAIN e : u[g] = c[g]
  <2>1. DOMAIN u = DOMAIN c \cup DOMAIN e
    BY DEF Update
  <2>2. ASSUME NEW g \in DOMAIN e PROVE u[g] = e[g]
    BY <2>2 DEF Update
  <2>3. ASSUME NEW g \in DOMAIN c, g \notin DOMAIN e PROVE u[g] = c[g]
    BY <2>3 DEF Update
  <2> QED
    BY <2>1, <2>2, <2>3
<1>2. CASE found # NoId
  <2>1. DOMAIN e = {f} /\ e[f] = found
    BY <1>2
  <2>2. u[f] = found /\ f \in DOMAIN u
    BY <1>1, <2>1
  <2>3. \A g \in DOMAIN c : g # f => u[g] = c[g]
    BY <1>1, <2>1
  <2>4. DOMAIN c \subseteq DOMAIN u
    BY <1>1
  <2> QED
    BY <1>2, <2>2, <2>3, <2>4 DEF Learns
<1>3. CASE found = NoId
  <2>1. DOMAIN e = {}
    BY <1>3
  <2>2. DOMAIN c \subseteq DOMAIN u /\ \A g \in DOMAIN c : u[g] = c[g]
    BY <1>1, <2>1
  <2> QED
    BY <1>3, <2>2 DEF Learns
<1> QED
  BY <1>2, <1>3

(* An agent that lets the sequence go on leaves a context that knows what it found. *)
LEMMA ContextStep ==
  ASSUME Inv, IsMixed, pc \in {"dispatching", "querying"}, ContextInv,
         NEW r, ReplyOf(Agent, r), Collect(StepPayload, r), pc' = "dispatching"
  PROVE  ContextInv'
<1>1. /\ responses' = Append(responses, r)
      /\ ctx' = Update(Update(ctx, StepPayload), ExtractMixedContext(SubIntent, r))
      /\ payload' = payload /\ ~SequenceEnds(r)
  BY DEF Collect, NextContext, requestVars
<1>2. ctx' = Update(ctx, ExtractMixedContext(SubIntent, r))
  BY <1>1, StepIsPart, UpdateWithPart DEF Inv, DataInv
<1>3. /\ Len(responses') = Len(responses) + 1 /\ responses'[Len(responses) + 1] = r
      /\ DOMAIN responses' = 1..(Len(responses) + 1)
      /\ \A i \in DOMAIN responses : responses'[i] = responses[i]
  BY <1>1, MixedStep, AppendExtends
<1>4. responses' # <<>>
  BY <1>3, MixedStep
<1>5. Len(responses) \in {0, 1}
  <2>1. Len(responses) \in 0..2 /\ Len(Plan(intent)) = 3
    BY MixedStep
  <2>2. Len(responses) + 1 # Len(Plan(intent))
    BY <1>1 DEF SequenceEnds, StepNo
  <2>3. PICK n : n = Len(responses)
    OBVIOUS
  <2>4. n \in 0..2 /\ n + 1 # 3
    BY <2>1, <2>2, <2>3
  <2>5. n \in {0, 1}
    BY <2>4
  <2> QED
    BY <2>3, <2>5
<1>6. ~IsOk(r) => ExtractCweId(r) = NoId /\ ExtractAttackId(r) = NoId
  BY DEF ReplyOf, Silent
<1>7. CASE Len(responses) = 0
  <2>1. PICK e : e = ExtractMixedContext(SubIntent, r)
    OBVIOUS
  <2>2. /\ ExtractCweId(r) # NoId => e = Only("cweId", ExtractCweId(r))
        /\ ExtractCweId(r) = NoId => e = EmptyPayload
    BY <1>6, <1>7, <2>1, MixedStep DEF ExtractMixedContext
  <2>3. /\ ExtractCweId(r) # NoId => DOMAIN e = {"cweId"} /\ e["cweId"] = ExtractCweId(r)
        /\ ExtractCweId(r) = NoId => DOMAIN e = {}
    BY <2>2, OnlyFields, EmptyFields
  <2>4. FoundCwe' = ExtractCweId(r)
    BY <1>3, <1>4, <1>7 DEF FoundCwe
  <2>5. FoundAttack = NoId /\ FoundAttack' = NoId /\ FoundCwe = NoId
    BY <1>3, <1>7, MixedStep DEF FoundAttack, FoundCwe
  <2>6. ctx' = Update(ctx, e)
    BY <1>2, <2>1
  <2>7. /\ DOMAIN ctx \subseteq DOMAIN ctx'
        /\ \A g \in DOMAIN ctx : g # "cweId" \/ ExtractCweId(r) = NoId => ctx'[g] = ctx[g]
        /\ ExtractCweId(r) # NoId =>
             "cweId" \in DOMAIN ctx' /\ ctx'["cweId"] = ExtractCweId(r)
    <3>1. PICK c : c = ctx
      OBVIOUS
    <3>2. PICK u : u = Update(c, e)
      OBVIOUS
    <3>3. PICK found : found = ExtractCweId(r)
      OBVIOUS
    <3>4. Learns(c, "cweId", found, u)
      BY <2>3, <3>2, <3>3, ContextAdds
    <3> QED
      BY <2>6, <3>1, <3>2, <3>3, <3>4 DEF Learns
  <2>8. Knows("cweId", ExtractCweId(r))'
    BY <1>1, <2>5, <2>7 DEF ContextInv, Knows, Truthy
  <2>9. Knows("attackId", NoId)'
    BY <1>1, <2>5, <2>7 DEF ContextInv, Knows, Truthy
  <2> QED
    BY <1>1, <2>4, <2>5, <2>7, <2>8, <2>9 DEF ContextInv
<1>8. CASE Len(responses) = 1
  <2>1. PICK e : e = ExtractMixedContext(SubIntent, r)
    OBVIOUS
  <2>2. /\ ExtractAttackId(r) # NoId => e = Only("attackId", ExtractAttackId(r))
        /\ ExtractAttackId(r) = NoId => e = EmptyPayload
    BY <1>6, <1>8, <2>1, MixedStep DEF ExtractMixedContext
  <2>3. /\ ExtractAttackId(r) # NoId => DOMAIN e = {"attackId"} /\ e["attackId"] = ExtractAttackId(r)
        /\ ExtractAttackId(r) = NoId => DOMAIN e = {}
    BY <2>2, OnlyFields, EmptyFields
  <2>4. FoundAttack' = ExtractAttackId(r) /\ FoundAttack = NoId
    BY <1>3, <1>8 DEF FoundAttack
  <2>5. FoundCwe' = FoundCwe
    BY <1>3, <1>4, <1>8, MixedStep DEF FoundCwe
  <2>6. ctx' = Update(ctx, e)
    BY <1>2, <2>1
  <2>7. /\ DOMAIN ctx \subseteq DOMAIN ctx'
        /\ \A g \in DOMAIN ctx : g # "attackId" \/ ExtractAttackId(r) = NoId => ctx'[g] = ctx[g]
        /\ ExtractAttackId(r) # NoId =>
             "attackId" \in DOMAIN ctx' /\ ctx'["attackId"] = ExtractAttackId(r)
    <3>1. PICK c : c = ctx
      OBVIOUS
    <3>2. PICK u : u = Update(c, e)
      OBVIOUS
    <3>3. PICK found : found = ExtractAttackId(r)
      OBVIOUS
    <3>4. Learns(c, "attackId", found, u)
      BY <2>3, <3>2, <3>3, ContextAdds
    <3> QED
      BY <2>6, <3>1, <3>2, <3>3, <3>4 DEF Learns
  <2>8. Knows("attackId", ExtractAttackId(r))'
    BY <1>1, <2>4, <2>7 DEF ContextInv, Knows, Truthy
  <2>9. Knows("cweId", FoundCwe)'
    BY <1>1, <2>5, <2>7 DEF ContextInv, Knows, Truthy
  <2> QED
    BY <1>1, <2>4, <2>7, <2>8, <2>9 DEF ContextInv
<1> QED
  BY <1>5, <1>7, <1>8

----------------------------------------------------------------------------
(* What the agents are asked *)

\* Payload p asks about what was found, or, if nothing was, about what the caller named.
AboutFound(p, f, found) ==
  IF found # NoId THEN p = Only(f, found)
  ELSE Truthy(payload, f) => p = Only(f, payload[f])

\* The agents were asked something, what they were asked fits what was found before, and
\* while a query runs the context is still the one its payload came from.
AskingInv ==
  /\ pc \in {"dispatching", "querying"} =>
       DOMAIN payload # {} /\ (IsMixed => ContextInv)
  /\ \A i \in DOMAIN asked : DOMAIN asked[i] # {}
  /\ pc = "querying" => asked[StepNo] = StepPayload
  /\ AskedAboutWhatWasFound

(* AskedAboutWhatWasFound, in terms of AboutFound. *)
LEMMA AskedAboutIs ==
  AskedAboutWhatWasFound <=>
    (IsMixed /\ pc # "idle" =>
       /\ 2 \in DOMAIN asked =>
            AboutFound(asked[2], "cweId", ExtractCweId(responses[1]))
       /\ 3 \in DOMAIN asked =>
            AboutFound(asked[3], "attackId", ExtractAttackId(responses[2])))
  BY DEF AskedAboutWhatWasFound, AboutFound

(* The second and the third agent of a mixed request are asked about what was found. *)
LEMMA StepIsAbout ==
  ASSUME Inv, IsMixed, pc \in {"dispatching", "querying"}, ContextInv
  PROVE  /\ Len(responses) = 1 =>
              AboutFound(StepPayload, "cweId", ExtractCweId(responses[1]))
         /\ Len(responses) = 2 =>
              AboutFound(StepPayload, "attackId", ExtractAttackId(responses[2]))
<1>1. CASE Len(responses) = 1
  <2>1. PICK found : found = ExtractCweId(responses[1])
    OBVIOUS
  <2>2. found \in Cwes \cup {NoId}
    BY <1>1, <2>1, MixedStep, ExtractCweTyped
  <2>3. Knows("cweId", found)
    BY <1>1, <2>1, MixedStep DEF ContextInv, FoundCwe
  <2>4. Truthy(ctx, "cweId") => StepPayload = Only("cweId", ctx["cweId"])
    BY <1>1, StepIsPart
  <2>5. found # NoId => Truthy(ctx, "cweId") /\ ctx["cweId"] = found
    BY <2>2, <2>3, DistinctValues DEF Knows, Truthy
  <2>6. found = NoId /\ Truthy(payload, "cweId") =>
          Truthy(ctx, "cweId") /\ ctx["cweId"] = payload["cweId"]
    BY <2>3 DEF Knows, Truthy
  <2> QED
    BY <1>1, <2>1, <2>4, <2>5, <2>6 DEF AboutFound
<1>2. CASE Len(responses) = 2
  <2>1. PICK found : found = ExtractAttackId(responses[2])
    OBVIOUS
  <2>2. found \in Techs \cup {NoId}
    BY <1>2, <2>1, MixedStep, ExtractAttackTyped
  <2>3. Knows("attackId", found)
    BY <1>2, <2>1, MixedStep DEF ContextInv, FoundAttack
  <2>4. Truthy(ctx, "attackId") => StepPayload = Only("attackId", ctx["attackId"])
    BY <1>2, StepIsPart
  <2>5. found # NoId => Truthy(ctx, "attackId") /\ ctx["attackId"] = found
    BY <2>2, <2>3, DistinctValues DEF Knows, Truthy
  <2>6. found = NoId /\ Truthy(payload, "attackId") =>
          Truthy(ctx, "attackId") /\ ctx["attackId"] = payload["attackId"]
    BY <2>3 DEF Knows, Truthy
  <2> QED
    BY <1>2, <2>1, <2>4, <2>5, <2>6 DEF AboutFound
<1> QED
  BY <1>1, <1>2

(* No step has an empty payload: the caller's own holds a required field, a derived one *)
(* is a part of a context that starts with the caller's.                                *)
LEMMA StepNotEmpty ==
  ASSUME Inv, AskingInv, pc \in {"dispatching", "querying"}
  PROVE  DOMAIN StepPayload # {}
<1>1. CASE IsMixed
  BY <1>1, StepIsPart DEF AskingInv, PartOf
<1>2. CASE ~IsMixed
  BY <1>2 DEF AskingInv, StepPayload
<1> QED
  BY <1>1, <1>2

(* How asked and responses stand to each other while agents are called. *)
LEMMA AskedAndAnswered ==
  ASSUME Inv
  PROVE  /\ IsSequence(asked) /\ IsSequence(responses)
         /\ Len(asked) \in Nat /\ Len(responses) \in Nat
         /\ DOMAIN asked = 1..Len(asked) /\ DOMAIN responses = 1..Len(responses)
         /\ pc = "dispatching" => Len(asked) = Len(responses)
         /\ pc = "querying" => Len(asked) = Len(responses) + 1
  BY DEF Inv, FlowInv, StopsAtFirstError, IsSequence

(* Calling the next agent keeps what is said about the agents asked. *)
LEMMA AskStep ==
  ASSUME Inv, AskingInv, pc = "dispatching", asked' = Append(asked, StepPayload),
         UNCHANGED requestVars,
         \A i \in DOMAIN responses : responses'[i] = responses[i]
  PROVE  /\ \A i \in DOMAIN asked' : DOMAIN asked'[i] # {}
         /\ AskedAboutWhatWasFound'
<1>1. PICK p : p = StepPayload
  OBVIOUS
<1>2. PICK n : n = Len(responses)
  OBVIOUS
<1>3. /\ n \in Nat /\ DOMAIN asked = 1..n /\ DOMAIN responses = 1..n
      /\ DOMAIN asked' = 1..(n + 1) /\ asked'[n + 1] = p
      /\ \A i \in 1..n : asked'[i] = asked[i]
  BY <1>1, <1>2, AskedAndAnswered, AppendExtends
<1>4. DOMAIN p # {}
  BY <1>1, StepNotEmpty
<1>5. \A i \in DOMAIN asked' : DOMAIN asked'[i] # {}
  <2> TAKE i \in DOMAIN asked'
  <2>1. CASE i = n + 1
    BY <1>3, <1>4, <2>1
  <2>2. CASE i # n + 1
    <3>1. i \in 1..n
      BY <1>3, <2>2
    <3> QED
      BY <1>3, <3>1 DEF AskingInv
  <2> QED
    BY <2>1, <2>2
<1>6. payload' = payload /\ intent' = intent
  BY DEF requestVars
<1>7. ASSUME IsMixed, 2 \in DOMAIN asked'
      PROVE  AboutFound(asked'[2], "cweId", ExtractCweId(responses'[1]))
  <2>1. n >= 1 /\ responses'[1] = responses[1]
    BY <1>3, <1>7
  <2>2. CASE n = 1
    <3>1. AboutFound(p, "cweId", ExtractCweId(responses[1]))
      BY <1>1, <1>2, <1>7, <2>2, StepIsAbout DEF AskingInv
    <3>2. asked'[2] = p
      BY <1>3, <2>2
    <3> QED
      BY <2>1, <3>1, <3>2
  <2>3. CASE n # 1
    <3>1. 2 \in 1..n
      BY <1>3, <2>1, <2>3
    <3>2. AboutFound(asked[2], "cweId", ExtractCweId(responses[1]))
      BY <1>3, <1>7, <3>1, AskedAboutIs DEF AskingInv
    <3> QED
      BY <1>3, <2>1, <3>1, <3>2
  <2> QED
    BY <2>2, <2>3
<1>8. ASSUME IsMixed, 3 \in DOMAIN asked'
      PROVE  AboutFound(asked'[3], "attackId", ExtractAttackId(responses'[2]))
  <2>1. n >= 2 /\ responses'[2] = responses[2]
    BY <1>3, <1>8
  <2>2. CASE n = 2
    <3>1. AboutFound(p, "attackId", ExtractAttackId(responses[2]))
      BY <1>1, <1>2, <1>8, <2>2, StepIsAbout DEF AskingInv
    <3>2. asked'[3] = p
      <4>1. asked'[n + 1] = p /\ n + 1 = 3
        BY <1>3, <2>2
      <4> QED
        BY <4>1
    <3> QED
      BY <2>1, <3>1, <3>2
  <2>3. CASE n # 2
    <3>1. 3 \in 1..n
      BY <1>3, <2>1, <2>3
    <3>2. AboutFound(asked[3], "attackId", ExtractAttackId(responses[2]))
      BY <1>3, <1>8, <3>1, AskedAboutIs DEF AskingInv
    <3> QED
      BY <1>3, <2>1, <3>1, <3>2
  <2> QED
    BY <2>2, <2>3
<1>9. AskedAboutWhatWasFound'
  BY <1>6, <1>7, <1>8 DEF AskedAboutWhatWasFound, AboutFound, IsMixed
<1> QED
  BY <1>5, <1>9

LEMMA AskingInit == Init => AskingInv
  BY DEF Init, AskingInv, AskedAboutWhatWasFound

LEMMA AskingStep == Inv /\ AskingInv /\ [Next]_vars => AskingInv'
<1> SUFFICES ASSUME Inv, AskingInv, [Next]_vars PROVE AskingInv'
  OBVIOUS
<1> USE DEF requestVars
<1>1. CASE Receive
  <2>1. asked' = <<>> /\ pc' = "validating"
    BY <1>1 DEF Receive, Inv, FlowInv
  <2> QED
    BY <2>1 DEF AskingInv, AskedAboutWhatWasFound
<1>2. CASE RejectRequest
  <2>1. asked' = <<>> /\ pc' = "answered"
    BY <1>2 DEF RejectRequest, Inv, FlowInv
  <2> QED
    BY <2>1 DEF AskingInv, AskedAboutWhatWasFound
<1>3. CASE AcceptRequest
  <2>1. /\ asked' = <<>> /\ responses' = <<>> /\ pc' = "dispatching"
        /\ payload' = payload /\ intent' = intent /\ (IsMixed => ctx' = payload)
    BY <1>3 DEF AcceptRequest, Inv, FlowInv
  <2>2. DOMAIN payload # {}
    BY <1>3 DEF AcceptRequest, PayloadAccepted, Has
  <2>3. FoundCwe' = NoId /\ FoundAttack' = NoId
    BY <2>1 DEF FoundCwe, FoundAttack
  <2>4. IsMixed => ContextInv'
    BY <2>1, <2>2, <2>3 DEF ContextInv, Knows, Truthy
  <2>5. IsMixed' = IsMixed
    BY <2>1 DEF IsMixed
  <2> QED
    BY <2>1, <2>2, <2>4, <2>5 DEF AskingInv, AskedAboutWhatWasFound
<1>4. CASE ExpireDeadline
  <2>1. pc = "dispatching" /\ pc' = "answered"
        /\ UNCHANGED <<asked, responses, payload, intent>>
    BY <1>4 DEF ExpireDeadline
  <2>2. AskedAboutWhatWasFound'
    BY <2>1 DEF AskingInv, AskedAboutWhatWasFound, IsMixed
  <2> QED
    BY <2>1, <2>2 DEF AskingInv
<1>5. CASE AgentRefuses
  <2>1. /\ pc = "dispatching" /\ asked' = Append(asked, StepPayload)
        /\ Collect(StepPayload, Refusal)
    BY <1>5 DEF AgentRefuses
  <2>2. responses' = Append(responses, Refusal) /\ UNCHANGED requestVars
        /\ pc' \in {"concluding", "dispatching"}
    BY <2>1 DEF Collect
  <2>3. \A i \in DOMAIN responses : responses'[i] = responses[i]
    <3>1. PICK r : r = Refusal
      OBVIOUS
    <3>2. responses' = Append(responses, r) /\ IsSequence(responses)
      BY <2>2, <3>1, AskedAndAnswered
    <3> QED
      BY <3>2, AppendExtends
  <2>4. (\A i \in DOMAIN asked' : DOMAIN asked'[i] # {}) /\ AskedAboutWhatWasFound'
    BY <2>1, <2>2, <2>3, AskStep
  <2>5. ReplyOf(Agent, Refusal)
    BY ErrorsSilent DEF Refusal
  <2>6. IsMixed /\ pc' = "dispatching" => ContextInv'
    BY <2>1, <2>5, ContextStep DEF AskingInv
  <2>7. IsMixed' = IsMixed
    BY <2>2 DEF IsMixed
  <2> QED
    BY <2>1, <2>2, <2>4, <2>6, <2>7 DEF AskingInv
<1>6. CASE AgentQueries
  <2>1. /\ pc = "dispatching" /\ pc' = "querying" /\ asked' = Append(asked, StepPayload)
        /\ UNCHANGED <<intent, payload, ctx, responses>>
    BY <1>6 DEF AgentQueries
  <2>2. (\A i \in DOMAIN asked' : DOMAIN asked'[i] # {}) /\ AskedAboutWhatWasFound'
    BY <2>1, AskStep
  <2>3. IsMixed' = IsMixed /\ StepNo' = StepNo /\ StepPayload' = StepPayload
    BY <2>1 DEF IsMixed, StepNo, StepPayload, SubIntent
  <2>4. ContextInv' = ContextInv
    BY <2>1 DEF ContextInv, Knows, FoundCwe, FoundAttack
  <2>5. asked'[Len(responses) + 1] = StepPayload
    <3>1. PICK p : p = StepPayload
      OBVIOUS
    <3> QED
      BY <2>1, <3>1, AskedAndAnswered, AppendExtends
  <2> QED
    BY <2>1, <2>2, <2>3, <2>4, <2>5 DEF AskingInv, StepNo
<1>7. CASE ClientSteps
  <2>1. pc' = pc /\ UNCHANGED <<intent, payload, ctx, asked, responses>>
    BY <1>7 DEF ClientSteps
  <2>2. IsMixed' = IsMixed /\ StepNo' = StepNo /\ StepPayload' = StepPayload
    BY <2>1 DEF IsMixed, StepNo, StepPayload, SubIntent
  <2>3. ContextInv' = ContextInv
    BY <2>1 DEF ContextInv, Knows, FoundCwe, FoundAttack
  <2>4. AskedAboutWhatWasFound' = AskedAboutWhatWasFound
    BY <2>1 DEF AskedAboutWhatWasFound, IsMixed
  <2> QED
    BY <2>1, <2>2, <2>3, <2>4 DEF AskingInv
<1>8. CASE AgentReplies
  <2>1. /\ pc = "querying" /\ asked' = asked
        /\ \E r \in Replies(Agent, outcome) : Collect(asked[StepNo], r)
    BY <1>8 DEF AgentReplies
  <2>2. PICK r \in Replies(Agent, outcome) : Collect(StepPayload, r)
    BY <2>1 DEF AskingInv
  <2>3. ReplyOf(Agent, r)
    BY <2>1, <2>2, StepTyped, RepliesOf DEF Inv
  <2>4. responses' = Append(responses, r) /\ UNCHANGED requestVars
        /\ pc' \in {"concluding", "dispatching"}
    BY <2>2 DEF Collect
  <2>5. IsMixed /\ pc' = "dispatching" => ContextInv'
    BY <2>1, <2>2, <2>3, ContextStep DEF AskingInv
  <2>6. /\ 2 \in DOMAIN asked => responses'[1] = responses[1]
        /\ 3 \in DOMAIN asked => responses'[2] = responses[2]
    <3>1. PICK n : n = Len(responses)
      OBVIOUS
    <3>2. /\ n \in Nat /\ DOMAIN asked = 1..(n + 1) /\ DOMAIN responses = 1..n
      BY <2>1, <3>1, AskedAndAnswered
    <3>3. \A i \in 1..n : responses'[i] = responses[i]
      BY <2>4, <3>2, AskedAndAnswered, AppendExtends
    <3> QED
      BY <3>2, <3>3
  <2>7. AskedAboutWhatWasFound'
    BY <2>1, <2>4, <2>6 DEF AskingInv, AskedAboutWhatWasFound, IsMixed
  <2>8. IsMixed' = IsMixed
    BY <2>4 DEF IsMixed
  <2> QED
    BY <2>1, <2>4, <2>5, <2>7, <2>8 DEF AskingInv
<1>9. CASE Conclude
  <2>1. pc = "concluding" /\ pc' = "answered"
        /\ UNCHANGED <<asked, responses, payload, intent>>
    BY <1>9 DEF Conclude
  <2>2. AskedAboutWhatWasFound'
    BY <2>1 DEF AskingInv, AskedAboutWhatWasFound, IsMixed
  <2> QED
    BY <2>1, <2>2 DEF AskingInv
<1>10. CASE Discard
  <2>1. asked' = <<>> /\ pc' = "idle"
    BY <1>10 DEF Discard
  <2> QED
    BY <2>1 DEF AskingInv, AskedAboutWhatWasFound
<1>11. CASE UNCHANGED vars
  <2>1. pc' = pc /\ UNCHANGED <<intent, payload, ctx, asked, responses>>
    BY <1>11 DEF vars
  <2>2. IsMixed' = IsMixed /\ StepNo' = StepNo /\ StepPayload' = StepPayload
    BY <2>1 DEF IsMixed, StepNo, StepPayload, SubIntent
  <2>3. ContextInv' = ContextInv
    BY <2>1 DEF ContextInv, Knows, FoundCwe, FoundAttack
  <2>4. AskedAboutWhatWasFound' = AskedAboutWhatWasFound
    BY <2>1 DEF AskedAboutWhatWasFound, IsMixed
  <2> QED
    BY <2>1, <2>2, <2>3, <2>4 DEF AskingInv
<1> QED
  BY <1>1, <1>2, <1>3, <1>4, <1>5, <1>6, <1>7, <1>8, <1>9, <1>10, <1>11
  DEF Next, Execute

LEMMA AskingInvariant == Spec => []AskingInv
  BY Invariant, AskingInit, AskingStep, PTL DEF Spec

(* No agent is ever called with an empty payload (executor.py:239-246 is dead code), for *)
(* every request the router accepts.                                                     *)
THEOREM NoStepStarves == Spec => []PlanNeverStarved
<1>1. Inv /\ AskingInv => PlanNeverStarved
  BY StepNotEmpty DEF AskingInv, PlanNeverStarved
<1> QED
  BY <1>1, Invariant, AskingInvariant, PTL

(* In a mixed request each agent is asked about what its predecessor found, and about   *)
(* the caller's own id only when that was nothing (executor.py:266-267, 325-341).        *)
THEOREM AgentsAskAboutFindings == Spec => []AskedAboutWhatWasFound
<1>1. AskingInv => AskedAboutWhatWasFound
  BY DEF AskingInv
<1> QED
  BY <1>1, AskingInvariant, PTL

----------------------------------------------------------------------------
(* The aggregator *)

(* Flattening empty sequences gives an empty one. *)
LEMMA FlattenEmpties ==
  ASSUME NEW n \in Nat, NEW s, s = [i \in 1..n |-> <<>>]
  PROVE  FlattenSeq(s) = <<>>
<1>1. Len(s) = n /\ \A i \in 1..n : s[i] = <<>>
  OBVIOUS
<1>2. CASE n = 0
  BY <1>1, <1>2 DEF FlattenSeq
<1>3. CASE n # 0
  <2> DEFINE Turn(F) == [i \in 1..Len(s) |-> IF i = 1 THEN s[i] ELSE F[i - 1] \o s[i]]
  <2> DEFINE none == [i \in 1..Len(s) |-> <<>>]
  <2> DEFINE flatten == CHOOSE F : F = Turn(F)
  <2>1. none = Turn(none)
    BY <1>1
  <2>2. flatten = Turn(flatten)
    BY <2>1
  <2>3. FlattenSeq(s) = flatten[n]
    BY <1>1, <1>3 DEF FlattenSeq
  <2> HIDE DEF flatten
  <2>4. /\ flatten[1] = <<>>
        /\ \A i \in 2..n : flatten[i] = flatten[i - 1] \o <<>>
    BY <1>1, <1>3, <2>2
  <2> DEFINE Empty == {i \in Nat : i \in 1..n => flatten[i] = <<>>}
  <2>5. 0 \in Empty
    OBVIOUS
  <2>6. ASSUME NEW i \in Nat, i \in Empty PROVE i + 1 \in Empty
    <3>1. CASE i = 0
      BY <2>4, <3>1
    <3>2. CASE i # 0 /\ i + 1 \in 1..n
      <4>1. i \in 1..n /\ i + 1 \in 2..n /\ (i + 1) - 1 = i
        BY <3>2
      <4>2. flatten[i] = <<>>
        BY <2>6, <4>1
      <4>3. flatten[i + 1] = flatten[i] \o <<>>
        BY <2>4, <4>1
      <4> QED
        BY <4>2, <4>3
    <3>3. CASE i + 1 \notin 1..n
      BY <3>3
    <3> QED
      BY <3>1, <3>2, <3>3
  <2>7. n \in Empty
    <3> HIDE DEF Empty
    <3> QED
      BY <2>5, <2>6, SetInduction
  <2> QED
    BY <1>3, <2>3, <2>7
<1> QED
  BY <1>2, <1>3

(* Where nobody reports an error, no error is merged. *)
LEMMA NoErrorsMerged ==
  ASSUME NEW n \in Nat, NEW rs, DOMAIN rs = 1..n, \A i \in DOMAIN rs : ~IsError(rs[i])
  PROVE  MergeErrors(rs) = <<>>
<1>1. PICK s : s = [i \in DOMAIN rs |-> IF IsError(rs[i]) THEN rs[i].errors ELSE <<>>]
  OBVIOUS
<1>2. s = [i \in 1..n |-> <<>>]
  BY <1>1
<1>3. MergeErrors(rs) = FlattenSeq(s)
  BY <1>1 DEF MergeErrors
<1> QED
  BY <1>2, <1>3, FlattenEmpties

\* The ok responses among rs have each a source, and no section and no source in common.
Separate(rs) ==
  /\ \A i \in DOMAIN rs : IsOk(rs[i]) =>
       /\ rs[i].provenance # {}
       /\ \A e, f \in rs[i].provenance : e.source = f.source => e = f
  /\ \A i, j \in DOMAIN rs : IsOk(rs[i]) /\ IsOk(rs[j]) /\ i # j =>
       /\ DOMAIN rs[i].data \cap DOMAIN rs[j].data = {}
       /\ \A e \in rs[i].provenance, f \in rs[j].provenance : e.source # f.source

\* d has the sections of the ok responses among rs, each as its owner has it.
Holds(d, rs) ==
  LET ok == {i \in DOMAIN rs : IsOk(rs[i])} IN
  /\ DOMAIN d = UNION {DOMAIN rs[i].data : i \in ok}
  /\ \A i \in ok : \A k \in DOMAIN rs[i].data : d[k] = rs[i].data[k]

(* Of separate responses, data is merged without loss, and each section is its owner's. *)
LEMMA DataOfSeparate ==
  ASSUME NEW rs, DOMAIN rs \subseteq Nat, Separate(rs)
  PROVE  Holds(MergeData(rs), rs)
<1> DEFINE ok == {i \in DOMAIN rs : IsOk(rs[i])}
<1> DEFINE sections ==
      {s \in UNION {DOMAIN rs[i].data : i \in DOMAIN rs} : Providers(rs, s) # {}}
<1>1. MergeData(rs) = [k \in sections |-> rs[Max(Providers(rs, k))].data[k]]
  BY DEF MergeData
<1>2. sections = UNION {DOMAIN rs[i].data : i \in ok}
  BY DEF Providers
<1>3. ASSUME NEW i \in ok, NEW k \in DOMAIN rs[i].data
      PROVE  k \in sections /\ rs[Max(Providers(rs, k))].data[k] = rs[i].data[k]
  <2>1. Providers(rs, k) = {i}
    BY <1>3 DEF Providers, Separate
  <2>2. k \in sections
    BY <1>3, <2>1
  <2>3. Max(Providers(rs, k)) = i
    BY <2>1, MaxOfOne
  <2> QED
    BY <2>2, <2>3
<1>4. DOMAIN MergeData(rs) = UNION {DOMAIN rs[i].data : i \in ok}
  BY <1>1, <1>2
<1>5. ASSUME NEW i \in ok, NEW k \in DOMAIN rs[i].data
      PROVE  MergeData(rs)[k] = rs[i].data[k]
  <2>1. k \in sections /\ rs[Max(Providers(rs, k))].data[k] = rs[i].data[k]
    BY <1>3
  <2> HIDE DEF sections
  <2> QED
    BY <1>1, <2>1
<1> QED
  BY <1>4, <1>5 DEF Holds

\* The sources an envelope cites, with the ids taken from each.
Cited(prov) == {<<e.source, e.ids>> : e \in prov}

(* Of separate responses, provenance is merged without loss and without addition. *)
LEMMA SourceOfSeparate ==
  ASSUME NEW rs, Separate(rs), NEW i \in DOMAIN rs, IsOk(rs[i]), NEW e \in rs[i].provenance
  PROVE  /\ Contributors(rs, e.source) = {i}
         /\ EntryOf(rs[i], e.source) = e
         /\ UNION {EntryOf(rs[j], e.source).ids : j \in Contributors(rs, e.source)} = e.ids
<1>1. Contributors(rs, e.source) = {i}
  BY DEF Contributors, Separate
<1>2. \A f \in rs[i].provenance : f.source = e.source => f = e
  BY DEF Separate
<1>3. EntryOf(rs[i], e.source) = e
  BY <1>2 DEF EntryOf
<1>4. {EntryOf(rs[j], e.source).ids : j \in {i}} = {e.ids}
  BY <1>3
<1> QED
  BY <1>1, <1>3, <1>4

LEMMA ProvenanceOfSeparate ==
  ASSUME NEW rs, Separate(rs)
  PROVE  Cited(MergeProvenance(rs)) =
           Cited(UNION {rs[i].provenance : i \in {j \in DOMAIN rs : IsOk(rs[j])}})
<1> DEFINE ok == {j \in DOMAIN rs : IsOk(rs[j])}
<1> DEFINE all == UNION {rs[i].provenance : i \in ok}
<1> DEFINE named == {t \in Sources(rs) : Contributors(rs, t) # {}}
<1> DEFINE ids(s) == UNION {EntryOf(rs[i], s).ids : i \in Contributors(rs, s)}
<1>1. MergeProvenance(rs) = {Entry(s, ids(s), MergedTime(rs, s)) : s \in named}
  BY DEF MergeProvenance
<1>2. \A s \in named : \E e \in all : e.source = s
  BY DEF Contributors
<1>3. \A e \in all : e.source \in named /\ ids(e.source) = e.ids
  <2> SUFFICES ASSUME NEW e \in all PROVE e.source \in named /\ ids(e.source) = e.ids
    OBVIOUS
  <2>1. PICK i \in ok : e \in rs[i].provenance
    OBVIOUS
  <2>2. Contributors(rs, e.source) = {i} /\ ids(e.source) = e.ids
    <3>1. i \in DOMAIN rs /\ IsOk(rs[i])
      OBVIOUS
    <3>2. Contributors(rs, e.source) = {i}
      BY <2>1, <3>1, SourceOfSeparate
    <3>3. EntryOf(rs[i], e.source) = e
      BY <2>1, <3>1, SourceOfSeparate
    <3> QED
      BY <3>2, <3>3
  <2>3. e.source \in Sources(rs)
    BY <2>1 DEF Sources
  <2> QED
    BY <2>2, <2>3
<1> HIDE DEF ids, named, all
<1>4. Cited(MergeProvenance(rs)) = {<<s, ids(s)>> : s \in named}
  BY <1>1, EntrySource DEF Cited
<1>5. Cited(all) = {<<s, ids(s)>> : s \in named}
  BY <1>2, <1>3 DEF Cited
<1> QED
  BY <1>4, <1>5 DEF all

(* The provenance of an aggregate is empty only if no response said ok. *)
LEMMA ProvenanceThere ==
  ASSUME NEW rs, Separate(rs), NEW i \in DOMAIN rs, IsOk(rs[i])
  PROVE  MergeProvenance(rs) # {}
<1>1. PICK e \in rs[i].provenance : TRUE
  BY DEF Separate
<1>2. e.source \in Sources(rs) /\ Contributors(rs, e.source) # {}
  BY <1>1, SourceOfSeparate DEF Sources
<1> QED
  BY <1>2 DEF MergeProvenance

----------------------------------------------------------------------------
(* What the answers become *)

\* The sequence has ended: an error, or a response of every agent.
Ended ==
  /\ responses # <<>>
  /\ IsError(responses[Len(responses)]) \/ Len(responses) = Len(Plan(intent))

\* Each response is of the agent of its step, and an answer is the refusal of a request
\* that no agent saw, the timeout, or what became of a sequence that has ended.
AnswerInv ==
  /\ \A i \in DOMAIN responses : ReplyOf(IntentToAgent[Plan(intent)[i]], responses[i])
  /\ responses # <<>> => intent \in ValidIntents
  /\ pc = "concluding" => Ended
  /\ Answered => \/ responses = <<>> /\ result = Refusal
                 \/ result = TimeoutRaised
                 \/ Ended /\ result = Conclusion

LEMMA AnswerInit == Init => AnswerInv
  BY DEF Init, AnswerInv, Answered

(* Collecting an agent's reply keeps the part about responses. *)
LEMMA CollectAnswer ==
  ASSUME Inv, AnswerInv, pc \in {"dispatching", "querying"},
         NEW p, NEW r, ReplyOf(Agent, r), Collect(p, r)
  PROVE  AnswerInv'
<1>1. PICK n : n = Len(responses)
  OBVIOUS
<1>2. n \in Nat /\ DOMAIN responses = 1..n /\ IsSequence(responses)
  BY <1>1, AskedAndAnswered
<1>3. responses' = Append(responses, r) /\ intent' = intent
      /\ pc' = IF SequenceEnds(r) THEN "concluding" ELSE "dispatching"
  BY DEF Collect, requestVars
<1>4. /\ DOMAIN responses' = 1..(n + 1) /\ Len(responses') = n + 1
      /\ responses'[n + 1] = r
      /\ \A i \in 1..n : responses'[i] = responses[i]
  BY <1>1, <1>2, <1>3, AppendExtends
<1>5. Agent = IntentToAgent[Plan(intent)[n + 1]]
  BY <1>1 DEF Agent, SubIntent, StepNo
<1>6. \A i \in DOMAIN responses' : ReplyOf(IntentToAgent[Plan(intent)[i]], responses'[i])
  <2> TAKE i \in DOMAIN responses'
  <2>1. CASE i = n + 1
    BY <1>4, <1>5, <2>1
  <2>2. CASE i # n + 1
    <3>1. i \in 1..n
      BY <1>2, <1>4, <2>2
    <3> QED
      BY <1>2, <1>4, <3>1 DEF AnswerInv
  <2> QED
    BY <2>1, <2>2
<1>7. pc' = "concluding" => Ended'
  <2>1. responses' # <<>>
    BY <1>2, <1>4
  <2>2. pc' = "concluding" => IsError(r) \/ n + 1 = Len(Plan(intent))
    BY <1>1, <1>3 DEF SequenceEnds, StepNo
  <2> QED
    BY <1>3, <1>4, <2>1, <2>2 DEF Ended
<1>8. intent \in ValidIntents
  BY DEF Inv, FlowInv
<1> QED
  BY <1>3, <1>6, <1>7, <1>8 DEF AnswerInv, Answered

LEMMA AnswerStep == Inv /\ AnswerInv /\ [Next]_vars => AnswerInv'
<1> SUFFICES ASSUME Inv, AnswerInv, [Next]_vars PROVE AnswerInv'
  OBVIOUS
<1> USE DEF requestVars
<1>1. CASE Receive
  <2>1. responses' = <<>> /\ pc' = "validating"
    BY <1>1 DEF Receive, Inv, FlowInv
  <2> QED
    BY <2>1 DEF AnswerInv, Answered
<1>2. CASE RejectRequest
  <2>1. responses' = <<>> /\ pc' = "answered" /\ result' = Refusal
    BY <1>2 DEF RejectRequest, Inv, FlowInv
  <2> QED
    BY <2>1 DEF AnswerInv, Answered
<1>3. CASE AcceptRequest
  <2>1. responses' = <<>> /\ pc' = "dispatching"
    BY <1>3 DEF AcceptRequest, Inv, FlowInv
  <2> QED
    BY <2>1 DEF AnswerInv, Answered
<1>4. CASE ExpireDeadline
  <2>1. /\ pc' = "answered" /\ result' = TimeoutRaised
        /\ UNCHANGED <<intent, responses>>
    BY <1>4 DEF ExpireDeadline
  <2> QED
    BY <2>1 DEF AnswerInv, Answered
<1>5. CASE AgentRefuses
  <2>1. pc = "dispatching" /\ Collect(StepPayload, Refusal)
    BY <1>5 DEF AgentRefuses
  <2>2. ReplyOf(Agent, Refusal)
    BY ErrorsSilent DEF Refusal
  <2> QED
    BY <2>1, <2>2, CollectAnswer
<1>6. CASE AgentQueries \/ ClientSteps
  <2>1. pc' = "querying" /\ UNCHANGED <<intent, responses>>
    BY <1>6 DEF AgentQueries, ClientSteps
  <2> QED
    BY <2>1 DEF AnswerInv, Answered
<1>7. CASE AgentReplies
  <2>1. pc = "querying" /\ \E r \in Replies(Agent, outcome) : Collect(asked[StepNo], r)
    BY <1>7 DEF AgentReplies
  <2>2. PICK r \in Replies(Agent, outcome) : Collect(asked[StepNo], r)
    BY <2>1
  <2>3. ReplyOf(Agent, r)
    BY <2>1, <2>2, StepTyped, RepliesOf DEF Inv
  <2> QED
    BY <2>1, <2>2, <2>3, CollectAnswer
<1>8. CASE Conclude
  <2>1. /\ pc = "concluding" /\ pc' = "answered" /\ result' = Conclusion
        /\ UNCHANGED <<intent, responses>>
    BY <1>8 DEF Conclude
  <2>2. Ended' /\ Conclusion' = Conclusion
    BY <2>1 DEF AnswerInv, Ended, Conclusion, IsMixed
  <2> QED
    BY <2>1, <2>2 DEF AnswerInv, Answered
<1>9. CASE Discard
  <2>1. responses' = <<>> /\ pc' = "idle"
    BY <1>9 DEF Discard
  <2> QED
    BY <2>1 DEF AnswerInv, Answered
<1>10. CASE UNCHANGED vars
  <2>1. UNCHANGED <<pc, intent, responses, result>>
    BY <1>10 DEF vars
  <2>2. Ended' = Ended /\ Conclusion' = Conclusion
    BY <2>1 DEF Ended, Conclusion, IsMixed
  <2> QED
    BY <2>1, <2>2 DEF AnswerInv, Answered
<1> QED
  BY <1>1, <1>2, <1>3, <1>4, <1>5, <1>6, <1>7, <1>8, <1>9, <1>10 DEF Next, Execute

LEMMA AnswerInvariant == Spec => []AnswerInv
  BY Invariant, AnswerInit, AnswerStep, PTL DEF Spec

(* The three agents of a mixed request answer separately. *)
LEMMA MixedAreSeparate ==
  ASSUME Inv, AnswerInv, IsMixed, responses # <<>>
  PROVE  /\ DOMAIN responses = 1..Len(responses) /\ Len(responses) \in 1..3
         /\ DOMAIN Plan(intent) = 1..3 /\ Len(Plan(intent)) = 3
         /\ Separate(responses)
<1>1. Plan(intent) = <<"vuln_lookup", "attack_path", "coverage_map">>
  BY DEF IsMixed, Plan, MixedIntentSequence
<1>2. DOMAIN Plan(intent) = 1..3 /\ Len(Plan(intent)) = 3
  BY <1>1
<1>3. DOMAIN responses = 1..Len(responses) /\ Len(responses) \in Nat /\ Len(responses) # 0
  <2>1. IsSequence(responses)
    BY AskedAndAnswered
  <2> QED
    BY <2>1 DEF IsSequence
<1>4. Len(responses) <= 3
  <2>1. Len(asked) \in Nat /\ Len(responses) <= Len(asked)
    BY AskedAndAnswered DEF Inv, StopsAtFirstError
  <2>2. asked # <<>>
    BY <1>3, <2>1
  <2> QED
    BY <1>2, <1>3, <2>1, <2>2 DEF Inv, StopsAtFirstError
<1>5. Len(responses) \in 1..3
  BY <1>3, <1>4
<1> DEFINE agent(i) == IntentToAgent[Plan(intent)[i]]
<1>6. agent(1) = "systems" /\ agent(2) = "offensive" /\ agent(3) = "defensive"
  BY <1>1 DEF IntentToAgent
<1> HIDE DEF agent
<1>7. \A i, j \in 1..3 : i # j =>
        /\ Section(agent(i)) # Section(agent(j))
        /\ OwnSources(agent(i)) \cap OwnSources(agent(j)) = {}
  <2>1. OwnSources("systems") \cap OwnSources("offensive") = {}
    BY OwnParts
  <2>2. OwnSources("systems") \cap OwnSources("defensive") = {}
    BY OwnParts, SourcesAssumption
  <2>3. OwnSources("offensive") \cap OwnSources("defensive") = {}
    BY OwnParts, SourcesAssumption
  <2>4. /\ Section("systems") # Section("offensive")
        /\ Section("systems") # Section("defensive")
        /\ Section("offensive") # Section("defensive")
    BY OwnParts
  <2> TAKE i, j \in 1..3
  <2>5. CASE i = 1
    BY <1>6, <2>1, <2>2, <2>4, <2>5
  <2>6. CASE i = 2
    BY <1>6, <2>1, <2>3, <2>4, <2>6
  <2>7. CASE i = 3
    BY <1>6, <2>2, <2>3, <2>4, <2>7
  <2> QED
    BY <2>5, <2>6, <2>7
<1>8. \A i \in DOMAIN responses : IsOk(responses[i]) => Supported(agent(i), responses[i])
  BY DEF AnswerInv, ReplyOf, agent
<1>9. DOMAIN responses \subseteq 1..3
  BY <1>3, <1>4
<1>10. ASSUME NEW i \in DOMAIN responses, IsOk(responses[i])
       PROVE  /\ responses[i].provenance # {}
              /\ \A e, f \in responses[i].provenance : e.source = f.source => e = f
  BY <1>8, <1>10 DEF Supported
<1>11. ASSUME NEW i \in DOMAIN responses, NEW j \in DOMAIN responses,
              IsOk(responses[i]), IsOk(responses[j]), i # j
       PROVE  /\ DOMAIN responses[i].data \cap DOMAIN responses[j].data = {}
              /\ \A e \in responses[i].provenance, f \in responses[j].provenance :
                   e.source # f.source
  <2>1. Section(agent(i)) # Section(agent(j))
        /\ OwnSources(agent(i)) \cap OwnSources(agent(j)) = {}
    BY <1>7, <1>9, <1>11
  <2>2. Supported(agent(i), responses[i]) /\ Supported(agent(j), responses[j])
    BY <1>8, <1>11
  <2> QED
    BY <2>1, <2>2 DEF Supported
<1> QED
  BY <1>2, <1>3, <1>5, <1>10, <1>11 DEF Separate

(* An aggregate that is ok is one of the answers of all agents, all ok. *)
LEMMA OkAggregate ==
  ASSUME Inv, AnswerInv, IsMixed, responses # <<>>
  PROVE  /\ AggregateStatus(responses) = "ok" <=> \A i \in DOMAIN responses : IsOk(responses[i])
         /\ AggregateStatus(responses) = "ok" =>
              MergeErrors(responses) = <<>> /\ MergeProvenance(responses) # {}
<1>1. AggregateStatus(responses) = "ok" <=> \A i \in DOMAIN responses : IsOk(responses[i])
  BY DEF AggregateStatus
<1>2. ASSUME \A i \in DOMAIN responses : IsOk(responses[i])
      PROVE  MergeErrors(responses) = <<>> /\ MergeProvenance(responses) # {}
  <2>1. \A i \in DOMAIN responses : ~IsError(responses[i])
    BY <1>2 DEF IsOk, IsError
  <2>2. /\ DOMAIN responses = 1..Len(responses) /\ Len(responses) \in 1..3
        /\ Separate(responses)
    BY MixedAreSeparate
  <2>3. MergeErrors(responses) = <<>>
    BY <2>1, <2>2, NoErrorsMerged
  <2>4. 1 \in DOMAIN responses
    BY <2>2
  <2>5. MergeProvenance(responses) # {}
    BY <1>2, <2>2, <2>4, ProvenanceThere
  <2> QED
    BY <2>3, <2>5
<1> QED
  BY <1>1, <1>2

(* The fields of an aggregate. *)
LEMMA AggregateFields ==
  ASSUME NEW rs, NEW a, a = AggregateMultiAgentResponses(rs)
  PROVE  /\ a.status = AggregateStatus(rs) /\ a.data = MergeData(rs)
         /\ a.provenance = MergeProvenance(rs) /\ a.errors = MergeErrors(rs)
  BY DEF AggregateMultiAgentResponses

(* What an answer can be. *)
LEMMA AnswerIs ==
  ASSUME AnswerInv, Returned
  PROVE  \/ responses = <<>> /\ result = Refusal
         \/ Ended /\ IsMixed /\ result = AggregateMultiAgentResponses(responses)
         \/ Ended /\ ~IsMixed /\ result = responses[1]
         \/ Ended /\ ~IsMixed /\ result.status = "error" /\ IsError(responses[1])
<1>1. \/ responses = <<>> /\ result = Refusal
      \/ Ended /\ result = Conclusion
  BY DEF AnswerInv, Returned
<1>2. ErrorResponse(<<"agent execution failed">>).status = "error"
  BY OtherFields
<1> QED
  BY <1>1, <1>2 DEF Conclusion

(* An ok answer, single or mixed, has provenance and carries no error along             *)
(* (response_builder.py, aggregator.py:18-57, executor.py:181-190).                       *)
THEOREM OkAnswersSupported == Spec => []OkIsSupported
<1>1. ASSUME Inv, AnswerInv, Returned, result.status = "ok"
      PROVE  result.provenance # {} /\ result.errors = <<>>
  <2>1. CASE responses = <<>> /\ result = Refusal
    <3>1. Refusal.status = "error"
      BY OtherFields DEF Refusal
    <3> QED
      BY <1>1, <2>1, <3>1
  <2>2. CASE Ended /\ IsMixed /\ result = AggregateMultiAgentResponses(responses)
    <3>1. /\ result.status = AggregateStatus(responses)
          /\ result.provenance = MergeProvenance(responses)
          /\ result.errors = MergeErrors(responses)
      BY <2>2, AggregateFields
    <3> QED
      BY <1>1, <2>2, <3>1, OkAggregate DEF Ended
  <2>3. CASE Ended /\ ~IsMixed /\ result = responses[1]
    <3>1. 1 \in DOMAIN responses
      <4>1. IsSequence(responses) /\ DOMAIN responses = 1..Len(responses)
            /\ Len(responses) \in Nat
        BY <1>1, AskedAndAnswered
      <4>2. Len(responses) # 0
        BY <2>3, <4>1 DEF Ended, IsSequence
      <4> QED
        BY <4>1, <4>2
    <3>2. ReplyOf(IntentToAgent[Plan(intent)[1]], responses[1])
      BY <1>1, <3>1 DEF AnswerInv
    <3> QED
      BY <1>1, <2>3, <3>2 DEF ReplyOf, IsOk, Supported
  <2> QED
    BY <1>1, <2>1, <2>2, <2>3, AnswerIs
<1>2. Inv /\ AnswerInv => OkIsSupported
  BY <1>1 DEF OkIsSupported
<1> QED
  BY <1>2, Invariant, AnswerInvariant, PTL

(* An aggregated answer says ok only when every agent was reached and said ok, its data   *)
(* and its provenance are those of the agents that said ok and of nobody else, and data   *)
(* comes with a source (aggregator.py).                                                    *)
THEOREM AggregatesAccount == Spec => []AnswerAccountsForAgents
<1>1. ASSUME Inv, AnswerInv, MixedReply
      PROVE  LET ok == {i \in DOMAIN responses : IsOk(responses[i])} IN
             /\ result.status = "ok" <=> ok = DOMAIN Plan(intent)
             /\ DOMAIN result.data = UNION {DOMAIN responses[i].data : i \in ok}
             /\ \A i \in ok, k \in DOMAIN result.data :
                  k \in DOMAIN responses[i].data => result.data[k] = responses[i].data[k]
             /\ {<<e.source, e.ids>> : e \in result.provenance}
                  = {<<e.source, e.ids>> : e \in UNION {responses[i].provenance : i \in ok}}
             /\ DOMAIN result.data # {} => result.provenance # {}
  <2> DEFINE ok == {i \in DOMAIN responses : IsOk(responses[i])}
  <2>1. Ended /\ IsMixed /\ result = AggregateMultiAgentResponses(responses)
    BY <1>1, AnswerIs DEF MixedReply
  <2>2. /\ result.status = AggregateStatus(responses) /\ result.data = MergeData(responses)
        /\ result.provenance = MergeProvenance(responses)
    BY <2>1, AggregateFields
  <2>3. /\ DOMAIN responses = 1..Len(responses) /\ Len(responses) \in 1..3
        /\ DOMAIN Plan(intent) = 1..3 /\ Len(Plan(intent)) = 3 /\ Separate(responses)
    BY <1>1, <2>1, MixedAreSeparate DEF Ended
  <2>4. result.status = "ok" <=> \A i \in DOMAIN responses : IsOk(responses[i])
    BY <1>1, <2>1, <2>2, OkAggregate DEF Ended
  <2>5. result.status = "ok" <=> ok = DOMAIN Plan(intent)
    <3>1. ASSUME result.status = "ok" PROVE ok = DOMAIN Plan(intent)
      <4>1. ok = DOMAIN responses
        BY <2>4, <3>1
      <4>2. Len(responses) \in DOMAIN responses
        BY <2>3
      <4>3. ~IsError(responses[Len(responses)])
        BY <2>4, <3>1, <4>2 DEF IsOk, IsError
      <4>4. Len(responses) = 3
        BY <2>1, <2>3, <4>3 DEF Ended
      <4> QED
        BY <2>3, <4>1, <4>4
    <3>2. ASSUME ok = DOMAIN Plan(intent) PROVE result.status = "ok"
      <4>1. DOMAIN responses \subseteq 1..3 /\ 1..3 \subseteq DOMAIN responses
        BY <2>3, <3>2
      <4>2. \A i \in DOMAIN responses : IsOk(responses[i])
        BY <2>3, <3>2, <4>1
      <4> QED
        BY <2>4, <4>2
    <3> QED
      BY <3>1, <3>2
  <2>6. DOMAIN responses \subseteq Nat
    BY <2>3
  <2>7. /\ DOMAIN result.data = UNION {DOMAIN responses[i].data : i \in ok}
        /\ \A i \in ok : \A k \in DOMAIN responses[i].data :
             result.data[k] = responses[i].data[k]
    <3>1. Holds(result.data, responses)
      BY <2>2, <2>3, <2>6, DataOfSeparate
    <3> QED
      BY <3>1 DEF Holds
  <2>8. {<<e.source, e.ids>> : e \in result.provenance}
          = {<<e.source, e.ids>> : e \in UNION {responses[i].provenance : i \in ok}}
    BY <2>2, <2>3, ProvenanceOfSeparate DEF Cited
  <2>9. DOMAIN result.data # {} => result.provenance # {}
    <3> SUFFICES ASSUME DOMAIN result.data # {} PROVE result.provenance # {}
      OBVIOUS
    <3>1. PICK i \in ok : DOMAIN responses[i].data # {}
      BY <2>7
    <3> QED
      BY <2>2, <2>3, <3>1, ProvenanceThere
  <2> QED
    BY <2>5, <2>7, <2>8, <2>9
<1>2. Inv /\ AnswerInv => AnswerAccountsForAgents
  BY <1>1 DEF AnswerAccountsForAgents
<1> QED
  BY <1>2, Invariant, AnswerInvariant, PTL

----------------------------------------------------------------------------
(* The orchestrator implements CompositeAnswer *)

\* The abstract state: the refinement mapping of Promise.
Phase ==
  CASE pc = "idle"       -> "idle"
    [] pc = "validating" -> "judging"
    [] pc = "answered"   -> "answered"
    [] OTHER             -> "working"

Steps ==
  IF \/ pc \in {"dispatching", "querying", "concluding"}
     \/ responses # <<>> \/ result = TimeoutRaised
  THEN Len(Plan(intent)) ELSE 0

Reports == [i \in DOMAIN responses |-> responses[i].status]

Seen ==
  IF result = NoResult THEN "none"
  ELSE IF result = TimeoutRaised THEN "timeout" ELSE result.status

(* Its reports are as many as the responses, and one more with each. *)
LEMMA ReportsAre ==
  ASSUME Inv
  PROVE  /\ DOMAIN Reports = 1..Len(responses) /\ Len(Reports) = Len(responses)
         /\ Reports = <<>> <=> responses = <<>>
         /\ \A i \in DOMAIN responses : Reports[i] = responses[i].status
<1>1. PICK n : n = Len(responses)
  OBVIOUS
<1>2. n \in Nat /\ DOMAIN responses = 1..n
  BY <1>1, AskedAndAnswered
<1>3. PICK f : f = Reports
  OBVIOUS
<1>4. f = [i \in 1..n |-> responses[i].status]
  BY <1>2, <1>3 DEF Reports
<1>5. DOMAIN f = 1..n /\ Len(f) = n /\ \A i \in 1..n : f[i] = responses[i].status
  BY <1>2, <1>4
<1>6. responses = <<>> <=> n = 0
  <2>1. IsSequence(responses)
    BY AskedAndAnswered
  <2> QED
    BY <1>1, <2>1 DEF IsSequence
<1>7. f = <<>> <=> n = 0
  BY <1>2, <1>4
<1> QED
  BY <1>1, <1>2, <1>3, <1>5, <1>6, <1>7

LEMMA ReportsGrow ==
  ASSUME Inv, NEW r, responses' = Append(responses, r)
  PROVE  Reports' = Append(Reports, r.status)
<1>1. PICK n : n = Len(responses)
  OBVIOUS
<1>2. n \in Nat /\ DOMAIN responses = 1..n /\ IsSequence(responses)
  BY <1>1, AskedAndAnswered
<1>3. /\ DOMAIN responses' = 1..(n + 1) /\ responses'[n + 1] = r
      /\ \A i \in 1..n : responses'[i] = responses[i]
  BY <1>1, <1>2, AppendExtends
<1>4. PICK f : f = Reports
  OBVIOUS
<1>5. f = [i \in 1..n |-> responses[i].status]
  BY <1>2, <1>4 DEF Reports
<1>6. PICK s : s = r.status
  OBVIOUS
<1>7. PICK S : S = {responses[i].status : i \in 1..n} \cup {s}
  OBVIOUS
<1>8. \A i \in 1..n : responses[i].status \in S
  BY <1>7
<1>9. f \in [1..n -> S] /\ s \in S
  BY <1>5, <1>7, <1>8
<1>10. f \in Seq(S) /\ Len(f) = n
  BY <1>2, <1>9
<1>11. Append(f, s) = [i \in 1..(n + 1) |-> IF i = n + 1 THEN s ELSE f[i]]
  <2>1. PICK h : h = Append(f, s)
    OBVIOUS
  <2>2. /\ h \in Seq(S) /\ Len(h) = n + 1 /\ h[n + 1] = s
        /\ \A i \in 1..n : h[i] = f[i]
    BY <1>2, <1>9, <1>10, <2>1
  <2>3. h = [i \in 1..(n + 1) |-> h[i]]
    BY <2>2
  <2>4. \A i \in 1..(n + 1) : h[i] = IF i = n + 1 THEN s ELSE f[i]
    BY <1>2, <2>2
  <2> QED
    BY <2>1, <2>3, <2>4
<1>12. PICK g : g = Reports'
  OBVIOUS
<1>13. g = [i \in 1..(n + 1) |-> responses'[i].status]
  BY <1>3, <1>12 DEF Reports
<1>14. \A i \in 1..(n + 1) : responses'[i].status = IF i = n + 1 THEN s ELSE f[i]
  <2> TAKE i \in 1..(n + 1)
  <2>1. CASE i = n + 1
    BY <1>3, <1>6, <2>1
  <2>2. CASE i # n + 1
    <3>1. i \in 1..n
      BY <1>2, <2>2
    <3> QED
      BY <1>3, <1>5, <2>2, <3>1
  <2> QED
    BY <2>1, <2>2
<1>15. g = [i \in 1..(n + 1) |-> IF i = n + 1 THEN s ELSE f[i]]
  BY <1>13, <1>14
<1> QED
  BY <1>4, <1>6, <1>11, <1>12, <1>15

(* The variables of the promise are the mapping's. *)
LEMMA PromiseState ==
  /\ Promise!promiseVars = <<Phase, Steps, Reports, Seen>>
  /\ Promise!Init <=> Phase = "idle" /\ Steps = 0 /\ Reports = <<>> /\ Seen = "none"
  /\ Promise!Finished <=>
       Len(Reports) = Steps \/ (Reports # <<>> /\ Reports[Len(Reports)] = "error")
  /\ Promise!Verdict =
       IF Steps = 1 THEN Reports[1]
       ELSE IF Len(Reports) = Steps /\ \A i \in 1..Steps : Reports[i] = "ok" THEN "ok"
       ELSE "error"
  BY DEF Promise!promiseVars, Promise!Init, Promise!Finished, Promise!Verdict,
         Phase, Steps, Reports, Seen

(* While agents are called, the sequence is not finished. *)
LEMMA NotFinished ==
  ASSUME Inv, pc \in {"dispatching", "querying"}
  PROVE  ~Promise!Finished
<1>1. Len(responses) < Len(Plan(intent)) /\ Len(Plan(intent)) \in 1..3
      /\ \A i \in DOMAIN responses : ~IsError(responses[i])
  BY PlanShape DEF Inv, FlowInv
<1>2. Len(responses) \in Nat /\ DOMAIN responses = 1..Len(responses)
  BY AskedAndAnswered
<1>3. Len(Reports) # Steps
  BY <1>1, <1>2, ReportsAre DEF Steps
<1>4. Reports # <<>> => Reports[Len(Reports)] # "error"
  <2> SUFFICES ASSUME Reports # <<>> PROVE Reports[Len(Reports)] # "error"
    OBVIOUS
  <2>1. IsSequence(responses) /\ responses # <<>>
    BY AskedAndAnswered, ReportsAre
  <2>2. Len(responses) \in DOMAIN responses
    BY <1>2, <2>1 DEF IsSequence
  <2> QED
    BY <1>1, <2>2, ReportsAre DEF IsError
<1> QED
  BY <1>3, <1>4, PromiseState

(* A response that is collected is a report: nothing has ended before it. *)
LEMMA CollectReports ==
  ASSUME Inv, Inv', pc \in {"dispatching", "querying"}, NEW p, NEW r, Collect(p, r)
  PROVE  Promise!Report
<1>1. /\ responses' = Append(responses, r) /\ UNCHANGED <<intent, result>>
      /\ pc' \in {"dispatching", "concluding"}
  BY DEF Collect, requestVars
<1>2. PICK s : s = r.status
  OBVIOUS
<1>3. Reports' = Append(Reports, s)
  BY <1>1, <1>2, ReportsGrow
<1>4. s \in {"ok", "empty", "error"}
  <2>1. PICK n : n = Len(responses)
    OBVIOUS
  <2>2. n \in Nat /\ IsSequence(responses)
    BY <2>1, AskedAndAnswered
  <2>3. n + 1 \in DOMAIN responses' /\ responses'[n + 1] = r
    BY <1>1, <2>1, <2>2, AppendExtends
  <2>4. \A i \in DOMAIN responses' : TypedReply(responses'[i])
    BY DEF Inv, DataInv
  <2>5. TypedReply(r)
    BY <2>3, <2>4
  <2> QED
    BY <1>2, <2>5 DEF TypedReply, IsEnvelope, Statuses
<1>5. Phase = "working" /\ Phase' = "working" /\ Steps = Len(Plan(intent))
      /\ Steps' = Steps /\ Seen' = Seen
  BY <1>1 DEF Phase, Steps, Seen
<1>6. ~Promise!Finished
  BY NotFinished
<1> QED
  BY <1>3, <1>4, <1>5, <1>6 DEF Promise!Report, Promise!Reported, Phase, Steps, Reports, Seen

(* The conclusion is the verdict on the reports. *)
LEMMA ConclusionIsVerdict ==
  ASSUME Inv, AnswerInv, pc = "concluding"
  PROVE  Promise!Finished /\ Conclusion.status = Promise!Verdict
<1>1. Ended /\ IsSequence(responses) /\ Steps = Len(Plan(intent))
  BY AskedAndAnswered DEF AnswerInv, Steps
<1>2. PICK n : n = Len(responses)
  OBVIOUS
<1>3. n \in Nat /\ DOMAIN responses = 1..n /\ n # 0
  BY <1>1, <1>2 DEF Ended, IsSequence
<1>4. /\ Len(Reports) = n /\ Reports # <<>>
      /\ \A i \in 1..n : Reports[i] = responses[i].status
  BY <1>1, <1>2, <1>3, ReportsAre DEF Ended
<1>5. Promise!Finished
  BY <1>1, <1>2, <1>3, <1>4, PromiseState DEF Ended, IsError
<1>6. CASE IsMixed
  <2>1. Len(Plan(intent)) = 3 /\ n \in 1..3
    BY <1>1, <1>2, <1>6, MixedAreSeparate DEF Ended
  <2>2. PICK a : a = AggregateMultiAgentResponses(responses)
    OBVIOUS
  <2>3. Conclusion.status = AggregateStatus(responses)
    BY <1>6, <2>2, AggregateFields DEF Conclusion
  <2>4. PICK f : f = Reports
    OBVIOUS
  <2>5. Len(f) = n /\ \A i \in 1..n : f[i] = responses[i].status
    BY <1>4, <2>4
  <2>6. Promise!Verdict =
          IF n = 3 /\ \A i \in 1..3 : f[i] = "ok" THEN "ok" ELSE "error"
    <3>1. PICK k : k = Steps
      OBVIOUS
    <3>2. k = 3
      BY <1>1, <2>1, <3>1
    <3>3. Promise!Verdict =
            IF k = 1 THEN f[1]
            ELSE IF Len(f) = k /\ \A i \in 1..k : f[i] = "ok" THEN "ok" ELSE "error"
      BY <2>4, <3>1, PromiseState
    <3> QED
      BY <2>5, <3>2, <3>3
  <2>7. CASE \A i \in 1..n : responses[i].status = "ok"
    <3>1. ~IsError(responses[n])
      BY <1>3, <2>7 DEF IsError
    <3>2. n = 3
      BY <1>1, <1>2, <2>1, <3>1 DEF Ended
    <3>3. AggregateStatus(responses) = "ok"
      BY <1>3, <2>7 DEF AggregateStatus, IsOk
    <3>4. \A i \in 1..3 : f[i] = "ok"
      BY <2>7, <2>5, <3>2
    <3>5. Promise!Verdict = "ok"
      BY <2>6, <3>2, <3>4
    <3> QED
      BY <1>5, <2>3, <3>3, <3>5
  <2>8. CASE ~ \A i \in 1..n : responses[i].status = "ok"
    <3>1. AggregateStatus(responses) = "error"
      BY <1>3, <2>8 DEF AggregateStatus, IsOk
    <3>2. ~(n = 3 /\ \A i \in 1..3 : f[i] = "ok")
      BY <2>8, <2>5
    <3>3. Promise!Verdict = "error"
      BY <2>6, <3>2
    <3> QED
      BY <1>5, <2>3, <3>1, <3>3
  <2> QED
    BY <1>5, <2>7, <2>8
<1>7. CASE ~IsMixed
  <2>1. Steps = 1
    BY <1>1, <1>7, PlanShape DEF IsMixed
  <2>2. Promise!Verdict = responses[1].status
    BY <1>3, <1>4, <2>1, PromiseState
  <2>3. ErrorResponse(<<"agent execution failed">>).status = "error"
    BY OtherFields
  <2>4. Conclusion.status = responses[1].status
    BY <1>7, <2>3 DEF Conclusion, IsError
  <2> QED
    BY <1>5, <2>2, <2>4
<1> QED
  BY <1>6, <1>7

(* A timeout is not the absence of a result. *)
LEMMA TimeoutIsAResult == TimeoutRaised # NoResult
  BY DEF TimeoutRaised, NoResult

(* Every step of the orchestrator is a step of the promise, or does not show. *)
LEMMA StepKeepsPromise ==
  Inv /\ Inv' /\ AnswerInv /\ [Next]_vars => [Promise!Next]_(Promise!promiseVars)
<1> SUFFICES ASSUME Inv, Inv', AnswerInv, [Next]_vars
             PROVE  Promise!Next \/ UNCHANGED Promise!promiseVars
  OBVIOUS
<1> USE DEF requestVars
<1>1. CASE Receive
  <2>1. /\ pc = "idle" /\ pc' = "validating" /\ responses = <<>> /\ responses' = <<>>
        /\ result = NoResult /\ result' = NoResult
    BY <1>1 DEF Receive, Inv, FlowInv
  <2>2. Promise!Receive
    BY <2>1, TimeoutIsAResult DEF Promise!Receive
  <2> QED
    BY <2>2 DEF Promise!Next
<1>2. CASE RejectRequest
  <2>1. /\ pc = "validating" /\ pc' = "answered" /\ responses = <<>> /\ responses' = <<>>
        /\ result = NoResult /\ result' = Refusal
    BY <1>2 DEF RejectRequest, Inv, FlowInv
  <2>2. Refusal.status = "error" /\ Refusal # TimeoutRaised /\ Refusal # NoResult
    <3>1. IsEnvelope(Refusal) /\ Refusal.status = "error"
      BY BuilderEnvelopes DEF Refusal
    <3> QED
      BY <3>1, EnvelopeIsNoException
  <2>3. Promise!TurnDown
    BY <2>1, <2>2, TimeoutIsAResult DEF Promise!TurnDown
  <2> QED
    BY <2>3 DEF Promise!Next, Promise!Serve
<1>3. CASE AcceptRequest
  <2>1. /\ pc = "validating" /\ pc' = "dispatching" /\ responses = <<>> /\ responses' = <<>>
        /\ result' = result /\ intent' = intent
    BY <1>3 DEF AcceptRequest, Inv, FlowInv
  <2>2. Len(Plan(intent)) \in {1, 3}
    <3>1. CASE intent = "mixed"
      BY <3>1 DEF Plan, MixedIntentSequence
    <3>2. CASE intent # "mixed"
      BY <3>2, PlanShape
    <3> QED
      BY <3>1, <3>2
  <2>3. Promise!TakeOn
    BY <2>1, <2>2 DEF Promise!TakeOn
  <2> QED
    BY <2>3 DEF Promise!Next, Promise!Serve
<1>4. CASE ExpireDeadline
  <2>1. /\ pc = "dispatching" /\ pc' = "answered" /\ now >= Deadline
        /\ UNCHANGED <<intent, responses>> /\ result' = TimeoutRaised
    BY <1>4 DEF ExpireDeadline, Late
  <2>3. ~Promise!Finished
    BY <2>1, NotFinished
  <2>4. /\ Phase = "working" /\ Phase' = "answered" /\ Steps' = Steps
        /\ Reports' = Reports
    BY <2>1 DEF Phase, Steps, Reports
  <2>5. Seen' = "timeout"
    BY <2>1, TimeoutIsAResult DEF Seen
  <2>6. Promise!GiveUp
    BY <2>3, <2>4, <2>5 DEF Promise!GiveUp, Phase, Steps, Reports, Seen
  <2> QED
    BY <2>6 DEF Promise!Next, Promise!Serve
<1>5. CASE AgentRefuses
  <2>1. pc = "dispatching" /\ Collect(StepPayload, Refusal)
    BY <1>5 DEF AgentRefuses
  <2> QED
    BY <2>1, CollectReports DEF Promise!Next, Promise!Serve
<1>6. CASE AgentQueries \/ ClientSteps
  <2>1. /\ pc \in {"dispatching", "querying"} /\ pc' = "querying"
        /\ UNCHANGED <<intent, responses, result>>
    BY <1>6 DEF AgentQueries, ClientSteps
  <2>2. Phase' = Phase /\ Steps' = Steps /\ Reports' = Reports /\ Seen' = Seen
    BY <2>1 DEF Phase, Steps, Reports, Seen
  <2> QED
    BY <2>2 DEF Promise!promiseVars, Phase, Steps, Reports, Seen
<1>7. CASE AgentReplies
  <2>1. PICK r : pc = "querying" /\ Collect(asked[StepNo], r)
    BY <1>7 DEF AgentReplies
  <2> QED
    BY <2>1, CollectReports DEF Promise!Next, Promise!Serve
<1>8. CASE Conclude
  <2>1. /\ pc = "concluding" /\ pc' = "answered" /\ result' = Conclusion
        /\ UNCHANGED <<intent, responses>>
    BY <1>8 DEF Conclude
  <2>2. Promise!Finished /\ Conclusion.status = Promise!Verdict
    BY <2>1, ConclusionIsVerdict
  <2>3. Seen' = Conclusion.status
    BY <2>1, ConclusionIsEnvelope, EnvelopeIsNoException DEF Seen
  <2>4. responses # <<>>
    BY <2>1 DEF Inv, FlowInv
  <2>5. /\ Phase = "working" /\ Phase' = "answered" /\ Steps' = Steps
        /\ Reports' = Reports
    BY <2>1, <2>4 DEF Phase, Steps, Reports
  <2>6. Promise!Answer
    BY <2>2, <2>3, <2>5 DEF Promise!Answer, Phase, Steps, Reports, Seen
  <2> QED
    BY <2>6 DEF Promise!Next, Promise!Serve
<1>9. CASE Discard
  <2>1. /\ pc = "answered" /\ pc' = "idle" /\ responses' = <<>> /\ result' = NoResult
    BY <1>9 DEF Discard
  <2>2. Reports' = <<>>
    BY <2>1 DEF Reports
  <2>3. Phase = "answered" /\ Phase' = "idle" /\ Steps' = 0 /\ Seen' = "none"
    BY <2>1, TimeoutIsAResult DEF Phase, Steps, Seen
  <2>4. Promise!Forget
    BY <2>2, <2>3 DEF Promise!Forget, Phase, Steps, Reports, Seen
  <2> QED
    BY <2>4 DEF Promise!Next
<1>10. CASE UNCHANGED vars
  <2>1. UNCHANGED <<pc, intent, responses, result>>
    BY <1>10 DEF vars
  <2> QED
    BY <2>1 DEF Promise!promiseVars
<1> QED
  BY <1>1, <1>2, <1>3, <1>4, <1>5, <1>6, <1>7, <1>8, <1>9, <1>10 DEF Next, Execute

(* The orchestrator implements CompositeAnswer: for every deadline, graph and failure, an *)
(* error is the last report, the verdict is that of the reports, and giving up happens    *)
(* before an agent is called.  (The fairness part of ImplementsCompositeAnswer is TLC's.)    *)
THEOREM OrchestratorKeepsPromise == Spec => Promise!Spec
<1>1. Init => Promise!Init
  <2> SUFFICES ASSUME Init PROVE Promise!Init
    OBVIOUS
  <2>1. pc = "idle" /\ responses = <<>> /\ result = NoResult
    BY DEF Init
  <2> QED
    BY <2>1, TimeoutIsAResult DEF Promise!Init
<1> QED
  BY <1>1, StepKeepsPromise, Invariant, AnswerInvariant, PTL DEF Spec, Promise!Spec
=============================================================================
