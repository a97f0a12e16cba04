------------------------- MODULE OrchestratorProofs -------------------------
(***************************************************************************)
(* The orchestrator, for every deadline, every number of retries and every *)
(* set of weaknesses, techniques and frameworks.                           *)
(***************************************************************************)
EXTENDS OrchestratorProperties, WellFoundedInduction, TLAPS

\* What is proved of the client alone, for the client the orchestrator is composed with.
ClientFacts == INSTANCE Neo4jClientProofs

----------------------------------------------------------------------------
(* Sequences and minima *)

(* A non-empty set of natural numbers has a least element, so Min picks a member. *)
LEMMA MinIsMember ==
  ASSUME NEW S \in SUBSET Nat, S # {}
  PROVE  Min(S) \in S
<1> DEFINE R == {ss \in Nat \X Nat : ss[1] < ss[2]}
<1>0. IsWellFoundedOn(R, Nat)
  BY NatLessThanWellFounded DEF OpToRel
<1>1. PICK x \in S : \A y \in S : ~(<<y, x>> \in R)
  <2> HIDE DEF R
  <2> QED
    BY <1>0, WFMin
<1>2. \A y \in S : x <= y
  <2> SUFFICES ASSUME NEW y \in S PROVE x <= y
    OBVIOUS
  <2>1. x \in Nat /\ y \in Nat /\ ~(<<y, x>> \in R)
    BY <1>1
  <2>2. ~(y < x)
    BY <2>1
  <2> QED
    BY <2>1, <2>2
<1> QED
  BY <1>1, <1>2 DEF Min

\* s is a finite sequence, of whatever elements.
IsSequence(s) == s \in Seq({s[i] : i \in DOMAIN s})

(* Appending keeps a sequence one, and the elements that were there. *)
LEMMA AppendExtends ==
  ASSUME NEW s, IsSequence(s), NEW e
  PROVE  /\ IsSequence(Append(s, e))
         /\ Len(s) \in Nat
         /\ DOMAIN s = 1..Len(s)
         /\ Len(Append(s, e)) = Len(s) + 1
         /\ DOMAIN Append(s, e) = 1..(Len(s) + 1)
         /\ Append(s, e)[Len(s) + 1] = e
         /\ \A i \in DOMAIN s : Append(s, e)[i] = s[i]
<1> DEFINE S == {s[i] : i \in DOMAIN s}
<1> DEFINE T == S \cup {e}
<1> DEFINE t == Append(s, e)
<1>1. s \in Seq(S)
  BY DEF IsSequence
<1>2. s \in Seq(T) /\ e \in T
  <2> HIDE DEF S
  <2> QED
    BY <1>1
<1>3. /\ t \in Seq(T)
      /\ Len(s) \in Nat
      /\ DOMAIN s = 1..Len(s)
      /\ Len(t) = Len(s) + 1
      /\ DOMAIN t = 1..(Len(s) + 1)
      /\ t[Len(s) + 1] = e
      /\ \A i \in DOMAIN s : t[i] = s[i]
  <2> HIDE DEF T
  <2> QED
    BY <1>2
<1>4. t = [i \in 1..Len(t) |-> t[i]] /\ Len(t) \in Nat
  <2> HIDE DEF T, t
  <2> QED
    BY <1>3
<1>5. IsSequence(t)
  <2> DEFINE U == {t[j] : j \in DOMAIN t}
  <2>1. \A i \in 1..Len(t) : t[i] \in U
    BY <1>3
  <2> HIDE DEF U, t
  <2>2. t \in [1..Len(t) -> U]
    BY <1>4, <2>1
  <2>3. t \in Seq(U)
    BY <1>4, <2>2
  <2> QED
    BY <2>3 DEF U, IsSequence
<1> QED
  BY <1>3, <1>5

----------------------------------------------------------------------------
(* The client, as a part of the orchestrator *)

(* The constants of the orchestrator's client are as Neo4jClient assumes them. *)
LEMMA ClientAssumptions ==
  /\ ClientFacts!RetriesAssumption
  /\ ClientFacts!BackoffAssumption
  /\ ClientFacts!AttemptAssumption
  BY ClientAssumption
  DEF ClientFacts!RetriesAssumption, ClientFacts!BackoffAssumption,
      ClientFacts!AttemptAssumption

(* What the orchestrator composes with is the client that ClientFacts speaks of. *)
LEMMA SameClient ==
  /\ Client!ClientInit = ClientFacts!ClientInit
  /\ Client!Query = ClientFacts!Query
  /\ Client!AttemptEnds = ClientFacts!AttemptEnds
  /\ Client!ClientTypeOK = ClientFacts!ClientTypeOK
  /\ Client!QueryTicks = ClientFacts!QueryTicks
<1>1. Client!QueryTicks = ClientFacts!QueryTicks
  BY DEF Client!QueryTicks, ClientFacts!QueryTicks
<1> USE DEF Client!DriverExceptions, ClientFacts!DriverExceptions, Client!Records,
            ClientFacts!Records, Client!TimedOut, ClientFacts!TimedOut, Client!Failed,
            ClientFacts!Failed, Client!Pending, ClientFacts!Pending
<1>2. Client!ClientInit = ClientFacts!ClientInit
  BY DEF Client!ClientInit, ClientFacts!ClientInit
<1>3. Client!Query = ClientFacts!Query
  BY DEF Client!Query, ClientFacts!Query
<1>4. Client!ClientTypeOK = ClientFacts!ClientTypeOK
  BY DEF Client!ClientTypeOK, ClientFacts!ClientTypeOK, Client!Outcomes,
         ClientFacts!Outcomes
<1>5. Client!AttemptEnds = ClientFacts!AttemptEnds
  BY DEF Client!AttemptEnds, ClientFacts!AttemptEnds, Client!ReturnRecords,
         ClientFacts!ReturnRecords, Client!RaiseTimeout, ClientFacts!RaiseTimeout,
         Client!Retry, ClientFacts!Retry, Client!RaiseFailure,
         ClientFacts!RaiseFailure, Client!Return, ClientFacts!Return,
         Client!MayRetry, ClientFacts!MayRetry, Client!Backoff, ClientFacts!Backoff
<1> QED
  BY <1>1, <1>2, <1>3, <1>4, <1>5

(* A step of the client keeps its invariant. *)
LEMMA ClientKeepsInv ==
  ClientFacts!ClientInv /\ (Client!Query \/ Client!AttemptEnds \/ UNCHANGED clientVars)
    => ClientFacts!ClientInv'
<1> SUFFICES ASSUME ClientFacts!ClientInv,
                    Client!Query \/ Client!AttemptEnds \/ UNCHANGED clientVars
             PROVE  ClientFacts!ClientInv'
  OBVIOUS
<1>1. [ClientFacts!ClientNext]_(ClientFacts!clientVars)
  BY SameClient DEF ClientFacts!ClientNext, clientVars, ClientFacts!clientVars
<1> QED
  BY <1>1, ClientAssumptions, ClientFacts!ClientInvStep

----------------------------------------------------------------------------
(* Envelopes *)

\* What the orchestrator reads from an envelope is of the kind it expects.
TypedData(r) ==
  /\ "vulnerabilities" \in DOMAIN r.data =>
       /\ DOMAIN r.data["vulnerabilities"] \subseteq Nat
       /\ \A i \in DOMAIN r.data["vulnerabilities"] :
            r.data["vulnerabilities"][i] \in Cwes \cup {NoId}
  /\ "techniques" \in DOMAIN r.data => r.data["techniques"] \in SUBSET Techs

TypedReply(r) == IsEnvelope(r) /\ TypedData(r)

(* The envelopes of ResponseBuilder have the five fields, and are not an exception. *)
LEMMA BuilderEnvelopes ==
  ASSUME NEW data, NEW provenance, NEW confidence, NEW errors
  PROVE  /\ IsEnvelope(OkResponse(data, provenance, confidence))
         /\ IsEnvelope(EmptyResponse(data))
         /\ IsEnvelope(ErrorResponse(errors))
         /\ OkResponse(data, provenance, confidence).data = data
         /\ EmptyResponse(data).data = data
         /\ ErrorResponse(errors).data = NoData
         /\ ErrorResponse(errors).status = "error"
  BY DEF IsEnvelope, OkResponse, EmptyResponse, ErrorResponse, Statuses

LEMMA EnvelopeIsNoException ==
  ASSUME NEW r, IsEnvelope(r)
  PROVE  r # TimeoutRaised /\ r # NoResult
<1>1. DOMAIN TimeoutRaised = {"exception"} /\ DOMAIN NoResult = {"exception"}
  BY DEF TimeoutRaised, NoResult
<1>2. "status" \in DOMAIN r
  BY DEF IsEnvelope
<1> QED
  BY <1>1, <1>2

LEMMA ErrorsTyped ==
  ASSUME NEW errors
  PROVE  TypedReply(ErrorResponse(errors)) /\ IsError(ErrorResponse(errors))
<1>1. DOMAIN NoData = {}
  BY DEF NoData
<1> QED
  BY <1>1, BuilderEnvelopes DEF TypedReply, TypedData, IsError

(* Whatever the query does, what an agent returns is a well-formed envelope. *)
LEMMA RepliesTyped ==
  ASSUME NEW agent \in Agents, NEW o, NEW r \in Replies(agent, o)
  PROVE  TypedReply(r)
<1>1. CASE r \in {QueryError, InternalError}
  BY <1>1, ErrorsTyped DEF QueryError, InternalError
<1>2. CASE r = EmptyEnvelope(agent)
  <2>1. PICK d : /\ r = EmptyResponse(d)
                 /\ \/ d = [k \in {"vulnerabilities"} |-> <<>>]
                    \/ d = [k \in {"techniques"} |-> {}]
                    \/ d = [k \in {"coverage"} |-> {}]
    BY <1>2 DEF EmptyEnvelope, Agents
  <2>2. r.data = d /\ IsEnvelope(r)
    BY <2>1, BuilderEnvelopes
  <2> QED
    BY <2>1, <2>2 DEF TypedReply, TypedData
<1>3. CASE r \in OkResponses(agent, o.rows)
  <2>1. CASE agent = "systems"
    <3>1. PICK n \in 1..o.rows : \E w \in [1..n -> Cwes \cup {NoId}] : r = SystemsOk(w)
      BY <1>3, <2>1 DEF OkResponses
    <3>2. PICK w \in [1..n -> Cwes \cup {NoId}] : r = SystemsOk(w)
      BY <3>1
    <3>3. r.data = [k \in {"vulnerabilities"} |-> w] /\ IsEnvelope(r)
      BY <3>2, BuilderEnvelopes DEF SystemsOk
    <3> QED
      BY <3>2, <3>3 DEF TypedReply, TypedData
  <2>2. CASE agent = "offensive"
    <3>1. PICK t \in SUBSET Techs : r = OffensiveOk(t)
      BY <1>3, <2>2 DEF OkResponses
    <3>2. \E p : r = OkResponse([k \in {"techniques"} |-> t], p, <<10, 1>>)
      BY <3>1, Zenon DEF OffensiveOk
    <3>3. r.data = [k \in {"techniques"} |-> t] /\ IsEnvelope(r)
      BY <3>2, BuilderEnvelopes
    <3> QED
      BY <3>1, <3>3 DEF TypedReply, TypedData
  <2>3. CASE agent = "defensive"
    <3>1. PICK f \in SUBSET Frameworks : r = DefensiveOk(f)
      BY <1>3, <2>3 DEF OkResponses
    <3>2. r.data = [k \in {"coverage"} |-> f] /\ IsEnvelope(r)
      BY <3>1, BuilderEnvelopes DEF DefensiveOk
    <3> QED
      BY <3>1, <3>2 DEF TypedReply, TypedData
  <2> QED
    BY <2>1, <2>2, <2>3 DEF Agents
<1> QED
  BY <1>1, <1>2, <1>3 DEF Replies, Validated

----------------------------------------------------------------------------
(* Payloads *)

LEMMA UpdateTyped ==
  ASSUME NEW p \in Payloads, NEW q \in Payloads
  PROVE  Update(p, q) \in Payloads
<1>1. PICK D \in SUBSET Fields : p \in [D -> Values]
  BY DEF Payloads
<1>2. PICK E \in SUBSET Fields : q \in [E -> Values]
  BY DEF Payloads
<1>3. Update(p, q) \in [D \cup E -> Values]
  BY <1>1, <1>2 DEF Update
<1> QED
  BY <1>1, <1>2, <1>3 DEF Payloads

LEMMA OnlyTyped ==
  ASSUME NEW f \in Fields, NEW v \in Values
  PROVE  Only(f, v) \in Payloads
<1>1. Only(f, v) \in [{f} -> Values]
  BY DEF Only
<1> QED
  BY <1>1 DEF Payloads

LEMMA EmptyPayloadTyped == EmptyPayload \in Payloads
<1>1. EmptyPayload \in [{} -> Values]
  BY DEF EmptyPayload
<1> QED
  BY <1>1 DEF Payloads

LEMMA RequestPayloadsTyped == RequestPayloads \subseteq Payloads
<1> SUFFICES ASSUME NEW p \in RequestPayloads PROVE p \in Payloads
  OBVIOUS
<1>1. PICK D \in SUBSET RequestFields : p \in [D -> Values]
  BY DEF RequestPayloads
<1> QED
  BY <1>1, RequestFieldsAssumption DEF Payloads

(* The ids read from an agent's envelope are ids of the graph. *)
LEMMA ExtractCweTyped ==
  ASSUME NEW r, TypedReply(r)
  PROVE  ExtractCweId(r) \in Cwes \cup {NoId}
<1>1. CASE "vulnerabilities" \notin DOMAIN r.data
  BY <1>1 DEF ExtractCweId
<1>2. CASE "vulnerabilities" \in DOMAIN r.data
  <2> DEFINE v == r.data["vulnerabilities"]
  <2> DEFINE found == {i \in DOMAIN v : v[i] # NoId}
  <2>1. DOMAIN v \subseteq Nat /\ \A i \in DOMAIN v : v[i] \in Cwes \cup {NoId}
    BY <1>2 DEF TypedReply, TypedData
  <2>2. ExtractCweId(r) = IF found = {} THEN NoId ELSE v[Min(found)]
    BY <1>2 DEF ExtractCweId
  <2>3. found # {} => Min(found) \in found
    <3>1. found \in SUBSET Nat
      BY <2>1
    <3> HIDE DEF found
    <3> QED
      BY <3>1, MinIsMember
  <2> QED
    BY <2>1, <2>2, <2>3
<1> QED
  BY <1>1, <1>2

LEMMA ExtractAttackTyped ==
  ASSUME NEW r, TypedReply(r)
  PROVE  ExtractAttackId(r) \in Techs \cup {NoId}
<1>1. CASE "techniques" \in DOMAIN r.data /\ r.data["techniques"] # {}
  <2>1. r.data["techniques"] \in SUBSET Techs
    BY <1>1 DEF TypedReply, TypedData
  <2>2. Min(r.data["techniques"]) \in r.data["techniques"]
    BY <1>1, <2>1, TechsAssumption, MinIsMember
  <2> QED
    BY <1>1, <2>1, <2>2 DEF ExtractAttackId
<1>2. CASE ~("techniques" \in DOMAIN r.data /\ r.data["techniques"] # {})
  BY <1>2 DEF ExtractAttackId
<1> QED
  BY <1>1, <1>2

(* A context derived from an agent's envelope is a payload. *)
LEMMA ContextTyped ==
  ASSUME NEW subIntent, NEW r, TypedReply(r)
  PROVE  ExtractMixedContext(subIntent, r) \in Payloads
<1>1. ExtractCweId(r) # NoId => Only("cweId", ExtractCweId(r)) \in Payloads
  BY ExtractCweTyped, OnlyTyped DEF Fields, Values
<1>2. ExtractAttackId(r) # NoId => Only("attackId", ExtractAttackId(r)) \in Payloads
  BY ExtractAttackTyped, OnlyTyped DEF Fields, Values
<1> QED
  BY <1>1, <1>2, EmptyPayloadTyped DEF ExtractMixedContext

LEMMA FirstUsableTyped ==
  ASSUME NEW c \in Payloads, NEW keys, DOMAIN keys \subseteq Nat
  PROVE  FirstUsable(c, keys) \in Payloads
<1> DEFINE usable == {i \in DOMAIN keys : Truthy(c, keys[i])}
<1>1. CASE usable = {}
  BY <1>1 DEF FirstUsable
<1>2. CASE usable # {}
  <2>1. Min(usable) \in usable
    <3>1. usable \in SUBSET Nat
      OBVIOUS
    <3> HIDE DEF usable
    <3> QED
      BY <1>2, <3>1, MinIsMember
  <2> DEFINE k == keys[Min(usable)]
  <2>2. k \in DOMAIN c
    BY <2>1 DEF Truthy
  <2>3. FirstUsable(c, keys) = Only(k, c[k])
    BY <1>2 DEF FirstUsable
  <2> HIDE DEF k
  <2>4. k \in Fields /\ c[k] \in Values
    BY <2>2 DEF Payloads
  <2> QED
    BY <2>3, <2>4, OnlyTyped
<1> QED
  BY <1>1, <1>2

(* The payload derived for a step of a mixed request is a payload. *)
LEMMA MixedPayloadTyped ==
  ASSUME NEW s \in {"vuln_lookup", "attack_path", "coverage_map"},
         NEW c \in Payloads, NEW prior,
         s # "vuln_lookup" => TypedReply(prior[Len(prior)])
  PROVE  BuildMixedPayload(s, c, prior) \in Payloads
<1> DEFINE last == prior[Len(prior)]
<1> DEFINE derived(f, id) ==
      IF Truthy(c, f) \/ id = NoId THEN c ELSE Update(c, Only(f, id))
<1>1. CASE s = "vuln_lookup"
  <2>1. DOMAIN TemplateOrder \subseteq Nat
    BY DEF TemplateOrder
  <2>2. BuildMixedPayload(s, c, prior) = FirstUsable(c, TemplateOrder)
    BY <1>1 DEF BuildMixedPayload
  <2> QED
    BY <2>1, <2>2, FirstUsableTyped
<1>2. CASE s = "attack_path"
  <2>1. derived("cweId", ExtractCweId(last)) \in Payloads
    BY <1>2, ExtractCweTyped, OnlyTyped, UpdateTyped DEF Fields, Values
  <2>2. BuildMixedPayload(s, c, prior) =
          FirstUsable(derived("cweId", ExtractCweId(last)), <<"cweId", "cveId">>)
    BY <1>2 DEF BuildMixedPayload
  <2>3. DOMAIN <<"cweId", "cveId">> \subseteq Nat
    OBVIOUS
  <2> HIDE DEF derived
  <2> QED
    BY <2>1, <2>2, <2>3, FirstUsableTyped
<1>3. CASE s = "coverage_map"
  <2>1. derived("attackId", ExtractAttackId(last)) \in Payloads
    BY <1>3, ExtractAttackTyped, OnlyTyped, UpdateTyped DEF Fields, Values
  <2>2. BuildMixedPayload(s, c, prior) =
          FirstUsable(derived("attackId", ExtractAttackId(last)), <<"attackId">>)
    BY <1>3 DEF BuildMixedPayload
  <2>3. DOMAIN <<"attackId">> \subseteq Nat
    OBVIOUS
  <2> HIDE DEF derived
  <2> QED
    BY <2>1, <2>2, <2>3, FirstUsableTyped
<1> QED
  BY <1>1, <1>2, <1>3

----------------------------------------------------------------------------
(* The invariant *)

\* Where execute() is, and what it has so far: the part of the invariant about control.
FlowInv ==
  /\ pc \in {"idle", "validating", "dispatching", "querying", "concluding", "answered"}
  /\ IsSequence(asked) /\ IsSequence(responses)
  /\ now \in Nat
  /\ pc \in {"idle", "validating"} => responses = <<>> /\ asked = <<>> /\ now = 0
  /\ pc \in {"dispatching", "querying", "concluding"} => intent \in ValidIntents
  /\ pc \in {"dispatching", "querying"} =>
       /\ Len(responses) < Len(Plan(intent))
       /\ \A i \in DOMAIN responses : ~IsError(responses[i])
  /\ pc \in {"dispatching", "querying", "concluding"} =>
       PayloadAccepted(intent, payload)
  /\ pc = "querying" => now < Deadline
  /\ pc = "concluding" => responses # <<>> /\ ~Unfinished
  /\ pc # "answered" => result = NoResult
  /\ asked # <<>> => 0 < Deadline

\* Why execute() has ended: the request was turned down, the budget was spent, or the
\* agents had been asked.
EndInv ==
  pc = "answered" =>
    \/ ~Accepted /\ result = Refusal /\ responses = <<>>
    \/ Accepted /\ Unfinished /\ result = TimeoutRaised /\ now >= Deadline
    \/ Accepted /\ ~Unfinished /\ IsEnvelope(result) /\ responses # <<>>

\* What payloads and envelopes are made of.
DataInv ==
  /\ intent \in Intents
  /\ payload \in Payloads
  /\ ctx \in Payloads
  /\ \A i \in DOMAIN asked : asked[i] \in Payloads
  /\ \A i \in DOMAIN responses : TypedReply(responses[i])
  /\ result = NoResult \/ result = TimeoutRaised \/ IsEnvelope(result)

Inv ==
  /\ FlowInv
  /\ DataInv
  /\ StopsAtFirstError
  /\ EndInv
  /\ OverrunBounded
  /\ ClientFacts!ClientInv

(* A request takes one step or three, and each is one of the three sub-intents. *)
LEMMA PlanShape ==
  ASSUME NEW t
  PROVE  /\ Len(Plan(t)) \in 1..3
         /\ t # "mixed" => Len(Plan(t)) = 1
         /\ t \in ValidIntents => \A n \in 1..Len(Plan(t)) :
              /\ Plan(t)[n] \in {"vuln_lookup", "attack_path", "coverage_map"}
              /\ t = "mixed" /\ n = 1 => Plan(t)[n] = "vuln_lookup"
<1>1. CASE t = "mixed"
  <2>1. Plan(t) = <<"vuln_lookup", "attack_path", "coverage_map">>
    BY <1>1 DEF Plan, MixedIntentSequence
  <2> QED
    BY <1>1, <2>1
<1>2. CASE t # "mixed"
  <2>1. Plan(t) = <<t>>
    BY <1>2 DEF Plan
  <2> QED
    BY <1>2, <2>1 DEF ValidIntents
<1> QED
  BY <1>1, <1>2

(* The bound on a query is a natural number. *)
LEMMA QueryTicksNat == Client!QueryTicks \in Nat
<1>1. MaxRetries \in Nat /\ AttemptTicks \in Nat /\ MaxBackoff \in Nat
  BY ClientAssumption
<1>2. MaxRetries * (AttemptTicks + MaxBackoff) \in Nat
  BY <1>1
<1> QED
  BY <1>1, <1>2 DEF Client!QueryTicks

(* At a step of the plan, the agent is one of the three and its payload well typed. *)
LEMMA StepTyped ==
  FlowInv /\ DataInv /\ pc \in {"dispatching", "querying"}
    => Agent \in Agents /\ StepPayload \in Payloads /\ StepNo \in 1..Len(Plan(intent))
<1> SUFFICES ASSUME FlowInv, DataInv, pc \in {"dispatching", "querying"}
             PROVE  /\ Agent \in Agents
                    /\ StepPayload \in Payloads
                    /\ StepNo \in 1..Len(Plan(intent))
  OBVIOUS
<1>1. Len(responses) \in Nat /\ DOMAIN responses = 1..Len(responses)
  BY DEF FlowInv, IsSequence
<1>2. StepNo \in 1..Len(Plan(intent)) /\ intent \in ValidIntents
  BY <1>1, PlanShape DEF FlowInv, StepNo
<1>3. SubIntent \in {"vuln_lookup", "attack_path", "coverage_map"}
  BY <1>2, PlanShape DEF SubIntent
<1>4. Agent \in Agents
  BY <1>3 DEF Agent, IntentToAgent, Agents
<1>5. IsMixed /\ SubIntent # "vuln_lookup" => TypedReply(responses[Len(responses)])
  <2> SUFFICES ASSUME IsMixed, SubIntent # "vuln_lookup"
               PROVE  TypedReply(responses[Len(responses)])
    OBVIOUS
  <2>1. StepNo # 1
    BY <1>2, PlanShape DEF SubIntent, IsMixed
  <2>2. Len(responses) \in DOMAIN responses
    BY <1>1, <2>1 DEF StepNo
  <2> QED
    BY <2>2 DEF DataInv
<1>6. StepPayload \in Payloads
  <2>1. CASE IsMixed
    BY <1>3, <1>5, <2>1, MixedPayloadTyped DEF StepPayload, DataInv
  <2>2. CASE ~IsMixed
    BY <2>2 DEF StepPayload, DataInv
  <2> QED
    BY <2>1, <2>2
<1> QED
  BY <1>2, <1>4, <1>6

(* Collecting a response keeps the control part: an error or the last response ends *)
(* the loop, any other lets it go on with one agent fewer to call.                  *)
LEMMA CollectKeeps ==
  ASSUME FlowInv, DataInv, pc \in {"dispatching", "querying"},
         NEW p, p \in Payloads, NEW r, TypedReply(r), Collect(p, r),
         IsSequence(asked'), Len(asked') = Len(responses) + 1,
         \A i \in DOMAIN asked' : asked'[i] \in Payloads,
         now' \in Nat, 0 < Deadline
  PROVE  FlowInv' /\ DataInv' /\ StopsAtFirstError' /\ EndInv'
<1>1. /\ Len(responses) \in Nat
      /\ DOMAIN responses = 1..Len(responses)
      /\ IsSequence(responses')
      /\ Len(responses') = Len(responses) + 1
      /\ DOMAIN responses' = 1..(Len(responses) + 1)
      /\ responses'[Len(responses) + 1] = r
      /\ \A i \in DOMAIN responses : responses'[i] = responses[i]
  BY AppendExtends DEF FlowInv, Collect
<1>2. /\ pc' = IF SequenceEnds(r) THEN "concluding" ELSE "dispatching"
      /\ intent' = intent /\ payload' = payload /\ result' = result
  BY DEF Collect, requestVars
<1>3. /\ intent \in ValidIntents
      /\ Len(responses) < Len(Plan(intent))
      /\ \A i \in DOMAIN responses : ~IsError(responses[i])
      /\ Len(Plan(intent)) \in 1..3
      /\ result = NoResult
      /\ PayloadAccepted(intent, payload)
  BY PlanShape DEF FlowInv
<1>4. SequenceEnds(r) <=> IsError(r) \/ Len(responses) + 1 = Len(Plan(intent))
  BY DEF SequenceEnds, StepNo
<1>5. responses' # <<>>
  BY <1>1
<1>6. \A i \in DOMAIN responses' : IsError(responses'[i]) => i = Len(responses')
  BY <1>1, <1>3
<1>7. pc' = "dispatching" =>
        /\ Len(responses') < Len(Plan(intent'))
        /\ \A i \in DOMAIN responses' : ~IsError(responses'[i])
  BY <1>1, <1>2, <1>3, <1>4
<1>13. pc' = "concluding" => ~Unfinished'
  <2>1. CASE IsError(r)
    <3>1. Len(responses') \in DOMAIN responses' /\ IsError(responses'[Len(responses')])
      BY <1>1, <2>1
    <3> QED
      BY <3>1 DEF Unfinished
  <2>2. CASE Len(responses) + 1 = Len(Plan(intent))
    <3>1. ~(Len(responses') < Len(Plan(intent')))
      BY <1>1, <1>2, <1>3, <2>2
    <3> QED
      BY <3>1 DEF Unfinished
  <2> QED
    BY <1>2, <1>4, <2>1, <2>2
<1>14. PayloadAccepted(intent', payload')
  BY <1>2, <1>3
<1>8. FlowInv'
  BY <1>1, <1>2, <1>3, <1>5, <1>7, <1>13, <1>14 DEF FlowInv
<1>9. ctx' \in Payloads
  <2>1. ctx' = IF IsMixed THEN NextContext(ctx, p, r) ELSE ctx
    BY DEF Collect
  <2>2. NextContext(ctx, p, r) \in Payloads
    BY ContextTyped, UpdateTyped DEF NextContext, DataInv
  <2> QED
    BY <2>1, <2>2 DEF DataInv
<1>10. \A i \in DOMAIN responses' : TypedReply(responses'[i])
  BY <1>1 DEF DataInv
<1>11. DataInv'
  BY <1>2, <1>9, <1>10 DEF DataInv
<1>12. StopsAtFirstError'
  BY <1>1, <1>2, <1>3, <1>6, <1>7 DEF StopsAtFirstError
<1>15. EndInv'
  BY <1>2 DEF EndInv
<1> QED
  BY <1>8, <1>11, <1>12, <1>15

LEMMA InvInit == Init => Inv
<1> SUFFICES ASSUME Init PROVE Inv
  OBVIOUS
<1> USE DEF Init
<1>1. IsSequence(asked) /\ IsSequence(responses)
  BY DEF IsSequence
<1>2. FlowInv
  BY <1>1 DEF FlowInv
<1>3. DataInv
  BY EmptyPayloadTyped DEF DataInv, Intents
<1>4. StopsAtFirstError
  BY DEF StopsAtFirstError
<1>5. EndInv
  BY DEF EndInv
<1>6. OverrunBounded
  BY QueryTicksNat, DeadlineAssumption DEF OverrunBounded
<1>7. ClientFacts!ClientInv
  BY SameClient, ClientAssumptions, ClientFacts!ClientInvInit
<1> QED
  BY <1>2, <1>3, <1>4, <1>5, <1>6, <1>7 DEF Inv

(* A client that is made anew satisfies its invariant. *)
LEMMA NewClient == Client!ClientInit' => ClientFacts!ClientInv'
<1>1. Client!ClientInit => ClientFacts!ClientInv
  BY SameClient, ClientAssumptions, ClientFacts!ClientInvInit
<1> QED
  BY <1>1, PTL

(* An agent is called only before the deadline, and then its turn is all the time that *)
(* passes.                                                                              *)
LEMMA TimeOfReply ==
  Inv /\ AgentReplies => now' \in Nat /\ OverrunBounded'
<1> SUFFICES ASSUME Inv, AgentReplies PROVE now' \in Nat /\ OverrunBounded'
  OBVIOUS
<1>1. /\ pc = "querying" /\ now \in Nat /\ now < Deadline
      /\ now' \in (now + elapsed)..(now + elapsed + WorkTicks)
      /\ asked' = asked /\ asked # <<>>
  <2>1. pc = "querying" /\ asked # <<>>
    BY DEF AgentReplies, Inv, FlowInv, IsSequence, StopsAtFirstError
  <2> QED
    BY <2>1 DEF AgentReplies, Inv, FlowInv
<1>2. elapsed \in Nat /\ elapsed <= Client!QueryTicks
  BY SameClient DEF Inv, ClientFacts!ClientInv, ClientFacts!ClientTypeOK,
                    ClientFacts!QueryTimeBounded
<1>3. Client!QueryTicks \in Nat /\ Deadline \in Int /\ WorkTicks \in Nat
  BY QueryTicksNat, DeadlineAssumption
<1>4. Client!QueryTicks' = Client!QueryTicks
  BY DEF Client!QueryTicks
<1> QED
  BY <1>1, <1>2, <1>3, <1>4 DEF OverrunBounded

(* The answer that execute() returns is an envelope. *)
LEMMA ConclusionIsEnvelope ==
  Inv /\ pc = "concluding" => IsEnvelope(Conclusion)
<1> SUFFICES ASSUME Inv, pc = "concluding" PROVE IsEnvelope(Conclusion)
  OBVIOUS
<1>1. IsEnvelope(AggregateMultiAgentResponses(responses))
  BY DEF IsEnvelope, AggregateMultiAgentResponses, AggregateStatus, Statuses
<1>2. IsEnvelope(responses[1])
  <2>1. 1 \in DOMAIN responses
    BY DEF Inv, FlowInv, IsSequence
  <2> QED
    BY <2>1 DEF Inv, DataInv, TypedReply
<1> QED
  BY <1>1, <1>2, BuilderEnvelopes DEF Conclusion

LEMMA InvStep == Inv /\ [Next]_vars => Inv'
<1> SUFFICES ASSUME Inv, [Next]_vars PROVE Inv'
  OBVIOUS
<1>0. FlowInv /\ DataInv /\ StopsAtFirstError /\ OverrunBounded /\ ClientFacts!ClientInv
  BY DEF Inv
<1>1. Client!QueryTicks' = Client!QueryTicks
  BY DEF Client!QueryTicks
<1>t. Deadline \in Int /\ WorkTicks \in Nat /\ Client!QueryTicks \in Nat /\ now \in Nat
  BY <1>0, DeadlineAssumption, QueryTicksNat DEF FlowInv
<1> USE DEF requestVars, Answered
<1>2. CASE Receive
  <2>1. FlowInv'
    BY <1>0, <1>2 DEF Receive, FlowInv
  <2>2. DataInv'
    BY <1>0, <1>2, RequestPayloadsTyped DEF Receive, DataInv
  <2>3. StopsAtFirstError'
    BY <1>0, <1>2 DEF Receive, StopsAtFirstError, FlowInv
  <2>4. EndInv'
    BY <1>2 DEF Receive, EndInv
  <2>5. OverrunBounded'
    BY <1>0, <1>1, <1>2 DEF Receive, OverrunBounded
  <2>6. ClientFacts!ClientInv'
    BY <1>0, <1>2, ClientKeepsInv DEF Receive
  <2> QED
    BY <2>1, <2>2, <2>3, <2>4, <2>5, <2>6 DEF Inv
<1>3. CASE RejectRequest
  <2>0. IsEnvelope(Refusal) /\ Refusal # TimeoutRaised
    BY BuilderEnvelopes, EnvelopeIsNoException DEF Refusal
  <2>1. FlowInv'
    BY <1>0, <1>3 DEF RejectRequest, FlowInv
  <2>2. DataInv'
    BY <1>0, <1>3, <2>0 DEF RejectRequest, DataInv
  <2>3. StopsAtFirstError'
    BY <1>0, <1>3 DEF RejectRequest, StopsAtFirstError, FlowInv
  <2>4. EndInv'
    BY <1>0, <1>3 DEF RejectRequest, EndInv, FlowInv, Accepted
  <2>5. OverrunBounded'
    BY <1>0, <1>1, <1>3 DEF RejectRequest, OverrunBounded
  <2>6. ClientFacts!ClientInv'
    BY <1>0, <1>3, ClientKeepsInv DEF RejectRequest
  <2> QED
    BY <2>1, <2>2, <2>3, <2>4, <2>5, <2>6 DEF Inv
<1>4. CASE AcceptRequest
  <2>9. /\ responses = <<>> /\ asked = <<>> /\ now = 0
        /\ now' \in now..(now + WorkTicks)
    BY <1>0, <1>4 DEF AcceptRequest, FlowInv
  <2>10. Len(Plan(intent)) \in 1..3
    BY <1>4, PlanShape DEF AcceptRequest
  <2>0. /\ responses = <<>> /\ asked = <<>> /\ now = 0 /\ Len(Plan(intent)) \in 1..3
        /\ now' \in 0..WorkTicks
    BY <1>t, <2>9, <2>10
  <2>1. FlowInv'
    BY <1>0, <1>t, <1>4, <2>0 DEF AcceptRequest, FlowInv
  <2>2. DataInv'
    BY <1>0, <1>4 DEF AcceptRequest, DataInv
  <2>3. StopsAtFirstError'
    BY <1>0, <1>4, <2>0 DEF AcceptRequest, StopsAtFirstError
  <2>4. EndInv'
    BY <1>4 DEF AcceptRequest, EndInv
  <2>5. OverrunBounded'
    BY <1>t, <1>4, <2>0 DEF AcceptRequest, OverrunBounded
  <2>6. ClientFacts!ClientInv'
    BY <1>0, <1>4, ClientKeepsInv DEF AcceptRequest
  <2> QED
    BY <2>1, <2>2, <2>3, <2>4, <2>5, <2>6 DEF Inv
<1>5. CASE ExpireDeadline
  <2>1. pc = "dispatching" /\ now >= Deadline /\ Accepted /\ Unfinished
    BY <1>0, <1>5 DEF ExpireDeadline, Late, FlowInv, Accepted, Unfinished
  <2>3. FlowInv'
    BY <1>0, <1>5 DEF ExpireDeadline, FlowInv
  <2>4. DataInv'
    BY <1>0, <1>5 DEF ExpireDeadline, DataInv
  <2>5. StopsAtFirstError'
    BY <1>0, <1>5 DEF ExpireDeadline, StopsAtFirstError
  <2>6. EndInv'
    BY <1>5, <2>1 DEF ExpireDeadline, EndInv, Accepted, Unfinished
  <2>7. OverrunBounded'
    BY <1>0, <1>1, <1>5 DEF ExpireDeadline, OverrunBounded
  <2>8. ClientFacts!ClientInv'
    BY <1>0, <1>5, ClientKeepsInv DEF ExpireDeadline
  <2> QED
    BY <2>3, <2>4, <2>5, <2>6, <2>7, <2>8 DEF Inv
<1>6. CASE AgentRefuses
  <2>1. PICK p : p = StepPayload
    OBVIOUS
  <2>2. p \in Payloads /\ pc = "dispatching" /\ asked' = Append(asked, p)
    BY <1>0, <1>6, <2>1, StepTyped DEF AgentRefuses
  <2>3. TypedReply(Refusal)
    BY ErrorsTyped DEF Refusal
  <2>4. Len(asked) = Len(responses)
    BY <1>0, <2>2 DEF StopsAtFirstError, FlowInv, IsSequence
  <2>5. /\ IsSequence(asked') /\ Len(asked') = Len(responses) + 1
        /\ \A i \in DOMAIN asked' : asked'[i] \in Payloads
    BY <1>0, <2>2, <2>4, AppendExtends DEF FlowInv, DataInv
  <2>6. /\ Collect(p, Refusal) /\ UNCHANGED clientVars
        /\ now' \in now..(now + WorkTicks) /\ now < Deadline
    BY <1>t, <1>6, <2>1 DEF AgentRefuses, Late
  <2>10. now' \in Nat /\ 0 < Deadline /\ now' < Deadline + Client!QueryTicks + WorkTicks
    BY <1>t, <2>6
  <2>7. FlowInv' /\ DataInv' /\ StopsAtFirstError' /\ EndInv'
    BY <1>0, <2>2, <2>3, <2>5, <2>6, <2>10, CollectKeeps
  <2>8. OverrunBounded'
    <3>1. asked' # <<>>
      BY <1>0, <2>5 DEF FlowInv, IsSequence
    <3> QED
      BY <1>1, <2>10, <3>1 DEF OverrunBounded
  <2>9. ClientFacts!ClientInv'
    BY <1>0, <2>6, ClientKeepsInv
  <2> QED
    BY <2>7, <2>8, <2>9 DEF Inv
<1>7. CASE AgentQueries
  <2>1. PICK p : p = StepPayload
    OBVIOUS
  <2>2. /\ p \in Payloads /\ pc = "dispatching" /\ asked' = Append(asked, p)
        /\ now < Deadline /\ 0 < Deadline
    BY <1>0, <1>t, <1>7, <2>1, StepTyped DEF AgentQueries, Late, FlowInv
  <2>3. Len(asked) = Len(responses)
    BY <1>0, <2>2 DEF StopsAtFirstError, FlowInv, IsSequence
  <2>4. /\ IsSequence(asked') /\ Len(asked') = Len(responses) + 1
        /\ \A i \in DOMAIN asked' : asked'[i] \in Payloads
    BY <1>0, <2>2, <2>3, AppendExtends DEF FlowInv, DataInv
  <2>5. FlowInv'
    BY <1>0, <1>7, <2>2, <2>4 DEF AgentQueries, FlowInv
  <2>6. DataInv'
    BY <1>0, <1>7, <2>4 DEF AgentQueries, DataInv
  <2>7. StopsAtFirstError'
    <3>1. Len(responses) < Len(Plan(intent)) /\ Len(Plan(intent)) \in 1..3
      BY <1>0, <2>2, PlanShape DEF FlowInv
    <3>2. Len(responses) \in Nat
      BY <1>0 DEF FlowInv, IsSequence
    <3> QED
      BY <1>0, <1>7, <2>4, <3>1, <3>2 DEF AgentQueries, StopsAtFirstError
  <2>8. EndInv'
    BY <1>7 DEF AgentQueries, EndInv
  <2>9. OverrunBounded'
    <3>1. now < Deadline + Client!QueryTicks + WorkTicks /\ now' = now
      BY <1>t, <1>7, <2>2 DEF AgentQueries
    <3>2. asked' # <<>>
      BY <1>0, <2>4 DEF FlowInv, IsSequence
    <3> QED
      BY <1>1, <3>1, <3>2 DEF OverrunBounded
  <2>10. ClientFacts!ClientInv'
    BY <1>0, <1>7, ClientKeepsInv DEF AgentQueries
  <2> QED
    BY <2>5, <2>6, <2>7, <2>8, <2>9, <2>10 DEF Inv
<1>8. CASE ClientSteps
  <2>1. FlowInv'
    BY <1>0, <1>8 DEF ClientSteps, FlowInv
  <2>2. DataInv'
    BY <1>0, <1>8 DEF ClientSteps, DataInv
  <2>3. StopsAtFirstError'
    BY <1>0, <1>8 DEF ClientSteps, StopsAtFirstError
  <2>4. EndInv'
    BY <1>8 DEF ClientSteps, EndInv
  <2>5. OverrunBounded'
    BY <1>0, <1>1, <1>8 DEF ClientSteps, OverrunBounded
  <2>6. ClientFacts!ClientInv'
    BY <1>0, <1>8, ClientKeepsInv DEF ClientSteps
  <2> QED
    BY <2>1, <2>2, <2>3, <2>4, <2>5, <2>6 DEF Inv
<1>9. CASE AgentReplies
  <2>1. PICK r \in Replies(Agent, outcome) : Collect(asked[StepNo], r)
    BY <1>9 DEF AgentReplies
  <2>2. /\ pc = "querying" /\ asked' = asked /\ UNCHANGED clientVars
        /\ Agent \in Agents
    BY <1>0, <1>9, StepTyped DEF AgentReplies
  <2>3. TypedReply(r)
    BY <2>1, <2>2, RepliesTyped
  <2>4. /\ Len(responses) \in Nat /\ Len(asked) = Len(responses) + 1
        /\ DOMAIN asked = 1..Len(asked)
    BY <1>0, <2>2 DEF StopsAtFirstError, FlowInv, IsSequence
  <2>5. PICK p : p = asked[StepNo]
    OBVIOUS
  <2>6. p \in Payloads
    BY <1>0, <2>4, <2>5 DEF DataInv, StepNo
  <2>7. Collect(p, r)
    BY <2>1, <2>5
  <2>8. now' \in Nat /\ OverrunBounded'
    BY <1>9, TimeOfReply
  <2>9. IsSequence(asked') /\ \A i \in DOMAIN asked' : asked'[i] \in Payloads
    BY <1>0, <2>2 DEF FlowInv, DataInv
  <2>10. FlowInv' /\ DataInv' /\ StopsAtFirstError' /\ EndInv'
    <3>1. asked # <<>> /\ 0 < Deadline
      BY <1>0, <2>4 DEF FlowInv
    <3> QED
      BY <1>0, <2>2, <2>3, <2>4, <2>6, <2>7, <2>8, <2>9, <3>1, CollectKeeps
  <2>11. ClientFacts!ClientInv'
    BY <1>0, <2>2, ClientKeepsInv
  <2> QED
    BY <2>8, <2>10, <2>11 DEF Inv
<1>10. CASE Conclude
  <2>1. IsEnvelope(Conclusion) /\ Conclusion # TimeoutRaised
    BY <1>10, ConclusionIsEnvelope, EnvelopeIsNoException DEF Conclude
  <2>2. FlowInv'
    BY <1>0, <1>10 DEF Conclude, FlowInv
  <2>3. DataInv'
    BY <1>0, <1>10, <2>1 DEF Conclude, DataInv
  <2>4. StopsAtFirstError'
    BY <1>0, <1>10 DEF Conclude, StopsAtFirstError
  <2>5. EndInv'
    BY <1>0, <1>10, <2>1 DEF Conclude, EndInv, FlowInv, Accepted, Unfinished
  <2>6. OverrunBounded'
    BY <1>0, <1>1, <1>10 DEF Conclude, OverrunBounded
  <2>7. ClientFacts!ClientInv'
    BY <1>0, <1>10, ClientKeepsInv DEF Conclude
  <2> QED
    BY <2>2, <2>3, <2>4, <2>5, <2>6, <2>7 DEF Inv
<1>11. CASE Discard
  <2>1. Client!ClientInit'
    BY <1>11 DEF Discard, Client!ClientInit, Client!Pending
  <2>2. FlowInv'
    BY <1>11 DEF Discard, FlowInv, IsSequence
  <2>3. DataInv'
    BY <1>11, EmptyPayloadTyped DEF Discard, DataInv, Intents
  <2>4. StopsAtFirstError'
    BY <1>11 DEF Discard, StopsAtFirstError
  <2>5. EndInv'
    BY <1>11 DEF Discard, EndInv
  <2>6. OverrunBounded'
    BY <1>t, <1>11 DEF Discard, OverrunBounded
  <2>7. ClientFacts!ClientInv'
    BY <2>1, NewClient
  <2> QED
    BY <2>2, <2>3, <2>4, <2>5, <2>6, <2>7 DEF Inv
<1>12. CASE UNCHANGED vars
  <2>1. UNCHANGED clientVars
    BY <1>12 DEF vars, clientVars
  <2>2. ClientFacts!ClientInv'
    BY <1>0, <2>1, ClientKeepsInv
  <2>3. EndInv'
    BY <1>12 DEF vars, Inv, EndInv, Accepted, Unfinished
  <2> QED
    BY <1>0, <1>1, <1>12, <2>2, <2>3
    DEF vars, Inv, FlowInv, DataInv, StopsAtFirstError, OverrunBounded, Unfinished
<1> QED
  BY <1>2, <1>3, <1>4, <1>5, <1>6, <1>7, <1>8, <1>9, <1>10, <1>11, <1>12
  DEF Next, Execute

THEOREM Invariant == Spec => []Inv
  BY InvInit, InvStep, PTL DEF Spec

(* The variables keep their types, for every request, graph and database failure. *)
THEOREM TypeCorrect == Spec => []TypeOK
<1>1. Inv => TypeOK
  <2> SUFFICES ASSUME Inv PROVE TypeOK
    OBVIOUS
  <2>1. Client!ClientTypeOK
    BY SameClient DEF Inv, ClientFacts!ClientInv
  <2>2. Len(asked) \in Nat /\ Len(responses) \in Nat /\ Len(Plan(intent)) \in 1..3
    BY PlanShape DEF Inv, FlowInv, IsSequence
  <2>3. Len(asked) = Len(responses) + (IF pc = "querying" THEN 1 ELSE 0)
    BY DEF Inv, StopsAtFirstError
  <2>4. Len(responses) <= Len(asked)
    BY <2>2, <2>3
  <2>5. Len(asked) <= 3
    <3>1. CASE asked = <<>>
      BY <3>1
    <3>2. CASE asked # <<>>
      <4>1. Len(asked) <= Len(Plan(intent))
        BY <3>2 DEF Inv, StopsAtFirstError
      <4>2. PICK n \in 1..3 : n = Len(Plan(intent))
        BY <2>2
      <4>3. Len(asked) <= n
        BY <4>1, <4>2
      <4> QED
        BY <2>2, <4>3
    <3> QED
      BY <3>1, <3>2
  <2>6. Len(responses) <= 3
    BY <2>2, <2>4, <2>5
  <2> QED
    BY <2>1, <2>5, <2>6 DEF Inv, FlowInv, DataInv, TypeOK, TypedReply
<1> QED
  BY <1>1, Invariant, PTL

(* At most one agent fails, and it is the last that is called (executor.py:276-278). *)
THEOREM SequenceStopsAtFirstError == Spec => []StopsAtFirstError
<1>1. Inv => StopsAtFirstError
  BY DEF Inv
<1> QED
  BY <1>1, Invariant, PTL

(* For every deadline, number of retries and table of pauses, execute() overruns its  *)
(* deadline by less than one agent's turn (executor.py:159-162, 231-234).             *)
THEOREM DeadlineOverrunBounded == Spec => []OverrunBounded
<1>1. Inv => OverrunBounded
  BY DEF Inv
<1> QED
  BY <1>1, Invariant, PTL

(* For every deadline, also one that is spent from the beginning: a request ends in    *)
(* OrchestratorTimeoutError exactly if it was valid, no agent has failed and not all   *)
(* have answered, and then the budget is spent (executor.py:159-162, 231-234).         *)
THEOREM TimeoutsMeanUnfinished == Spec => []TimeoutMeansUnfinished
<1>1. Inv => TimeoutMeansUnfinished
  <2> SUFFICES ASSUME Inv, pc = "answered"
               PROVE  /\ result = TimeoutRaised <=> Accepted /\ Unfinished
                      /\ result = TimeoutRaised => now >= Deadline
    BY DEF TimeoutMeansUnfinished, Answered
  <2>1. IsEnvelope(Refusal)
    BY BuilderEnvelopes DEF Refusal
  <2> QED
    BY <2>1, EnvelopeIsNoException DEF Inv, EndInv
<1> QED
  BY <1>1, Invariant, PTL

(* For every budget that is spent before execute() starts and every request: no agent is *)
(* called, and a valid request ends in OrchestratorTimeoutError (test_timeout.py:150-170). *)
THEOREM SpentBudgetsCallNobody == Spec => []SpentBudgetCallsNobody
<1>1. Inv => SpentBudgetCallsNobody
  <2> SUFFICES ASSUME Inv, Deadline <= 0
               PROVE  /\ asked = <<>>
                      /\ pc = "answered" =>
                           result = IF Accepted THEN TimeoutRaised ELSE Refusal
    BY DEF SpentBudgetCallsNobody, Answered
  <2>1. asked = <<>>
    BY DeadlineAssumption DEF Inv, FlowInv
  <2>2. responses = <<>>
    BY <2>1 DEF Inv, FlowInv, StopsAtFirstError, IsSequence
  <2> QED
    BY <2>1, <2>2 DEF Inv, EndInv
<1> QED
  BY <1>1, Invariant, PTL
=============================================================================
