----------------------------- MODULE Aggregator -----------------------------
(***************************************************************************)
(* orchestrator/aggregator.py: one envelope from the envelopes of a mixed  *)
(* request.  The folds over lists and dictionaries of the code are stated  *)
(* by what they leave: a source's entry is determined by the ok responses  *)
(* that name it, and its time stamp by the last of them that carries one.  *)
(*                                                                         *)
(* A confidence is a pair <<n, d>>: n tenths divided by d, so that an      *)
(* average is exact (the floats of the code round it).                     *)
(***************************************************************************)
EXTENDS Contract, SequencesExt

CONSTANTS
  NoTime,   \* a provenance entry without a time stamp
  Now       \* the wall clock when the envelope is built

IsOk(r)    == r.status = "ok"
IsError(r) == r.status = "error"

----------------------------------------------------------------------------
(* merge_provenance *)

\* The ok responses that name source s.
Contributors(rs, s) ==
  {i \in DOMAIN rs : IsOk(rs[i]) /\ \E e \in rs[i].provenance : e.source = s}

EntryOf(r, s) == CHOOSE e \in r.provenance : e.source = s

Sources(rs) == {e.source : e \in UNION {rs[i].provenance : i \in DOMAIN rs}}

\* Mutant: the first time stamp is kept.
MergedTimeFirst(rs, s) ==
  LET stamped == {i \in Contributors(rs, s) : EntryOf(rs[i], s).timestamp # NoTime}
  IN  IF stamped = {} THEN Now ELSE EntryOf(rs[Min(stamped)], s).timestamp

\* The time stamp of the last response processed that has one; now, if none has.
MergedTime(rs, s) ==
  LET stamped == {i \in Contributors(rs, s) : EntryOf(rs[i], s).timestamp # NoTime}
  IN  IF stamped = {} THEN Now ELSE EntryOf(rs[Max(stamped)], s).timestamp

MergeProvenance(rs) ==
  {Entry(s, UNION {EntryOf(rs[i], s).ids : i \in Contributors(rs, s)}, MergedTime(rs, s)) :
     s \in {t \in Sources(rs) : Contributors(rs, t) # {}}}

----------------------------------------------------------------------------
(* merge_confidence, with CONFIDENCE_MERGE_STRATEGY = "average" *)

\* max(0.0, min(1.0, value)), on n tenths over d.
Clamp(c) ==
  IF c[1] < 0 THEN <<0, 1>> ELSE IF c[1] > 10 * c[2] THEN <<10, 1>> ELSE c

\* Mutant: an average over the agents that answered ok.
MergeConfidenceOfOk(rs) ==
  LET ok == {i \in DOMAIN rs : IsOk(rs[i])} IN
  IF ok = {} THEN <<0, 1>>
  ELSE Clamp(<<SumFunctionOnSet([i \in DOMAIN rs |-> rs[i].confidence[1]], ok),
               Cardinality(ok)>>)

\* One response passes through; of several, the mean over all, failed ones included.
MergeConfidence(rs) ==
  IF Len(rs) = 1 THEN Clamp(rs[1].confidence)
  ELSE Clamp(<<SumFunction([i \in DOMAIN rs |-> rs[i].confidence[1]]), Len(rs)>>)

----------------------------------------------------------------------------
(* aggregate_multi_agent_responses *)

\* Mutant: an aggregate that is ok as soon as nobody reported an error.
AggregateStatusUnlessError(rs) ==
  IF \E i \in DOMAIN rs : IsError(rs[i]) THEN "error" ELSE "ok"

\* "ok" if all responses succeeded, "error" otherwise: never "empty".
AggregateStatus(rs) == IF \A i \in DOMAIN rs : IsOk(rs[i]) THEN "ok" ELSE "error"

\* The ok responses whose data has section k.
Providers(rs, k) == {i \in DOMAIN rs : IsOk(rs[i]) /\ k \in DOMAIN rs[i].data}

\* data.update over the ok responses: every section, from the last that provides it.
MergeData(rs) ==
  [k \in {s \in UNION {DOMAIN rs[i].data : i \in DOMAIN rs} : Providers(rs, s) # {}} |->
     rs[Max(Providers(rs, k))].data[k]]

\* The errors of the responses whose status is "error", in order.
MergeErrors(rs) ==
  FlattenSeq([i \in DOMAIN rs |-> IF IsError(rs[i]) THEN rs[i].errors ELSE <<>>])

AggregateMultiAgentResponses(rs) ==
  [status     |-> AggregateStatus(rs),
   data       |-> MergeData(rs),
   provenance |-> MergeProvenance(rs),
   confidence |-> MergeConfidence(rs),
   errors     |-> MergeErrors(rs)]
=============================================================================
