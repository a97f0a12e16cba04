-------------------------- MODULE AggregationLoop --------------------------
(***************************************************************************)
(* The loops of orchestrator/aggregator.py, an iteration a step: the       *)
(* provenance dictionary, the list of confidences, the merged data and the *)
(* list of errors are each built by a pass over the responses, first to    *)
(* last.  Aggregator states what the four passes compute; here they are    *)
(* checked to compute it.                                                  *)
(*                                                                         *)
(* The provenance of a response is a list here, as in the code, of which an*)
(* agent gives one entry per source.                                       *)
(***************************************************************************)
EXTENDS Aggregator

CONSTANTS
  Responses,     \* the envelopes agents return, provenance as a list
  MaxResponses   \* bound of the model: the length of the list of responses

\* An envelope has lists of entries and of messages, a confidence between 0 and 1, and
\* names a source once.
ASSUME ResponsesAssumption ==
  /\ MaxResponses \in Nat \ {0}
  /\ \A r \in Responses :
       /\ DOMAIN r = {"status", "data", "provenance", "confidence", "errors"}
       /\ r.confidence \in (0..10) \X {1}
       /\ r.provenance \in Seq(ToSet(r.provenance))
       /\ r.errors \in Seq(ToSet(r.errors))
       /\ \A j, k \in DOMAIN r.provenance :
            r.provenance[j].source = r.provenance[k].source => j = k

VARIABLES
  input,        \* the list of responses
  pass,         \* the loop that is running
  i,            \* the response it looks at
  merged,       \* provenance_dict: ids and time stamp of each source
  confidences,  \* the confidences collected, in tenths
  data,         \* the data merged so far
  errors        \* the errors collected so far

vars == <<input, pass, i, merged, confidences, data, errors>>

Passes == <<"provenance", "confidence", "data", "errors", "done">>

----------------------------------------------------------------------------
Init ==
  /\ input \in UNION {[1..n -> Responses] : n \in 1..MaxResponses}
  /\ pass = 1
  /\ i = 1
  /\ merged = [s \in {} |-> [ids |-> {}, timestamp |-> NoTime]]
  /\ confidences = <<>>
  /\ data = NoData
  /\ errors = <<>>

\* Mutant: an entry that replaces the one of an earlier agent.
MergeEntryReplaces(dict, e) ==
  [s \in DOMAIN dict \cup {e.source} |->
     IF s = e.source THEN [ids |-> e.ids, timestamp |-> e.timestamp] ELSE dict[s]]

\* One provenance entry: its ids join those of the source, its time stamp, if it has
\* one, replaces the source's.
MergeEntry(dict, e) ==
  LET old == IF e.source \in DOMAIN dict THEN dict[e.source]
             ELSE [ids |-> {}, timestamp |-> e.timestamp]
      new == [ids |-> old.ids \cup e.ids,
              timestamp |-> IF e.timestamp # NoTime THEN e.timestamp ELSE old.timestamp]
  IN  [s \in DOMAIN dict \cup {e.source} |-> IF s = e.source THEN new ELSE dict[s]]

\* The loop of pass p looks at the next response.
Iterate(p) == Passes[pass] = p /\ i <= Len(input) /\ i' = i + 1 /\ UNCHANGED <<input, pass>>

ProvenanceIteration ==
  /\ Iterate("provenance")
  /\ merged' = IF IsOk(input[i]) THEN FoldLeft(MergeEntry, merged, input[i].provenance)
               ELSE merged
  /\ UNCHANGED <<confidences, data, errors>>

\* Every response has a confidence value, an error too.
ConfidenceIteration ==
  /\ Iterate("confidence")
  /\ confidences' = Append(confidences, input[i].confidence[1])
  /\ UNCHANGED <<merged, data, errors>>

\* Mutant: the data of an agent that found nothing is merged too.
ContributesUnlessError(r) == ~IsError(r)

\* The response's data is merged: it is ok (and its data, then, is not an empty dict).
Contributes(r) == IsOk(r)

DataIteration ==
  /\ Iterate("data")
  /\ data' = IF Contributes(input[i]) THEN Update(data, input[i].data) ELSE data
  /\ UNCHANGED <<merged, confidences, errors>>

ErrorsIteration ==
  /\ Iterate("errors")
  /\ errors' = IF IsError(input[i]) THEN errors \o input[i].errors ELSE errors
  /\ UNCHANGED <<merged, confidences, data>>

\* The loop is over, the next one starts with the first response.
NextPass ==
  /\ pass < Len(Passes)
  /\ i > Len(input)
  /\ pass' = pass + 1
  /\ i' = 1
  /\ UNCHANGED <<input, merged, confidences, data, errors>>

Next ==
  \/ ProvenanceIteration
  \/ ConfidenceIteration
  \/ DataIteration
  \/ ErrorsIteration
  \/ NextPass

Spec == Init /\ [][Next]_vars

\* Mutant: an average that leaves out the agents that found nothing.
MeanOfPositive(cs) ==
  LET found == SelectSeq(cs, LAMBDA c : c > 0)
  IN  IF found = <<>> THEN <<0, 1>> ELSE <<FoldLeft(+, 0, found), Len(found)>>

\* Mutant: a mean kept up to date by averaging it with each next value.
RunningMean(cs) ==
  FoldLeft(LAMBDA a, c : <<a[1] + c * a[2], 2 * a[2]>>, <<Head(cs), 1>>, Tail(cs))

\* sum(confidences) / len(confidences), which for a single one is that one.
MeanOf(cs) == <<FoldLeft(+, 0, cs), Len(cs)>>

\* provenance_dict as a list; a source nobody gave a time stamp for is stamped now.
ProvenanceList ==
  {Entry(s, merged[s].ids,
         IF merged[s].timestamp = NoTime THEN Now ELSE merged[s].timestamp) :
     s \in DOMAIN merged}

\* The envelope that the function returns after the last pass.
Answer ==
  [status     |-> IF \A j \in DOMAIN input : IsOk(input[j]) THEN "ok" ELSE "error",
   data       |-> data,
   provenance |-> ProvenanceList,
   confidence |-> Clamp(MeanOf(confidences)),
   errors     |-> errors]

----------------------------------------------------------------------------
\* The envelopes as Aggregator sees them: provenance is a set.
Envelopes(rs) == [j \in DOMAIN rs |-> [rs[j] EXCEPT !.provenance = ToSet(@)]]

\* The responses that pass p has been over.
Seen(p) ==
  IF Passes[pass] = p THEN SubSeq(input, 1, i - 1)
  ELSE IF \E n \in 1..(pass - 1) : Passes[n] = p THEN input
  ELSE <<>>

Done == Passes[pass] = "done"

\* The loops compute what Aggregator states: each accumulator is, at every iteration,
\* the merge of the responses seen (aggregator.py:31-71, 96-146, 195-206), and the
\* envelope at the end is the aggregate the orchestrator model answers with.
LoopsComputeAggregate ==
  /\ ProvenanceList = MergeProvenance(Envelopes(Seen("provenance")))
  /\ data = MergeData(Envelopes(Seen("data")))
  /\ errors = MergeErrors(Envelopes(Seen("errors")))
  /\ Done => Answer = AggregateMultiAgentResponses(Envelopes(input))

\* Whom the agents' order favours: a mixed answer depends on it only for which time
\* stamp and which of two equally named sections is kept.  Its status, its confidence,
\* its sources and their ids are the same for every order of the same responses.
OrderOnlyPicksWinners ==
  Done =>
    \A order \in Bijection(DOMAIN input, DOMAIN input) :
      LET other == AggregateMultiAgentResponses(
                     Envelopes([j \in DOMAIN input |-> input[order[j]]]))
      IN  /\ other.status = Answer.status
          /\ other.confidence = Answer.confidence
          /\ {<<e.source, e.ids>> : e \in other.provenance}
               = {<<e.source, e.ids>> : e \in Answer.provenance}
          /\ DOMAIN other.data = DOMAIN Answer.data

\* An agent that found nothing, or failed, pulls the confidence of the whole answer
\* below that of the best agent; no aggregate is surer than its best part, nor less
\* sure than its worst.
FailureCostsConfidence ==
  Done =>
    LET parts == ToSet(confidences)
        n     == Answer.confidence[1]
        d     == Answer.confidence[2]
    IN  /\ Min(parts) * d <= n /\ n <= Max(parts) * d
        /\ Min(parts) < Max(parts) => n < Max(parts) * d

\* Merging never takes anything back: what one agent cited stays cited, what it
\* reported as an error stays reported, and a section of data stays there, whatever
\* the later agents bring.
MergingOnlyAdds ==
  [][/\ \A s \in DOMAIN merged : s \in DOMAIN merged' /\ merged[s].ids \subseteq merged'[s].ids
     /\ DOMAIN data \subseteq DOMAIN data'
     /\ IsPrefix(errors, errors')]_vars
=============================================================================
