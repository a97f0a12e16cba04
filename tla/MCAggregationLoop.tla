------------------------- MODULE MCAggregationLoop -------------------------
(* AggregationLoop on the envelopes of agents that share sources and sections. *)
EXTENDS AggregationLoop

MCTechs == {1}

MCProvenances ==
  {<<Entry("NVD", {1}, 1)>>,
   <<Entry("NVD", {2}, NoTime)>>,
   <<Entry("NVD", {1, 2}, 2), Entry("CWE", {1}, NoTime)>>,
   <<Entry("CWE", {2}, 1)>>}

Section(name, content) == [k \in {name} |-> content]

MCResponses ==
  {OkResponse(Section(name, "found"), p, <<c, 1>>) :
     name \in {"techniques", "coverage"}, p \in MCProvenances, c \in {4, 10}}
  \cup {[EmptyResponse(Section("techniques", "nothing")) EXCEPT !.provenance = <<>>]}
  \cup {[ErrorResponse(e) EXCEPT !.provenance = <<>>] : e \in {<<"query">>, <<"schema">>}}
=============================================================================
