------------------------------ MODULE MCAnswers ------------------------------
(* Answers on small results.                                                 *)
EXTENDS Answers

MCIds == {"V1", "V2", "W1", "W2", "S1", "S2", "C1", "C2", "N1", "N2", "M1", "M2", "P1", "P2",
          "A1", "A2", "T1", "T2", "X1", "T1.1", "D1", "D2", "R1", "H1", "E1", "E2", "E3"}

ListsOf(S, max) == UNION {[1..n -> S] : n \in 0..max}

\* The rows of a lookup of one CVE, which has an id, differ in weakness only.
CveRows(applicability) ==
  {[cve |-> "V1", weakness |-> w, scores |-> s, configuration |-> None,
    matches |-> << >>, applicability |-> applicability] :
     w \in {None, Bare, Anon, "W1", "W2"}, s \in {<< >>, <<"S1", Anon, "S2">>}}

Applied(vc, vcn, criterion, platform) ==
  [vc |-> vc, vcn |-> vcn, criterion |-> criterion, platform |-> platform]

CveApplicability ==
  {<<Applied(None, None, None, None)>>,
   <<Applied("C1", "N1", "M1", "P1"), Applied("C1", "N1", "M2", "P1"),
     Applied("C1", Anon, "M1", None), Applied("C2", "N2", None, None)>>}

\* The rows of a lookup by platform come in the order of their CVEs.
Rank == [x \in {"V1", "V2", "T1", "T2", Anon} |->
           CASE x \in {"V1", "T1"} -> 1 [] x \in {"V2", "T2"} -> 2 [] OTHER -> 3]

PlatformRows ==
  {[cve |-> cve, weakness |-> x.w, scores |-> x.s, configuration |-> "M1",
    matches |-> x.m, applicability |-> <<Applied(x.vc, "N1", "M1", None)>>] :
     cve \in {"V1", "V2", Anon},
     x \in {[w |-> "W1", s |-> <<"S1", "S2">>, m |-> <<"P1">>, vc |-> "C1"],
            [w |-> "W2", s |-> <<"S1">>, m |-> <<"P1", Anon, "P2">>, vc |-> Anon],
            [w |-> None, s |-> << >>, m |-> << >>, vc |-> None]}}

Ordered(list, id(_)) ==
  \A i, j \in DOMAIN list : i < j => Rank[id(list[i])] <= Rank[id(list[j])]

\* A pattern is mapped to a technique itself or through its parent; the rows come in the order of
\* the techniques.
OffensiveRows ==
  {[w |-> "W1", ap |-> m[1], mapped |-> m[2], depth |-> m[3], t |-> t,
    tactic |-> x[1], sub |-> x[2]] :
     m \in {<<"A1", "A1", 0>>, <<"A1", "A2", 1>>, <<"A2", "A2", 0>>, <<Anon, "A2", 1>>},
     t \in {"T1", "T2", Anon},
     x \in {<<None, None>>, <<"X1", "T1.1">>}}

E(activity, approach, goal) == [activity |-> activity, approach |-> approach, goal |-> goal]

\* One row for the technique asked about, with the duplicates of a product of joins.
DefensiveRows ==
  {[mitigations |-> m, detections |-> d, deceptions |-> c, engagements |-> e] :
     m \in {<< >>, <<"D1", "D2", "D1">>, <<Anon>>},
     d \in {<< >>, <<"R1", "R1">>},
     c \in {<< >>, <<"H1", "H1">>},
     e \in {<< >>, <<E("E1", None, None), E("E1", None, None)>>,
            <<E(None, "E2", "E3"), E("E1", "E2", None)>>,
            <<E(None, None, "E3")>>, <<E(None, None, None)>>}}

MCResults ==
  [T_SYS_01 |-> {list \in ListsOf(PlatformRows, 3) : Ordered(list, LAMBDA r : r.cve)},
   T_SYS_02 |-> UNION {ListsOf(CveRows(a), 3) : a \in CveApplicability},
   T_OFF_01 |-> {list \in ListsOf(OffensiveRows, 3) : Ordered(list, LAMBDA r : r.t)},
   T_DEF_01 |-> ListsOf(DefensiveRows, 1)]
=============================================================================
