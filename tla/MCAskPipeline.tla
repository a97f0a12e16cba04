--------------------------- MODULE MCAskPipeline ---------------------------
(* AskPipeline on small instances.                                           *)
EXTENDS AskPipeline

\* An id in two spellings, two different ids, and a CPE name with a keyword in it.
MCCanonical ==
  [t \in Tokens |-> CASE t = "cve-1" -> "CVE-1" [] OTHER -> t]

MCTokens == {"uuid-1", "uuid-2", "CVE-1", "cve-1", "cpe", "cpe-banned", "CWE-1", "CWE-2",
             "T1", "T2"}
MCBanned == {"cpe-banned"}

MCMentionLists ==
  [matchCriteriaId |-> {<<>>, <<"uuid-1">>, <<"uuid-1", "uuid-2">>},
   cveId           |-> {<<>>, <<"cve-1">>, <<"CVE-1", "cve-1">>},
   cpeName         |-> {<<>>, <<"cpe">>, <<"cpe-banned">>, <<"cpe", "cpe-banned">>},
   cweId           |-> {<<>>, <<"CWE-1">>, <<"CWE-1", "CWE-2">>},
   attackId        |-> {<<>>, <<"T1">>, <<"T1", "T2">>}]
=============================================================================
