--------------------------- MODULE MCNeo4jClient ---------------------------
(* Neo4jClient with the code's two retries and pauses of 100 ms and 200 ms,  *)
(* in ticks of 100 ms.                                                       *)
EXTENDS Neo4jClient

MCRetryBackoff == <<1, 2>>
=============================================================================
