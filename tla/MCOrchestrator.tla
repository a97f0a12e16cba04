--------------------------- MODULE MCOrchestrator ---------------------------
(* Orchestrator on small instances.                                          *)
EXTENDS OrchestratorProperties

MCRetryBackoff == <<1>>
MCTechs == {1, 2}
CweSymmetry == Permutations(Cwes)
=============================================================================
