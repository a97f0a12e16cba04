---------------------------- MODULE MCApiGateway ----------------------------
(* ApiGateway on small instances.                                            *)
EXTENDS ApiGateway, TLC

ClientSymmetry == Permutations(Clients)
=============================================================================
