--------------------------- MODULE MCContractRun ---------------------------
(* TLC instances of ContractRun: four tools with any needs; the third and  *)
(* the fourth offer the same capability.                                   *)
EXTENDS ContractRun

MCTool == 1 .. 4
MCCapability == 1 .. 3

Offers == [t \in MCTool |-> IF t = 4 THEN {3} ELSE {t}]

MCRegistries ==
  {[t \in MCTool |-> [caps |-> Offers[t], needs |-> needs[t]]] :
     needs \in [MCTool -> SUBSET MCCapability]}
=============================================================================
