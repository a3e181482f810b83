-------------------------- MODULE MCContractServer --------------------------
(* TLC instances of ContractServer: a plain tool, a tool whose host only   *)
(* the first tool lists, one that wants approval, and one with a bad       *)
(* endpoint.                                                               *)
EXTENDS ContractServer

CONSTANTS r1, r2, a, b

MCRequest == {r1, r2}
MCCapability == {a, b}
MCTool == 1 .. 4

Entry(caps, host, egress, approval) ==
  [caps |-> caps, needs |-> {}, host |-> host, egress |-> egress,
   approval |-> approval]

MCRegistry ==
  <<Entry({a}, "h1", {"h1"}, FALSE),
    Entry({b}, "h1", {}, FALSE),
    Entry({b}, "h2", {"h2"}, TRUE),
    Entry({a}, NoHost, {}, FALSE)>>
=============================================================================
