-------------------------- MODULE LinearExtension ---------------------------
(***************************************************************************)
(* What a caller of topological_order is promised (acp_common, "a valid    *)
(* execution order honoring depends_on.  Raises CycleError if depends_on   *)
(* declares a cycle"): the nodes of a graph are put into an order, each    *)
(* behind all it depends on, until all are in it or the graph is found to  *)
(* have a knot.  There are no counters and there is no queue here.         *)
(***************************************************************************)
EXTENDS Sequences

CONSTANT Graphs   \* from nodes to the nodes that each depends on

VARIABLES graph, order, verdict

vars == <<graph, order, verdict>>

Placed == {order[i] : i \in DOMAIN order}

(* Nodes that wait for each other: no order has any of them first.         *)
Knot(S) == S # {} /\ \A n \in S : graph[n] \cap S # {}

Init ==
  /\ graph \in Graphs
  /\ order = <<>>
  /\ verdict = "ordering"

Place(n) ==
  /\ verdict = "ordering"
  /\ n \notin Placed /\ graph[n] \subseteq Placed
  /\ order' = Append(order, n)
  /\ UNCHANGED <<graph, verdict>>

Accept ==
  /\ verdict = "ordering" /\ Placed = DOMAIN graph
  /\ verdict' = "ordered"
  /\ UNCHANGED <<graph, order>>

Refuse ==
  /\ verdict = "ordering" /\ \E S \in SUBSET DOMAIN graph : Knot(S)
  /\ verdict' = "raised"
  /\ UNCHANGED <<graph, order>>

Next == Accept \/ Refuse \/ \E n \in DOMAIN graph : Place(n)

Spec == Init /\ [][Next]_vars
=============================================================================
