----------------------------- MODULE ContractRun -----------------------------
(***************************************************************************)
(* adapters/python/acp_langgraph/__init__.py: one contract turned into a   *)
(* LangGraph and run.                                                      *)
(*                                                                         *)
(* build_graph asks topological_order for the nodes, which raises on a     *)
(* cycle, and then adds one edge for each dependency, each by a call of    *)
(* its own.  LangGraph itself is outside the repository: it works in       *)
(* steps; in a step all triggered nodes run concurrently, and after it a   *)
(* node is triggered by ANY edge from a node that ran (only add_edge with  *)
(* a list of sources makes a node wait for all of them).                   *)
(***************************************************************************)
EXTENDS ContractPlan

VARIABLES
  run,         \* "none", "running", "finished" or "failed"
  stage,       \* of each node in this step: "idle", "triggered", "called", "answered"
  completed    \* actions whose call has been answered with success

runVars == <<run, stage, completed>>
vars == <<planVars, runVars>>

Idle == [a \in Actions |-> "idle"]

Trigger(nodes) == [a \in Actions |-> IF a \in nodes THEN "triggered" ELSE "idle"]

Active == {a \in Actions : stage[a] # "idle"}

(* Deviation: START leads to the first action of the order only.           *)
StartEdges_First == {Head(out)}

(* Deviation: START leads to every action.                                 *)
StartEdges_All == Actions

(* START has an edge to each action without dependencies.                  *)
StartEdges == {a \in Actions : deps[a] = {}}

(* The nodes that edges from these nodes lead to.                          *)
Successors(nodes) == {c \in Actions : \E a \in nodes : a \in deps[c]}

Init ==
  /\ PlanInit
  /\ run = "none"
  /\ stage = Idle
  /\ completed = {}

Plan == PlanNext /\ UNCHANGED runVars

Invoke ==
  /\ pc = "ordered"
  /\ run = "none"
  /\ run' = "running"
  /\ stage' = Trigger(StartEdges)
  /\ UNCHANGED <<planVars, completed>>

(* _node sends its request to the proxy.                                   *)
Call(a) ==
  /\ run = "running"
  /\ stage[a] = "triggered"
  /\ stage' = [stage EXCEPT ![a] = "called"]
  /\ UNCHANGED <<planVars, run, completed>>

(* Needs an opener of the type the adapter declares for it, (request,      *)
(* timeout).  build_graph passes none, and the default, urlopen, takes the *)
(* second argument for the data to send and raises: with the code as it is *)
(* every node is one that raises, and what the runs and the proofs show of *)
(* an answered one is what the graph is worth once calls go through.       *)
Answer(a) ==
  /\ run = "running"
  /\ stage[a] = "called"
  /\ stage' = [stage EXCEPT ![a] = "answered"]
  /\ completed' = completed \cup {a}
  /\ UNCHANGED <<planVars, run>>

(* A status of 400 or more, or no answer within the timeout, raises.       *)
Raise(a) ==
  /\ run = "running"
  /\ stage[a] = "called"
  /\ run' = "failed"
  /\ UNCHANGED <<planVars, stage, completed>>

StepEnded == run = "running" /\ \A a \in Active : stage[a] = "answered"

NextStep ==
  /\ StepEnded
  /\ Successors(Active) # {}
  /\ stage' = Trigger(Successors(Active))
  /\ UNCHANGED <<planVars, run, completed>>

Finish ==
  /\ StepEnded
  /\ Successors(Active) = {}
  /\ run' = "finished"
  /\ UNCHANGED <<planVars, stage, completed>>

(* StateGraph(dict) keeps its state in one channel, which may refuse two   *)
(* values in one step.                                                     *)
RefuseUpdate ==
  /\ StepEnded
  /\ Cardinality(Active) > 1
  /\ run' = "failed"
  /\ UNCHANGED <<planVars, stage, completed>>

Next ==
  \/ Plan
  \/ Invoke
  \/ \E a \in Actions : Call(a) \/ Answer(a) \/ Raise(a)
  \/ NextStep
  \/ Finish
  \/ RefuseUpdate

Spec == Init /\ [][Next]_vars

(* Planning is a loop, and LangGraph runs the nodes it has triggered; a    *)
(* call ends within the timeout given to opener, one way or the other.     *)
FairSpec ==
  /\ Spec
  /\ WF_vars(Plan)
  /\ WF_vars(Invoke)
  /\ WF_vars(\E a \in Actions : Call(a))
  /\ WF_vars(\E a \in Actions : Answer(a) \/ Raise(a))
  /\ WF_vars(NextStep \/ Finish \/ RefuseUpdate)

-----------------------------------------------------------------------------
TypeOK ==
  /\ PlanTypeOK
  /\ run \in {"none", "running", "finished", "failed"}
  /\ stage \in [Actions -> {"idle", "triggered", "called", "answered"}]
  /\ completed \subseteq Actions

Calls(a) == stage[a] = "triggered" /\ stage'[a] = "called"

(* An action with one dependency is called only after that one has been    *)
(* answered with success, however the steps of the graph fall.             *)
OneDependencyHonored ==
  [][\A a \in Actions :
       Calls(a) /\ Cardinality(deps[a]) = 1 => deps[a] \subseteq completed]_vars

(* A run that finishes has left no action of the contract out: the edges   *)
(* from START and between actions reach every node.                        *)
FinishedRunIsWhole == run = "finished" => completed = Actions

(* Planning and running come to an end: a contract with a cycle is refused *)
(* before LangGraph could turn in it for ever.                             *)
RunEnds == <>(pc = "raised" \/ run \in {"finished", "failed"})

=============================================================================
