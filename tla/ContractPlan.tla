---------------------------- MODULE ContractPlan ----------------------------
(***************************************************************************)
(* topological_order of adapters/python/acp_common/__init__.py: the order  *)
(* in which an agent is to run the actions of one contract, over the       *)
(* dependencies that Build put into it.                                    *)
(*                                                                         *)
(* One step takes one action off the queue.  The builder never looks for a *)
(* cycle, so this is where one is found: the queue runs dry too early.     *)
(***************************************************************************)
EXTENDS ManifestBuilder, Sequences

CONSTANT Registries   \* the registries a server may have been seeded with

ASSUME RegistriesAssumption ==
  \A registry \in Registries :
    /\ DOMAIN registry \subseteq Tool
    /\ \A t \in DOMAIN registry : Registerable(registry[t])

VARIABLES
  deps,    \* the contract: its actions and the actions each depends on
  pc,      \* "ordering", then "ordered" or "raised" (CycleError)
  indeg,   \* of each action: dependencies not yet put out
  ready,   \* the queue
  out      \* the order so far

planVars == <<deps, pc, indeg, ready, out>>

Actions == DOMAIN deps

ToSet(s) == {s[i] : i \in DOMAIN s}

(* sorted(S): its members in ascending order.                              *)
Listings(S) ==
  {s \in [1 .. Cardinality(S) -> S] :
     /\ ToSet(s) = S
     /\ \A i, j \in DOMAIN s : i < j => s[i] < s[j]}

(* Deviation: children is not keyed by the dependency.                     *)
Children_OfAll(a) == Actions

Children(a) == {c \in Actions : a \in deps[c]}

(* Contracts with at least one action: Build refuses the others.           *)
Contracts ==
  {[t \in Lookup(registry, asked) |->
      DependsOn(registry, Lookup(registry, asked), t)] :
     registry \in Registries, asked \in SUBSET Capability}

PlanInit ==
  /\ deps \in {contract \in Contracts : DOMAIN contract # {}}
  /\ pc = "ordering"
  /\ indeg = [a \in Actions |-> Cardinality(deps[a])]
  /\ ready \in Listings({a \in Actions : deps[a] = {}})
  /\ out = <<>>

(* Deviation: a child joins the queue with its first dependency.           *)
PutOut_FreesAtFirst ==
  /\ pc = "ordering"
  /\ ready # <<>>
  /\ LET a == Head(ready)
     IN  /\ out' = Append(out, a)
         /\ indeg' = [c \in Actions |->
                        IF c \in Children(a) THEN indeg[c] - 1 ELSE indeg[c]]
         /\ \E s \in Listings({c \in Children(a) : indeg[c] = Cardinality(deps[c])}) :
              ready' = Tail(ready) \o s
  /\ UNCHANGED <<deps, pc>>

(* Deviation: the counter is compared before it is decremented.            *)
PutOut_ComparesFirst ==
  /\ pc = "ordering"
  /\ ready # <<>>
  /\ LET a == Head(ready)
     IN  /\ out' = Append(out, a)
         /\ indeg' = [c \in Actions |->
                        IF c \in Children(a) THEN indeg[c] - 1 ELSE indeg[c]]
         /\ \E s \in Listings({c \in Children(a) : indeg[c] = 0}) :
              ready' = Tail(ready) \o s
  /\ UNCHANGED <<deps, pc>>

(* A child whose last dependency this was joins the queue; children freed  *)
(* together join in the order of their ids.                                *)
PutOut ==
  /\ pc = "ordering"
  /\ ready # <<>>
  /\ LET a == Head(ready)
         freed == {c \in Children(a) : indeg[c] = 1}
     IN  /\ out' = Append(out, a)
         /\ indeg' = [c \in Actions |->
                        IF c \in Children(a) THEN indeg[c] - 1 ELSE indeg[c]]
         /\ \E s \in Listings(freed) : ready' = Tail(ready) \o s
  /\ UNCHANGED <<deps, pc>>

(* Deviation: a short order is returned like a whole one.                  *)
Return_Short ==
  /\ pc = "ordering"
  /\ ready = <<>>
  /\ pc' = "ordered"
  /\ UNCHANGED <<deps, indeg, ready, out>>

Return ==
  /\ pc = "ordering"
  /\ ready = <<>>
  /\ Len(out) = Cardinality(Actions)
  /\ pc' = "ordered"
  /\ UNCHANGED <<deps, indeg, ready, out>>

RaiseCycleError ==
  /\ pc = "ordering"
  /\ ready = <<>>
  /\ Len(out) # Cardinality(Actions)
  /\ pc' = "raised"
  /\ UNCHANGED <<deps, indeg, ready, out>>

PlanNext == PutOut \/ Return \/ RaiseCycleError

PlanSpec == PlanInit /\ [][PlanNext]_planVars

-----------------------------------------------------------------------------
PlanTypeOK ==
  /\ Actions \subseteq Tool
  /\ deps \in [Actions -> SUBSET Actions]
  /\ pc \in {"ordering", "ordered", "raised"}
  /\ indeg \in [Actions -> Nat]
  /\ ready \in Seq(Actions)
  /\ out \in Seq(Actions)

(* The order honors depends_on at every length: whoever follows it calls   *)
(* an action only after all it depends on (acp_common, topological_order,  *)
(* "a valid execution order honoring depends_on").                         *)
OrderHonorsDependsOn ==
  \A i \in DOMAIN out : deps[out[i]] \subseteq {out[j] : j \in 1 .. i - 1}

(* An action is put out at most once, and an order that is returned has    *)
(* all of them: a queue with counters can lose an action or repeat it.     *)
OrderIsWhole ==
  /\ \A i, j \in DOMAIN out : out[i] = out[j] => i = j
  /\ pc = "ordered" => ToSet(out) = Actions

(* The counters and the queue do what the order of a graph is meant to be: *)
(* whatever is put out may come next, what is returned is all, and what is *)
(* refused cannot be ordered (acp_common, topological_order, "Raises       *)
(* CycleError if depends_on declares a cycle").                            *)
Promise ==
  INSTANCE LinearExtension
  WITH Graphs <- {contract \in Contracts : DOMAIN contract # {}},
       graph <- deps, order <- out, verdict <- pc

OrderKeepsPromise == Promise!Spec

(* CycleError accuses no contract wrongly: there are actions each of which *)
(* waits for another of them.                                              *)
CycleErrorIsReal ==
  pc = "raised" =>
    \E S \in SUBSET Actions : S # {} /\ \A a \in S : deps[a] \cap S # {}

=============================================================================
