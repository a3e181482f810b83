--------------------------- MODULE ManifestBuilder ---------------------------
(***************************************************************************)
(* internal/registry/registry.go and internal/builder/builder.go: which    *)
(* registered tools a contract contains, in which order they depend on     *)
(* each other, and the boundaries the contract declares.                   *)
(*                                                                         *)
(* A registry maps each tool to its entry: the capabilities it offers      *)
(* (caps), the capabilities that must run before it (needs), the host of   *)
(* its endpoint, the hosts it may reach (egress), and whether a call wants *)
(* approval.  Tags are those left by the lower-casing of both sides.       *)
(*                                                                         *)
(* Build names the actions a1, a2, ... in the order of the tool ids.       *)
(* Inside one contract that is a bijection, so an action is named by its   *)
(* tool, and a tool by the rank of its id.  The adapters compare the names *)
(* as strings, which is the same order for up to nine actions.             *)
(***************************************************************************)
EXTENDS Naturals, FiniteSets

CONSTANTS Tool, Capability

ASSUME ToolAssumption == Tool \subseteq Nat /\ IsFiniteSet(Tool)

NoHost == "no host"   \* of an endpoint that url.Parse gives none

(* Register refuses a tool without capabilities.                           *)
Registerable(entry) == entry.caps # {}

(* The tools of which a capability was asked.                              *)
Lookup(registry, asked) ==
  {t \in DOMAIN registry : registry[t].caps \cap asked # {}}

(* dependsOnFor: the other tools of the contract that offer a capability   *)
(* this one needs.  A need that no tool of the contract meets is dropped.  *)
DependsOn(registry, tools, t) ==
  {u \in tools \ {t} : registry[u].caps \cap registry[t].needs # {}}

(* boundaries.egress and boundaries.require_approval.                      *)
Egress(registry, tools) == UNION {registry[t].egress : t \in tools}

RequireApproval(registry, tools) == {t \in tools : registry[t].approval}

=============================================================================
