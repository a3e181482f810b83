--------------------------- MODULE MCAnfMcpServer ---------------------------
(* TLC instance of AnfMcpServer: the registrations of cmd/anf-mcp, and the *)
(* views of namespaces with one deployment in various kinds of trouble, or *)
(* with two.                                                               *)
EXTENDS AnfMcpServer

CONSTANTS a, b, p, q, v1, v2, data

MCName == {a, b, p, q}
MCImage == {v1, v2}
MCRegistrations == <<[kind |-> "tool", name |-> "anf_encode"],
                     [kind |-> "tool", name |-> "anf_encode_kubernetes"],
                     [kind |-> "resource", name |-> "anf://spec/format"]>>

APod(n, phase_, mem, restarts) == [name |-> n, phase |-> phase_, mem |-> mem, restarts24h |-> restarts]
PodsOf(n) == {{}, {APod(n, "running", 50, 2)}, {APod(n, "failed", 50, 3)}, {APod(n, "running", 95, 0)}}

Healthy(n) == [name |-> n, replicas |-> 2, ready |-> 2, cpu |-> 80, mem |-> 80,
               image |-> v1, latest |-> v1, pods |-> {}]

(* One or two things wrong with a deployment, at the values next to the    *)
(* thresholds.                                                             *)
Troubled(n) ==
  {Healthy(n)}
    \cup {[Healthy(n) EXCEPT !.replicas = r[1], !.ready = r[2], !.latest = l] :
            r \in {<<2, 1>>, <<1, 0>>, <<0, 0>>}, l \in {NoImage, v2}}
    \cup {[Healthy(n) EXCEPT !.cpu = 81], [Healthy(n) EXCEPT !.mem = 81, !.ready = 0]}
    \cup {[Healthy(n) EXCEPT !.pods = ps] : ps \in PodsOf(p)}

ViewOf(ds, perms) ==
  [deployments |-> ds, services |-> {a}, cronjobs |-> {b},
   jobs |-> {[name |-> b, completed |-> TRUE, succeeded |-> FALSE]}, permissions |-> perms]

MCView ==
  {ViewOf({d}, {"rollout", "logs"}) : d \in Troubled(a)}
    \cup {ViewOf({[Healthy(a) EXCEPT !.mem = 81], d}, Operation) :
            d \in {Healthy(b), [Healthy(b) EXCEPT !.latest = v2, !.ready = 0, !.pods = {APod(q, "failed", 91, 0)}]}}
MCData == {data}
=============================================================================
