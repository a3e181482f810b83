-------------------------- MODULE KubernetesHealth --------------------------
(***************************************************************************)
(* translators/kubernetes/translator.go: from the objects of a namespace   *)
(* to the entities, alerts and actions of an ANF document.  Each of the    *)
(* three is computed from the view on its own; a reader of the document    *)
(* has only what they say together.  Text, units and the properties that   *)
(* are copied are left out; entities are sets, since nothing depends on    *)
(* their order, and alerts are the groups that sorting by severity leaves. *)
(***************************************************************************)
EXTENDS Integers

CONSTANTS
  Name,     \* names of deployments, pods, services, jobs and cron jobs
  Image,    \* container images
  NoImage   \* LatestImage = ""

ASSUME NoImageAssumption == NoImage \notin Image

Phase == {"running", "pending", "failed", "succeeded", "other"}
Operation == {"scale", "rollout", "restart", "logs", "exec", "describe"}

Pod == [name : Name, phase : Phase, mem : Int, restarts24h : Int]
Deployment == [name : Name, replicas : Int, ready : Int, cpu : Int, mem : Int,
               image : Image, latest : Image \cup {NoImage}, pods : SUBSET Pod]
Job == [name : Name, completed : BOOLEAN, succeeded : BOOLEAN]

(* A namespace: no two deployments of one name, no pod name in two of them. *)
NamespaceView ==
  {v \in [deployments : SUBSET Deployment, services : SUBSET Name, jobs : SUBSET Job,
          cronjobs : SUBSET Name, permissions : SUBSET Operation] :
     \A d, e \in v.deployments :
       \/ d = e
       \/ /\ d.name # e.name
          /\ \A p \in d.pods, q \in e.pods : p.name # q.name}

-----------------------------------------------------------------------------
(* Deviation: the pods of a deployment do not count.                       *)
deploymentStatus_IgnoresPods(d) ==
  IF d.ready = 0 /\ d.replicas > 0 THEN "failing"
  ELSE IF d.ready < d.replicas \/ d.mem > 80 \/ d.cpu > 80 THEN "degraded"
  ELSE "healthy"

deploymentStatus(d) ==
  IF d.ready = 0 /\ d.replicas > 0 THEN "failing"
  ELSE IF \/ d.ready < d.replicas
          \/ d.mem > 80 \/ d.cpu > 80
          \/ \E p \in d.pods : p.restarts24h > 2 \/ p.mem > 90
       THEN "degraded"
  ELSE "healthy"

podStatus(p) ==
  CASE p.phase = "running" -> "running"
    [] p.phase = "pending" -> "pending"
    [] p.phase = "failed" -> "failing"
    [] p.phase = "succeeded" -> "completed"
    [] OTHER -> "unknown"

jobStatus(j) ==
  IF ~j.completed THEN "running" ELSE IF j.succeeded THEN "completed" ELSE "failing"

Leaf(type, name, status) == [type |-> type, name |-> name, status |-> status, children |-> {}]

translateDeployment(d) ==
  [type |-> "deployment", name |-> d.name, status |-> deploymentStatus(d),
   children |-> {Leaf("pod", p.name, podStatus(p)) : p \in d.pods}]

Entities(view) ==
  {translateDeployment(d) : d \in view.deployments}
    \cup {Leaf("service", s, "") : s \in view.services}
    \cup {Leaf("job", j.name, jobStatus(j)) : j \in view.jobs}
    \cup {Leaf("cronjob", c, "") : c \in view.cronjobs}

-----------------------------------------------------------------------------
Alert(severity, type, name, about) ==
  [severity |-> severity, type |-> type, name |-> name, about |-> about]

When(condition, x) == IF condition THEN {x} ELSE {}

Outdated(d) == d.latest # NoImage /\ d.latest # d.image

podAlerts(p) ==
  When(p.restarts24h > 2, Alert("warning", "pod", p.name, "restarts"))
    \cup When(p.mem > 90, Alert("critical", "pod", p.name, "mem"))

deploymentAlerts(d) ==
  When(d.mem > 80, Alert("warning", "deployment", d.name, "mem"))
    \cup When(d.cpu > 80, Alert("warning", "deployment", d.name, "cpu"))
    \cup When(d.ready < d.replicas, Alert("critical", "deployment", d.name, "replicas"))
    \cup When(Outdated(d), Alert("info", "deployment", d.name, "image-outdated"))
    \cup UNION {podAlerts(p) : p \in d.pods}

severityRank(severity) ==
  IF severity = "critical" THEN 0 ELSE IF severity = "warning" THEN 1
  ELSE IF severity = "info" THEN 2 ELSE 3

(* The sorted list: the alerts of each rank, in the order of the ranks.    *)
deriveAlerts(view) ==
  LET alerts == UNION {deploymentAlerts(d) : d \in view.deployments}
  IN [rank \in 0 .. 3 |-> {a \in alerts : severityRank(a.severity) = rank}]

(* CanExec and CanDescribe give no action.                                 *)
deriveActions(view) ==
  LET may(op) == op \in view.permissions
      on(verb, d) == [verb |-> verb, type |-> "deployment", name |-> d.name]
  IN UNION {When(may("scale"), on("scale", d))
              \cup When(may("rollout") /\ Outdated(d), on("rollout", d))
              \cup When(may("restart"), on("restart", d))
              \cup {[verb |-> "logs", type |-> "pod", name |-> p.name] :
                      p \in IF may("logs") THEN d.pods ELSE {}}
            : d \in view.deployments}

Translate(view) ==
  [entities |-> Entities(view), alerts |-> deriveAlerts(view), actions |-> deriveActions(view)]

-----------------------------------------------------------------------------
(* What a document says of one entity, and of an entity and its children.  *)
Concerns(a, e) == a.type = e.type /\ a.name = e.name
ConcernsWithin(a, e) == Concerns(a, e) \/ \E c \in e.children : Concerns(a, c)

(* The three lists of a document agree with each other, although each is   *)
(* computed from the view by code of its own: a deployment is healthy      *)
(* exactly if no alert that is critical or a warning is about it or one of *)
(* its pods; a failing one stands among the critical alerts, which come    *)
(* first; no alert is about something the document does not show           *)
(* (FORMAT.md:168); and a rollout is offered only where an alert says that *)
(* the image is outdated.                                                  *)
DocumentAgrees(doc) ==
  /\ \A e \in doc.entities : e.type = "deployment" =>
       /\ e.status = "failing" => \E a \in doc.alerts[0] : Concerns(a, e)
       /\ e.status = "healthy" <=>
            ~ \E a \in doc.alerts[0] \cup doc.alerts[1] : ConcernsWithin(a, e)
  /\ \A rank \in 0 .. 3 : \A a \in doc.alerts[rank] :
       \E e \in doc.entities : ConcernsWithin(a, e)
  /\ \A x \in doc.actions : x.verb = "rollout" =>
       \E a \in doc.alerts[2] : Concerns(a, x) /\ a.about = "image-outdated"
=============================================================================
