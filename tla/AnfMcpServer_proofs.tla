------------------------ MODULE AnfMcpServer_proofs -------------------------
(***************************************************************************)
(* Proofs about AnfMcpServer, for any views, registrations and number of   *)
(* lines.  What a document says agrees with itself by the definitions of   *)
(* the translator alone (TranslateAgrees); that the responses match the    *)
(* lines needs that the request in its handler is the last one owed        *)
(* (Pending) and that nothing is owed before the server serves (Quiet).    *)
(***************************************************************************)
EXTENDS AnfMcpServer, TLAPS

-----------------------------------------------------------------------------
(* What a document says of a deployment depends on nothing but the         *)
(* deployment, since names are unique within a namespace.                  *)
LEMMA AlertsOfDeployment ==
  ASSUME NEW v \in NamespaceView, NEW d \in v.deployments,
         NEW a, a \in UNION {deploymentAlerts(x) : x \in v.deployments},
         ConcernsWithin(a, translateDeployment(d))
  PROVE  a \in deploymentAlerts(d)
<1>1. PICK x \in v.deployments : a \in deploymentAlerts(x)
  OBVIOUS
<1>2. /\ d \in Deployment /\ x \in Deployment
      /\ d = x \/ (d.name # x.name /\ \A p \in d.pods, q \in x.pods : p.name # q.name)
  BY DEF NamespaceView
<1>3. CASE a.type = "deployment"
  <2>1. a.name = d.name
    BY <1>3 DEF ConcernsWithin, Concerns, translateDeployment, Leaf
  <2>2. a.name = x.name
    BY <1>1, <1>3 DEF deploymentAlerts, podAlerts, When, Alert
  <2> QED BY <1>1, <1>2, <2>1, <2>2
<1>4. CASE a.type = "pod"
  <2>1. \E p \in d.pods : a.name = p.name
    BY <1>4 DEF ConcernsWithin, Concerns, translateDeployment, Leaf
  <2>2. \E q \in x.pods : a.name = q.name
    BY <1>1, <1>4 DEF deploymentAlerts, podAlerts, When, Alert
  <2> QED BY <1>1, <1>2, <2>1, <2>2
<1>5. a.type \in {"deployment", "pod"}
  BY <1>1 DEF deploymentAlerts, podAlerts, When, Alert
<1> QED BY <1>3, <1>4, <1>5

(* A deployment is healthy exactly if nothing critical and no warning is   *)
(* raised for it.                                                          *)
LEMMA StatusMatchesAlerts ==
  ASSUME NEW d \in Deployment
  PROVE  /\ deploymentStatus(d) = "failing" =>
              Alert("critical", "deployment", d.name, "replicas") \in deploymentAlerts(d)
         /\ deploymentStatus(d) = "healthy" <=>
              \A a \in deploymentAlerts(d) : a.severity = "info"
<1> DEFINE troubled == \/ d.ready < d.replicas
                       \/ d.mem > 80 \/ d.cpu > 80
                       \/ \E p \in d.pods : p.restarts24h > 2 \/ p.mem > 90
<1>1. d.ready \in Int /\ d.replicas \in Int
  BY DEF Deployment
<1>2. deploymentStatus(d) = "failing" => d.ready < d.replicas
  BY <1>1 DEF deploymentStatus
<1>3. deploymentStatus(d) = "healthy" <=> ~troubled
  BY <1>1 DEF deploymentStatus
<1>4. d.ready < d.replicas =>
        Alert("critical", "deployment", d.name, "replicas") \in deploymentAlerts(d)
  BY DEF deploymentAlerts, When
<1>5. ASSUME troubled PROVE \E a \in deploymentAlerts(d) : a.severity # "info"
  <2>1. CASE d.ready < d.replicas
    BY <1>4, <2>1 DEF Alert
  <2>2. CASE d.mem > 80
    <3>1. Alert("warning", "deployment", d.name, "mem") \in deploymentAlerts(d)
      BY <2>2 DEF deploymentAlerts, When
    <3> QED BY <3>1 DEF Alert
  <2>3. CASE d.cpu > 80
    <3>1. Alert("warning", "deployment", d.name, "cpu") \in deploymentAlerts(d)
      BY <2>3 DEF deploymentAlerts, When
    <3> QED BY <3>1 DEF Alert
  <2>4. ASSUME NEW p \in d.pods, p.restarts24h > 2 \/ p.mem > 90
        PROVE  \E a \in deploymentAlerts(d) : a.severity # "info"
    <3>1. \E a \in podAlerts(p) : a.severity # "info"
      <4>1. p.restarts24h > 2 => Alert("warning", "pod", p.name, "restarts") \in podAlerts(p)
        BY DEF podAlerts, When
      <4>2. p.mem > 90 => Alert("critical", "pod", p.name, "mem") \in podAlerts(p)
        BY DEF podAlerts, When
      <4>3. /\ Alert("warning", "pod", p.name, "restarts").severity # "info"
            /\ Alert("critical", "pod", p.name, "mem").severity # "info"
        BY DEF Alert
      <4> QED BY <2>4, <4>1, <4>2, <4>3
    <3>2. podAlerts(p) \subseteq deploymentAlerts(d)
      BY DEF deploymentAlerts
    <3> QED BY <3>1, <3>2
  <2> QED BY <1>5, <2>1, <2>2, <2>3, <2>4
<1>6. ASSUME ~troubled, NEW a \in deploymentAlerts(d) PROVE a.severity = "info"
  <2>1. \A p \in d.pods : podAlerts(p) = {}
    BY <1>6 DEF podAlerts, When
  <2> QED BY <1>6, <2>1 DEF deploymentAlerts, When, Alert
<1>7. (\A a \in deploymentAlerts(d) : a.severity = "info") <=> ~troubled
  BY <1>5, <1>6
<1> HIDE DEF troubled
<1> QED BY <1>2, <1>3, <1>4, <1>7

(* Every alert is about the deployment it was raised for or one of its     *)
(* pods, and the sorted list has all of them.                              *)
LEMMA AlertsAreShown ==
  ASSUME NEW d \in Deployment, NEW a \in deploymentAlerts(d)
  PROVE  /\ ConcernsWithin(a, translateDeployment(d))
         /\ a.severity \in {"critical", "warning", "info"}
<1>1. CASE \E p \in d.pods : a \in podAlerts(p)
  <2>1. PICK p \in d.pods : a \in podAlerts(p)
    BY <1>1
  <2>2. /\ a.type = "pod" /\ a.name = p.name
        /\ a.severity \in {"critical", "warning"}
    BY <2>1 DEF podAlerts, When, Alert
  <2>3. Leaf("pod", p.name, podStatus(p)) \in translateDeployment(d).children
    BY DEF translateDeployment
  <2> QED BY <2>2, <2>3 DEF ConcernsWithin, Concerns, Leaf
<1>2. CASE \A p \in d.pods : a \notin podAlerts(p)
  <2>1. /\ a.type = "deployment" /\ a.name = d.name
        /\ a.severity \in {"critical", "warning", "info"}
    BY <1>2 DEF deploymentAlerts, When, Alert
  <2> QED BY <2>1 DEF ConcernsWithin, Concerns, translateDeployment
<1> QED BY <1>1, <1>2

(* The document of any namespace agrees with itself, whatever the numbers  *)
(* in it.                                                                  *)
THEOREM TranslateAgrees ==
  ASSUME NEW v \in NamespaceView
  PROVE  DocumentAgrees(Translate(v))
<1> DEFINE doc == Translate(v)
           all == UNION {deploymentAlerts(d) : d \in v.deployments}
<1>1. /\ doc.entities = Entities(v)
      /\ doc.alerts = deriveAlerts(v)
      /\ doc.actions = deriveActions(v)
  BY DEF Translate
<1>2. v.deployments \subseteq Deployment
  BY DEF NamespaceView
<1>3. \A a \in all : /\ a.severity \in {"critical", "warning", "info"}
                      /\ \E d \in v.deployments : a \in deploymentAlerts(d)
  BY <1>2, AlertsAreShown
<1>4. \A rank \in 0 .. 3 : doc.alerts[rank] = {a \in all : severityRank(a.severity) = rank}
  BY <1>1 DEF deriveAlerts
<1>5. /\ doc.alerts[0] = {a \in all : a.severity = "critical"}
      /\ doc.alerts[1] = {a \in all : a.severity = "warning"}
      /\ doc.alerts[2] = {a \in all : a.severity = "info"}
  BY <1>3, <1>4 DEF severityRank
<1> HIDE DEF doc, all
<1>6. ASSUME NEW e \in doc.entities, e.type = "deployment"
      PROVE  \E d \in v.deployments : e = translateDeployment(d)
  <2>1. \A type, name, status : Leaf(type, name, status).type = type
    BY DEF Leaf
  <2>2. e \in Entities(v)
    BY <1>1
  <2>3. \/ e \in {translateDeployment(d) : d \in v.deployments}
        \/ e.type \in {"service", "job", "cronjob"}
    <3>1. CASE e \in {translateDeployment(d) : d \in v.deployments}
      BY <3>1
    <3>2. CASE e \in {Leaf("service", s, "") : s \in v.services}
      <4>1. PICK s \in v.services : e = Leaf("service", s, "")
        BY <3>2
      <4> QED BY <2>1, <4>1
    <3>3. CASE e \in {Leaf("job", j.name, jobStatus(j)) : j \in v.jobs}
      <4>1. PICK j \in v.jobs : e = Leaf("job", j.name, jobStatus(j))
        BY <3>3
      <4> QED BY <2>1, <4>1
    <3>4. CASE e \in {Leaf("cronjob", c, "") : c \in v.cronjobs}
      <4>1. PICK c \in v.cronjobs : e = Leaf("cronjob", c, "")
        BY <3>4
      <4> QED BY <2>1, <4>1
    <3> QED BY <2>2, <3>1, <3>2, <3>3, <3>4 DEF Entities
  <2>4. e \in {translateDeployment(d) : d \in v.deployments}
    BY <1>6, <2>3
  <2> QED BY <2>4
<1>7. ASSUME NEW d \in v.deployments
      PROVE  /\ translateDeployment(d).status = "failing" =>
                   \E a \in doc.alerts[0] : Concerns(a, translateDeployment(d))
             /\ translateDeployment(d).status = "healthy" <=>
                   ~ \E a \in doc.alerts[0] \cup doc.alerts[1] :
                       ConcernsWithin(a, translateDeployment(d))
  <2>1. translateDeployment(d).status = deploymentStatus(d)
    BY DEF translateDeployment
  <2>2. deploymentAlerts(d) \subseteq all
    BY DEF all
  <2>3. \A a \in all : ConcernsWithin(a, translateDeployment(d)) => a \in deploymentAlerts(d)
    BY AlertsOfDeployment DEF all
  <2>4. \A a \in deploymentAlerts(d) :
          /\ ConcernsWithin(a, translateDeployment(d))
          /\ a.severity \in {"critical", "warning", "info"}
    BY <1>2, AlertsAreShown
  <2>5. ASSUME deploymentStatus(d) = "failing"
        PROVE  \E a \in doc.alerts[0] : Concerns(a, translateDeployment(d))
    <3> DEFINE x == Alert("critical", "deployment", d.name, "replicas")
    <3>1. x \in deploymentAlerts(d)
      BY <1>2, <2>5, StatusMatchesAlerts
    <3>2. x \in doc.alerts[0]
      BY <1>5, <2>2, <3>1 DEF Alert
    <3>3. Concerns(x, translateDeployment(d))
      BY DEF Alert, Concerns, translateDeployment
    <3> QED BY <3>2, <3>3
  <2>6. deploymentStatus(d) = "healthy" <=> \A a \in deploymentAlerts(d) : a.severity = "info"
    BY <1>2, StatusMatchesAlerts
  <2>7. (\E a \in doc.alerts[0] \cup doc.alerts[1] : ConcernsWithin(a, translateDeployment(d)))
          <=> \E a \in deploymentAlerts(d) : a.severity # "info"
    BY <1>5, <2>2, <2>3, <2>4
  <2> QED BY <2>1, <2>5, <2>6, <2>7
<1>8. ASSUME NEW rank \in 0 .. 3, NEW a \in doc.alerts[rank]
      PROVE  \E e \in doc.entities : ConcernsWithin(a, e)
  <2>1. a \in all
    BY <1>4
  <2>2. PICK d \in v.deployments : a \in deploymentAlerts(d)
    BY <1>3, <2>1
  <2>3. translateDeployment(d) \in doc.entities
    BY <1>1 DEF Entities
  <2> QED BY <1>2, <2>2, <2>3, AlertsAreShown
<1>9. ASSUME NEW x \in doc.actions, x.verb = "rollout"
      PROVE  \E a \in doc.alerts[2] : Concerns(a, x) /\ a.about = "image-outdated"
  <2>1. PICK d \in v.deployments :
          Outdated(d) /\ x = [verb |-> "rollout", type |-> "deployment", name |-> d.name]
    BY <1>1, <1>9 DEF deriveActions, When
  <2> DEFINE o == Alert("info", "deployment", d.name, "image-outdated")
  <2>2. o \in deploymentAlerts(d)
    BY <2>1 DEF deploymentAlerts, When
  <2>3. o \in doc.alerts[2]
    BY <1>5, <2>2 DEF all, Alert
  <2> QED BY <2>1, <2>3 DEF Concerns, Alert
<1> QED BY <1>6, <1>7, <1>8, <1>9 DEF DocumentAgrees, doc
-----------------------------------------------------------------------------
(* The process.  Nothing is written or owed before it serves; the request  *)
(* in its handler is the last one owed; every document is that of a view.  *)
Quiet == phase = "building" => written = <<>> /\ owed = <<>> /\ handling = Nothing
Pending == handling # Nothing => owed # <<>> /\ handling = owed[Len(owed)]
Bounded == lines + Len(stdin) <= sent

Document(r) == r.outcome = "text" => r.body = Nothing \/ \E v \in View : r.body = Translate(v)
DocsAreViews == \A k \in DOMAIN written : Document(written[k])

IInv == TypeOK /\ Quiet /\ Pending /\ Bounded /\ AnswersMatchLines /\ DocsAreViews

LEMMA ToolNames == Tools \subseteq ToolName
<1>1. \A x \in Registered("tool") : x.name \in ToolName
  <2>1. ASSUME NEW k \in DOMAIN Registrations
        PROVE  Registrations[k].kind = "tool" => Registrations[k].name \in ToolName
    BY RegistrationsAssumption
  <2> QED BY <2>1 DEF Registered, Names
<1>2. ASSUME NEW n \in Tools PROVE n \in ToolName
  <2>1. PICK x \in Registered("tool") : n = x.name
    BY DEF Tools
  <2> QED BY <1>1, <2>1
<1> QED BY <1>2

(* What a handler returns is a response, and a document only that of a     *)
(* view.                                                                   *)
LEMMA HandleType ==
  ASSUME TypeOK, handling # Nothing
  PROVE  /\ handle(handling, toolOrder, resOrder) \in ResponseType
         /\ Document(handle(handling, toolOrder, resOrder))
<1> DEFINE r == handling
           h == handle(handling, toolOrder, resOrder)
<1>1. /\ r.kind \in {"malformed", "request"} /\ r.id \in 0 .. MaxLines
      /\ r.kind = "request" => <<r.name, r.arg>> \in Payload(r.method)
      /\ Names(toolOrder) \subseteq Tools
  BY DEF TypeOK, LineType, Names
<1>2. NoId \in 0 .. MaxLines
  BY BoundAssumption DEF NoId
<1>3. \A id \in 0 .. MaxLines, o \in Outcome \ {"text"},
         body \in {Nothing, [list |-> toolOrder], [list |-> resOrder]} :
        Response(id, o, body) \in ResponseType /\ Document(Response(id, o, body))
  BY DEF Response, ResponseType, Document
<1>4. \A id \in 0 .. MaxLines : \A body \in {Nothing} \cup {Translate(v) : v \in View} :
        Response(id, "text", body) \in ResponseType /\ Document(Response(id, "text", body))
  <2> SUFFICES ASSUME NEW id \in 0 .. MaxLines,
                      NEW body \in {Nothing} \cup {Translate(v) : v \in View}
               PROVE  /\ Response(id, "text", body) \in ResponseType
                      /\ Document(Response(id, "text", body))
    OBVIOUS
  <2>1. Response(id, "text", body) \in ResponseType
    BY DEF Response, ResponseType, Outcome
  <2>2. body = Nothing \/ \E v \in View : body = Translate(v)
    OBVIOUS
  <2>3. Document(Response(id, "text", body))
    BY <2>2 DEF Response, Document
  <2> QED BY <2>1, <2>3
<1>5. CASE r.kind = "malformed"
  BY <1>2, <1>3, <1>5 DEF handle, Outcome
<1>6. CASE r.kind = "request" /\ r.method = "tools/call"
  <2>1. h = toolsCall(r, toolOrder)
    BY <1>6 DEF handle
  <2>2. CASE r.name \in {BadParams, MissingName} \/ r.name \notin Names(toolOrder)
    BY <1>1, <1>3, <2>1, <2>2 DEF toolsCall, Outcome
  <2>3. CASE r.name = "anf_encode" /\ r.name \in Names(toolOrder) /\ r.name \notin {BadParams, MissingName}
    <3>1. h = Response(r.id, encodeHandler(r.arg).outcome, encodeHandler(r.arg).body)
      BY <2>1, <2>3 DEF toolsCall
    <3> QED BY <1>1, <1>3, <1>4, <3>1 DEF encodeHandler, Outcome
  <2>4. CASE r.name # "anf_encode" /\ r.name \in Names(toolOrder) /\ r.name \notin {BadParams, MissingName}
    <3>1. h = Response(r.id, kubernetesHandler(r.arg).outcome, kubernetesHandler(r.arg).body)
      BY <2>1, <2>4 DEF toolsCall
    <3>2. r.name \in ToolName
      BY <1>1, <2>4, ToolNames
    <3>3. r.name = "anf_encode_kubernetes" /\ r.name # UnknownName
      BY <2>4, <3>2, NameAssumption DEF ToolName
    <3>4. r.arg \in View \cup {BadParams, Nothing}
      <4>1. <<r.name, r.arg>> \in Payload("tools/call")
        BY <1>1, <1>6
      <4>2. <<r.name, r.arg>> \notin {BadParams, UnknownName, MissingName} \X {Nothing}
        BY <2>4, <3>3
      <4>3. <<r.name, r.arg>> \notin ({"anf_encode"} \cap Tools) \X (Data \cup {TooDeep, Nothing})
        BY <2>4
      <4>4. <<r.name, r.arg>> \in ({"anf_encode_kubernetes"} \cap Tools) \X (View \cup {BadParams, Nothing})
        BY <4>1, <4>2, <4>3 DEF Payload
      <4> QED BY <4>4
    <3>5. CASE r.arg \in {BadParams, Nothing}
      BY <1>1, <1>3, <3>1, <3>5 DEF kubernetesHandler, Outcome
    <3>6. CASE r.arg \in View /\ r.arg \notin {BadParams, Nothing}
      <4>1. h = Response(r.id, "text", Translate(r.arg))
        BY <3>1, <3>6 DEF kubernetesHandler
      <4>2. Translate(r.arg) \in {Nothing} \cup {Translate(v) : v \in View}
        BY <3>6
      <4> QED BY <1>1, <1>4, <4>1, <4>2
    <3> QED BY <3>4, <3>5, <3>6
  <2> QED BY <2>2, <2>3, <2>4
<1>7. CASE r.kind = "request" /\ r.method # "tools/call"
  BY <1>1, <1>3, <1>7 DEF handle, resourcesRead, Outcome
<1> QED BY <1>1, <1>5, <1>6, <1>7

THEOREM InitIInv == Init => IInv
<1> SUFFICES ASSUME Init PROVE IInv
  OBVIOUS
<1>1. TypeOK
  <2>1. \A S : <<>> \in Seq(S)
    OBVIOUS
  <2>2. /\ toolOrder \in Seq(Tools) /\ resOrder \in Seq(Resources)
        /\ stdin \in Seq(LineType) /\ owed \in Seq(LineType)
        /\ written \in Seq(ResponseType)
    BY <2>1 DEF Init
  <2>3. \A i, j \in DOMAIN toolOrder : toolOrder[i] = toolOrder[j] => i = j
    <3>1. DOMAIN toolOrder = {}
      BY DEF Init
    <3> QED BY <3>1
  <2>4. sent \in 0 .. MaxLines /\ lines \in 0 .. sent
    BY BoundAssumption DEF Init
  <2> QED BY <2>2, <2>3, <2>4 DEF Init, TypeOK
<1>2. Quiet /\ Pending /\ Bounded
  BY DEF Init, Quiet, Pending, Bounded
<1>3. AnswersMatchLines /\ DocsAreViews
  BY DEF Init, AnswersMatchLines, DocsAreViews
<1> QED BY <1>1, <1>2, <1>3 DEF IInv

(* A registration adds a name that was not there.                          *)
LEMMA RegisterStep ==
  ASSUME IInv, RegisterTool \/ RegisterResource
  PROVE  IInv'
<1>1. PICK kind \in {"tool", "resource"} :
        /\ kind = "tool" => Register("tool", toolOrder)
        /\ kind = "resource" => Register("resource", resOrder)
  BY DEF RegisterTool, RegisterResource
<1>2. /\ phase = "building" /\ phase' \in {"building", "failed"}
      /\ UNCHANGED <<cancelled, handling, pipeVars, written, sent, historyVars>>
  BY <1>1 DEF Register
<1>3. written = <<>> /\ owed = <<>> /\ handling = Nothing
  BY <1>2 DEF IInv, Quiet
<1>4. Done \in Nat
  BY DEF IInv, TypeOK, Done
<1> DEFINE r == Registrations[Done + 1]
<1>5. /\ r \in Names(Registrations)
      /\ r.kind = kind
  BY <1>1, <1>4, RegistrationsAssumption DEF Register, Names
<1>6. /\ r.kind = "tool" => r.name \in Tools
      /\ r.kind = "resource" => r.name \in Resources
  BY <1>5 DEF Tools, Resources, Registered
<1>7. /\ toolOrder' = toolOrder \/ (r.kind = "tool" /\ r.name \notin Names(toolOrder) /\ toolOrder' = Append(toolOrder, r.name))
      /\ resOrder' = resOrder \/ (r.kind = "resource" /\ resOrder' = Append(resOrder, r.name))
  BY <1>1, <1>5 DEF Register
<1> HIDE DEF r
<1>8. toolOrder' \in Seq(Tools) /\ resOrder' \in Seq(Resources)
  <2>1. toolOrder \in Seq(Tools) /\ resOrder \in Seq(Resources)
    BY DEF IInv, TypeOK
  <2>2. toolOrder' \in Seq(Tools)
    BY <1>6, <1>7, <2>1
  <2>3. resOrder' \in Seq(Resources)
    BY <1>6, <1>7, <2>1
  <2> QED BY <2>2, <2>3
<1>9. \A i, j \in DOMAIN toolOrder' : toolOrder'[i] = toolOrder'[j] => i = j
  <2>1. CASE toolOrder' = toolOrder
    BY <2>1 DEF IInv, TypeOK
  <2>2. CASE r.name \notin Names(toolOrder) /\ toolOrder' = Append(toolOrder, r.name)
    BY <2>2 DEF IInv, TypeOK, Names
  <2> QED BY <1>7, <2>1, <2>2
<1>10. written' \in Seq(ResponseType')
  BY <1>2, <1>3
<1>11. TypeOK'
  BY <1>2, <1>3, <1>8, <1>9, <1>10 DEF IInv, TypeOK, pipeVars, historyVars
<1>12. Quiet' /\ Pending' /\ Bounded'
  BY <1>2, <1>3 DEF IInv, Quiet, Pending, Bounded, pipeVars, historyVars
<1>13. AnswersMatchLines' /\ DocsAreViews'
  BY <1>2, <1>3 DEF AnswersMatchLines, DocsAreViews
<1> QED BY <1>11, <1>12, <1>13 DEF IInv
(* Steps that leave the server and what it has written alone.              *)
LEMMA QuietStep ==
  ASSUME IInv,
         \/ StartServing \/ ScanTooLong \/ ScanCancelled \/ EndOfInput
         \/ CloseStdin \/ ClientReads \/ CloseStdout \/ Signal \/ UNCHANGED vars
  PROVE  IInv'
<1>1. /\ UNCHANGED <<toolOrder, resOrder, handling, written, sent, lines, owed>>
      /\ stdin' = stdin \/ (stdin # <<>> /\ stdin' = Tail(stdin))
      /\ cancelled' \in BOOLEAN /\ stdinOpen' \in BOOLEAN /\ stdoutOpen' \in BOOLEAN
      /\ room' \in BOOLEAN
      /\ phase' = phase
         \/ (phase' \in {"serving", "stopped", "failed"} /\ (phase' = "serving" => phase = "building"))
      /\ phase' # phase => handling = Nothing
  BY DEF IInv, TypeOK, Quiet, StartServing, Scans, ScanTooLong, ScanCancelled, EndOfInput, CloseStdin,
     ClientReads, CloseStdout, Signal, vars, serverVars, pipeVars, historyVars
<1>2. stdin' \in Seq(LineType) /\ Len(stdin') <= Len(stdin)
  <2>1. stdin \in Seq(LineType)
    BY DEF IInv, TypeOK
  <2>2. CASE stdin # <<>> /\ stdin' = Tail(stdin)
    BY <2>1, <2>2
  <2> QED BY <1>1, <2>1, <2>2
<1>3. ResponseType' = ResponseType
  BY <1>1 DEF ResponseType
<1>4. TypeOK'
  BY <1>1, <1>2, <1>3 DEF IInv, TypeOK
<1>5. Quiet' /\ Pending'
  BY <1>1 DEF IInv, Quiet, Pending
<1>6. Bounded'
  <2>1. Len(stdin) \in Nat /\ Len(stdin') \in Nat /\ sent \in Int /\ lines \in Int
    BY <1>2 DEF IInv, TypeOK
  <2> QED BY <1>1, <1>2, <2>1 DEF IInv, Bounded
<1>7. AnswersMatchLines'
  <2>1. CASE phase' = "serving" /\ phase = "building"
    BY <1>1, <2>1 DEF IInv, Quiet, AnswersMatchLines
  <2>2. CASE phase' = "serving" => phase = "serving"
    BY <1>1, <2>2 DEF IInv, AnswersMatchLines
  <2> QED BY <1>1, <2>1, <2>2
<1>8. DocsAreViews'
  BY <1>1 DEF IInv, DocsAreViews, Document
<1> QED BY <1>4, <1>5, <1>6, <1>7, <1>8 DEF IInv

(* A line read is in the handler if and only if it is owed an answer.      *)
LEMMA ScanStep ==
  ASSUME IInv, ScanLine
  PROVE  IInv'
<1> DEFINE l == Head(stdin)
<1>1. /\ stdin \in Seq(LineType) /\ stdin # <<>>
      /\ phase = "serving" /\ handling = Nothing /\ stdin' = Tail(stdin)
      /\ UNCHANGED <<phase, toolOrder, resOrder, cancelled, stdinOpen, stdoutOpen, room, written, sent>>
  BY DEF IInv, TypeOK, ScanLine, Scans
<1>2. /\ l \in LineType /\ l # Nothing /\ stdin' \in Seq(LineType)
      /\ Len(stdin') = Len(stdin) - 1 /\ Len(stdin) \in Nat
  BY <1>1, NothingAssumption
<1>3. lines' = lines + 1 /\ lines \in Int /\ sent \in Int /\ lines >= 0
  BY DEF ScanLine, Owes, IInv, TypeOK
<1>4. l.kind \in {"malformed", "request"} <=> l.kind = "malformed" \/ l.id # NoId
  BY <1>2 DEF LineType
<1> HIDE DEF l
<1>5. \/ l.kind \in {"malformed", "request"} /\ handling' = l /\ owed' = Append(owed, l)
      \/ handling' = Nothing /\ owed' = owed
  BY <1>4 DEF ScanLine, Owes, l
<1>6. owed \in Seq(LineType) /\ owed' \in Seq(LineType)
  <2>1. owed \in Seq(LineType)
    BY DEF IInv, TypeOK
  <2>2. Append(owed, l) \in Seq(LineType)
    BY <1>2, <2>1
  <2> QED BY <1>5, <2>1, <2>2
<1>7. /\ lines' \in 0 .. sent' /\ Bounded'
  BY <1>1, <1>2, <1>3 DEF IInv, Bounded
<1>8. ResponseType' = ResponseType
  BY <1>1 DEF ResponseType
<1>9. TypeOK'
  BY <1>1, <1>2, <1>5, <1>6, <1>7, <1>8 DEF IInv, TypeOK
<1>10. Quiet' /\ Pending'
  <2>1. Pending'
    BY <1>5, <1>6 DEF Pending
  <2> QED BY <1>1, <2>1 DEF Quiet
<1>11. AnswersMatchLines'
  <2>1. /\ Len(owed) = Len(written)
        /\ \A k \in DOMAIN written : written[k] = handle(owed[k], toolOrder, resOrder)
        /\ written \in Seq(ResponseType)
    BY <1>1 DEF IInv, TypeOK, AnswersMatchLines
  <2>2. \A k \in DOMAIN written : owed'[k] = owed[k]
    BY <1>5, <1>6, <2>1
  <2>3. Len(owed') = Len(written) + (IF handling' = Nothing THEN 0 ELSE 1)
    BY <1>2, <1>5, <1>6, <2>1
  <2> QED BY <1>1, <2>1, <2>2, <2>3 DEF AnswersMatchLines
<1>12. DocsAreViews'
  BY <1>1 DEF IInv, DocsAreViews, Document
<1> QED BY <1>7, <1>9, <1>10, <1>11, <1>12 DEF IInv

(* The response written is that of the line owed last.                     *)
LEMMA RespondStep ==
  ASSUME IInv, Respond
  PROVE  IInv'
<1> DEFINE h == handle(handling, toolOrder, resOrder)
<1>1. /\ phase = "serving" /\ handling # Nothing /\ handling' = Nothing
      /\ UNCHANGED <<toolOrder, resOrder, cancelled, stdin, stdinOpen, stdoutOpen, sent, lines, owed>>
      /\ room' \in BOOLEAN
  BY DEF Respond, historyVars, IInv, TypeOK
<1>2. \/ phase' = phase /\ written' = Append(written, h)
      \/ phase' = "killed" /\ written' = written
  BY DEF Respond
<1>3. h \in ResponseType /\ Document(h)
  BY <1>1, HandleType DEF IInv
<1>4. /\ owed \in Seq(LineType) /\ owed # <<>> /\ handling = owed[Len(owed)]
      /\ Len(owed) = Len(written) + 1
      /\ \A k \in DOMAIN written : written[k] = handle(owed[k], toolOrder, resOrder)
      /\ written \in Seq(ResponseType)
  BY <1>1 DEF IInv, TypeOK, Pending, AnswersMatchLines
<1> HIDE DEF h
<1>5. ResponseType' = ResponseType
  BY <1>1 DEF ResponseType
<1>6. written' \in Seq(ResponseType)
  BY <1>2, <1>3, <1>4
<1>7. TypeOK'
  BY <1>1, <1>2, <1>5, <1>6 DEF IInv, TypeOK
<1>8. Quiet' /\ Pending' /\ Bounded'
  BY <1>1, <1>2 DEF IInv, Quiet, Pending, Bounded
<1>9. AnswersMatchLines'
  <2>1. CASE phase' = phase /\ written' = Append(written, h)
    <3>1. Len(written') = Len(owed) /\ written'[Len(owed)] = handle(owed[Len(owed)], toolOrder, resOrder)
      BY <1>4, <2>1 DEF h
    <3>2. \A k \in DOMAIN written' : k = Len(owed) \/ (k \in DOMAIN written /\ written'[k] = written[k])
      BY <1>4, <2>1
    <3>3. Len(owed') = Len(written') + 0
      BY <1>1, <1>4, <3>1
    <3> QED BY <1>1, <1>4, <3>1, <3>2, <3>3 DEF AnswersMatchLines
  <2>2. CASE phase' = "killed"
    BY <2>2 DEF AnswersMatchLines
  <2> QED BY <1>2, <2>1, <2>2
<1>10. DocsAreViews'
  <2>1. \A k \in DOMAIN written' : written'[k] = h \/ (k \in DOMAIN written /\ written'[k] = written[k])
    BY <1>2, <1>3, <1>4
  <2>2. \A k \in DOMAIN written : Document(written[k])
    BY DEF IInv, DocsAreViews
  <2>3. \A k \in DOMAIN written' : Document(written'[k])
    BY <1>3, <2>1, <2>2
  <2> QED BY <2>3 DEF DocsAreViews, Document
<1> QED BY <1>7, <1>8, <1>9, <1>10 DEF IInv

(* The client appends a line of its type.                                  *)
LEMMA SendStep ==
  ASSUME IInv, SendRequest \/ SendOther
  PROVE  IInv'
<1>1. PICK l \in LineType : Send(l)
  <2>1. CASE SendRequest
    <3>0. PICK method \in Method :
            \E p \in Payload(method) : Send(Line("request", sent + 1, method, p[1], p[2]))
      BY <2>1 DEF SendRequest
    <3>1. PICK p \in Payload(method) : Send(Line("request", sent + 1, method, p[1], p[2]))
      BY <3>0
    <3>2. p = <<p[1], p[2]>>
          /\ p[1] \in {Nothing, BadParams, UnknownName, MissingName} \cup Tools \cup Resources
          /\ p[2] \in Data \cup View \cup {TooDeep, BadParams, Nothing}
      BY DEF Payload
    <3>3. sent + 1 \in 0 .. MaxLines /\ sent + 1 # NoId
      BY <3>1, BoundAssumption DEF Send, IInv, TypeOK, NoId
    <3>4. Line("request", sent + 1, method, p[1], p[2]) \in LineType
      BY <3>2, <3>3 DEF Line, LineType, LineKind
    <3> QED BY <3>1, <3>4
  <2>2. CASE SendOther
    <3>1. PICK kind \in LineKind \ {"request"} : Send(Line(kind, NoId, "other", Nothing, Nothing))
      BY <2>2 DEF SendOther
    <3>2. NoId \in 0 .. MaxLines
      BY BoundAssumption DEF NoId
    <3>3. Line(kind, NoId, "other", Nothing, Nothing) \in LineType
      BY <3>2 DEF Line, LineType, LineKind, Method, Plain
    <3> QED BY <3>1, <3>3
  <2> QED BY <2>1, <2>2
<1>2. /\ sent < MaxLines /\ sent' = sent + 1 /\ stdin' = Append(stdin, l)
      /\ UNCHANGED <<phase, toolOrder, resOrder, handling, cancelled, stdinOpen, stdoutOpen, room, written,
                     lines, owed>>
  BY <1>1 DEF Send, serverVars, historyVars
<1>3. /\ stdin \in Seq(LineType) /\ stdin' \in Seq(LineType)
      /\ Len(stdin) \in Nat /\ Len(stdin') = Len(stdin) + 1
  BY <1>2 DEF IInv, TypeOK
<1>4. /\ sent' \in 0 .. MaxLines /\ lines' \in 0 .. sent' /\ Bounded'
  BY <1>2, <1>3, BoundAssumption DEF IInv, TypeOK, Bounded
<1>5. ResponseType' = ResponseType
  BY <1>2 DEF ResponseType
<1>6. TypeOK'
  BY <1>2, <1>3, <1>4, <1>5 DEF IInv, TypeOK
<1>7. Quiet' /\ Pending' /\ AnswersMatchLines'
  BY <1>2 DEF IInv, Quiet, Pending, AnswersMatchLines
<1>8. DocsAreViews'
  BY <1>2 DEF IInv, DocsAreViews, Document
<1> QED BY <1>4, <1>6, <1>7, <1>8 DEF IInv

THEOREM StepIInv == IInv /\ [Next]_vars => IInv'
BY RegisterStep, QuietStep, ScanStep, RespondStep, SendStep DEF Next, Server

(* The invariant holds of the process, and with it its type.               *)
THEOREM Invariant == Spec => []IInv
<1>1. Init => IInv
  BY InitIInv
<1>2. IInv /\ [Next]_vars => IInv'
  BY StepIInv
<1> QED BY <1>1, <1>2, PTL DEF Spec

THEOREM TypeCorrect == Spec => []TypeOK
<1>1. IInv => TypeOK
  BY DEF IInv
<1> QED BY <1>1, Invariant, PTL

(* Requests are answered in order, each from its own line (server.go:11-16). *)
THEOREM AnswersMatch == Spec => []AnswersMatchLines
<1>1. IInv => AnswersMatchLines
  BY DEF IInv
<1> QED BY <1>1, Invariant, PTL

(* Every document written agrees with itself, whatever the views are.      *)
THEOREM HealthCorrect == Spec => []HealthAgrees
<1>1. IInv => HealthAgrees
  BY TranslateAgrees, ViewAssumption DEF IInv, DocsAreViews, Document, HealthAgrees
<1> QED BY <1>1, Invariant, PTL
=============================================================================
