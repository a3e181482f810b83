---------------------------- MODULE AnfMcpServer ----------------------------
(***************************************************************************)
(* The process anf-mcp: cmd/anf-mcp builds a server (pkg/anfmcp), registers *)
(* the tools of pkg/anftools and a resource, and serves JSON-RPC lines from *)
(* stdin to stdout until the input ends or a signal has cancelled its      *)
(* context.  One goroutine does all of it.  The client at the other end,   *)
(* its signals and the two pipes are external.                             *)
(***************************************************************************)
EXTENDS KubernetesHealth, Sequences

CONSTANTS
  Registrations,    \* what buildServer registers: records [kind, name], in order
  FailingResource,  \* resources whose reader returns an error
  View,             \* namespace views a client passes on
  Data,             \* values of the argument "data" other than deeply nested ones
  TooDeep,          \* a value nested deeper than generic.maxDepth
  Nothing,          \* an argument, a parameter or a body that is not there
  BadParams, UnknownName, MissingName,  \* params that do not decode, name no tool, name nothing
  MaxLines,         \* bound: lines the client writes
  MaxPipeline       \* bound: lines in the pipe at once

ToolName == {"anf_encode", "anf_encode_kubernetes"}

ASSUME RegistrationsAssumption ==
  Registrations \in Seq([kind : {"tool"}, name : ToolName]
                          \cup [kind : {"resource"}, name : {"anf://spec/format"}])
ASSUME NameAssumption == {BadParams, UnknownName, MissingName} \cap (ToolName \cup {"anf://spec/format"}) = {}
ASSUME ViewAssumption == View \subseteq NamespaceView
ASSUME BoundAssumption == MaxLines \in Nat

VARIABLES
  phase,      \* building, serving, or how the process ended
  toolOrder,  \* Server.toolOrder, the names of the map Server.tools in order
  resOrder,   \* Server.resOrder
  cancelled,  \* a signal has cancelled the context
  handling,   \* the request in Server.handle, Nothing while Serve reads
  stdin,      \* lines in the pipe
  stdinOpen,  \* the client has not closed its end
  stdoutOpen, \* the client has not closed its end
  room,       \* the pipe takes the next answer at once
  written,    \* every response written
  sent,       \* lines the client has written
  lines,      \* history: how many lines Serve has read
  owed        \* history: those among them that JSON-RPC wants answered

serverVars == <<phase, toolOrder, resOrder, handling>>
pipeVars == <<stdin, stdinOpen, stdoutOpen, room>>
historyVars == <<lines, owed>>
vars == <<serverVars, cancelled, pipeVars, written, sent, historyVars>>

Running == phase \in {"building", "serving"}

Names(seq) == {seq[k] : k \in DOMAIN seq}

-----------------------------------------------------------------------------
(* A line: the only parts of it that a response depends on.  Requests are  *)
(* numbered by the client; a notification is a line without an id.         *)
NoId == 0
Line(kind, id, method, name, arg) ==
  [kind |-> kind, id |-> id, method |-> method, name |-> name, arg |-> arg]

Plain == {"server/discover", "initialize", "ping", "tools/list", "resources/list", "other"}

Registered(kind) == {r \in Names(Registrations) : r.kind = kind}
Tools == {r.name : r \in Registered("tool")}
Resources == {r.name : r \in Registered("resource")}

LineKind == {"blank", "malformed", "oversized", "notification", "request"}

(* What follows "method" in a request: its name and its argument.          *)
Payload(method) ==
  IF method = "tools/call"
  THEN ({BadParams, UnknownName, MissingName} \X {Nothing})
         \cup (({"anf_encode"} \cap Tools) \X (Data \cup {TooDeep, Nothing}))
         \cup (({"anf_encode_kubernetes"} \cap Tools) \X (View \cup {BadParams, Nothing}))
  ELSE IF method = "resources/read" THEN ({BadParams, UnknownName, MissingName} \cup Resources) \X {Nothing}
  ELSE {<<Nothing, Nothing>>}

Method == Plain \cup {"tools/call", "resources/read"}

-----------------------------------------------------------------------------
(* Responses.  An outcome is a result, a tool's text with isError unset or *)
(* set, or a JSON-RPC error by its code.                                   *)
Response(id, outcome, body) == [id |-> id, outcome |-> outcome, body |-> body]

(* anftools: missing arguments and values nested too deeply are errors of  *)
(* the tool.  The text of the generic translator is left out.              *)
encodeHandler(arg) ==
  IF arg \in {Nothing, TooDeep} THEN [outcome |-> "toolError", body |-> Nothing]
  ELSE [outcome |-> "text", body |-> Nothing]

kubernetesHandler(arg) ==
  IF arg \in {Nothing, BadParams} THEN [outcome |-> "toolError", body |-> Nothing]
  ELSE [outcome |-> "text", body |-> Translate(arg)]

toolsCall(r, tools) ==
  IF r.name \in {BadParams, MissingName} \/ r.name \notin Names(tools)
  THEN Response(r.id, "invalidParams", Nothing)
  ELSE LET answer == IF r.name = "anf_encode" THEN encodeHandler(r.arg)
                     ELSE kubernetesHandler(r.arg)
       IN Response(r.id, answer.outcome, answer.body)

resourcesRead(r, resources) ==
  IF r.name \in {BadParams, MissingName} \/ r.name \notin Names(resources)
  THEN Response(r.id, "invalidParams", Nothing)
  ELSE IF r.name \in FailingResource THEN Response(r.id, "internalError", Nothing)
  ELSE Response(r.id, "result", Nothing)

(* What a line is answered with, by a server with these tools and          *)
(* resources; malformed lines have no id to answer to.                     *)
handle(r, tools, resources) ==
  IF r.kind = "malformed" THEN Response(NoId, "parseError", Nothing)
  ELSE IF r.method = "tools/call" THEN toolsCall(r, tools)
  ELSE IF r.method = "resources/read" THEN resourcesRead(r, resources)
  ELSE IF r.method = "tools/list" THEN Response(r.id, "result", [list |-> tools])
  ELSE IF r.method = "resources/list" THEN Response(r.id, "result", [list |-> resources])
  ELSE IF r.method = "other" THEN Response(r.id, "methodNotFound", Nothing)
  ELSE Response(r.id, "result", Nothing)

-----------------------------------------------------------------------------
(* buildServer, one registration after another; a name that is taken ends  *)
(* the process with os.Exit.                                               *)
Done == Len(toolOrder) + Len(resOrder)

Register(kind, order) ==
  /\ phase = "building"
  /\ Done < Len(Registrations)
  /\ LET r == Registrations[Done + 1] IN
     /\ r.kind = kind
     /\ IF r.name \in Names(order)
        THEN phase' = "failed" /\ UNCHANGED <<toolOrder, resOrder>>
        ELSE /\ toolOrder' = IF kind = "tool" THEN Append(order, r.name) ELSE toolOrder
             /\ resOrder' = IF kind = "resource" THEN Append(order, r.name) ELSE resOrder
             /\ UNCHANGED phase
  /\ UNCHANGED <<cancelled, handling, pipeVars, written, sent, historyVars>>

RegisterTool == Register("tool", toolOrder)
RegisterResource == Register("resource", resOrder)

StartServing ==
  /\ phase = "building"
  /\ Done = Len(Registrations)
  /\ phase' = "serving"
  /\ UNCHANGED <<toolOrder, resOrder, cancelled, handling, pipeVars, written, sent, historyVars>>

(* What JSON-RPC wants answered: requests, and lines that do not parse.    *)
Owes(l) ==
  /\ lines' = lines + 1
  /\ owed' = IF l.kind = "malformed" \/ l.id # NoId THEN Append(owed, l) ELSE owed

(* Serve reads its next line.                                              *)
Scans == phase = "serving" /\ handling = Nothing /\ stdin # <<>>

(* The scanner gives up on a line beyond 16 MiB; main exits with an error  *)
(* unless a signal has come.                                               *)
ScanTooLong ==
  /\ Scans
  /\ Head(stdin).kind = "oversized"
  /\ phase' = IF cancelled THEN "stopped" ELSE "failed"
  /\ stdin' = Tail(stdin)
  /\ UNCHANGED <<toolOrder, resOrder, handling, cancelled, stdinOpen, stdoutOpen, room, written, sent, historyVars>>

(* The context is looked at after a line has come, and the line is lost.   *)
ScanCancelled ==
  /\ Scans
  /\ Head(stdin).kind # "oversized"
  /\ cancelled
  /\ phase' = "stopped"
  /\ stdin' = Tail(stdin)
  /\ UNCHANGED <<toolOrder, resOrder, handling, cancelled, stdinOpen, stdoutOpen, room, written, sent, historyVars>>

(* Deviation: lines without an id reach the handlers, too.                 *)
ScanLine_HandlesAll ==
  /\ Scans
  /\ Head(stdin).kind # "oversized"
  /\ ~cancelled
  /\ stdin' = Tail(stdin)
  /\ Owes(Head(stdin))
  /\ handling' = IF Head(stdin).kind = "blank" THEN Nothing ELSE Head(stdin)
  /\ UNCHANGED <<phase, toolOrder, resOrder, cancelled, stdinOpen, stdoutOpen, room, written, sent>>

(* Deviation: lines that do not parse are dropped.                         *)
ScanLine_DropsMalformed ==
  /\ Scans
  /\ Head(stdin).kind # "oversized"
  /\ ~cancelled
  /\ stdin' = Tail(stdin)
  /\ Owes(Head(stdin))
  /\ handling' = IF Head(stdin).kind = "request" THEN Head(stdin) ELSE Nothing
  /\ UNCHANGED <<phase, toolOrder, resOrder, cancelled, stdinOpen, stdoutOpen, room, written, sent>>

(* Empty lines and notifications need nothing more.                        *)
ScanLine ==
  /\ Scans
  /\ Head(stdin).kind # "oversized"
  /\ ~cancelled
  /\ stdin' = Tail(stdin)
  /\ Owes(Head(stdin))
  /\ handling' = IF Head(stdin).kind \in {"malformed", "request"} THEN Head(stdin) ELSE Nothing
  /\ UNCHANGED <<phase, toolOrder, resOrder, cancelled, stdinOpen, stdoutOpen, room, written, sent>>

(* The handler returns and the response is written, whatever the context   *)
(* says: as soon as the pipe takes it.  write only logs errors, but the Go *)
(* runtime ends a process that writes to a closed stdout (SIGPIPE).        *)
Respond ==
  /\ phase = "serving" /\ handling # Nothing
  /\ handling' = Nothing
  /\ \/ /\ stdoutOpen /\ room /\ room' \in BOOLEAN
        /\ written' = Append(written, handle(handling, toolOrder, resOrder)) /\ UNCHANGED phase
     \/ ~stdoutOpen /\ phase' = "killed" /\ UNCHANGED <<written, room>>
  /\ UNCHANGED <<toolOrder, resOrder, cancelled, stdin, stdinOpen, stdoutOpen, sent, historyVars>>

(* Deviation: the end of the input is taken for a pause.                   *)
EndOfInput_Waits ==
  /\ phase = "serving" /\ handling = Nothing
  /\ stdin = <<>> /\ ~stdinOpen /\ cancelled
  /\ phase' = "stopped"
  /\ UNCHANGED <<toolOrder, resOrder, handling, cancelled, pipeVars, written, sent, historyVars>>

EndOfInput ==
  /\ phase = "serving" /\ handling = Nothing
  /\ stdin = <<>> /\ ~stdinOpen
  /\ phase' = "stopped"
  /\ UNCHANGED <<toolOrder, resOrder, handling, cancelled, pipeVars, written, sent, historyVars>>

Server ==
  \/ RegisterTool \/ RegisterResource \/ StartServing
  \/ ScanTooLong \/ ScanCancelled \/ ScanLine
  \/ Respond
  \/ EndOfInput

-----------------------------------------------------------------------------
(* The client.                                                             *)
Send(line) ==
  /\ stdinOpen /\ Running
  /\ sent < MaxLines /\ Len(stdin) < MaxPipeline
  /\ sent' = sent + 1
  /\ stdin' = Append(stdin, line)
  /\ UNCHANGED <<serverVars, cancelled, stdinOpen, stdoutOpen, room, written, historyVars>>

SendRequest ==
  \E method \in Method : \E p \in Payload(method) :
    Send(Line("request", sent + 1, method, p[1], p[2]))

SendOther ==
  \E kind \in LineKind \ {"request"} : Send(Line(kind, NoId, "other", Nothing, Nothing))

CloseStdin ==
  /\ stdinOpen /\ stdinOpen' = FALSE
  /\ UNCHANGED <<serverVars, cancelled, stdin, stdoutOpen, room, written, sent, historyVars>>

ClientReads ==
  /\ stdoutOpen /\ ~room /\ room' = TRUE
  /\ UNCHANGED <<serverVars, cancelled, stdin, stdinOpen, stdoutOpen, written, sent, historyVars>>

CloseStdout ==
  /\ stdoutOpen /\ stdoutOpen' = FALSE
  /\ UNCHANGED <<serverVars, cancelled, stdin, stdinOpen, room, written, sent, historyVars>>

(* SIGINT or SIGTERM, which main catches.                                  *)
Signal ==
  /\ ~cancelled /\ Running /\ cancelled' = TRUE
  /\ UNCHANGED <<serverVars, pipeVars, written, sent, historyVars>>

Init ==
  /\ phase = "building"
  /\ toolOrder = <<>> /\ resOrder = <<>>
  /\ cancelled = FALSE /\ handling = Nothing
  /\ stdin = <<>> /\ stdinOpen = TRUE /\ stdoutOpen = TRUE /\ room \in BOOLEAN
  /\ written = <<>> /\ sent = 0
  /\ lines = 0 /\ owed = <<>>

Next == Server \/ SendRequest \/ SendOther \/ CloseStdin \/ ClientReads \/ CloseStdout \/ Signal

Spec == Init /\ [][Next]_vars

(* The process runs whenever it can; its handlers compute and return.  The *)
(* client need not read.                                                   *)
FairSpec == Spec /\ WF_vars(Server)

-----------------------------------------------------------------------------
LineType ==
  {l \in [kind : LineKind, id : 0 .. MaxLines, method : Method,
          name : {Nothing, BadParams, UnknownName, MissingName} \cup Tools \cup Resources,
          arg : Data \cup View \cup {TooDeep, BadParams, Nothing}] :
     IF l.kind = "request" THEN l.id # NoId /\ <<l.name, l.arg>> \in Payload(l.method)
     ELSE l.id = NoId}

ASSUME NothingAssumption == Nothing \notin LineType

Outcome == {"result", "text", "toolError", "parseError", "methodNotFound", "invalidParams", "internalError"}

ResponseType ==
  [id : 0 .. MaxLines, outcome : Outcome,
   body : {Nothing, [list |-> toolOrder], [list |-> resOrder]} \cup {Translate(v) : v \in View}]

(* Every variable keeps its type, no name is registered twice, and only a  *)
(* request or an unreadable line ever reaches a handler, in a server that  *)
(* serves.                                                                 *)
TypeOK ==
  /\ phase \in {"building", "serving", "stopped", "failed", "killed"}
  /\ toolOrder \in Seq(Tools) /\ resOrder \in Seq(Resources)
  /\ \A i, j \in DOMAIN toolOrder : toolOrder[i] = toolOrder[j] => i = j
  /\ cancelled \in BOOLEAN /\ stdinOpen \in BOOLEAN /\ stdoutOpen \in BOOLEAN /\ room \in BOOLEAN
  /\ sent \in 0 .. MaxLines /\ lines \in 0 .. sent
  /\ stdin \in Seq(LineType) /\ owed \in Seq(LineType)
  /\ written \in Seq(ResponseType)
  /\ handling # Nothing =>
       phase = "serving" /\ handling \in LineType /\ handling.kind \in {"malformed", "request"}

(* Every request is handled in isolation (server.go:11-16): the responses  *)
(* are the answers to the requests and unreadable lines read, one each, in *)
(* their order, each depending on its own line only, whatever came before; *)
(* the last one may still be in its handler.                               *)
AnswersMatchLines ==
  phase = "serving" =>
    /\ Len(owed) = Len(written) + (IF handling = Nothing THEN 0 ELSE 1)
    /\ \A k \in DOMAIN written : written[k] = handle(owed[k], toolOrder, resOrder)

(* The documents that anf_encode_kubernetes answers with agree with        *)
(* themselves.                                                             *)
HealthAgrees ==
  \A k \in DOMAIN written :
    written[k].outcome = "text" /\ written[k].body # Nothing => DocumentAgrees(written[k].body)

(* Blocked for ever in the write of an answer (server.go:439), which has   *)
(* no deadline and which neither a signal nor the end of the input ends:   *)
(* the client keeps its end of stdout open without reading.                *)
ClientNeverReads == [](handling # Nothing /\ stdoutOpen /\ ~room)

(* Every line is read and answered, or the process is over; and the end of *)
(* the input ends it, as does a signal as soon as another line has come:   *)
(* but for a process that is blocked in a write.                           *)
ServesUntilTheEnd ==
  /\ \A n \in 1 .. MaxLines :
       sent >= n ~> (lines >= n /\ handling = Nothing) \/ ~Running \/ ClientNeverReads
  /\ ~stdinOpen ~> ~Running \/ ClientNeverReads
  /\ cancelled /\ stdin # <<>> ~> ~Running \/ ClientNeverReads
=============================================================================
