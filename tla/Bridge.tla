------------------------------- MODULE Bridge -------------------------------
(***************************************************************************)
(* internal/bridge/bridge.go: the MCP server between an IDE and the tools  *)
(* imported at start-up.  One goroutine reads requests from stdin, answers *)
(* on stdout and, for tools/call, blocks in the Forwarder until the        *)
(* downstream server has answered or failed.  The client writes ahead of   *)
(* the bridge and reads behind it, so that its idea of the tool surface is *)
(* the last tools/list answer it has read, not the surface of now.         *)
(***************************************************************************)
EXTENDS DeferredWindow, FiniteSets

CONSTANTS
  Tool,          \* tools of the registry; Bridge.tools holds the same ones
  Tags,          \* the capability tags of each tool, in registry order
  UnknownName,   \* a name in a tools/call that no tool has
  BadParams,     \* stands for the name when the params do not parse
  HasForwarder,  \* FALSE in configurations without downstream clients
  Method,        \* the methods the client uses
  Nobody,        \* no request, no tool, no list
  MaxRequests,   \* bound: requests the client sends of its own accord
  MaxPipeline    \* bound: requests waiting in stdin

ASSUME ToolAssumption ==
  /\ IsFiniteSet(Tool)
  /\ Tags \in [Tool -> Seq(Capability)]
  /\ \A t \in Tool : Tags[t] # <<>>
  /\ Nobody \notin Tool
  /\ \A tools \in SUBSET Tool : Nobody # tools
  /\ UnknownName \notin Tool
  /\ BadParams \notin Tool
(* cmd/acp-bridge hands the resolver the tags of all registered tools.     *)
ASSUME AllTagsAssumption == AllCapabilities = UNION {Range(Tags[t]) : t \in Tool}
ASSUME MethodAssumption == "tools/list" \in Method
ASSUME BridgeBounds ==
  /\ HasForwarder \in BOOLEAN
  /\ MaxRequests \in Nat
  /\ MaxPipeline \in Nat \ {0}

VARIABLES
  window,         \* the resolver's window
  prevToolCount,  \* Bridge.prevToolCount
  handling,       \* the tools/call that waits for the Forwarder, or Nobody
  exit,           \* "running", then what Serve and main make of the end of stdin
  stdin,          \* requests written by the client and not yet read
  stdinOpen,
  stdout,         \* messages written by the bridge and not yet read
  sent,           \* client: number of requests it has sent of its own accord
  nextId,         \* client: the last request id it has used
  view,           \* client: the tools of the last list it read, or Nobody
  refetch,        \* client: it has read a list_changed and not yet asked again
  listed,         \* history: the tools of the last list written, or Nobody
  announced,      \* history: a list_changed was written after that list
  lastCalled,     \* history: the tool of the last tools/call observed
  due,            \* history: ids of requests read that call for an answer
  answers         \* history: how many answers were written for each id

resolverVars == <<window, prevToolCount>>
serverVars == <<handling, exit>>
clientVars == <<sent, nextId, view, refetch>>
historyVars == <<listed, announced, lastCalled, due, answers>>
vars == <<resolverVars, serverVars, stdin, stdinOpen, stdout, clientVars, historyVars>>

(* Request ids; a re-fetch follows a notification, hence at most one call, *)
(* so that the ids never run out.                                          *)
NoId == 0
Id == 1 .. 2 * MaxRequests

-----------------------------------------------------------------------------
(* Resolve("", nil) and Lookup of what it returns.                         *)
Capabilities(w) == Gather(Len(w), observedCaps(w), {}, {})

Lookup(caps) == {t \in Tool : Range(Tags[t]) \cap caps # {}}

Surface(w) == Lookup(Capabilities(w))

Answer(r, kind, tools) == [kind |-> kind, id |-> r.id, tools |-> tools]

ListChanged == [kind |-> "list_changed", id |-> NoId, tools |-> {}]

-----------------------------------------------------------------------------
(* The client.                                                             *)
Request(method, name, id) == [method |-> method, name |-> name, id |-> id]

Name == Tool \cup {UnknownName, BadParams}

Write(r) ==
  /\ stdinOpen /\ exit = "running"
  /\ Len(stdin) < MaxPipeline
  /\ stdin' = Append(stdin, r)
  /\ UNCHANGED <<resolverVars, serverVars, stdinOpen, stdout, historyVars>>

(* A request of any kind; a line that is not JSON and a line longer than   *)
(* the scanner's buffer are methods of their own, and bring no id.         *)
ClientSend(method, name, hasId) ==
  /\ sent < MaxRequests
  /\ method # "tools/call" => name = Nobody
  /\ method = "tools/call" => name \in Name
  /\ method \in {"malformed", "oversized", "notifications/initialized"} => ~hasId
  /\ hasId => nextId + 1 \in Id
  /\ sent' = sent + 1
  /\ nextId' = IF hasId THEN nextId + 1 ELSE nextId
  /\ Write(Request(method, name, IF hasId THEN nextId + 1 ELSE NoId))
  /\ UNCHANGED <<view, refetch>>

ClientRefetch ==
  /\ refetch /\ nextId + 1 \in Id
  /\ refetch' = FALSE
  /\ nextId' = nextId + 1
  /\ Write(Request("tools/list", Nobody, nextId + 1))
  /\ UNCHANGED <<sent, view>>

ClientReceive ==
  /\ stdout # <<>>
  /\ LET m == Head(stdout) IN
     /\ view' = IF m.kind = "list" THEN m.tools ELSE view
     /\ refetch' = (refetch \/ m.kind = "list_changed")
  /\ stdout' = Tail(stdout)
  /\ UNCHANGED <<resolverVars, serverVars, stdin, stdinOpen, sent, nextId, historyVars>>

ClientClose ==
  /\ stdinOpen
  /\ stdinOpen' = FALSE
  /\ UNCHANGED <<resolverVars, serverVars, stdin, stdout, clientVars, historyVars>>

-----------------------------------------------------------------------------
(* The bridge.  Next line of stdin, while no call is being forwarded.      *)
Reads(method) ==
  /\ exit = "running"
  /\ handling = Nobody
  /\ stdin # <<>>
  /\ Head(stdin).method = method
  /\ stdin' = Tail(stdin)
  /\ UNCHANGED <<stdinOpen, clientVars>>

(* Bookkeeping of what was asked and what was answered.                    *)
Owes(r) == due' = IF r.id \in Id THEN due \cup {r.id} ELSE due

Counts(r) ==
  answers' = IF r.id \in Id THEN [answers EXCEPT ![r.id] = @ + 1] ELSE answers

(* Blank and malformed lines and the initialized notification are dropped. *)
Drop(method) ==
  /\ Reads(method)
  /\ UNCHANGED <<resolverVars, serverVars, stdout, historyVars>>

(* initialize and ping are answered even when the request has no id.       *)
Reply(method) ==
  /\ Reads(method)
  /\ stdout' = Append(stdout, Answer(Head(stdin), "result", {}))
  /\ Owes(Head(stdin)) /\ Counts(Head(stdin))
  /\ UNCHANGED <<resolverVars, serverVars, listed, announced, lastCalled>>

(* Any other method: an error if there is an id, nothing otherwise.        *)
MethodNotFound ==
  /\ Reads("other")
  /\ IF Head(stdin).id = NoId
     THEN UNCHANGED <<stdout, due, answers>>
     ELSE /\ stdout' = Append(stdout, Answer(Head(stdin), "error", {}))
          /\ Owes(Head(stdin)) /\ Counts(Head(stdin))
  /\ UNCHANGED <<resolverVars, serverVars, listed, announced, lastCalled>>

(* Deviation: the size of the list is recorded only the first time.        *)
handleToolsList_RecordsOnce ==
  /\ Reads("tools/list")
  /\ prevToolCount' = IF prevToolCount = 0 THEN Cardinality(Surface(window)) ELSE prevToolCount
  /\ stdout' = Append(stdout, Answer(Head(stdin), "list", Surface(window)))
  /\ listed' = Surface(window)
  /\ announced' = FALSE
  /\ Owes(Head(stdin)) /\ Counts(Head(stdin))
  /\ UNCHANGED <<window, serverVars, lastCalled>>

(* When the resolver has no capability at all, the list is empty and       *)
(* prevToolCount keeps its old value.                                      *)
handleToolsList ==
  /\ Reads("tools/list")
  /\ prevToolCount' = IF Capabilities(window) = {}
                      THEN prevToolCount ELSE Cardinality(Surface(window))
  /\ stdout' = Append(stdout, Answer(Head(stdin), "list", Surface(window)))
  /\ listed' = Surface(window)
  /\ announced' = FALSE
  /\ Owes(Head(stdin)) /\ Counts(Head(stdin))
  /\ UNCHANGED <<window, serverVars, lastCalled>>

(* Deviation: params that do not parse are dropped like malformed lines.   *)
RejectCall_DropsBadParams ==
  /\ Reads("tools/call")
  /\ Head(stdin).name \notin Tool
  /\ Owes(Head(stdin))
  /\ IF Head(stdin).name = BadParams
     THEN UNCHANGED <<stdout, answers>>
     ELSE /\ stdout' = Append(stdout, Answer(Head(stdin), "error", {}))
          /\ Counts(Head(stdin))
  /\ UNCHANGED <<resolverVars, serverVars, listed, announced, lastCalled>>

(* Params that do not parse and names that no tool has.                    *)
RejectCall ==
  /\ Reads("tools/call")
  /\ Head(stdin).name \notin Tool
  /\ stdout' = Append(stdout, Answer(Head(stdin), "error", {}))
  /\ Owes(Head(stdin)) /\ Counts(Head(stdin))
  /\ UNCHANGED <<resolverVars, serverVars, listed, announced, lastCalled>>

(* Deviation: only a surface that shrank is announced.                     *)
Announces_OnlyShrinking(w) ==
  /\ Capabilities(w) # {}
  /\ Cardinality(Surface(w)) < prevToolCount
  /\ prevToolCount > 0

(* maybeNotifyListChanged: the size of the surface now against the size of *)
(* the last list; prevToolCount itself is left alone.                      *)
Announces(w) ==
  /\ Capabilities(w) # {}
  /\ Cardinality(Surface(w)) # prevToolCount
  /\ prevToolCount > 0

(* A known tool: observe every tag, announce the change, then forward.     *)
(* Without a Forwarder a placeholder is the answer.                        *)
handleToolsCall ==
  /\ Reads("tools/call")
  /\ LET r == Head(stdin)
         w == PushAll(window, Tags[r.name])
         notice == IF Announces(w) THEN <<ListChanged>> ELSE <<>>
     IN /\ r.name \in Tool
        /\ window' = w
        /\ announced' = (announced \/ Announces(w))
        /\ lastCalled' = r.name
        /\ Owes(r)
        /\ IF HasForwarder
           THEN /\ handling' = r
                /\ stdout' = stdout \o notice
                /\ UNCHANGED answers
           ELSE /\ UNCHANGED handling
                /\ stdout' = stdout \o notice \o <<Answer(r, "result", {})>>
                /\ Counts(r)
  /\ UNCHANGED <<prevToolCount, exit, listed>>

(* Deviation: no return after a forward error has been answered.           *)
ForwardReturns_NoReturn(outcome) ==
  /\ handling # Nobody
  /\ handling' = Nobody
  /\ IF outcome = "result"
     THEN /\ stdout' = Append(stdout, Answer(handling, "result", {}))
          /\ Counts(handling)
     ELSE /\ stdout' = stdout \o <<Answer(handling, "isError", {}),
                                    Answer(handling, "result", {})>>
          /\ answers' = IF handling.id \in Id
                        THEN [answers EXCEPT ![handling.id] = @ + 2] ELSE answers
  /\ UNCHANGED <<resolverVars, exit, stdin, stdinOpen, clientVars,
                 listed, announced, lastCalled, due>>

(* The Forwarder returns: its raw result, or its error as a result with    *)
(* isError set.                                                            *)
ForwardReturns(outcome) ==
  /\ handling # Nobody
  /\ handling' = Nobody
  /\ stdout' = Append(stdout, Answer(handling, outcome, {}))
  /\ Counts(handling)
  /\ UNCHANGED <<resolverVars, exit, stdin, stdinOpen, clientVars,
                 listed, announced, lastCalled, due>>

(* A line that does not fit the scanner's buffer ends Serve with an error  *)
(* and the process with os.Exit; what follows it in stdin is never read.   *)
LineTooLong ==
  /\ Reads("oversized")
  /\ exit' = "failed"
  /\ UNCHANGED <<resolverVars, handling, stdout, historyVars>>

(* stdin is closed and read to its end.                                    *)
EndOfInput ==
  /\ exit = "running"
  /\ handling = Nobody
  /\ stdin = <<>> /\ ~stdinOpen
  /\ exit' = "done"
  /\ UNCHANGED <<resolverVars, handling, stdin, stdinOpen, stdout, clientVars, historyVars>>

handleMessage ==
  \/ Drop("malformed") \/ Drop("notifications/initialized")
  \/ Reply("initialize") \/ Reply("ping")
  \/ MethodNotFound
  \/ handleToolsList
  \/ RejectCall
  \/ handleToolsCall
  \/ LineTooLong

Serve == handleMessage \/ (\E outcome \in {"result", "isError"} : ForwardReturns(outcome)) \/ EndOfInput

Client ==
  \/ \E method \in Method, name \in Name \cup {Nobody}, hasId \in BOOLEAN :
       ClientSend(method, name, hasId)
  \/ ClientRefetch
  \/ ClientReceive
  \/ ClientClose

Init ==
  /\ window = <<>>
  /\ prevToolCount = 0
  /\ handling = Nobody
  /\ exit = "running"
  /\ stdin = <<>> /\ stdinOpen = TRUE /\ stdout = <<>>
  /\ sent = 0 /\ nextId = NoId
  /\ view = Nobody /\ refetch = FALSE
  /\ listed = Nobody /\ announced = FALSE /\ lastCalled = Nobody
  /\ due = {} /\ answers = [i \in Id |-> 0]

Next == Client \/ Serve

(***************************************************************************)
(* The serving loop runs whenever it can; the Forwarder returns because    *)
(* Manager.Call puts a deadline on every read; a conforming client reads   *)
(* its messages and re-fetches after a notification (SPEC.md 4.8.5).       *)
(***************************************************************************)
Fairness == WF_vars(Serve) /\ WF_vars(ClientReceive) /\ WF_vars(ClientRefetch)

Spec == Init /\ [][Next]_vars

FairSpec == Spec /\ Fairness

-----------------------------------------------------------------------------
RequestType == [method : Method, name : Name \cup {Nobody}, id : Id \cup {NoId}]
MessageType == [kind : {"result", "isError", "error", "list", "list_changed"},
                id : Id \cup {NoId}, tools : SUBSET Tool]

ASSUME NobodyAssumption == Nobody \notin RequestType

(* Every variable stays in its type, and no call with many tags overfills  *)
(* the window.                                                             *)
TypeOK ==
  /\ window \in Seq(Capability) /\ Len(window) <= windowSize
  /\ prevToolCount \in 0 .. Cardinality(Tool)
  /\ handling \in RequestType \cup {Nobody}
  /\ exit \in {"running", "done", "failed"}
  /\ stdin \in Seq(RequestType) /\ Len(stdin) <= MaxPipeline
  /\ stdinOpen \in BOOLEAN
  /\ stdout \in Seq(MessageType)
  /\ sent \in 0 .. MaxRequests /\ nextId \in Id \cup {NoId}
  /\ view \in (SUBSET Tool) \cup {Nobody} /\ refetch \in BOOLEAN
  /\ listed \in (SUBSET Tool) \cup {Nobody} /\ announced \in BOOLEAN
  /\ lastCalled \in Tool \cup {Nobody}
  /\ due \subseteq Id /\ answers \in [Id -> 0 .. 2]

(* Every request read that calls for an answer has exactly one, except the *)
(* tools/call still being forwarded, which has none; and answers leave in  *)
(* the order of the requests, so that a client which pipelines its         *)
(* requests can rely on it.                                                *)
AnsweredOnceInOrder ==
  /\ \A i \in Id :
       answers[i] = IF i \in due /\ ~(handling # Nobody /\ handling.id = i) THEN 1 ELSE 0
  /\ \A j, k \in DOMAIN stdout :
       j < k /\ stdout[j].id # NoId /\ stdout[k].id # NoId => stdout[j].id < stdout[k].id

(* However the window slides and whatever the tags of a tool are, the tool *)
(* called last is still on the surface: a call never hides its own tool.   *)
CalledToolVisible == lastCalled # Nobody => lastCalled \in Surface(window)

(* A surface whose size is no longer that of the last list written has     *)
(* been announced since that list.                                         *)
SizeChangeAnnounced ==
  listed # Nobody /\ Cardinality(listed) # Cardinality(Surface(window)) => announced

(* SPEC.md 4.8.4: "When narrowing changes the tool surface, emits          *)
(* notifications/tools/list_changed so the MCP client re-fetches."  A      *)
(* surface that differs from the last list written, by its tools and not   *)
(* only by their number, has been announced since.                         *)
ChangeAnnounced == listed # Nobody /\ listed # Surface(window) => announced

(* Once the calls stop, what a client believes to be the surface has the   *)
(* right size, whatever lists and notifications were in flight.            *)
ViewSizeSettles ==
  <>[](view # Nobody /\ stdinOpen /\ exit = "running"
         => Cardinality(view) = Cardinality(Surface(window)))

(* A request with an id is answered in the end, also when the Forwarder    *)
(* fails and when stdin is closed behind it, unless a later or earlier     *)
(* over-long line ends the process.                                        *)
EveryRequestAnswered ==
  \A i \in Id : nextId >= i ~> answers[i] > 0 \/ exit = "failed"
=============================================================================
