---------------------------- MODULE BridgeStartup ----------------------------
(***************************************************************************)
(* cmd/acp-bridge from its flags to its end: the sources of the config     *)
(* file and of VS Code are imported one after another (a child process is  *)
(* spawned, asked for its tools and put into the client manager, or an     *)
(* http server is asked), the bridge is built from what was imported, and  *)
(* calls are routed by the text of a tool's id.  Children exit, hang and   *)
(* answer what they like, and a signal kills them, but not the bridge.     *)
(* What the bridge does with a line of its stdin is module Bridge.         *)
(***************************************************************************)
EXTENDS SchemaCodec, FiniteSets

CONSTANTS
  Letters,     \* words of names: runs of letters and digits
  Lower,       \* the lower case of a word
  Short,       \* words of one byte
  Separator,   \* what stands between words; "." and "_" among them
  Config,      \* what the config file may hold: sequences of sources
  File,        \* what VS Code's mcp.json may hold
  ToolList,    \* what a server may answer to tools/list
  MaxSources,  \* bound: sources of both files
  Nothing      \* no call

ASSUME NameAssumption ==
  /\ Lower \in [Letters -> Letters]
  /\ {".", "_"} \subseteq Separator /\ Letters \cap Separator = {}

(* A name is its words and what stands between them; what leads and trails *)
(* does not matter.  Tools are named by texts, blank ones by the empty one.*)
Name == {n \in [words : Seq(Letters), separators : Seq(Separator)] :
           n.words # <<>> => Len(n.separators) = Len(n.words) - 1}

(* "other" stands for every type of a source that main does not know.      *)
Kind == {"", "stdio", "http", "sse", "streamable-http", "other"}
SourceType == [name : Name, type : Kind, url : BOOLEAN, command : BOOLEAN,
               extras : SUBSET Letters, skip : BOOLEAN]
ServerType == [name : Name, type : Kind, url : BOOLEAN, command : BOOLEAN,
               isACPBridge : BOOLEAN, inputPrompt : BOOLEAN]

ASSUME ConfigAssumption == Config \subseteq Seq(SourceType)
ASSUME FileAssumption ==
  \A f \in File : f.servers \in Seq(ServerType) /\ f.mcpServers \in Seq(ServerType)
ASSUME ToolListAssumption ==
  \A list \in ToolList :
    /\ Len(list) \in Nat /\ DOMAIN list = 1 .. Len(list)
    /\ \A k \in DOMAIN list :
         /\ list[k].name \in Seq(Letters \cup Separator)
         /\ \A f \in DOMAIN list[k].schema : list[k].schema[f] \in Parameter

ASSUME SourcesBound ==
  /\ MaxSources \in Nat
  /\ \A c \in Config : Len(c) <= MaxSources
  /\ \A c \in Config, f \in File : Len(c) + Len(f.servers) + Len(f.mcpServers) <= MaxSources

VARIABLES
  phase,      \* config, vscode, importing, serving, or how the process ended
  sources,    \* cfg.Sources
  next,       \* the source being imported
  stage,      \* how far a stdio source is: spawned, initialized, listed; or "idle"
  offered,    \* history: what each source answered to tools/list
  imported,   \* how the import of each source was reported
  tools,      \* the registry: from ids to tools
  clients,    \* Manager.clients: from source names to the sources of the clients
  child,      \* the child process of each source
  forward,    \* the bridge has a Forwarder
  routes,     \* Bridge.tools: from ids to source and tool names
  cancelled,  \* a signal has cancelled the context
  stdinOpen,  \* the client has not closed the bridge's stdin
  lastCall,   \* history: the last tools/call and where it went
  serve       \* what Serve is at: scanning for a line, in a write to its own
              \* client (announcing, replying) or to a child (writing), waiting

importVars == <<sources, next, stage, offered, imported>>
registryVars == <<tools, clients>>
bridgeVars == <<forward, routes, lastCall, serve>>
vars == <<phase, importVars, registryVars, child, bridgeVars, cancelled, stdinOpen>>

Index == 1 .. MaxSources

Starting == phase \in {"config", "vscode", "importing"}
Running == Starting \/ phase = "serving"

-----------------------------------------------------------------------------
(* The text of a name: words and separators in turn.                       *)
Text(words, separators) ==
  [k \in 1 .. 2 * Len(words) - 1 |-> IF k % 2 = 1 THEN words[(k + 1) \div 2] ELSE separators[k \div 2]]

(* Deviation: only upper case is taken away.                               *)
safeSourceName_KeepsDots(name) ==
  Text([k \in DOMAIN name.words |-> Lower[name.words[k]]], name.separators)

safeSourceName(name) ==
  Text([k \in DOMAIN name.words |-> Lower[name.words[k]]], [k \in DOMAIN name.separators |-> "_"])

sourceType(src) ==
  IF src.type = "" THEN IF src.url THEN "http" ELSE "stdio"
  ELSE IF src.type \in {"streamable-http", "sse"} THEN "http"
  ELSE src.type

(* vscodeconfig.Load.  The servers are in the order of their names; those  *)
(* that Load skips stay in the sequence, and main passes over them.        *)
normalizeType(server) ==
  IF server.type \in {"http", "sse", "streamable-http"} THEN "http"
  ELSE IF server.type = "stdio" THEN "stdio"
  ELSE IF server.url THEN "http" ELSE "stdio"

skipped(server) ==
  \/ server.isACPBridge
  \/ server.inputPrompt
  \/ normalizeType(server) = "stdio" /\ ~server.command
  \/ normalizeType(server) = "http"

Load(file) ==
  LET servers == IF file.servers # <<>> THEN file.servers ELSE file.mcpServers
  IN [k \in DOMAIN servers |->
        [name |-> servers[k].name, type |-> normalizeType(servers[k]), url |-> servers[k].url,
         command |-> servers[k].command, extras |-> {}, skip |-> skipped(servers[k])]]

-----------------------------------------------------------------------------
(* The importer.                                                           *)
Tokens(text) == {text[k] : k \in DOMAIN text}

WriteVerb == {"create", "post", "put", "send", "publish", "delete", "destroy", "remove"}
ReadVerb == {"get", "list", "read", "fetch", "search", "describe"}

inferCapabilities(name, extras) ==
  LET words == {Lower[w] : w \in Tokens(name) \cap Letters}
      tags == (words \cup {Lower[w] : w \in extras}) \ Short
  IN {<<w>> : w \in tags}
       \cup (IF words \cap WriteVerb # {} THEN {<<"write">>} ELSE {})
       \cup (IF words \cap ReadVerb # {} THEN {<<"read">>} ELSE {})

SourceName(src) == safeSourceName(src.name)

(* Deviation: tools are not told apart by their source.                    *)
ToolID_NoPrefix(src, tool) == tool.name

ToolID(src, tool) == SourceName(src) \o <<".">> \o tool.name

convert(i, src, tool) ==
  LET caps == inferCapabilities(tool.name, src.extras) IN
  [origin |-> i, name |-> tool.name, type |-> sourceType(src),
   caps |-> IF caps = {} THEN {SourceName(src)} ELSE caps,
   schema |-> [f \in DOMAIN tool.schema |-> compactSchema(tool.schema[f])]]

(* RegisterAll stops at the first tool with a blank name; of two tools of  *)
(* one name the later stays.                                               *)
Accepted(list) ==
  CHOOSE n \in 0 .. Len(list) :
    /\ \A k \in 1 .. n : list[k].name # <<>>
    /\ n < Len(list) => list[n + 1].name = <<>>

Latest(src, list, id) ==
  CHOOSE k \in 1 .. Accepted(list) :
    /\ ToolID(src, list[k]) = id
    /\ \A j \in k + 1 .. Accepted(list) : ToolID(src, list[j]) # id

RegisterAll(i, list) ==
  LET src == sources[i]
      ids == {ToolID(src, list[k]) : k \in 1 .. Accepted(list)}
  IN /\ tools' = [id \in DOMAIN tools \cup ids |->
                    IF id \in ids THEN convert(i, src, list[Latest(src, list, id)]) ELSE tools[id]]
     /\ imported' = [imported EXCEPT ![i] = IF Accepted(list) = Len(list) THEN "whole" ELSE "failed"]

-----------------------------------------------------------------------------
(* main reads its configuration.  Files that are missing or do not parse   *)
(* end it; a signal does, too, as long as it is not caught.                *)
ReadConfig ==
  /\ phase = "config"
  /\ \/ phase' = "failed" /\ UNCHANGED sources
     \/ phase' \in {"vscode", "importing"} /\ sources' \in Config
  /\ UNCHANGED <<next, stage, offered, imported, registryVars, child, bridgeVars, cancelled, stdinOpen>>

ReadVSCode ==
  /\ phase = "vscode"
  /\ \/ phase' = "failed" /\ UNCHANGED sources
     \/ phase' = "importing" /\ \E file \in File : sources' = sources \o Load(file)
  /\ UNCHANGED <<next, stage, offered, imported, registryVars, child, bridgeVars, cancelled, stdinOpen>>

-----------------------------------------------------------------------------
(* The import of one source.                                               *)
Importing(i, type) ==
  /\ phase = "importing" /\ i = next /\ i \in DOMAIN sources
  /\ ~sources[i].skip /\ SourceName(sources[i]) # <<>>
  /\ sourceType(sources[i]) = type

Reported(i, result) ==
  /\ imported' = [imported EXCEPT ![i] = result]
  /\ next' = next + 1

(* Sources that VS Code's reader skips, without a name or of a type that   *)
(* main does not know.                                                     *)
PassOver ==
  /\ phase = "importing" /\ next \in DOMAIN sources
  /\ \/ sources[next].skip
     \/ SourceName(sources[next]) = <<>>
     \/ sourceType(sources[next]) \notin {"stdio", "http"}
  /\ Reported(next, "failed")
  /\ UNCHANGED <<phase, sources, stage, offered, registryVars, child, bridgeVars, cancelled, stdinOpen>>

(* No command, a command that does not start, a context already done.      *)
SpawnFails ==
  /\ Importing(next, "stdio") /\ stage = "idle"
  /\ Reported(next, "failed")
  /\ UNCHANGED <<phase, sources, stage, offered, registryVars, child, bridgeVars, cancelled, stdinOpen>>

(* Deviation: the client is in the manager before it is initialized.       *)
Spawn_Registers ==
  /\ Importing(next, "stdio") /\ stage = "idle"
  /\ sources[next].command /\ ~cancelled
  /\ child' = [child EXCEPT ![next] = "running"]
  /\ stage' = "spawned"
  /\ clients' = [n \in DOMAIN clients \cup {SourceName(sources[next])} |->
                   IF n = SourceName(sources[next]) THEN next ELSE clients[n]]
  /\ UNCHANGED <<phase, sources, next, offered, imported, tools, bridgeVars, cancelled, stdinOpen>>

Spawn ==
  /\ Importing(next, "stdio") /\ stage = "idle"
  /\ sources[next].command /\ ~cancelled
  /\ child' = [child EXCEPT ![next] = "running"]
  /\ stage' = "spawned"
  /\ UNCHANGED <<phase, sources, next, offered, imported, registryVars, bridgeVars, cancelled, stdinOpen>>

(* The child answers initialize, then tools/list.                          *)
Initialize ==
  /\ Importing(next, "stdio") /\ stage = "spawned"
  /\ child[next] = "running"
  /\ stage' = "initialized"
  /\ UNCHANGED <<phase, sources, next, offered, imported, registryVars, child, bridgeVars, cancelled, stdinOpen>>

ListTools ==
  /\ Importing(next, "stdio") /\ stage = "initialized"
  /\ child[next] = "running"
  /\ \E list \in ToolList : offered' = [offered EXCEPT ![next] = list]
  /\ stage' = "listed"
  /\ UNCHANGED <<phase, sources, next, imported, registryVars, child, bridgeVars, cancelled, stdinOpen>>

Closed(s) == IF s = "running" THEN "closed" ELSE s

(* Deviation: a client that failed is not closed.                          *)
ImportFails_LeavesChild ==
  /\ Importing(next, "stdio") /\ stage \in {"spawned", "initialized"}
  /\ stage' = "idle"
  /\ Reported(next, "failed")
  /\ UNCHANGED <<phase, sources, offered, registryVars, child, bridgeVars, cancelled, stdinOpen>>

(* Deviation: initialize is given no deadline.                             *)
ImportFails_NoDeadline ==
  /\ Importing(next, "stdio")
  /\ stage = "initialized" \/ (stage = "spawned" /\ child[next] # "running")
  /\ stage' = "idle"
  /\ child' = [child EXCEPT ![next] = Closed(@)]
  /\ Reported(next, "failed")
  /\ UNCHANGED <<phase, sources, offered, registryVars, bridgeVars, cancelled, stdinOpen>>

(* An error, the end of the child's output, or thirty seconds without an   *)
(* answer: the client is closed, which kills the child.                    *)
ImportFails ==
  /\ Importing(next, "stdio") /\ stage \in {"spawned", "initialized"}
  /\ stage' = "idle"
  /\ child' = [child EXCEPT ![next] = Closed(@)]
  /\ Reported(next, "failed")
  /\ UNCHANGED <<phase, sources, offered, registryVars, bridgeVars, cancelled, stdinOpen>>

(* Manager.Register puts the client in the place of any client of that     *)
(* name, and does not close the old one; then the tools are registered.    *)
ImportStdio ==
  /\ Importing(next, "stdio") /\ stage = "listed"
  /\ clients' = [n \in DOMAIN clients \cup {SourceName(sources[next])} |->
                   IF n = SourceName(sources[next]) THEN next ELSE clients[n]]
  /\ RegisterAll(next, offered[next])
  /\ next' = next + 1
  /\ stage' = "idle"
  /\ UNCHANGED <<phase, sources, offered, child, bridgeVars, cancelled, stdinOpen>>

(* ImportSource: no URL, a request that fails, or a list.                  *)
ImportHTTP ==
  /\ Importing(next, "http")
  /\ \/ Reported(next, "failed") /\ UNCHANGED <<offered, tools>>
     \/ /\ sources[next].url
        /\ \E list \in ToolList :
             /\ offered' = [offered EXCEPT ![next] = list]
             /\ RegisterAll(next, list)
        /\ next' = next + 1
  /\ UNCHANGED <<phase, sources, stage, clients, child, bridgeVars, cancelled, stdinOpen>>

-----------------------------------------------------------------------------
(* The bridge.  The id of a tool is cut at its first dot.                  *)
FirstDot(id) == CHOOSE k \in DOMAIN id : id[k] = "." /\ \A j \in 1 .. k - 1 : id[j] # "."

RouteOf(id) ==
  IF "." \in Tokens(id)
  THEN [source |-> SubSeq(id, 1, FirstDot(id) - 1), tool |-> SubSeq(id, FirstDot(id) + 1, Len(id))]
  ELSE [source |-> id, tool |-> id]

StartServing ==
  /\ phase = "importing" /\ next = Len(sources) + 1
  /\ phase' = "serving"
  /\ forward' = (DOMAIN clients # {})
  /\ routes' = [id \in DOMAIN tools |-> RouteOf(id)]
  /\ UNCHANGED <<importVars, registryVars, child, lastCall, serve, cancelled, stdinOpen>>

(* What comes after the announcement that a call may make.                 *)
Onward(call) == IF call.outcome = "forwarded" THEN "writing" ELSE "replying"

(* A tools/call of a known tool: to the client of the source's name, if    *)
(* there is one; without any client the placeholder answers.               *)
Call(id) ==
  /\ phase = "serving" /\ serve = "scanning" /\ id \in DOMAIN routes
  /\ LET r == routes[id]
         went(outcome, server) ==
           [id |-> id, tool |-> r.tool, outcome |-> outcome, server |-> server]
     IN lastCall' = IF ~forward THEN went("placeholder", 0)
                    ELSE IF r.source \notin DOMAIN clients THEN went("noClient", 0)
                    ELSE went("forwarded", clients[r.source])
  /\ serve' \in {"announcing", Onward(lastCall')}
  /\ UNCHANGED <<phase, importVars, registryVars, child, forward, routes, cancelled, stdinOpen>>

Serve(from, to) ==
  /\ phase = "serving" /\ serve = from /\ serve' = to
  /\ UNCHANGED <<phase, importVars, registryVars, child, forward, routes, lastCall, cancelled, stdinOpen>>

(* Any other line that is answered.                                        *)
OtherLine == Serve("scanning", "replying")

(* The write of the request fails only once nobody can read it; the answer *)
(* is waited for, for thirty seconds at most.                              *)
WriteFails == Serve("writing", "replying") /\ child[lastCall.server] # "running"
CallEnds == Serve("waiting", "replying")

(* The deferred calls: the manager closes its clients, then the context is *)
(* cancelled, which may or may not come in time for other children.        *)
Registered(i) == \E n \in DOMAIN clients : clients[n] = i

EndOfInput ==
  /\ phase = "serving" /\ serve = "scanning" /\ ~stdinOpen
  /\ phase' = "done"
  /\ \E late \in SUBSET {i \in DOMAIN child : child[i] = "running" /\ ~Registered(i)} :
       child' = [i \in DOMAIN child |->
                   IF Registered(i) THEN Closed(child[i]) ELSE IF i \in late THEN "killed" ELSE child[i]]
  /\ UNCHANGED <<importVars, registryVars, bridgeVars, cancelled, stdinOpen>>

(* Serve returns an error: os.Exit, and nothing is closed.                 *)
ServeFails ==
  /\ phase = "serving" /\ serve = "scanning"
  /\ phase' = "failed"
  /\ UNCHANGED <<importVars, registryVars, child, bridgeVars, cancelled, stdinOpen>>

(* The client has closed its end of the bridge's stdout: the Go runtime    *)
(* ends a process that writes there, and again nothing is closed.          *)
BrokenPipe ==
  /\ phase = "serving" /\ serve \in {"announcing", "replying"}
  /\ phase' = "failed"
  /\ UNCHANGED <<importVars, registryVars, child, bridgeVars, cancelled, stdinOpen>>

(* What main does of its own; Initialize and ListTools are the child's.    *)
Main ==
  \/ ReadConfig \/ ReadVSCode
  \/ PassOver \/ SpawnFails \/ Spawn \/ ImportFails \/ ImportStdio \/ ImportHTTP
  \/ StartServing \/ EndOfInput

-----------------------------------------------------------------------------
(* The surroundings.  The client takes what is written to it, a child the  *)
(* request that is; neither need ever do so.                               *)
ClientReads ==
  \/ Serve("replying", "scanning")
  \/ Serve("announcing", Onward(lastCall))

ServerReads == Serve("writing", "waiting") /\ child[lastCall.server] = "running"

Signal ==
  /\ Running /\ ~cancelled
  /\ IF phase \in {"config", "vscode"}
     THEN phase' = "failed" /\ UNCHANGED cancelled
     ELSE cancelled' = TRUE /\ UNCHANGED phase
  /\ UNCHANGED <<importVars, registryVars, child, bridgeVars, stdinOpen>>

(* The context that a child was spawned with kills it.                     *)
KillChild(i) ==
  /\ Running /\ cancelled /\ child[i] = "running"
  /\ child' = [child EXCEPT ![i] = "killed"]
  /\ UNCHANGED <<phase, importVars, registryVars, bridgeVars, cancelled, stdinOpen>>

ChildExits(i) ==
  /\ Running /\ child[i] = "running"
  /\ child' = [child EXCEPT ![i] = "exited"]
  /\ UNCHANGED <<phase, importVars, registryVars, bridgeVars, cancelled, stdinOpen>>

CloseStdin ==
  /\ Running /\ stdinOpen /\ stdinOpen' = FALSE
  /\ UNCHANGED <<phase, importVars, registryVars, child, bridgeVars, cancelled>>

Init ==
  /\ phase = "config"
  /\ sources = <<>> /\ next = 1 /\ stage = "idle"
  /\ offered = [i \in Index |-> <<>>]
  /\ imported = [i \in Index |-> "pending"]
  /\ tools = <<>> /\ clients = <<>>
  /\ child = [i \in Index |-> "none"]
  /\ forward = FALSE /\ routes = <<>>
  /\ cancelled = FALSE /\ stdinOpen = TRUE
  /\ lastCall = Nothing /\ serve = "scanning"

Next ==
  \/ Main \/ Initialize \/ ListTools
  \/ \E id \in DOMAIN routes : Call(id)
  \/ OtherLine \/ WriteFails \/ CallEnds
  \/ ServeFails \/ BrokenPipe
  \/ ClientReads \/ ServerReads
  \/ Signal \/ CloseStdin
  \/ \E i \in Index : KillChild(i) \/ ChildExits(i)

Spec == Init /\ [][Next]_vars

(* main runs whenever it can, and so do the goroutines that wait for the   *)
(* context to kill a child.  A write fails, a call times out.  A stdin     *)
(* that is closed has finitely many lines left, so that a Serve which      *)
(* comes back to scanning again and again finds its end.  Children need    *)
(* not answer or read, and clients need not read.                          *)
FairSpec ==
  /\ Spec
  /\ WF_vars(Main) /\ WF_vars(WriteFails \/ CallEnds) /\ SF_vars(EndOfInput)
  /\ \A i \in Index : WF_vars(KillChild(i))

-----------------------------------------------------------------------------
SameName(i, j) == SourceName(sources[i]) = SourceName(sources[j])

(* What the bridge lists as long as nothing has been observed: main hands  *)
(* the resolver the tags of all tools.                                     *)
AllCapabilities == UNION {tools[id].caps : id \in DOMAIN tools}
FirstList == {id \in DOMAIN tools : tools[id].caps \cap AllCapabilities # {}}

(* Every variable keeps its type; a client is that of a child which was    *)
(* spawned for a source of its name, tools are those of servers that have  *)
(* listed them, and a call under way is at a child that was spawned.       *)
TypeOK ==
  /\ phase \in {"config", "vscode", "importing", "serving", "done", "failed"}
  /\ Len(sources) <= MaxSources /\ next \in 1 .. Len(sources) + 1
  /\ stage \in {"idle", "spawned", "initialized", "listed"}
  /\ offered \in [Index -> ToolList \cup {<<>>}]
  /\ imported \in [Index -> {"pending", "failed", "whole"}]
  /\ child \in [Index -> {"none", "running", "closed", "killed", "exited"}]
  /\ forward \in BOOLEAN /\ cancelled \in BOOLEAN /\ stdinOpen \in BOOLEAN
  /\ \A n \in DOMAIN clients :
       clients[n] \in 1 .. next - 1 /\ n = SourceName(sources[clients[n]]) /\ child[clients[n]] # "none"
  /\ \A id \in DOMAIN tools :
       /\ tools[id].origin \in 1 .. next - 1 /\ imported[tools[id].origin] # "pending"
       /\ \E k \in DOMAIN offered[tools[id].origin] :
            id = ToolID(sources[tools[id].origin], offered[tools[id].origin][k])
  /\ phase = "serving" => DOMAIN routes = DOMAIN tools
  /\ serve \in {"scanning", "announcing", "writing", "waiting", "replying"}
  /\ serve \in {"writing", "waiting"} =>
       lastCall.outcome = "forwarded" /\ child[lastCall.server] # "none"

(* bridge.go:38: a call is routed "to the original downstream MCP server": *)
(* under the name that the server gave its tool, to a client of that       *)
(* server's name, and for a stdio tool there is one.  It is the server's   *)
(* own unless a later source has the same name after safeSourceName.       *)
RoutedHome ==
  lastCall # Nothing =>
    LET tool == tools[lastCall.id] IN
    /\ lastCall.tool = tool.name
    /\ lastCall.outcome = "forwarded" => SameName(lastCall.server, tool.origin)
    /\ tool.type = "stdio" => lastCall.outcome = "forwarded" /\ lastCall.server >= tool.origin

(* A child that runs is being imported or has a client that calls may      *)
(* reach, but for those whose client was replaced by one of a later source *)
(* of the same name; the end of the input leaves only such running.        *)
ChildrenAccounted ==
  \A i \in Index : child[i] = "running" =>
    \/ i = next /\ stage # "idle" /\ phase = "importing"
    \/ Registered(i) /\ phase \in {"importing", "serving", "failed"}
    \/ \E n \in DOMAIN clients : clients[n] > i /\ SameName(clients[n], i)

(* Of a source that is logged as imported every tool is registered, routed *)
(* and on the first list; whatever other sources are called and offer, its *)
(* id stands for that tool or one of a later source of the same name.      *)
ImportedInFull ==
  phase = "serving" =>
    \A i \in 1 .. Len(sources) : imported[i] = "whole" =>
      \A k \in DOMAIN offered[i] :
        LET id == ToolID(sources[i], offered[i][k]) IN
        /\ id \in DOMAIN routes /\ id \in FirstList
        /\ tools[id].name = offered[i][k].name
        /\ SameName(tools[id].origin, i) /\ tools[id].origin >= i

(* What a client is told of a tool's parameters is what the server said of *)
(* them when it was imported, but for the enumerations that Plain excludes.*)
SchemaSurvives ==
  phase = "serving" =>
    \A id \in DOMAIN routes :
      \E k \in DOMAIN offered[tools[id].origin] :
        LET tool == offered[tools[id].origin][k] IN
        /\ tool.name = tools[id].name
        /\ \A f \in DOMAIN tool.schema : Survives(tool.schema[f], tools[id].schema[f])

(* bridge.go:335: "This is the inverse of the MCP source compaction": what *)
(* the bridge tells its client of a parameter is what the server declared. *)
CompactionInverted ==
  phase = "serving" =>
    \A id \in DOMAIN routes :
      \E k \in DOMAIN offered[tools[id].origin] :
        LET tool == offered[tools[id].origin][k] IN
        /\ tool.name = tools[id].name
        /\ \A f \in DOMAIN tool.schema : toolToMCP(tools[id].schema[f]) = Simplified(tool.schema[f])

(* Blocked for ever in a write: to a child that runs and does not read,    *)
(* which the deadline of the call does not end (stdio.go:192) but a signal *)
(* does, or to a client that keeps the bridge's stdout open without        *)
(* reading.                                                                *)
ServerNeverReads == [](serve = "writing" /\ child[lastCall.server] = "running" /\ ~cancelled)
ClientNeverReads == [](serve = "announcing") \/ [](serve = "replying")

(* Whatever children and servers do, the bridge serves or is over in the   *)
(* end; closing its stdin ends it, unless it is blocked in a write; and    *)
(* after a signal no child runs on behind a bridge that does.              *)
StartUpEnds ==
  /\ <>(~Starting)
  /\ ~stdinOpen ~> (~Running \/ ServerNeverReads \/ ClientNeverReads)
  /\ cancelled ~> [](Running => \A i \in Index : child[i] # "running")
=============================================================================
