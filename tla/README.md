# Agent Native Format: verification project

TLA+ models of the agent-native-format repository, TLC configurations that check
them on small instances, and TLAPS proofs of their safety properties for every
value of the constants. Paths below are relative to the repository's root.

## 1. The system

The repository implements two things that share a tool registry: the *ACP
bridge* (`cmd/acp-bridge`), an MCP server that an IDE starts and that imports
and forwards to downstream MCP servers while narrowing the tool list to what the
session uses; and the *ACP server* (`cmd/acp-server`), an HTTP service that turns
an intent into a manifest of tools and proxies their invocation. A second MCP
server (`cmd/anf-mcp`) and translators render cluster state in the ANF format.

| Component | State it keeps | Operations | Meets | Hard behaviour | Correct when | Status |
|---|---|---|---|---|---|---|
| Deferred-intent resolver (`internal/resolver/deferred.go`) | sliding window under a RWMutex | `Observe`, `Reset`, `Resolve` | called by the bridge and the context handler | `Resolve` answers after it released the lock; defaults; trimming | every answer is what the comment of `Resolve` promises at one instant of the call | modelled |
| Bridge (`internal/bridge/bridge.go`) | tools, `prevToolCount`, the resolver | `initialize`, `ping`, `tools/list`, `tools/call`, notifications | reads the IDE's pipe, calls the Forwarder | pipelined requests, failing forwards, a client with an old list, writes that block | one answer per request, in order; the client learns of a new surface | modelled |
| Stdio client (`internal/mcpclient/stdio.go`) | `nextID`, mutex, `bufio.Reader`, child; `Manager.clients` | `Spawn`, `Initialize`, `ListTools`, `CallTool`, `Close` | pipes of a downstream server; `Manager` adds a deadline | timeouts leave goroutines in the reader; late, alien and missing answers; exits | answers reach their own requests; every call returns | modelled |
| Registry (`internal/registry/registry.go`) | map of tools under a RWMutex | `Register`, `Get`, `Lookup`, `All` | importer, builder, bridge | replacement of equal ids | `Lookup` finds exactly the tools of the tags; no tool takes a stranger's place | modelled |
| Bridge start-up (`cmd/acp-bridge/main.go`) | sources, manager, routes | both configuration files, import loop, `importSource`, `Serve`, exits | all of the above, child processes, signals | a source that fails half way, equal names, exits that skip cleanup | every call reaches the server its tool came from; no child is lost; start-up ends | modelled |
| Importer (`internal/sources/mcp/source.go`) | none | `ImportSource`, `RegisterAll`, `convert`, `inferCapabilities` | registry | early return | a source logged as imported has all of its tools | modelled |
| VS Code reader (`internal/vscodeconfig/mcpjson.go`) | none | `Load` | start-up | which entries are skipped | as the start-up | modelled |
| Schema codec (`bridge.go`, `source.go`, `acp_common`) | none | compaction, two expansions | importer, bridge, adapters | prefixes and suffixes written in one order and read in another; values turned into text | expansion gives back what compaction was given | modelled |
| Manifest builder (`internal/builder/builder.go`) | none | `Build`, `dependsOnFor` | registry, context handler | dependencies that nobody checks for cycles | a contract is closed under what it declares | modelled |
| Proxy and manifest store (`internal/proxy/proxy.go`) | map of manifests without a lock | `Put`, `Get`, `ServeHTTP` | context handler, upstream | concurrent requests, failing upstreams, approval, ttl | only what a contract allows is forwarded; the answer tells what happened | modelled |
| Context server (`internal/server/server.go`, `cmd/acp-server`) | store, feedback count | `handleContext`, `handleFeedback`, `ListenAndServe` | resolvers, builder, proxy | shutdown under load, bodies that stall, restarts | a contract handed out can be executed; a signal ends the process | partly |
| Python adapters (`adapters/python`) | queue and counters of one sort; a graph | `topological_order`, `build_graph`, `make_node` | HTTP server, LangGraph | cycles, concurrent nodes, calls that fail | actions run after all they depend on, each of them, or a cycle is named | partly |
| ANF MCP server (`pkg/anfmcp/server.go`, `cmd/anf-mcp`) | tools and resources by name | registration, `Serve`, all methods | client's pipes, signals | malformed lines, notifications, a signal while it waits, a pipe that closes or fills up | each line is answered for itself, once; the end of the input ends it unless a write blocks | modelled |
| Kubernetes translator (`translators/kubernetes/translator.go`) | none | statuses, alerts, actions | ANF server | three computations of one truth | status, alerts and actions of a document agree | modelled |

What is not modelled, and why, is in section 5.

How the parts of the bridge interact: `main` imports one source after another into
the registry and the manager, then builds the bridge from what is there. The IDE
writes JSON-RPC lines; one goroutine of the bridge reads them, asks the resolver and the
registry for the surface, and for `tools/call` first observes the tool's tags, then announces a
new surface, then blocks in `Manager.Call`. That takes the stdio client's mutex,
writes a line to the child and reads lines until one has the right id. The
resolver is also used by concurrent HTTP handlers, and the stdio client by
whoever holds the manager; both are therefore modelled with several goroutines,
the bridge with one.

## 2. The modules

| Module | Models | Built on |
|---|---|---|
| `DeferredWindow` | the pure part of the resolver: defaults, trimming, the tags of a window, what `Resolve` gathers | |
| `DeferredIntent` | the abstract specification: what the comment of `Resolve` promises (`deferred.go:126-130`), over the whole list of observations, every question decided at one instant; no window, no lock | |
| `DeferredResolver` | the resolver as goroutines share it; refines `DeferredIntent` | `DeferredWindow` |
| `Bridge` | the serving loop, the IDE before it and the Forwarder behind it | `DeferredWindow` |
| `StdioClient` | the JSON-RPC client, its reader, the pipes and the downstream server | |
| `ManifestBuilder` | the pure part of registry and builder: which tools a contract has, what they depend on, egress and approval | |
| `LinearExtension` | the abstract specification: the nodes of a graph are put in an order one at a time, whichever is free, or the graph is refused for a knot; no counters, no queue | |
| `ContractPlan` | `topological_order` over any contract the builder makes; refines `LinearExtension` | `ManifestBuilder` |
| `ContractRun` | the LangGraph adapter: `build_graph`, its nodes, and the steps LangGraph runs them in | `ContractPlan` |
| `ContractServer` | the HTTP server: handlers, proxy, store, and the life of the process | `ManifestBuilder` |
| `SchemaCodec` | the schema mini-language: what the importer writes, what bridge and adapters read | |
| `BridgeStartup` | `acp-bridge` from its flags to its end: configuration, import, routes, children, signals | `SchemaCodec` |
| `KubernetesHealth` | the pure part of the Kubernetes translator: statuses, alerts, actions | |
| `AnfMcpServer` | `anf-mcp`: registrations, the loop, its tools, its client and signals | `KubernetesHealth` |
| `DeferredWindow_proofs`, `DeferredResolver_proofs`, `Bridge_proofs`, `StdioClient_proofs`, `ContractRun_proofs`, `ContractServer_proofs`, `BridgeStartup_proofs`, `AnfMcpServer_proofs` | theorems and proofs | the module of the name |
| `MCDeferredResolver`, `MCBridge`, `MCStdioClient`, `MCContractRun`, `MCContractServer`, `MCBridgeStartup`, `MCAnfMcpServer` | instances for TLC | the module of the name |

Operators called `Action_Something` under the comment "Deviation" are plausible
mistakes in the code; no specification uses them. Replacing the operator of the
name by one of them makes TLC report the property listed with it under "mutants"
in `PROJECT.json`, which shows that the property depends on that line of code.

### 2.1 DeferredResolver

`window` is `DeferredResolver.window` without its timestamps, which nothing
reads. `Observe` and `Reset` hold the write lock throughout and are one action
each. `Resolve` is three: `ResolveCall` (the arguments, hints normalised),
`ResolveRead` (the critical section: count and tags) and `ResolveReturn` (the
answer, put together without the lock). `ToLower` and `TrimSpace` are the
function `Normalize`, in which several spellings share a stored tag and blank ones
have none. `Gather(...) = {}` stands for `ErrNoCapabilities`. `log` is a history
of all observations since the last reset.

### 2.2 Bridge

`stdin` and `stdout` are the two pipes, `stdinOpen` the far end of the first.
Each method is an action that takes the head of `stdin`; while `handling` holds a
request, the loop is inside `forward.Call` and reads nothing. A `tools/call`
observes every tag of its tool, compares the size of the surface with
`prevToolCount` and writes the notification before it forwards. The resolver is
used by its operators (one goroutine, no interleaving); hints and intent are
empty here. Lines that are no JSON and lines beyond the scanner's 10 MB buffer are
methods of their own. The client (external) sends any method with or without an
id, reads what the bridge writes, fetches the list again after a notification, and
may close `stdin` at any time. `listed`, `announced`, `lastCalled`, `due` and
`answers` are histories.

### 2.3 StdioClient

`pc[c]` is where a caller stands in `request` or `notify`, `mu` the mutex, which
`Lock` takes and every way out of `request` releases. `readLine` runs `ReadBytes` in
a goroutine and selects between its line and the context: `ReadLine`, `ReadFails`
and `TimeOut`. `TimeOut` increments `orphans`: the goroutine stays in the reader
and takes a later line (`OrphanTakes`). Once two goroutines are in the same
`bufio.Reader` (`torn`) its content is unspecified, as the Go memory model leaves
it: a line may come out as any response, as no JSON, or be lost (`TornLine`,
`BytesLost`), and an index out of range may end the process (`Panic`). `Expire` is
the deadline `Manager.Call` and `importSource` put on each context. `Write` blocks
on a full pipe whatever the context says. `Close` needs no mutex. The downstream
server (external) answers the requests it has read in any order, once each, with a
result or an error, says other things, makes requests of its own with ids of its
choosing, and exits.

### 2.4 ManifestBuilder, ContractPlan and ContractRun

A registry is a function from tools to entries; `Lookup`, `DependsOn`, `Egress` and
`RequireApproval` are what `Build` computes from it. The actions of a contract are
named by their tools: `a1`, `a2`, ... are given in the order of tool ids, so that both
orders agree (as strings they do up to nine actions; a larger contract has its ties
broken differently, which no property depends on).

`ContractPlan` starts with any contract that any registry can yield and takes one
action off the queue per step: `indeg`, `ready` and `out` are the variables of
`topological_order`. `Return` and `RaiseCycleError` are its two ends. `OrderKeepsPromise` is
the refinement: `deps` is the graph, `out` the order, `pc` the verdict. `deps` has no
action outside the contract, because `dependsOnFor` drops such needs; the branch of
`topological_order` for them (`acp_common:251-253`) is therefore never taken.

`ContractRun` invokes the graph that `build_graph` makes of an order. `StartEdges` and
`Successors` are the edges the code adds; that any of them triggers a node, that the
triggered nodes run concurrently and in steps, and that two updates of one channel
may be refused, is LangGraph's and external. `Call`, `Answer` and `Raise` are the
request of a node and its two ends. `completed` is a history.

While modelling `Call` a defect came up that no run shows, since it is a matter of one
argument: `build_graph` passes no opener to `make_node` (`acp_langgraph:109-112`), and
`opener(req, timeout)` gives the timeout to the parameter `data` of
`urllib.request.urlopen`, the default opener, which then raises `TypeError`
(`acp_langgraph:86`, `acp_common:144`, `acp_openai:138`, `acp_crewai:67`; the tests pass an
opener of `(req, timeout)`). With the code as it is, no node of such a graph is ever
answered: every run ends in its first step with `Raise`. `Answer` is therefore more than
the code can do today; the runs and theorems about answered nodes hold for it all the same,
and say what the graph is worth with openers of the type the adapters declare.

Behind this defect is another, which could only show once calls go through: `add_edge` is
called once per dependency (`acp_langgraph:118-121`), and LangGraph triggers a node by any
of its edges, so that an action with dependencies of different depth (a template that needs
sql, an email that needs both, the shape of `registry/seed.go:24-60`) would be triggered in
the step after the first of them. `acp_langgraph:3-4` speaks of "`depends_on` order". There
is no run for what no run of the program reaches; `OneDependencyHonored` and
`FinishedRunIsWhole` say what holds.

### 2.5 ContractServer

`stage[r]` is where the handler of request `r` stands; each stage is one action, with
the refusals of the code in the order of the code. A contract is named by the request
that had it built, and `built` is the manifest itself, which no code changes after
`Build`. `store` is the key set of `MemoryStore`. A write takes two actions (`PutBegins`,
`PutEnds`), a read one (`Get`); when one falls into another, `raced` records it, and
either the runtime ends the process (`MapRace`) or goes on with a map in which an
entry may be missed or lost. Lookups by the resolver and the registry, which lock, are
one step. `flags` are the command line's. `Listen`, `Signal`, `Shutdown`, `Drained` and
`DrainTimeout` are `ListenAndServe` and `main`; a process that has ended may be started
again with an empty store (`Restart`), its old requests being `stale`. Clients ask only
with ids they were given or an unknown one; methods, paths and bodies that cannot be
served are one case, explored for feedback, and where no token is asked for every request
counts as authorized. Upstreams answer, fail or hang.

`pending` are the requests whose body the client has not sent to its end, which it may never
do: `ReadHeaderTimeout` is the server's only deadline (`server.go:240-244`). The decoders of
context and feedback wait for such a body (`server.go:129`, `181`), the proxy hands it on
unread, and net/http reads what is left of it before it writes an answer (a body that it
does not read to its end, because it is too long, counts as ended). `BodyEnds` is the rest of
the body or the end of the connection.

### 2.6 SchemaCodec and BridgeStartup

A compact string is its word, the texts between the bars of an enumeration, the number
of its `[]` and its `?`: what the code strips, in the order in which it strips it. Texts
of the schema's author occur in enumerations only; `Bare`, `Trimmed` and `Bracketed` are the
functions on them that stripping and leaving a suffix amount to, and `Parts` is
`strings.Split`. The values of an enumeration are JSON values of any kind, `Sprint` the text
that `fmt.Sprint` makes of one (`source.go:286`); what the readers make of the texts is
strings (`Strings`). `Simplified` is what a parameter should come out as: its declared type,
or string where the language has none for it, and its values as they were.

`Plain` names the parameters that do come out so for the bridge's client. Those that do not
are enumerations: of another declared type than string (`integer` becomes `string`), with a
value that is no string (`1` becomes `"1"`), with a bar in a value, inside an array (the
brackets stay on the last value) or declared on an array, and required ones whose last value
ends in a question mark. For the readers in the adapters (`PlainToAdapters`) two more are
lost: optional enumerations, which keep the mark on their last value, and those whose last
value ends in blanks, which `expand_schema_field` strips.

In `BridgeStartup` a name is its words and what stands between them, so that
`safeSourceName` is the lower case of the words with a `_` between them; ids are the
sequence of the pieces with a `.` after the source's. `tools` is the registry, `clients`
`Manager.clients` (to the number of the source a client was made for), `routes`
`Bridge.tools`. `ReadConfig`, `ReadVSCode`, then per source `PassOver`, `SpawnFails`,
`Spawn`, `Initialize`, `ListTools`, `ImportFails`, `ImportStdio` or `ImportHTTP`, then
`StartServing` are main's steps; `stage` is how far `importSource` is with its child.
`ImportFails` is each way out that closes the client: an error, the end of the child's
output, thirty seconds without an answer.

`Call` is the routing of a `tools/call`, and `serve` how far the loop is with a line: it may
be `announcing` a changed list and is then `writing` the request to the child, `waiting` for
its answer and `replying`; `OtherLine` is any other line that is answered. What it answers is
module `Bridge`. Each write needs a reader: `ClientReads` and `ServerReads` are the client's
and the child's, and need never happen. A write to a child that is gone fails
(`WriteFails`), a write to a client that has closed its end ends the process (`BrokenPipe`),
and the wait for an answer ends after thirty seconds at most (`CallEnds`). Only a loop that
is `scanning` sees the end of its input. During the import the children's pipes are empty
and take the two small requests, so that `Initialize` and `ListTools` do not block in a
write.

The ends are `EndOfInput`, whose
deferred calls close the clients that the manager still has, `ServeFails`, where
`os.Exit` skips them, and before the import a signal or a file that cannot be read. A
signal after that kills the children (`KillChild`) and nothing else. Children and http
servers (external) answer with any list, or never, and exit at any time.

### 2.7 KubernetesHealth and AnfMcpServer

`KubernetesHealth` keeps of a namespace what a status, an alert or an action depends on.
Alerts are the sets that sorting by severity leaves, since `sort.Slice` orders equal ones
as it likes. `DocumentAgrees` says what a reader of a document relies on.

`AnfMcpServer` has one action for each way of a line through `Serve`: `ScanTooLong`,
`ScanCancelled` (the context is looked at after a line has come, and that line is lost)
and `ScanLine`, after which a request or a malformed line is `handling` until `Respond`.
`handle` is the whole of the dispatch with the tools and the resource of `cmd/anf-mcp`.
A client that closes its end of stdout ends the process at its next write, because the Go
runtime does so for `SIGPIPE` on file descriptor 1. One that keeps it open without reading
fills the pipe: `room` says whether it takes another response, `Respond` waits for it, and
`ClientReads` makes it. `lines` and `owed` are histories.

## 3. What the runs check

| Run | Instance | Shows |
|---|---|---|
| `resolver` | 2 goroutines, 4 spellings of 3 tags (one blank, one not registered), window 3, default threshold 3, 4 observations between resets | types; the window is the newest observations; `Resolve` never fails; only `Reset` undoes the narrowing; refinement of `DeferredIntent` |
| `bridge` | 3 tools with 1, 1 and 2 tags, window 2, threshold 1, all methods, 3 requests of the client's own, 2 in the pipe, a Forwarder | types; one answer each, in order; the tool called last stays visible; surfaces of another size are announced; every request is answered and the client's list has the right size in the end |
| `bridge_stale` | the same tools, threshold 2 | finding: `ChangeAnnounced` is violated |
| `stdio` | 2 callers, 2 requests, 2 lines of noise, pipe of 2 | types; no answer reaches the wrong request, and none is lost, before the reader is shared; only a timeout makes it shared; requests in order; every call returns |
| `stdio_lost` | 2 requests, no noise | finding: `AnswerReachesCaller` is violated |
| `stdio_echo` | 2 requests, 1 line of noise | finding: `ResultIsAnswer` is violated |
| `contract_run` | four tools, two of which offer the same capability, any needs, any request | types; the order is valid, and planning refines `LinearExtension`; a cycle error names a real cycle; a finished run left nothing out; an action with one dependency waits for it; planning and running end |
| `contract_server` | two requests, four tools (plain, a host listed by another tool, approval, bad endpoint), bodies that may stall, one restart | types; a contract given is stored; only what a contract allows is called; answers match effects; a signal ends the process; a request is answered unless its client or its upstream keeps it |
| `startup` | configurations of up to 4 sources and VS Code files of up to 4, with names that become one, unknown types, no name; lists with blank, equal and dotted tool names; parameters of every kind, with enumerations of strings, numbers and booleans | types; calls go home; children are accounted for; sources logged as imported are whole; plain schemas survive; start-up ends, and so does a process whose stdin is closed, unless it is blocked in a write |
| `schema_inverse` | the same sources, one list of one tool that takes an integer enumeration | finding: `CompactionInverted` is violated |
| `anf_mcp` | two lines of any kind, 15 namespace views with one thing wrong at the values next to the thresholds, or two | types; each line is answered for itself; documents agree with themselves; every line is answered or the process is over, unless the client keeps stdout open without reading |
| `server_race` | the same as `contract_server`, without a restart | finding: `ServesUntilCancelled` is violated |

Why the bounds are enough. The resolver: the window overflows at the fourth
observation, narrows at the third, and a snapshot can be overtaken by an
observation, a reset or both; two goroutines suffice because `Resolve` only reads.
The bridge: three calls fill a window of two and push its first entry out; the
two-tag tool replaces the whole window in one call; with a threshold of one the first
call narrows, so that surfaces of all sizes from one to three occur within three requests
and lists and calls alternate in every way. The stdio client: one call that
times out and one that follows is the shortest history in which the reader is
shared, and all of the interleavings of two callers around the mutex occur. Contracts:
four actions allow chains, diamonds, two dependencies of different depth, and cycles
with and without an entry; the instance has all of their combinations. The server: two
requests meet in the map in every way, one can execute what the other was given,
before and after a restart; either may be one whose body never ends. The start-up: a config
file and a VS Code file whose names become one, a config file with an http source before a stdio source of the same name and with names and types that
are passed over, and VS Code files with every reason to skip; with four sources in a row
each kind of failure occurs before and after each kind of success. The lists have a tool
without a name in the middle, two of one name, and a name with a dot. The ANF server: two
lines suffice for one to leave something behind for the next, which is what handling in
isolation forbids; namespaces stand at the values next to the thresholds, one trouble or two
at a time, with a second deployment for the uniqueness of names. The proofs lift every
invariant, every action property and both refinements to all values of the constants.

Deadlock checking is off for the bridge, its start-up, the ANF server and the stdio
client, which really stop (stdin closed; a signal; the server gone and the requests used
up), for a contract's run, which ends, and for the server, which may stay down; it is on for the resolver.

### Fairness

- `Bridge`: weak fairness of `Serve` (the loop runs when it has input, and the
  Forwarder returns, because `Manager.Call` gives each call a deadline), of the
  client's reading, and of its re-fetch, which SPEC.md 4.8.5 asks of a client. The
  first rests on `CallsReturn`, and so on a downstream server that reads.
- `StdioClient`: weak fairness of a caller's own steps (goroutines are scheduled),
  of `Expire` (every context has a deadline) and of `ServerReads`; strong fairness
  of `Lock` and `LockNotify` (Go's mutex hands itself over to a waiter that has
  starved for a millisecond). No fairness is assumed of answers, noise or exits:
  the server may fall silent at any time. Without `ServerReads` the property
  `CallsReturn` is false: `Write` is not covered by the context.
- `ContractRun`: weak fairness of planning (a loop without I/O), of invoking and of
  LangGraph's steps, and of each call's end, answered or raised (the timeout).
- `ContractServer`: weak fairness of each handler's own steps (goroutines are
  scheduled), of `Listen`, of `Shutdown`, and of its end (the timer of five seconds fires).
  None of signals, clients, restarts and upstreams: `RequestAnswered` therefore excepts
  requests that an upstream keeps, for which the proxy sets no deadline; those whose body
  the client never sends to its end, for which the server sets none; and the writing of a
  contract (`Reply`), which may be larger than the buffers towards a client that does not
  read. The other answers are a line or two and are taken to fit into empty buffers.
- `BridgeStartup`: weak fairness of main's own steps and of `KillChild` (the goroutine
  of `exec.CommandContext`). `Initialize` and `ListTools` wait for the child and have none:
  when it is silent, the thirty seconds of `main.go:251` are over in the end, which is
  `ImportFails`. http requests have the client's thirty seconds (`main.go:155`). Weak
  fairness also of the two ends of a blocked call that the code guarantees: a write to a
  child that is gone fails, and the wait for an answer has a deadline. Strong fairness of
  `EndOfInput`: a stdin that is closed holds finitely many lines, so that a loop which comes
  back to scanning again and again comes to their end. Neither signals, exits, the end of the
  input nor the reading of anything is assumed: `StartUpEnds` excepts a bridge that is
  blocked for ever in a write to a child that runs without reading (`ServerNeverReads`; the
  deadline of `Manager.Call` does not reach the write at `stdio.go:192`, but a signal, which
  kills the child, ends it) or to a client that keeps stdout open without reading
  (`ClientNeverReads`). A child that is gone is taken to leave no other process behind that
  holds the far end of its stdin.
- `AnfMcpServer`: weak fairness of the server's steps (handlers compute and return). None
  of the client: `ServesUntilTheEnd` says what follows once a line is there, and excepts a
  server that is blocked for ever in the write of an answer (`server.go:440`) because the
  client keeps stdout open without reading. Neither a signal nor the end of the input ends
  such a server.
- `DeferredResolver` has safety properties only.

### Findings

1. `bridge_stale`: the bridge compares sizes (`bridge.go:298`), so a surface that is
   replaced by a different one of the same size is not announced, although
   SPEC.md:274-275 asks for it "when narrowing changes the tool surface". Example, with
   tools tagged `issues`, `files`, and `files` with `search`: a call of the last narrows
   the list to the second and third tool; a call of the first then moves the window to
   `search`, `issues` and the surface to the first and third, unannounced. What the code
   does guarantee is proved as `SizeChangeAnnounced`.
2. `stdio_lost`: after a timeout the goroutine left behind takes the next line; when
   that is the answer to the next call, the call waits until its own deadline
   (`stdio.go:204`).
3. `stdio_echo`: only the id of a line is compared (`stdio.go:170`). A request of the
   server's own (`ping`, `sampling/createMessage`) that carries the id of the
   pending call is returned as its result, empty.
4. `schema_inverse`: `bridge.go:335` calls `compactToJSONSchema` "the inverse of the MCP
   source compaction". The importer writes the values of an enumeration as text without
   its declared type (`source.go:283-288`), and the bridge gives every enumeration the type
   `string` (`bridge.go:345`). A tool with the parameter `{"type": "integer", "enum": [1]}`
   is listed with `{"type": "string", "enum": ["1"]}`, and a client that keeps to that calls
   its server with a string. The other enumerations that do not survive are listed in 2.6; what does hold,
   `SchemaSurvives`, is proved.
5. `server_race`: `MemoryStore` (`proxy.go:221-242`) has no lock, unlike the registry and
   the resolver. Two requests in the map at once may end the process without a signal.

Where documents say more than the code does, without a run of its own:

- `pkg/anfmcp/server.go:182-183`: `Serve` runs "until in reaches EOF or ctx is cancelled";
  it looks at the context only after `Scan` has returned, so a signal ends a waiting server
  with the next line only, which it then drops. `ServesUntilTheEnd` says this much.
- `pkg/anfmcp/server.go:436-438`: "one bad write does not kill the serve loop"; the Go
  runtime ends a process that writes to a closed standard output (`Respond`).
- `cmd/acp-bridge/main.go:150`: a signal ends the bridge while it reads its configuration,
  but once it is caught nothing in the bridge reads the context: the children die and the
  bridge serves on, every call failing, until its stdin is closed. `StartUpEnds` has both
  halves.
- `internal/bridge/bridge.go:38`: calls go to "the original downstream MCP server"; of two
  sources whose names are the same after `safeSourceName` the later is called for the tools
  of both. `RoutedHome` says what holds.
- `internal/resolver/deferred.go:25-27`, the comment of the type: in the warm phase it
  "Returns the union of recently-observed capability domains plus a configurable margin of
  related capabilities from the fallback resolver". The code (`deferred.go:147-151`) returns
  everything below the threshold, as the comment of `Resolve` (`deferred.go:126-130`) and
  SPEC.md 4.8.1 say; there is no margin to configure. `KeepsPromise` is about the comment of
  `Resolve`.
- SPEC.md 4.8.1, 4.8.2 ("observed domains only") and 4.8.3 (merged with hints), and
  `deferred.go:28-29` ("only the observed domain capabilities plus hints"): to a question
  with an intent the narrowed resolver adds what the fallback resolver makes of the intent
  (`deferred.go:157-165`), which only the comment of `Resolve` announces. `Promised` has it as
  `Related`; for a question without an intent, such as all of the bridge's, `Related` is
  empty and both promises are one.
- `adapters/python/acp_common/__init__.py:204-211`: enumerations are recognised before the `?`
  is taken off, so that an optional one keeps it on its last value ("marked").
- `adapters/python/acp_langgraph/__init__.py:3-4`: nodes run "in `depends_on` order"; see 2.4
  for why they do not run at all today, and what the edges would do if they did.
- `FORMAT.md:158`: "Alerts surface issues that need attention."; failed pods and jobs have a
  failing status but raise none. `HealthAgrees` is about deployments.

Beside these, `paper/acp.md:201-202` says that the server guarantees a contract without
cycles, which `Build` does not check; the cycle is found by `topological_order`. The model
has such contracts, and `CycleErrorIsReal` and `RunEnds` say what becomes of them.

## 4. What is proved

All theorems hold for every value of the constants under the named assumptions
of the modules, among them: the tags of a tool are not empty (`registry.Register` refuses
others), the resolver is given the tags of all registered tools
(`cmd/acp-bridge/main.go:184-195`), the registry is finite, and the values that
stand for "none" are none of the others.

- `DeferredWindow_proofs`: `Newest` keeps the last entries; pushing onto the newest
  entries of a log gives the newest entries of the longer log (`PushKeepsNewest`),
  hence trimming once after all tags of a call equals trimming after each
  (`PushAllOneByOne`), which justifies `PushAll`.
- `DeferredResolver_proofs`: invariant `TypeOK`, `WindowIsNewest`, `SnapshotNotHollow`
  (a snapshot that reaches the threshold names a tag). From it: `TypeCorrect`,
  `WindowCorrect`, `NeverFails`, `NarrowingLasts`, `SmallWindowStaysFull` (a window
  smaller than the threshold never narrows: nothing in the constructor relates the
  options), and `ImplementsPromise`: initial states map to initial states, each step
  to a step or a stutter of `DeferredIntent`. `ResolveRead` maps to `Decide`; that the
  later answer equals the decided one needs that the snapshot is all that is read.
- `Bridge_proofs`: two inductive invariants. `SurfaceInv`: the window holds known tags
  and ends with a tag of the tool called last, and `prevToolCount` is the size of the
  last list, which is not empty when there is a tool. From it `CallKeepsItsTool` and
  `SizeChangesAreAnnounced`; the second needs the non-emptiness because the code
  announces only if `prevToolCount > 0`. `AnswerInv`: ids increase along `stdin`, every
  id in `stdin` is above all that was taken from it, the request in the Forwarder is
  above all in `stdout`, and each id has the number of answers it should. From it
  `OneAnswerInOrder`; both together give `TypeCorrect`. `Delivery` is about the client: what
  it has not read ends with the last list the bridge wrote, and a change announced since is
  in the pipe, is a list that the client means to ask for, or is one it has asked for. With
  `SurfaceInv` it gives `ClientIsInStep`.
- `StdioClient_proofs`: the invariant adds to `TypeOK` that holding the mutex is being
  between `Lock` and `Return` (`Exclusive`), that a shared reader is a torn one
  (`SharedIsTorn`), that lines with an `of` carry its id (`HonestLines`), that ids in the
  pipe are behind the counter (`WireBehind`), and bounds. From it `AnswersMatch`,
  `OnlyTimeoutsOverlap`, `RequestsInOrder` and `AnswersAreKept`. Two results have smaller
  invariants of their own: `NoLockIsLeaked` (holding the mutex is being between `Lock` and
  a return, on every path) and `IdsAreUnique` (a new id is larger than all that were ever given,
  so that the id of a call that timed out is never another call's).
- `ContractRun_proofs`: `PlanInv` relates the counters to the order: an action's counter
  is the number of its dependencies not yet put out (`Counters`), it is zero exactly for
  what is queued or put out (`Freed`), and both sequences hold an action at most once
  (`Queue`). From it `OrderIsValid` and `OrderIsComplete`; when the queue is empty and
  actions are left, each has a counter above zero and so waits for another that is left
  (`CycleErrorIsJust`). `RunInv`: an active action has no dependency or one that is
  completed (`Prepared`), and what completed actions lead to is completed or active
  (`Pursued`). From it `SingleDependencyInOrder`, and, along the least position of the order
  whose action was left out, `RunLeavesNothingOut`.
  `PlanImplementsOrder` maps each step of the counters and the queue to a step of
  `LinearExtension`: an action is in the queue only when all it depends on is out, and when
  the queue is empty with actions left, these are a knot (`StuckIsKnot`).
  `OrderedIsAcyclic` is the other half of `CycleErrorIsJust`: a contract with a cycle is
  never given an order. `PlanIsDeterministic` says that a step off the queue can always be
  taken and leaves no choice; a finite set of actions has exactly one sorted listing
  (`ListingExists`, `ListingIsOne`, by the ranks of its members), so that the model's choice
  of a listing of the freed actions is no more than the code's `sort`.
- `ContractServer_proofs`: `IInv` says where handlers can be with which request (`Route`),
  that an answer is the end of one (`Answered`), that a contract is built once
  (`BuiltOnce`) and stored before the answer (`StoredFirst`), and that the checks of a call
  still hold when it is made (`Cleared`), which needs that contracts do not change under
  a handler. Two lemmas treat all handlers that only answer or only go on; every other
  action has one of its own. From it `ContractIsKept`, `CallsAreAllowed`,
  `AnswersTellTheTruth`, and `NothingIsDoneTwice`: a handler that calls its upstream has
  not called it before, also across restarts, an answer is written once, and a contract
  that was built is never another one.

- `BridgeStartup_proofs`: words have no dot in them and separators become `_`, so a name
  that went through `safeSourceName` has none (`SafeText`), and the first dot of an id is
  the importer's (`Cut`, `RouteOfToolID`): tools of one id have one name and sources of
  one name (`SameID`). `IInv` adds to `TypeOK` how far the import of a source is with its
  child (`Stage`), that nothing has happened to the sources behind `next` (`Early`,
  `Fresh`), that clients and tools are those of imported sources (`Clients`, `Tools`),
  that a stdio tool has a client of its source's name and not an earlier one (`HasClient`),
  and that every tool of a source imported in full is still there, its own or a later
  source's of the name (`Whole`). Steps are of three kinds: those that read the
  configuration, those that register a list, those that leave the registry alone; each
  conjunct has a lemma over these kinds. From it `TypeCorrect`, `CallsGoHome`,
  `NoStrayChildren`, `NothingMissing`, `RegistryIsSettled` (the copy of the registry that
  the bridge is built from is not stale) and `ServesWhatWasImported`, which says of any
  import what module `Bridge` assumes of its constants: finitely many tools, each with a
  tag. `CodecRoundTrip` is about `SchemaCodec` alone and needs no state. For the
  values of a `Plain` enumeration, which are one text each, joining and splitting gives the
  texts back (`FlattenOfSingles`): the join is a recursive function of the library, and what
  satisfies its defining equation cannot differ first from the expected prefix at any
  index. That the type survives is `Plain`'s condition that it is string, or none the language
  knows; that the values do, its condition that they are strings (`StringValue`): a string
  is its own text. From both and `IInv` follows `SchemasSurvive`.
- `AnfMcpServer_proofs`: `TranslateAgrees` is about the translator alone: alerts about a
  deployment or its pods are its own because names are unique (`AlertsOfDeployment`), and
  each reason for a status is a reason for an alert (`StatusMatchesAlerts`). `IInv` adds
  to `TypeOK` that nothing is owed before the server serves (`Quiet`) and that the request
  in its handler is the last one owed (`Pending`). From it `TypeCorrect`, `AnswersMatch`
  and `HealthCorrect`.

Safety cores of the liveness properties. What a liveness property owes to the code rather
than to the scheduler is mostly that nothing turns in a circle or waits for someone who is
gone, and that is safety. Five theorems state it for every value of the constants:
`StartUpCannotTurn` (each step of main goes further along phase, source and stage, no step
of anyone else goes back) for `StartUpEnds`; `RunCannotTurn` (a graph step of LangGraph
begins further down the order than the one before; this is where the absence of cycles is
needed) for `RunEnds`; `HandlersCannotTurn` for `RequestAnswered` and `ShutdownEnds`;
`ClientIsInStep` for `ViewSizeSettles`; `NoLockIsLeaked` for `CallsReturn`. What remains is
the step from there to the temporal formula under fairness, which TLC checks.

Only model-checked: the liveness properties (`EveryRequestAnswered`,
`ViewSizeSettles`, `CallsReturn`, `RunEnds`, `ShutdownEnds`, `RequestAnswered`,
`StartUpEnds`, `ServesUntilTheEnd`), which are out of reach of the prover, and the five
violations.

## 5. Not modelled

- The keyword and embedding resolvers (`resolver.go`, `embedding.go`) and the seeded
  registry: scores of texts, with floating-point similarities. They keep no state, and
  both servers are modelled for every set of tags that a resolver may return. The keyword
  resolver is the constant `Fallback` of `DeferredResolver`.
- The generic translator, the ANF encoder and the texts of both: layout of arbitrary JSON.
  Of the generic translator the one refusal, of values nested too deeply, is in
  `encodeHandler`.
- The Kubernetes tool source (`internal/sources/k8s`): a fixed table of tools that no
  binary of the repository registers.
- Observability: metrics and logs around the handlers, which no decision reads.
- The ACP client library (`pkg/acp`), the OpenAI and CrewAI bindings and the import demo:
  one request or one print each, without state of their own.
- `--enable-proxy=false`, `handleHealthz`, the environment of child processes and the
  expansion of variables in commands and URLs.
- `Bridge` with `StdioClient` in place of its Forwarder in one module. The two meet in one
  call at a time: the bridge relies on a Forwarder that returns (`CallsReturn`, under a
  server that reads its stdin) and cares for nothing else of the answer, so that the product
  of their states would answer no further question.

Benchmarks, scripts, papers and examples are no part of the program. Nowhere modelled are
contents of messages and schemas beyond what properties distinguish, logging, sizes of
lines other than "too long", and partial writes. A write to a stdout whose far end is closed
is logged by both MCP servers' own code (`bridge.go:408-410`, `pkg/anfmcp/server.go:439-442`),
but does not get that far: the Go runtime ends a process that writes to a broken pipe on file
descriptor 1. `BrokenPipe` and `Respond` are that; module `Bridge` is about a client that goes
on reading, and leaves it to `BridgeStartup`.
