--------------------------- MODULE ContractServer ---------------------------
(***************************************************************************)
(* internal/server/server.go, internal/proxy/proxy.go and the wiring of    *)
(* cmd/acp-server/main.go: contracts are built and stored by one kind of   *)
(* request and executed by another, each request in a goroutine of its     *)
(* own, in a process that is told to stop, stops by itself, and is started *)
(* again.                                                                  *)
(*                                                                         *)
(* MemoryStore is a plain map without a lock.  The Go runtime ends the     *)
(* process when it notices a read or a write beside a write, and promises  *)
(* nothing when it does not: an entry may then be missed or get lost.      *)
(*                                                                         *)
(* NewID gives a fresh id, so a contract is named by the request that had  *)
(* it built.  A body, method or path that cannot be served is one case.    *)
(***************************************************************************)
EXTENDS ManifestBuilder

CONSTANTS
  Request,      \* HTTP requests, each sent at most once
  Unknown,      \* a contract id no server has given
  Registry,     \* what the server is seeded with
  MaxRestarts   \* bound: times the process is started again

ASSUME RequestAssumption == IsFiniteSet(Request) /\ Unknown \notin Request
ASSUME RegistryAssumption ==
  /\ DOMAIN Registry \subseteq Tool
  /\ \A t \in DOMAIN Registry : Registerable(Registry[t])
ASSUME RestartBound == MaxRestarts \in Nat

VARIABLES
  proc,       \* the process: "starting", "serving", "draining"; see Ended
  cancelled,  \* SIGINT or SIGTERM has arrived
  flags,      \* --auth-token is set; --auto-approve is given
  store,      \* the keys of MemoryStore.manifests
  raced,      \* two accesses to that map have overlapped
  built,      \* of each request: the tools of the contract built for it
  input,      \* of each request: what it asks
  stage,      \* of each request: what its handler does next
  status,     \* of each request: the status of its answer
  calls,      \* the upstream calls made: request, contract, tool
  stale,      \* requests answered by an earlier process
  pending,    \* requests whose body the client has still to send
  restarts

processVars == <<proc, cancelled, flags, restarts>>
storeVars == <<store, raced>>
surroundings == <<processVars, pending>>
vars == <<surroundings, storeVars, built, input, stage, status, calls, stale>>

Ended == {"exited", "failed", "crashed"}   \* code 0, code 1, fatal error

Up == proc \in {"serving", "draining"}

NoAnswer == 0
Relayed == 1   \* the upstream's own answer, passed on with its own code

Stages == {"unused", "admit", "build", "put", "putting", "reply", "get",
           "check", "inject", "forward", "upstream", "record", "done"}

InFlight == {r \in Request : stage[r] \notin {"unused", "done"}}

(* Requests a client can send: one for a contract, for the execution of a  *)
(* contract it was given (or of an unknown one), or with feedback.  Each   *)
(* is authorized where no token is asked for.                              *)
Given == {r \in Request : input[r].kind = "context" /\ status[r] = 200}

NoInput == [kind |-> "none", authorized |-> FALSE, wellFormed |-> FALSE,
            asked |-> {}, contract |-> Unknown, tool |-> 0]

Inputs(contracts) ==
  [kind : {"context"}, authorized : {TRUE}, wellFormed : {TRUE},
   asked : SUBSET Capability, contract : {Unknown}, tool : {0}]
    \cup
  [kind : {"exec"}, authorized : BOOLEAN, wellFormed : {TRUE},
   asked : {{}}, contract : contracts, tool : Tool]
    \cup
  [kind : {"feedback"}, authorized : BOOLEAN, wellFormed : BOOLEAN,
   asked : {{}}, contract : {Unknown}, tool : {0}]

Init ==
  /\ proc = "starting"
  /\ cancelled = FALSE
  /\ flags \in [auth : BOOLEAN, autoApprove : BOOLEAN]
  /\ store = {}
  /\ raced = FALSE
  /\ built = [r \in Request |-> {}]
  /\ input = [r \in Request |-> NoInput]
  /\ stage = [r \in Request |-> "unused"]
  /\ status = [r \in Request |-> NoAnswer]
  /\ calls = {}
  /\ stale = {}
  /\ pending = {}
  /\ restarts = 0

-----------------------------------------------------------------------------
(* Handlers.                                                               *)
At(r, here) == Up /\ stage[r] = here

GoTo(r, there) == stage' = [stage EXCEPT ![r] = there] /\ UNCHANGED status

(* Before an answer net/http reads what the handler has left of the body.  *)
Respond(r, code) ==
  /\ r \notin pending
  /\ stage' = [stage EXCEPT ![r] = "done"]
  /\ status' = [status EXCEPT ![r] = code]

Send(r) ==
  /\ proc = "serving"
  /\ stage[r] = "unused"
  /\ \E ask \in Inputs(Given \cup {Unknown}) :
       /\ flags.auth \/ ask.authorized
       /\ input' = [input EXCEPT ![r] = ask]
  /\ pending' \in {pending, pending \cup {r}}
  /\ GoTo(r, "admit")
  /\ UNCHANGED <<processVars, storeVars, built, calls, stale>>

(* The client sends the rest of its body, or goes away.                    *)
BodyEnds(r) ==
  /\ Up
  /\ r \in pending
  /\ pending' = pending \ {r}
  /\ UNCHANGED <<processVars, storeVars, built, input, stage, status, calls, stale>>

(* Deviation: a stage no handler knows.                                    *)
FirstStage_Unknown(kind) ==
  CASE kind = "context" -> "build" [] kind = "exec" -> "get" [] OTHER -> kind

FirstStage(kind) ==
  CASE kind = "context" -> "build" [] kind = "exec" -> "get" [] OTHER -> "record"

(* requireAuth, then the checks each handler makes of the request itself.  *)
(* Decode waits for the body without a deadline; the proxy does not.       *)
Admit(r) ==
  /\ At(r, "admit")
  /\ \/ /\ flags.auth /\ ~input[r].authorized
        /\ Respond(r, 401)
     \/ /\ flags.auth => input[r].authorized
        /\ ~input[r].wellFormed
        /\ Respond(r, 400)
     \/ /\ flags.auth => input[r].authorized
        /\ input[r].wellFormed
        /\ r \in pending => input[r].kind = "exec"
        /\ GoTo(r, FirstStage(input[r].kind))
  /\ UNCHANGED <<surroundings, storeVars, built, input, calls, stale>>

(* Resolve fails when nothing is asked, Build when no tool offers it.      *)
Build(r) ==
  /\ At(r, "build")
  /\ LET tools == Lookup(Registry, input[r].asked)
     IN  \/ tools = {} /\ Respond(r, 422) /\ UNCHANGED built
         \/ /\ tools # {}
            /\ built' = [built EXCEPT ![r] = tools]
            /\ GoTo(r, "put")
  /\ UNCHANGED <<surroundings, storeVars, input, calls, stale>>

Writers == {r \in Request : stage[r] = "putting"}

(* Put is a write of the map that takes time.                              *)
PutBegins(r) ==
  /\ At(r, "put")
  /\ GoTo(r, "putting")
  /\ raced' = (raced \/ Writers # {})
  /\ UNCHANGED <<surroundings, store, built, input, calls, stale>>

PutEnds(r) ==
  /\ At(r, "putting")
  /\ \/ store' = store \cup {r}
     \/ raced /\ store' \in SUBSET (store \cup {r})
  /\ GoTo(r, "reply")
  /\ UNCHANGED <<surroundings, raced, built, input, calls, stale>>

(* Deviation: the answer is written before the contract is stored.         *)
Reply_BeforePut(r) ==
  /\ At(r, "put") \/ At(r, "reply")
  /\ Respond(r, 200)
  /\ UNCHANGED <<surroundings, storeVars, built, input, calls, stale>>

Reply(r) ==
  /\ At(r, "reply")
  /\ Respond(r, 200)
  /\ UNCHANGED <<surroundings, storeVars, built, input, calls, stale>>

(* Get is over at once, but may fall into a write.                         *)
Get(r) ==
  /\ At(r, "get")
  /\ raced' = (raced \/ Writers # {})
  /\ \/ input[r].contract \in store /\ GoTo(r, "check")
     \/ input[r].contract \notin store /\ Respond(r, 404)
     \/ raced' /\ Respond(r, 404)
  /\ UNCHANGED <<surroundings, store, built, input, calls, stale>>

(* "fatal error: concurrent map read and map write" (or "map writes").     *)
MapRace(r) ==
  /\ \/ At(r, "put")
     \/ At(r, "get")
  /\ Writers # {}
  /\ proc' = "crashed"
  /\ raced' = TRUE
  /\ UNCHANGED <<cancelled, flags, restarts, store, built, input, stage, status,
                 calls, stale, pending>>

Host(r) == Registry[input[r].tool].host

(* Deviation: require_approval is taken from another contract.             *)
Approved_Elsewhere(r) ==
  \/ input[r].tool \notin RequireApproval(Registry, built[r])
  \/ flags.autoApprove

Approved(r) ==
  \/ input[r].tool \notin RequireApproval(Registry, built[input[r].contract])
  \/ flags.autoApprove

(* findAction, the gate, the endpoint and the egress list, in this order.  *)
Check(r) ==
  /\ At(r, "check")
  /\ LET tools == built[input[r].contract]
         found == input[r].tool \in tools
     IN  \/ ~found /\ Respond(r, 404)
         \/ found /\ ~Approved(r) /\ Respond(r, 403)
         \/ found /\ Approved(r) /\ Host(r) = NoHost /\ Respond(r, 502)
         \/ /\ found /\ Approved(r) /\ Host(r) # NoHost
            /\ Host(r) \notin Egress(Registry, tools)
            /\ Respond(r, 403)
         \/ /\ found /\ Approved(r)
            /\ Host(r) \in Egress(Registry, tools)
            /\ Host(r) # NoHost
            /\ GoTo(r, "inject")
  /\ UNCHANGED <<surroundings, storeVars, built, input, calls, stale>>

(* The injector is behind an interface and may fail.                       *)
Inject(r) ==
  /\ At(r, "inject")
  /\ GoTo(r, "forward") \/ Respond(r, 502)
  /\ UNCHANGED <<surroundings, storeVars, built, input, calls, stale>>

Forward(r) ==
  /\ At(r, "forward")
  /\ calls' = calls \cup {<<r, input[r].contract, input[r].tool>>}
  /\ GoTo(r, "upstream")
  /\ UNCHANGED <<surroundings, storeVars, built, input, stale>>

(* Deviation: a transport error is answered like an unknown action.        *)
UpstreamEnds_NotFound(r) ==
  /\ At(r, "upstream")
  /\ Respond(r, Relayed) \/ Respond(r, 404)
  /\ UNCHANGED <<surroundings, storeVars, built, input, calls, stale>>

(* Deviation: the transport's error is answered by another try, without    *)
(* end.                                                                    *)
UpstreamEnds_Retries(r) ==
  /\ At(r, "upstream")
  /\ Respond(r, Relayed) \/ GoTo(r, "forward")
  /\ UNCHANGED <<surroundings, storeVars, built, input, calls, stale>>

(* The upstream answers, or the transport gives up (ErrorHandler).         *)
UpstreamEnds(r) ==
  /\ At(r, "upstream")
  /\ Respond(r, Relayed) \/ Respond(r, 502)
  /\ UNCHANGED <<surroundings, storeVars, built, input, calls, stale>>

(* The sink counts the event and never fails.                              *)
Record(r) ==
  /\ At(r, "record")
  /\ Respond(r, 202)
  /\ UNCHANGED <<surroundings, storeVars, built, input, calls, stale>>

(* What a handler does by itself; a contract may be too large for the      *)
(* buffers of a client that does not read.                                 *)
Work(r) ==
  \/ Admit(r) \/ Build(r) \/ PutBegins(r) \/ PutEnds(r)
  \/ Get(r) \/ Check(r) \/ Inject(r) \/ Forward(r) \/ Record(r)

Handle(r) == Work(r) \/ Reply(r)

-----------------------------------------------------------------------------
(* ListenAndServe and the process around it.                               *)
requestVars == <<storeVars, built, input, stage, status, calls, stale, pending>>

Listen ==
  /\ proc = "starting"
  /\ proc' \in {"serving", "failed"}
  /\ UNCHANGED <<cancelled, flags, restarts, requestVars>>

Signal ==
  /\ proc \notin Ended
  /\ ~cancelled
  /\ cancelled' = TRUE
  /\ UNCHANGED <<proc, flags, restarts, requestVars>>

(* Shutdown closes the listener and waits for the handlers.                *)
Shutdown ==
  /\ cancelled
  /\ proc \in {"starting", "serving"}
  /\ proc' = "draining"
  /\ UNCHANGED <<cancelled, flags, restarts, requestVars>>

Drained ==
  /\ proc = "draining"
  /\ InFlight = {}
  /\ proc' = "exited"
  /\ UNCHANGED <<cancelled, flags, restarts, requestVars>>

(* Deviation: Shutdown is given a context without a deadline.              *)
DrainTimeout_Never == FALSE /\ UNCHANGED vars

(* Shutdown gives up after five seconds.                                   *)
DrainTimeout ==
  /\ proc = "draining"
  /\ InFlight # {}
  /\ proc' = "failed"
  /\ UNCHANGED <<cancelled, flags, restarts, requestVars>>

(* Nothing of a process outlives it; its requests get no answer any more.  *)
Restart ==
  /\ proc \in Ended
  /\ restarts < MaxRestarts
  /\ restarts' = restarts + 1
  /\ proc' = "starting"
  /\ cancelled' = FALSE
  /\ store' = {}
  /\ raced' = FALSE
  /\ stage' = [r \in Request |-> IF stage[r] = "unused" THEN "unused" ELSE "done"]
  /\ stale' = {r \in Request : stage[r] # "unused"}
  /\ pending' = {}
  /\ UNCHANGED <<flags, built, input, status, calls>>

Next ==
  \/ \E r \in Request : Send(r) \/ BodyEnds(r) \/ Handle(r) \/ MapRace(r) \/ UpstreamEnds(r)
  \/ Listen
  \/ Signal
  \/ Shutdown
  \/ Drained
  \/ DrainTimeout
  \/ Restart

Spec == Init /\ [][Next]_vars

(* Go runs every goroutine that can run, and the timer of Shutdown fires.  *)
(* Upstreams, clients, signals and whoever restarts the process promise    *)
(* nothing: neither that a body is sent to its end nor that an answer is   *)
(* read.                                                                   *)
FairSpec ==
  /\ Spec
  /\ \A r \in Request : WF_vars(Work(r))
  /\ WF_vars(Listen)
  /\ WF_vars(Shutdown)
  /\ WF_vars(Drained \/ DrainTimeout)

-----------------------------------------------------------------------------
TypeOK ==
  /\ proc \in {"starting", "serving", "draining"} \cup Ended
  /\ cancelled \in BOOLEAN
  /\ flags \in [auth : BOOLEAN, autoApprove : BOOLEAN]
  /\ store \subseteq Request
  /\ raced \in BOOLEAN
  /\ built \in [Request -> SUBSET DOMAIN Registry]
  /\ input \in [Request -> {NoInput} \cup Inputs(Request \cup {Unknown})]
  /\ stage \in [Request -> Stages]
  /\ status \in [Request -> {NoAnswer, Relayed, 200, 202, 400, 401, 403, 404, 422, 502}]
  /\ calls \subseteq Request \X Request \X Tool
  /\ stale \subseteq Request
  /\ pending \subseteq Request
  /\ restarts \in 0 .. MaxRestarts

(* Whoever has been given a contract by this process can use it: as long   *)
(* as no accesses to the map have overlapped, it was stored before the     *)
(* answer (server.go:159-171, Put before writeJSON) and is never lost.     *)
GivenIsStored == ~raced => Given \ stale \subseteq store

(* What reaches an upstream is an action of a contract some server built,  *)
(* to a host of that contract's egress list, and where it wants approval   *)
(* only behind an approving gate; never on a request without a token.      *)
CalledUnderContract ==
  \A c \in calls :
    LET tools == built[c[2]]
    IN  /\ c[3] \in tools
        /\ Registry[c[3]].host \in Egress(Registry, tools)
        /\ c[3] \in RequireApproval(Registry, tools) => flags.autoApprove
        /\ flags.auth => input[c[1]].authorized

Called(r) == \E c \in calls : c[1] = r

(* The answer tells the agent whether its action ran: a refusal of the     *)
(* proxy's own (4xx) means that no upstream was called, a relayed answer   *)
(* that one was; without an answer or with 502 either is possible.         *)
AnswerMatchesEffect ==
  \A r \in Request :
    /\ status[r] \in 400 .. 499 => ~Called(r)
    /\ status[r] = Relayed => Called(r)

(* A signal ends the process, even if an upstream never answers            *)
(* (server.go:237-238, "then performs a graceful shutdown").               *)
ShutdownEnds == cancelled ~> proc \in Ended

(* Nothing in the server keeps a request for ever: it is answered unless   *)
(* the process ends first, its client never sends the rest of the body     *)
(* (server.go:129 and 181 set no deadline), its upstream never answers, or *)
(* its client does not read the contract it is sent.                       *)
RequestAnswered ==
  \A r \in Request :
    stage[r] = "admit" ~>
      \/ stage[r] = "done"
      \/ proc \in Ended
      \/ [](r \in pending)
      \/ [](stage[r] \in {"upstream", "reply"})

(* server.go:237: "ListenAndServe runs the server until ctx is canceled".  *)
ServesUntilCancelled == proc = "crashed" => cancelled

=============================================================================
