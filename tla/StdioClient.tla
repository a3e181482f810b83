----------------------------- MODULE StdioClient -----------------------------
(***************************************************************************)
(* internal/mcpclient/stdio.go: the JSON-RPC client of one downstream MCP  *)
(* server, newline-delimited over the pipes of a child process.            *)
(*                                                                         *)
(* A mutex makes a request exclusive from the choice of its id to the last *)
(* line read for it.  Each line is read by a goroutine of its own, so that *)
(* the caller can stop waiting when its context is done; the goroutine     *)
(* stays behind in ReadBytes, on the bufio.Reader that the next request    *)
(* reads from too.  From the moment two goroutines are in that reader at   *)
(* once nothing is known of its buffer: a line may come out whole, mixed   *)
(* with another, twice or not at all, and an index may leave the buffer.   *)
(***************************************************************************)
EXTENDS Integers, Sequences, FiniteSets

CONSTANTS
  Caller,        \* goroutines that use the client
  NoCaller,      \* the mutex is free
  MaxCalls,      \* bound: requests made, hence ids used
  MaxNoise,      \* bound: lines of the server that answer nothing
  PipeCapacity   \* bound: requests that fit the child's stdin pipe

ASSUME CallerAssumption == IsFiniteSet(Caller) /\ NoCaller \notin Caller
ASSUME StdioBounds ==
  /\ MaxCalls \in Nat
  /\ MaxNoise \in Nat
  /\ PipeCapacity \in Nat \ {0}

VARIABLES
  pc,          \* of each caller: where it is in request or notify
  op,          \* of each caller: "call" or "initialize"
  id,          \* of each caller: the id of its request
  expired,     \* of each caller: its context is done
  outcome,     \* of each caller: what its last request returned
  mu,          \* the holder of StdioClient.mu
  nextID,
  orphans,     \* goroutines left in ReadBytes by callers that timed out
  torn,        \* two goroutines have been in the reader at once
  timedOut,    \* history: a caller has left its goroutine behind
  toServer,    \* messages in the child's stdin
  fromServer,  \* lines in the child's stdout and in the reader's buffer
  working,     \* ids the server has read and not answered
  noise,       \* number of lines of the server that answered nothing
  process      \* "up", "exited"; "panicked" is the client's own end

callerVars == <<pc, op, id, expired, outcome>>
readerVars == <<orphans, torn, timedOut>>
serverVars == <<working, noise, process>>
vars == <<callerVars, mu, nextID, readerVars, toServer, fromServer, serverVars>>

NoId == 0
Id == 1 .. MaxCalls

(* A line of the server.  "of" is the request whose answer it carries.  A  *)
(* request of the server's own has an id of the server's choosing and no   *)
(* result; "other" is a notification or no JSON at all.                    *)
Line(kind, i, of) == [kind |-> kind, id |-> i, of |-> of]

Noise == {Line("other", NoId, NoId)} \cup {Line("request", i, NoId) : i \in Id}

(* What may come out of a reader used by two goroutines at once: no JSON,  *)
(* or a response of which nothing is known.                                *)
TornLine ==
  {Line(kind, i, NoId) : kind \in {"result", "error"}, i \in 1 .. nextID}
    \cup {Line("other", NoId, NoId)}

Returned(kind, of) == [kind |-> kind, of |-> of]

-----------------------------------------------------------------------------
(* Requests begun: those with an id and those that wait for one.           *)
Begun == nextID + Cardinality({c \in Caller : pc[c] = "lock"})

(* CallTool, ListTools and Initialize all enter request; the context of a  *)
(* call through the Manager has its deadline before the mutex is taken.    *)
(* Initialize is the first request, if it is made at all.                  *)
Call(c, operation) ==
  /\ pc[c] = "idle" /\ process # "panicked"
  /\ Begun < MaxCalls
  /\ operation = "initialize" => Begun = 0
  /\ pc' = [pc EXCEPT ![c] = "lock"]
  /\ op' = [op EXCEPT ![c] = operation]
  /\ id' = [id EXCEPT ![c] = NoId]
  /\ outcome' = [outcome EXCEPT ![c] = Returned("none", NoId)]
  /\ UNCHANGED <<expired, mu, nextID, readerVars, toServer, fromServer, serverVars>>

(* The context of c is done: deadline, or the process was asked to stop.   *)
(* notify has no context.                                                  *)
Expire(c) ==
  /\ pc[c] \in {"lock", "write", "read"} /\ process # "panicked"
  /\ ~expired[c]
  /\ expired' = [expired EXCEPT ![c] = TRUE]
  /\ UNCHANGED <<pc, op, id, outcome, mu, nextID, readerVars, toServer, fromServer, serverVars>>

(* Deviation: ids start at zero, which the encoding leaves out.            *)
Lock_FromZero(c) ==
  /\ pc[c] = "lock" /\ process # "panicked"
  /\ mu = NoCaller
  /\ mu' = c
  /\ nextID' = nextID + 1
  /\ id' = [id EXCEPT ![c] = nextID]
  /\ pc' = [pc EXCEPT ![c] = "write"]
  /\ UNCHANGED <<op, expired, outcome, readerVars, toServer, fromServer, serverVars>>

(* Deviation: the mutex protects the counter alone.                        *)
Lock_IdOnly(c) ==
  /\ pc[c] = "lock" /\ process # "panicked"
  /\ mu = NoCaller
  /\ nextID' = nextID + 1
  /\ id' = [id EXCEPT ![c] = nextID + 1]
  /\ pc' = [pc EXCEPT ![c] = "write"]
  /\ UNCHANGED <<op, expired, outcome, mu, readerVars, toServer, fromServer, serverVars>>

(* Taking the mutex pays no attention to the context.                      *)
Lock(c) ==
  /\ pc[c] = "lock" /\ process # "panicked"
  /\ mu = NoCaller
  /\ mu' = c
  /\ nextID' = nextID + 1
  /\ id' = [id EXCEPT ![c] = nextID + 1]
  /\ pc' = [pc EXCEPT ![c] = "write"]
  /\ UNCHANGED <<op, expired, outcome, readerVars, toServer, fromServer, serverVars>>

(* request returns and the deferred Unlock runs; after a good answer       *)
(* Initialize goes on to its notification.                                 *)
Return(c, kind, of) ==
  /\ outcome' = [outcome EXCEPT ![c] = Returned(kind, of)]
  /\ pc' = [pc EXCEPT ![c] = IF kind = "result" /\ op[c] = "initialize"
                              THEN "lockNotify" ELSE "idle"]
  /\ expired' = [expired EXCEPT ![c] = FALSE]
  /\ mu' = NoCaller

(* c enters readLine, which sends a goroutine into the reader.             *)
StartsReading == torn' = (torn \/ orphans > 0)

(* Deviation: the mutex is released when the request has been written.     *)
Write_Unlocks(c) ==
  /\ pc[c] = "write" /\ process = "up"
  /\ Len(toServer) < PipeCapacity
  /\ toServer' = Append(toServer, id[c])
  /\ pc' = [pc EXCEPT ![c] = "read"]
  /\ mu' = NoCaller
  /\ torn' = (torn \/ orphans > 0 \/ \E d \in Caller : pc[d] = "read")
  /\ UNCHANGED <<op, id, expired, outcome, nextID, orphans, timedOut, fromServer, serverVars>>

(* The write blocks while the pipe is full, whatever the context says.     *)
Write(c) ==
  /\ pc[c] = "write" /\ process = "up"
  /\ Len(toServer) < PipeCapacity
  /\ toServer' = Append(toServer, id[c])
  /\ pc' = [pc EXCEPT ![c] = "read"]
  /\ StartsReading
  /\ UNCHANGED <<op, id, expired, outcome, mu, nextID, orphans, timedOut, fromServer, serverVars>>

WriteFails(c) ==
  /\ pc[c] = "write" /\ process = "exited"
  /\ Return(c, "broken", NoId)
  /\ UNCHANGED <<op, id, nextID, readerVars, toServer, fromServer, serverVars>>

(* Deviation: any response will do.                                        *)
Matches_AnyId(line, i) == line.id # NoId

(* The line is JSON and its id is that of the request.  Nothing asks       *)
(* whether it is a response at all.                                        *)
Matches(line, i) == line.id = i

(* Deviation: an error answer is skipped like a line of another request.   *)
Handle_SkipsErrors(c, line) ==
  IF Matches(line, id[c]) /\ line.kind # "error"
  THEN Return(c, "result", line.of) /\ UNCHANGED torn
  ELSE StartsReading /\ UNCHANGED <<pc, expired, outcome, mu>>

(* What request does with a line: return it, or read on.                   *)
Handle(c, line) ==
  IF Matches(line, id[c])
  THEN /\ Return(c, IF line.kind = "error" THEN "error" ELSE "result", line.of)
       /\ UNCHANGED torn
  ELSE StartsReading /\ UNCHANGED <<pc, expired, outcome, mu>>

(* The goroutine of c completes a line and the select takes it, even when  *)
(* the context is done as well.                                            *)
ReadLine(c) ==
  /\ pc[c] = "read" /\ process # "panicked"
  /\ fromServer # <<>>
  /\ \E line \in {Head(fromServer)} \cup IF torn THEN TornLine ELSE {} : Handle(c, line)
  /\ fromServer' = Tail(fromServer)
  /\ UNCHANGED <<op, id, nextID, orphans, timedOut, toServer, serverVars>>

(* End of file, once the buffered lines are used up.                       *)
ReadFails(c) ==
  /\ pc[c] = "read" /\ process = "exited"
  /\ fromServer = <<>>
  /\ Return(c, "broken", NoId)
  /\ UNCHANGED <<op, id, nextID, readerVars, toServer, fromServer, serverVars>>

(* Deviation: an early return that misses the Unlock.                      *)
TimeOut_KeepsLock(c) ==
  /\ pc[c] = "read" /\ process # "panicked"
  /\ expired[c]
  /\ outcome' = [outcome EXCEPT ![c] = Returned("timeout", NoId)]
  /\ pc' = [pc EXCEPT ![c] = "idle"]
  /\ expired' = [expired EXCEPT ![c] = FALSE]
  /\ orphans' = orphans + 1
  /\ timedOut' = TRUE
  /\ UNCHANGED <<op, id, mu, nextID, torn, toServer, fromServer, serverVars>>

(* The select takes the context: the goroutine is left in the reader.  A   *)
(* goroutine that already has its line is one that takes it right away.    *)
TimeOut(c) ==
  /\ pc[c] = "read" /\ process # "panicked"
  /\ expired[c]
  /\ Return(c, "timeout", NoId)
  /\ orphans' = orphans + 1
  /\ timedOut' = TRUE
  /\ UNCHANGED <<op, id, nextID, torn, toServer, fromServer, serverVars>>

(* notify: the mutex again, and a message without an id.                   *)
LockNotify(c) ==
  /\ pc[c] = "lockNotify" /\ process # "panicked"
  /\ mu = NoCaller
  /\ mu' = c
  /\ pc' = [pc EXCEPT ![c] = "writeNotify"]
  /\ UNCHANGED <<op, id, expired, outcome, nextID, readerVars, toServer, fromServer, serverVars>>

WriteNotify(c) ==
  /\ pc[c] = "writeNotify"
  /\ \/ /\ process = "up"
        /\ Len(toServer) < PipeCapacity
        /\ toServer' = Append(toServer, NoId)
        /\ UNCHANGED outcome
     \/ /\ process = "exited"
        /\ outcome' = [outcome EXCEPT ![c] = Returned("broken", NoId)]
        /\ UNCHANGED toServer
  /\ pc' = [pc EXCEPT ![c] = "idle"]
  /\ mu' = NoCaller
  /\ UNCHANGED <<op, id, expired, nextID, readerVars, fromServer, serverVars>>

-----------------------------------------------------------------------------
(* A goroutine nobody waits for takes a line, or the end of file.          *)
OrphanTakes ==
  /\ orphans > 0 /\ process # "panicked"
  /\ fromServer # <<>> \/ process = "exited"
  /\ orphans' = orphans - 1
  /\ fromServer' = IF fromServer = <<>> THEN <<>> ELSE Tail(fromServer)
  /\ UNCHANGED <<callerVars, mu, nextID, torn, timedOut, toServer, serverVars>>

Readers == orphans + Cardinality({c \in Caller : pc[c] = "read"})

(* In a torn reader bytes are overwritten before anyone has read them ...  *)
BytesLost ==
  /\ torn /\ Readers > 0 /\ process # "panicked"
  /\ fromServer # <<>>
  /\ fromServer' = Tail(fromServer)
  /\ UNCHANGED <<callerVars, mu, nextID, readerVars, toServer, serverVars>>

(* ... and a slice index may leave the buffer, which ends the process.     *)
Panic ==
  /\ torn /\ Readers > 0 /\ process # "panicked"
  /\ process' = "panicked"
  /\ toServer' = <<>> /\ fromServer' = <<>> /\ working' = {}
  /\ UNCHANGED <<callerVars, mu, nextID, readerVars, noise>>

(* Close needs no mutex: stdin closed, the child killed and waited for,    *)
(* and with that the read end of stdout; what the reader holds remains.    *)
Close ==
  /\ process = "up"
  /\ process' = "exited"
  /\ \E n \in 0 .. Len(fromServer) : fromServer' = SubSeq(fromServer, 1, n)
  /\ toServer' = <<>> /\ working' = {}
  /\ UNCHANGED <<callerVars, mu, nextID, readerVars, noise>>

-----------------------------------------------------------------------------
(* The downstream server: it reads its requests and answers each at most   *)
(* once, in any order, with a result or an error; it may say other things, *)
(* ask something of its own, and exit.                                     *)
ServerReads ==
  /\ process = "up" /\ toServer # <<>>
  /\ toServer' = Tail(toServer)
  /\ working' = working \cup ({Head(toServer)} \ {NoId})
  /\ UNCHANGED <<callerVars, mu, nextID, readerVars, fromServer, noise, process>>

ServerAnswers(i, kind) ==
  /\ process = "up" /\ i \in working
  /\ working' = working \ {i}
  /\ fromServer' = Append(fromServer, Line(kind, i, i))
  /\ UNCHANGED <<callerVars, mu, nextID, readerVars, toServer, noise, process>>

ServerSays(line) ==
  /\ process = "up" /\ noise < MaxNoise
  /\ noise' = noise + 1
  /\ fromServer' = Append(fromServer, line)
  /\ UNCHANGED <<callerVars, mu, nextID, readerVars, toServer, working, process>>

ServerExits ==
  /\ process = "up"
  /\ process' = "exited"
  /\ toServer' = <<>> /\ working' = {}
  /\ UNCHANGED <<callerVars, mu, nextID, readerVars, fromServer, noise>>

-----------------------------------------------------------------------------
Init ==
  /\ pc = [c \in Caller |-> "idle"]
  /\ op = [c \in Caller |-> "call"]
  /\ id = [c \in Caller |-> NoId]
  /\ expired = [c \in Caller |-> FALSE]
  /\ outcome = [c \in Caller |-> Returned("none", NoId)]
  /\ mu = NoCaller /\ nextID = 0
  /\ orphans = 0 /\ torn = FALSE /\ timedOut = FALSE
  /\ toServer = <<>> /\ fromServer = <<>>
  /\ working = {} /\ noise = 0 /\ process = "up"

(* The steps of a caller that has begun a request.                         *)
Advance(c) ==
  \/ Write(c) \/ WriteFails(c)
  \/ ReadLine(c) \/ ReadFails(c) \/ TimeOut(c)
  \/ WriteNotify(c)

Server ==
  \/ ServerReads
  \/ \E i \in Id, kind \in {"result", "error"} : ServerAnswers(i, kind)
  \/ \E line \in Noise : ServerSays(line)
  \/ ServerExits

CallerStep(c) ==
  \/ \E operation \in {"call", "initialize"} : Call(c, operation)
  \/ Expire(c)
  \/ Lock(c) \/ LockNotify(c)
  \/ Advance(c)

(* What goes on around the callers.                                        *)
Around == OrphanTakes \/ BytesLost \/ Panic \/ Close \/ Server

Next == (\E c \in Caller : CallerStep(c)) \/ Around

(***************************************************************************)
(* Runnable goroutines run; a sync.Mutex does not starve its waiters; the  *)
(* contexts of all calls have deadlines; and the server reads its stdin.   *)
(* Without the last one a write that blocks never returns, deadline or no  *)
(* deadline.                                                               *)
(***************************************************************************)
Fairness ==
  /\ \A c \in Caller :
       WF_vars(Expire(c)) /\ WF_vars(Advance(c)) /\ SF_vars(Lock(c)) /\ SF_vars(LockNotify(c))
  /\ WF_vars(ServerReads)

Spec == Init /\ [][Next]_vars

FairSpec == Spec /\ Fairness

-----------------------------------------------------------------------------
PcType == {"idle", "lock", "write", "read", "lockNotify", "writeNotify"}
LineType == [kind : {"result", "error", "request", "other"}, id : Id \cup {NoId},
             of : Id \cup {NoId}]
OutcomeType == [kind : {"none", "result", "error", "timeout", "broken"}, of : Id \cup {NoId}]

(* Every variable stays in its type, and no request is ever made with the  *)
(* zero id that the encoding of jsonrpcRequest would leave out.            *)
TypeOK ==
  /\ pc \in [Caller -> PcType]
  /\ op \in [Caller -> {"call", "initialize"}]
  /\ id \in [Caller -> Id \cup {NoId}]
  /\ \A c \in Caller : pc[c] \in {"write", "read"} => id[c] \in Id
  /\ expired \in [Caller -> BOOLEAN]
  /\ outcome \in [Caller -> OutcomeType]
  /\ mu \in Caller \cup {NoCaller}
  /\ nextID \in 0 .. MaxCalls
  /\ orphans \in Nat /\ torn \in BOOLEAN /\ timedOut \in BOOLEAN
  /\ toServer \in Seq(Id \cup {NoId}) /\ Len(toServer) <= PipeCapacity
  /\ fromServer \in Seq(LineType)
  /\ working \subseteq Id /\ noise \in 0 .. MaxNoise
  /\ process \in {"up", "exited", "panicked"}

(* Late answers to calls that timed out, answers of a server that works on *)
(* several requests at once, and noise: as long as no two goroutines have  *)
(* been in the reader together, no caller is handed the answer to another  *)
(* request (stdio.go:170).                                                 *)
NoCrossDelivery ==
  ~torn => \A c \in Caller : outcome[c].kind \in {"result", "error"}
                                => outcome[c].of \in {id[c], NoId}

(* The reader is never shared before a caller has given up waiting: the    *)
(* mutex covers the whole exchange (stdio.go:153).                         *)
OverlapNeedsTimeout == torn \/ Readers > 1 => timedOut

(* Requests reach the server in the order of their ids.                    *)
WireInOrder ==
  \A j, k \in DOMAIN toServer :
    j < k /\ toServer[j] # NoId /\ toServer[k] # NoId => toServer[j] < toServer[k]

(* The request of a caller that still waits is on its way to the server,   *)
(* or with it, or its answer is on its way back.                           *)
InFlight(i) ==
  \/ i \in working
  \/ \E k \in DOMAIN toServer : toServer[k] = i
  \/ \E k \in DOMAIN fromServer : fromServer[k].of = i

(* While the server lives and the reader has never been shared, nothing    *)
(* but the caller itself takes its answer: a goroutine left behind by an   *)
(* earlier timeout ends with the next line and does no harm.               *)
AnswerNotLost ==
  process = "up" /\ ~torn => \A c \in Caller : pc[c] = "read" => InFlight(id[c])

(* CallTool "forwards a downstream tools/call request and returns its raw  *)
(* result" (stdio.go:131): a goroutine that nobody waits for never takes   *)
(* the answer of a caller that does wait, its context not being done.      *)
AnswerReachesCaller ==
  [][\A c \in Caller :
       orphans' < orphans /\ fromServer # <<>> /\ pc[c] = "read" /\ ~expired[c]
         => Head(fromServer).of # id[c]]_vars

(* The same sentence: the result returned is the result of the request,    *)
(* and not a message of the server that happens to carry the same id.      *)
ResultIsAnswer ==
  ~torn => \A c \in Caller : outcome[c].kind = "result" => outcome[c].of = id[c]

(* Every call returns, whatever the server does short of not reading.      *)
CallsReturn ==
  \A c \in Caller : pc[c] # "idle" ~> pc[c] = "idle" \/ process = "panicked"
=============================================================================
