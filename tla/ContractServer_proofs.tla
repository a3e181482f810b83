------------------------ MODULE ContractServer_proofs ------------------------
(***************************************************************************)
(* Proofs about ContractServer for any requests, registry and number of    *)
(* restarts.  What makes the invariants inductive is where a handler can   *)
(* be with which request (Route), that an answer is the end of one         *)
(* (Answered), that a contract is built once and stored before the answer  *)
(* (BuiltOnce, StoredFirst), and that the checks of a call still hold when *)
(* it is made (Cleared): contracts do not change under a handler.          *)
(***************************************************************************)
EXTENDS ContractServer, TLAPS

-----------------------------------------------------------------------------
AdmittedContext == {"build", "put", "putting", "reply"}
AdmittedExec == {"get", "check", "inject", "forward", "upstream"}

(* A handler is only where requests of its kind go.                        *)
Route ==
  \A r \in Request :
    /\ stage[r] \in AdmittedContext => input[r].kind = "context"
    /\ stage[r] \in AdmittedExec =>
         /\ input[r].kind = "exec"
         /\ flags.auth => input[r].authorized

(* Only a handler that is done has answered; a request of an earlier       *)
(* process has none any more.                                              *)
Answered ==
  \A r \in Request :
    /\ status[r] # NoAnswer => stage[r] = "done"
    /\ r \in stale => stage[r] = "done"

(* No contract is there before it is built.                                *)
BuiltOnce ==
  \A r \in Request : stage[r] \in {"unused", "admit", "build"} => built[r] = {}

(* A contract about to be given is in the store.                           *)
StoredFirst == \A r \in Request : stage[r] = "reply" /\ ~raced => r \in store

Allowed(m, t) ==
  LET tools == built[m]
  IN  /\ m \in Request
      /\ t \in tools
      /\ Registry[t].host \in Egress(Registry, tools)
      /\ t \in RequireApproval(Registry, tools) => flags.autoApprove

(* What has been checked stays true until the call is made and after.      *)
Cleared ==
  /\ \A r \in Request :
       /\ stage[r] = "check" => input[r].contract \in Request
       /\ stage[r] \in {"inject", "forward", "upstream"} =>
            Allowed(input[r].contract, input[r].tool)
  /\ \A c \in calls :
       /\ Allowed(c[2], c[3])
       /\ flags.auth => input[c[1]].authorized
       /\ stage[c[1]] \in {"upstream", "done"}

(* A handler waits for an upstream it has called.                          *)
WaitsForCall == \A r \in Request : stage[r] = "upstream" => Called(r)

IInv ==
  /\ TypeOK
  /\ Route
  /\ Answered
  /\ BuiltOnce
  /\ StoredFirst
  /\ GivenIsStored
  /\ Cleared
  /\ WaitsForCall
  /\ AnswerMatchesEffect

-----------------------------------------------------------------------------
Codes == {Relayed, 200, 202, 400, 401, 403, 404, 422, 502}

(* What steps of one handler have in common.                               *)
Elsewhere ==
  /\ UNCHANGED <<surroundings, store, input, stale>>
  /\ raced => raced'
  /\ raced' \in BOOLEAN

(* A handler ends with an answer that tells what it did.                   *)
LEMMA RespondKeeps ==
  ASSUME IInv, NEW r \in Request, NEW code \in Codes,
         stage[r] \notin {"unused", "done"},
         Respond(r, code), Elsewhere, UNCHANGED <<built, calls>>,
         code \in 400 .. 499 => stage[r] # "upstream",
         code = Relayed => stage[r] = "upstream",
         code = 200 => stage[r] = "reply"
  PROVE  IInv'
<1>1. /\ stage \in [Request -> Stages] /\ r \notin stale /\ status[r] = NoAnswer
      /\ status \in [Request -> {NoAnswer} \cup Codes]
  BY DEF IInv, TypeOK, Answered, Codes
<1>2. /\ stage'[r] = "done" /\ status'[r] = code
      /\ \A q \in Request \ {r} : stage'[q] = stage[q] /\ status'[q] = status[q]
      /\ stage' \in [Request -> Stages]
      /\ status' \in [Request -> {NoAnswer} \cup Codes]
  BY <1>1 DEF Respond, Stages
<1>3. /\ proc' = proc /\ cancelled' = cancelled /\ flags' = flags
      /\ restarts' = restarts /\ store' = store /\ built' = built
      /\ input' = input /\ calls' = calls /\ stale' = stale /\ pending' = pending
      /\ raced => raced'
      /\ raced' \in BOOLEAN
  BY DEF Elsewhere, surroundings, processVars
<1>4. TypeOK'
  <2>1. status' \in [Request -> {NoAnswer, Relayed, 200, 202, 400, 401, 403, 404,
                                 422, 502}]
    BY <1>2 DEF Codes
  <2>2. proc' \in {"starting", "serving", "draining"} \cup Ended /\ cancelled' \in BOOLEAN
    BY <1>3 DEF IInv, TypeOK
  <2>3. flags' \in [auth : BOOLEAN, autoApprove : BOOLEAN]
    BY <1>3 DEF IInv, TypeOK
  <2>4. /\ store' \subseteq Request /\ stale' \subseteq Request
        /\ pending' \subseteq Request /\ restarts' \in 0 .. MaxRestarts
    BY <1>3 DEF IInv, TypeOK
  <2>5. built' \in [Request -> SUBSET DOMAIN Registry]
    BY <1>3 DEF IInv, TypeOK
  <2>6. input' \in [Request -> {NoInput} \cup Inputs(Request \cup {Unknown})]
    BY <1>3 DEF IInv, TypeOK
  <2>7. calls' \subseteq Request \X Request \X Tool
    BY <1>3 DEF IInv, TypeOK
  <2> QED
    BY <1>2, <1>3, <2>1, <2>2, <2>3, <2>4, <2>5, <2>6, <2>7 DEF TypeOK
<1>5. Route'
  BY <1>2, <1>3 DEF IInv, Route, AdmittedContext, AdmittedExec
<1>6. Answered'
  BY <1>2, <1>3 DEF IInv, Answered
<1>7. BuiltOnce'
  BY <1>2, <1>3 DEF IInv, BuiltOnce
<1>8. StoredFirst'
  BY <1>2, <1>3 DEF IInv, StoredFirst
<1>9. GivenIsStored'
  <2> SUFFICES ASSUME ~raced', NEW q \in Request, input[q].kind = "context",
                      status'[q] = 200, q \notin stale
               PROVE  q \in store
    BY <1>3 DEF GivenIsStored, Given
  <2>1. ~raced
    BY <1>3
  <2>2. CASE q = r
    BY <1>2, <2>1, <2>2 DEF IInv, StoredFirst
  <2>3. CASE q # r
    BY <1>2, <2>1, <2>3 DEF IInv, GivenIsStored, Given
  <2> QED
    BY <2>2, <2>3
<1>10. Cleared'
  <2>1. \A m, t : Allowed(m, t)' <=> Allowed(m, t)
    BY <1>3 DEF Allowed
  <2>2. \A q \in Request :
          /\ stage'[q] = "check" => input[q].contract \in Request
          /\ stage'[q] \in {"inject", "forward", "upstream"} =>
               Allowed(input[q].contract, input[q].tool)
    BY <1>2 DEF IInv, Cleared
  <2>3. \A c \in calls : c[1] \in Request
    BY DEF IInv, TypeOK
  <2>4. \A c \in calls : stage'[c[1]] \in {"upstream", "done"}
    BY <1>2, <2>3 DEF IInv, Cleared
  <2>5. \A c \in calls : Allowed(c[2], c[3]) /\ (flags.auth => input[c[1]].authorized)
    BY DEF IInv, Cleared
  <2> QED
    BY <1>3, <2>1, <2>2, <2>4, <2>5 DEF Cleared
<1>11. \A q : Called(q)' <=> Called(q)
  BY <1>3 DEF Called
<1>12. WaitsForCall'
  BY <1>2, <1>11 DEF IInv, WaitsForCall
<1>13. Called(r) => stage[r] = "upstream"
  BY DEF IInv, Cleared, Called
<1>14. AnswerMatchesEffect'
  <2> SUFFICES ASSUME NEW q \in Request
               PROVE  /\ status'[q] \in 400 .. 499 => ~Called(q)
                      /\ status'[q] = Relayed => Called(q)
    BY <1>11 DEF AnswerMatchesEffect
  <2>1. CASE q = r
    BY <1>2, <1>13, <2>1 DEF IInv, WaitsForCall
  <2>2. CASE q # r
    BY <1>2, <2>2 DEF IInv, AnswerMatchesEffect
  <2> QED
    BY <2>1, <2>2
<1> QED
  BY <1>4, <1>5, <1>6, <1>7, <1>8, <1>9, <1>10, <1>12, <1>14 DEF IInv

(* A handler goes on, as far as its request may.                           *)
LEMMA GoToKeeps ==
  ASSUME IInv, NEW r \in Request,
         NEW there \in Stages \ {"unused", "done", "reply", "upstream"},
         stage[r] \notin {"unused", "done", "upstream"},
         GoTo(r, there), Elsewhere, UNCHANGED <<built, calls>>,
         there \in AdmittedContext => input[r].kind = "context",
         there \in AdmittedExec =>
           input[r].kind = "exec" /\ (flags.auth => input[r].authorized),
         there \in {"build", "admit"} => stage[r] = "admit",
         there = "check" => input[r].contract \in Request,
         there \in {"inject", "forward"} => Allowed(input[r].contract, input[r].tool)
  PROVE  IInv'
<1>1. stage \in [Request -> Stages] /\ r \notin stale /\ status[r] = NoAnswer
  BY DEF IInv, TypeOK, Answered
<1>2. /\ stage'[r] = there
      /\ \A q \in Request \ {r} : stage'[q] = stage[q]
      /\ stage' \in [Request -> Stages]
      /\ status' = status
  BY <1>1 DEF GoTo
<1>3. /\ proc' = proc /\ cancelled' = cancelled /\ flags' = flags
      /\ restarts' = restarts /\ store' = store /\ built' = built
      /\ input' = input /\ calls' = calls /\ stale' = stale /\ pending' = pending
      /\ raced => raced'
      /\ raced' \in BOOLEAN
  BY DEF Elsewhere, surroundings, processVars
<1>4. TypeOK'
  <2>1. status' \in [Request -> {NoAnswer, Relayed, 200, 202, 400, 401, 403, 404,
                                 422, 502}]
    BY <1>2 DEF IInv, TypeOK
  <2>2. proc' \in {"starting", "serving", "draining"} \cup Ended /\ cancelled' \in BOOLEAN
    BY <1>3 DEF IInv, TypeOK
  <2>3. flags' \in [auth : BOOLEAN, autoApprove : BOOLEAN]
    BY <1>3 DEF IInv, TypeOK
  <2>4. /\ store' \subseteq Request /\ stale' \subseteq Request
        /\ pending' \subseteq Request /\ restarts' \in 0 .. MaxRestarts
    BY <1>3 DEF IInv, TypeOK
  <2>5. built' \in [Request -> SUBSET DOMAIN Registry]
    BY <1>3 DEF IInv, TypeOK
  <2>6. input' \in [Request -> {NoInput} \cup Inputs(Request \cup {Unknown})]
    BY <1>3 DEF IInv, TypeOK
  <2>7. calls' \subseteq Request \X Request \X Tool
    BY <1>3 DEF IInv, TypeOK
  <2> QED
    BY <1>2, <1>3, <2>1, <2>2, <2>3, <2>4, <2>5, <2>6, <2>7 DEF TypeOK
<1>5. Route'
  BY <1>2, <1>3 DEF IInv, Route
<1>6. Answered'
  BY <1>1, <1>2, <1>3 DEF IInv, Answered
<1>7. BuiltOnce'
  BY <1>2, <1>3 DEF IInv, BuiltOnce
<1>8. StoredFirst'
  BY <1>2, <1>3 DEF IInv, StoredFirst
<1>9. GivenIsStored'
  BY <1>2, <1>3 DEF IInv, GivenIsStored, Given
<1>10. Cleared'
  <2>1. \A m, t : Allowed(m, t)' <=> Allowed(m, t)
    BY <1>3 DEF Allowed
  <2>2. \A q \in Request :
          /\ stage'[q] = "check" => input[q].contract \in Request
          /\ stage'[q] \in {"inject", "forward", "upstream"} =>
               Allowed(input[q].contract, input[q].tool)
    BY <1>2 DEF IInv, Cleared
  <2>3. \A c \in calls : c[1] # r
    BY DEF IInv, Cleared
  <2>4. \A c \in calls : c[1] \in Request
    BY DEF IInv, TypeOK
  <2>5. \A c \in calls : stage'[c[1]] \in {"upstream", "done"}
    BY <1>2, <2>3, <2>4 DEF IInv, Cleared
  <2>6. \A c \in calls : Allowed(c[2], c[3]) /\ (flags.auth => input[c[1]].authorized)
    BY DEF IInv, Cleared
  <2> QED
    BY <1>3, <2>1, <2>2, <2>5, <2>6 DEF Cleared
<1>11. WaitsForCall' /\ AnswerMatchesEffect'
  BY <1>2, <1>3 DEF IInv, WaitsForCall, AnswerMatchesEffect, Called
<1> QED
  BY <1>4, <1>5, <1>6, <1>7, <1>8, <1>9, <1>10, <1>11 DEF IInv

(* Whatever happens to the process alone.                                  *)
LEMMA ProcessKeeps ==
  ASSUME IInv, TypeOK',
         UNCHANGED <<flags, store, built, input, stage, status, calls, stale>>,
         raced => raced'
  PROVE  IInv'
<1>1. /\ Route' /\ Answered' /\ BuiltOnce' /\ StoredFirst'
  BY DEF IInv, Route, Answered, BuiltOnce, StoredFirst
<1>2. GivenIsStored'
  BY DEF IInv, GivenIsStored, Given
<1>3. Cleared'
  <2>1. \A m, t : Allowed(m, t)' <=> Allowed(m, t)
    BY DEF Allowed
  <2> QED
    BY <2>1 DEF IInv, Cleared
<1>4. WaitsForCall' /\ AnswerMatchesEffect'
  BY DEF IInv, WaitsForCall, AnswerMatchesEffect, Called
<1> QED
  BY <1>1, <1>2, <1>3, <1>4 DEF IInv

(* A new request takes nothing with it: it has no answer and no call yet.  *)
LEMMA SendKeeps ==
  ASSUME IInv, NEW r \in Request, Send(r)
  PROVE  IInv'
<1>1. PICK ask \in Inputs(Given \cup {Unknown}) : input' = [input EXCEPT ![r] = ask]
  BY DEF Send
<1>2. /\ stage \in [Request -> Stages] /\ r \notin stale /\ status[r] = NoAnswer
      /\ stage[r] = "unused"
  BY DEF IInv, TypeOK, Answered, Send
<1>3. /\ stage'[r] = "admit"
      /\ \A q \in Request \ {r} : stage'[q] = stage[q]
      /\ stage' \in [Request -> Stages]
  BY <1>2 DEF Send, GoTo, Stages
<1>4. /\ proc' = proc /\ cancelled' = cancelled /\ flags' = flags
      /\ restarts' = restarts /\ store' = store /\ raced' = raced
      /\ built' = built /\ status' = status /\ calls' = calls /\ stale' = stale
      /\ pending' \in {pending, pending \cup {r}}
  BY DEF Send, GoTo, processVars, storeVars
<1>5. \A q \in Request \ {r} : input'[q] = input[q]
  BY <1>1 DEF IInv, TypeOK
<1>6. TypeOK'
  <2>1. Inputs(Given \cup {Unknown}) \subseteq Inputs(Request \cup {Unknown})
    BY DEF Inputs, Given
  <2>2. input \in [Request -> {NoInput} \cup Inputs(Request \cup {Unknown})]
    BY DEF IInv, TypeOK
  <2>3. input' \in [Request -> {NoInput} \cup Inputs(Request \cup {Unknown})]
    BY <1>1, <2>1, <2>2
  <2>4. flags' \in [auth : BOOLEAN, autoApprove : BOOLEAN]
    BY <1>4 DEF IInv, TypeOK
  <2>5. calls' \subseteq Request \X Request \X Tool
    BY <1>4 DEF IInv, TypeOK
  <2>6. /\ proc' \in {"starting", "serving", "draining"} \cup Ended
        /\ cancelled' \in BOOLEAN
        /\ raced' \in BOOLEAN
        /\ store' \subseteq Request
        /\ stale' \subseteq Request /\ pending' \subseteq Request
        /\ restarts' \in 0 .. MaxRestarts
    BY <1>4 DEF IInv, TypeOK
  <2>7. built' \in [Request -> SUBSET DOMAIN Registry]
    BY <1>4 DEF IInv, TypeOK
  <2>8. status' \in [Request -> {NoAnswer, Relayed, 200, 202, 400, 401, 403, 404,
                                 422, 502}]
    BY <1>4 DEF IInv, TypeOK
  <2> QED
    BY <1>3, <2>3, <2>4, <2>5, <2>6, <2>7, <2>8 DEF TypeOK
<1>7. Route' /\ Answered' /\ BuiltOnce' /\ StoredFirst'
  BY <1>2, <1>3, <1>4, <1>5
     DEF IInv, Route, Answered, BuiltOnce, StoredFirst, AdmittedContext, AdmittedExec
<1>8. GivenIsStored'
  BY <1>2, <1>4, <1>5 DEF IInv, GivenIsStored, Given, NoAnswer
<1>9. Cleared'
  <2>1. \A m, t : Allowed(m, t)' <=> Allowed(m, t)
    BY <1>4 DEF Allowed
  <2>2. \A q \in Request :
          /\ stage'[q] = "check" => input'[q].contract \in Request
          /\ stage'[q] \in {"inject", "forward", "upstream"} =>
               Allowed(input'[q].contract, input'[q].tool)
    BY <1>3, <1>5 DEF IInv, Cleared
  <2>3. /\ \A c \in calls : c[1] # r
        /\ \A c \in calls : c[1] \in Request
    <3>1. \A c \in calls : c[1] # r
      BY <1>2 DEF IInv, Cleared
    <3>2. \A c \in calls : c[1] \in Request
      BY DEF IInv, TypeOK
    <3> QED
      BY <3>1, <3>2
  <2>4. \A c \in calls : /\ Allowed(c[2], c[3])
                         /\ flags.auth => input[c[1]].authorized
                         /\ stage[c[1]] \in {"upstream", "done"}
    BY DEF IInv, Cleared
  <2> QED
    BY <1>3, <1>4, <1>5, <2>1, <2>2, <2>3, <2>4 DEF Cleared
<1>10. WaitsForCall' /\ AnswerMatchesEffect'
  BY <1>3, <1>4 DEF IInv, WaitsForCall, AnswerMatchesEffect, Called
<1> QED
  BY <1>6, <1>7, <1>8, <1>9, <1>10 DEF IInv

(* A contract is built where there was none, so nothing depends on it yet. *)
LEMMA BuildKeeps ==
  ASSUME IInv, NEW r \in Request, Build(r)
  PROVE  IInv'
<1> DEFINE tools == Lookup(Registry, input[r].asked)
<1>1. stage[r] = "build" /\ built[r] = {}
  BY DEF Build, At, IInv, BuiltOnce
<1>2. CASE tools = {} /\ Respond(r, 422) /\ UNCHANGED built
  <2>1. Elsewhere /\ UNCHANGED <<built, calls>>
    BY <1>2 DEF Build, Elsewhere, storeVars, IInv, TypeOK
  <2> QED
    BY <1>1, <1>2, <2>1, RespondKeeps DEF Codes, Relayed
<1>3. CASE built' = [built EXCEPT ![r] = tools] /\ GoTo(r, "put")
  <2>1. /\ proc' = proc /\ cancelled' = cancelled /\ flags' = flags
        /\ restarts' = restarts /\ store' = store /\ raced' = raced
        /\ input' = input /\ status' = status /\ calls' = calls
      /\ stale' = stale /\ pending' = pending
    BY <1>3 DEF Build, GoTo, surroundings, processVars, storeVars
  <2>2. /\ stage \in [Request -> Stages] /\ r \notin stale /\ status[r] = NoAnswer
        /\ input[r].kind = "context"
    BY <1>1 DEF IInv, TypeOK, Answered, Route, AdmittedContext
  <2>3. /\ stage'[r] = "put"
        /\ \A q \in Request \ {r} : stage'[q] = stage[q]
        /\ stage' \in [Request -> Stages]
    BY <1>3, <2>2 DEF GoTo, Stages
  <2>4. \A q \in Request \ {r} : built'[q] = built[q]
    BY <1>3 DEF IInv, TypeOK
  <2>5. TypeOK'
    <3>1. built \in [Request -> SUBSET DOMAIN Registry]
      BY DEF IInv, TypeOK
    <3>2. tools \subseteq DOMAIN Registry
      BY DEF Lookup
    <3>3. built' \in [Request -> SUBSET DOMAIN Registry]
      BY <1>3, <3>1, <3>2
    <3>4. flags' \in [auth : BOOLEAN, autoApprove : BOOLEAN]
      BY <2>1 DEF IInv, TypeOK
    <3>5. input' \in [Request -> {NoInput} \cup Inputs(Request \cup {Unknown})]
      BY <2>1 DEF IInv, TypeOK
    <3>6. calls' \subseteq Request \X Request \X Tool
      BY <2>1 DEF IInv, TypeOK
    <3>7. /\ proc' \in {"starting", "serving", "draining"} \cup Ended
          /\ cancelled' \in BOOLEAN
          /\ raced' \in BOOLEAN
          /\ store' \subseteq Request
          /\ stale' \subseteq Request /\ pending' \subseteq Request
          /\ restarts' \in 0 .. MaxRestarts
      BY <2>1 DEF IInv, TypeOK
    <3>8. status' \in [Request -> {NoAnswer, Relayed, 200, 202, 400, 401, 403, 404,
                                   422, 502}]
      BY <2>1 DEF IInv, TypeOK
    <3> QED
      BY <2>3, <3>3, <3>4, <3>5, <3>6, <3>7, <3>8 DEF TypeOK
  <2>6. Route' /\ Answered' /\ BuiltOnce' /\ StoredFirst'
    BY <2>1, <2>2, <2>3, <2>4
       DEF IInv, Route, Answered, BuiltOnce, StoredFirst, AdmittedContext, AdmittedExec
  <2>7. GivenIsStored'
    BY <2>1 DEF IInv, GivenIsStored, Given
  <2>8. Cleared'
    <3>1. \A m, t : Allowed(m, t) => Allowed(m, t)'
      <4> SUFFICES ASSUME NEW m, NEW t, Allowed(m, t)
                   PROVE  Allowed(m, t)'
        OBVIOUS
      <4>1. m \in Request /\ built'[m] = built[m]
        BY <1>1, <2>4 DEF Allowed
      <4> QED
        BY <2>1, <4>1 DEF Allowed
    <3>2. \A q \in Request :
            /\ stage'[q] = "check" => input[q].contract \in Request
            /\ stage'[q] \in {"inject", "forward", "upstream"} =>
                 Allowed(input[q].contract, input[q].tool)
      BY <2>3 DEF IInv, Cleared
    <3>3. \A c \in calls : c[1] # r
      BY <1>1 DEF IInv, Cleared
    <3>4. \A c \in calls : c[1] \in Request
      BY DEF IInv, TypeOK
    <3>5. \A c \in calls : stage'[c[1]] \in {"upstream", "done"}
      BY <2>3, <3>3, <3>4 DEF IInv, Cleared
    <3>6. \A c \in calls : Allowed(c[2], c[3]) /\ (flags.auth => input[c[1]].authorized)
      BY DEF IInv, Cleared
    <3> QED
      BY <2>1, <3>1, <3>2, <3>5, <3>6 DEF Cleared
  <2>9. WaitsForCall' /\ AnswerMatchesEffect'
    BY <2>1, <2>3 DEF IInv, WaitsForCall, AnswerMatchesEffect, Called
  <2> QED
    BY <2>5, <2>6, <2>7, <2>8, <2>9 DEF IInv
<1> QED
  BY <1>2, <1>3 DEF Build

(* What is stored is never taken away, unless accesses have overlapped.    *)
LEMMA PutEndsKeeps ==
  ASSUME IInv, NEW r \in Request, PutEnds(r)
  PROVE  IInv'
<1>1. /\ proc' = proc /\ cancelled' = cancelled /\ flags' = flags
      /\ restarts' = restarts /\ raced' = raced /\ built' = built
      /\ input' = input /\ status' = status /\ calls' = calls
      /\ stale' = stale /\ pending' = pending
  BY DEF PutEnds, GoTo, surroundings, processVars
<1>2. /\ stage \in [Request -> Stages] /\ r \notin stale /\ status[r] = NoAnswer
      /\ stage[r] = "putting" /\ input[r].kind = "context"
  BY DEF IInv, TypeOK, Answered, Route, AdmittedContext, PutEnds, At
<1>3. /\ stage'[r] = "reply"
      /\ \A q \in Request \ {r} : stage'[q] = stage[q]
      /\ stage' \in [Request -> Stages]
  BY <1>2 DEF PutEnds, GoTo, Stages
<1>4. /\ store' \subseteq Request
      /\ ~raced => store \subseteq store' /\ r \in store'
  BY DEF PutEnds, IInv, TypeOK
<1>5. TypeOK'
  <2>1. built' \in [Request -> SUBSET DOMAIN Registry]
    BY <1>1 DEF IInv, TypeOK
  <2>2. flags' \in [auth : BOOLEAN, autoApprove : BOOLEAN]
    BY <1>1 DEF IInv, TypeOK
  <2>3. input' \in [Request -> {NoInput} \cup Inputs(Request \cup {Unknown})]
    BY <1>1 DEF IInv, TypeOK
  <2>4. calls' \subseteq Request \X Request \X Tool
    BY <1>1 DEF IInv, TypeOK
  <2>5. /\ proc' \in {"starting", "serving", "draining"} \cup Ended
        /\ cancelled' \in BOOLEAN
        /\ raced' \in BOOLEAN
        /\ stale' \subseteq Request /\ pending' \subseteq Request
        /\ restarts' \in 0 .. MaxRestarts
    BY <1>1 DEF IInv, TypeOK
  <2>6. status' \in [Request -> {NoAnswer, Relayed, 200, 202, 400, 401, 403, 404,
                                 422, 502}]
    BY <1>1 DEF IInv, TypeOK
  <2> QED
    BY <1>3, <1>4, <2>1, <2>2, <2>3, <2>4, <2>5, <2>6 DEF TypeOK
<1>6. Route' /\ Answered' /\ BuiltOnce' /\ StoredFirst'
  BY <1>1, <1>2, <1>3, <1>4
     DEF IInv, Route, Answered, BuiltOnce, StoredFirst, AdmittedContext, AdmittedExec
<1>7. GivenIsStored'
  BY <1>1, <1>4 DEF IInv, GivenIsStored, Given
<1>8. Cleared'
  <2>1. \A m, t : Allowed(m, t)' <=> Allowed(m, t)
    BY <1>1 DEF Allowed
  <2>2. \A q \in Request :
          /\ stage'[q] = "check" => input[q].contract \in Request
          /\ stage'[q] \in {"inject", "forward", "upstream"} =>
               Allowed(input[q].contract, input[q].tool)
    BY <1>3 DEF IInv, Cleared
  <2>3. \A c \in calls : c[1] # r
    BY <1>2 DEF IInv, Cleared
  <2>4. \A c \in calls : c[1] \in Request
    BY DEF IInv, TypeOK
  <2>5. \A c \in calls : stage'[c[1]] \in {"upstream", "done"}
    BY <1>3, <2>3, <2>4 DEF IInv, Cleared
  <2>6. \A c \in calls : Allowed(c[2], c[3]) /\ (flags.auth => input[c[1]].authorized)
    BY DEF IInv, Cleared
  <2> QED
    BY <1>1, <2>1, <2>2, <2>5, <2>6 DEF Cleared
<1>9. WaitsForCall' /\ AnswerMatchesEffect'
  BY <1>1, <1>3 DEF IInv, WaitsForCall, AnswerMatchesEffect, Called
<1> QED
  BY <1>5, <1>6, <1>7, <1>8, <1>9 DEF IInv

(* The call is made under what has just been checked.                      *)
LEMMA ForwardKeeps ==
  ASSUME IInv, NEW r \in Request, Forward(r)
  PROVE  IInv'
<1> DEFINE call == <<r, input[r].contract, input[r].tool>>
<1>1. /\ proc' = proc /\ cancelled' = cancelled /\ flags' = flags
      /\ restarts' = restarts /\ store' = store /\ raced' = raced
      /\ built' = built /\ input' = input /\ status' = status /\ stale' = stale /\ pending' = pending
      /\ calls' = calls \cup {call}
  BY DEF Forward, GoTo, surroundings, processVars, storeVars
<1>2. /\ stage \in [Request -> Stages] /\ r \notin stale /\ status[r] = NoAnswer
      /\ stage[r] = "forward" /\ input[r].kind = "exec"
      /\ flags.auth => input[r].authorized
  BY DEF IInv, TypeOK, Answered, Route, AdmittedExec, Forward, At
<1>3. /\ stage'[r] = "upstream"
      /\ \A q \in Request \ {r} : stage'[q] = stage[q]
      /\ stage' \in [Request -> Stages]
  BY <1>2 DEF Forward, GoTo, Stages
<1>4. Allowed(input[r].contract, input[r].tool)
  BY <1>2 DEF IInv, Cleared
<1>5. input[r].contract \in Request /\ input[r].tool \in Tool
  <2>1. input[r].tool \in built[input[r].contract] /\ input[r].contract \in Request
    BY <1>4 DEF Allowed
  <2>2. built[input[r].contract] \subseteq DOMAIN Registry
    BY <2>1 DEF IInv, TypeOK
  <2> QED
    BY <2>1, <2>2, RegistryAssumption
<1>6. TypeOK'
  <2>1. built' \in [Request -> SUBSET DOMAIN Registry]
    BY <1>1 DEF IInv, TypeOK
  <2>2. flags' \in [auth : BOOLEAN, autoApprove : BOOLEAN]
    BY <1>1 DEF IInv, TypeOK
  <2>3. input' \in [Request -> {NoInput} \cup Inputs(Request \cup {Unknown})]
    BY <1>1 DEF IInv, TypeOK
  <2>4. calls' \subseteq Request \X Request \X Tool
    BY <1>1, <1>5 DEF IInv, TypeOK
  <2>5. /\ proc' \in {"starting", "serving", "draining"} \cup Ended
        /\ cancelled' \in BOOLEAN
        /\ raced' \in BOOLEAN
        /\ store' \subseteq Request
        /\ stale' \subseteq Request /\ pending' \subseteq Request
        /\ restarts' \in 0 .. MaxRestarts
    BY <1>1 DEF IInv, TypeOK
  <2>6. status' \in [Request -> {NoAnswer, Relayed, 200, 202, 400, 401, 403, 404,
                                 422, 502}]
    BY <1>1 DEF IInv, TypeOK
  <2> QED
    BY <1>3, <2>1, <2>2, <2>3, <2>4, <2>5, <2>6 DEF TypeOK
<1>7. Route' /\ Answered' /\ BuiltOnce' /\ StoredFirst'
  BY <1>1, <1>2, <1>3
     DEF IInv, Route, Answered, BuiltOnce, StoredFirst, AdmittedContext, AdmittedExec
<1>8. GivenIsStored'
  BY <1>1 DEF IInv, GivenIsStored, Given
<1>9. Cleared'
  <2>1. \A m, t : Allowed(m, t)' <=> Allowed(m, t)
    BY <1>1 DEF Allowed
  <2>2. \A q \in Request :
          /\ stage'[q] = "check" => input[q].contract \in Request
          /\ stage'[q] \in {"inject", "forward", "upstream"} =>
               Allowed(input[q].contract, input[q].tool)
    BY <1>3, <1>4 DEF IInv, Cleared
  <2>3. ASSUME NEW c \in calls'
        PROVE  /\ Allowed(c[2], c[3])
               /\ flags.auth => input[c[1]].authorized
               /\ stage'[c[1]] \in {"upstream", "done"}
    <3>1. CASE c = call
      BY <1>2, <1>3, <1>4, <3>1
    <3>2. CASE c \in calls
      <4>1. c[1] \in Request
        BY <3>2 DEF IInv, TypeOK
      <4> QED
        BY <1>3, <3>2, <4>1 DEF IInv, Cleared
    <3> QED
      BY <1>1, <3>1, <3>2
  <2> QED
    BY <1>1, <2>1, <2>2, <2>3 DEF Cleared
<1>10. WaitsForCall' /\ AnswerMatchesEffect'
  <2>1. \A q \in Request : Called(q) => Called(q)'
    BY <1>1 DEF Called
  <2>2. Called(r)'
    <3>1. call \in calls' /\ call[1] = r
      BY <1>1
    <3> QED
      BY <3>1 DEF Called
  <2>3. \A q \in Request \ {r} : Called(q)' => Called(q)
    BY <1>1 DEF Called
  <2>4. WaitsForCall'
    BY <1>3, <2>1, <2>2 DEF IInv, WaitsForCall
  <2>5. AnswerMatchesEffect'
    BY <1>1, <1>2, <2>1, <2>3 DEF IInv, AnswerMatchesEffect, NoAnswer, Relayed
  <2> QED
    BY <2>4, <2>5
<1> QED
  BY <1>6, <1>7, <1>8, <1>9, <1>10 DEF IInv

(* A new process knows nothing and answers nothing of the old one.         *)
LEMMA RestartKeeps ==
  ASSUME IInv, Restart
  PROVE  IInv'
<1>1. /\ proc' = "starting" /\ cancelled' = FALSE /\ flags' = flags
      /\ store' = {} /\ raced' = FALSE
      /\ built' = built /\ input' = input /\ status' = status /\ calls' = calls
      /\ stale' = {r \in Request : stage[r] # "unused"} /\ pending' = {}
  BY DEF Restart
<1>2. \A r \in Request :
        /\ stage'[r] \in {"unused", "done"}
        /\ stage[r] = "unused" <=> stage'[r] = "unused"
  BY DEF Restart
<1>3. TypeOK'
  <2>1. built' \in [Request -> SUBSET DOMAIN Registry]
    BY <1>1 DEF IInv, TypeOK
  <2>2. flags' \in [auth : BOOLEAN, autoApprove : BOOLEAN]
    BY <1>1 DEF IInv, TypeOK
  <2>3. input' \in [Request -> {NoInput} \cup Inputs(Request \cup {Unknown})]
    BY <1>1 DEF IInv, TypeOK
  <2>4. calls' \subseteq Request \X Request \X Tool
    BY <1>1 DEF IInv, TypeOK
  <2>5. restarts' \in 0 .. MaxRestarts
    BY RestartBound DEF Restart, IInv, TypeOK
  <2>6. status' \in [Request -> {NoAnswer, Relayed, 200, 202, 400, 401, 403, 404,
                                 422, 502}]
    BY <1>1 DEF IInv, TypeOK
  <2>7. stage' \in [Request -> Stages]
    BY DEF Restart, Stages
  <2> QED
    BY <1>1, <2>1, <2>2, <2>3, <2>4, <2>5, <2>6, <2>7 DEF TypeOK
<1>4. Route' /\ Answered' /\ BuiltOnce' /\ StoredFirst'
  BY <1>1, <1>2
     DEF IInv, Route, Answered, BuiltOnce, StoredFirst, AdmittedContext, AdmittedExec
<1>5. GivenIsStored'
  <2>1. \A r \in Request : status[r] = 200 => r \in stale'
    BY <1>1 DEF IInv, Answered, NoAnswer
  <2> QED
    BY <1>1, <2>1 DEF GivenIsStored, Given
<1>6. Cleared'
  <2>1. \A m, t : Allowed(m, t)' <=> Allowed(m, t)
    BY <1>1 DEF Allowed
  <2>2. \A c \in calls : c[1] \in Request
    BY DEF IInv, TypeOK
  <2>3. \A c \in calls : /\ Allowed(c[2], c[3])
                         /\ flags.auth => input[c[1]].authorized
                         /\ stage[c[1]] \in {"upstream", "done"}
    BY DEF IInv, Cleared
  <2>4. \A c \in calls : stage'[c[1]] \in {"upstream", "done"}
    BY <1>2, <2>2, <2>3
  <2> QED
    BY <1>1, <1>2, <2>1, <2>3, <2>4 DEF Cleared
<1>7. WaitsForCall' /\ AnswerMatchesEffect'
  BY <1>1, <1>2 DEF IInv, WaitsForCall, AnswerMatchesEffect, Called
<1> QED
  BY <1>3, <1>4, <1>5, <1>6, <1>7 DEF IInv

-----------------------------------------------------------------------------
LEMMA HandleKeeps ==
  ASSUME IInv, NEW r \in Request, Handle(r) \/ UpstreamEnds(r)
  PROVE  IInv'
<1> USE DEF At, storeVars
<1>1. raced \in BOOLEAN /\ stage[r] \in Stages
  BY DEF IInv, TypeOK
<1>2. /\ stage[r] \in AdmittedContext => input[r].kind = "context"
      /\ stage[r] \in AdmittedExec =>
           input[r].kind = "exec" /\ (flags.auth => input[r].authorized)
  BY DEF IInv, Route
<1>3. CASE Admit(r)
  <2>1. Elsewhere /\ UNCHANGED <<built, calls>> /\ stage[r] = "admit"
    BY <1>1, <1>3 DEF Admit, Elsewhere
  <2>2. CASE Respond(r, 401) \/ Respond(r, 400)
    BY <2>1, <2>2, RespondKeeps DEF Codes, Relayed
  <2>3. CASE GoTo(r, FirstStage(input[r].kind)) /\ (flags.auth => input[r].authorized)
    <3>1. CASE input[r].kind = "context"
      <4>1. GoTo(r, "build")
        BY <2>3, <3>1 DEF FirstStage
      <4> QED
        BY <2>1, <3>1, <4>1, GoToKeeps DEF Stages, AdmittedExec
    <3>2. CASE input[r].kind = "exec"
      <4>1. GoTo(r, "get")
        BY <2>3, <3>2 DEF FirstStage
      <4> QED
        BY <2>1, <2>3, <3>2, <4>1, GoToKeeps DEF Stages, AdmittedContext
    <3>3. CASE input[r].kind \notin {"context", "exec"}
      <4>1. GoTo(r, "record")
        BY <2>3, <3>3 DEF FirstStage
      <4> QED
        BY <2>1, <4>1, GoToKeeps DEF Stages, AdmittedContext, AdmittedExec
    <3> QED
      BY <3>1, <3>2, <3>3
  <2> QED
    BY <1>3, <2>2, <2>3 DEF Admit
<1>4. CASE Build(r)
  BY <1>4, BuildKeeps
<1>5. CASE PutBegins(r)
  <2>1. Elsewhere /\ UNCHANGED <<built, calls>> /\ stage[r] = "put"
    BY <1>1, <1>5 DEF PutBegins, Elsewhere
  <2> QED
    BY <1>2, <1>5, <2>1, GoToKeeps DEF PutBegins, Stages, AdmittedContext, AdmittedExec
<1>6. CASE PutEnds(r)
  BY <1>6, PutEndsKeeps
<1>7. CASE Reply(r)
  <2>1. Elsewhere /\ UNCHANGED <<built, calls>> /\ stage[r] = "reply"
    BY <1>1, <1>7 DEF Reply, Elsewhere
  <2> QED
    BY <1>7, <2>1, RespondKeeps DEF Reply, Codes, Relayed
<1>8. CASE Get(r)
  <2>1. Elsewhere /\ UNCHANGED <<built, calls>> /\ stage[r] = "get"
    BY <1>1, <1>8 DEF Get, Elsewhere
  <2>2. CASE Respond(r, 404)
    BY <2>1, <2>2, RespondKeeps DEF Codes, Relayed
  <2>3. CASE input[r].contract \in store /\ GoTo(r, "check")
    <3>1. input[r].contract \in Request
      BY <2>3 DEF IInv, TypeOK
    <3> QED
      BY <1>2, <2>1, <2>3, <3>1, GoToKeeps DEF Stages, AdmittedContext, AdmittedExec
  <2> QED
    BY <1>8, <2>2, <2>3 DEF Get
<1>9. CASE Check(r)
  <2>1. Elsewhere /\ UNCHANGED <<built, calls>> /\ stage[r] = "check"
    BY <1>1, <1>9 DEF Check, Elsewhere
  <2>2. CASE Respond(r, 404) \/ Respond(r, 403) \/ Respond(r, 502)
    BY <2>1, <2>2, RespondKeeps DEF Codes, Relayed
  <2>3. CASE /\ input[r].tool \in built[input[r].contract]
             /\ Approved(r)
             /\ Host(r) \in Egress(Registry, built[input[r].contract])
             /\ GoTo(r, "inject")
    <3>1. input[r].contract \in Request
      BY <2>1 DEF IInv, Cleared
    <3>2. Allowed(input[r].contract, input[r].tool)
      BY <2>3, <3>1 DEF Allowed, Approved, Host
    <3> QED
      BY <1>2, <2>1, <2>3, <3>2, GoToKeeps DEF Stages, AdmittedContext, AdmittedExec
  <2> QED
    BY <1>9, <2>2, <2>3 DEF Check
<1>10. CASE Inject(r)
  <2>1. Elsewhere /\ UNCHANGED <<built, calls>> /\ stage[r] = "inject"
    BY <1>1, <1>10 DEF Inject, Elsewhere
  <2>2. CASE Respond(r, 502)
    BY <2>1, <2>2, RespondKeeps DEF Codes, Relayed
  <2>3. CASE GoTo(r, "forward")
    <3>1. Allowed(input[r].contract, input[r].tool)
      BY <2>1 DEF IInv, Cleared
    <3> QED
      BY <1>2, <2>1, <2>3, <3>1, GoToKeeps DEF Stages, AdmittedContext, AdmittedExec
  <2> QED
    BY <1>10, <2>2, <2>3 DEF Inject
<1>11. CASE Forward(r)
  BY <1>11, ForwardKeeps
<1>12. CASE Record(r)
  <2>1. Elsewhere /\ UNCHANGED <<built, calls>> /\ stage[r] = "record"
    BY <1>1, <1>12 DEF Record, Elsewhere
  <2> QED
    BY <1>12, <2>1, RespondKeeps DEF Record, Codes, Relayed
<1>13. CASE UpstreamEnds(r)
  <2>1. Elsewhere /\ UNCHANGED <<built, calls>> /\ stage[r] = "upstream"
    BY <1>1, <1>13 DEF UpstreamEnds, Elsewhere
  <2>2. CASE Respond(r, Relayed)
    BY <2>1, <2>2, RespondKeeps DEF Codes, Relayed
  <2>3. CASE Respond(r, 502)
    BY <2>1, <2>3, RespondKeeps DEF Codes, Relayed
  <2> QED
    BY <1>13, <2>2, <2>3 DEF UpstreamEnds
<1> QED
  BY <1>3, <1>4, <1>5, <1>6, <1>7, <1>8, <1>9, <1>10, <1>11, <1>12, <1>13 DEF Handle, Work

LEMMA InitInv == Init => IInv
<1> SUFFICES ASSUME Init
             PROVE  IInv
  OBVIOUS
<1>1. TypeOK
  <2>1. flags \in [auth : BOOLEAN, autoApprove : BOOLEAN]
    BY DEF Init
  <2>2. /\ proc \in {"starting", "serving", "draining"} \cup Ended
        /\ cancelled \in BOOLEAN /\ raced \in BOOLEAN
        /\ store \subseteq Request /\ stale \subseteq Request /\ pending \subseteq Request
        /\ calls \subseteq Request \X Request \X Tool
    BY DEF Init
  <2>3. /\ built \in [Request -> SUBSET DOMAIN Registry]
        /\ input \in [Request -> {NoInput} \cup Inputs(Request \cup {Unknown})]
    BY DEF Init
  <2>4. stage \in [Request -> Stages]
    BY DEF Init, Stages
  <2>5. status \in [Request -> {NoAnswer, Relayed, 200, 202, 400, 401, 403, 404,
                                422, 502}]
    BY DEF Init
  <2>6. restarts \in 0 .. MaxRestarts
    BY RestartBound DEF Init
  <2> QED
    BY <2>1, <2>2, <2>3, <2>4, <2>5, <2>6 DEF TypeOK
<1>2. Route /\ Answered /\ BuiltOnce /\ StoredFirst
  BY DEF Init, Route, Answered, BuiltOnce, StoredFirst, AdmittedContext, AdmittedExec
<1>3. GivenIsStored /\ Cleared /\ WaitsForCall /\ AnswerMatchesEffect
  BY DEF Init, GivenIsStored, Given, Cleared, WaitsForCall, AnswerMatchesEffect,
         NoAnswer, Relayed
<1> QED
  BY <1>1, <1>2, <1>3 DEF IInv

LEMMA NextInv == IInv /\ [Next]_vars => IInv'
<1> SUFFICES ASSUME IInv, [Next]_vars
             PROVE  IInv'
  OBVIOUS
<1>1. ASSUME NEW r \in Request, Send(r)
      PROVE  IInv'
  BY <1>1, SendKeeps
<1>2. ASSUME NEW r \in Request, Handle(r) \/ UpstreamEnds(r)
      PROVE  IInv'
  BY <1>2, HandleKeeps
<1>3. ASSUME NEW r \in Request, MapRace(r)
      PROVE  IInv'
  <2>1. TypeOK'
    <3>1. /\ proc' \in Ended /\ raced' \in BOOLEAN
          /\ UNCHANGED <<cancelled, flags, restarts, store, built, input, stage,
                         status, calls, stale, pending>>
      BY <1>3 DEF MapRace, Ended
    <3> QED
      BY <3>1, Zenon DEF IInv, TypeOK
  <2> QED
    BY <1>3, <2>1, ProcessKeeps DEF MapRace
<1>4. CASE Listen \/ Signal \/ Shutdown \/ Drained \/ DrainTimeout \/ UNCHANGED vars
  <2>1. UNCHANGED <<flags, restarts, requestVars>>
    BY <1>4 DEF Listen, Signal, Shutdown, Drained, DrainTimeout, vars, requestVars,
                surroundings, processVars, storeVars
  <2>2. /\ proc' \in {"starting", "serving", "draining"} \cup Ended
        /\ cancelled' \in BOOLEAN
    <3>1. /\ proc \in {"starting", "serving", "draining"} \cup Ended
          /\ cancelled \in BOOLEAN
      BY DEF IInv, TypeOK
    <3>2. CASE Listen
      BY <3>1, <3>2 DEF Listen, Ended
    <3>3. CASE Signal
      BY <3>1, <3>3 DEF Signal
    <3>4. CASE Shutdown
      BY <3>1, <3>4 DEF Shutdown
    <3>5. CASE Drained \/ DrainTimeout
      BY <3>1, <3>5 DEF Drained, DrainTimeout, Ended
    <3>6. CASE UNCHANGED vars
      BY <3>1, <3>6 DEF vars, surroundings, processVars
    <3> QED
      BY <1>4, <3>2, <3>3, <3>4, <3>5, <3>6
  <2>3. /\ flags' = flags /\ restarts' = restarts /\ store' = store
        /\ raced' = raced /\ built' = built /\ input' = input
        /\ stage' = stage /\ status' = status /\ calls' = calls
        /\ stale' = stale /\ pending' = pending
    BY <2>1 DEF requestVars, storeVars
  <2>4. TypeOK'
    <3>1. flags' \in [auth : BOOLEAN, autoApprove : BOOLEAN]
      BY <2>3 DEF IInv, TypeOK
    <3>2. built' \in [Request -> SUBSET DOMAIN Registry]
      BY <2>3 DEF IInv, TypeOK
    <3>3. input' \in [Request -> {NoInput} \cup Inputs(Request \cup {Unknown})]
      BY <2>3 DEF IInv, TypeOK
    <3>4. stage' \in [Request -> Stages]
      BY <2>3 DEF IInv, TypeOK
    <3>5. status' \in [Request -> {NoAnswer, Relayed, 200, 202, 400, 401, 403, 404,
                                   422, 502}]
      BY <2>3 DEF IInv, TypeOK
    <3>6. calls' \subseteq Request \X Request \X Tool
      BY <2>3 DEF IInv, TypeOK
    <3>7. /\ raced' \in BOOLEAN
          /\ store' \subseteq Request
          /\ stale' \subseteq Request /\ pending' \subseteq Request
          /\ restarts' \in 0 .. MaxRestarts
      BY <2>3 DEF IInv, TypeOK
    <3> QED
      BY <2>2, <3>1, <3>2, <3>3, <3>4, <3>5, <3>6, <3>7 DEF TypeOK
  <2> QED
    BY <2>3, <2>4, ProcessKeeps
<1>5. CASE Restart
  BY <1>5, RestartKeeps
<1>6. ASSUME NEW r \in Request, BodyEnds(r)
      PROVE  IInv'
  <2>1. /\ pending' = pending \ {r}
        /\ UNCHANGED <<proc, cancelled, flags, restarts, store, raced, built, input,
                       stage, status, calls, stale>>
    BY <1>6 DEF BodyEnds, processVars, storeVars
  <2>2. pending' \subseteq Request
    BY <2>1 DEF IInv, TypeOK
  <2>3. TypeOK'
    BY <2>1, <2>2, Zenon DEF IInv, TypeOK
  <2> QED
    BY <2>1, <2>3, ProcessKeeps
<1> QED
  BY <1>1, <1>2, <1>3, <1>4, <1>5, <1>6 DEF Next

LEMMA Invariance == Spec => []IInv
BY InitInv, NextInv, PTL DEF Spec

-----------------------------------------------------------------------------
(* Every variable keeps its type, for any registry and requests.           *)
THEOREM TypeCorrect == Spec => []TypeOK
<1>1. IInv => TypeOK
  BY DEF IInv
<1> QED
  BY <1>1, Invariance, PTL

(* Put comes before the answer (server.go:159-171): a contract that was    *)
(* given can be used, as long as no accesses to the map have overlapped.   *)
THEOREM ContractIsKept == Spec => []GivenIsStored
<1>1. IInv => GivenIsStored
  BY DEF IInv
<1> QED
  BY <1>1, Invariance, PTL

(* The checks of ServeHTTP still hold when the upstream is called and ever *)
(* after, whatever other handlers and restarts do in between.              *)
THEOREM CallsAreAllowed == Spec => []CalledUnderContract
<1>1. IInv => CalledUnderContract
  BY DEF IInv, Cleared, Allowed, CalledUnderContract
<1> QED
  BY <1>1, Invariance, PTL

(* A refusal means that nothing was called, a relayed answer that the      *)
(* upstream was.                                                           *)
THEOREM AnswersTellTheTruth == Spec => []AnswerMatchesEffect
<1>1. IInv => AnswerMatchesEffect
  BY DEF IInv
<1> QED
  BY <1>1, Invariance, PTL

-----------------------------------------------------------------------------
(* How far a handler has come.                                             *)
Rank == [unused |-> 0, admit |-> 1, build |-> 2, get |-> 2, record |-> 2, put |-> 3, check |-> 3,
         putting |-> 4, inject |-> 4, reply |-> 5, forward |-> 5, upstream |-> 6, done |-> 7]

Ahead(r) == Rank[stage[r]] < Rank[stage'[r]]

(* What RequestAnswered and ShutdownEnds owe to the code and not to its    *)
(* scheduling: no handler has a loop or a retry, it has at most six steps. *)
HandlersEnd ==
  [][\A r \in Request : (stage'[r] = stage[r] \/ Ahead(r)) /\ (Handle(r) => Ahead(r))]_vars

(* An answer is written once (http.ResponseWriter), a contract never       *)
(* changes after Build (Put stores the manifest that was answered), and    *)
(* the proxy hands a request to its upstream at most once, also across     *)
(* restarts (proxy.go:216).                                                *)
NothingTwice ==
  [][/\ \A r \in Request :
          /\ status[r] # NoAnswer => status'[r] = status[r]
          /\ built[r] # {} => built'[r] = built[r]
          /\ stage[r] # "unused" => input'[r] = input[r]
          /\ Forward(r) => ~Called(r)
     /\ calls \subseteq calls']_vars

LEMMA HandlerStep ==
  ASSUME IInv, NEW r \in Request, Handle(r) \/ UpstreamEnds(r)
  PROVE  /\ Ahead(r) /\ input' = input /\ calls \subseteq calls' /\ stage[r] # "done"
         /\ \A q \in Request \ {r} : UNCHANGED <<stage[q], status[q], built[q]>>
         /\ built'[r] = built[r] \/ stage[r] = "build"
<1>1. stage \in [Request -> Stages] /\ DOMAIN status = Request /\ DOMAIN built = Request
  BY DEF IInv, TypeOK
<1>2. \A p : stage' = [stage EXCEPT ![r] = p] => stage'[r] = p
  BY <1>1
<1>3. \/ \E c : Respond(r, c) /\ stage[r] \in Stages \ {"unused", "done"}
      \/ \E p \in Stages : GoTo(r, p) /\ Rank[stage[r]] < Rank[p]
  <2>1. CASE Admit(r)
    <3>1. FirstStage(input[r].kind) \in {"build", "get", "record"}
      BY Zenon DEF FirstStage
    <3> QED
      BY <2>1, <3>1 DEF Admit, At, Stages, Rank
  <2>2. CASE Build(r) \/ PutBegins(r) \/ PutEnds(r)
    BY <2>2 DEF Build, PutBegins, PutEnds, At, Stages, Rank
  <2>3. CASE Get(r) \/ Check(r) \/ Inject(r)
    BY <2>3 DEF Get, Check, Inject, At, Stages, Rank
  <2>4. CASE Reply(r) \/ Record(r) \/ UpstreamEnds(r) \/ Forward(r)
    BY <2>4 DEF Reply, Record, UpstreamEnds, Forward, At, Stages, Rank
  <2> QED
    BY <2>1, <2>2, <2>3, <2>4 DEF Handle, Work
<1>4. Ahead(r) /\ stage[r] # "done" /\ \A q \in Request \ {r} : UNCHANGED <<stage[q], status[q]>>
  BY <1>1, <1>2, <1>3 DEF Respond, GoTo, Ahead, Rank, Stages
<1>5. /\ input' = input /\ calls \subseteq calls'
      /\ built' = built \/ (stage[r] = "build" /\ \E t : built' = [built EXCEPT ![r] = t])
  BY DEF Handle, Work, UpstreamEnds, Admit, Build, PutBegins, PutEnds, Reply, Get, Check, Inject, Forward, Record, At
<1> QED
  BY <1>1, <1>4, <1>5

LEMMA OtherStep ==
  ASSUME IInv, [Next]_vars, ~\E r \in Request : Handle(r) \/ UpstreamEnds(r)
  PROVE  /\ UNCHANGED <<status, built, calls>>
         /\ \A q \in Request : /\ stage'[q] = stage[q] \/ Ahead(q)
                               /\ stage[q] # "unused" => input'[q] = input[q]
<1>1. stage \in [Request -> Stages] /\ DOMAIN input = Request
  BY DEF IInv, TypeOK
<1>2. ASSUME NEW r \in Request, Send(r)
      PROVE  /\ UNCHANGED <<status, built, calls>> /\ stage[r] = "unused"
             /\ stage' = [stage EXCEPT ![r] = "admit"] /\ \E ask : input' = [input EXCEPT ![r] = ask]
  BY <1>2 DEF Send, GoTo
<1>3. CASE Restart
  <2>1. /\ UNCHANGED <<status, built, calls, input>>
        /\ \A q \in Request : stage'[q] = IF stage[q] = "unused" THEN "unused" ELSE "done"
    BY <1>3 DEF Restart
  <2> QED
    BY <1>1, <2>1 DEF Stages, Ahead, Rank
<1>4. CASE \/ \E r \in Request : BodyEnds(r) \/ MapRace(r)
           \/ Listen \/ Signal \/ Shutdown \/ Drained \/ DrainTimeout \/ UNCHANGED vars
  BY <1>4 DEF BodyEnds, MapRace, Listen, Signal, Shutdown, Drained, DrainTimeout, vars, requestVars
<1>5. ASSUME NEW r \in Request, Send(r)
      PROVE  /\ UNCHANGED <<status, built, calls>>
             /\ \A q \in Request : /\ stage'[q] = stage[q] \/ Ahead(q)
                                   /\ stage[q] # "unused" => input'[q] = input[q]
  BY <1>1, <1>2, <1>5 DEF Ahead, Rank
<1> QED
  BY <1>3, <1>4, <1>5 DEF Next

(* Every handler is on its way to its end, in any process.                 *)
THEOREM HandlersCannotTurn == Spec => HandlersEnd
<1>1. ASSUME IInv, [Next]_vars
      PROVE  \A r \in Request : (stage'[r] = stage[r] \/ Ahead(r)) /\ (Handle(r) => Ahead(r))
  <2>1. ASSUME NEW r \in Request, Handle(r) \/ UpstreamEnds(r)
        PROVE  Ahead(r) /\ \A q \in Request \ {r} : stage'[q] = stage[q]
    BY <1>1, <2>1, HandlerStep
  <2> QED
    BY <1>1, <2>1, OtherStep
<1> QED
  BY <1>1, Invariance, PTL DEF Spec, HandlersEnd

(* Answers and contracts are final, and no action is carried out twice.    *)
THEOREM NothingIsDoneTwice == Spec => NothingTwice
<1>1. ASSUME IInv, [Next]_vars
      PROVE  /\ \A r \in Request :
                  /\ status[r] # NoAnswer => status'[r] = status[r]
                  /\ built[r] # {} => built'[r] = built[r]
                  /\ stage[r] # "unused" => input'[r] = input[r]
                  /\ Forward(r) => ~Called(r)
             /\ calls \subseteq calls'
  <2>1. \A q \in Request :
          /\ status[q] # NoAnswer => stage[q] = "done"
          /\ stage[q] = "build" => built[q] = {}
          /\ stage[q] = "forward" => ~Called(q)
    BY <1>1 DEF IInv, Answered, BuiltOnce, Cleared, Called
  <2>2. \A q \in Request : Forward(q) => ~Called(q)
    BY <2>1 DEF Forward, At
  <2>3. ASSUME NEW r \in Request, Handle(r) \/ UpstreamEnds(r)
        PROVE  /\ input' = input /\ calls \subseteq calls'
               /\ \A q \in Request : /\ status[q] # NoAnswer => status'[q] = status[q]
                                     /\ built[q] # {} => built'[q] = built[q]
    BY <1>1, <2>1, <2>3, HandlerStep
  <2> QED
    BY <1>1, <2>2, <2>3, OtherStep
<1> QED
  BY <1>1, Invariance, PTL DEF Spec, NothingTwice
=============================================================================
