------------------------- MODULE StdioClient_proofs -------------------------
(***************************************************************************)
(* Proofs about StdioClient for any number of goroutines, requests, lines  *)
(* of noise and size of the pipe.  What makes the invariants inductive is  *)
(* that the mutex is held during the whole exchange (Exclusive), that a    *)
(* caller reads beside a goroutine left behind only in a torn reader       *)
(* (SharedIsTorn), and that the id of the request about to be written is   *)
(* larger than every id in the pipe (WireBehind).                          *)
(***************************************************************************)
EXTENDS StdioClient, SequenceTheorems, FiniteSetTheorems, TLAPS

-----------------------------------------------------------------------------
(* Callers that wait for the mutex with a request to make.                 *)
Waiting == {c \in Caller : pc[c] = "lock"}

(* The bound on requests, those without an id yet included.                *)
Bounded == Begun <= MaxCalls

(* Whoever writes or reads holds the mutex.                                *)
Exclusive == \A c \in Caller : pc[c] \in {"write", "read", "writeNotify"} => mu = c

(* A goroutine is left behind only by a caller that timed out; in a reader *)
(* that was never shared nobody reads while it is there.                   *)
SharedIsTorn ==
  /\ torn \/ orphans > 0 => timedOut
  /\ orphans > 0 /\ ~torn => \A c \in Caller : pc[c] # "read"

(* The server answers with the id of the request; what is no answer is not *)
(* taken for one, except by its id.                                        *)
HonestLines ==
  \A k \in DOMAIN fromServer :
    /\ fromServer[k].of \in {fromServer[k].id, NoId}
    /\ fromServer[k].kind \in {"result", "error"} => fromServer[k].of = fromServer[k].id

(* A request that has not returned has no outcome yet.                     *)
NoOutcomeYet ==
  \A c \in Caller : pc[c] \in {"lock", "write", "read"} => outcome[c] = Returned("none", NoId)

(* Ids in the pipe are old, and older than the one about to be written.    *)
WireBehind ==
  /\ \A k \in DOMAIN toServer : toServer[k] <= nextID
  /\ \A c \in Caller : pc[c] = "write" =>
       /\ id[c] = nextID
       /\ \A k \in DOMAIN toServer : toServer[k] < nextID

IInv ==
  /\ TypeOK
  /\ Bounded
  /\ Exclusive
  /\ SharedIsTorn
  /\ HonestLines
  /\ NoOutcomeYet
  /\ NoCrossDelivery
  /\ WireBehind
  /\ WireInOrder
  /\ AnswerNotLost

-----------------------------------------------------------------------------
(* Sequences: the entries of a queue after a step.                         *)
LEMMA AppendEntries ==
  ASSUME NEW S, NEW s \in Seq(S), NEW e \in S
  PROVE  /\ Append(s, e) \in Seq(S)
         /\ Len(Append(s, e)) = Len(s) + 1
         /\ Len(s) \in Nat
         /\ DOMAIN s = 1 .. Len(s)
         /\ DOMAIN Append(s, e) = 1 .. Len(s) + 1
         /\ \A k \in 1 .. Len(s) : Append(s, e)[k] = s[k]
         /\ Append(s, e)[Len(s) + 1] = e
<1>1. Append(s, e) \in Seq(S) /\ Len(Append(s, e)) = Len(s) + 1
  BY AppendProperties
<1>2. /\ \A k \in 1 .. Len(s) : Append(s, e)[k] = s[k]
      /\ Append(s, e)[Len(s) + 1] = e
  BY AppendProperties
<1>3. /\ Len(s) \in Nat /\ DOMAIN s = 1 .. Len(s)
      /\ DOMAIN Append(s, e) = 1 .. Len(Append(s, e))
  BY <1>1, LenProperties
<1> QED BY <1>1, <1>2, <1>3

LEMMA TailEntries ==
  ASSUME NEW S, NEW s \in Seq(S), s # <<>>
  PROVE  /\ Tail(s) \in Seq(S)
         /\ Len(s) \in Nat \ {0}
         /\ Len(Tail(s)) = Len(s) - 1
         /\ DOMAIN s = 1 .. Len(s)
         /\ DOMAIN Tail(s) = 1 .. Len(s) - 1
         /\ \A k \in 1 .. Len(s) - 1 : Tail(s)[k] = s[k + 1]
         /\ Head(s) = s[1]
         /\ Head(s) \in S
<1>1. Tail(s) \in Seq(S) /\ Head(s) \in S /\ Len(Tail(s)) = Len(s) - 1
  BY HeadTailProperties
<1>2. Len(s) \in Nat \ {0} /\ DOMAIN s = 1 .. Len(s)
  BY EmptySeq, LenProperties
<1>3. DOMAIN Tail(s) = 1 .. Len(s) - 1
  BY <1>1, LenProperties
<1>4. \A k \in 1 .. Len(s) - 1 : Tail(s)[k] = s[k + 1]
  BY <1>1, HeadTailProperties
<1> QED BY <1>1, <1>2, <1>3, <1>4

(* A prefix keeps the entries it has.                                      *)
LEMMA PrefixEntries ==
  ASSUME NEW S, NEW s \in Seq(S), NEW n \in 0 .. Len(s)
  PROVE  /\ SubSeq(s, 1, n) \in Seq(S)
         /\ DOMAIN SubSeq(s, 1, n) = 1 .. n
         /\ DOMAIN s = 1 .. Len(s)
         /\ n <= Len(s) /\ n \in Nat /\ Len(s) \in Nat
         /\ \A k \in 1 .. n : SubSeq(s, 1, n)[k] = s[k]
<1>1. Len(s) \in Nat /\ DOMAIN s = 1 .. Len(s) /\ n \in Nat /\ n <= Len(s)
  BY LenProperties
<1>2. \A k \in 1 .. n : s[k] \in S
  BY <1>1, ElementOfSeq
<1>3. /\ SubSeq(s, 1, n) \in Seq(S)
      /\ Len(SubSeq(s, 1, n)) = n
      /\ \A k \in 1 .. n : SubSeq(s, 1, n)[k] = s[k]
  BY <1>1, <1>2, SubSeqProperties
<1>4. DOMAIN SubSeq(s, 1, n) = 1 .. n
  BY <1>3, LenProperties
<1> QED BY <1>1, <1>3, <1>4

(* What happens around the callers leaves them and the mutex alone.        *)
LEMMA AroundLeavesCallers ==
  ASSUME Around
  PROVE  UNCHANGED <<pc, op, id, expired, outcome, mu, nextID>>
BY DEF Around, OrphanTakes, BytesLost, Panic, Close, Server, ServerReads,
       ServerAnswers, ServerSays, ServerExits, callerVars

LEMMA AroundLeavesTorn ==
  ASSUME Around
  PROVE  UNCHANGED torn
BY DEF Around, OrphanTakes, BytesLost, Panic, Close, Server, ServerReads,
       ServerAnswers, ServerSays, ServerExits, readerVars

(* Waiting is finite, and a caller in it has an id still to come.          *)
LEMMA WaitingIsFinite ==
  IsFiniteSet(Waiting) /\ Cardinality(Waiting) \in Nat /\ Begun = nextID + Cardinality(Waiting)
<1>1. IsFiniteSet(Waiting)
  BY CallerAssumption, FS_Subset DEF Waiting
<1> QED BY <1>1, FS_CardinalityType DEF Begun, Waiting

LEMMA SomeoneWaits ==
  ASSUME TypeOK, Bounded, NEW c \in Caller, Lock(c)
  PROVE  nextID + 1 <= MaxCalls
<1>1. c \in Waiting
  BY DEF Lock, Waiting
<1>2. Cardinality(Waiting) # 0
  BY <1>1, WaitingIsFinite, FS_EmptySet
<1> QED BY <1>2, WaitingIsFinite, StdioBounds DEF Bounded, TypeOK

(* A caller is alone between Lock and Return.                              *)
LEMMA NextExclusive ==
  ASSUME TypeOK, Exclusive, [Next]_vars
  PROVE  Exclusive'
<1> USE DEF Exclusive, TypeOK, PcType, callerVars, readerVars, serverVars
<1>1. ASSUME NEW c \in Caller, NEW o \in {"call", "initialize"}, Call(c, o)
      PROVE  Exclusive'
  BY <1>1 DEF Call
<1>2. ASSUME NEW c \in Caller, Expire(c)
      PROVE  Exclusive'
  BY <1>2 DEF Expire
<1>3. ASSUME NEW c \in Caller, Lock(c)
      PROVE  Exclusive'
  BY <1>3, CallerAssumption DEF Lock
<1>4. ASSUME NEW c \in Caller, LockNotify(c)
      PROVE  Exclusive'
  BY <1>4, CallerAssumption DEF LockNotify
<1>5. ASSUME NEW c \in Caller, Write(c)
      PROVE  Exclusive'
  BY <1>5 DEF Write, StartsReading
<1>6. ASSUME NEW c \in Caller, WriteFails(c)
      PROVE  Exclusive'
  BY <1>6 DEF WriteFails, Return
<1>7. ASSUME NEW c \in Caller, ReadLine(c)
      PROVE  Exclusive'
  BY <1>7 DEF ReadLine, Handle, Return, StartsReading
<1>8. ASSUME NEW c \in Caller, ReadFails(c)
      PROVE  Exclusive'
  BY <1>8 DEF ReadFails, Return
<1>9. ASSUME NEW c \in Caller, TimeOut(c)
      PROVE  Exclusive'
  BY <1>9 DEF TimeOut, Return
<1>10. ASSUME NEW c \in Caller, WriteNotify(c)
      PROVE  Exclusive'
  BY <1>10 DEF WriteNotify
<1>11. ASSUME Around PROVE Exclusive'
  BY <1>11, AroundLeavesCallers
<1>12. CASE UNCHANGED vars
  BY <1>12 DEF vars, callerVars, readerVars, serverVars
<1> QED
  BY <1>1, <1>2, <1>3, <1>4, <1>5, <1>6, <1>7, <1>8, <1>9, <1>10,
     <1>11, <1>12
  DEF Next, CallerStep, Advance

(* Only TimeOut leaves a goroutine behind, and only Write starts to read.  *)
LEMMA NextSharedIsTorn ==
  ASSUME TypeOK, Exclusive, SharedIsTorn, [Next]_vars
  PROVE  SharedIsTorn'
<1> USE DEF Exclusive, SharedIsTorn, TypeOK, PcType, callerVars, readerVars, serverVars
<1>1. ASSUME NEW c \in Caller, NEW o \in {"call", "initialize"}, Call(c, o)
      PROVE  SharedIsTorn'
  BY <1>1 DEF Call
<1>2. ASSUME NEW c \in Caller, Expire(c)
      PROVE  SharedIsTorn'
  BY <1>2 DEF Expire
<1>3. ASSUME NEW c \in Caller, Lock(c)
      PROVE  SharedIsTorn'
  BY <1>3 DEF Lock
<1>4. ASSUME NEW c \in Caller, LockNotify(c)
      PROVE  SharedIsTorn'
  BY <1>4 DEF LockNotify
<1>5. ASSUME NEW c \in Caller, Write(c)
      PROVE  SharedIsTorn'
  BY <1>5 DEF Write, StartsReading
<1>6. ASSUME NEW c \in Caller, WriteFails(c)
      PROVE  SharedIsTorn'
  BY <1>6 DEF WriteFails, Return
<1>7. ASSUME NEW c \in Caller, ReadLine(c)
      PROVE  SharedIsTorn'
  BY <1>7 DEF ReadLine, Handle, Return, StartsReading
<1>8. ASSUME NEW c \in Caller, ReadFails(c)
      PROVE  SharedIsTorn'
  BY <1>8 DEF ReadFails, Return
<1>9. ASSUME NEW c \in Caller, TimeOut(c)
      PROVE  SharedIsTorn'
  BY <1>9 DEF TimeOut, Return
<1>10. ASSUME NEW c \in Caller, WriteNotify(c)
      PROVE  SharedIsTorn'
  BY <1>10 DEF WriteNotify
<1>11. ASSUME OrphanTakes
      PROVE  SharedIsTorn'
  BY <1>11 DEF OrphanTakes
<1>12. ASSUME BytesLost
      PROVE  SharedIsTorn'
  BY <1>12 DEF BytesLost
<1>13. ASSUME Panic
      PROVE  SharedIsTorn'
  BY <1>13 DEF Panic
<1>14. ASSUME Close
      PROVE  SharedIsTorn'
  BY <1>14 DEF Close
<1>15. ASSUME ServerReads
      PROVE  SharedIsTorn'
  BY <1>15 DEF ServerReads
<1>16. ASSUME NEW i \in Id, NEW kind \in {"result", "error"}, ServerAnswers(i, kind)
      PROVE  SharedIsTorn'
  BY <1>16 DEF ServerAnswers
<1>17. ASSUME NEW line \in Noise, ServerSays(line)
      PROVE  SharedIsTorn'
  BY <1>17 DEF ServerSays
<1>18. ASSUME ServerExits
      PROVE  SharedIsTorn'
  BY <1>18 DEF ServerExits
<1>19. CASE UNCHANGED vars
  BY <1>19 DEF vars, callerVars, readerVars, serverVars
<1> QED
  BY <1>1, <1>2, <1>3, <1>4, <1>5, <1>6, <1>7, <1>8, <1>9, <1>10,
     <1>11, <1>12, <1>13, <1>14, <1>15, <1>16, <1>17, <1>18, <1>19
  DEF Next, CallerStep, Advance, Around, Server

(* Call clears the outcome and only Return, at the end, sets it.           *)
LEMMA NextNoOutcomeYet ==
  ASSUME TypeOK, NoOutcomeYet, [Next]_vars
  PROVE  NoOutcomeYet'
<1> USE DEF NoOutcomeYet, TypeOK, PcType, callerVars, readerVars, serverVars
<1>1. ASSUME NEW c \in Caller, NEW o \in {"call", "initialize"}, Call(c, o)
      PROVE  NoOutcomeYet'
  BY <1>1 DEF Call
<1>2. ASSUME NEW c \in Caller, Expire(c)
      PROVE  NoOutcomeYet'
  BY <1>2 DEF Expire
<1>3. ASSUME NEW c \in Caller, Lock(c)
      PROVE  NoOutcomeYet'
  BY <1>3 DEF Lock
<1>4. ASSUME NEW c \in Caller, LockNotify(c)
      PROVE  NoOutcomeYet'
  BY <1>4 DEF LockNotify
<1>5. ASSUME NEW c \in Caller, Write(c)
      PROVE  NoOutcomeYet'
  BY <1>5 DEF Write, StartsReading
<1>6. ASSUME NEW c \in Caller, WriteFails(c)
      PROVE  NoOutcomeYet'
  BY <1>6 DEF WriteFails, Return
<1>7. ASSUME NEW c \in Caller, ReadLine(c)
      PROVE  NoOutcomeYet'
  BY <1>7 DEF ReadLine, Handle, Return, StartsReading
<1>8. ASSUME NEW c \in Caller, ReadFails(c)
      PROVE  NoOutcomeYet'
  BY <1>8 DEF ReadFails, Return
<1>9. ASSUME NEW c \in Caller, TimeOut(c)
      PROVE  NoOutcomeYet'
  BY <1>9 DEF TimeOut, Return
<1>10. ASSUME NEW c \in Caller, WriteNotify(c)
      PROVE  NoOutcomeYet'
  BY <1>10 DEF WriteNotify
<1>11. ASSUME Around PROVE NoOutcomeYet'
  BY <1>11, AroundLeavesCallers
<1>12. CASE UNCHANGED vars
  BY <1>12 DEF vars, callerVars, readerVars, serverVars
<1> QED
  BY <1>1, <1>2, <1>3, <1>4, <1>5, <1>6, <1>7, <1>8, <1>9, <1>10,
     <1>11, <1>12
  DEF Next, CallerStep, Advance

(* Types; the ids in use are those of requests begun.                      *)
LEMMA NextTypeOK ==
  ASSUME TypeOK, Bounded, Bounded', [Next]_vars
  PROVE  TypeOK'
<1> USE DEF TypeOK, PcType, OutcomeType, callerVars, readerVars, serverVars
<1>1. ASSUME NEW c \in Caller, NEW o \in {"call", "initialize"}, Call(c, o)
      PROVE  TypeOK'
  BY <1>1 DEF Call, Returned, Id, NoId
<1>2. ASSUME NEW c \in Caller, Expire(c)
      PROVE  TypeOK'
  BY <1>2 DEF Expire
<1>3. ASSUME NEW c \in Caller, Lock(c)
      PROVE  TypeOK'
  <2>1. nextID + 1 <= MaxCalls
    BY <1>3, SomeoneWaits, StdioBounds
  <2>2. nextID + 1 \in Id /\ nextID + 1 \in 0 .. MaxCalls
    BY <2>1, StdioBounds DEF Id
  <2> QED BY <1>3, <2>2 DEF Lock
<1>4. ASSUME NEW c \in Caller, LockNotify(c)
      PROVE  TypeOK'
  BY <1>4 DEF LockNotify
<1>5. ASSUME NEW c \in Caller, Write(c)
      PROVE  TypeOK'
  <2>1. /\ Append(toServer, id[c]) \in Seq(Id \cup {NoId})
        /\ Len(Append(toServer, id[c])) = Len(toServer) + 1
        /\ Len(toServer) \in Nat
    BY <1>5, AppendEntries DEF Write
  <2> QED BY <1>5, <2>1, StdioBounds DEF Write, StartsReading
<1>6. ASSUME NEW c \in Caller, WriteFails(c)
      PROVE  TypeOK'
  BY <1>6 DEF WriteFails, Return, Returned, Id, NoId
<1>7. ASSUME NEW c \in Caller, ReadLine(c)
      PROVE  TypeOK'
  <2>1. PICK line \in {Head(fromServer)} \cup IF torn THEN TornLine ELSE {} : Handle(c, line)
    BY <1>7 DEF ReadLine
  <2>2. line \in LineType
    <3>1. CASE line = Head(fromServer)
      BY <1>7, <3>1, TailEntries DEF ReadLine
    <3>2. CASE line \in TornLine
      <4>1. \A i \in 1 .. nextID : i \in Id
        BY StdioBounds DEF Id
      <4>2. NoId \in Id \cup {NoId}
        OBVIOUS
      <4> QED BY <3>2, <4>1, <4>2 DEF TornLine, Line, LineType
    <3> QED BY <2>1, <3>1, <3>2
  <2>3. Tail(fromServer) \in Seq(LineType)
    BY <1>7, TailEntries DEF ReadLine
  <2>4. CASE Matches(line, id[c])
    <3>1. /\ line.of \in Id \cup {NoId}
          /\ \A kind \in {"error", "result"} : Returned(kind, line.of) \in OutcomeType
      BY <2>2 DEF LineType, Returned
    <3>2. outcome' \in [Caller -> OutcomeType]
      <4> HIDE DEF OutcomeType
      <4> QED BY <2>1, <2>4, <3>1 DEF Handle, Return
    <3> QED BY <1>7, <2>1, <2>3, <2>4, <3>2 DEF ReadLine, Handle, Return
  <2>5. CASE ~Matches(line, id[c])
    BY <1>7, <2>1, <2>3, <2>5 DEF ReadLine, Handle, StartsReading
  <2> QED BY <2>4, <2>5
<1>8. ASSUME NEW c \in Caller, ReadFails(c)
      PROVE  TypeOK'
  BY <1>8 DEF ReadFails, Return, Returned, Id, NoId
<1>9. ASSUME NEW c \in Caller, TimeOut(c)
      PROVE  TypeOK'
  BY <1>9 DEF TimeOut, Return, Returned, Id, NoId
<1>10. ASSUME NEW c \in Caller, WriteNotify(c)
      PROVE  TypeOK'
  <2>1. /\ Append(toServer, NoId) \in Seq(Id \cup {NoId})
        /\ Len(Append(toServer, NoId)) = Len(toServer) + 1
        /\ Len(toServer) \in Nat
    BY AppendEntries
  <2>2. Returned("broken", NoId) \in OutcomeType
    BY DEF Returned
  <2>3. /\ toServer' \in Seq(Id \cup {NoId})
        /\ Len(toServer') <= PipeCapacity
    <3>1. \/ toServer' = toServer
          \/ Len(toServer) < PipeCapacity /\ toServer' = Append(toServer, NoId)
      BY <1>10 DEF WriteNotify
    <3>2. CASE toServer' = toServer
      BY <3>2
    <3>3. CASE Len(toServer) < PipeCapacity /\ toServer' = Append(toServer, NoId)
      <4>1. PipeCapacity \in Nat
        BY StdioBounds
      <4> HIDE DEF TypeOK
      <4> QED BY <2>1, <3>3, <4>1
    <3> QED BY <3>1, <3>2, <3>3
  <2>4. outcome' \in [Caller -> OutcomeType]
    <3>1. outcome \in [Caller -> OutcomeType]
      BY DEF TypeOK
    <3>2. outcome' = outcome \/ outcome' = [outcome EXCEPT ![c] = Returned("broken", NoId)]
      BY <1>10 DEF WriteNotify
    <3> HIDE DEF OutcomeType, TypeOK
    <3> QED BY <3>1, <3>2, <2>2
  <2>5. mu' \in Caller \cup {NoCaller} /\ pc' \in [Caller -> PcType]
    BY <1>10 DEF WriteNotify
  <2> QED
    <3> HIDE DEF OutcomeType
    <3> QED BY <1>10, <2>3, <2>4, <2>5 DEF WriteNotify
<1>11. ASSUME OrphanTakes
      PROVE  TypeOK'
  <2>1. fromServer' \in Seq(LineType)
    BY <1>11, TailEntries DEF OrphanTakes
  <2> QED BY <1>11, <2>1 DEF OrphanTakes
<1>12. ASSUME BytesLost
      PROVE  TypeOK'
  <2>1. fromServer' \in Seq(LineType)
    BY <1>12, TailEntries DEF BytesLost
  <2> QED BY <1>12, <2>1 DEF BytesLost
<1>13. ASSUME Panic
      PROVE  TypeOK'
  BY <1>13, EmptySeq, StdioBounds DEF Panic
<1>14. ASSUME Close
      PROVE  TypeOK'
  <2>1. fromServer' \in Seq(LineType)
    BY <1>14, PrefixEntries DEF Close
  <2> QED BY <1>14, <2>1, EmptySeq, StdioBounds DEF Close
<1>15. ASSUME ServerReads
      PROVE  TypeOK'
  <2>1. /\ Tail(toServer) \in Seq(Id \cup {NoId})
        /\ Len(Tail(toServer)) = Len(toServer) - 1
        /\ Len(toServer) \in Nat
        /\ Head(toServer) \in Id \cup {NoId}
    BY <1>15, TailEntries DEF ServerReads
  <2> QED BY <1>15, <2>1, StdioBounds DEF ServerReads
<1>16. ASSUME NEW i \in Id, NEW kind \in {"result", "error"}, ServerAnswers(i, kind)
      PROVE  TypeOK'
  <2>1. Line(kind, i, i) \in LineType
    BY DEF Line, LineType
  <2>2. fromServer' \in Seq(LineType)
    BY <1>16, <2>1, AppendEntries DEF ServerAnswers
  <2> QED BY <1>16, <2>2 DEF ServerAnswers
<1>17. ASSUME NEW line \in Noise, ServerSays(line)
      PROVE  TypeOK'
  <2>1. line \in LineType
    BY DEF Noise, Line, LineType
  <2>2. fromServer' \in Seq(LineType)
    BY <1>17, <2>1, AppendEntries DEF ServerSays
  <2> QED BY <1>17, <2>2, StdioBounds DEF ServerSays
<1>18. ASSUME ServerExits
      PROVE  TypeOK'
  BY <1>18, EmptySeq, StdioBounds DEF ServerExits
<1>19. CASE UNCHANGED vars
  BY <1>19 DEF vars, callerVars, readerVars, serverVars
<1> QED
  BY <1>1, <1>2, <1>3, <1>4, <1>5, <1>6, <1>7, <1>8, <1>9, <1>10,
     <1>11, <1>12, <1>13, <1>14, <1>15, <1>16, <1>17, <1>18, <1>19
  DEF Next, CallerStep, Advance, Around, Server

(* Call counts a request, and Lock gives a counted one its id.             *)
LEMMA NextBounded ==
  ASSUME TypeOK, Bounded, [Next]_vars
  PROVE  Bounded'
<1>1. ASSUME NEW c \in Caller, NEW o \in {"call", "initialize"}, Call(c, o)
      PROVE  Bounded'
  <2>1. /\ c \notin Waiting /\ Begun < MaxCalls
        /\ Waiting' = Waiting \cup {c} /\ nextID' = nextID
    BY <1>1 DEF Call, Waiting, TypeOK, PcType
  <2>2. Cardinality(Waiting') = Cardinality(Waiting) + 1
    BY <2>1, WaitingIsFinite, FS_AddElement
  <2>3. Begun' = Begun + 1
    BY <2>1, <2>2, WaitingIsFinite DEF Begun, Waiting, TypeOK
  <2> QED BY <2>1, <2>3, WaitingIsFinite, StdioBounds DEF Bounded, TypeOK
<1>2. ASSUME NEW c \in Caller, Expire(c)
      PROVE  Bounded'
  <2>1. Waiting' = Waiting /\ nextID' = nextID
    BY <1>2 DEF Expire, Waiting, TypeOK, PcType
  <2> QED BY <2>1 DEF Bounded, Begun, Waiting
<1>3. ASSUME NEW c \in Caller, Lock(c)
      PROVE  Bounded'
  <2>1. /\ c \in Waiting
        /\ Waiting' = Waiting \ {c} /\ nextID' = nextID + 1
    BY <1>3 DEF Lock, Waiting, TypeOK, PcType
  <2>2. Cardinality(Waiting') = Cardinality(Waiting) - 1
    BY <2>1, WaitingIsFinite, FS_RemoveElement
  <2>3. Begun' = Begun
    BY <2>1, <2>2, WaitingIsFinite DEF Begun, Waiting, TypeOK
  <2> QED BY <2>3 DEF Bounded
<1>4. ASSUME NEW c \in Caller, LockNotify(c)
      PROVE  Bounded'
  <2>1. Waiting' = Waiting /\ nextID' = nextID
    BY <1>4 DEF LockNotify, Waiting, TypeOK, PcType
  <2> QED BY <2>1 DEF Bounded, Begun, Waiting
<1>5. ASSUME NEW c \in Caller, Write(c)
      PROVE  Bounded'
  <2>1. Waiting' = Waiting /\ nextID' = nextID
    BY <1>5 DEF Write, StartsReading, Waiting, TypeOK, PcType
  <2> QED BY <2>1 DEF Bounded, Begun, Waiting
<1>6. ASSUME NEW c \in Caller, WriteFails(c)
      PROVE  Bounded'
  <2>1. Waiting' = Waiting /\ nextID' = nextID
    BY <1>6 DEF WriteFails, Return, Waiting, TypeOK, PcType
  <2> QED BY <2>1 DEF Bounded, Begun, Waiting
<1>7. ASSUME NEW c \in Caller, ReadLine(c)
      PROVE  Bounded'
  <2>1. Waiting' = Waiting /\ nextID' = nextID
    <3>1. pc[c] = "read" /\ nextID' = nextID /\ \E line : Handle(c, line)
      BY <1>7 DEF ReadLine
    <3>2. pc' = pc \/ pc' = [pc EXCEPT ![c] = "idle"] \/ pc' = [pc EXCEPT ![c] = "lockNotify"]
      BY <3>1 DEF Handle, Return
    <3> QED BY <3>1, <3>2 DEF Waiting, TypeOK, PcType
  <2> QED BY <2>1 DEF Bounded, Begun, Waiting
<1>8. ASSUME NEW c \in Caller, ReadFails(c)
      PROVE  Bounded'
  <2>1. Waiting' = Waiting /\ nextID' = nextID
    BY <1>8 DEF ReadFails, Return, Waiting, TypeOK, PcType
  <2> QED BY <2>1 DEF Bounded, Begun, Waiting
<1>9. ASSUME NEW c \in Caller, TimeOut(c)
      PROVE  Bounded'
  <2>1. Waiting' = Waiting /\ nextID' = nextID
    BY <1>9 DEF TimeOut, Return, Waiting, TypeOK, PcType
  <2> QED BY <2>1 DEF Bounded, Begun, Waiting
<1>10. ASSUME NEW c \in Caller, WriteNotify(c)
      PROVE  Bounded'
  <2>1. Waiting' = Waiting /\ nextID' = nextID
    BY <1>10 DEF WriteNotify, Waiting, TypeOK, PcType
  <2> QED BY <2>1 DEF Bounded, Begun, Waiting
<1>11. ASSUME Around PROVE Bounded'
  <2>1. Waiting' = Waiting /\ nextID' = nextID
    BY <1>11, AroundLeavesCallers DEF Waiting
  <2> QED BY <2>1 DEF Bounded, Begun, Waiting
<1>12. CASE UNCHANGED vars
  <2>1. Waiting' = Waiting /\ nextID' = nextID
    BY <1>12 DEF vars, callerVars, Waiting
  <2> QED BY <2>1 DEF Bounded, Begun, Waiting
<1> QED
  BY <1>1, <1>2, <1>3, <1>4, <1>5, <1>6, <1>7, <1>8, <1>9, <1>10,
     <1>11, <1>12
  DEF Next, CallerStep, Advance

(* The server adds honest lines; everyone else takes lines away.           *)
LEMMA NextHonestLines ==
  ASSUME TypeOK, HonestLines, [Next]_vars
  PROVE  HonestLines'
<1> USE DEF callerVars, readerVars, serverVars
<1>1. ASSUME NEW c \in Caller, NEW o \in {"call", "initialize"}, Call(c, o)
      PROVE  HonestLines'
  BY <1>1 DEF HonestLines, Call
<1>2. ASSUME NEW c \in Caller, Expire(c)
      PROVE  HonestLines'
  BY <1>2 DEF HonestLines, Expire
<1>3. ASSUME NEW c \in Caller, Lock(c)
      PROVE  HonestLines'
  BY <1>3 DEF HonestLines, Lock
<1>4. ASSUME NEW c \in Caller, LockNotify(c)
      PROVE  HonestLines'
  BY <1>4 DEF HonestLines, LockNotify
<1>5. ASSUME NEW c \in Caller, Write(c)
      PROVE  HonestLines'
  BY <1>5 DEF HonestLines, Write, StartsReading
<1>6. ASSUME NEW c \in Caller, WriteFails(c)
      PROVE  HonestLines'
  BY <1>6 DEF HonestLines, WriteFails, Return
<1>7. ASSUME NEW c \in Caller, ReadLine(c)
      PROVE  HonestLines'
  <2>1. fromServer # <<>> =>
          /\ DOMAIN fromServer = 1 .. Len(fromServer) /\ Len(fromServer) \in Nat \ {0}
          /\ DOMAIN Tail(fromServer) = 1 .. Len(fromServer) - 1
          /\ \A k \in 1 .. Len(fromServer) - 1 : Tail(fromServer)[k] = fromServer[k + 1]
    BY TailEntries DEF TypeOK
  <2>2. fromServer' = fromServer \/ (fromServer # <<>> /\ fromServer' = Tail(fromServer))
    BY <1>7 DEF ReadLine
  <2> QED BY <2>1, <2>2 DEF HonestLines
<1>8. ASSUME NEW c \in Caller, ReadFails(c)
      PROVE  HonestLines'
  BY <1>8 DEF HonestLines, ReadFails, Return
<1>9. ASSUME NEW c \in Caller, TimeOut(c)
      PROVE  HonestLines'
  BY <1>9 DEF HonestLines, TimeOut, Return
<1>10. ASSUME NEW c \in Caller, WriteNotify(c)
      PROVE  HonestLines'
  BY <1>10 DEF HonestLines, WriteNotify
<1>11. ASSUME OrphanTakes
      PROVE  HonestLines'
  <2>1. fromServer # <<>> =>
          /\ DOMAIN fromServer = 1 .. Len(fromServer) /\ Len(fromServer) \in Nat \ {0}
          /\ DOMAIN Tail(fromServer) = 1 .. Len(fromServer) - 1
          /\ \A k \in 1 .. Len(fromServer) - 1 : Tail(fromServer)[k] = fromServer[k + 1]
    BY TailEntries DEF TypeOK
  <2>2. fromServer' = fromServer \/ (fromServer # <<>> /\ fromServer' = Tail(fromServer))
    BY <1>11 DEF OrphanTakes
  <2> QED BY <2>1, <2>2 DEF HonestLines
<1>12. ASSUME BytesLost
      PROVE  HonestLines'
  <2>1. fromServer # <<>> =>
          /\ DOMAIN fromServer = 1 .. Len(fromServer) /\ Len(fromServer) \in Nat \ {0}
          /\ DOMAIN Tail(fromServer) = 1 .. Len(fromServer) - 1
          /\ \A k \in 1 .. Len(fromServer) - 1 : Tail(fromServer)[k] = fromServer[k + 1]
    BY TailEntries DEF TypeOK
  <2>2. fromServer' = fromServer \/ (fromServer # <<>> /\ fromServer' = Tail(fromServer))
    BY <1>12 DEF BytesLost
  <2> QED BY <2>1, <2>2 DEF HonestLines
<1>13. ASSUME Panic
      PROVE  HonestLines'
  BY <1>13, LenProperties, EmptySeq DEF Panic, HonestLines
<1>14. ASSUME Close
      PROVE  HonestLines'
  <2>1. PICK n \in 0 .. Len(fromServer) : fromServer' = SubSeq(fromServer, 1, n)
    BY <1>14 DEF Close
  <2>2. /\ DOMAIN fromServer = 1 .. Len(fromServer)
        /\ DOMAIN fromServer' = 1 .. n
        /\ n <= Len(fromServer) /\ n \in Nat /\ Len(fromServer) \in Nat
        /\ \A k \in 1 .. n : fromServer'[k] = fromServer[k]
    BY <2>1, PrefixEntries DEF TypeOK
  <2> QED BY <2>2 DEF HonestLines
<1>15. ASSUME ServerReads
      PROVE  HonestLines'
  BY <1>15 DEF HonestLines, ServerReads
<1>16. ASSUME NEW i \in Id, NEW kind \in {"result", "error"}, ServerAnswers(i, kind)
      PROVE  HonestLines'
  <2>1. Line(kind, i, i) \in LineType
    BY DEF Line, LineType
  <2>2. /\ DOMAIN fromServer = 1 .. Len(fromServer) /\ Len(fromServer) \in Nat
        /\ DOMAIN fromServer' = 1 .. Len(fromServer) + 1
        /\ \A k \in 1 .. Len(fromServer) : fromServer'[k] = fromServer[k]
        /\ fromServer'[Len(fromServer) + 1] = Line(kind, i, i)
    BY <1>16, <2>1, AppendEntries DEF ServerAnswers, TypeOK
  <2>3. /\ Line(kind, i, i).of \in {Line(kind, i, i).id, NoId}
        /\ Line(kind, i, i).kind \in {"result", "error"} => Line(kind, i, i).of = Line(kind, i, i).id
    BY DEF Line
  <2> QED BY <2>2, <2>3 DEF HonestLines
<1>17. ASSUME NEW line \in Noise, ServerSays(line)
      PROVE  HonestLines'
  <2>1. line \in LineType
    BY DEF Noise, Line, LineType
  <2>2. /\ DOMAIN fromServer = 1 .. Len(fromServer) /\ Len(fromServer) \in Nat
        /\ DOMAIN fromServer' = 1 .. Len(fromServer) + 1
        /\ \A k \in 1 .. Len(fromServer) : fromServer'[k] = fromServer[k]
        /\ fromServer'[Len(fromServer) + 1] = line
    BY <1>17, <2>1, AppendEntries DEF ServerSays, TypeOK
  <2>3. /\ line.of \in {line.id, NoId}
        /\ line.kind \in {"result", "error"} => line.of = line.id
    BY DEF Noise, Line
  <2> QED BY <2>2, <2>3 DEF HonestLines
<1>18. ASSUME ServerExits
      PROVE  HonestLines'
  BY <1>18 DEF HonestLines, ServerExits
<1>19. CASE UNCHANGED vars
  BY <1>19 DEF vars, HonestLines
<1> QED
  BY <1>1, <1>2, <1>3, <1>4, <1>5, <1>6, <1>7, <1>8, <1>9, <1>10,
     <1>11, <1>12, <1>13, <1>14, <1>15, <1>16, <1>17, <1>18, <1>19
  DEF Next, CallerStep, Advance, Around, Server

(* A line is returned only under the id it carries.                        *)
LEMMA NextNoCrossDelivery ==
  ASSUME TypeOK, HonestLines, NoOutcomeYet, NoCrossDelivery, [Next]_vars
  PROVE  NoCrossDelivery'
<1> USE DEF NoCrossDelivery, callerVars, readerVars, serverVars, OutcomeType
<1>1. ASSUME NEW c \in Caller, NEW o \in {"call", "initialize"}, Call(c, o)
      PROVE  NoCrossDelivery'
  BY <1>1 DEF TypeOK, Returned, Call
<1>2. ASSUME NEW c \in Caller, Expire(c)
      PROVE  NoCrossDelivery'
  BY <1>2 DEF TypeOK, Returned, Expire
<1>3. ASSUME NEW c \in Caller, Lock(c)
      PROVE  NoCrossDelivery'
  BY <1>3 DEF TypeOK, Lock, NoOutcomeYet, Returned
<1>4. ASSUME NEW c \in Caller, LockNotify(c)
      PROVE  NoCrossDelivery'
  BY <1>4 DEF TypeOK, Returned, LockNotify
<1>5. ASSUME NEW c \in Caller, Write(c)
      PROVE  NoCrossDelivery'
  BY <1>5 DEF TypeOK, Returned, Write, StartsReading
<1>6. ASSUME NEW c \in Caller, WriteFails(c)
      PROVE  NoCrossDelivery'
  BY <1>6 DEF TypeOK, Returned, WriteFails, Return
<1>7. ASSUME NEW c \in Caller, ReadLine(c)
      PROVE  NoCrossDelivery'
  <2>1. PICK line \in {Head(fromServer)} \cup IF torn THEN TornLine ELSE {} : Handle(c, line)
    BY <1>7 DEF ReadLine
  <2> SUFFICES ASSUME ~torn'
               PROVE  \A d \in Caller : outcome'[d].kind \in {"result", "error"}
                                            => outcome'[d].of \in {id'[d], NoId}
    BY DEF NoCrossDelivery
  <2>2. ~torn /\ line = Head(fromServer) /\ id' = id
    BY <1>7, <2>1 DEF ReadLine, Handle, StartsReading, TypeOK
  <2>3. line.of \in {line.id, NoId}
    <3>1. 1 \in DOMAIN fromServer /\ line = fromServer[1]
      BY <1>7, <2>2, TailEntries DEF ReadLine, TypeOK
    <3> QED BY <3>1 DEF HonestLines
  <2>4. CASE Matches(line, id[c])
    <3>1. line.of \in {id[c], NoId}
      BY <2>3, <2>4 DEF Matches
    <3>2. PICK kind : outcome' = [outcome EXCEPT ![c] = Returned(kind, line.of)]
      BY <2>1, <2>4 DEF Handle, Return
    <3>3. /\ outcome'[c].of = line.of
          /\ \A d \in Caller \ {c} : outcome'[d] = outcome[d]
      BY <3>2 DEF Returned, TypeOK
    <3> QED BY <2>2, <3>1, <3>3
  <2>5. CASE ~Matches(line, id[c])
    BY <2>1, <2>2, <2>5 DEF Handle
  <2> QED BY <2>4, <2>5
<1>8. ASSUME NEW c \in Caller, ReadFails(c)
      PROVE  NoCrossDelivery'
  BY <1>8 DEF TypeOK, Returned, ReadFails, Return
<1>9. ASSUME NEW c \in Caller, TimeOut(c)
      PROVE  NoCrossDelivery'
  BY <1>9 DEF TypeOK, Returned, TimeOut, Return
<1>10. ASSUME NEW c \in Caller, WriteNotify(c)
      PROVE  NoCrossDelivery'
  BY <1>10 DEF TypeOK, Returned, WriteNotify
<1>11. ASSUME Around PROVE NoCrossDelivery'
  BY <1>11, AroundLeavesCallers, AroundLeavesTorn
<1>12. CASE UNCHANGED vars
  BY <1>12 DEF vars, callerVars, readerVars, serverVars
<1> QED
  BY <1>1, <1>2, <1>3, <1>4, <1>5, <1>6, <1>7, <1>8, <1>9, <1>10,
     <1>11, <1>12
  DEF Next, CallerStep, Advance

(* Lock hands out a larger id than any before, and only its holder writes. *)
LEMMA NextWireBehind ==
  ASSUME TypeOK, Exclusive, WireBehind, [Next]_vars
  PROVE  WireBehind'
<1> USE DEF callerVars, readerVars, serverVars
<1>1. ASSUME NEW c \in Caller, NEW o \in {"call", "initialize"}, Call(c, o)
      PROVE  WireBehind'
  BY <1>1 DEF TypeOK, PcType, Exclusive, WireBehind, WireInOrder, Call
<1>2. ASSUME NEW c \in Caller, Expire(c)
      PROVE  WireBehind'
  BY <1>2 DEF TypeOK, PcType, Exclusive, WireBehind, WireInOrder, Expire
<1>3. ASSUME NEW c \in Caller, Lock(c)
      PROVE  WireBehind'
  <2>1. \A d \in Caller : pc[d] # "write"
    BY <1>3, CallerAssumption DEF Lock, Exclusive
  <2>2. /\ nextID \in Nat /\ nextID' = nextID + 1 /\ id'[c] = nextID + 1
        /\ \A k \in DOMAIN toServer : toServer[k] \in Nat
    BY <1>3, LenProperties, ElementOfSeq DEF Lock, TypeOK, Id, NoId
  <2>3. toServer' = toServer /\ \A d \in Caller : pc'[d] = "write" => d = c
    BY <1>3, <2>1 DEF Lock, TypeOK
  <2> QED BY <2>2, <2>3 DEF WireBehind
<1>4. ASSUME NEW c \in Caller, LockNotify(c)
      PROVE  WireBehind'
  BY <1>4 DEF TypeOK, PcType, Exclusive, WireBehind, WireInOrder, LockNotify
<1>5. ASSUME NEW c \in Caller, Write(c)
      PROVE  WireBehind'
  <2>1. /\ toServer \in Seq(Id \cup {NoId}) /\ id[c] \in Id \cup {NoId}
        /\ toServer' = Append(toServer, id[c])
    BY <1>5 DEF Write, TypeOK
  <2>2. /\ DOMAIN toServer = 1 .. Len(toServer) /\ Len(toServer) \in Nat
        /\ DOMAIN toServer' = 1 .. Len(toServer) + 1
        /\ \A k \in 1 .. Len(toServer) : toServer'[k] = toServer[k]
        /\ toServer'[Len(toServer) + 1] = id[c]
    BY <2>1, AppendEntries
  <2>3. \A d \in Caller : pc'[d] # "write"
    BY <1>5 DEF Write, Exclusive, TypeOK
  <2>4. id[c] = nextID /\ nextID' = nextID /\ nextID \in Nat
    BY <1>5 DEF Write, WireBehind, TypeOK
  <2> QED BY <2>2, <2>3, <2>4 DEF WireBehind
<1>6. ASSUME NEW c \in Caller, WriteFails(c)
      PROVE  WireBehind'
  BY <1>6 DEF TypeOK, PcType, Exclusive, WireBehind, WireInOrder, WriteFails, Return
<1>7. ASSUME NEW c \in Caller, ReadLine(c)
      PROVE  WireBehind'
  <2>1. toServer' = toServer /\ nextID' = nextID /\ id' = id
    BY <1>7 DEF ReadLine
  <2>2. \A d \in Caller : pc'[d] = "write" => pc[d] = "write"
    BY <1>7 DEF ReadLine, Handle, Return, TypeOK
  <2> QED BY <2>1, <2>2 DEF WireBehind
<1>8. ASSUME NEW c \in Caller, ReadFails(c)
      PROVE  WireBehind'
  BY <1>8 DEF TypeOK, PcType, Exclusive, WireBehind, WireInOrder, ReadFails, Return
<1>9. ASSUME NEW c \in Caller, TimeOut(c)
      PROVE  WireBehind'
  BY <1>9 DEF TypeOK, PcType, Exclusive, WireBehind, WireInOrder, TimeOut, Return
<1>10. ASSUME NEW c \in Caller, WriteNotify(c)
      PROVE  WireBehind'
  <2>1. CASE toServer' = toServer
    BY <1>10, <2>1 DEF WriteNotify, TypeOK, PcType, WireBehind, WireInOrder
  <2>2. CASE toServer' = Append(toServer, NoId)
    <3>1. /\ DOMAIN toServer = 1 .. Len(toServer) /\ Len(toServer) \in Nat
          /\ DOMAIN toServer' = 1 .. Len(toServer) + 1
          /\ \A k \in 1 .. Len(toServer) : toServer'[k] = toServer[k]
          /\ toServer'[Len(toServer) + 1] = NoId
      BY <2>2, AppendEntries DEF TypeOK
    <3>2. \A d \in Caller : pc'[d] # "write"
      BY <1>10 DEF WriteNotify, Exclusive, TypeOK
    <3>3. nextID' = nextID /\ nextID \in Nat
      BY <1>10 DEF WriteNotify, TypeOK
    <3> QED BY <3>1, <3>2, <3>3 DEF WireBehind, NoId
  <2> QED BY <1>10, <2>1, <2>2 DEF WriteNotify
<1>11. ASSUME OrphanTakes
      PROVE  WireBehind'
  BY <1>11 DEF TypeOK, PcType, Exclusive, WireBehind, WireInOrder, OrphanTakes
<1>12. ASSUME BytesLost
      PROVE  WireBehind'
  BY <1>12 DEF TypeOK, PcType, Exclusive, WireBehind, WireInOrder, BytesLost
<1>13. ASSUME Panic
      PROVE  WireBehind'
  BY <1>13 DEF Panic, WireBehind, WireInOrder
<1>14. ASSUME Close
      PROVE  WireBehind'
  BY <1>14 DEF Close, WireBehind, WireInOrder
<1>15. ASSUME ServerReads
      PROVE  WireBehind'
  <2>1. /\ DOMAIN toServer = 1 .. Len(toServer) /\ Len(toServer) \in Nat \ {0}
        /\ DOMAIN toServer' = 1 .. Len(toServer) - 1
        /\ \A k \in 1 .. Len(toServer) - 1 : toServer'[k] = toServer[k + 1]
    BY <1>15, TailEntries DEF ServerReads, TypeOK
  <2>2. \A k \in DOMAIN toServer' : k + 1 \in DOMAIN toServer /\ toServer'[k] = toServer[k + 1]
    BY <2>1
  <2>3. nextID' = nextID /\ pc' = pc /\ id' = id
    BY <1>15 DEF ServerReads
  <2> QED BY <2>2, <2>3 DEF WireBehind
<1>16. ASSUME NEW i \in Id, NEW kind \in {"result", "error"}, ServerAnswers(i, kind)
      PROVE  WireBehind'
  BY <1>16 DEF TypeOK, PcType, Exclusive, WireBehind, WireInOrder, ServerAnswers
<1>17. ASSUME NEW line \in Noise, ServerSays(line)
      PROVE  WireBehind'
  BY <1>17 DEF TypeOK, PcType, Exclusive, WireBehind, WireInOrder, ServerSays
<1>18. ASSUME ServerExits
      PROVE  WireBehind'
  BY <1>18 DEF ServerExits, WireBehind, WireInOrder
<1>19. CASE UNCHANGED vars
  BY <1>19 DEF vars, WireBehind
<1> QED
  BY <1>1, <1>2, <1>3, <1>4, <1>5, <1>6, <1>7, <1>8, <1>9, <1>10,
     <1>11, <1>12, <1>13, <1>14, <1>15, <1>16, <1>17, <1>18, <1>19
  DEF Next, CallerStep, Advance, Around, Server

(* What is written comes behind smaller ids.                               *)
LEMMA NextWireInOrder ==
  ASSUME TypeOK, Exclusive, WireBehind, WireInOrder, [Next]_vars
  PROVE  WireInOrder'
<1> USE DEF callerVars, readerVars, serverVars
<1>1. ASSUME NEW c \in Caller, NEW o \in {"call", "initialize"}, Call(c, o)
      PROVE  WireInOrder'
  BY <1>1 DEF WireInOrder, Call
<1>2. ASSUME NEW c \in Caller, Expire(c)
      PROVE  WireInOrder'
  BY <1>2 DEF WireInOrder, Expire
<1>3. ASSUME NEW c \in Caller, Lock(c)
      PROVE  WireInOrder'
  BY <1>3 DEF WireInOrder, Lock
<1>4. ASSUME NEW c \in Caller, LockNotify(c)
      PROVE  WireInOrder'
  BY <1>4 DEF WireInOrder, LockNotify
<1>5. ASSUME NEW c \in Caller, Write(c)
      PROVE  WireInOrder'
  <2>1. /\ toServer \in Seq(Id \cup {NoId}) /\ id[c] \in Id \cup {NoId}
        /\ toServer' = Append(toServer, id[c])
    BY <1>5 DEF Write, TypeOK
  <2>2. /\ DOMAIN toServer = 1 .. Len(toServer) /\ Len(toServer) \in Nat
        /\ DOMAIN toServer' = 1 .. Len(toServer) + 1
        /\ \A k \in 1 .. Len(toServer) : toServer'[k] = toServer[k]
        /\ toServer'[Len(toServer) + 1] = id[c]
    BY <2>1, AppendEntries
  <2>3. id[c] = nextID /\ nextID \in Nat /\ \A k \in DOMAIN toServer : toServer[k] < nextID
    BY <1>5 DEF Write, WireBehind, TypeOK
  <2> QED BY <2>2, <2>3 DEF WireInOrder
<1>6. ASSUME NEW c \in Caller, WriteFails(c)
      PROVE  WireInOrder'
  BY <1>6 DEF WireInOrder, WriteFails
<1>7. ASSUME NEW c \in Caller, ReadLine(c)
      PROVE  WireInOrder'
  BY <1>7 DEF WireInOrder, ReadLine
<1>8. ASSUME NEW c \in Caller, ReadFails(c)
      PROVE  WireInOrder'
  BY <1>8 DEF WireInOrder, ReadFails
<1>9. ASSUME NEW c \in Caller, TimeOut(c)
      PROVE  WireInOrder'
  BY <1>9 DEF WireInOrder, TimeOut
<1>10. ASSUME NEW c \in Caller, WriteNotify(c)
      PROVE  WireInOrder'
  <2>1. CASE toServer' = toServer
    BY <1>10, <2>1 DEF WriteNotify, TypeOK, PcType, WireBehind, WireInOrder
  <2>2. CASE toServer' = Append(toServer, NoId)
    <3>1. /\ DOMAIN toServer = 1 .. Len(toServer) /\ Len(toServer) \in Nat
          /\ DOMAIN toServer' = 1 .. Len(toServer) + 1
          /\ \A k \in 1 .. Len(toServer) : toServer'[k] = toServer[k]
          /\ toServer'[Len(toServer) + 1] = NoId
      BY <2>2, AppendEntries DEF TypeOK
    <3> QED BY <3>1 DEF WireInOrder
  <2> QED BY <1>10, <2>1, <2>2 DEF WriteNotify
<1>11. ASSUME OrphanTakes
      PROVE  WireInOrder'
  BY <1>11 DEF WireInOrder, OrphanTakes
<1>12. ASSUME BytesLost
      PROVE  WireInOrder'
  BY <1>12 DEF WireInOrder, BytesLost
<1>13. ASSUME Panic
      PROVE  WireInOrder'
  BY <1>13 DEF Panic, WireBehind, WireInOrder
<1>14. ASSUME Close
      PROVE  WireInOrder'
  BY <1>14 DEF Close, WireBehind, WireInOrder
<1>15. ASSUME ServerReads
      PROVE  WireInOrder'
  <2>1. /\ DOMAIN toServer = 1 .. Len(toServer) /\ Len(toServer) \in Nat \ {0}
        /\ DOMAIN toServer' = 1 .. Len(toServer) - 1
        /\ \A k \in 1 .. Len(toServer) - 1 : toServer'[k] = toServer[k + 1]
    BY <1>15, TailEntries DEF ServerReads, TypeOK
  <2>2. \A k \in DOMAIN toServer' : k + 1 \in DOMAIN toServer /\ toServer'[k] = toServer[k + 1]
    BY <2>1
  <2> QED BY <2>1, <2>2 DEF WireInOrder
<1>16. ASSUME NEW i \in Id, NEW kind \in {"result", "error"}, ServerAnswers(i, kind)
      PROVE  WireInOrder'
  BY <1>16 DEF WireInOrder, ServerAnswers
<1>17. ASSUME NEW line \in Noise, ServerSays(line)
      PROVE  WireInOrder'
  BY <1>17 DEF WireInOrder, ServerSays
<1>18. ASSUME ServerExits
      PROVE  WireInOrder'
  BY <1>18 DEF ServerExits, WireBehind, WireInOrder
<1>19. CASE UNCHANGED vars
  BY <1>19 DEF vars, WireInOrder
<1> QED
  BY <1>1, <1>2, <1>3, <1>4, <1>5, <1>6, <1>7, <1>8, <1>9, <1>10,
     <1>11, <1>12, <1>13, <1>14, <1>15, <1>16, <1>17, <1>18, <1>19
  DEF Next, CallerStep, Advance, Around, Server

(* The request of the caller that reads moves on, and only the caller      *)
(* takes its answer.                                                       *)
LEMMA NextAnswerNotLost ==
  ASSUME TypeOK, Exclusive, SharedIsTorn, HonestLines, AnswerNotLost, [Next]_vars
  PROVE  AnswerNotLost'
<1> USE DEF callerVars, readerVars, serverVars
<1>1. ASSUME NEW c \in Caller, NEW o \in {"call", "initialize"}, Call(c, o)
      PROVE  AnswerNotLost'
  <2>1. UNCHANGED <<working, toServer, fromServer, torn, process>>
    BY <1>1 DEF Call
  <2>2. \A d \in Caller : pc'[d] = "read" => pc[d] = "read" /\ id'[d] = id[d]
    BY <1>1 DEF Call, TypeOK, PcType
  <2> QED BY <2>1, <2>2 DEF AnswerNotLost, InFlight
<1>2. ASSUME NEW c \in Caller, Expire(c)
      PROVE  AnswerNotLost'
  <2>1. UNCHANGED <<working, toServer, fromServer, torn, process>>
    BY <1>2 DEF Expire
  <2>2. \A d \in Caller : pc'[d] = "read" => pc[d] = "read" /\ id'[d] = id[d]
    BY <1>2 DEF Expire, TypeOK, PcType
  <2> QED BY <2>1, <2>2 DEF AnswerNotLost, InFlight
<1>3. ASSUME NEW c \in Caller, Lock(c)
      PROVE  AnswerNotLost'
  <2>1. UNCHANGED <<working, toServer, fromServer, torn, process>>
    BY <1>3 DEF Lock
  <2>2. \A d \in Caller : pc'[d] = "read" => pc[d] = "read" /\ id'[d] = id[d]
    BY <1>3 DEF Lock, TypeOK, PcType
  <2> QED BY <2>1, <2>2 DEF AnswerNotLost, InFlight
<1>4. ASSUME NEW c \in Caller, LockNotify(c)
      PROVE  AnswerNotLost'
  <2>1. UNCHANGED <<working, toServer, fromServer, torn, process>>
    BY <1>4 DEF LockNotify
  <2>2. \A d \in Caller : pc'[d] = "read" => pc[d] = "read" /\ id'[d] = id[d]
    BY <1>4 DEF LockNotify, TypeOK, PcType
  <2> QED BY <2>1, <2>2 DEF AnswerNotLost, InFlight
<1>5. ASSUME NEW c \in Caller, Write(c)
      PROVE  AnswerNotLost'
  <2>1. /\ toServer \in Seq(Id \cup {NoId}) /\ id[c] \in Id \cup {NoId}
        /\ toServer' = Append(toServer, id[c])
    BY <1>5 DEF Write, TypeOK
  <2>2. /\ DOMAIN toServer = 1 .. Len(toServer) /\ Len(toServer) \in Nat
        /\ DOMAIN toServer' = 1 .. Len(toServer) + 1
        /\ \A k \in 1 .. Len(toServer) : toServer'[k] = toServer[k]
        /\ toServer'[Len(toServer) + 1] = id[c]
    BY <2>1, AppendEntries
  <2>3. \A d \in Caller : pc'[d] = "read" => d = c
    BY <1>5 DEF Write, Exclusive, TypeOK
  <2>4. Len(toServer) + 1 \in DOMAIN toServer' /\ id' = id
    BY <1>5, <2>2 DEF Write
  <2> QED BY <2>2, <2>3, <2>4 DEF AnswerNotLost, InFlight
<1>6. ASSUME NEW c \in Caller, WriteFails(c)
      PROVE  AnswerNotLost'
  <2>1. UNCHANGED <<working, toServer, fromServer, torn, process>>
    BY <1>6 DEF WriteFails, Return
  <2>2. \A d \in Caller : pc'[d] = "read" => pc[d] = "read" /\ id'[d] = id[d]
    BY <1>6 DEF WriteFails, Return, TypeOK, PcType
  <2> QED BY <2>1, <2>2 DEF AnswerNotLost, InFlight
<1>7. ASSUME NEW c \in Caller, ReadLine(c)
      PROVE  AnswerNotLost'
  <2> SUFFICES ASSUME process' = "up", ~torn', NEW d \in Caller, pc'[d] = "read"
               PROVE  InFlight(id[d])'
    BY DEF AnswerNotLost
  <2>1. PICK line \in {Head(fromServer)} \cup IF torn THEN TornLine ELSE {} : Handle(c, line)
    BY <1>7 DEF ReadLine
  <2>2. /\ d = c /\ id' = id /\ process = "up" /\ ~torn /\ pc[c] = "read"
        /\ line = Head(fromServer) /\ line.id # id[c]
    BY <1>7, <2>1 DEF ReadLine, Handle, StartsReading, Return, Matches, Exclusive, TypeOK
  <2>3. /\ DOMAIN fromServer = 1 .. Len(fromServer) /\ Len(fromServer) \in Nat \ {0}
        /\ DOMAIN fromServer' = 1 .. Len(fromServer) - 1
        /\ \A k \in 1 .. Len(fromServer) - 1 : fromServer'[k] = fromServer[k + 1]
        /\ line = fromServer[1]
    BY <1>7, <2>2, TailEntries DEF ReadLine, TypeOK
  <2>4. fromServer[1].of # id[c]
    BY <2>2, <2>3 DEF HonestLines, TypeOK, Id, NoId
  <2>5. \A k \in 2 .. Len(fromServer) : fromServer'[k - 1] = fromServer[k] /\ k - 1 \in DOMAIN fromServer'
    BY <2>3
  <2>6. InFlight(id[c])
    BY <2>2 DEF AnswerNotLost
  <2>7. (\E k \in DOMAIN fromServer : fromServer[k].of = id[c])
          => \E k \in DOMAIN fromServer' : fromServer'[k].of = id[c]
    BY <2>3, <2>4, <2>5
  <2> QED BY <1>7, <2>2, <2>6, <2>7 DEF InFlight, ReadLine
<1>8. ASSUME NEW c \in Caller, ReadFails(c)
      PROVE  AnswerNotLost'
  <2>1. UNCHANGED <<working, toServer, fromServer, torn, process>>
    BY <1>8 DEF ReadFails, Return
  <2>2. \A d \in Caller : pc'[d] = "read" => pc[d] = "read" /\ id'[d] = id[d]
    BY <1>8 DEF ReadFails, Return, TypeOK, PcType
  <2> QED BY <2>1, <2>2 DEF AnswerNotLost, InFlight
<1>9. ASSUME NEW c \in Caller, TimeOut(c)
      PROVE  AnswerNotLost'
  <2>1. UNCHANGED <<working, toServer, fromServer, torn, process>>
    BY <1>9 DEF TimeOut, Return
  <2>2. \A d \in Caller : pc'[d] = "read" => pc[d] = "read" /\ id'[d] = id[d]
    BY <1>9 DEF TimeOut, Return, TypeOK, PcType
  <2> QED BY <2>1, <2>2 DEF AnswerNotLost, InFlight
<1>10. ASSUME NEW c \in Caller, WriteNotify(c)
      PROVE  AnswerNotLost'
  <2>1. \A d \in Caller : pc'[d] # "read"
    BY <1>10 DEF WriteNotify, Exclusive, TypeOK
  <2> QED BY <2>1 DEF AnswerNotLost
<1>11. ASSUME OrphanTakes
      PROVE  AnswerNotLost'
  <2>1. torn' = torn /\ pc' = pc /\ (~torn => \A d \in Caller : pc[d] # "read")
    BY <1>11 DEF OrphanTakes, SharedIsTorn
  <2> QED BY <2>1 DEF AnswerNotLost
<1>12. ASSUME BytesLost
      PROVE  AnswerNotLost'
  BY <1>12 DEF BytesLost, AnswerNotLost
<1>13. ASSUME Panic
      PROVE  AnswerNotLost'
  BY <1>13 DEF Panic, AnswerNotLost
<1>14. ASSUME Close
      PROVE  AnswerNotLost'
  BY <1>14 DEF Close, AnswerNotLost
<1>15. ASSUME ServerReads
      PROVE  AnswerNotLost'
  <2>1. /\ DOMAIN toServer = 1 .. Len(toServer) /\ Len(toServer) \in Nat \ {0}
        /\ DOMAIN toServer' = 1 .. Len(toServer) - 1
        /\ \A k \in 1 .. Len(toServer) - 1 : toServer'[k] = toServer[k + 1]
        /\ Head(toServer) = toServer[1]
    BY <1>15, TailEntries DEF ServerReads, TypeOK
  <2>2. /\ UNCHANGED <<pc, id, fromServer, torn, process>>
        /\ working' = working \cup ({toServer[1]} \ {NoId})
    BY <1>15, <2>1 DEF ServerReads
  <2>3. \A k \in 2 .. Len(toServer) : toServer'[k - 1] = toServer[k] /\ k - 1 \in DOMAIN toServer'
    BY <2>1
  <2>4. ASSUME NEW j \in Id, InFlight(j)
        PROVE  InFlight(j)'
    <3>1. CASE \E k \in DOMAIN toServer : toServer[k] = j
      BY <2>1, <2>2, <2>3, <3>1 DEF InFlight, Id, NoId
    <3> QED BY <2>2, <2>4, <3>1 DEF InFlight
  <2>5. \A d \in Caller : pc[d] = "read" => id[d] \in Id
    BY DEF TypeOK
  <2> QED BY <2>2, <2>4, <2>5 DEF AnswerNotLost, InFlight
<1>16. ASSUME NEW i \in Id, NEW kind \in {"result", "error"}, ServerAnswers(i, kind)
      PROVE  AnswerNotLost'
  <2>1. Line(kind, i, i) \in LineType
    BY DEF Line, LineType
  <2>2. /\ DOMAIN fromServer = 1 .. Len(fromServer) /\ Len(fromServer) \in Nat
        /\ DOMAIN fromServer' = 1 .. Len(fromServer) + 1
        /\ \A k \in 1 .. Len(fromServer) : fromServer'[k] = fromServer[k]
        /\ fromServer'[Len(fromServer) + 1] = Line(kind, i, i)
    BY <1>16, <2>1, AppendEntries DEF ServerAnswers, TypeOK
  <2>3. /\ Len(fromServer) + 1 \in DOMAIN fromServer'
        /\ fromServer'[Len(fromServer) + 1].of = i
    BY <2>2 DEF Line
  <2>4. UNCHANGED <<pc, id, toServer, torn, process>> /\ working' = working \ {i}
    BY <1>16 DEF ServerAnswers
  <2> QED BY <2>2, <2>3, <2>4 DEF AnswerNotLost, InFlight
<1>17. ASSUME NEW line \in Noise, ServerSays(line)
      PROVE  AnswerNotLost'
  <2>1. line \in LineType
    BY DEF Noise, Line, LineType
  <2>2. /\ DOMAIN fromServer = 1 .. Len(fromServer) /\ Len(fromServer) \in Nat
        /\ DOMAIN fromServer' = 1 .. Len(fromServer) + 1
        /\ \A k \in 1 .. Len(fromServer) : fromServer'[k] = fromServer[k]
        /\ fromServer'[Len(fromServer) + 1] = line
    BY <1>17, <2>1, AppendEntries DEF ServerSays, TypeOK
  <2>3. UNCHANGED <<pc, id, toServer, working, torn, process>>
    BY <1>17 DEF ServerSays
  <2> QED BY <2>2, <2>3 DEF AnswerNotLost, InFlight
<1>18. ASSUME ServerExits
      PROVE  AnswerNotLost'
  BY <1>18 DEF ServerExits, AnswerNotLost
<1>19. CASE UNCHANGED vars
  BY <1>19 DEF vars, AnswerNotLost, InFlight
<1> QED
  BY <1>1, <1>2, <1>3, <1>4, <1>5, <1>6, <1>7, <1>8, <1>9, <1>10,
     <1>11, <1>12, <1>13, <1>14, <1>15, <1>16, <1>17, <1>18, <1>19
  DEF Next, CallerStep, Advance, Around, Server

-----------------------------------------------------------------------------
LEMMA InitIInv == Init => IInv
<1> SUFFICES ASSUME Init PROVE IInv
  OBVIOUS
<1>1. TypeOK
  <2>1. Returned("none", NoId) \in OutcomeType
    BY DEF Returned, OutcomeType
  <2>2. outcome \in [Caller -> OutcomeType]
    BY <2>1 DEF Init
  <2>3. /\ toServer \in Seq(Id \cup {NoId}) /\ Len(toServer) = 0
        /\ fromServer \in Seq(LineType)
    BY EmptySeq DEF Init
  <2>4. /\ pc \in [Caller -> PcType]
        /\ id \in [Caller -> Id \cup {NoId}]
        /\ \A c \in Caller : pc[c] \notin {"write", "read"}
    BY DEF Init, PcType
  <2>5. /\ nextID \in 0 .. MaxCalls /\ noise \in 0 .. MaxNoise
        /\ Len(toServer) <= PipeCapacity
    BY <2>3, StdioBounds DEF Init
  <2>6. /\ op \in [Caller -> {"call", "initialize"}]
        /\ expired \in [Caller -> BOOLEAN]
    BY DEF Init
  <2> QED BY <2>2, <2>3, <2>4, <2>5, <2>6 DEF Init, TypeOK
<1>2. Bounded
  <2>1. Waiting = {}
    BY DEF Init, Waiting
  <2> QED BY <2>1, WaitingIsFinite, FS_EmptySet, StdioBounds DEF Init, Bounded
<1>3. DOMAIN toServer = {} /\ DOMAIN fromServer = {}
  BY DEF Init
<1>4. Exclusive /\ SharedIsTorn /\ NoOutcomeYet /\ NoCrossDelivery /\ AnswerNotLost
  BY DEF Init, Exclusive, SharedIsTorn, NoOutcomeYet, NoCrossDelivery, AnswerNotLost, Returned
<1>5. HonestLines /\ WireBehind /\ WireInOrder
  BY <1>3 DEF Init, HonestLines, WireBehind, WireInOrder
<1> QED BY <1>1, <1>2, <1>4, <1>5 DEF IInv

LEMMA NextIInv == IInv /\ [Next]_vars => IInv'
<1> SUFFICES ASSUME IInv, [Next]_vars PROVE IInv'
  OBVIOUS
<1> USE DEF IInv
<1>1. Bounded' BY NextBounded
<1>2. TypeOK' BY <1>1, NextTypeOK
<1>3. Exclusive' /\ SharedIsTorn' BY NextExclusive, NextSharedIsTorn
<1>4. HonestLines' /\ NoOutcomeYet' BY NextHonestLines, NextNoOutcomeYet
<1>5. NoCrossDelivery' BY NextNoCrossDelivery
<1>6. WireBehind' /\ WireInOrder' BY NextWireBehind, NextWireInOrder
<1>7. AnswerNotLost' BY NextAnswerNotLost
<1> QED BY <1>1, <1>2, <1>3, <1>4, <1>5, <1>6, <1>7

LEMMA AlwaysIInv == Spec => []IInv
BY InitIInv, NextIInv, PTL DEF Spec

(* Every variable stays in its type, and the ids of requests on the wire   *)
(* are positive (stdio.go:156, 235).                                       *)
THEOREM TypeCorrect == Spec => []TypeOK
<1>1. IInv => TypeOK BY DEF IInv
<1> QED BY <1>1, AlwaysIInv, PTL

(* As long as no two goroutines have shared the reader, no caller is given *)
(* the answer to another's request, nor to an earlier one of its own that  *)
(* timed out (stdio.go:161-177).                                           *)
THEOREM AnswersMatch == Spec => []NoCrossDelivery
<1>1. IInv => NoCrossDelivery BY DEF IInv
<1> QED BY <1>1, AlwaysIInv, PTL

(* The one way to share the reader is a caller that stopped waiting: the   *)
(* mutex leaves no other (stdio.go:153-154, 209-211).                      *)
THEOREM OnlyTimeoutsOverlap == Spec => []OverlapNeedsTimeout
<1>1. ASSUME IInv PROVE OverlapNeedsTimeout
  <2> DEFINE Reading == {c \in Caller : pc[c] = "read"}
  <2>1. Reading \subseteq {mu}
    BY <1>1 DEF IInv, Exclusive
  <2>2. IsFiniteSet({mu}) /\ Cardinality({mu}) = 1
    BY FS_Singleton
  <2>3. Cardinality(Reading) <= 1 /\ Cardinality(Reading) \in Nat
    BY <2>1, <2>2, FS_Subset, FS_CardinalityType
  <2>4. Readers > 1 => orphans > 0
    BY <1>1, <2>3 DEF Readers, IInv, TypeOK
  <2> QED BY <1>1, <2>4 DEF IInv, SharedIsTorn, OverlapNeedsTimeout
<1> QED BY <1>1, AlwaysIInv, PTL

(* The server reads requests in the order of their ids (stdio.go:153-157). *)
THEOREM RequestsInOrder == Spec => []WireInOrder
<1>1. IInv => WireInOrder BY DEF IInv
<1> QED BY <1>1, AlwaysIInv, PTL

(* In a reader never shared, a waiting caller's answer is not taken by     *)
(* anyone else, a goroutine left behind included (stdio.go:203-211).       *)
THEOREM AnswersAreKept == Spec => []AnswerNotLost
<1>1. IInv => AnswerNotLost BY DEF IInv
<1> QED BY <1>1, AlwaysIInv, PTL

-----------------------------------------------------------------------------
(* What CallsReturn owes to the code and not to its scheduling.            *)
(* request and notify unlock on every way out (stdio.go:154, 182, "defer   *)
(* c.mu.Unlock()"): whoever holds the mutex is between Lock and return, so *)
(* that nobody waits for a caller that is gone, and nobody else is there.  *)
LockNotLeaked ==
  \A c \in Caller : mu = c <=> pc[c] \in {"write", "read", "writeNotify"}

(* No two callers have one id, and an id is larger than all that were ever *)
(* given, so that it is not used again even when the call that had it has  *)
(* failed or timed out and its answer may still come (stdio.go:156).       *)
IdsUsedOnce ==
  /\ \A c \in Caller : id[c] <= nextID
  /\ \A c, d \in Caller : c # d /\ id[c] # NoId => id[c] # id[d]

GivesNewId ==
  /\ nextID' >= nextID
  /\ \A c \in Caller : id'[c] \in {id[c], NoId} \/ nextID < id'[c]

IdsGrow == [][GivesNewId]_vars

LEMMA CallerOrAround ==
  ASSUME [Next]_vars
  PROVE  \/ \E c \in Caller : CallerStep(c)
         \/ UNCHANGED <<pc, mu, id, nextID>>
<1>1. Around => UNCHANGED <<pc, mu, id, nextID>>
  BY AroundLeavesCallers
<1> QED BY <1>1 DEF Next, vars, callerVars

LEMMA NextLockNotLeaked ==
  ASSUME TypeOK, LockNotLeaked, [Next]_vars
  PROVE  LockNotLeaked'
<1>1. CASE UNCHANGED <<pc, mu, id, nextID>>
  BY <1>1 DEF LockNotLeaked
<1>2. ASSUME NEW c \in Caller, CallerStep(c) PROVE LockNotLeaked'
  <2>1. \/ pc[c] = "idle" /\ mu' = mu /\ pc' = [pc EXCEPT ![c] = "lock"]
        \/ mu' = mu /\ pc' = pc
        \/ mu = NoCaller /\ mu' = c /\ \E p \in {"write", "writeNotify"} : pc' = [pc EXCEPT ![c] = p]
        \/ pc[c] = "write" /\ mu' = mu /\ pc' = [pc EXCEPT ![c] = "read"]
        \/ /\ pc[c] \in {"write", "read", "writeNotify"} /\ mu' = NoCaller
           /\ \E p \in {"idle", "lockNotify"} : pc' = [pc EXCEPT ![c] = p]
    BY <1>2 DEF CallerStep, Advance, Call, Expire, Lock, LockNotify, Write, WriteFails, ReadLine, ReadFails,
                TimeOut, WriteNotify, Handle, Return
  <2>2. pc \in [Caller -> PcType] /\ mu \in Caller \cup {NoCaller} /\ NoCaller \notin Caller
    BY CallerAssumption DEF TypeOK
  <2> QED BY <2>1, <2>2 DEF LockNotLeaked
<1> QED BY <1>1, <1>2, CallerOrAround

LEMMA NextIdsUsedOnce ==
  ASSUME TypeOK, IdsUsedOnce, [Next]_vars
  PROVE  IdsUsedOnce' /\ GivesNewId
<1>0. nextID \in Nat
  BY StdioBounds DEF TypeOK
<1>1. CASE UNCHANGED <<pc, mu, id, nextID>>
  BY <1>0, <1>1 DEF IdsUsedOnce, GivesNewId
<1>2. ASSUME NEW c \in Caller, CallerStep(c) PROVE IdsUsedOnce' /\ GivesNewId
  <2>1. \/ id' = id /\ nextID' = nextID
        \/ id' = [id EXCEPT ![c] = NoId] /\ nextID' = nextID
        \/ id' = [id EXCEPT ![c] = nextID + 1] /\ nextID' = nextID + 1
    BY <1>2 DEF CallerStep, Advance, Call, Expire, Lock, LockNotify, Write, WriteFails, ReadLine, ReadFails,
                TimeOut, WriteNotify, callerVars
  <2>2. /\ id \in [Caller -> Id \cup {NoId}] /\ nextID \in Nat
        /\ \A d \in Caller : id[d] \in Nat
    BY StdioBounds DEF TypeOK, Id, NoId
  <2>3. IdsUsedOnce'
    BY <2>1, <2>2 DEF IdsUsedOnce, NoId
  <2>4. GivesNewId
    BY <2>1, <2>2 DEF GivesNewId
  <2> QED BY <2>3, <2>4
<1> QED BY <1>1, <1>2, CallerOrAround

(* No way out of a call keeps the mutex, whatever the server does.         *)
THEOREM NoLockIsLeaked == Spec => []LockNotLeaked
<1>1. Init => LockNotLeaked
  BY CallerAssumption DEF Init, LockNotLeaked
<1>2. IInv => TypeOK
  BY DEF IInv
<1> QED BY <1>1, <1>2, NextLockNotLeaked, AlwaysIInv, PTL DEF Spec

(* Ids of calls are unique, late answers or not.                           *)
THEOREM IdsAreUnique == Spec => []IdsUsedOnce /\ IdsGrow
<1>1. Init => IdsUsedOnce
  BY DEF Init, IdsUsedOnce, NoId
<1>2. IInv => TypeOK
  BY DEF IInv
<1> QED BY <1>1, <1>2, NextIdsUsedOnce, AlwaysIInv, PTL DEF Spec, IdsGrow
=============================================================================
