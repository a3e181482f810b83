---------------------------- MODULE Bridge_proofs ----------------------------
(***************************************************************************)
(* Proofs about Bridge for any tools, tags, options and number of requests.*)
(* Two inductive invariants that need nothing of each other: SurfaceInv    *)
(* ties the window to the tool called last and prevToolCount to the last   *)
(* list, AnswerInv orders the ids along stdin, the Forwarder and stdout.   *)
(***************************************************************************)
EXTENDS Bridge, DeferredWindow_proofs, FiniteSetTheorems

-----------------------------------------------------------------------------
(* The surface.                                                            *)

(* The tags of a tool are among those the resolver was given.              *)
LEMMA TagsAreKnown ==
  ASSUME NEW t \in Tool
  PROVE  Tags[t] \in Seq(AllCapabilities) /\ Tags[t] # <<>>
<1>1. Tags[t] \in Seq(Capability) /\ Tags[t] # <<>>
  BY ToolAssumption
<1>2. \A i \in 1 .. Len(Tags[t]) : Tags[t][i] \in AllCapabilities
  <2>1. Range(Tags[t]) \subseteq AllCapabilities
    BY AllTagsAssumption
  <2>2. DOMAIN Tags[t] = 1 .. Len(Tags[t])
    BY <1>1, LenProperties
  <2> QED BY <2>1, <2>2 DEF Range
<1>3. /\ Tags[t] = [i \in 1 .. Len(Tags[t]) |-> Tags[t][i]]
      /\ Len(Tags[t]) \in Nat
  BY <1>1, LenProperties
<1>4. Tags[t] \in [1 .. Len(Tags[t]) -> AllCapabilities]
  BY <1>2, <1>3
<1> QED BY <1>1, <1>3, <1>4, SeqDef

(* Resolve without intent and hints returns known tags, and fails only     *)
(* when there are none: a window that narrows has an entry.                *)
LEMMA CapabilitiesAreKnown ==
  ASSUME NEW w \in Seq(AllCapabilities)
  PROVE  /\ Capabilities(w) \subseteq AllCapabilities
         /\ AllCapabilities # {} => Capabilities(w) # {}
<1>1. Len(w) \in Nat /\ DOMAIN w = 1 .. Len(w)
  BY LenProperties
<1>2. Range(w) \subseteq AllCapabilities
  BY <1>1, ElementOfSeq DEF Range
<1>3. ASSUME ~(Len(w) < narrowThreshold) PROVE Range(w) # {}
  <2>1. 1 \in DOMAIN w
    BY <1>1, <1>3, SizesArePositive
  <2> QED BY <2>1 DEF Range
<1> QED BY <1>2, <1>3 DEF Capabilities, Gather, observedCaps

(* A bridge that has a tool never lists an empty surface.                  *)
LEMMA SurfaceIsNotEmpty ==
  ASSUME NEW w \in Seq(AllCapabilities)
  PROVE  /\ Surface(w) \in SUBSET Tool
         /\ Tool # {} => Capabilities(w) # {} /\ Surface(w) # {}
<1>1. Surface(w) \in SUBSET Tool
  BY DEF Surface, Lookup
<1>2. ASSUME Tool # {} PROVE Capabilities(w) # {} /\ Surface(w) # {}
  <2>1. PICK t \in Tool : TRUE
    BY <1>2
  <2>2. Tags[t][1] \in AllCapabilities
    <3>1. Tags[t] \in Seq(AllCapabilities) /\ Tags[t] # <<>>
      BY TagsAreKnown
    <3>2. 1 \in 1 .. Len(Tags[t])
      BY <3>1, LenProperties, EmptySeq
    <3> QED BY <3>1, <3>2, ElementOfSeq
  <2>3. PICK c : c \in Capabilities(w)
    BY <2>2, CapabilitiesAreKnown
  <2>4. PICK u \in Tool : c \in Range(Tags[u])
    BY <2>3, CapabilitiesAreKnown, AllTagsAssumption
  <2> QED BY <2>3, <2>4 DEF Surface, Lookup
<1> QED BY <1>1, <1>2

(* A tool whose tag ends the window is on the surface, narrowed or not.    *)
LEMMA EndOfWindowIsVisible ==
  ASSUME NEW w \in Seq(AllCapabilities), w # <<>>,
         NEW t \in Tool, w[Len(w)] \in Range(Tags[t])
  PROVE  t \in Surface(w)
<1>1. Len(w) \in 1 .. Len(w) /\ DOMAIN w = 1 .. Len(w)
  BY LenProperties, EmptySeq
<1>2. w[Len(w)] \in AllCapabilities /\ w[Len(w)] \in Range(w)
  BY <1>1, ElementOfSeq DEF Range
<1>3. w[Len(w)] \in Capabilities(w)
  BY <1>2 DEF Capabilities, Gather, observedCaps
<1> QED BY <1>3 DEF Surface, Lookup

LastTagKept ==
  lastCalled # Nobody =>
    /\ lastCalled \in Tool
    /\ window # <<>>
    /\ window[Len(window)] \in Range(Tags[lastCalled])

CountIsOfLastList ==
  /\ listed = Nobody => prevToolCount = 0
  /\ listed # Nobody =>
       /\ listed \in SUBSET Tool
       /\ Tool # {} => listed # {}
       /\ prevToolCount = Cardinality(listed)

SurfaceInv ==
  /\ window \in Seq(AllCapabilities)
  /\ LastTagKept
  /\ CountIsOfLastList
  /\ SizeChangeAnnounced

(* The steps that leave the surface and its lists alone.                   *)
surfaceVars == <<window, prevToolCount, listed, announced, lastCalled>>

LEMMA SurfaceUntouched ==
  ASSUME SurfaceInv, UNCHANGED surfaceVars
  PROVE  SurfaceInv'
BY DEF SurfaceInv, LastTagKept, CountIsOfLastList, SizeChangeAnnounced, surfaceVars,
       Surface, Capabilities

LEMMA ListKeepsSurfaceInv ==
  ASSUME SurfaceInv, handleToolsList
  PROVE  SurfaceInv'
<1>1. /\ prevToolCount' = IF Capabilities(window) = {}
                          THEN prevToolCount ELSE Cardinality(Surface(window))
      /\ listed' = Surface(window)
      /\ window' = window /\ lastCalled' = lastCalled
  BY DEF handleToolsList
<1>2. /\ Surface(window) \in SUBSET Tool
      /\ Tool # {} => Capabilities(window) # {} /\ Surface(window) # {}
  BY SurfaceIsNotEmpty DEF SurfaceInv
<1>3. prevToolCount' = Cardinality(Surface(window))
  <2>1. CASE Tool # {}
    BY <1>1, <1>2, <2>1
  <2>2. CASE Tool = {}
    <3>1. Surface(window) = {} /\ (listed # Nobody => listed = {})
      BY <1>2, <2>2 DEF SurfaceInv, CountIsOfLastList
    <3>2. prevToolCount = 0
      BY <3>1, FS_EmptySet DEF SurfaceInv, CountIsOfLastList
    <3> QED BY <1>1, <3>1, <3>2, FS_EmptySet
  <2> QED BY <2>1, <2>2
<1>4. CountIsOfLastList'
  BY <1>1, <1>2, <1>3, ToolAssumption DEF CountIsOfLastList
<1> QED BY <1>1, <1>4 DEF SurfaceInv, LastTagKept, SizeChangeAnnounced

(* A call: its last tag ends the window, and a count that differs from the *)
(* one recorded is announced, for the recorded one is of a list that is    *)
(* not empty.                                                              *)
LEMMA CallKeepsSurfaceInv ==
  ASSUME SurfaceInv, handleToolsCall
  PROVE  SurfaceInv'
<1> DEFINE t == Head(stdin).name
           w == PushAll(window, Tags[t])
<1>1. /\ t \in Tool
      /\ window' = w /\ lastCalled' = t
      /\ announced' = (announced \/ Announces(w))
      /\ prevToolCount' = prevToolCount /\ listed' = listed
  BY DEF handleToolsCall
<1>2. /\ w \in Seq(AllCapabilities)
      /\ Len(w) \in Nat \ {0}
      /\ w[Len(w)] = Tags[t][Len(Tags[t])]
  BY <1>1, TagsAreKnown, PushAllEndsWithTags DEF SurfaceInv
<1>3. w # <<>> /\ w[Len(w)] \in Range(Tags[t])
  <2>1. Tags[t] \in Seq(AllCapabilities) /\ Tags[t] # <<>>
    BY <1>1, TagsAreKnown
  <2>2. Len(Tags[t]) \in DOMAIN Tags[t]
    BY <2>1, LenProperties, EmptySeq
  <2> QED BY <1>2, <2>2, EmptySeq DEF Range
<1> HIDE DEF w, t
<1>4. LastTagKept' /\ CountIsOfLastList'
  BY <1>1, <1>3 DEF SurfaceInv, LastTagKept, CountIsOfLastList
<1>5. SizeChangeAnnounced'
  <2>1. Surface(window)' = Surface(w)
    BY <1>1 DEF Surface, Capabilities
  <2>2. SUFFICES ASSUME listed # Nobody, Cardinality(listed) # Cardinality(Surface(w))
                 PROVE  Announces(w)
    BY <1>1, <2>1 DEF SizeChangeAnnounced
  <2>3. /\ listed \in SUBSET Tool /\ listed # {}
        /\ prevToolCount = Cardinality(listed)
    BY <1>1, <2>2 DEF SurfaceInv, CountIsOfLastList
  <2>4. IsFiniteSet(listed)
    BY <2>3, FS_Subset, ToolAssumption
  <2>5. prevToolCount > 0
    BY <2>3, <2>4, FS_EmptySet, FS_CardinalityType
  <2>6. Capabilities(w) # {}
    BY <1>1, <1>2, SurfaceIsNotEmpty
  <2> QED BY <2>2, <2>3, <2>5, <2>6 DEF Announces
<1> QED BY <1>1, <1>2, <1>4, <1>5 DEF SurfaceInv

LEMMA SurfaceInvInit == Init => SurfaceInv
BY EmptySeq DEF Init, SurfaceInv, LastTagKept, CountIsOfLastList, SizeChangeAnnounced

LEMMA SurfaceInvNext == SurfaceInv /\ [Next]_vars => SurfaceInv'
<1> SUFFICES ASSUME SurfaceInv, [Next]_vars PROVE SurfaceInv'
  OBVIOUS
<1>1. CASE handleToolsList BY <1>1, ListKeepsSurfaceInv
<1>2. CASE handleToolsCall BY <1>2, CallKeepsSurfaceInv
<1>3. CASE UNCHANGED surfaceVars BY <1>3, SurfaceUntouched
<1>4. Client => UNCHANGED surfaceVars
  BY DEF Client, ClientSend, ClientRefetch, ClientReceive, ClientClose, Write,
         surfaceVars, resolverVars, historyVars
<1>5. Serve => handleToolsList \/ handleToolsCall \/ UNCHANGED surfaceVars
  <2>1. ASSUME NEW m, Drop(m) \/ Reply(m) PROVE UNCHANGED surfaceVars
    BY <2>1 DEF Drop, Reply, surfaceVars, resolverVars, historyVars
  <2>2. MethodNotFound \/ RejectCall \/ LineTooLong \/ EndOfInput => UNCHANGED surfaceVars
    BY DEF MethodNotFound, RejectCall, LineTooLong, EndOfInput,
           surfaceVars, resolverVars, historyVars
  <2>3. ASSUME NEW o, ForwardReturns(o) PROVE UNCHANGED surfaceVars
    BY <2>3 DEF ForwardReturns, surfaceVars, resolverVars
  <2> QED BY <2>1, <2>2, <2>3 DEF Serve, handleMessage
<1>6. UNCHANGED vars => UNCHANGED surfaceVars
  BY DEF vars, resolverVars, historyVars, surfaceVars
<1> QED BY <1>1, <1>2, <1>3, <1>4, <1>5, <1>6 DEF Next

LEMMA SurfaceInvAlways == Spec => []SurfaceInv
BY SurfaceInvInit, SurfaceInvNext, PTL DEF Spec

(* For all tools, tags and window sizes, a tools/call never hides its own  *)
(* tool: the last tag it observes ends the window (bridge.go:246-248).     *)
THEOREM CallKeepsItsTool == Spec => []CalledToolVisible
<1>1. SurfaceInv => CalledToolVisible
  BY EndOfWindowIsVisible DEF SurfaceInv, LastTagKept, CalledToolVisible
<1> QED BY <1>1, SurfaceInvAlways, PTL

(* For all tools and tags, a surface whose size differs from that of the   *)
(* last list written has been announced (bridge.go:287-301).               *)
THEOREM SizeChangesAreAnnounced == Spec => []SizeChangeAnnounced
<1>1. SurfaceInv => SizeChangeAnnounced
  BY DEF SurfaceInv
<1> QED BY <1>1, SurfaceInvAlways, PTL
-----------------------------------------------------------------------------
(* The answers.  Ids grow along the way of the requests: those in stdout   *)
(* are below the one in the Forwarder, which is below those in stdin.      *)

Under(s, i) == \A k \in DOMAIN s : s[k].id < i

Increasing(s) ==
  \A j, k \in DOMAIN s : j < k /\ s[j].id # NoId /\ s[k].id # NoId => s[j].id < s[k].id

(* No message of out, no request in the Forwarder and no id that is due is *)
(* i or more: nothing the bridge has taken from stdin is.                  *)
PastOf(out, forwarding, ids, i) ==
  /\ Under(out, i)
  /\ forwarding # Nobody => forwarding.id < i
  /\ \A d \in ids : d < i

Past(i) == PastOf(stdout, handling, due, i)

PastNext(i) == PastOf(stdout', handling', due', i)

AnswerTypes ==
  /\ stdin \in Seq(RequestType) /\ stdout \in Seq(MessageType)
  /\ handling \in RequestType \cup {Nobody}
  /\ nextId \in Id \cup {NoId}
  /\ due \subseteq Id /\ answers \in [Id -> Nat]

InOrder ==
  /\ Increasing(stdin) /\ Increasing(stdout)
  /\ \A k \in DOMAIN stdin :
       stdin[k].id <= nextId /\ (stdin[k].id # NoId => Past(stdin[k].id))
  /\ Past(nextId + 1)
  /\ handling # Nobody /\ handling.id # NoId =>
       handling.id \in due /\ Under(stdout, handling.id)

OneAnswerEach ==
  \A i \in Id :
    answers[i] = IF i \in due /\ ~(handling # Nobody /\ handling.id = i) THEN 1 ELSE 0

AnswerInv == AnswerTypes /\ InOrder /\ OneAnswerEach

LEMMA IdsAreNumbers ==
  /\ Id \subseteq Nat /\ NoId \in Nat /\ NoId \notin Id
  /\ \A r \in RequestType : r.id \in Id \cup {NoId}
  /\ \A m \in MessageType : m.id \in Id \cup {NoId}
BY BridgeBounds DEF Id, NoId, RequestType, MessageType

LEMMA IncreasingAppend ==
  ASSUME NEW S, \A x \in S : x.id \in Nat,
         NEW s \in Seq(S), NEW m \in S,
         Increasing(s), m.id # NoId => Under(s, m.id)
  PROVE  /\ Append(s, m) \in Seq(S) /\ Increasing(Append(s, m))
         /\ \A i \in Nat : Under(s, i) /\ m.id < i => Under(Append(s, m), i)
<1> DEFINE a == Append(s, m)
<1>1. /\ a \in Seq(S) /\ Len(s) \in Nat
      /\ DOMAIN s = 1 .. Len(s) /\ DOMAIN a = 1 .. Len(s) + 1
      /\ \A i \in 1 .. Len(s) : a[i] = s[i]
      /\ a[Len(s) + 1] = m
  BY AppendProperties, LenProperties
<1> HIDE DEF a
<1>2. Increasing(a)
  <2> SUFFICES ASSUME NEW j \in DOMAIN a, NEW k \in DOMAIN a, j < k,
                      a[j].id # NoId, a[k].id # NoId
               PROVE  a[j].id < a[k].id
    BY DEF Increasing
  <2>1. j \in DOMAIN s /\ a[j] = s[j]
    BY <1>1
  <2>2. CASE k \in DOMAIN s
    BY <1>1, <2>1, <2>2 DEF Increasing
  <2>3. CASE k = Len(s) + 1
    BY <1>1, <2>1, <2>3 DEF Under
  <2> QED BY <1>1, <2>2, <2>3
<1>3. ASSUME NEW i \in Nat, Under(s, i), m.id < i PROVE Under(a, i)
  <2> SUFFICES ASSUME NEW k \in DOMAIN a PROVE a[k].id < i
    BY DEF Under
  <2>1. CASE k \in DOMAIN s
    BY <1>1, <1>3, <2>1 DEF Under
  <2>2. CASE k = Len(s) + 1
    BY <1>1, <1>3, <2>2
  <2> QED BY <1>1, <2>1, <2>2
<1> QED BY <1>1, <1>2, <1>3 DEF a

LEMMA IncreasingTail ==
  ASSUME NEW S, NEW s \in Seq(S), s # <<>>, Increasing(s)
  PROVE  /\ Head(s) \in S /\ Tail(s) \in Seq(S) /\ Increasing(Tail(s))
         /\ 1 \in DOMAIN s /\ Head(s) = s[1]
         /\ \A k \in DOMAIN Tail(s) :
              /\ k + 1 \in DOMAIN s /\ Tail(s)[k] = s[k + 1]
              /\ Head(s).id # NoId /\ s[k + 1].id # NoId => Head(s).id < s[k + 1].id
<1> DEFINE t == Tail(s)
<1>1. /\ Head(s) \in S /\ Head(s) = s[1] /\ t \in Seq(S) /\ Len(s) \in Nat \ {0}
      /\ Len(t) = Len(s) - 1
      /\ DOMAIN s = 1 .. Len(s) /\ DOMAIN t = 1 .. Len(t)
      /\ \A k \in 1 .. Len(t) : t[k] = s[k + 1]
  BY HeadTailProperties, LenProperties, EmptySeq
<1> HIDE DEF t
<1>2. \A k \in DOMAIN t : k \in Nat /\ k + 1 \in DOMAIN s /\ 1 \in DOMAIN s /\ 1 < k + 1
  BY <1>1
<1>3. \A k \in DOMAIN t : s[1].id # NoId /\ s[k + 1].id # NoId => s[1].id < s[k + 1].id
  BY <1>2 DEF Increasing
<1>4. Increasing(t)
  <2> SUFFICES ASSUME NEW j \in DOMAIN t, NEW k \in DOMAIN t, j < k,
                      t[j].id # NoId, t[k].id # NoId
               PROVE  t[j].id < t[k].id
    BY DEF Increasing
  <2>1. t[j] = s[j + 1] /\ t[k] = s[k + 1]
    BY <1>1
  <2>2. j + 1 \in DOMAIN s /\ k + 1 \in DOMAIN s /\ j + 1 < k + 1
    BY <1>1, <1>2
  <2> QED BY <2>1, <2>2 DEF Increasing
<1> QED BY <1>1, <1>2, <1>3, <1>4 DEF t

(* The request at the head of stdin has an id that nothing behind it has.  *)
LEMMA HeadIsNew ==
  ASSUME AnswerInv, NEW m, Reads(m)
  PROVE  /\ Head(stdin) \in RequestType /\ handling = Nobody
         /\ Head(stdin).id \in Nat
         /\ Head(stdin).id # NoId =>
              /\ Head(stdin).id \in Id /\ Head(stdin).id \notin due
              /\ Under(stdout, Head(stdin).id)
              /\ answers[Head(stdin).id] = 0
<1> DEFINE r == Head(stdin)
<1>1. /\ stdin \in Seq(RequestType) /\ stdin # <<>> /\ handling = Nobody
      /\ Increasing(stdin)
  BY DEF AnswerInv, AnswerTypes, InOrder, Reads
<1>2. r \in RequestType /\ 1 \in DOMAIN stdin /\ r = stdin[1]
  BY <1>1, IncreasingTail
<1>3. r.id \in Id \cup {NoId}
  BY <1>2, IdsAreNumbers
<1>4. r.id # NoId => Past(r.id)
  BY <1>2 DEF AnswerInv, InOrder
<1>5. ASSUME r.id # NoId PROVE r.id \in Id /\ r.id \notin due
  <2>1. r.id \in Id /\ r.id \in Nat
    BY <1>3, <1>5, IdsAreNumbers
  <2>2. \A d \in due : d < r.id
    BY <1>4, <1>5 DEF Past, PastOf
  <2>3. ~(r.id < r.id)
    BY <2>1
  <2> QED BY <2>1, <2>2, <2>3
<1>6. r.id # NoId => answers[r.id] = 0
  BY <1>1, <1>5 DEF AnswerInv, OneAnswerEach
<1>7. r.id \in Nat
  BY <1>3, IdsAreNumbers
<1> QED BY <1>1, <1>2, <1>4, <1>5, <1>6, <1>7 DEF Past, PastOf

(* What any step that takes a request from stdin has to see to.            *)
LEMMA ReadStep ==
  ASSUME AnswerInv, NEW m, Reads(m),
         stdout' \in Seq(MessageType), handling' \in RequestType \cup {Nobody},
         due' \subseteq Id, answers' \in [Id -> Nat],
         Increasing(stdout'),
         handling' # Nobody /\ handling'.id # NoId =>
           handling'.id \in due' /\ Under(stdout', handling'.id),
         \A i \in Nat : Past(i) /\ Head(stdin).id < i => PastNext(i),
         OneAnswerEach'
  PROVE  AnswerInv'
<1> DEFINE r == Head(stdin)
           t == Tail(stdin)
<1>1. stdin \in Seq(RequestType) /\ stdin # <<>> /\ Increasing(stdin)
  BY DEF AnswerInv, AnswerTypes, InOrder, Reads
<1>2. stdin' = t /\ nextId' = nextId
  BY DEF Reads, clientVars
<1>3. /\ r \in RequestType /\ t \in Seq(RequestType) /\ Increasing(t)
      /\ 1 \in DOMAIN stdin /\ r = stdin[1]
      /\ \A k \in DOMAIN t :
           /\ k + 1 \in DOMAIN stdin /\ t[k] = stdin[k + 1]
           /\ r.id # NoId /\ stdin[k + 1].id # NoId => r.id < stdin[k + 1].id
  BY <1>1, IncreasingTail
<1>4. \A k \in DOMAIN stdin : stdin[k].id <= nextId /\ (stdin[k].id # NoId => Past(stdin[k].id))
  BY DEF AnswerInv, InOrder
<1>5. AnswerTypes'
  BY <1>2, <1>3 DEF AnswerInv, AnswerTypes
<1>6. PastNext(nextId + 1)
  <2>1. r.id <= nextId /\ nextId \in Nat /\ r.id \in Nat /\ Past(nextId + 1)
    BY <1>3, <1>4, IdsAreNumbers DEF AnswerInv, AnswerTypes, InOrder
  <2>2. r.id < nextId + 1 /\ nextId + 1 \in Nat
    BY <2>1
  <2> QED BY <2>1, <2>2
<1>7. ASSUME NEW k \in DOMAIN t
      PROVE  t[k].id <= nextId /\ (t[k].id # NoId => PastNext(t[k].id))
  <2>1. t[k].id \in Nat /\ t[k].id <= nextId /\ (t[k].id # NoId => Past(t[k].id))
    <3>1. k + 1 \in DOMAIN stdin /\ t[k] = stdin[k + 1]
      BY <1>3
    <3>2. DOMAIN stdin = 1 .. Len(stdin)
      BY <1>1, LenProperties
    <3>3. stdin[k + 1] \in RequestType
      BY <1>1, <3>1, <3>2, ElementOfSeq
    <3>4. stdin[k + 1].id \in Nat
      BY <3>3, IdsAreNumbers
    <3> QED BY <1>4, <3>1, <3>4
  <2>2. t[k].id # NoId => r.id < t[k].id
    BY <1>3, <2>1, IdsAreNumbers DEF NoId, Id
  <2>3. t[k].id # NoId => PastNext(t[k].id)
    BY <2>1, <2>2
  <2> QED BY <2>1, <2>3
<1> HIDE DEF t, r
<1>8. InOrder'
  BY <1>2, <1>3, <1>6, <1>7 DEF InOrder, Past, PastNext
<1> QED BY <1>5, <1>8 DEF AnswerInv

(* Steps that take a request and say nothing.                              *)
LEMMA SilentStep ==
  ASSUME AnswerInv, NEW m, Reads(m), UNCHANGED <<stdout, handling, due, answers>>
  PROVE  AnswerInv'
<1>1. AnswerTypes /\ InOrder /\ OneAnswerEach
  BY DEF AnswerInv
<1>2. \A i \in Nat : Past(i) => PastNext(i)
  BY DEF Past, PastNext
<1>3. OneAnswerEach'
  BY <1>1 DEF OneAnswerEach
<1>4. /\ stdout' \in Seq(MessageType) /\ handling' \in RequestType \cup {Nobody}
      /\ due' \subseteq Id /\ answers' \in [Id -> Nat]
      /\ Increasing(stdout')
      /\ handling' # Nobody /\ handling'.id # NoId =>
           handling'.id \in due' /\ Under(stdout', handling'.id)
  BY <1>1 DEF AnswerTypes, InOrder
<1> QED BY <1>2, <1>3, <1>4, ReadStep

(* Steps that answer the request, with or without a notification before.   *)
LEMMA AnswerStep ==
  ASSUME AnswerInv, NEW m, Reads(m),
         NEW out \in Seq(MessageType), Increasing(out),
         \A i \in Nat : i # NoId /\ Under(stdout, i) => Under(out, i),
         NEW a \in MessageType, a.id = Head(stdin).id,
         stdout' = Append(out, a), handling' = handling,
         Owes(Head(stdin)), Counts(Head(stdin))
  PROVE  AnswerInv'
<1> DEFINE r == Head(stdin)
<1>1. /\ r.id \in Nat /\ handling = Nobody
      /\ r.id # NoId => r.id \in Id /\ r.id \notin due /\ Under(stdout, r.id) /\ answers[r.id] = 0
  BY HeadIsNew
<1>2. AnswerTypes /\ OneAnswerEach
  BY DEF AnswerInv
<1>3. /\ due' = IF r.id \in Id THEN due \cup {r.id} ELSE due
      /\ answers' = IF r.id \in Id THEN [answers EXCEPT ![r.id] = @ + 1] ELSE answers
  BY DEF Owes, Counts
<1>4. \A x \in MessageType : x.id \in Nat
  BY IdsAreNumbers
<1>5. /\ stdout' \in Seq(MessageType) /\ Increasing(stdout')
      /\ \A i \in Nat : Under(out, i) /\ r.id < i => Under(stdout', i)
  BY <1>1, <1>4, IncreasingAppend
<1>6. due' \subseteq Id /\ answers' \in [Id -> Nat]
  BY <1>2, <1>3 DEF AnswerTypes
<1>7. ASSUME NEW i \in Nat, Past(i), r.id < i PROVE PastNext(i)
  <2>1. i # NoId
    BY <1>1, <1>7 DEF NoId
  <2>2. Under(stdout', i)
    BY <1>5, <1>7, <2>1 DEF Past, PastOf
  <2>3. \A d \in due' : d < i
    BY <1>3, <1>7 DEF Past, PastOf
  <2> QED BY <1>1, <2>2, <2>3 DEF PastNext, PastOf
<1> HIDE DEF r
<1>8. OneAnswerEach'
  <2> SUFFICES ASSUME NEW i \in Id PROVE answers'[i] = IF i \in due' THEN 1 ELSE 0
    BY <1>1 DEF OneAnswerEach
  <2>1. answers[i] = IF i \in due THEN 1 ELSE 0
    BY <1>1, <1>2 DEF OneAnswerEach
  <2>2. CASE r.id = i
    BY <1>1, <1>2, <1>3, <2>2, IdsAreNumbers DEF AnswerTypes
  <2>3. CASE r.id # i
    BY <1>2, <1>3, <2>1, <2>3 DEF AnswerTypes
  <2> QED BY <2>2, <2>3
<1>9. handling' = Nobody /\ handling' \in RequestType \cup {Nobody}
  BY <1>1
<1> QED BY <1>5, <1>6, <1>7, <1>8, <1>9, ReadStep DEF r
(* An answer is a message with the id of its request.                      *)
LEMMA AnswerIsMessage ==
  ASSUME NEW r \in RequestType, NEW kind \in {"result", "isError", "error", "list"},
         NEW tools \in SUBSET Tool
  PROVE  Answer(r, kind, tools) \in MessageType /\ Answer(r, kind, tools).id = r.id
BY IdsAreNumbers DEF Answer, MessageType

(* Steps that answer the request and nothing else.                         *)
LEMMA PlainAnswerStep ==
  ASSUME AnswerInv, NEW m, Reads(m),
         NEW kind \in {"result", "isError", "error", "list"}, NEW tools \in SUBSET Tool,
         stdout' = Append(stdout, Answer(Head(stdin), kind, tools)), handling' = handling,
         Owes(Head(stdin)), Counts(Head(stdin))
  PROVE  AnswerInv'
<1>1. stdout \in Seq(MessageType) /\ Increasing(stdout)
  BY DEF AnswerInv, AnswerTypes, InOrder
<1>2. Head(stdin) \in RequestType
  BY HeadIsNew
<1>3. /\ Answer(Head(stdin), kind, tools) \in MessageType
      /\ Answer(Head(stdin), kind, tools).id = Head(stdin).id
  BY <1>2, AnswerIsMessage
<1> QED BY <1>1, <1>3, AnswerStep

LEMMA CallKeepsAnswerInv ==
  ASSUME AnswerInv, handleToolsCall
  PROVE  AnswerInv'
<1> DEFINE r == Head(stdin)
           w == PushAll(window, Tags[r.name])
           notice == IF Announces(w) THEN <<ListChanged>> ELSE <<>>
           out == stdout \o notice
<1>1. /\ Reads("tools/call") /\ Owes(r)
      /\ IF HasForwarder
         THEN handling' = r /\ stdout' = out /\ UNCHANGED answers
         ELSE /\ UNCHANGED handling
              /\ stdout' = out \o <<Answer(r, "result", {})>>
              /\ Counts(r)
  BY DEF handleToolsCall
<1>2. /\ r \in RequestType /\ handling = Nobody /\ r.id \in Nat
      /\ r.id # NoId => /\ r.id \in Id /\ r.id \notin due
                        /\ Under(stdout, r.id) /\ answers[r.id] = 0
  BY <1>1, HeadIsNew
<1>3. AnswerTypes /\ OneAnswerEach /\ Increasing(stdout)
  BY DEF AnswerInv, InOrder
<1>4. /\ out \in Seq(MessageType) /\ Increasing(out)
      /\ \A i \in Nat : i # NoId /\ Under(stdout, i) => Under(out, i)
  <2>1. CASE Announces(w)
    <3>1. ListChanged \in MessageType /\ ListChanged.id = NoId
      BY DEF ListChanged, MessageType
    <3>2. stdout \in Seq(MessageType) /\ out = Append(stdout, ListChanged)
      BY <1>3, <2>1, <3>1 DEF AnswerTypes
    <3>3. \A x \in MessageType : x.id \in Nat
      BY IdsAreNumbers
    <3>4. /\ Append(stdout, ListChanged) \in Seq(MessageType)
          /\ Increasing(Append(stdout, ListChanged))
          /\ \A i \in Nat : Under(stdout, i) /\ NoId < i => Under(Append(stdout, ListChanged), i)
      BY <1>3, <3>1, <3>2, <3>3, IncreasingAppend
    <3>5. \A i \in Nat : i # NoId => NoId < i
      BY DEF NoId
    <3> QED BY <3>2, <3>4, <3>5
  <2>2. CASE ~Announces(w)
    <3>1. stdout \in Seq(MessageType) /\ out = stdout
      BY <1>3, <2>2 DEF AnswerTypes
    <3> QED BY <1>3, <3>1
  <2> QED BY <2>1, <2>2
<1> HIDE DEF out
<1>5. CASE HasForwarder
  <2>1. handling' = r /\ stdout' = out /\ answers' = answers
    BY <1>1, <1>5
  <2>2. due' = IF r.id \in Id THEN due \cup {r.id} ELSE due
    BY <1>1 DEF Owes
  <2>3. due' \subseteq Id /\ handling' \in RequestType \cup {Nobody} /\ handling' # Nobody
    BY <1>2, <1>3, <2>1, <2>2, NobodyAssumption DEF AnswerTypes
  <2>4. handling'.id # NoId => handling'.id \in due' /\ Under(stdout', handling'.id)
    BY <1>2, <1>4, <2>1, <2>2
  <2>5. ASSUME NEW i \in Nat, Past(i), r.id < i PROVE PastNext(i)
    <3>1. i # NoId
      BY <1>2, <2>5 DEF NoId
    <3>2. Under(stdout', i)
      BY <1>4, <2>1, <2>5, <3>1 DEF Past, PastOf
    <3>3. \A d \in due' : d < i
      BY <2>2, <2>5 DEF Past, PastOf
    <3> QED BY <2>1, <2>5, <3>2, <3>3 DEF PastNext, PastOf
  <2>6. OneAnswerEach'
    <3> SUFFICES ASSUME NEW i \in Id
                 PROVE  answers[i] = IF i \in due' /\ r.id # i THEN 1 ELSE 0
      BY <2>1, <2>3 DEF OneAnswerEach
    <3>1. answers[i] = IF i \in due THEN 1 ELSE 0
      BY <1>2, <1>3 DEF OneAnswerEach
    <3>2. CASE r.id = i
      BY <1>2, <3>2, IdsAreNumbers
    <3>3. CASE r.id # i
      BY <2>2, <3>1, <3>3
    <3> QED BY <3>2, <3>3
  <2>7. /\ stdout' \in Seq(MessageType) /\ Increasing(stdout')
        /\ answers' \in [Id -> Nat]
    BY <1>3, <1>4, <2>1 DEF AnswerTypes
  <2> HIDE DEF r
  <2> QED BY <1>1, <2>3, <2>4, <2>5, <2>6, <2>7, ReadStep DEF r
<1>6. CASE ~HasForwarder
  <2>1. handling' = handling /\ Counts(r)
    BY <1>1, <1>6
  <2>2. Answer(r, "result", {}) \in MessageType /\ Answer(r, "result", {}).id = r.id
    BY <1>2, AnswerIsMessage
  <2>3. stdout' = Append(out, Answer(r, "result", {}))
    BY <1>1, <1>4, <1>6, <2>2
  <2> QED BY <1>1, <1>4, <2>1, <2>2, <2>3, AnswerStep
<1> QED BY <1>5, <1>6

(* The answer of the Forwarder: its request is below all of stdin and      *)
(* above all of stdout.                                                    *)
LEMMA ForwardKeepsAnswerInv ==
  ASSUME AnswerInv, NEW outcome \in {"result", "isError"}, ForwardReturns(outcome)
  PROVE  AnswerInv'
<1> DEFINE r == handling
           a == Answer(r, outcome, {})
<1>1. /\ r # Nobody /\ handling' = Nobody /\ stdout' = Append(stdout, a) /\ Counts(r)
      /\ UNCHANGED <<stdin, nextId, due>>
  BY DEF ForwardReturns, clientVars
<1>2. AnswerTypes /\ InOrder /\ OneAnswerEach
  BY DEF AnswerInv
<1>3. /\ r \in RequestType /\ r.id \in Nat
      /\ r.id # NoId => r.id \in due /\ r.id \in Id /\ Under(stdout, r.id)
  BY <1>1, <1>2, IdsAreNumbers DEF AnswerTypes, InOrder
<1>4. a \in MessageType /\ a.id = r.id
  BY <1>3, AnswerIsMessage
<1>5. /\ stdout' \in Seq(MessageType) /\ Increasing(stdout')
      /\ \A i \in Nat : Under(stdout, i) /\ r.id < i => Under(stdout', i)
  <2>1. \A x \in MessageType : x.id \in Nat
    BY IdsAreNumbers
  <2>2. stdout \in Seq(MessageType) /\ Increasing(stdout)
    BY <1>2 DEF AnswerTypes, InOrder
  <2> QED BY <1>1, <1>3, <1>4, <2>1, <2>2, IncreasingAppend
<1> HIDE DEF a
<1>6. \A i \in Nat : Past(i) => PastNext(i)
  BY <1>1, <1>5 DEF Past, PastNext, PastOf
<1>7. AnswerTypes'
  BY <1>1, <1>2, <1>5 DEF AnswerTypes, Counts
<1>8. InOrder'
  <2>1. nextId + 1 \in Nat
    BY <1>2, IdsAreNumbers DEF AnswerTypes
  <2>2. \A k \in DOMAIN stdin : stdin[k].id \in Nat
    BY <1>2, LenProperties, ElementOfSeq, IdsAreNumbers DEF AnswerTypes
  <2>3. PastNext(nextId + 1)
    BY <1>2, <1>6, <2>1 DEF InOrder
  <2>4. \A k \in DOMAIN stdin : stdin[k].id # NoId => PastNext(stdin[k].id)
    BY <1>2, <1>6, <2>2 DEF InOrder
  <2> QED BY <1>1, <1>2, <1>5, <2>3, <2>4 DEF InOrder, Past, PastNext
<1>9. OneAnswerEach'
  <2> SUFFICES ASSUME NEW i \in Id PROVE answers'[i] = IF i \in due THEN 1 ELSE 0
    BY <1>1 DEF OneAnswerEach
  <2>1. answers[i] = IF i \in due /\ r.id # i THEN 1 ELSE 0
    BY <1>1, <1>2 DEF OneAnswerEach
  <2>2. CASE r.id = i
    BY <1>1, <1>2, <1>3, <2>1, <2>2, IdsAreNumbers DEF AnswerTypes, Counts
  <2>3. CASE r.id # i
    BY <1>1, <1>2, <2>1, <2>3 DEF AnswerTypes, Counts
  <2> QED BY <2>2, <2>3
<1> QED BY <1>7, <1>8, <1>9 DEF AnswerInv
(* A new request has no id, or one above all that were ever used.          *)
LEMMA WriteKeepsAnswerInv ==
  ASSUME AnswerInv, NEW r \in RequestType, Write(r),
         \/ r.id = NoId /\ nextId' = nextId
         \/ r.id = nextId + 1 /\ nextId' = nextId + 1 /\ nextId + 1 \in Id
  PROVE  AnswerInv'
<1>1. /\ stdin' = Append(stdin, r)
      /\ UNCHANGED <<stdout, handling, due, answers>>
  BY DEF Write, serverVars, historyVars
<1>2. AnswerTypes /\ InOrder /\ OneAnswerEach
  BY DEF AnswerInv
<1>3. /\ stdin \in Seq(RequestType) /\ Increasing(stdin)
      /\ nextId \in Nat /\ nextId' \in Nat /\ nextId' \in Id \cup {NoId} /\ nextId <= nextId'
      /\ r.id \in Nat /\ r.id <= nextId'
  <2>1. /\ stdin \in Seq(RequestType) /\ Increasing(stdin)
        /\ nextId \in Nat /\ nextId \in Id \cup {NoId}
    BY <1>2, IdsAreNumbers DEF AnswerTypes, InOrder
  <2>2. nextId' \in Nat /\ nextId' \in Id \cup {NoId} /\ nextId <= nextId'
    BY <2>1
  <2>3. r.id \in Nat /\ r.id <= nextId'
    BY <2>1 DEF NoId
  <2> QED BY <2>1, <2>2, <2>3
<1>4. /\ Len(stdin) \in Nat /\ DOMAIN stdin = 1 .. Len(stdin)
      /\ DOMAIN stdin' = 1 .. Len(stdin) + 1
      /\ \A k \in 1 .. Len(stdin) : stdin'[k] = stdin[k] /\ stdin[k].id \in Nat
      /\ stdin'[Len(stdin) + 1] = r
  <2>1. \A k \in 1 .. Len(stdin) : stdin[k].id \in Nat
    BY <1>3, ElementOfSeq, IdsAreNumbers
  <2> QED BY <1>1, <1>3, <2>1, AppendProperties, LenProperties
<1>5. \A i : Past(i) <=> PastNext(i)
  BY <1>1 DEF Past, PastNext
<1>6. Past(nextId + 1) /\ Past(nextId' + 1)
  <2>1. Past(nextId + 1)
    BY <1>2 DEF InOrder
  <2>2. CASE nextId' = nextId + 1
    <3>1. \A k \in DOMAIN stdout : stdout[k].id \in Nat
      BY <1>2, LenProperties, ElementOfSeq, IdsAreNumbers DEF AnswerTypes
    <3>2. handling # Nobody => handling.id \in Nat
      BY <1>2, IdsAreNumbers DEF AnswerTypes
    <3>3. due \subseteq Nat
      BY <1>2, IdsAreNumbers DEF AnswerTypes
    <3>4. Under(stdout, nextId' + 1)
      BY <1>3, <2>1, <2>2, <3>1 DEF Past, PastOf, Under
    <3>5. handling # Nobody => handling.id < nextId' + 1
      BY <1>3, <2>1, <2>2, <3>2 DEF Past, PastOf
    <3>6. \A d \in due : d < nextId' + 1
      BY <1>3, <2>1, <2>2, <3>3 DEF Past, PastOf
    <3> QED BY <2>1, <3>4, <3>5, <3>6 DEF Past, PastOf
  <2>3. CASE nextId' = nextId
    BY <2>1, <2>3
  <2> QED BY <2>2, <2>3
<1>7. r.id # NoId => Past(r.id) /\ Under(stdin, r.id)
  <2> SUFFICES ASSUME r.id # NoId PROVE Past(r.id) /\ Under(stdin, r.id)
    OBVIOUS
  <2>1. r.id = nextId + 1
    OBVIOUS
  <2>2. \A k \in DOMAIN stdin : stdin[k].id <= nextId
    BY <1>2 DEF InOrder
  <2>3. Under(stdin, r.id)
    BY <1>3, <1>4, <2>1, <2>2 DEF Under
  <2> QED BY <1>6, <2>1, <2>3
<1>8. stdin' \in Seq(RequestType) /\ Increasing(stdin')
  <2>1. \A x \in RequestType : x.id \in Nat
    BY IdsAreNumbers
  <2> QED BY <1>1, <1>3, <1>7, <2>1, IncreasingAppend
<1>9. ASSUME NEW k \in DOMAIN stdin'
      PROVE  /\ stdin'[k].id <= nextId'
             /\ stdin'[k].id # NoId => PastNext(stdin'[k].id)
  <2>1. CASE k = Len(stdin) + 1
    BY <1>3, <1>4, <1>5, <1>7, <2>1
  <2>2. CASE k \in 1 .. Len(stdin)
    <3>1. stdin'[k] = stdin[k] /\ stdin[k].id \in Nat
      BY <1>4, <2>2
    <3>2. stdin[k].id <= nextId /\ (stdin[k].id # NoId => Past(stdin[k].id))
      BY <1>2, <1>4, <2>2 DEF InOrder
    <3> QED BY <1>3, <1>5, <3>1, <3>2
  <2> QED BY <1>4, <2>1, <2>2
<1>10. AnswerTypes'
  BY <1>1, <1>2, <1>3, <1>8 DEF AnswerTypes
<1>11. InOrder'
  <2>1. PastNext(nextId' + 1)
    BY <1>5, <1>6
  <2>2. Increasing(stdout)
    BY <1>2 DEF InOrder
  <2>3. handling' # Nobody /\ handling'.id # NoId =>
          handling'.id \in due' /\ Under(stdout', handling'.id)
    BY <1>1, <1>2 DEF InOrder
  <2> QED BY <1>1, <1>8, <1>9, <2>1, <2>2, <2>3 DEF InOrder, Past, PastNext
<1>12. OneAnswerEach'
  BY <1>1, <1>2 DEF OneAnswerEach
<1> QED BY <1>10, <1>11, <1>12 DEF AnswerInv

LEMMA ClientKeepsAnswerInv ==
  ASSUME AnswerInv, Client
  PROVE  AnswerInv'
<1>0. nextId \in Nat
  BY IdsAreNumbers DEF AnswerInv, AnswerTypes
<1>1. ASSUME NEW method \in Method, NEW name \in Name \cup {Nobody}, NEW hasId \in BOOLEAN,
             ClientSend(method, name, hasId)
      PROVE  AnswerInv'
  <2> DEFINE r == Request(method, name, IF hasId THEN nextId + 1 ELSE NoId)
  <2>1. Write(r) /\ (hasId => nextId + 1 \in Id) /\ nextId' = IF hasId THEN nextId + 1 ELSE nextId
    BY <1>1 DEF ClientSend
  <2>2. r \in RequestType /\ r.id = IF hasId THEN nextId + 1 ELSE NoId
    BY <2>1 DEF Request, RequestType
  <2> HIDE DEF r
  <2>3. \/ r.id = NoId /\ nextId' = nextId
        \/ r.id = nextId + 1 /\ nextId' = nextId + 1 /\ nextId + 1 \in Id
    BY <2>1, <2>2
  <2> QED BY <2>1, <2>2, <2>3, WriteKeepsAnswerInv
<1>2. CASE ClientRefetch
  <2> DEFINE r == Request("tools/list", Nobody, nextId + 1)
  <2>1. Write(r) /\ nextId + 1 \in Id /\ nextId' = nextId + 1
    BY <1>2 DEF ClientRefetch
  <2>2. r \in RequestType /\ r.id = nextId + 1
    BY <2>1, MethodAssumption DEF Request, RequestType
  <2> HIDE DEF r
  <2> QED BY <2>1, <2>2, WriteKeepsAnswerInv
<1>3. CASE ClientReceive
  <2>1. /\ stdout # <<>> /\ stdout' = Tail(stdout)
        /\ UNCHANGED <<stdin, handling, nextId, due, answers>>
    BY <1>3 DEF ClientReceive, serverVars, historyVars
  <2>2. AnswerTypes /\ InOrder /\ OneAnswerEach
    BY DEF AnswerInv
  <2>3. /\ stdout' \in Seq(MessageType) /\ Increasing(stdout')
        /\ \A k \in DOMAIN stdout' : k + 1 \in DOMAIN stdout /\ stdout'[k] = stdout[k + 1]
    BY <2>1, <2>2, IncreasingTail DEF AnswerTypes, InOrder
  <2>4. \A i : Under(stdout, i) => Under(stdout', i)
    BY <2>3 DEF Under
  <2>5. \A i : Past(i) => PastNext(i)
    BY <2>1, <2>4 DEF Past, PastNext, PastOf
  <2>6. AnswerTypes' /\ OneAnswerEach'
    BY <2>1, <2>2, <2>3 DEF AnswerTypes, OneAnswerEach
  <2>7. InOrder'
    BY <2>1, <2>2, <2>3, <2>4, <2>5 DEF InOrder, Past, PastNext
  <2> QED BY <2>6, <2>7 DEF AnswerInv
<1>4. CASE ClientClose
  BY <1>4 DEF ClientClose, serverVars, clientVars, historyVars, AnswerInv, AnswerTypes,
              InOrder, OneAnswerEach, Past
<1> QED BY <1>1, <1>2, <1>3, <1>4 DEF Client

LEMMA HandleKeepsAnswerInv ==
  ASSUME AnswerInv, handleMessage
  PROVE  AnswerInv'
<1>1. ASSUME NEW m, Drop(m) PROVE AnswerInv'
  BY <1>1, SilentStep DEF Drop, serverVars, historyVars
<1>2. ASSUME NEW m, Reply(m) PROVE AnswerInv'
  BY <1>2, PlainAnswerStep DEF Reply, serverVars
<1>3. CASE MethodNotFound
  <2>1. CASE Head(stdin).id = NoId
    BY <1>3, <2>1, SilentStep DEF MethodNotFound, serverVars
  <2>2. CASE Head(stdin).id # NoId
    BY <1>3, <2>2, PlainAnswerStep DEF MethodNotFound, serverVars
  <2> QED BY <2>1, <2>2
<1>4. CASE handleToolsList
  <2>1. Surface(window) \in SUBSET Tool
    BY DEF Surface, Lookup
  <2> QED BY <1>4, <2>1, PlainAnswerStep DEF handleToolsList, serverVars
<1>5. CASE RejectCall
  BY <1>5, PlainAnswerStep DEF RejectCall, serverVars
<1>6. CASE handleToolsCall
  BY <1>6, CallKeepsAnswerInv
<1>7. CASE LineTooLong
  BY <1>7, SilentStep DEF LineTooLong, historyVars
<1> QED BY <1>1, <1>2, <1>3, <1>4, <1>5, <1>6, <1>7 DEF handleMessage

LEMMA AnswerInvInit == Init => AnswerInv
<1> SUFFICES ASSUME Init PROVE AnswerInv
  OBVIOUS
<1>1. stdin = <<>> /\ stdout = <<>> /\ handling = Nobody /\ nextId = NoId /\ due = {}
      /\ answers = [i \in Id |-> 0]
  BY DEF Init
<1>2. AnswerTypes
  BY <1>1, EmptySeq, IdsAreNumbers DEF AnswerTypes
<1>3. InOrder
  BY <1>1, EmptySeq DEF InOrder, Increasing, Past, PastOf, Under
<1>4. OneAnswerEach
  BY <1>1 DEF OneAnswerEach
<1> QED BY <1>2, <1>3, <1>4 DEF AnswerInv

LEMMA AnswerInvNext == AnswerInv /\ [Next]_vars => AnswerInv'
<1> SUFFICES ASSUME AnswerInv, [Next]_vars PROVE AnswerInv'
  OBVIOUS
<1>1. CASE Client BY <1>1, ClientKeepsAnswerInv
<1>2. CASE handleMessage BY <1>2, HandleKeepsAnswerInv
<1>3. ASSUME NEW outcome \in {"result", "isError"}, ForwardReturns(outcome) PROVE AnswerInv'
  BY <1>3, ForwardKeepsAnswerInv
<1>4. CASE EndOfInput
  BY <1>4 DEF EndOfInput, clientVars, historyVars, AnswerInv, AnswerTypes, InOrder,
              OneAnswerEach, Past
<1>5. CASE UNCHANGED vars
  BY <1>5 DEF vars, serverVars, clientVars, historyVars, AnswerInv, AnswerTypes, InOrder,
              OneAnswerEach, Past
<1> QED BY <1>1, <1>2, <1>3, <1>4, <1>5 DEF Next, Serve

LEMMA AnswerInvAlways == Spec => []AnswerInv
BY AnswerInvInit, AnswerInvNext, PTL DEF Spec

(* Every request read is answered exactly once and in order, whatever the  *)
(* number of requests and however they are pipelined (bridge.go:157-190).  *)
THEOREM OneAnswerInOrder == Spec => []AnsweredOnceInOrder
<1>1. AnswerInv => AnsweredOnceInOrder
  BY DEF AnswerInv, InOrder, Increasing, OneAnswerEach, AnsweredOnceInOrder
<1> QED BY <1>1, AnswerInvAlways, PTL
-----------------------------------------------------------------------------
(* The remaining types, each bounded by a guard or by what is proved above.*)
OtherTypes ==
  /\ Len(window) <= windowSize
  /\ exit \in {"running", "done", "failed"}
  /\ Len(stdin) <= MaxPipeline
  /\ stdinOpen \in BOOLEAN
  /\ sent \in 0 .. MaxRequests
  /\ view \in (SUBSET Tool) \cup {Nobody} /\ refetch \in BOOLEAN
  /\ listed \in (SUBSET Tool) \cup {Nobody} /\ announced \in BOOLEAN

LEMMA OtherTypesInit == Init => OtherTypes
<1> SUFFICES ASSUME Init PROVE OtherTypes
  OBVIOUS
<1>1. Len(<<>>) = 0
  OBVIOUS
<1>2. Len(window) <= windowSize /\ Len(stdin) <= MaxPipeline
  BY <1>1, SizesArePositive, BridgeBounds DEF Init
<1>3. sent \in 0 .. MaxRequests
  BY BridgeBounds DEF Init
<1> QED BY <1>2, <1>3 DEF Init, OtherTypes

LEMMA PushAllFits ==
  ASSUME NEW S, NEW w \in Seq(S), NEW tags \in Seq(S)
  PROVE  Len(PushAll(w, tags)) <= windowSize
<1>1. w \o tags \in Seq(S)
  BY ConcatProperties
<1>2. Len(w \o tags) \in Nat
  BY <1>1, LenProperties
<1>3. windowSize \in Nat \ {0}
  BY SizesArePositive
<1>4. Len(Newest(w \o tags, windowSize)) =
        IF Len(w \o tags) > windowSize THEN windowSize ELSE Len(w \o tags)
  BY <1>1, <1>3, NewestProperties
<1> QED BY <1>2, <1>3, <1>4 DEF PushAll

LEMMA ReadKeepsLength ==
  ASSUME AnswerTypes, OtherTypes, NEW m, Reads(m)
  PROVE  Len(stdin') <= MaxPipeline
<1>1. stdin \in Seq(RequestType) /\ stdin # <<>> /\ stdin' = Tail(stdin)
  BY DEF AnswerTypes, Reads
<1>2. Len(stdin') = Len(stdin) - 1 /\ Len(stdin) \in Nat
  BY <1>1, HeadTailProperties, LenProperties
<1> QED BY <1>2, BridgeBounds DEF OtherTypes

LEMMA ServeKeepsOtherTypes ==
  ASSUME SurfaceInv, AnswerTypes, OtherTypes, Serve
  PROVE  OtherTypes'
<1>1. ASSUME NEW m, Reads(m) PROVE Len(stdin') <= MaxPipeline /\ stdinOpen' = stdinOpen
                                   /\ sent' = sent /\ view' = view /\ refetch' = refetch
  BY <1>1, ReadKeepsLength DEF Reads, clientVars
<1>2. ASSUME NEW m, Drop(m) \/ Reply(m) PROVE OtherTypes'
  <2>1. Reads(m) /\ UNCHANGED <<window, exit, listed, announced>>
    BY <1>2 DEF Drop, Reply, resolverVars, serverVars, historyVars
  <2> QED BY <1>1, <2>1 DEF OtherTypes
<1>3. CASE MethodNotFound
  <2>1. Reads("other") /\ UNCHANGED <<window, exit, listed, announced>>
    BY <1>3 DEF MethodNotFound, resolverVars, serverVars
  <2> QED BY <1>1, <2>1 DEF OtherTypes
<1>4. CASE RejectCall
  <2>1. Reads("tools/call") /\ UNCHANGED <<window, exit, listed, announced>>
    BY <1>4 DEF RejectCall, resolverVars, serverVars
  <2> QED BY <1>1, <2>1 DEF OtherTypes
<1>5. CASE LineTooLong
  <2>1. Reads("oversized") /\ exit' = "failed" /\ UNCHANGED <<window, listed, announced>>
    BY <1>5 DEF LineTooLong, resolverVars, historyVars
  <2> QED BY <1>1, <2>1 DEF OtherTypes
<1>6. CASE handleToolsList
  <2>1. /\ Reads("tools/list") /\ UNCHANGED <<window, exit>>
        /\ listed' = Surface(window) /\ announced' = FALSE
    BY <1>6 DEF handleToolsList, serverVars
  <2>2. Surface(window) \in SUBSET Tool
    BY DEF Surface, Lookup
  <2> QED BY <1>1, <2>1, <2>2 DEF OtherTypes
<1>7. CASE handleToolsCall
  <2> DEFINE t == Head(stdin).name
             w == PushAll(window, Tags[t])
  <2>1. /\ Reads("tools/call") /\ exit' = exit /\ listed' = listed
        /\ t \in Tool /\ window' = w /\ announced' = (announced \/ Announces(w))
    BY <1>7 DEF handleToolsCall
  <2>2. Len(w) <= windowSize
    BY <2>1, TagsAreKnown, PushAllFits DEF SurfaceInv
  <2>3. announced' \in BOOLEAN
    BY <2>1 DEF OtherTypes
  <2> HIDE DEF w, t
  <2> QED BY <1>1, <2>1, <2>2, <2>3 DEF OtherTypes
<1>8. ASSUME NEW outcome, ForwardReturns(outcome) PROVE OtherTypes'
  BY <1>8 DEF ForwardReturns, resolverVars, clientVars, OtherTypes
<1>9. CASE EndOfInput
  BY <1>9 DEF EndOfInput, resolverVars, clientVars, historyVars, OtherTypes
<1> QED BY <1>2, <1>3, <1>4, <1>5, <1>6, <1>7, <1>8, <1>9 DEF Serve, handleMessage

LEMMA ClientKeepsOtherTypes ==
  ASSUME AnswerTypes, OtherTypes, Client
  PROVE  OtherTypes'
<1>1. ASSUME NEW r, Write(r) PROVE /\ Len(stdin') <= MaxPipeline
                                   /\ UNCHANGED <<window, exit, stdinOpen, listed, announced>>
  <2>1. /\ stdin \in Seq(RequestType) /\ Len(stdin) < MaxPipeline /\ stdin' = Append(stdin, r)
        /\ UNCHANGED <<window, exit, stdinOpen, listed, announced>>
    BY <1>1 DEF AnswerTypes, Write, resolverVars, serverVars, historyVars
  <2>2. Len(stdin') = Len(stdin) + 1 /\ Len(stdin) \in Nat
    BY <2>1
  <2> QED BY <2>1, <2>2, BridgeBounds
<1>2. ASSUME NEW method, NEW name, NEW hasId, ClientSend(method, name, hasId) PROVE OtherTypes'
  <2>1. /\ \E r : Write(r)
        /\ sent < MaxRequests /\ sent' = sent + 1 /\ UNCHANGED <<view, refetch>>
    BY <1>2 DEF ClientSend
  <2>2. sent' \in 0 .. MaxRequests
    BY <2>1, BridgeBounds DEF OtherTypes
  <2> QED BY <1>1, <2>1, <2>2 DEF OtherTypes
<1>3. CASE ClientRefetch
  <2>1. (\E r : Write(r)) /\ refetch' = FALSE /\ UNCHANGED <<sent, view>>
    BY <1>3 DEF ClientRefetch
  <2> QED BY <1>1, <2>1 DEF OtherTypes
<1>4. CASE ClientReceive
  <2>1. /\ stdout # <<>>
        /\ view' = IF Head(stdout).kind = "list" THEN Head(stdout).tools ELSE view
        /\ refetch' = (refetch \/ Head(stdout).kind = "list_changed")
        /\ UNCHANGED <<window, exit, stdin, stdinOpen, sent, listed, announced>>
    BY <1>4 DEF ClientReceive, resolverVars, serverVars, historyVars
  <2>2. Head(stdout) \in MessageType
    BY <2>1, HeadTailProperties DEF AnswerTypes
  <2>3. Head(stdout).tools \in SUBSET Tool
    BY <2>2 DEF MessageType
  <2> QED BY <2>1, <2>3 DEF OtherTypes
<1>5. CASE ClientClose
  BY <1>5 DEF ClientClose, resolverVars, serverVars, clientVars, historyVars, OtherTypes
<1> QED BY <1>2, <1>3, <1>4, <1>5 DEF Client

(* Every variable stays in its type for all constants: the count recorded  *)
(* is at most the number of tools, a call with many tags does not overfill *)
(* the window, and no id is answered twice (bridge.go:246-248, 287-301).   *)
THEOREM TypeCorrect == Spec => []TypeOK
<1> DEFINE Inv == SurfaceInv /\ AnswerInv /\ OtherTypes
<1>1. Inv => TypeOK
  <2> SUFFICES ASSUME Inv PROVE TypeOK
    OBVIOUS
  <2>1. window \in Seq(Capability)
    <3>1. window \in Seq(AllCapabilities) /\ AllCapabilities \subseteq Capability
      BY CapabilityAssumption DEF SurfaceInv
    <3>2. /\ Len(window) \in Nat
          /\ window = [i \in 1 .. Len(window) |-> window[i]]
          /\ \A i \in 1 .. Len(window) : window[i] \in Capability
      BY <3>1, LenProperties, ElementOfSeq
    <3>3. window \in [1 .. Len(window) -> Capability]
      BY <3>2
    <3> QED BY <3>2, <3>3, SeqDef
  <2>2. prevToolCount \in 0 .. Cardinality(Tool)
    <3>1. Cardinality(Tool) \in Nat
      BY ToolAssumption, FS_CardinalityType
    <3>2. CASE listed = Nobody
      BY <3>1, <3>2 DEF SurfaceInv, CountIsOfLastList
    <3>3. CASE listed # Nobody
      <4>1. listed \subseteq Tool /\ prevToolCount = Cardinality(listed)
        BY <3>3 DEF SurfaceInv, CountIsOfLastList
      <4>2. IsFiniteSet(listed) /\ Cardinality(listed) <= Cardinality(Tool)
        BY <4>1, ToolAssumption, FS_Subset
      <4>3. Cardinality(listed) \in Nat
        BY <4>2, FS_CardinalityType
      <4> QED BY <3>1, <4>1, <4>2, <4>3
    <3> QED BY <3>2, <3>3
  <2>3. answers \in [Id -> 0 .. 2]
    BY DEF AnswerInv, AnswerTypes, OneAnswerEach
  <2>4. lastCalled \in Tool \cup {Nobody}
    BY DEF SurfaceInv, LastTagKept
  <2> QED BY <2>1, <2>2, <2>3, <2>4 DEF AnswerInv, AnswerTypes, OtherTypes, TypeOK
<1>2. Init => Inv
  BY SurfaceInvInit, AnswerInvInit, OtherTypesInit
<1>3. Inv /\ [Next]_vars => Inv'
  <2> SUFFICES ASSUME Inv, [Next]_vars PROVE OtherTypes'
    BY SurfaceInvNext, AnswerInvNext
  <2>1. AnswerTypes
    BY DEF AnswerInv
  <2>2. CASE UNCHANGED vars
    BY <2>2 DEF vars, resolverVars, serverVars, clientVars, historyVars, OtherTypes
  <2> QED BY <2>1, <2>2, ServeKeepsOtherTypes, ClientKeepsOtherTypes DEF Next
<1> QED BY <1>1, <1>2, <1>3, PTL DEF Spec

-----------------------------------------------------------------------------
(* The client's view.  What it has not read yet ends with the last list    *)
(* written, and a change that was announced since is on its way to it: as  *)
(* a notice it has not read, as a list it means to ask for, or as one that *)
(* it has asked for.                                                       *)
Lists(out) == {k \in DOMAIN out : out[k].kind = "list"}

Reflects(out, shown, list) ==
  /\ Lists(out) = {} => shown = list
  /\ \A k \in Lists(out) : (\A j \in Lists(out) : j <= k) => out[k].tools = list

Carries(out) == \E k \in DOMAIN out : out[k].kind = "list_changed"
Asked(in) == \E k \in DOMAIN in : in[k].method = "tools/list"

Delivery ==
  /\ Reflects(stdout, view, listed)
  /\ announced => refetch \/ Carries(stdout) \/ Asked(stdin)

LEMMA AppendIs ==
  ASSUME NEW S, NEW s \in Seq(S), NEW m \in S
  PROVE  /\ Append(s, m) \in Seq(S) /\ Len(s) \in Nat
         /\ DOMAIN s = 1 .. Len(s) /\ DOMAIN Append(s, m) = 1 .. Len(s) + 1
         /\ \A i \in 1 .. Len(s) : Append(s, m)[i] = s[i]
         /\ Append(s, m)[Len(s) + 1] = m
BY AppendProperties, LenProperties

LEMMA TailIs ==
  ASSUME NEW S, NEW s \in Seq(S), s # <<>>
  PROVE  /\ Head(s) \in S /\ Head(s) = s[1] /\ Tail(s) \in Seq(S) /\ Len(s) \in Nat \ {0}
         /\ DOMAIN s = 1 .. Len(s) /\ DOMAIN Tail(s) = 1 .. Len(s) - 1
         /\ \A k \in 1 .. Len(s) - 1 : Tail(s)[k] = s[k + 1]
BY HeadTailProperties, LenProperties, EmptySeq

(* Written by the bridge: an answer without tools, a notice, a list.       *)
LEMMA OtherWritten ==
  ASSUME NEW out \in Seq(MessageType), NEW m \in MessageType, m.kind # "list"
  PROVE  /\ Append(out, m) \in Seq(MessageType)
         /\ \A shown, list : Reflects(out, shown, list) => Reflects(Append(out, m), shown, list)
         /\ Carries(out) \/ m.kind = "list_changed" => Carries(Append(out, m))
<1> DEFINE a == Append(out, m)
           n == Len(out)
<1>1. /\ a \in Seq(MessageType) /\ n \in Nat /\ DOMAIN out = 1 .. n /\ DOMAIN a = 1 .. n + 1
      /\ \A i \in 1 .. n : a[i] = out[i]
      /\ a[n + 1] = m
  BY AppendIs
<1> HIDE DEF a, n
<1>2. Lists(a) = Lists(out) /\ \A k \in Lists(out) : a[k] = out[k]
  BY <1>1 DEF Lists
<1>3. Carries(out) \/ m.kind = "list_changed" => Carries(a)
  BY <1>1 DEF Carries
<1>4. \A shown, list : Reflects(out, shown, list) => Reflects(a, shown, list)
  BY <1>2 DEF Reflects
<1> QED BY <1>1, <1>3, <1>4 DEF a

LEMMA ListWritten ==
  ASSUME NEW out \in Seq(MessageType), NEW m \in MessageType, m.kind = "list", NEW shown
  PROVE  Reflects(Append(out, m), shown, m.tools)
<1> DEFINE a == Append(out, m)
           n == Len(out)
<1>1. n \in Nat /\ DOMAIN a = 1 .. n + 1 /\ a[n + 1] = m
  BY AppendIs
<1> HIDE DEF a, n
<1>2. n + 1 \in Lists(a) /\ Lists(a) \subseteq 1 .. n + 1
  BY <1>1 DEF Lists
<1>3. \A k \in Lists(a) : (\A j \in Lists(a) : j <= k) => k = n + 1
  BY <1>1, <1>2
<1> QED BY <1>1, <1>2, <1>3 DEF Reflects, a

(* Read by the client.                                                     *)
LEMMA MessageRead ==
  ASSUME NEW out \in Seq(MessageType), out # <<>>, NEW shown, NEW list, Reflects(out, shown, list)
  PROVE  /\ Reflects(Tail(out), IF Head(out).kind = "list" THEN Head(out).tools ELSE shown, list)
         /\ Carries(out) => Carries(Tail(out)) \/ Head(out).kind = "list_changed"
<1> DEFINE t == Tail(out)
           h == Head(out)
           n == Len(out)
           read == IF h.kind = "list" THEN h.tools ELSE shown
<1>1. /\ n \in Nat \ {0} /\ DOMAIN out = 1 .. n /\ DOMAIN t = 1 .. n - 1
      /\ h = out[1] /\ \A k \in 1 .. n - 1 : t[k] = out[k + 1]
  BY TailIs
<1> HIDE DEF t, h, n
<1>2. \A k \in DOMAIN out : k = 1 \/ (k - 1 \in DOMAIN t /\ t[k - 1] = out[k])
  BY <1>1
<1>3. /\ \A k \in Lists(t) : k + 1 \in Lists(out) /\ t[k] = out[k + 1] /\ k \in Nat
      /\ \A k \in Lists(out) : k \in Nat /\ (k = 1 \/ k - 1 \in Lists(t))
      /\ 1 \in Lists(out) <=> h.kind = "list"
  BY <1>1, <1>2 DEF Lists
<1>4. Lists(t) = {} => read = list
  <2>1. CASE h.kind = "list"
    <3>1. ASSUME Lists(t) = {} PROVE \A j \in Lists(out) : j <= 1
      BY <1>3, <3>1
    <3> QED BY <1>1, <1>3, <2>1, <3>1 DEF Reflects
  <2>2. CASE h.kind # "list"
    BY <1>3, <2>2 DEF Reflects
  <2> QED BY <2>1, <2>2
<1>5. ASSUME NEW k \in Lists(t), \A j \in Lists(t) : j <= k PROVE t[k].tools = list
  <2>1. ASSUME NEW j \in Lists(out) PROVE j <= k + 1
    BY <1>3, <1>5
  <2> QED BY <1>3, <2>1 DEF Reflects
<1>6. Carries(out) => Carries(t) \/ h.kind = "list_changed"
  BY <1>1, <1>2 DEF Carries
<1> HIDE DEF read
<1>7. Reflects(t, read, list)
  BY <1>4, <1>5 DEF Reflects
<1> QED BY <1>6, <1>7 DEF t, h, read

(* Requests on their way.                                                  *)
LEMMA RequestWritten ==
  ASSUME NEW in \in Seq(RequestType), NEW r \in RequestType
  PROVE  Asked(in) \/ r.method = "tools/list" => Asked(Append(in, r))
BY AppendIs DEF Asked

LEMMA RequestRead ==
  ASSUME NEW in \in Seq(RequestType), in # <<>>, Asked(in), Head(in).method # "tools/list"
  PROVE  Asked(Tail(in))
<1>1. PICK k \in DOMAIN in : in[k].method = "tools/list"
  BY DEF Asked
<1>2. k - 1 \in DOMAIN Tail(in) /\ Tail(in)[k - 1] = in[k]
  BY <1>1, TailIs
<1> QED BY <1>1, <1>2 DEF Asked

(* Steps that write at most one message, and not a list.                   *)
LEMMA SmallStepKeepsDelivery ==
  ASSUME AnswerTypes, Delivery, UNCHANGED <<view, refetch, listed, announced>>,
         Asked(stdin) => Asked(stdin'),
         stdout' = stdout \/ \E m \in MessageType : m.kind # "list" /\ stdout' = Append(stdout, m)
  PROVE  Delivery'
<1>1. /\ Reflects(stdout, view, listed) => Reflects(stdout', view, listed)
      /\ Carries(stdout) => Carries(stdout')
  BY OtherWritten DEF AnswerTypes
<1> QED BY <1>1 DEF Delivery

LEMMA ReadsOther ==
  ASSUME AnswerTypes, NEW m, Reads(m)
  PROVE  /\ UNCHANGED <<view, refetch>> /\ Head(stdin) \in RequestType
         /\ m # "tools/list" /\ Asked(stdin) => Asked(stdin')
<1>1. /\ UNCHANGED <<view, refetch>>
      /\ stdin \in Seq(RequestType) /\ stdin # <<>> /\ stdin' = Tail(stdin) /\ Head(stdin).method = m
  BY DEF Reads, AnswerTypes, clientVars
<1> QED BY <1>1, RequestRead, TailIs

LEMMA CallKeepsDelivery ==
  ASSUME AnswerTypes, Delivery, handleToolsCall
  PROVE  Delivery'
<1> DEFINE r == Head(stdin)
           w == PushAll(window, Tags[r.name])
           notice == IF Announces(w) THEN <<ListChanged>> ELSE <<>>
           out == stdout \o notice
           answer == Answer(r, "result", {})
<1>1. /\ Reads("tools/call") /\ listed' = listed /\ announced' = (announced \/ Announces(w))
      /\ \/ stdout' = out
         \/ stdout' = out \o <<answer>>
  BY DEF handleToolsCall
<1>2. /\ UNCHANGED <<view, refetch>> /\ r \in RequestType
      /\ Asked(stdin) => Asked(stdin')
  BY <1>1, ReadsOther
<1>3. stdout \in Seq(MessageType)
  BY DEF AnswerTypes
<1>4. /\ out \in Seq(MessageType) /\ Reflects(out, view, listed)
      /\ Carries(stdout) \/ Announces(w) => Carries(out)
  <2>1. CASE Announces(w)
    <3>1. ListChanged \in MessageType /\ ListChanged.kind = "list_changed"
      BY DEF ListChanged, MessageType
    <3>2. out = Append(stdout, ListChanged)
      BY <1>3, <2>1, <3>1
    <3> HIDE DEF out
    <3> QED BY <1>3, <3>1, <3>2, OtherWritten DEF Delivery
  <2>2. CASE ~Announces(w)
    <3>1. out = stdout
      BY <1>3, <2>2
    <3> HIDE DEF out
    <3> QED BY <1>3, <2>2, <3>1 DEF Delivery
  <2> QED BY <2>1, <2>2
<1>5. answer \in MessageType /\ answer.kind # "list"
  BY <1>2, AnswerIsMessage DEF Answer
<1> HIDE DEF out, answer, w
<1>6. out \o <<answer>> = Append(out, answer)
  BY <1>4, <1>5
<1>7. /\ Reflects(stdout', view, listed)
      /\ Carries(stdout) \/ Announces(w) => Carries(stdout')
  BY <1>1, <1>4, <1>5, <1>6, OtherWritten
<1> QED BY <1>1, <1>2, <1>7 DEF Delivery

LEMMA ListKeepsDelivery ==
  ASSUME AnswerTypes, Delivery, handleToolsList
  PROVE  Delivery'
<1> DEFINE answer == Answer(Head(stdin), "list", Surface(window))
<1>1. /\ Reads("tools/list") /\ stdout' = Append(stdout, answer)
      /\ listed' = Surface(window) /\ announced' = FALSE
  BY DEF handleToolsList
<1>2. Head(stdin) \in RequestType /\ Surface(window) \in SUBSET Tool
  BY <1>1, ReadsOther DEF Surface, Lookup
<1>3. answer \in MessageType /\ answer.kind = "list" /\ answer.tools = Surface(window)
  BY <1>2, AnswerIsMessage DEF Answer
<1> HIDE DEF answer
<1>4. Reflects(stdout', view', listed')
  BY <1>1, <1>3, ListWritten DEF AnswerTypes
<1> QED BY <1>1, <1>4 DEF Delivery

LEMMA ClientKeepsDelivery ==
  ASSUME AnswerTypes, Delivery, Client
  PROVE  Delivery'
<1>1. ASSUME NEW r \in RequestType, Write(r)
      PROVE  /\ UNCHANGED <<stdout, listed, announced>>
             /\ Asked(stdin) \/ r.method = "tools/list" => Asked(stdin')
  BY <1>1, RequestWritten DEF Write, historyVars, AnswerTypes
<1>2. ASSUME NEW method \in Method, NEW name \in Name \cup {Nobody}, NEW hasId \in BOOLEAN,
             ClientSend(method, name, hasId)
      PROVE  Delivery'
  <2> DEFINE r == Request(method, name, IF hasId THEN nextId + 1 ELSE NoId)
  <2>1. Write(r) /\ r \in RequestType /\ UNCHANGED <<view, refetch>>
    BY <1>2 DEF ClientSend, Request, RequestType
  <2> HIDE DEF r
  <2> QED BY <1>1, <2>1 DEF Delivery
<1>3. CASE ClientRefetch
  <2> DEFINE r == Request("tools/list", Nobody, nextId + 1)
  <2>1. Write(r) /\ r \in RequestType /\ r.method = "tools/list" /\ view' = view
    BY <1>3, MethodAssumption DEF ClientRefetch, Request, RequestType
  <2> HIDE DEF r
  <2> QED BY <1>1, <2>1 DEF Delivery
<1>4. CASE ClientReceive
  <2>1. /\ stdout # <<>> /\ stdout' = Tail(stdout) /\ UNCHANGED <<stdin, listed, announced>>
        /\ view' = IF Head(stdout).kind = "list" THEN Head(stdout).tools ELSE view
        /\ refetch' = (refetch \/ Head(stdout).kind = "list_changed")
    BY <1>4 DEF ClientReceive, historyVars
  <2>2. /\ Reflects(stdout', view', listed)
        /\ Carries(stdout) => Carries(stdout') \/ Head(stdout).kind = "list_changed"
    BY <2>1, MessageRead DEF AnswerTypes, Delivery
  <2> QED BY <2>1, <2>2 DEF Delivery
<1>5. CASE ClientClose
  BY <1>5 DEF ClientClose, clientVars, historyVars, Delivery
<1> QED BY <1>2, <1>3, <1>4, <1>5 DEF Client

LEMMA DeliveryNext == AnswerTypes /\ Delivery /\ [Next]_vars => Delivery'
<1> SUFFICES ASSUME AnswerTypes, Delivery, [Next]_vars PROVE Delivery'
  OBVIOUS
<1>1. CASE Client BY <1>1, ClientKeepsDelivery
<1>2. CASE handleToolsList BY <1>2, ListKeepsDelivery
<1>3. CASE handleToolsCall BY <1>3, CallKeepsDelivery
<1>4. ASSUME NEW m \in {"malformed", "notifications/initialized"}, Drop(m) PROVE Delivery'
  <2>1. Reads(m) /\ UNCHANGED <<stdout, listed, announced>>
    BY <1>4 DEF Drop, historyVars
  <2> QED BY <2>1, ReadsOther, SmallStepKeepsDelivery
<1>5. ASSUME Reply("initialize") \/ Reply("ping") \/ RejectCall PROVE Delivery'
  <2>1. PICK m \in {"initialize", "ping", "tools/call"}, kind \in {"result", "error"} :
          /\ Reads(m) /\ UNCHANGED <<listed, announced>>
          /\ stdout' = Append(stdout, Answer(Head(stdin), kind, {}))
    BY <1>5 DEF Reply, RejectCall
  <2>2. Answer(Head(stdin), kind, {}) \in MessageType /\ Answer(Head(stdin), kind, {}).kind = kind
    BY <2>1, ReadsOther, AnswerIsMessage DEF Answer
  <2> QED BY <2>1, <2>2, ReadsOther, SmallStepKeepsDelivery
<1>6. CASE MethodNotFound
  <2>1. /\ Reads("other") /\ UNCHANGED <<listed, announced>>
        /\ stdout' = stdout \/ stdout' = Append(stdout, Answer(Head(stdin), "error", {}))
    BY <1>6 DEF MethodNotFound
  <2>2. Answer(Head(stdin), "error", {}) \in MessageType /\ Answer(Head(stdin), "error", {}).kind = "error"
    BY <2>1, ReadsOther, AnswerIsMessage DEF Answer
  <2> QED BY <2>1, <2>2, ReadsOther, SmallStepKeepsDelivery
<1>7. CASE LineTooLong
  <2>1. Reads("oversized") /\ UNCHANGED <<stdout, listed, announced>>
    BY <1>7 DEF LineTooLong, historyVars
  <2> QED BY <2>1, ReadsOther, SmallStepKeepsDelivery
<1>8. ASSUME NEW outcome \in {"result", "isError"}, ForwardReturns(outcome) PROVE Delivery'
  <2>1. /\ UNCHANGED <<view, refetch, stdin, listed, announced>> /\ handling \in RequestType
        /\ stdout' = Append(stdout, Answer(handling, outcome, {}))
    BY <1>8 DEF ForwardReturns, clientVars, AnswerTypes
  <2>2. Answer(handling, outcome, {}) \in MessageType /\ Answer(handling, outcome, {}).kind = outcome
    BY <2>1, AnswerIsMessage DEF Answer
  <2> QED BY <2>1, <2>2, SmallStepKeepsDelivery
<1>9. CASE EndOfInput \/ UNCHANGED vars
  BY <1>9 DEF EndOfInput, vars, clientVars, historyVars, Delivery
<1> QED BY <1>1, <1>2, <1>3, <1>4, <1>5, <1>6, <1>7, <1>8, <1>9 DEF Next, Serve, handleMessage

(* What ViewSizeSettles owes to the code and not to its scheduling.        *)
InStepWhenRead ==
  view # Nobody /\ stdout = <<>> /\ ~refetch /\ ~Asked(stdin)
    => Cardinality(view) = Cardinality(Surface(window))

(* A client that has read all that the bridge has written, and re-fetches  *)
(* whenever it is told to, believes in a surface of the right size, also   *)
(* while a call is being forwarded (bridge.go:213-216, 287-301).           *)
THEOREM ClientIsInStep == Spec => []InStepWhenRead
<1>1. Init => Delivery
  BY EmptySeq DEF Init, Delivery, Reflects, Lists
<1>2. SurfaceInv /\ Delivery => InStepWhenRead
  <2> SUFFICES ASSUME SurfaceInv, Delivery, view # Nobody, stdout = <<>>, ~refetch, ~Asked(stdin)
               PROVE  Cardinality(view) = Cardinality(Surface(window))
    BY DEF InStepWhenRead
  <2>1. Lists(stdout) = {} /\ ~Carries(stdout)
    BY EmptySeq DEF Lists, Carries
  <2> QED BY <2>1 DEF Delivery, Reflects, SurfaceInv, SizeChangeAnnounced
<1>3. AnswerInv => AnswerTypes
  BY DEF AnswerInv
<1> QED BY <1>1, <1>2, <1>3, SurfaceInvAlways, AnswerInvAlways, DeliveryNext, PTL DEF Spec
=============================================================================
