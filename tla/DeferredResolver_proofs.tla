----------------------- MODULE DeferredResolver_proofs -----------------------
(***************************************************************************)
(* Proofs about DeferredResolver for any tags, options, goroutines and     *)
(* number of observations.  The inductive invariant is TypeOK, the shape   *)
(* of the window (WindowIsNewest) and that no snapshot is hollow; from it  *)
(* follow that Resolve never fails and that the locked window implements   *)
(* the promise over the whole list of observations.                        *)
(***************************************************************************)
EXTENDS DeferredResolver, DeferredWindow_proofs

-----------------------------------------------------------------------------
(* The tags of the newest W entries are the tags that SPEC.md calls recent. *)
LEMMA ObservedIsRecent ==
  ASSUME NEW S, NEW s \in Seq(S), NEW n \in Nat \ {0}
  PROVE  Range(Newest(s, n)) = {s[i] : i \in {j \in 1 .. Len(s) : j > Len(s) - n}}
<1> DEFINE w == Newest(s, n)
<1>1. /\ w \in Seq(S)
      /\ Len(w) = IF Len(s) > n THEN n ELSE Len(s)
      /\ \A i \in 1 .. Len(w) : w[i] = s[IF Len(s) > n THEN Len(s) - n + i ELSE i]
  BY NewestProperties
<1>2. DOMAIN w = 1 .. Len(w) /\ Len(s) \in Nat
  BY <1>1, LenProperties
<1> HIDE DEF w
<1>3. Range(w) = {w[i] : i \in 1 .. Len(w)}
  BY <1>2 DEF Range
<1>4. CASE Len(s) > n
  <2>1. Len(w) = n
    BY <1>1, <1>4
  <2>2. \A i \in 1 .. n : w[i] = s[Len(s) - n + i]
    BY <1>1, <1>4, <2>1
  <2>3. \A i \in 1 .. n : Len(s) - n + i \in 1 .. Len(s) /\ Len(s) - n + i > Len(s) - n
    BY <1>2, <1>4
  <2>4. \A j \in 1 .. Len(s) : j > Len(s) - n =>
           /\ j - (Len(s) - n) \in 1 .. n
           /\ Len(s) - n + (j - (Len(s) - n)) = j
    BY <1>2, <1>4
  <2>5. ASSUME NEW j \in 1 .. Len(s), j > Len(s) - n
        PROVE  \E i \in 1 .. n : w[i] = s[j]
    <3>1. /\ j - (Len(s) - n) \in 1 .. n
          /\ Len(s) - n + (j - (Len(s) - n)) = j
      BY <2>4, <2>5
    <3>2. w[j - (Len(s) - n)] = s[j]
      BY <2>2, <3>1
    <3> QED BY <3>1, <3>2
  <2> DEFINE recent == {s[i] : i \in {j \in 1 .. Len(s) : j > Len(s) - n}}
  <2>6. Range(w) \subseteq recent
    <3> SUFFICES ASSUME NEW i \in 1 .. n PROVE w[i] \in recent
      BY <1>3, <2>1
    <3> QED BY <2>2, <2>3
  <2>7. recent \subseteq Range(w)
    <3> SUFFICES ASSUME NEW j \in 1 .. Len(s), j > Len(s) - n
                 PROVE  s[j] \in Range(w)
      OBVIOUS
    <3> QED BY <1>3, <2>1, <2>5
  <2> QED BY <2>6, <2>7 DEF w
<1>5. CASE ~(Len(s) > n)
  <2>1. Len(w) = Len(s) /\ \A i \in 1 .. Len(s) : w[i] = s[i]
    BY <1>1, <1>5
  <2>2. \A j \in 1 .. Len(s) : j > Len(s) - n
    BY <1>2, <1>5
  <2> QED BY <1>3, <2>1, <2>2 DEF w
<1> QED BY <1>4, <1>5

-----------------------------------------------------------------------------
(* What Resolve gathers is a set of capabilities, and it is not empty when *)
(* a tool is registered and the snapshot is not hollow.                    *)
LEMMA ResolvedProperties ==
  ASSUME TypeOK, NEW g \in Goroutine
  PROVE  /\ Resolved(g) \in SUBSET Capability
         /\ SnapshotNotHollow /\ AllCapabilities # {} => Resolved(g) # {}
<1>1. /\ snapshot[g] \in Snapshot
      /\ req[g] \in Request
  BY DEF TypeOK
<1>2. FallbackCaps(req[g].intent) \in SUBSET Capability
  BY <1>1, FallbackAssumption DEF FallbackCaps, Request
<1>3. Resolved(g) \in SUBSET Capability
  BY <1>1, <1>2, CapabilityAssumption DEF Resolved, Gather, Request, Snapshot
<1>4. ASSUME SnapshotNotHollow, AllCapabilities # {}
      PROVE  Resolved(g) # {}
  <2>1. CASE snapshot[g].obsCount < narrowThreshold
    BY <1>4, <2>1 DEF Resolved, Gather
  <2>2. CASE ~(snapshot[g].obsCount < narrowThreshold)
    <3>1. snapshot[g].observed # {}
      BY <1>1, <1>4, <2>2, SizesArePositive DEF SnapshotNotHollow, Snapshot
    <3> QED BY <2>2, <3>1 DEF Resolved, Gather
  <2> QED BY <2>1, <2>2
<1> QED BY <1>3, <1>4

(* The inductive invariant.                                                *)
IInv == TypeOK /\ WindowIsNewest /\ SnapshotNotHollow /\ NeverNarrowedToNothing

LEMMA InitIInv == Init => IInv
<1> SUFFICES ASSUME Init PROVE IInv
  OBVIOUS
<1> USE DEF Init
<1>1. TypeOK
  <2>1. window \in Seq(Capability) /\ log \in Seq(Capability)
    OBVIOUS
  <2>2. [intent |-> NoIntent, hints |-> {}] \in Request
    BY FallbackAssumption DEF Request
  <2>3. NothingRead \in Snapshot
    BY DEF NothingRead, Snapshot
  <2> QED BY <2>1, <2>2, <2>3 DEF TypeOK
<1>2. WindowIsNewest
  BY SizesArePositive DEF WindowIsNewest, Newest
<1>3. SnapshotNotHollow
  BY SizesArePositive DEF SnapshotNotHollow, NothingRead
<1>4. NeverNarrowedToNothing
  BY NoAnswerAssumption DEF NeverNarrowedToNothing
<1> QED BY <1>1, <1>2, <1>3, <1>4 DEF IInv

LEMMA NextIInv == IInv /\ [Next]_vars => IInv'
<1> SUFFICES ASSUME IInv, [Next]_vars PROVE IInv'
  OBVIOUS
<1> USE DEF IInv
<1>1. ASSUME NEW g \in Goroutine, NEW raw \in RawTag, Observe(g, raw)
      PROVE  IInv'
  <2>1. Normalize[raw] \in Capability
    BY <1>1, NormalizeAssumption DEF Observe
  <2>2. window' = Newest(log', windowSize)
    BY <1>1, <2>1, PushKeepsNewest DEF Observe, WindowIsNewest, TypeOK
  <2>3. log' \in Seq(Capability)
    BY <1>1, <2>1 DEF Observe, TypeOK
  <2>4. window' \in Seq(Capability)
    BY <2>2, <2>3, NewestProperties, SizesArePositive
  <2>5. TypeOK'
    BY <1>1, <2>3, <2>4 DEF Observe, TypeOK
  <2>6. WindowIsNewest'
    BY <2>2 DEF WindowIsNewest
  <2>7. SnapshotNotHollow' /\ NeverNarrowedToNothing'
    BY <1>1 DEF Observe, SnapshotNotHollow, NeverNarrowedToNothing
  <2> QED BY <2>5, <2>6, <2>7
<1>2. ASSUME NEW g \in Goroutine, Reset(g)
      PROVE  IInv'
  <2>1. TypeOK'
    BY <1>2 DEF Reset, TypeOK
  <2>2. WindowIsNewest'
    BY <1>2, SizesArePositive DEF Reset, WindowIsNewest, Newest
  <2>3. SnapshotNotHollow' /\ NeverNarrowedToNothing'
    BY <1>2 DEF Reset, SnapshotNotHollow, NeverNarrowedToNothing
  <2> QED BY <2>1, <2>2, <2>3
<1>3. ASSUME NEW g \in Goroutine, NEW intent \in Intent,
             NEW hints \in SUBSET RawTag, ResolveCall(g, intent, hints)
      PROVE  IInv'
  <2>1. Normalized(hints) \in SUBSET Capability
    BY NormalizeAssumption DEF Normalized
  <2>2. TypeOK'
    <3>1. [intent |-> intent, hints |-> Normalized(hints)] \in Request
      BY <2>1 DEF Request
    <3> QED BY <1>3, <3>1 DEF ResolveCall, TypeOK
  <2>3. WindowIsNewest' /\ SnapshotNotHollow'
    BY <1>3 DEF ResolveCall, WindowIsNewest, SnapshotNotHollow
  <2>4. NeverNarrowedToNothing'
    BY <1>3, NoAnswerAssumption DEF ResolveCall, NeverNarrowedToNothing, TypeOK
  <2> QED BY <2>2, <2>3, <2>4
<1>4. ASSUME NEW g \in Goroutine, ResolveRead(g)
      PROVE  IInv'
  <2>1. /\ Len(window) \in Nat
        /\ Range(window) \in SUBSET Capability
        /\ Len(window) > 0 => Range(window) # {}
    BY LenProperties, ElementOfSeq DEF TypeOK, Range
  <2>2. TypeOK'
    BY <1>4, <2>1 DEF ResolveRead, TypeOK, Snapshot, observedCaps
  <2>3. SnapshotNotHollow'
    BY <1>4, <2>1, SizesArePositive
       DEF ResolveRead, SnapshotNotHollow, observedCaps, TypeOK
  <2>4. WindowIsNewest' /\ NeverNarrowedToNothing'
    BY <1>4 DEF ResolveRead, WindowIsNewest, NeverNarrowedToNothing
  <2> QED BY <2>2, <2>3, <2>4
<1>5. ASSUME NEW g \in Goroutine, ResolveReturn(g)
      PROVE  IInv'
  <2>1. TypeOK'
    BY <1>5, ResolvedProperties DEF ResolveReturn, TypeOK, Snapshot, NothingRead
  <2>2. SnapshotNotHollow'
    BY <1>5, SizesArePositive DEF ResolveReturn, SnapshotNotHollow, NothingRead, TypeOK
  <2>3. NeverNarrowedToNothing'
    BY <1>5, ResolvedProperties DEF ResolveReturn, NeverNarrowedToNothing, TypeOK
  <2>4. WindowIsNewest'
    BY <1>5 DEF ResolveReturn, WindowIsNewest
  <2> QED BY <2>1, <2>2, <2>3, <2>4
<1>6. CASE UNCHANGED vars
  BY <1>6 DEF vars, TypeOK, WindowIsNewest, SnapshotNotHollow, NeverNarrowedToNothing
<1> QED BY <1>1, <1>2, <1>3, <1>4, <1>5, <1>6 DEF Next

LEMMA AlwaysIInv == Spec => []IInv
BY InitIInv, NextIInv, PTL DEF Spec

(* Type correctness: in particular the empty tag is never stored.          *)
THEOREM TypeCorrect == Spec => []TypeOK
BY AlwaysIInv, PTL DEF IInv

(* The window is the newest windowSize observations since the last reset,  *)
(* for any interleaving of any number of observers and resetters.          *)
THEOREM WindowCorrect == Spec => []WindowIsNewest
BY AlwaysIInv, PTL DEF IInv

(* Resolve never answers ErrNoCapabilities once a tool is registered.      *)
THEOREM NeverFails == Spec => []NeverNarrowedToNothing
BY AlwaysIInv, PTL DEF IInv

(* A window that has reached the threshold falls below it only by Reset.   *)
THEOREM NarrowingLasts == Spec => NarrowedUntilReset
<1>1. ASSUME IInv, [Next]_vars
      PROVE  [Len(window) >= narrowThreshold /\ Len(window') < narrowThreshold
                => window' = <<>>]_window
  <2>1. ASSUME NEW g \in Goroutine, NEW raw \in RawTag, Observe(g, raw)
        PROVE  Len(window') >= Len(window)
    <3>1. Normalize[raw] \in Capability
      BY <2>1, NormalizeAssumption DEF Observe
    <3>2. /\ Append(window, Normalize[raw]) \in Seq(Capability)
          /\ Len(Append(window, Normalize[raw])) = Len(window) + 1
          /\ Len(window) \in Nat
      BY <1>1, <3>1, AppendProperties, LenProperties DEF IInv, TypeOK
    <3>3. Len(window) <= windowSize
      <4>1. log \in Seq(Capability) /\ Len(log) \in Nat
        BY <1>1, LenProperties DEF IInv, TypeOK
      <4> QED BY <1>1, <4>1, NewestProperties, SizesArePositive DEF IInv, WindowIsNewest
    <3>4. Len(window') = IF Len(window) + 1 > windowSize
                          THEN windowSize ELSE Len(window) + 1
      BY <2>1, <3>2, NewestProperties, SizesArePositive DEF Observe, Push
    <3> QED BY <3>2, <3>3, <3>4, SizesArePositive
  <2>2. ASSUME NEW g \in Goroutine, NEW raw \in RawTag, Observe(g, raw)
        PROVE  ~(Len(window) >= narrowThreshold /\ Len(window') < narrowThreshold)
    <3>1. /\ Len(window) \in Nat
          /\ Len(window') \in Nat
      <4>1. window' \in Seq(Capability)
        BY <1>1, NextIInv DEF IInv, TypeOK
      <4> QED BY <1>1, <4>1, LenProperties DEF IInv, TypeOK
    <3> QED BY <2>1, <2>2, <3>1, SizesArePositive
  <2>3. ASSUME NEW g \in Goroutine, Reset(g)
        PROVE  window' = <<>>
    BY <2>3 DEF Reset
  <2>4. CASE UNCHANGED window
    BY <2>4
  <2>5. ASSUME NEW g \in Goroutine,
               \/ \E intent \in Intent, hints \in SUBSET RawTag :
                    ResolveCall(g, intent, hints)
               \/ ResolveRead(g)
               \/ ResolveReturn(g)
        PROVE  UNCHANGED window
    BY <2>5 DEF ResolveCall, ResolveRead, ResolveReturn
  <2>6. UNCHANGED vars => UNCHANGED window
    BY DEF vars
  <2> QED BY <1>1, <2>2, <2>3, <2>4, <2>5, <2>6 DEF Next
<1> QED BY <1>1, AlwaysIInv, PTL DEF Spec, NarrowedUntilReset

(* Configured with a window smaller than the threshold, the resolver never *)
(* narrows: IInv is strengthened by the size of what is in flight.         *)
SnapshotFits == \A g \in Goroutine : snapshot[g].obsCount <= windowSize

THEOREM SmallWindowStaysFull == Spec => []SmallWindowNeverNarrows
<1> DEFINE Inv == SnapshotFits /\ SmallWindowNeverNarrows
<1>1. Init => Inv
  BY SizesArePositive DEF Init, SnapshotFits, SmallWindowNeverNarrows, NothingRead
<1>2. ASSUME IInv, Inv, [Next]_vars
      PROVE  Inv'
  <2>1. ASSUME NEW g \in Goroutine, ResolveRead(g)
        PROVE  Inv'
    <3>1. Len(window) <= windowSize
      <4>1. log \in Seq(Capability) /\ Len(log) \in Nat
        BY <1>2, LenProperties DEF IInv, TypeOK
      <4> QED BY <1>2, <4>1, NewestProperties, SizesArePositive DEF IInv, WindowIsNewest
    <3>2. SnapshotFits'
      BY <1>2, <2>1, <3>1 DEF ResolveRead, SnapshotFits, IInv, TypeOK
    <3> QED BY <1>2, <2>1, <3>2 DEF ResolveRead, SmallWindowNeverNarrows
  <2>2. ASSUME NEW g \in Goroutine, ResolveReturn(g)
        PROVE  Inv'
    <3>1. windowSize < narrowThreshold => AllCapabilities \subseteq Resolved(g)
      <4>1. snapshot[g].obsCount \in Nat
        BY <1>2 DEF IInv, TypeOK, Snapshot
      <4>2. windowSize < narrowThreshold => snapshot[g].obsCount < narrowThreshold
        BY <1>2, <4>1, SizesArePositive DEF SnapshotFits
      <4> QED BY <4>2 DEF Resolved, Gather
    <3>2. SnapshotFits'
      BY <1>2, <2>2, SizesArePositive
         DEF ResolveReturn, SnapshotFits, NothingRead, IInv, TypeOK
    <3>3. SmallWindowNeverNarrows'
      BY <1>2, <2>2, <3>1 DEF ResolveReturn, SmallWindowNeverNarrows, IInv, TypeOK
    <3> QED BY <3>2, <3>3
  <2>3. ASSUME NEW g \in Goroutine, NEW intent \in Intent,
               NEW hints \in SUBSET RawTag, ResolveCall(g, intent, hints)
        PROVE  Inv'
    BY <1>2, <2>3 DEF ResolveCall, SnapshotFits, SmallWindowNeverNarrows, IInv, TypeOK
  <2>4. ASSUME NEW g \in Goroutine,
               Reset(g) \/ \E raw \in RawTag : Observe(g, raw)
        PROVE  Inv'
    BY <1>2, <2>4 DEF Reset, Observe, SnapshotFits, SmallWindowNeverNarrows
  <2>5. CASE UNCHANGED vars
    BY <1>2, <2>5 DEF vars, SnapshotFits, SmallWindowNeverNarrows
  <2> QED BY <1>2, <2>1, <2>2, <2>3, <2>4, <2>5 DEF Next
<1> QED BY <1>1, <1>2, AlwaysIInv, PTL DEF Spec

-----------------------------------------------------------------------------
(* The answer built from a snapshot of the window is the one promised over *)
(* the whole log.                                                          *)
LEMMA SnapshotIsPromise ==
  ASSUME IInv, NEW g \in Goroutine
  PROVE  Gather(Len(window), observedCaps(window), req[g].hints,
                FallbackCaps(req[g].intent))
           = Promise!Promised(req[g])
<1>1. /\ log \in Seq(Capability)
      /\ Len(log) \in Nat
      /\ req[g] \in Request
  BY LenProperties DEF IInv, TypeOK
<1>2. observedCaps(window) = Promise!Recent
  BY <1>1, ObservedIsRecent, SizesArePositive
     DEF IInv, WindowIsNewest, observedCaps, Promise!Recent
<1>3. Len(window) = IF Len(log) > windowSize THEN windowSize ELSE Len(log)
  BY <1>1, NewestProperties, SizesArePositive DEF IInv, WindowIsNewest
<1>4. Len(window) < narrowThreshold <=> ~Promise!Narrowed
  BY <1>1, <1>3, SizesArePositive DEF Promise!Narrowed
<1>5. [i \in Intent |-> FallbackCaps(i)][req[g].intent] = FallbackCaps(req[g].intent)
  BY <1>1 DEF Request
<1> QED BY <1>2, <1>4, <1>5 DEF Gather, Promise!Promised

(* The resolver as its goroutines share it implements what Resolve's       *)
(* comment promises (deferred.go:126-130): every step of it is a step of   *)
(* DeferredIntent or leaves the mapped state alone.                        *)
THEOREM ImplementsPromise == Spec => KeepsPromise
<1>1. Init => Promise!Init
  <2> SUFFICES ASSUME Init PROVE Promise!Init
    OBVIOUS
  <2>1. [intent |-> NoIntent, hints |-> {}] \in Promise!Question
    BY FallbackAssumption DEF Promise!Question
  <2> QED BY <2>1 DEF Init, Promise!Init
<1>2. ASSUME IInv, IInv', [Next]_vars
      PROVE  [Promise!Next]_(Promise!vars)
  <2>1. ASSUME NEW g \in Goroutine, NEW raw \in RawTag, Observe(g, raw)
        PROVE  Promise!Next
    <3>1. Normalize[raw] \in Capability
      BY <2>1, NormalizeAssumption DEF Observe
    <3>2. Promise!Observe(Normalize[raw])
      BY <2>1 DEF Observe, Promise!Observe, Resolved
    <3> QED BY <3>1, <3>2 DEF Promise!Next
  <2>2. ASSUME NEW g \in Goroutine, Reset(g)
        PROVE  Promise!Next
    <3>1. Promise!Reset
      BY <2>2 DEF Reset, Promise!Reset, Resolved
    <3> QED BY <3>1 DEF Promise!Next
  <2>3. ASSUME NEW g \in Goroutine, NEW intent \in Intent,
               NEW hints \in SUBSET RawTag, ResolveCall(g, intent, hints)
        PROVE  Promise!Next
    <3> DEFINE q == [intent |-> intent, hints |-> Normalized(hints)]
    <3>1. q \in Promise!Question
      BY NormalizeAssumption DEF Normalized, Promise!Question
    <3>2. Promise!Ask(g, q)
      BY <1>2, <2>3 DEF ResolveCall, Promise!Ask, IInv, TypeOK, Resolved
    <3> QED BY <3>1, <3>2 DEF Promise!Next
  <2>4. ASSUME NEW g \in Goroutine, ResolveRead(g)
        PROVE  Promise!Next
    <3>1. Resolved(g)' = Promise!Promised(req[g])
      BY <1>2, <2>4, SnapshotIsPromise DEF ResolveRead, Resolved, IInv, TypeOK
    <3>2. Promise!Decide(g)
      BY <1>2, <2>4, <3>1 DEF ResolveRead, Promise!Decide, IInv, TypeOK, Resolved
    <3> QED BY <3>2 DEF Promise!Next
  <2>5. ASSUME NEW g \in Goroutine, ResolveReturn(g)
        PROVE  Promise!Next
    <3>1. Promise!Tell(g)
      BY <1>2, <2>5 DEF ResolveReturn, Promise!Tell, IInv, TypeOK, Resolved
    <3> QED BY <3>1 DEF Promise!Next
  <2>6. CASE UNCHANGED vars
    BY <2>6 DEF vars, Promise!vars, Resolved
  <2> QED BY <1>2, <2>1, <2>2, <2>3, <2>4, <2>5, <2>6 DEF Next
<1> QED BY <1>1, <1>2, AlwaysIInv, PTL DEF Spec, Promise!Spec, KeepsPromise
=============================================================================
