------------------------ MODULE DeferredWindow_proofs ------------------------
(***************************************************************************)
(* Lemmas about the sliding window for any options, tags and window: what  *)
(* DeferredResolver_proofs and Bridge_proofs need to know of it.           *)
(***************************************************************************)
EXTENDS DeferredWindow, SequenceTheorems, TLAPS

-----------------------------------------------------------------------------
(* Whatever the options, the constructor settles on positive sizes.        *)
LEMMA SizesArePositive ==
  /\ windowSize \in Nat \ {0}
  /\ narrowThreshold \in Nat \ {0}
BY OptionAssumption DEF windowSize, narrowThreshold

(* Newest keeps min(Len(s), n) entries, and they are the last ones.        *)
LEMMA NewestProperties ==
  ASSUME NEW S, NEW s \in Seq(S), NEW n \in Nat \ {0}
  PROVE  /\ Newest(s, n) \in Seq(S)
         /\ Len(Newest(s, n)) = IF Len(s) > n THEN n ELSE Len(s)
         /\ \A i \in 1 .. Len(Newest(s, n)) :
              Newest(s, n)[i] = s[IF Len(s) > n THEN Len(s) - n + i ELSE i]
<1>1. CASE Len(s) > n
  <2>1. Newest(s, n) = SubSeq(s, Len(s) - n + 1, Len(s))
    BY <1>1 DEF Newest
  <2>2. /\ Len(s) \in Nat
        /\ Len(s) - n + 1 \in 1 .. Len(s)
        /\ \A i \in Len(s) - n + 1 .. Len(s) : s[i] \in S
    BY <1>1, LenProperties, ElementOfSeq
  <2>3. /\ SubSeq(s, Len(s) - n + 1, Len(s)) \in Seq(S)
        /\ Len(SubSeq(s, Len(s) - n + 1, Len(s))) = n
        /\ \A i \in 1 .. n :
             SubSeq(s, Len(s) - n + 1, Len(s))[i] = s[Len(s) - n + i]
    BY <2>2, SubSeqProperties, Len(s) - n + 1 \in Int, Len(s) \in Int
  <2> QED BY <1>1, <2>1, <2>3
<1>2. CASE ~(Len(s) > n)
  BY <1>2, LenProperties DEF Newest
<1> QED BY <1>1, <1>2

(* Pushing onto the newest entries of a log gives the newest entries of    *)
(* the longer log: trimming after every append loses nothing.              *)
LEMMA PushKeepsNewest ==
  ASSUME NEW S, NEW s \in Seq(S), NEW c \in S
  PROVE  Push(Newest(s, windowSize), c) = Newest(Append(s, c), windowSize)
<1> DEFINE n == windowSize
           w == Newest(s, n)
           a == Append(w, c)
           t == Append(s, c)
<1>0. n \in Nat \ {0} BY SizesArePositive
<1>1. /\ w \in Seq(S)
      /\ Len(w) = IF Len(s) > n THEN n ELSE Len(s)
      /\ \A i \in 1 .. Len(w) : w[i] = s[IF Len(s) > n THEN Len(s) - n + i ELSE i]
  BY <1>0, NewestProperties
<1>2. /\ a \in Seq(S)
      /\ Len(a) = Len(w) + 1
      /\ \A i \in 1 .. Len(w) : a[i] = w[i]
      /\ a[Len(w) + 1] = c
  BY <1>1, AppendProperties
<1>3. /\ t \in Seq(S)
      /\ Len(t) = Len(s) + 1
      /\ \A i \in 1 .. Len(s) : t[i] = s[i]
      /\ t[Len(s) + 1] = c
  BY AppendProperties
<1>4. /\ Newest(a, n) \in Seq(S)
      /\ Len(Newest(a, n)) = IF Len(a) > n THEN n ELSE Len(a)
      /\ \A i \in 1 .. Len(Newest(a, n)) :
           Newest(a, n)[i] = a[IF Len(a) > n THEN Len(a) - n + i ELSE i]
  BY <1>0, <1>2, NewestProperties
<1>5. /\ Newest(t, n) \in Seq(S)
      /\ Len(Newest(t, n)) = IF Len(t) > n THEN n ELSE Len(t)
      /\ \A i \in 1 .. Len(Newest(t, n)) :
           Newest(t, n)[i] = t[IF Len(t) > n THEN Len(t) - n + i ELSE i]
  BY <1>0, <1>3, NewestProperties
<1>6. Len(s) \in Nat BY LenProperties
<1>7. Len(Newest(a, n)) = Len(Newest(t, n))
  BY <1>0, <1>1, <1>2, <1>3, <1>4, <1>5, <1>6
<1>8. ASSUME NEW i \in 1 .. Len(Newest(a, n))
      PROVE  Newest(a, n)[i] = Newest(t, n)[i]
  <2> HIDE DEF w, a, t, n
  <2>1. CASE Len(s) >= n
    <3>1. /\ Len(w) = n
          /\ Len(a) = n + 1
          /\ Len(Newest(a, n)) = n
      BY <1>0, <1>1, <1>2, <1>4, <1>6, <2>1
    <3>2. i \in 1 .. n
      BY <3>1
    <3>3. Newest(a, n)[i] = a[i + 1]
      <4>1. Len(a) - n + i = i + 1
        BY <1>0, <3>1, <3>2
      <4>2. Len(a) > n
        BY <1>0, <3>1
      <4> QED BY <1>4, <4>1, <4>2
    <3>4. Newest(t, n)[i] = t[Len(s) - n + 1 + i]
      <4>1. Len(t) - n + i = Len(s) - n + 1 + i
        BY <1>0, <1>3, <1>6, <3>2
      <4>2. Len(t) > n /\ i \in 1 .. Len(Newest(t, n))
        BY <1>0, <1>3, <1>6, <1>7, <2>1
      <4> QED BY <1>5, <4>1, <4>2
    <3>5. CASE i = n
      <4>1. a[i + 1] = c
        BY <1>2, <3>1, <3>5
      <4>2. t[Len(s) - n + 1 + i] = c
        <5>1. Len(s) - n + 1 + i = Len(s) + 1
          BY <1>0, <1>6, <3>5
        <5> QED BY <1>3, <5>1
      <4> QED BY <3>3, <3>4, <4>1, <4>2
    <3>6. CASE i # n
      <4>1. i + 1 \in 1 .. Len(w)
        BY <1>0, <3>1, <3>2, <3>6
      <4>2. Len(s) - n + 1 + i \in 1 .. Len(s)
        BY <1>0, <1>6, <2>1, <3>2, <3>6
      <4>3. a[i + 1] = w[i + 1]
        BY <1>2, <4>1
      <4>4. t[Len(s) - n + 1 + i] = s[Len(s) - n + 1 + i]
        BY <1>3, <4>2
      <4>5. w[i + 1] = s[Len(s) - n + 1 + i]
        <5>1. CASE Len(s) > n
          <6>1. Len(s) - n + (i + 1) = Len(s) - n + 1 + i
            BY <1>0, <1>6, <3>2
          <6> QED BY <1>1, <4>1, <5>1, <6>1
        <5>2. CASE Len(s) = n
          <6>1. Len(s) - n + 1 + i = i + 1
            BY <1>0, <3>2, <5>2
          <6>2. ~(Len(s) > n)
            BY <1>0, <5>2
          <6> QED BY <1>1, <4>1, <6>1, <6>2
        <5> QED BY <1>0, <1>6, <2>1, <5>1, <5>2
      <4> QED BY <3>3, <3>4, <4>3, <4>4, <4>5
    <3> QED BY <3>5, <3>6
  <2>2. CASE Len(s) < n
    <3>1. /\ Len(w) = Len(s)
          /\ Len(a) = Len(s) + 1
          /\ ~(Len(a) > n)
          /\ ~(Len(t) > n)
          /\ i \in 1 .. Len(s) + 1
      BY <1>0, <1>1, <1>2, <1>3, <1>4, <1>6, <2>2
    <3>2. Newest(a, n)[i] = a[i] /\ Newest(t, n)[i] = t[i]
      BY <1>4, <1>5, <1>7, <3>1
    <3>3. CASE i = Len(s) + 1
      BY <1>2, <1>3, <3>1, <3>2, <3>3
    <3>4. CASE i # Len(s) + 1
      <4>1. i \in 1 .. Len(s)
        BY <1>6, <3>1, <3>4
      <4>2. a[i] = w[i] /\ t[i] = s[i]
        BY <1>2, <1>3, <3>1, <4>1
      <4>3. w[i] = s[i]
        BY <1>0, <1>1, <1>6, <2>2, <3>1, <4>1
      <4> QED BY <3>2, <4>2, <4>3
    <3> QED BY <3>3, <3>4
  <2> QED BY <1>0, <1>6, <2>1, <2>2
<1>9. Newest(a, n) = Newest(t, n)
  BY <1>4, <1>5, <1>7, <1>8, SeqEqual
<1> QED BY <1>9 DEF Push

(* The observations of a call, one by one, leave the window that trimming  *)
(* once at the end leaves (bridge.go:246-248 with deferred.go:104-107).    *)
THEOREM PushAllOneByOne ==
  ASSUME NEW S, NEW w \in Seq(S), NEW tags \in Seq(S), NEW c \in S
  PROVE  Push(PushAll(w, tags), c) = PushAll(w, Append(tags, c))
<1>1. w \o tags \in Seq(S)
  BY ConcatProperties
<1>2. Push(Newest(w \o tags, windowSize), c) = Newest(Append(w \o tags, c), windowSize)
  BY <1>1, PushKeepsNewest
<1>3. Append(w \o tags, c) = w \o Append(tags, c)
  OBVIOUS
<1> QED BY <1>2, <1>3 DEF PushAll

(* A call that has tags leaves its last tag at the end of the window.      *)
LEMMA PushAllEndsWithTags ==
  ASSUME NEW S, NEW w \in Seq(S), NEW tags \in Seq(S), tags # <<>>
  PROVE  /\ PushAll(w, tags) \in Seq(S)
         /\ Len(PushAll(w, tags)) \in Nat \ {0}
         /\ PushAll(w, tags)[Len(PushAll(w, tags))] = tags[Len(tags)]
<1> DEFINE s == w \o tags
           p == Newest(s, windowSize)
<1>1. /\ s \in Seq(S) /\ Len(s) = Len(w) + Len(tags)
      /\ Len(w) \in Nat /\ Len(tags) \in Nat \ {0}
      /\ s[Len(w) + Len(tags)] = tags[Len(tags)]
  <2>1. Len(w) \in Nat /\ Len(tags) \in Nat \ {0}
    BY LenProperties, EmptySeq
  <2>2. /\ s \in Seq(S) /\ Len(s) = Len(w) + Len(tags)
        /\ \A i \in 1 .. Len(w) + Len(tags) :
             s[i] = IF i <= Len(w) THEN w[i] ELSE tags[i - Len(w)]
    BY ConcatProperties
  <2>3. s[Len(w) + Len(tags)] = tags[Len(w) + Len(tags) - Len(w)]
    BY <2>1, <2>2
  <2>4. Len(w) + Len(tags) - Len(w) = Len(tags)
    BY <2>1
  <2> QED BY <2>1, <2>2, <2>3, <2>4
<1>2. /\ p \in Seq(S)
      /\ Len(p) = IF Len(s) > windowSize THEN windowSize ELSE Len(s)
      /\ \A i \in 1 .. Len(p) :
           p[i] = s[IF Len(s) > windowSize THEN Len(s) - windowSize + i ELSE i]
  BY <1>1, NewestProperties, SizesArePositive
<1>3. Len(p) \in Nat \ {0}
  BY <1>1, <1>2, SizesArePositive
<1>4. p[Len(p)] = s[Len(s)]
  <2>1. CASE Len(s) > windowSize
    <3>1. Len(s) - windowSize + Len(p) = Len(s)
      BY <1>1, <1>2, <2>1, SizesArePositive
    <3> QED BY <1>2, <1>3, <2>1, <3>1
  <2>2. CASE ~(Len(s) > windowSize)
    BY <1>2, <1>3, <2>2
  <2> QED BY <2>1, <2>2
<1> QED BY <1>1, <1>2, <1>3, <1>4 DEF PushAll
=============================================================================
