------------------------ MODULE BridgeStartup_proofs ------------------------
(***************************************************************************)
(* Proofs about BridgeStartup, for any configuration, any names and any    *)
(* lists of tools.  That a call finds its way home rests on one fact about *)
(* texts: a name that went through safeSourceName has no dot, so that the  *)
(* first dot of an id is the one that the importer put there (Cut).        *)
(***************************************************************************)
EXTENDS BridgeStartup, WellFoundedInduction, SequenceTheorems, FiniteSetTheorems, TLAPS

-----------------------------------------------------------------------------
(* The least of a set of numbers.                                          *)
LEMMA Least ==
  ASSUME NEW S \in SUBSET Nat, S # {}
  PROVE  \E m \in S : \A k \in S : m <= k
<1> DEFINE R == {ss \in Nat \X Nat : ss[1] < ss[2]}
<1>1. OpToRel(<, Nat) = R
  BY DEF OpToRel
<1>2. IsWellFoundedOn(R, Nat)
  BY <1>1, NatLessThanWellFounded
<1>3. \A x, y \in Nat : x < y => <<x, y>> \in R
  OBVIOUS
<1> HIDE DEF R
<1>4. PICK x \in S : \A y \in S : ~(<<y, x>> \in R)
  BY <1>2, WFMin
<1>5. ASSUME NEW y \in S PROVE x <= y
  <2>1. x \in Nat /\ y \in Nat
    OBVIOUS
  <2>2. ~(y < x)
    BY <1>3, <1>4, <2>1
  <2> QED BY <2>1, <2>2
<1> QED BY <1>5

(* A function on an initial interval of the numbers is a sequence.         *)
LEMMA InSeq ==
  ASSUME NEW S, NEW m \in Nat, NEW f \in [1 .. m -> S]
  PROVE  f \in Seq(S)
BY SeqDef, Zenon

(* A name that went through safeSourceName has no dot in it.               *)
LEMMA SafeText ==
  ASSUME NEW n \in Name
  PROVE  safeSourceName(n) \in Seq(Letters \cup {"_"})
<1> DEFINE L == Len(n.words)
           S == Letters \cup {"_"}
           low == [k \in DOMAIN n.words |-> Lower[n.words[k]]]
           bars == [k \in DOMAIN n.separators |-> "_"]
           text == Text(low, bars)
<1>1. /\ n.words \in Seq(Letters) /\ n.separators \in Seq(Separator) /\ L \in Nat
      /\ L # 0 => Len(n.separators) = L - 1
  BY DEF Name
<1>2. low \in [1 .. L -> Letters]
  <2>1. DOMAIN n.words = 1 .. L
    BY <1>1
  <2>2. \A k \in 1 .. L : n.words[k] \in Letters
    BY <1>1, <2>1
  <2>3. \A k \in 1 .. L : Lower[n.words[k]] \in Letters
    BY <2>2, NameAssumption
  <2>4. low = [k \in 1 .. L |-> Lower[n.words[k]]]
    BY <2>1, Zenon
  <2> HIDE DEF L
  <2> QED BY <2>3, <2>4
<1>3. low \in Seq(Letters) /\ Len(low) = L
  BY <1>1, <1>2
<1>4. /\ DOMAIN bars = 1 .. Len(n.separators)
      /\ \A k \in 1 .. Len(n.separators) : bars[k] = "_"
  <2>1. DOMAIN n.separators = 1 .. Len(n.separators)
    BY <1>1
  <2> QED BY <2>1, Zenon
<1>5. text = safeSourceName(n)
  BY DEF safeSourceName
<1> HIDE DEF L, low, bars
<1>6. text = [k \in 1 .. 2 * L - 1 |-> IF k % 2 = 1 THEN low[(k + 1) \div 2] ELSE bars[k \div 2]]
  BY <1>3 DEF Text
<1>7. \A k \in 1 .. 2 * L - 1 : text[k] \in S
  <2> SUFFICES ASSUME NEW k \in 1 .. 2 * L - 1 PROVE text[k] \in S
    OBVIOUS
  <2>1. CASE k % 2 = 1
    <3>1. (k + 1) \div 2 \in 1 .. L
      BY <1>1, <2>1
    <3> QED BY <1>2, <1>6, <2>1, <3>1
  <2>2. CASE k % 2 # 1
    <3>1. k \div 2 \in 1 .. Len(n.separators)
      BY <1>1, <2>2
    <3> QED BY <1>4, <1>6, <2>2, <3>1
  <2> QED BY <2>1, <2>2
<1>8. DOMAIN text = 1 .. 2 * L - 1
  BY <1>6
<1>9. text = [k \in 1 .. 2 * L - 1 |-> text[k]]
  BY <1>6
<1> HIDE DEF text
<1>10. text \in [1 .. 2 * L - 1 -> S]
  BY <1>7, <1>9
<1>11. \E m \in Nat : 1 .. 2 * L - 1 = 1 .. m
  <2>1. CASE L = 0
    BY <2>1
  <2>2. CASE L # 0
    BY <1>1, <2>2
  <2> QED BY <2>1, <2>2
<1>12. text \in Seq(S)
  <2>1. PICK m \in Nat : 1 .. 2 * L - 1 = 1 .. m
    BY <1>11
  <2>2. text \in [1 .. m -> S]
    BY <1>10, <2>1
  <2> HIDE DEF S
  <2> QED BY <2>2, InSeq
<1> QED BY <1>5, <1>12

(* An id is cut where the importer joined it.                              *)
LEMMA Cut ==
  ASSUME NEW S, NEW T, NEW a \in Seq(S), NEW b \in Seq(T), "." \notin S
  PROVE  RouteOf(a \o <<".">> \o b) = [source |-> a, tool |-> b]
<1> DEFINE ad == a \o <<".">>
           id == ad \o b
           k == Len(a) + 1
           U == S \cup T \cup {"."}
<1>1. a \in Seq(U) /\ b \in Seq(U) /\ <<".">> \in Seq(U)
  OBVIOUS
<1>2. /\ ad \in Seq(U) /\ Len(ad) = k /\ ad[k] = "."
      /\ \A j \in 1 .. Len(a) : ad[j] = a[j]
  BY <1>1
<1> HIDE DEF ad, U
<1>3. /\ id \in Seq(U) /\ Len(id) = k + Len(b)
      /\ \A j \in 1 .. k : id[j] = ad[j]
  BY <1>1, <1>2
<1> HIDE DEF id
<1>4. /\ k \in DOMAIN id /\ id[k] = "." /\ k \in Nat \ {0}
      /\ \A j \in 1 .. k - 1 : id[j] # "."
  <2>1. k \in DOMAIN id /\ k \in Nat \ {0}
    BY <1>1, <1>3
  <2>2. id[k] = "."
    BY <1>2, <1>3, <2>1
  <2>3. ASSUME NEW j \in 1 .. k - 1 PROVE id[j] # "."
    <3>1. j \in 1 .. Len(a) /\ j \in 1 .. k
      BY <1>1
    <3>2. id[j] = a[j]
      BY <1>2, <1>3, <3>1
    <3>3. a[j] \in S
      BY <3>1
    <3> QED BY <3>2, <3>3
  <2> QED BY <2>1, <2>2, <2>3
<1>5. FirstDot(id) = k
  <2>1. ASSUME NEW m \in DOMAIN id, id[m] = ".", \A j \in 1 .. m - 1 : id[j] # "."
        PROVE  m = k
    <3>1. m \in Nat \ {0} /\ k \in Nat \ {0}
      <4>1. DOMAIN id = 1 .. Len(id)
        BY <1>3
      <4> QED BY <1>4, <4>1
    <3>2. ~(m < k)
      <4>1. m < k => m \in 1 .. k - 1
        BY <3>1
      <4> QED BY <1>4, <2>1, <4>1
    <3>3. ~(k < m)
      <4>1. k < m => k \in 1 .. m - 1
        BY <3>1
      <4> QED BY <1>4, <2>1, <4>1
    <3> HIDE DEF k
    <3> QED BY <3>1, <3>2, <3>3
  <2>2. \E m \in DOMAIN id : id[m] = "." /\ (\A j \in 1 .. m - 1 : id[j] # ".")
    BY <1>4
  <2> QED BY <2>1, <2>2 DEF FirstDot
<1>6. "." \in Tokens(id)
  BY <1>4 DEF Tokens
<1>7. SubSeq(id, 1, k - 1) = a
  <2>1. CASE Len(a) = 0
    BY <1>1, <1>3, <2>1, SubSeqEmpty
  <2>2. CASE Len(a) # 0
    <3>1. 1 \in 1 .. Len(a) /\ Len(a) \in 1 .. Len(a) /\ Len(a) \in 1 .. Len(ad) /\ 1 \in 1 .. Len(ad)
      BY <1>1, <1>2, <2>2
    <3>2. SubSeq(id, 1, Len(a)) = SubSeq(ad, 1, Len(a))
      BY <1>1, <1>2, <3>1, SubSeqOfConcat1 DEF id
    <3>3. SubSeq(ad, 1, Len(a)) = SubSeq(a, 1, Len(a))
      BY <1>1, <3>1, SubSeqOfConcat1 DEF ad
    <3> QED BY <1>1, <3>2, <3>3, SubSeqFull
  <2> QED BY <2>1, <2>2
<1>8. SubSeq(id, k + 1, Len(id)) = b
  <2>1. CASE Len(b) = 0
    BY <1>1, <1>3, <2>1, SubSeqEmpty
  <2>2. CASE Len(b) # 0
    <3>1. /\ k + 1 \in Len(ad) + 1 .. Len(ad) + Len(b)
          /\ Len(id) \in Len(ad) + 1 .. Len(ad) + Len(b)
          /\ k + 1 - Len(ad) = 1 /\ Len(id) - Len(ad) = Len(b)
      BY <1>1, <1>2, <1>3, <2>2
    <3>2. SubSeq(id, k + 1, Len(id)) = SubSeq(b, k + 1 - Len(ad), Len(id) - Len(ad))
      BY <1>1, <1>2, <3>1, SubSeqOfConcat2 DEF id
    <3> QED BY <1>1, <3>1, <3>2, SubSeqFull
  <2> QED BY <2>1, <2>2
<1>9. RouteOf(id) = [source |-> a, tool |-> b]
  BY <1>5, <1>6, <1>7, <1>8 DEF RouteOf
<1> QED BY <1>9 DEF id, ad

(* What main cuts off at the first dot of an id is the source's name, and  *)
(* what remains the tool's, whatever dots it has (main.go:221).            *)
THEOREM RouteOfToolID ==
  ASSUME NEW src \in SourceType, NEW tool, tool.name \in Seq(Letters \cup Separator)
  PROVE  RouteOf(ToolID(src, tool)) = [source |-> SourceName(src), tool |-> tool.name]
<1>1. SourceName(src) \in Seq(Letters \cup {"_"})
  BY SafeText DEF SourceName, SourceType
<1>2. "." \notin Letters \cup {"_"}
  BY NameAssumption
<1> HIDE DEF SourceName
<1> QED BY <1>1, <1>2, Cut DEF ToolID

(* Tools of one id have one name, and their sources have, too.             *)
LEMMA SameID ==
  ASSUME NEW a \in SourceType, NEW s, s.name \in Seq(Letters \cup Separator),
         NEW b \in SourceType, NEW t, t.name \in Seq(Letters \cup Separator),
         ToolID(a, s) = ToolID(b, t)
  PROVE  SourceName(a) = SourceName(b) /\ s.name = t.name
<1>1. [source |-> SourceName(a), tool |-> s.name] = [source |-> SourceName(b), tool |-> t.name]
  BY RouteOfToolID
<1> HIDE DEF SourceName
<1> QED BY <1>1

-----------------------------------------------------------------------------
(* The schema mini-language.                                               *)
(* The pieces of a sequence that are one element each, put together.       *)
LEMMA FlattenOfSingles ==
  ASSUME NEW S, NEW s \in Seq(S)
  PROVE  FlattenSeq([k \in DOMAIN s |-> <<s[k]>>]) = s
<1> DEFINE q == [k \in DOMAIN s |-> <<s[k]>>]
           n == Len(s)
           step(g) == [i \in 1 .. Len(q) |-> IF i = 1 THEN q[i] ELSE g[i - 1] \o q[i]]
<1>1. n \in Nat /\ DOMAIN s = 1 .. n /\ \A k \in 1 .. n : s[k] \in S
  OBVIOUS
<1>2. /\ q \in Seq(Seq(S)) /\ Len(q) = n
      /\ \A k \in 1 .. n : q[k] = <<s[k]>>
  <2>1. \A k \in 1 .. n : <<s[k]>> \in Seq(S)
    BY <1>1
  <2> QED BY <1>1, <2>1
<1> HIDE DEF q, n
<1>3. CASE n = 0
  <2>1. q = <<>> /\ s = <<>>
    BY <1>1, <1>2, <1>3 DEF n
  <2> QED BY <1>2, <1>3, <2>1 DEF FlattenSeq, q
<1>4. CASE n # 0
  <2> DEFINE f == CHOOSE g : g = step(g)
             w == [i \in 1 .. n |-> SubSeq(s, 1, i)]
  <2>1. \A i \in 1 .. n : i # 1 => SubSeq(s, 1, i - 1) \o q[i] = SubSeq(s, 1, i)
    <3> SUFFICES ASSUME NEW i \in 1 .. n, i # 1 PROVE SubSeq(s, 1, i - 1) \o q[i] = SubSeq(s, 1, i)
      OBVIOUS
    <3>1. /\ SubSeq(s, 1, i - 1) \in Seq(S) /\ Len(SubSeq(s, 1, i - 1)) = i - 1
          /\ \A k \in 1 .. i - 1 : SubSeq(s, 1, i - 1)[k] = s[k]
      BY <1>1 DEF n
    <3>2. /\ SubSeq(s, 1, i) \in Seq(S) /\ Len(SubSeq(s, 1, i)) = i
          /\ \A k \in 1 .. i : SubSeq(s, 1, i)[k] = s[k]
      BY <1>1 DEF n
    <3> DEFINE a == SubSeq(s, 1, i - 1)
               b == SubSeq(s, 1, i)
               c == s[i]
    <3>3. q[i] = <<c>> /\ c \in S /\ b[i] = c /\ i \in Nat /\ i - 1 \in Nat
      BY <1>1, <1>2, <3>2
    <3>4. \A k \in 1 .. i - 1 : a[k] = b[k]
      BY <3>1, <3>2
    <3> HIDE DEF a, b, c
    <3>5. a \o <<c>> \in Seq(S) /\ Len(a \o <<c>>) = i /\ (a \o <<c>>)[i] = c
          /\ \A k \in 1 .. i - 1 : (a \o <<c>>)[k] = a[k]
      BY <3>1, <3>3 DEF a
    <3>6. a \o <<c>> = b
      <4>1. b \in Seq(S) /\ Len(b) = i
        BY <3>2 DEF b
      <4> DEFINE ac == a \o <<c>>
      <4> HIDE DEF ac
      <4>2. ac \in Seq(S) /\ Len(ac) = i
        BY <3>5 DEF ac
      <4>3. \A k \in 1 .. i : ac[k] = b[k]
        BY <3>3, <3>4, <3>5 DEF ac
      <4> QED BY <4>1, <4>2, <4>3, SeqEqual DEF ac
    <3> QED BY <3>3, <3>6 DEF a, b
  <2>2. SubSeq(s, 1, 1) = q[1]
    <3>1. 1 \in 1 .. n
      BY <1>1, <1>4
    <3> QED BY <1>1, <1>2, <3>1 DEF n
  <2>3. w = step(w)
    <3>1. ASSUME NEW i \in 1 .. n PROVE w[i] = IF i = 1 THEN q[i] ELSE w[i - 1] \o q[i]
      <4>1. CASE i = 1
        BY <2>2, <4>1
      <4>2. CASE i # 1
        <5>1. i - 1 \in 1 .. n
          BY <1>1, <4>2
        <5>2. w[i] = SubSeq(s, 1, i) /\ w[i - 1] = SubSeq(s, 1, i - 1)
          BY <5>1
        <5> QED BY <2>1, <4>2, <5>2
      <4> QED BY <4>1, <4>2
    <3> HIDE DEF w
    <3>2. w = [i \in 1 .. n |-> w[i]]
      BY DEF w
    <3> QED BY <1>2, <3>1, <3>2
  <2>4. f = step(f)
    <3>1. \E g : g = step(g)
      <4> HIDE DEF w
      <4> QED BY <2>3
    <3> HIDE DEF step
    <3> QED BY <3>1
  <2> HIDE DEF f, w
  <2>5. \A i \in 1 .. n : f[i] = IF i = 1 THEN q[i] ELSE f[i - 1] \o q[i]
    <3>1. DOMAIN f = 1 .. n
      BY <1>2, <2>4
    <3> QED BY <1>2, <2>4
  <2> DEFINE Bad == {i \in 1 .. n : f[i] # SubSeq(s, 1, i)}
  <2>6. Bad = {}
    <3> SUFFICES ASSUME Bad # {} PROVE FALSE
      OBVIOUS
    <3>1. PICK m \in Bad : \A k \in Bad : m <= k
      <4>1. Bad \in SUBSET Nat
        OBVIOUS
      <4> HIDE DEF Bad
      <4> QED BY <4>1, Least
    <3>2. m # 1
      BY <2>2, <2>5, <3>1
    <3>3. m - 1 \in 1 .. n /\ m - 1 \notin Bad
      BY <1>1, <3>1, <3>2
    <3> QED BY <2>1, <2>5, <3>1, <3>2, <3>3
  <2>7. f[n] = s
    <3>1. n \in 1 .. n
      BY <1>1, <1>4
    <3>2. SubSeq(s, 1, n) = s
      BY <1>1 DEF n
    <3> QED BY <2>6, <3>1, <3>2
  <2>8. FlattenSeq(q) = f[n]
    BY <1>2, <1>4 DEF FlattenSeq, f
  <2> QED BY <2>7, <2>8 DEF q
<1> QED BY <1>3, <1>4

LEMMA StringValue ==
  ASSUME NEW v \in Value
  PROVE  /\ v.text \in Texts
         /\ v.kind = "string" => [kind |-> "string", text |-> v.text] = v
BY DEF Value

(* What the importer writes of a parameter, the bridge reads as what the   *)
(* server declared, but for the enumerations that are not Plain, and the   *)
(* adapters, but for those that are not PlainToAdapters (source.go:278,    *)
(* bridge.go:335, acp_common/__init__.py:196).  Values and types are those *)
(* of the schema here, not their texts: that both readers make strings of  *)
(* every value is why Plain is as narrow as it is.                         *)
THEOREM CodecRoundTrip ==
  ASSUME NEW p \in Parameter
  PROVE  Survives(p, compactSchema(p))
<1> DEFINE s == compactSchema(p)
           field == s.field
<1>1. p.enum \in Seq(Value) /\ p.required \in BOOLEAN /\ p.dims \in Nat
  BY DEF Parameter
<1>2. s.optional = ~p.required /\ field = compactField(p)
  BY DEF compactSchema
<1>3. CASE p.enum = <<>>
  <2>1. field = [word |-> IF p.type \in DOMAIN Word THEN Word[p.type] ELSE "string", texts |-> <<>>,
                 dims |-> p.dims + IF p.type = "array" THEN 1 ELSE 0]
    BY <1>2, <1>3 DEF compactField
  <2>2. field.word # "enum" /\ Meaning[field.word] = IF p.type \in DOMAIN Word THEN p.type ELSE "string"
    BY <2>1 DEF Word, Meaning
  <2>3. field.dims = p.dims + IF p.type = "array" THEN 1 ELSE 0
    BY <2>1
  <2>4. Asks(s) = ~p.required
    BY <1>2, <2>2 DEF Asks
  <2>5. Fragment(Meaning[field.word], field.dims, <<>>) = Simplified(p).schema
    BY <1>3, <2>2, <2>3, Zenon DEF Simplified, Fragment
  <2>6. /\ compactToJSONSchema(s) = Simplified(p).schema
        /\ expand_schema_field(s) = [schema |-> Simplified(p).schema, marked |-> FALSE]
    BY <2>2, <2>5 DEF compactToJSONSchema, expand_schema_field
  <2>7. Simplified(p).required = p.required /\ (~Asks(s)) = p.required
    BY <1>1, <2>4 DEF Simplified
  <2>8. Simplified(p) = [schema |-> Simplified(p).schema, required |-> p.required]
    BY DEF Simplified
  <2> HIDE DEF s
  <2>9. toolToMCP(s) = Simplified(p)
    BY <2>6, <2>7, <2>8, Zenon DEF toolToMCP
  <2>10. action_to_jsonschema(s) = [schema |-> Simplified(p).schema, required |-> p.required, marked |-> FALSE]
    <3>1. expand_schema_field(s).schema = Simplified(p).schema /\ expand_schema_field(s).marked = FALSE
      BY <2>6
    <3> QED BY <2>7, <3>1, Zenon DEF action_to_jsonschema
  <2> QED BY <2>9, <2>10 DEF Survives, s
<1>4. CASE p.enum # <<>> /\ Plain(p)
  <2> DEFINE texts == [k \in DOMAIN p.enum |-> p.enum[k].text]
  <2>1. /\ p.dims = 0
        /\ p.type = "string" \/ p.type \notin DOMAIN Word \cup {"array"}
        /\ \A k \in DOMAIN p.enum :
             p.enum[k].kind = "string" /\ Parts[p.enum[k].text] = <<p.enum[k].text>>
        /\ p.required => Last(p.enum).text \notin DOMAIN Bare
    BY <1>4 DEF Plain
  <2>2. /\ texts \in Seq(Texts) /\ texts # <<>> /\ DOMAIN texts = DOMAIN p.enum
        /\ Last(texts) = Last(p.enum).text /\ Len(texts) \in DOMAIN texts
    <3>1. Len(p.enum) \in Nat /\ Len(p.enum) # 0 /\ DOMAIN p.enum = 1 .. Len(p.enum)
          /\ \A k \in DOMAIN p.enum : p.enum[k] \in Value
      <4> HIDE DEF Value
      <4> QED BY <1>1, <1>4
    <3>2. texts \in [1 .. Len(p.enum) -> Texts]
      BY <3>1, StringValue
    <3>3. texts \in Seq(Texts) /\ Len(texts) = Len(p.enum)
      BY <3>1, <3>2, InSeq
    <3>4. texts[Len(p.enum)] = p.enum[Len(p.enum)].text
      BY <3>1
    <3> HIDE DEF texts
    <3>5. texts # <<>> /\ DOMAIN texts = DOMAIN p.enum /\ Len(texts) \in DOMAIN texts
      BY <3>1, <3>2, <3>3
    <3>6. Last(texts) = Last(p.enum).text
      BY <3>3, <3>4 DEF Last
    <3> QED BY <3>3, <3>5, <3>6
  <2>3. FlattenSeq([k \in DOMAIN p.enum |-> Parts[Sprint(p.enum[k])]]) = texts
    <3>1. [k \in DOMAIN p.enum |-> Parts[Sprint(p.enum[k])]] = [k \in DOMAIN texts |-> <<texts[k]>>]
      BY <2>1 DEF Sprint
    <3> HIDE DEF texts
    <3> QED BY <2>2, <3>1, FlattenOfSingles
  <2>4. Simplified(p).schema = Fragment("string", 0, p.enum)
    <3>1. CASE p.type = "string"
      BY <2>1, <3>1 DEF Simplified, Fragment, Word
    <3>2. CASE p.type \notin DOMAIN Word \cup {"array"}
      BY <2>1, <3>2 DEF Simplified, Fragment
    <3> QED BY <2>1, <3>1, <3>2
  <2>5. Strings(texts) = p.enum
    <3>1. \A k \in DOMAIN p.enum : [kind |-> "string", text |-> p.enum[k].text] = p.enum[k]
      <4>1. \A k \in DOMAIN p.enum : p.enum[k] \in Value
        <5> HIDE DEF Value
        <5> QED BY <1>1
      <4> QED BY <2>1, <4>1, StringValue
    <3>2. Strings(texts) = [k \in DOMAIN p.enum |-> p.enum[k]]
      BY <3>1 DEF Strings
    <3>3. [k \in DOMAIN p.enum |-> p.enum[k]] = p.enum
      BY <1>1
    <3> QED BY <3>2, <3>3
  <2> HIDE DEF texts
  <2>6. field = [word |-> "enum", texts |-> texts, dims |-> 0]
    BY <1>2, <1>4, <2>1, <2>3 DEF compactField
  <2>7. Ends(field) = Last(p.enum).text /\ field.word = "enum" /\ field.texts = texts /\ field.dims = 0
    BY <2>2, <2>6 DEF Ends
  <2>8. Asks(s) = ~p.required
    BY <1>1, <1>2, <2>1, <2>7 DEF Asks
  <2>9. Enumeration(texts, 0) = Simplified(p).schema
    BY <2>4, <2>5 DEF Enumeration
  <2>10. /\ compactToJSONSchema(s) = Simplified(p).schema
        /\ expand_schema_field(s).marked = s.optional
    BY <1>1, <1>2, <2>7, <2>8, <2>9 DEF compactToJSONSchema, expand_schema_field
  <2>11. /\ Simplified(p) = [schema |-> Simplified(p).schema, required |-> p.required]
        /\ (~Asks(s)) = p.required /\ (p.required => s.optional = FALSE)
    BY <1>1, <1>2, <2>8 DEF Simplified
  <2> HIDE DEF s
  <2>12. toolToMCP(s) = Simplified(p)
    BY <2>10, <2>11, Zenon DEF toolToMCP
  <2>13. p.required /\ Trimmed[Last(p.enum).text] = Last(p.enum).text =>
           action_to_jsonschema(s) = [schema |-> Simplified(p).schema, required |-> p.required, marked |-> FALSE]
    <3> SUFFICES ASSUME p.required, Trimmed[Last(p.enum).text] = Last(p.enum).text
                 PROVE  action_to_jsonschema(s) =
                          [schema |-> Simplified(p).schema, required |-> p.required, marked |-> FALSE]
      OBVIOUS
    <3>1. ReplaceLast(texts, Trimmed[Last(texts)]) = texts
      BY <2>2 DEF ReplaceLast, Last
    <3>2. expand_schema_field(s).schema = Simplified(p).schema /\ expand_schema_field(s).marked = FALSE
      BY <2>2, <2>7, <2>9, <2>10, <2>11, <3>1 DEF expand_schema_field
    <3> QED BY <2>11, <3>2, Zenon DEF action_to_jsonschema
  <2> QED BY <1>4, <2>12, <2>13 DEF Survives, PlainToAdapters, s
<1> QED BY <1>3, <1>4 DEF Survives, PlainToAdapters

-----------------------------------------------------------------------------
(* What RegisterAll takes of a list.                                       *)
LEMMA AcceptedIs ==
  ASSUME NEW list \in ToolList
  PROVE  /\ Accepted(list) \in 0 .. Len(list)
         /\ Accepted(list) = Len(list) => 1 .. Accepted(list) = DOMAIN list
         /\ \A k \in 1 .. Accepted(list) : k \in DOMAIN list
<1> DEFINE S == {n \in 0 .. Len(list) : n < Len(list) => list[n + 1].name = <<>>}
<1>1. Len(list) \in Nat /\ DOMAIN list = 1 .. Len(list)
  BY ToolListAssumption
<1>2. Len(list) \in S /\ S \in SUBSET Nat
  BY <1>1
<1>3. PICK m \in S : \A k \in S : m <= k
  <2> HIDE DEF S
  <2> QED BY <1>2, Least
<1>4. ASSUME NEW k \in 1 .. m PROVE list[k].name # <<>>
  <2>1. k - 1 \in 0 .. Len(list) /\ k - 1 < m /\ k - 1 < Len(list) /\ (k - 1) + 1 = k
    BY <1>1
  <2>2. k - 1 \notin S
    BY <1>1, <1>3, <2>1
  <2> QED BY <2>1, <2>2
<1>5. m \in 0 .. Len(list) /\ (m < Len(list) => list[m + 1].name = <<>>)
  BY <1>3
<1>6. Accepted(list) \in 0 .. Len(list)
  BY <1>4, <1>5 DEF Accepted
<1> QED BY <1>1, <1>6

LEMMA LatestIs ==
  ASSUME NEW src, NEW list \in ToolList, NEW id, NEW k \in 1 .. Accepted(list), ToolID(src, list[k]) = id
  PROVE  /\ Latest(src, list, id) \in 1 .. Accepted(list)
         /\ ToolID(src, list[Latest(src, list, id)]) = id
<1> DEFINE A == Accepted(list)
           S == {n \in 0 .. A : \E j \in 1 .. A : n = A - j /\ ToolID(src, list[j]) = id}
<1>1. A \in Nat
  BY AcceptedIs, ToolListAssumption
<1> HIDE DEF A
<1>2. A - k \in S /\ S \in SUBSET Nat
  BY <1>1 DEF A
<1>3. PICK m \in S : \A n \in S : m <= n
  <2> HIDE DEF S
  <2> QED BY <1>2, Least
<1>4. PICK j \in 1 .. A : m = A - j /\ ToolID(src, list[j]) = id
  BY <1>3
<1>5. ASSUME NEW l \in j + 1 .. A PROVE ToolID(src, list[l]) # id
  <2>1. l \in 1 .. A /\ A - l \in 0 .. A /\ A - l < m
    BY <1>1, <1>4
  <2>2. A - l \notin S
    BY <1>1, <1>3, <2>1
  <2> QED BY <2>1, <2>2
<1> QED BY <1>4, <1>5 DEF Latest, A

(* The registry after a list has been registered.                          *)
IDs(src, list) == {ToolID(src, list[k]) : k \in 1 .. Accepted(list)}

Compacted(schema) == [f \in DOMAIN schema |-> compactSchema(schema[f])]

RegisteredAs(tool, i, src, entry) ==
  /\ entry.origin = i /\ entry.name = tool.name /\ entry.schema = Compacted(tool.schema)
  /\ entry.type = sourceType(src) /\ entry.caps # {}

LEMMA RegisteredTools ==
  ASSUME NEW i, NEW src, NEW list \in ToolList, NEW id \in IDs(src, list)
  PROVE  \E k \in DOMAIN list :
           /\ id = ToolID(src, list[k])
           /\ RegisteredAs(list[k], i, src, convert(i, src, list[Latest(src, list, id)]))
<1> DEFINE k == Latest(src, list, id)
<1>1. k \in 1 .. Accepted(list) /\ id = ToolID(src, list[k])
  BY LatestIs DEF IDs
<1>2. k \in DOMAIN list
  BY <1>1, AcceptedIs
<1> HIDE DEF k
<1>3. RegisteredAs(list[k], i, src, convert(i, src, list[k]))
  BY DEF convert, RegisteredAs, Compacted
<1> QED BY <1>1, <1>2, <1>3 DEF k

-----------------------------------------------------------------------------
(* The inductive invariant.                                                *)
Typed ==
  /\ phase \in {"config", "vscode", "importing", "serving", "done", "failed"}
  /\ sources \in Seq(SourceType) /\ Len(sources) <= MaxSources
  /\ next \in 1 .. Len(sources) + 1
  /\ stage \in {"idle", "spawned", "initialized", "listed"}
  /\ offered \in [Index -> ToolList \cup {<<>>}]
  /\ imported \in [Index -> {"pending", "failed", "whole"}]
  /\ child \in [Index -> {"none", "running", "closed", "killed", "exited"}]
  /\ forward \in BOOLEAN /\ cancelled \in BOOLEAN /\ stdinOpen \in BOOLEAN

Early ==
  /\ phase \in {"config", "vscode"} => next = 1
  /\ phase = "config" => sources = <<>>
  /\ phase = "vscode" => sources \in Config

(* A source is being imported only while main is at it.                    *)
Stage ==
  stage # "idle" =>
    /\ Importing(next, "stdio") /\ child[next] # "none"
    /\ stage = "listed" => offered[next] \in ToolList

(* Nothing has happened to the sources behind it.                          *)
Fresh ==
  \A i \in Index : i >= next =>
    /\ imported[i] = "pending"
    /\ i > next \/ stage = "idle" => child[i] = "none"

Clients ==
  \A n \in DOMAIN clients :
    clients[n] \in 1 .. next - 1 /\ n = SourceName(sources[clients[n]]) /\ child[clients[n]] # "none"

Tools ==
  \A id \in DOMAIN tools :
    /\ tools[id].origin \in 1 .. next - 1 /\ imported[tools[id].origin] # "pending"
    /\ tools[id].type = sourceType(sources[tools[id].origin]) /\ tools[id].caps # {}
    /\ \E k \in DOMAIN offered[tools[id].origin] :
         /\ id = ToolID(sources[tools[id].origin], offered[tools[id].origin][k])
         /\ tools[id].name = offered[tools[id].origin][k].name
         /\ tools[id].schema = Compacted(offered[tools[id].origin][k].schema)

(* A tool of a stdio source has a client: that of its source or of a later *)
(* one of the same name.                                                   *)
HasClient ==
  \A id \in DOMAIN tools : tools[id].type = "stdio" =>
    /\ SourceName(sources[tools[id].origin]) \in DOMAIN clients
    /\ clients[SourceName(sources[tools[id].origin])] >= tools[id].origin

Whole ==
  \A i \in 1 .. Len(sources) : imported[i] = "whole" =>
    \A k \in DOMAIN offered[i] :
      LET id == ToolID(sources[i], offered[i][k]) IN
      /\ id \in DOMAIN tools
      /\ tools[id].name = offered[i][k].name
      /\ SameName(tools[id].origin, i) /\ tools[id].origin >= i

Serving ==
  phase = "serving" =>
    /\ routes = [id \in DOMAIN tools |-> RouteOf(id)]
    /\ forward = (DOMAIN clients # {})

LastCall == (lastCall # Nothing => ~Starting) /\ RoutedHome

(* A call that Serve is at has a child to go to, if it goes to one.        *)
Busy ==
  /\ serve \in {"scanning", "announcing", "writing", "waiting", "replying"}
  /\ serve \in {"writing", "waiting"} => lastCall.outcome = "forwarded"
  /\ serve \in {"announcing", "writing", "waiting"} /\ lastCall.outcome = "forwarded" =>
       lastCall.server \in Index /\ child[lastCall.server] # "none"

IInv ==
  /\ Typed /\ Early /\ Stage /\ Fresh /\ Clients /\ Tools /\ HasClient
  /\ Whole /\ ChildrenAccounted /\ Serving /\ LastCall /\ Busy

(* What Serve does between two lines changes nothing else.                 *)
Moves == OtherLine \/ WriteFails \/ CallEnds \/ ClientReads \/ ServerReads

LEMMA MovesAre ==
  ASSUME Moves
  PROVE  /\ phase = "serving"
         /\ UNCHANGED <<phase, importVars, registryVars, child, forward, routes, lastCall, cancelled, stdinOpen>>
         /\ \/ serve' \in {"scanning", "replying"}
            \/ serve = "announcing" /\ serve' = Onward(lastCall)
            \/ serve = "writing" /\ serve' = "waiting"
BY DEF Moves, OtherLine, WriteFails, CallEnds, ClientReads, ServerReads, Serve

(* The kinds of steps: those that read the configuration, those that put   *)
(* a list into the registry, and those that leave the registry alone.      *)
Reading ==
  /\ phase \in {"config", "vscode"} /\ phase' \in {"vscode", "importing", "failed"}
  /\ UNCHANGED <<next, stage, offered, imported, registryVars, child, bridgeVars, cancelled, stdinOpen>>
  /\ sources' \in Seq(SourceType) /\ Len(sources') <= MaxSources
  /\ phase' = "vscode" => sources' \in Config

Quiet ==
  /\ UNCHANGED <<sources, registryVars>>
  /\ next' \in {next, next + 1}
  /\ \A i \in Index : i # next => offered'[i] = offered[i] /\ imported'[i] = imported[i]
  /\ \A i \in Index : imported'[i] = "failed" \/ imported'[i] = imported[i]
  /\ \A i \in Index : (child'[i] = "none") = (child[i] = "none") \/ (i = next /\ child'[i] # "none")

Registering(list) ==
  /\ Importing(next, sourceType(sources[next])) /\ next \in Index
  /\ list \in ToolList /\ offered' = [offered EXCEPT ![next] = list]
  /\ RegisterAll(next, list)
  /\ next' = next + 1 /\ stage' = "idle"
  /\ UNCHANGED <<phase, sources, child, bridgeVars, cancelled, stdinOpen>>
  /\ \/ /\ sourceType(sources[next]) = "stdio" /\ child[next] # "none"
        /\ clients' = [n \in DOMAIN clients \cup {SourceName(sources[next])} |->
                         IF n = SourceName(sources[next]) THEN next ELSE clients[n]]
     \/ /\ sourceType(sources[next]) = "http" /\ stage = "idle"
        /\ clients' = clients

LEMMA LoadIs ==
  ASSUME NEW file \in File
  PROVE  /\ Load(file) \in Seq(SourceType)
         /\ Len(Load(file)) \in {Len(file.servers), Len(file.mcpServers)}
<1> DEFINE servers == IF file.servers # <<>> THEN file.servers ELSE file.mcpServers
           entry(k) == [name |-> servers[k].name, type |-> normalizeType(servers[k]), url |-> servers[k].url,
                        command |-> servers[k].command, extras |-> {}, skip |-> skipped(servers[k])]
<1>1. servers \in Seq(ServerType) /\ servers \in {file.servers, file.mcpServers}
  BY FileAssumption
<1>2. Load(file) = [k \in DOMAIN servers |-> entry(k)]
  BY Zenon DEF Load
<1> HIDE DEF servers
<1>3. ASSUME NEW k \in DOMAIN servers PROVE entry(k) \in SourceType
  <2>1. servers[k] \in ServerType
    BY <1>1
  <2>2. normalizeType(servers[k]) \in Kind
    BY DEF normalizeType, Kind
  <2>3. skipped(servers[k]) \in BOOLEAN
    BY <2>1 DEF skipped, ServerType
  <2> HIDE DEF Name
  <2> QED BY <2>1, <2>2, <2>3 DEF ServerType, SourceType
<1>4. DOMAIN servers = 1 .. Len(servers) /\ Len(servers) \in Nat
  BY <1>1
<1> HIDE DEF entry
<1>5. Load(file) \in [1 .. Len(servers) -> SourceType]
  BY <1>2, <1>3, <1>4
<1>6. Load(file) \in Seq(SourceType)
  BY <1>4, <1>5, InSeq
<1>7. Len(Load(file)) = Len(servers)
  BY <1>4, <1>5, <1>6
<1>8. Len(servers) \in {Len(file.servers), Len(file.mcpServers)}
  BY <1>1
<1> QED BY <1>6, <1>7, <1>8

LEMMA ReadingSteps ==
  ASSUME IInv, ReadConfig \/ ReadVSCode
  PROVE  Reading
<1>1. CASE ReadConfig
  <2>1. CASE phase' = "failed" /\ UNCHANGED sources
    BY <1>1, <2>1 DEF ReadConfig, Reading, IInv, Typed
  <2>2. CASE phase' \in {"vscode", "importing"} /\ sources' \in Config
    <3>1. sources' \in Seq(SourceType) /\ Len(sources') <= MaxSources
      BY <2>2, ConfigAssumption, SourcesBound
    <3> QED BY <1>1, <2>2, <3>1 DEF ReadConfig, Reading
  <2> QED BY <1>1, <2>1, <2>2 DEF ReadConfig
<1>2. CASE ReadVSCode
  <2>1. CASE phase' = "failed" /\ UNCHANGED sources
    BY <1>2, <2>1 DEF ReadVSCode, Reading, IInv, Typed
  <2>2. ASSUME NEW file \in File, phase' = "importing", sources' = sources \o Load(file)
        PROVE  Reading
    <3>1. sources \in Seq(SourceType) /\ sources \in Config
      BY <1>2 DEF ReadVSCode, IInv, Typed, Early
    <3>2. sources' \in Seq(SourceType) /\ Len(sources') = Len(sources) + Len(Load(file))
      BY <2>2, <3>1, LoadIs
    <3>3. Len(sources') <= MaxSources
      <4>1. file.servers \in Seq(ServerType) /\ file.mcpServers \in Seq(ServerType)
        BY FileAssumption
      <4> HIDE DEF ServerType
      <4>2. Len(sources) \in Nat /\ Len(file.servers) \in Nat /\ Len(file.mcpServers) \in Nat
        BY <3>1, <4>1
      <4>3. MaxSources \in Nat /\ Len(sources) + Len(file.servers) + Len(file.mcpServers) <= MaxSources
        BY <3>1, SourcesBound, Zenon
      <4>4. Len(Load(file)) = Len(file.servers) \/ Len(Load(file)) = Len(file.mcpServers)
        BY LoadIs
      <4> DEFINE a == Len(sources)
                 b == Len(file.servers)
                 c == Len(file.mcpServers)
                 d == Len(Load(file))
      <4>5. a \in Nat /\ b \in Nat /\ c \in Nat /\ MaxSources \in Nat /\ a + b + c <= MaxSources
        BY <4>2, <4>3
      <4>6. Len(sources') = a + d /\ (d = b \/ d = c)
        BY <3>2, <4>4
      <4> HIDE DEF a, b, c, d
      <4> QED BY <4>5, <4>6
    <3> QED BY <1>2, <2>2, <3>2, <3>3 DEF ReadVSCode, Reading
  <2> QED BY <1>2, <2>1, <2>2 DEF ReadVSCode
<1> QED BY <1>1, <1>2

LEMMA QuietReport ==
  ASSUME IInv, Reported(next, "failed"), UNCHANGED <<sources, registryVars>>,
         \A i \in Index : (child'[i] = "none") = (child[i] = "none"),
         offered' = offered
  PROVE  Quiet
BY DEF IInv, Typed, Reported, Quiet

LEMMA InIndex ==
  ASSUME IInv
  PROVE  1 .. Len(sources) \subseteq Index /\ DOMAIN sources = 1 .. Len(sources) /\ Len(sources) \in Nat
BY SourcesBound DEF IInv, Typed, Index

LEMMA RegisteringSteps ==
  ASSUME IInv, ImportStdio \/ ImportHTTP
  PROVE  Quiet \/ \E list \in ToolList : Registering(list)
<1>1. next \in Index
  BY InIndex DEF Importing, ImportStdio, ImportHTTP
<1>2. CASE ImportStdio
  <2>1. Registering(offered[next])
    <3>1. offered' = [offered EXCEPT ![next] = offered[next]]
      BY <1>2 DEF ImportStdio, IInv, Typed
    <3> QED BY <1>1, <1>2, <3>1 DEF ImportStdio, Registering, IInv, Stage, Importing
  <2> QED BY <1>2, <2>1 DEF ImportStdio, IInv, Stage
<1>3. CASE ImportHTTP
  <2>1. stage = "idle"
    BY <1>3 DEF IInv, Stage, Importing, ImportHTTP
  <2>2. CASE Reported(next, "failed") /\ UNCHANGED <<offered, tools>>
    <3>1. UNCHANGED <<sources, registryVars, child, offered>>
      BY <1>3, <2>2 DEF ImportHTTP, registryVars
    <3> QED BY <2>2, <3>1, QuietReport
  <2>3. ASSUME NEW list \in ToolList, offered' = [offered EXCEPT ![next] = list],
               RegisterAll(next, list), next' = next + 1
        PROVE  Registering(list)
    BY <1>1, <1>3, <2>1, <2>3 DEF ImportHTTP, Registering, Importing
  <2> QED BY <1>3, <2>2, <2>3 DEF ImportHTTP
<1> QED BY <1>2, <1>3

LEMMA QuietSteps ==
  ASSUME IInv, [Next]_vars, ~(ReadConfig \/ ReadVSCode), ~(ImportStdio \/ ImportHTTP)
  PROVE  Quiet
<1>1. CASE PassOver \/ SpawnFails
  <2>1. UNCHANGED <<sources, registryVars, child, offered>> /\ Reported(next, "failed")
    BY <1>1 DEF PassOver, SpawnFails
  <2> QED BY <2>1, QuietReport
<1>2. CASE ImportFails
  <2>1. UNCHANGED <<sources, registryVars, offered>> /\ Reported(next, "failed")
    BY <1>2 DEF ImportFails
  <2>2. \A i \in Index : (child'[i] = "none") = (child[i] = "none")
    BY <1>2 DEF ImportFails, IInv, Typed, Closed
  <2> QED BY <2>1, <2>2, QuietReport
<1>3. CASE Spawn
  BY <1>3 DEF Spawn, Quiet, IInv, Typed
<1>4. CASE Initialize \/ StartServing \/ ServeFails \/ BrokenPipe \/ Signal \/ CloseStdin \/ UNCHANGED vars
           \/ Moves \/ \E id \in DOMAIN routes : Call(id)
  <2>1. UNCHANGED <<sources, registryVars, next, offered, imported, child>>
    BY <1>4, MovesAre DEF Initialize, StartServing, ServeFails, BrokenPipe, Signal, CloseStdin, vars, Call, importVars
  <2> QED BY <2>1 DEF Quiet
<1>5. CASE ListTools
  BY <1>5 DEF ListTools, Quiet, IInv, Typed
<1>6. CASE EndOfInput
  BY <1>6 DEF EndOfInput, Quiet, IInv, Typed, Closed, importVars
<1>7. ASSUME NEW i \in Index, KillChild(i) \/ ChildExits(i) PROVE Quiet
  BY <1>7 DEF KillChild, ChildExits, Quiet, IInv, Typed, importVars
<1> QED BY <1>1, <1>2, <1>3, <1>4, <1>5, <1>6, <1>7 DEF Next, Main, Moves

-----------------------------------------------------------------------------
(* Each part of the invariant is preserved.                                *)
LEMMA AtNext ==
  ASSUME IInv, next \in DOMAIN sources
  PROVE  next \in Index /\ next + 1 \in 1 .. Len(sources) + 1
BY InIndex

LEMMA StepTyped ==
  ASSUME IInv, [Next]_vars
  PROVE  Typed'
<1>1. CASE ReadConfig \/ ReadVSCode
  <2>1. Reading
    BY <1>1, ReadingSteps
  <2>2. next' = 1 /\ Len(sources') \in Nat
    BY <2>1 DEF Reading, IInv, Early
  <2> QED BY <2>1, <2>2 DEF Reading, IInv, Typed, bridgeVars
<1>2. CASE PassOver \/ SpawnFails \/ ImportFails
  <2>1. /\ Reported(next, "failed") /\ next \in DOMAIN sources
        /\ UNCHANGED <<phase, sources, offered, registryVars, bridgeVars, cancelled, stdinOpen>>
    BY <1>2 DEF PassOver, SpawnFails, ImportFails, Importing
  <2>2. /\ stage' \in {"idle", "spawned", "initialized", "listed"}
        /\ child' \in [Index -> {"none", "running", "closed", "killed", "exited"}]
    BY <1>2 DEF PassOver, SpawnFails, ImportFails, IInv, Typed, Closed
  <2> QED BY <2>1, <2>2, AtNext DEF Reported, IInv, Typed, bridgeVars
<1>3. CASE ImportStdio \/ ImportHTTP
  <2>1. /\ next \in DOMAIN sources /\ next' = next + 1 /\ stage' \in {"idle", "listed", "spawned", "initialized"}
        /\ UNCHANGED <<phase, sources, child, bridgeVars, cancelled, stdinOpen>>
    BY <1>3 DEF ImportStdio, ImportHTTP, Importing, Reported, IInv, Typed
  <2>2. /\ offered' \in [Index -> ToolList \cup {<<>>}]
        /\ imported' \in [Index -> {"pending", "failed", "whole"}]
    BY <1>3 DEF ImportStdio, ImportHTTP, Importing, Reported, RegisterAll, IInv, Typed
  <2> QED BY <2>1, <2>2, AtNext DEF IInv, Typed, bridgeVars
<1>4. CASE Spawn \/ Initialize
  BY <1>4 DEF Spawn, Initialize, IInv, Typed, bridgeVars
<1>5. CASE ListTools
  BY <1>5 DEF ListTools, IInv, Typed, bridgeVars
<1>6. CASE StartServing \/ ServeFails \/ BrokenPipe \/ Signal \/ CloseStdin \/ UNCHANGED vars \/ Moves
  BY <1>6, MovesAre DEF StartServing, ServeFails, BrokenPipe, Signal, CloseStdin, vars, IInv, Typed, bridgeVars,
                        importVars, Running, Starting
<1>7. CASE EndOfInput
  BY <1>7 DEF EndOfInput, IInv, Typed, bridgeVars, importVars, Closed
<1>8. ASSUME NEW i \in Index, KillChild(i) \/ ChildExits(i) PROVE Typed'
  BY <1>8 DEF KillChild, ChildExits, IInv, Typed, bridgeVars, importVars
<1>9. ASSUME NEW id \in DOMAIN routes, Call(id) PROVE Typed'
  BY <1>9 DEF Call, IInv, Typed, importVars
<1> QED BY <1>1, <1>2, <1>3, <1>4, <1>5, <1>6, <1>7, <1>8, <1>9 DEF Next, Main, Moves

LEMMA StepEarly ==
  ASSUME IInv, [Next]_vars
  PROVE  Early'
<1>1. CASE ReadConfig \/ ReadVSCode
  <2>1. Reading
    BY <1>1, ReadingSteps
  <2> QED BY <2>1 DEF Reading, IInv, Early
<1>2. CASE ~(ReadConfig \/ ReadVSCode)
  <2>1. phase' \in {"config", "vscode"} => UNCHANGED <<phase, sources, next>>
    BY <1>2, MovesAre
       DEF Next, vars, Main, PassOver, SpawnFails, Spawn, ImportFails, ImportStdio, ImportHTTP, Importing,
           StartServing, EndOfInput, Initialize, ListTools, Call, ServeFails, BrokenPipe, Signal, CloseStdin,
           KillChild, ChildExits, importVars, Moves
  <2> QED BY <2>1 DEF IInv, Early
<1> QED BY <1>1, <1>2

LEMMA StepStage ==
  ASSUME IInv, [Next]_vars
  PROVE  Stage'
<1>1. CASE ReadConfig \/ ReadVSCode
  BY <1>1 DEF ReadConfig, ReadVSCode, IInv, Stage, Importing
<1>2. CASE PassOver
  BY <1>2 DEF PassOver, IInv, Stage, Importing
<1>3. CASE SpawnFails \/ ImportFails \/ ImportStdio
  BY <1>3 DEF SpawnFails, ImportFails, ImportStdio, Stage
<1>4. CASE ImportHTTP
  BY <1>4 DEF ImportHTTP, IInv, Stage, Importing
<1>5. CASE Spawn \/ Initialize \/ ListTools
  BY <1>5, InIndex DEF Spawn, Initialize, ListTools, IInv, Stage, Importing, Typed
<1>6. CASE StartServing
  <2>1. next \notin DOMAIN sources
    BY <1>6, InIndex DEF StartServing
  <2>2. stage = "idle"
    BY <2>1 DEF IInv, Stage, Importing
  <2> QED BY <1>6, <2>2 DEF StartServing, Stage, importVars
<1>7. CASE ServeFails \/ BrokenPipe \/ Signal \/ CloseStdin \/ UNCHANGED vars \/ EndOfInput \/ Moves
           \/ \E id \in DOMAIN routes : Call(id)
  BY <1>7, MovesAre DEF ServeFails, BrokenPipe, Signal, CloseStdin, vars, EndOfInput, Call, IInv, Stage, Importing,
                        importVars
<1>8. ASSUME NEW i \in Index, KillChild(i) \/ ChildExits(i) PROVE Stage'
  <2>1. UNCHANGED <<phase, sources, next, stage, offered>>
    BY <1>8 DEF KillChild, ChildExits, importVars
  <2>2. \A j \in Index : child[j] # "none" => child'[j] # "none"
    BY <1>8 DEF KillChild, ChildExits, IInv, Typed
  <2>3. stage # "idle" => next \in Index
    BY InIndex DEF IInv, Stage, Importing
  <2> QED BY <2>1, <2>2, <2>3 DEF IInv, Stage, Importing
<1> QED BY <1>1, <1>2, <1>3, <1>4, <1>5, <1>6, <1>7, <1>8 DEF Next, Main, Moves

LEMMA StepFresh ==
  ASSUME IInv, [Next]_vars
  PROVE  Fresh'
<1>1. CASE PassOver \/ SpawnFails \/ ImportFails
  <2>1. Reported(next, "failed") /\ \A i \in Index : i # next => child'[i] = child[i]
    BY <1>1 DEF PassOver, SpawnFails, ImportFails, IInv, Typed
  <2> QED BY <2>1 DEF Reported, IInv, Typed, Fresh, Index
<1>2. CASE ImportStdio \/ ImportHTTP
  <2>1. /\ next' = next + 1 /\ child' = child
        /\ \A i \in Index : i # next => imported'[i] = imported[i]
    BY <1>2 DEF ImportStdio, ImportHTTP, Reported, RegisterAll, IInv, Typed
  <2> QED BY <2>1 DEF IInv, Typed, Fresh, Index
<1>3. CASE Spawn
  BY <1>3 DEF Spawn, IInv, Typed, Fresh, Index
<1>4. CASE Initialize \/ ListTools
  BY <1>4 DEF Initialize, ListTools, IInv, Fresh
<1>5. CASE ReadConfig \/ ReadVSCode \/ StartServing \/ ServeFails \/ BrokenPipe \/ Signal \/ CloseStdin
           \/ UNCHANGED vars \/ Moves \/ \E id \in DOMAIN routes : Call(id)
  <2>1. UNCHANGED <<next, stage, imported, child>>
    BY <1>5, MovesAre DEF ReadConfig, ReadVSCode, StartServing, ServeFails, BrokenPipe, Signal, CloseStdin, vars,
                          Call, importVars
  <2> QED BY <2>1 DEF IInv, Fresh
<1>6. CASE EndOfInput \/ \E i \in Index : KillChild(i) \/ ChildExits(i)
  <2>1. UNCHANGED <<next, stage, imported>>
    BY <1>6 DEF EndOfInput, KillChild, ChildExits, importVars
  <2>2. \A i \in Index : child[i] = "none" => child'[i] = "none"
    BY <1>6 DEF EndOfInput, KillChild, ChildExits, IInv, Typed, Closed
  <2> QED BY <2>1, <2>2 DEF IInv, Fresh
<1> QED BY <1>1, <1>2, <1>3, <1>4, <1>5, <1>6 DEF Next, Main, Moves

(* The registry: what is in it stays, and what comes is of the source that *)
(* is being imported.                                                      *)
LEMMA Kinds ==
  ASSUME IInv, [Next]_vars
  PROVE  Reading \/ Quiet \/ \E list \in ToolList : Registering(list)
BY ReadingSteps, RegisteringSteps, QuietSteps

LEMMA StepClients ==
  ASSUME IInv, [Next]_vars
  PROVE  Clients'
<1>1. CASE Reading
  BY <1>1 DEF Reading, IInv, Early, Clients, registryVars
<1>2. CASE Quiet
  <2> SUFFICES ASSUME NEW n \in DOMAIN clients
               PROVE  /\ clients[n] \in 1 .. next' - 1 /\ n = SourceName(sources[clients[n]])
                      /\ child'[clients[n]] # "none"
    BY <1>2 DEF Quiet, Clients, registryVars
  <2>1. /\ clients[n] \in 1 .. next - 1 /\ n = SourceName(sources[clients[n]]) /\ child[clients[n]] # "none"
        /\ clients[n] \in Index
    BY SourcesBound DEF IInv, Clients, Typed, Index
  <2> QED BY <1>2, <2>1 DEF Quiet, IInv, Typed
<1>3. ASSUME NEW list \in ToolList, Registering(list) PROVE Clients'
  <2>1. next' = next + 1 /\ UNCHANGED <<sources, child>> /\ next \in 1 .. next' - 1
    BY <1>3 DEF Registering, IInv, Typed
  <2>2. \A n \in DOMAIN clients :
           clients[n] \in 1 .. next' - 1 /\ n = SourceName(sources[clients[n]]) /\ child[clients[n]] # "none"
    BY <2>1 DEF IInv, Typed, Clients
  <2>3. \A n \in DOMAIN clients' :
           \/ n \in DOMAIN clients /\ clients'[n] = clients[n]
           \/ n = SourceName(sources[next]) /\ clients'[n] = next /\ child[next] # "none"
    BY <1>3 DEF Registering
  <2> QED BY <2>1, <2>2, <2>3 DEF Clients
<1> QED BY <1>1, <1>2, <1>3, Kinds

LEMMA RegistryAfter ==
  ASSUME NEW list \in ToolList, Registering(list)
  PROVE  /\ DOMAIN tools' = DOMAIN tools \cup IDs(sources[next], list)
         /\ \A id \in IDs(sources[next], list) :
              \E k \in DOMAIN list :
                id = ToolID(sources[next], list[k]) /\ RegisteredAs(list[k], next, sources[next], tools'[id])
         /\ \A id \in DOMAIN tools \ IDs(sources[next], list) : tools'[id] = tools[id]
<1> DEFINE src == sources[next]
           ids == IDs(src, list)
<1>1. tools' = [id \in DOMAIN tools \cup ids |->
                  IF id \in ids THEN convert(next, src, list[Latest(src, list, id)]) ELSE tools[id]]
  BY DEF Registering, RegisterAll, IDs
<1>2. \A i, s : \A id \in IDs(s, list) :
        \E k \in DOMAIN list :
          /\ id = ToolID(s, list[k])
          /\ RegisteredAs(list[k], i, s, convert(i, s, list[Latest(s, list, id)]))
  BY RegisteredTools
<1>3. \A id \in ids :
        \E k \in DOMAIN list :
          /\ id = ToolID(src, list[k])
          /\ RegisteredAs(list[k], next, src, convert(next, src, list[Latest(src, list, id)]))
  BY <1>2
<1> HIDE DEF src, ids
<1>4. /\ DOMAIN tools' = DOMAIN tools \cup ids
      /\ \A id \in ids : tools'[id] = convert(next, src, list[Latest(src, list, id)])
      /\ \A id \in DOMAIN tools \ ids : tools'[id] = tools[id]
  BY <1>1
<1> QED BY <1>3, <1>4 DEF src, ids

LEMMA OfferedName ==
  ASSUME IInv, NEW i \in Index, NEW k \in DOMAIN offered[i]
  PROVE  offered[i][k].name \in Seq(Letters \cup Separator)
BY ToolListAssumption DEF IInv, Typed

LEMMA StepTools ==
  ASSUME IInv, [Next]_vars
  PROVE  Tools'
<1>1. CASE Reading
  BY <1>1 DEF Reading, IInv, Early, Tools, registryVars
<1>2. CASE Quiet
  <2> SUFFICES ASSUME NEW id \in DOMAIN tools
               PROVE  /\ tools[id].origin \in 1 .. next' - 1 /\ imported'[tools[id].origin] # "pending"
                      /\ tools[id].type = sourceType(sources[tools[id].origin]) /\ tools[id].caps # {}
                      /\ \E k \in DOMAIN offered'[tools[id].origin] :
                           /\ id = ToolID(sources[tools[id].origin], offered'[tools[id].origin][k])
                           /\ tools[id].name = offered'[tools[id].origin][k].name
                           /\ tools[id].schema = Compacted(offered'[tools[id].origin][k].schema)
    BY <1>2 DEF Quiet, Tools, registryVars
  <2>1. tools[id].origin \in 1 .. next - 1 /\ tools[id].origin \in Index /\ tools[id].origin # next
    BY SourcesBound DEF IInv, Tools, Typed, Index
  <2>2. /\ tools[id].origin \in 1 .. next' - 1
        /\ offered'[tools[id].origin] = offered[tools[id].origin]
        /\ imported'[tools[id].origin] = imported[tools[id].origin]
    BY <1>2, <2>1 DEF Quiet, IInv, Typed
  <2> QED BY <2>2 DEF IInv, Tools
<1>3. ASSUME NEW list \in ToolList, Registering(list) PROVE Tools'
  <2>1. /\ next' = next + 1 /\ sources' = sources /\ next \in 1 .. next' - 1 /\ next \in Index
        /\ next \in DOMAIN sources /\ RegisterAll(next, list) /\ offered'[next] = list
        /\ \A i \in Index : i # next => offered'[i] = offered[i] /\ imported'[i] = imported[i]
        /\ imported'[next] # "pending"
    BY <1>3 DEF Registering, RegisterAll, Importing, IInv, Typed
  <2> SUFFICES ASSUME NEW id \in DOMAIN tools'
               PROVE  /\ tools'[id].origin \in 1 .. next' - 1 /\ imported'[tools'[id].origin] # "pending"
                      /\ tools'[id].type = sourceType(sources[tools'[id].origin]) /\ tools'[id].caps # {}
                      /\ \E k \in DOMAIN offered'[tools'[id].origin] :
                           /\ id = ToolID(sources[tools'[id].origin], offered'[tools'[id].origin][k])
                           /\ tools'[id].name = offered'[tools'[id].origin][k].name
                           /\ tools'[id].schema = Compacted(offered'[tools'[id].origin][k].schema)
    BY <2>1 DEF Tools
  <2> DEFINE ids == IDs(sources[next], list)
  <2>4. /\ DOMAIN tools' = DOMAIN tools \cup ids
        /\ \A i \in ids :
             \E k \in DOMAIN list :
               i = ToolID(sources[next], list[k]) /\ RegisteredAs(list[k], next, sources[next], tools'[i])
        /\ \A i \in DOMAIN tools \ ids : tools'[i] = tools[i]
    BY <1>3, RegistryAfter
  <2> HIDE DEF ids
  <2>2. CASE id \in ids
    BY <2>1, <2>2, <2>4 DEF RegisteredAs
  <2>3. CASE id \notin ids
    <3>1. id \in DOMAIN tools /\ tools'[id] = tools[id]
      BY <2>3, <2>4
    <3>2. tools[id].origin \in 1 .. next - 1 /\ tools[id].origin \in Index /\ tools[id].origin # next
      BY <3>1, SourcesBound DEF IInv, Tools, Typed, Index
    <3>3. /\ tools[id].origin \in 1 .. next' - 1
          /\ offered'[tools[id].origin] = offered[tools[id].origin]
          /\ imported'[tools[id].origin] = imported[tools[id].origin]
      BY <2>1, <3>2 DEF IInv, Typed
    <3> QED BY <3>1, <3>3 DEF IInv, Tools
  <2> QED BY <2>2, <2>3
<1> QED BY <1>1, <1>2, <1>3, Kinds

LEMMA StepHasClient ==
  ASSUME IInv, [Next]_vars
  PROVE  HasClient'
<1>1. CASE Reading
  <2>1. tools' = tools /\ next = 1
    BY <1>1 DEF Reading, IInv, Early, registryVars
  <2>2. \A id \in DOMAIN tools : tools[id].origin \in 1 .. next - 1
    BY DEF IInv, Tools
  <2>3. DOMAIN tools' = {}
    BY <2>1, <2>2
  <2> QED BY <2>3 DEF HasClient
<1>2. CASE Quiet
  BY <1>2 DEF Quiet, IInv, HasClient, registryVars
<1>3. ASSUME NEW list \in ToolList, Registering(list) PROVE HasClient'
  <2> DEFINE src == sources[next]
             ids == IDs(src, list)
  <2>1. /\ sources' = sources /\ next \in Nat
        /\ \/ /\ sourceType(src) = "stdio"
              /\ clients' = [n \in DOMAIN clients \cup {SourceName(src)} |->
                               IF n = SourceName(src) THEN next ELSE clients[n]]
           \/ sourceType(src) = "http" /\ clients' = clients
    BY <1>3 DEF Registering, IInv, Typed
  <2>2. \A n \in DOMAIN clients : n \in DOMAIN clients' /\ clients[n] \in Nat /\ clients[n] < next
                                    /\ clients'[n] \in {clients[n], next}
    BY <2>1 DEF IInv, Clients, Typed
  <2> SUFFICES ASSUME NEW id \in DOMAIN tools', tools'[id].type = "stdio"
               PROVE  /\ SourceName(sources[tools'[id].origin]) \in DOMAIN clients'
                      /\ clients'[SourceName(sources[tools'[id].origin])] >= tools'[id].origin
    BY <2>1 DEF HasClient
  <2>3. /\ DOMAIN tools' = DOMAIN tools \cup ids
        /\ \A i \in ids :
             \E k \in DOMAIN list : i = ToolID(src, list[k]) /\ RegisteredAs(list[k], next, src, tools'[i])
        /\ \A i \in DOMAIN tools \ ids : tools'[i] = tools[i]
    BY <1>3, RegistryAfter
  <2>4. CASE id \in ids
    <3>1. tools'[id].origin = next /\ tools'[id].type = sourceType(src)
      BY <2>3, <2>4 DEF RegisteredAs
    <3> QED BY <2>1, <3>1
  <2>5. CASE id \notin ids
    <3>1. id \in DOMAIN tools /\ tools'[id] = tools[id]
      BY <2>3, <2>5
    <3>2. /\ SourceName(sources[tools[id].origin]) \in DOMAIN clients
          /\ clients[SourceName(sources[tools[id].origin])] >= tools[id].origin
          /\ tools[id].origin \in 1 .. next - 1
      BY <3>1 DEF IInv, HasClient, Tools
    <3> HIDE DEF SourceName
    <3> QED BY <2>1, <2>2, <3>1, <3>2
  <2> QED BY <2>4, <2>5
<1> QED BY <1>1, <1>2, <1>3, Kinds

LEMMA StepWhole ==
  ASSUME IInv, [Next]_vars
  PROVE  Whole'
<1>1. CASE Reading
  <2>1. \A i \in Index : imported'[i] = "pending"
    BY <1>1 DEF Reading, IInv, Early, Fresh, Index
  <2>2. 1 .. Len(sources') \subseteq Index
    BY <1>1, SourcesBound DEF Reading, Index
  <2> QED BY <2>1, <2>2 DEF Whole
<1>2. CASE Quiet
  <2>1. \A i \in 1 .. Len(sources) : imported'[i] = "whole" =>
          imported[i] = "whole" /\ offered'[i] = offered[i]
    <3> SUFFICES ASSUME NEW i \in 1 .. Len(sources), imported'[i] = "whole"
                 PROVE  imported[i] = "whole" /\ offered'[i] = offered[i]
      OBVIOUS
    <3>1. i \in Index
      BY InIndex
    <3>2. i # next
      BY <1>2, <3>1 DEF Quiet, IInv, Typed, Fresh
    <3> QED BY <1>2, <3>1, <3>2 DEF Quiet
  <2> QED BY <1>2, <2>1 DEF Quiet, IInv, Whole, registryVars, SameName
<1>3. ASSUME NEW list \in ToolList, Registering(list) PROVE Whole'
  <2> DEFINE src == sources[next]
             ids == IDs(src, list)
  <2>1. /\ sources' = sources /\ next \in Index /\ next \in DOMAIN sources
        /\ offered'[next] = list /\ RegisterAll(next, list)
        /\ \A i \in Index : i # next => offered'[i] = offered[i] /\ imported'[i] = imported[i]
    BY <1>3 DEF Registering, Importing, RegisterAll, IInv, Typed
  <2>2. /\ DOMAIN tools' = DOMAIN tools \cup ids
        /\ \A i \in ids :
             \E k \in DOMAIN list : i = ToolID(src, list[k]) /\ RegisteredAs(list[k], next, src, tools'[i])
        /\ \A i \in DOMAIN tools \ ids : tools'[i] = tools[i]
    BY <1>3, RegistryAfter
  <2>3. \A k \in DOMAIN list : list[k].name \in Seq(Letters \cup Separator)
    BY ToolListAssumption
  <2> SUFFICES ASSUME NEW i \in 1 .. Len(sources), imported'[i] = "whole", NEW k \in DOMAIN offered'[i]
               PROVE  LET id == ToolID(sources[i], offered'[i][k]) IN
                      /\ id \in DOMAIN tools' /\ tools'[id].name = offered'[i][k].name
                      /\ SourceName(sources[tools'[id].origin]) = SourceName(sources[i])
                      /\ tools'[id].origin >= i
    BY <2>1 DEF Whole, SameName
  <2> DEFINE tool == offered'[i][k]
             id == ToolID(sources[i], tool)
  <2>4. i \in Index /\ sources[i] \in SourceType /\ src \in SourceType /\ i \in Nat /\ next \in Nat
    BY <2>1, InIndex DEF IInv, Typed
  <2>5. tool.name \in Seq(Letters \cup Separator)
    <3>1. CASE i = next
      BY <2>1, <2>3, <3>1
    <3>2. CASE i # next
      BY <2>1, <2>4, <3>2, OfferedName
    <3> QED BY <3>1, <3>2
  <2>6. i <= next /\ (i # next => imported[i] = "whole")
    BY <2>1, <2>4 DEF IInv, Typed, Fresh
  <2>7. CASE id \in ids
    <3>1. PICK j \in DOMAIN list : id = ToolID(src, list[j]) /\ RegisteredAs(list[j], next, src, tools'[id])
      BY <2>2, <2>7
    <3>2. SourceName(src) = SourceName(sources[i]) /\ list[j].name = tool.name
      <4>1. ToolID(src, list[j]) = ToolID(sources[i], tool)
        BY <3>1
      <4>2. list[j].name \in Seq(Letters \cup Separator)
        BY <2>3
      <4>3. \A a, b \in SourceType : \A x, y :
              /\ x.name \in Seq(Letters \cup Separator) /\ y.name \in Seq(Letters \cup Separator)
              /\ ToolID(a, x) = ToolID(b, y)
              => SourceName(a) = SourceName(b) /\ x.name = y.name
        BY SameID
      <4> HIDE DEF tool, src
      <4> QED BY <2>4, <2>5, <4>1, <4>2, <4>3
    <3> QED BY <2>2, <2>6, <2>7, <3>1, <3>2, <2>4 DEF RegisteredAs
  <2>8. CASE id \notin ids
    <3>1. i # next
      <4>1. SUFFICES ASSUME i = next PROVE FALSE
        OBVIOUS
      <4>2. Accepted(list) = Len(list)
        BY <2>1, <4>1 DEF RegisterAll, IInv, Typed
      <4>3. k \in 1 .. Accepted(list)
        BY <2>1, <4>1, <4>2, AcceptedIs
      <4> QED BY <2>1, <2>8, <4>1, <4>3 DEF IDs
    <3>2. imported[i] = "whole" /\ offered'[i] = offered[i]
      BY <2>1, <2>4, <2>6, <3>1
    <3>3. /\ id \in DOMAIN tools /\ tools[id].name = tool.name
          /\ SameName(tools[id].origin, i) /\ tools[id].origin >= i
      BY <3>2 DEF IInv, Whole
    <3>4. tools'[id] = tools[id] /\ id \in DOMAIN tools'
      BY <2>2, <2>8, <3>3
    <3> QED BY <3>3, <3>4 DEF SameName
  <2> QED BY <2>7, <2>8
<1> QED BY <1>1, <1>2, <1>3, Kinds

(* Where no child starts and the registry stays, what accounts for a child *)
(* accounts for it still.                                                  *)
LEMMA StepChildren ==
  ASSUME IInv, [Next]_vars
  PROVE  ChildrenAccounted'
<1>1. CASE phase \in {"config", "vscode"}
  <2>1. phase' \in {"config", "vscode", "importing", "failed"} /\ UNCHANGED <<registryVars, next, stage>>
        /\ \A i \in Index : child'[i] = "running" => child[i] = "running"
    BY <1>1, MovesAre
       DEF Next, vars, Main, ReadConfig, ReadVSCode, PassOver, SpawnFails, Spawn, ImportFails, ImportStdio,
           ImportHTTP, Importing, StartServing, EndOfInput, Initialize, ListTools, Call, ServeFails, BrokenPipe,
           Signal, CloseStdin, KillChild, ChildExits, importVars, IInv, Typed, Moves
  <2>2. \A i \in Index : child[i] = "none"
    BY <1>1 DEF IInv, Early, Fresh, Stage, Importing, Index
  <2> QED BY <2>1, <2>2 DEF ChildrenAccounted
<1>2. CASE PassOver \/ SpawnFails
  <2>1. UNCHANGED <<phase, sources, registryVars, child>> /\ stage = "idle"
    BY <1>2 DEF PassOver, SpawnFails, IInv, Stage, Importing
  <2> QED BY <2>1 DEF IInv, ChildrenAccounted, Registered, SameName, registryVars
<1>3. CASE ImportFails
  <2>1. UNCHANGED <<phase, sources, registryVars>>
        /\ \A i \in Index : child'[i] = "running" => child[i] = "running" /\ i # next
    BY <1>3 DEF ImportFails, Closed, IInv, Typed
  <2> QED BY <2>1 DEF IInv, ChildrenAccounted, Registered, SameName, registryVars
<1>4. CASE ImportHTTP
  <2>1. UNCHANGED <<phase, sources, clients, child>> /\ stage = "idle"
    BY <1>4 DEF ImportHTTP, IInv, Stage, Importing
  <2> QED BY <2>1 DEF IInv, ChildrenAccounted, Registered, SameName
<1>5. CASE Spawn
  <2>1. /\ UNCHANGED <<phase, sources, registryVars, next>> /\ stage = "idle" /\ stage' = "spawned"
        /\ phase = "importing"
        /\ \A i \in Index : i # next => child'[i] = child[i]
    BY <1>5 DEF Spawn, Importing, IInv, Typed
  <2> QED BY <2>1 DEF IInv, ChildrenAccounted, Registered, SameName, registryVars
<1>6. CASE Initialize \/ ListTools
  <2>1. /\ UNCHANGED <<phase, sources, registryVars, next, child>> /\ stage' # "idle"
    BY <1>6 DEF Initialize, ListTools
  <2> QED BY <2>1 DEF IInv, ChildrenAccounted, Registered, SameName, registryVars
<1>7. CASE ImportStdio
  <2> DEFINE name == SourceName(sources[next])
  <2>1. /\ UNCHANGED <<phase, sources, child>> /\ phase = "importing" /\ next \in Nat /\ MaxSources \in Nat
        /\ clients' = [n \in DOMAIN clients \cup {name} |-> IF n = name THEN next ELSE clients[n]]
    BY <1>7, SourcesBound DEF ImportStdio, Importing, IInv, Typed
  <2>2. \A n \in DOMAIN clients :
          clients[n] \in Nat /\ clients[n] < next /\ n = SourceName(sources[clients[n]])
    BY <2>1 DEF IInv, Clients
  <2> HIDE DEF name
  <2>3. /\ name \in DOMAIN clients' /\ clients'[name] = next
        /\ \A n \in DOMAIN clients : n # name => n \in DOMAIN clients' /\ clients'[n] = clients[n]
    BY <2>1
  <2> SUFFICES ASSUME NEW i \in Index, child[i] = "running"
               PROVE  \/ \E n \in DOMAIN clients' : clients'[n] = i
                      \/ \E n \in DOMAIN clients' :
                           clients'[n] > i /\ SourceName(sources[clients'[n]]) = SourceName(sources[i])
    BY <2>1 DEF ChildrenAccounted, Registered, SameName
  <2>4. CASE i = next
    BY <2>3, <2>4
  <2>5. ASSUME NEW n \in DOMAIN clients, clients[n] = i
        PROVE  \/ \E m \in DOMAIN clients' : clients'[m] = i
               \/ \E m \in DOMAIN clients' :
                    clients'[m] > i /\ SourceName(sources[clients'[m]]) = SourceName(sources[i])
    <3>1. CASE n = name
      BY <2>2, <2>3, <2>5, <3>1 DEF name
    <3>2. CASE n # name
      BY <2>3, <2>5, <3>2
    <3> QED BY <3>1, <3>2
  <2>6. ASSUME NEW n \in DOMAIN clients, clients[n] > i, SourceName(sources[clients[n]]) = SourceName(sources[i])
        PROVE  \E m \in DOMAIN clients' :
                 clients'[m] > i /\ SourceName(sources[clients'[m]]) = SourceName(sources[i])
    <3>1. CASE n = name
      <4>1. i \in Nat /\ next > i
        BY <2>1, <2>2, <2>6 DEF Index
      <4>2. SourceName(sources[next]) = SourceName(sources[i])
        BY <2>2, <2>6, <3>1 DEF name
      <4> HIDE DEF SourceName
      <4> QED BY <2>3, <4>1, <4>2
    <3>2. CASE n # name
      BY <2>3, <2>6, <3>2
    <3> QED BY <3>1, <3>2
  <2>7. \/ i = next
        \/ \E n \in DOMAIN clients : clients[n] = i
        \/ \E n \in DOMAIN clients : clients[n] > i /\ SourceName(sources[clients[n]]) = SourceName(sources[i])
    BY DEF IInv, ChildrenAccounted, Registered, SameName
  <2> QED BY <2>4, <2>5, <2>6, <2>7
<1>8. CASE StartServing
  <2>1. UNCHANGED <<sources, registryVars, child>> /\ phase = "importing" /\ phase' = "serving"
    BY <1>8 DEF StartServing, importVars
  <2>2. stage = "idle"
    <3>1. next \notin DOMAIN sources
      BY <1>8, InIndex DEF StartServing
    <3> QED BY <3>1 DEF IInv, Stage, Importing
  <2> QED BY <2>1, <2>2 DEF IInv, ChildrenAccounted, Registered, SameName, registryVars
<1>9. CASE EndOfInput
  <2>1. /\ UNCHANGED <<sources, registryVars>> /\ phase = "serving"
        /\ \A i \in Index : child'[i] = "running" => child[i] = "running" /\ ~Registered(i)
    BY <1>9 DEF EndOfInput, importVars, Closed, IInv, Typed
  <2> QED BY <2>1 DEF IInv, ChildrenAccounted, Registered, SameName, registryVars
<1>10. CASE ServeFails \/ BrokenPipe
  <2>1. UNCHANGED <<sources, registryVars, child>> /\ phase = "serving" /\ phase' = "failed"
    BY <1>10 DEF ServeFails, BrokenPipe, importVars
  <2> QED BY <2>1 DEF IInv, ChildrenAccounted, Registered, SameName, registryVars
<1>11. CASE /\ phase \notin {"config", "vscode"}
            /\ \/ Signal \/ CloseStdin \/ UNCHANGED vars \/ Moves
               \/ \E id \in DOMAIN routes : Call(id)
               \/ \E i \in Index : KillChild(i) \/ ChildExits(i)
  <2>1. /\ UNCHANGED <<phase, sources, registryVars, next, stage>>
        /\ \A i \in Index : child'[i] = "running" => child[i] = "running"
    BY <1>11, MovesAre DEF Signal, CloseStdin, vars, Call, KillChild, ChildExits, importVars, IInv, Typed
  <2> QED BY <2>1 DEF IInv, ChildrenAccounted, Registered, SameName, registryVars
<1> QED BY <1>1, <1>2, <1>3, <1>4, <1>5, <1>6, <1>7, <1>8, <1>9, <1>10, <1>11
        DEF Next, Main, ReadConfig, ReadVSCode, Moves

LEMMA StepServing ==
  ASSUME IInv, [Next]_vars
  PROVE  Serving'
<1>1. CASE StartServing
  BY <1>1 DEF StartServing, Serving, registryVars
<1>2. CASE ~StartServing
  <2>1. phase' = "serving" => UNCHANGED <<phase, tools, clients, forward, routes>>
    BY <1>2, MovesAre
       DEF Next, vars, Main, ReadConfig, ReadVSCode, PassOver, SpawnFails, Spawn, ImportFails, ImportStdio,
           ImportHTTP, Importing, EndOfInput, Initialize, ListTools, Call, ServeFails, BrokenPipe, Signal,
           CloseStdin, KillChild, ChildExits, importVars, registryVars, bridgeVars, Moves
  <2> QED BY <2>1 DEF IInv, Serving
<1> QED BY <1>1, <1>2

(* Where a call of a known tool goes.                                      *)
LEMMA StepCall ==
  ASSUME IInv, NEW id \in DOMAIN routes, Call(id)
  PROVE  LastCall'
<1> DEFINE tool == tools[id]
           src == sources[tool.origin]
           name == SourceName(src)
           r == routes[id]
<1>1. /\ phase = "serving" /\ UNCHANGED <<phase, tools, clients, sources>>
      /\ id \in DOMAIN tools /\ r = RouteOf(id) /\ forward = (DOMAIN clients # {})
  BY DEF Call, IInv, Serving, importVars, registryVars
<1>2. tool.origin \in Index /\ tool.origin \in Nat /\ src \in SourceType
  BY <1>1, SourcesBound DEF IInv, Tools, Typed, Index
<1>3. PICK k \in DOMAIN offered[tool.origin] :
         id = ToolID(src, offered[tool.origin][k]) /\ tool.name = offered[tool.origin][k].name
  BY <1>1 DEF IInv, Tools
<1>4. r = [source |-> name, tool |-> tool.name]
  <2>1. offered[tool.origin][k].name \in Seq(Letters \cup Separator)
    BY <1>2, OfferedName
  <2>2. \A s \in SourceType : \A t : t.name \in Seq(Letters \cup Separator) =>
          RouteOf(ToolID(s, t)) = [source |-> SourceName(s), tool |-> t.name]
    BY RouteOfToolID
  <2> HIDE DEF tool, src
  <2> QED BY <1>1, <1>2, <1>3, <2>1, <2>2
<1>5. r.source = name /\ r.tool = tool.name
  <2> HIDE DEF r, name, tool
  <2> QED BY <1>4
<1>6. tool.type = "stdio" => name \in DOMAIN clients /\ clients[name] >= tool.origin
  BY <1>1 DEF IInv, HasClient
<1>7. name \in DOMAIN clients => SourceName(sources[clients[name]]) = name
  BY DEF IInv, Clients
<1>8. /\ lastCall'.id = id /\ lastCall'.tool = r.tool
      /\ \/ lastCall'.outcome = "placeholder" /\ ~forward
         \/ lastCall'.outcome = "noClient" /\ r.source \notin DOMAIN clients
         \/ lastCall'.outcome = "forwarded" /\ r.source \in DOMAIN clients /\ lastCall'.server = clients[r.source]
  BY Zenon DEF Call
<1> HIDE DEF r, name
<1>9. /\ lastCall'.id = id /\ lastCall'.tool = tool.name
      /\ lastCall'.outcome = "forwarded" => SourceName(sources[lastCall'.server]) = name
      /\ tool.type = "stdio" => lastCall'.outcome = "forwarded" /\ lastCall'.server >= tool.origin
  BY <1>1, <1>5, <1>6, <1>7, <1>8
<1> QED BY <1>1, <1>9 DEF LastCall, RoutedHome, SameName, Starting, name

LEMMA StepLastCall ==
  ASSUME IInv, [Next]_vars
  PROVE  LastCall'
<1>1. CASE \E id \in DOMAIN routes : Call(id)
  BY <1>1, StepCall
<1>2. CASE ~\E id \in DOMAIN routes : Call(id)
  <2>1. lastCall' = lastCall
    BY <1>2, MovesAre
       DEF Next, vars, Main, ReadConfig, ReadVSCode, PassOver, SpawnFails, Spawn, ImportFails, ImportStdio,
           ImportHTTP, EndOfInput, Initialize, ListTools, ServeFails, BrokenPipe, Signal, StartServing,
           CloseStdin, KillChild, ChildExits, bridgeVars, Moves
  <2>2. ~Starting => UNCHANGED <<tools, clients, sources>> /\ ~Starting'
    BY <1>2, MovesAre
       DEF Next, vars, Main, ReadConfig, ReadVSCode, PassOver, SpawnFails, Spawn, ImportFails, ImportStdio,
           ImportHTTP, Importing, EndOfInput, Initialize, ListTools, ServeFails, BrokenPipe, Signal, StartServing,
           CloseStdin, KillChild, ChildExits, importVars, registryVars, Starting, Moves
  <2> QED BY <2>1, <2>2 DEF IInv, LastCall, RoutedHome, SameName
<1> QED BY <1>1, <1>2

LEMMA StepBusy ==
  ASSUME IInv, [Next]_vars
  PROVE  Busy'
<1>1. ASSUME NEW id \in DOMAIN routes, Call(id)
      PROVE  Busy'
  <2> DEFINE r == routes[id]
  <2>1. /\ UNCHANGED child
        /\ lastCall'.outcome = "forwarded" => r.source \in DOMAIN clients /\ lastCall'.server = clients[r.source]
        /\ serve' \in {"announcing", Onward(lastCall')}
    BY <1>1 DEF Call
  <2>2. \A n \in DOMAIN clients : clients[n] \in Index /\ child[clients[n]] # "none"
    BY SourcesBound DEF IInv, Clients, Typed, Index
  <2> QED BY <2>1, <2>2 DEF Busy, Onward
<1>2. CASE Moves
  <2>1. /\ UNCHANGED <<child, lastCall>>
        /\ \/ serve' \in {"scanning", "replying"}
           \/ serve = "announcing" /\ serve' = Onward(lastCall)
           \/ serve = "writing" /\ serve' = "waiting"
    BY <1>2, MovesAre
  <2> QED BY <2>1 DEF IInv, Busy, Onward
<1>3. CASE ~Moves /\ ~\E id \in DOMAIN routes : Call(id)
  <2>1. UNCHANGED <<lastCall, serve>>
    BY <1>3 DEF Next, vars, Main, ReadConfig, ReadVSCode, PassOver, SpawnFails, Spawn, ImportFails, ImportStdio,
                ImportHTTP, EndOfInput, Initialize, ListTools, ServeFails, BrokenPipe, Signal, StartServing,
                CloseStdin, KillChild, ChildExits, bridgeVars, Moves
  <2>2. \A i \in Index : child[i] # "none" => child'[i] # "none"
    BY Kinds DEF Reading, Quiet, Registering
  <2> QED BY <2>1, <2>2 DEF IInv, Busy
<1> QED BY <1>1, <1>2, <1>3

-----------------------------------------------------------------------------
(* The invariant holds at first and is kept.                               *)
THEOREM InitIInv == Init => IInv
<1> SUFFICES ASSUME Init PROVE IInv
  OBVIOUS
<1>1. Typed
  <2>1. sources \in Seq(SourceType) /\ Len(sources) = 0
    <3> HIDE DEF SourceType
    <3> QED BY DEF Init
  <2>2. next \in 1 .. Len(sources) + 1 /\ Len(sources) <= MaxSources
    BY <2>1, SourcesBound DEF Init
  <2> QED BY <2>1, <2>2 DEF Init, Typed
<1>2. Early /\ Stage /\ Fresh /\ ChildrenAccounted /\ Serving /\ LastCall
  BY DEF Init, Early, Stage, Fresh, ChildrenAccounted, Serving, LastCall, RoutedHome
<1>3. Clients /\ Tools /\ HasClient /\ Whole /\ Busy
  BY DEF Init, Clients, Tools, HasClient, Whole, Busy
<1> QED BY <1>1, <1>2, <1>3 DEF IInv

THEOREM StepIInv == IInv /\ [Next]_vars => IInv'
<1> SUFFICES ASSUME IInv, [Next]_vars PROVE IInv'
  OBVIOUS
<1> QED BY StepTyped, StepEarly, StepStage, StepFresh, StepClients, StepTools, StepHasClient, StepWhole,
           StepChildren, StepServing, StepLastCall, StepBusy DEF IInv

THEOREM Invariant == Spec => []IInv
BY InitIInv, StepIInv, PTL DEF Spec

(* What the variables hold, in every state that the start-up can be in.    *)
THEOREM TypeCorrect == Spec => []TypeOK
<1>1. IInv => TypeOK
  <2> SUFFICES ASSUME IInv PROVE TypeOK
    OBVIOUS
  <2>1. phase = "serving" => DOMAIN routes = DOMAIN tools
    BY DEF IInv, Serving
  <2>2. /\ serve \in {"scanning", "announcing", "writing", "waiting", "replying"}
        /\ serve \in {"writing", "waiting"} =>
             lastCall.outcome = "forwarded" /\ child[lastCall.server] # "none"
    BY DEF IInv, Busy
  <2> QED BY <2>1, <2>2 DEF IInv, Typed, Clients, Tools, TypeOK
<1> QED BY <1>1, Invariant, PTL

(* Calls go home, whatever the sources and the tools are called.           *)
THEOREM CallsGoHome == Spec => []RoutedHome
<1>1. IInv => RoutedHome
  BY DEF IInv, LastCall
<1> QED BY <1>1, Invariant, PTL

(* No child runs that neither the importer nor the manager knows, but for  *)
(* those whose client was replaced.                                        *)
THEOREM NoStrayChildren == Spec => []ChildrenAccounted
<1>1. IInv => ChildrenAccounted
  BY DEF IInv
<1> QED BY <1>1, Invariant, PTL

(* A source logged as imported is there in full.                           *)
THEOREM NothingMissing == Spec => []ImportedInFull
<1>1. IInv => ImportedInFull
  <2> SUFFICES ASSUME IInv, phase = "serving", NEW i \in 1 .. Len(sources), imported[i] = "whole",
                      NEW k \in DOMAIN offered[i], NEW id, id = ToolID(sources[i], offered[i][k])
               PROVE  /\ id \in DOMAIN routes /\ id \in FirstList
                      /\ tools[id].name = offered[i][k].name
                      /\ SameName(tools[id].origin, i) /\ tools[id].origin >= i
    BY DEF ImportedInFull
  <2>1. /\ id \in DOMAIN tools /\ tools[id].name = offered[i][k].name
        /\ SameName(tools[id].origin, i) /\ tools[id].origin >= i
    BY DEF IInv, Whole
  <2>2. id \in DOMAIN routes
    BY <2>1 DEF IInv, Serving
  <2>3. id \in FirstList
    <3>1. tools[id].caps # {}
      BY <2>1 DEF IInv, Tools
    <3>2. tools[id].caps \subseteq AllCapabilities
      BY <2>1 DEF AllCapabilities
    <3> QED BY <2>1, <3>1, <3>2 DEF FirstList
  <2> QED BY <2>1, <2>2, <2>3
<1> QED BY <1>1, Invariant, PTL

(* What a client is told of the parameters of a routed tool is what its    *)
(* server said of them, for any tools and any schemas, but for the         *)
(* enumerations that Plain and PlainToAdapters leave out.                  *)
THEOREM SchemasSurvive == Spec => []SchemaSurvives
<1>1. IInv => SchemaSurvives
  <2> SUFFICES ASSUME IInv, phase = "serving", NEW id \in DOMAIN routes
               PROVE  \E k \in DOMAIN offered[tools[id].origin] :
                        LET tool == offered[tools[id].origin][k] IN
                        /\ tool.name = tools[id].name
                        /\ \A f \in DOMAIN tool.schema : Survives(tool.schema[f], tools[id].schema[f])
    BY DEF SchemaSurvives
  <2> DEFINE list == offered[tools[id].origin]
  <2>1. id \in DOMAIN tools /\ tools[id].origin \in Index
    BY SourcesBound DEF IInv, Serving, Tools, Typed, Index
  <2>2. PICK k \in DOMAIN list : tools[id].name = list[k].name /\ tools[id].schema = Compacted(list[k].schema)
    BY <2>1 DEF IInv, Tools
  <2>3. \A f \in DOMAIN list[k].schema : list[k].schema[f] \in Parameter
    <3>1. list \in ToolList
      BY <2>1, <2>2 DEF IInv, Typed
    <3> HIDE DEF list
    <3> QED BY <2>2, <3>1, ToolListAssumption
  <2> HIDE DEF list
  <2>4. ASSUME NEW f \in DOMAIN list[k].schema
        PROVE  Survives(list[k].schema[f], tools[id].schema[f])
    <3>1. tools[id].schema[f] = compactSchema(list[k].schema[f])
      BY <2>2 DEF Compacted
    <3> QED BY <2>3, <3>1, CodecRoundTrip
  <2> QED BY <2>2, <2>4 DEF list
<1> QED BY <1>1, Invariant, PTL

-----------------------------------------------------------------------------
(* No server's list, and so no registry, is infinite.                      *)
LEMMA FinitelyManyIDs ==
  ASSUME NEW src, NEW list \in ToolList
  PROVE  IsFiniteSet(IDs(src, list))
<1> DEFINE n == Accepted(list)
           f == [k \in 1 .. n |-> ToolID(src, list[k])]
<1>1. n \in Nat
  BY AcceptedIs, ToolListAssumption
<1>2. f \in Surjection(1 .. n, IDs(src, list))
  BY Zenon DEF Surjection, IDs
<1>3. IsFiniteSet(1 .. n)
  BY <1>1, FS_Interval
<1> HIDE DEF f, n
<1> QED BY <1>2, <1>3, FS_Surjection

FinitelyMany == IsFiniteSet(DOMAIN tools)

LEMMA StepFinitelyMany == IInv /\ FinitelyMany /\ [Next]_vars => FinitelyMany'
<1> SUFFICES ASSUME IInv, FinitelyMany, [Next]_vars PROVE FinitelyMany'
  OBVIOUS
<1>1. CASE Reading \/ Quiet
  BY <1>1 DEF Reading, Quiet, registryVars, FinitelyMany
<1>2. ASSUME NEW list \in ToolList, Registering(list)
      PROVE  FinitelyMany'
  <2> DEFINE ids == IDs(sources[next], list)
  <2>1. DOMAIN tools' = DOMAIN tools \cup ids
    BY <1>2, RegistryAfter
  <2>2. IsFiniteSet(ids)
    BY FinitelyManyIDs
  <2> HIDE DEF ids
  <2>3. IsFiniteSet(DOMAIN tools \cup ids)
    BY <2>2, FS_Union DEF FinitelyMany
  <2> QED BY <2>1, <2>3 DEF FinitelyMany
<1> QED BY <1>1, <1>2, Kinds

(* What module Bridge takes for granted of the tools it serves             *)
(* (ToolAssumption, AllTagsAssumption): they are finitely many, the routed *)
(* ones are those of the registry, each has a tag, and the first list      *)
(* leaves none out (main.go:183-190, the tags of all registered tools).    *)
BridgeIsReady ==
  phase = "serving" =>
    /\ DOMAIN routes = DOMAIN tools /\ IsFiniteSet(DOMAIN tools)
    /\ \A id \in DOMAIN tools : tools[id].caps # {}
    /\ FirstList = DOMAIN tools

(* Whatever was imported, the bridge that is built from it meets them.     *)
THEOREM ServesWhatWasImported == Spec => []BridgeIsReady
<1>1. IInv /\ FinitelyMany => BridgeIsReady
  <2> SUFFICES ASSUME IInv, FinitelyMany, phase = "serving"
               PROVE  /\ DOMAIN routes = DOMAIN tools /\ IsFiniteSet(DOMAIN tools)
                      /\ \A id \in DOMAIN tools : tools[id].caps # {}
                      /\ FirstList = DOMAIN tools
    BY DEF BridgeIsReady
  <2>1. DOMAIN routes = DOMAIN tools
    BY DEF IInv, Serving
  <2>2. \A id \in DOMAIN tools : tools[id].caps # {} /\ tools[id].caps \subseteq AllCapabilities
    BY DEF IInv, Tools, AllCapabilities
  <2>3. FirstList = DOMAIN tools
    BY <2>2 DEF FirstList
  <2> QED BY <2>1, <2>2, <2>3 DEF FinitelyMany
<1>2. Init => FinitelyMany
  BY FS_EmptySet DEF Init, FinitelyMany
<1> QED BY <1>1, <1>2, Invariant, StepFinitelyMany, PTL DEF Spec

-----------------------------------------------------------------------------
(* An id is never taken back or handed to an earlier source, a name never  *)
(* loses its client, and once the bridge is built from them (main.go:217, *)
(* a copy of the registry) neither changes any more: the copy is not stale.*)
RegistrySettles ==
  [][/\ DOMAIN tools \subseteq DOMAIN tools' /\ DOMAIN clients \subseteq DOMAIN clients'
     /\ \A id \in DOMAIN tools : tools'[id].origin >= tools[id].origin
     /\ \A n \in DOMAIN clients : clients'[n] >= clients[n]
     /\ ~Starting => UNCHANGED <<registryVars, forward, routes, sources>>]_vars

(* The registry and the clients only ever grow, and only before serving.   *)
THEOREM RegistryIsSettled == Spec => RegistrySettles
<1> DEFINE Settles ==
      /\ DOMAIN tools \subseteq DOMAIN tools' /\ DOMAIN clients \subseteq DOMAIN clients'
      /\ \A id \in DOMAIN tools : tools'[id].origin >= tools[id].origin
      /\ \A n \in DOMAIN clients : clients'[n] >= clients[n]
      /\ ~Starting => UNCHANGED <<registryVars, forward, routes, sources>>
<1>1. ASSUME IInv, [Next]_vars PROVE Settles
  <2>1. ~Starting => UNCHANGED <<registryVars, forward, routes, sources>>
    BY <1>1, MovesAre
       DEF Next, vars, Main, ReadConfig, ReadVSCode, PassOver, SpawnFails, Spawn, ImportFails, ImportStdio,
           ImportHTTP, Importing, EndOfInput, Initialize, ListTools, Call, ServeFails, BrokenPipe, Signal,
           StartServing, CloseStdin, KillChild, ChildExits, importVars, bridgeVars, Starting, Moves
  <2>2. /\ \A id \in DOMAIN tools : tools[id].origin \in 1 .. next - 1 /\ tools[id].origin \in Nat
        /\ \A n \in DOMAIN clients : clients[n] \in 1 .. next - 1 /\ clients[n] \in Nat
        /\ next \in Nat
    BY <1>1, SourcesBound DEF IInv, Typed, Tools, Clients
  <2>3. CASE UNCHANGED registryVars
    BY <2>1, <2>2, <2>3 DEF registryVars
  <2>4. ASSUME NEW list \in ToolList, Registering(list) PROVE Settles
    <3> DEFINE ids == IDs(sources[next], list)
    <3>1. /\ DOMAIN tools' = DOMAIN tools \cup ids
          /\ \A id \in ids : tools'[id].origin = next
          /\ \A id \in DOMAIN tools \ ids : tools'[id] = tools[id]
      BY <2>4, RegistryAfter DEF RegisteredAs
    <3> HIDE DEF ids
    <3>2. /\ DOMAIN tools \subseteq DOMAIN tools'
          /\ \A id \in DOMAIN tools : tools'[id].origin >= tools[id].origin
      <4>1. \A id \in DOMAIN tools : tools'[id].origin = next \/ tools'[id] = tools[id]
        BY <3>1
      <4> QED BY <2>2, <3>1, <4>1
    <3>3. \/ clients' = clients
          \/ clients' = [n \in DOMAIN clients \cup {SourceName(sources[next])} |->
                           IF n = SourceName(sources[next]) THEN next ELSE clients[n]]
      BY <2>4 DEF Registering
    <3>4. /\ DOMAIN clients \subseteq DOMAIN clients'
          /\ \A n \in DOMAIN clients : clients'[n] = next \/ clients'[n] = clients[n]
      BY <3>3
    <3>5. \A n \in DOMAIN clients : clients'[n] >= clients[n]
      BY <2>2, <3>4
    <3> QED BY <2>1, <3>2, <3>4, <3>5
  <2>5. Reading => UNCHANGED registryVars
    BY DEF Reading, registryVars
  <2>6. Quiet => UNCHANGED registryVars
    BY DEF Quiet, registryVars
  <2> QED BY <1>1, <2>3, <2>4, <2>5, <2>6, Kinds
<1> QED BY <1>1, Invariant, PTL DEF Spec, RegistrySettles

(* How far the start-up has come.                                          *)
PhaseRank == [config |-> 0, vscode |-> 1, importing |-> 2, serving |-> 3, done |-> 4, failed |-> 4]
StageRank == [idle |-> 0, spawned |-> 1, initialized |-> 2, listed |-> 3]

Further ==
  \/ PhaseRank[phase'] > PhaseRank[phase]
  \/ /\ phase' = phase
     /\ next' > next \/ (next' = next /\ StageRank[stage'] > StageRank[stage])

(* What StartUpEnds owes to the code and not to its scheduling: whatever   *)
(* main does of its own takes it further, through a sequence that is at    *)
(* most MaxSources long, and nothing that others do takes it back.         *)
OnlyFurther == [][(Further \/ UNCHANGED <<phase, next, stage>>) /\ (Main => Further)]_vars

(* The start-up has no loop, whatever its children answer.                 *)
THEOREM StartUpCannotTurn == Spec => OnlyFurther
<1>1. ASSUME IInv, [Next]_vars
      PROVE  (Further \/ UNCHANGED <<phase, next, stage>>) /\ (Main => Further)
  <2>1. next \in Nat
    BY <1>1, SourcesBound DEF IInv, Typed
  <2>2. ASSUME ReadConfig \/ ReadVSCode \/ StartServing \/ EndOfInput \/ ServeFails \/ BrokenPipe PROVE Further
    BY <2>2 DEF ReadConfig, ReadVSCode, StartServing, EndOfInput, ServeFails, BrokenPipe, Further, PhaseRank
  <2>3. ASSUME PassOver \/ SpawnFails \/ ImportFails \/ ImportStdio \/ ImportHTTP PROVE Further
    <3>1. phase' = phase /\ next' = next + 1
      BY <2>3 DEF PassOver, SpawnFails, ImportFails, ImportStdio, ImportHTTP, Reported
    <3> QED BY <2>1, <3>1 DEF Further
  <2>4. ASSUME Spawn \/ Initialize \/ ListTools PROVE Further
    BY <2>4 DEF Spawn, Initialize, ListTools, Further, StageRank
  <2>5. ASSUME Signal PROVE Further \/ UNCHANGED <<phase, next, stage>>
    <3>1. CASE phase \in {"config", "vscode"}
      BY <2>5, <3>1 DEF Signal, Further, PhaseRank
    <3>2. CASE phase \notin {"config", "vscode"}
      BY <2>5, <3>2 DEF Signal, importVars
    <3> QED BY <3>1, <3>2
  <2>6. ASSUME \/ CloseStdin \/ UNCHANGED vars \/ Moves
               \/ \E id \in DOMAIN routes : Call(id)
               \/ \E i \in Index : KillChild(i) \/ ChildExits(i)
        PROVE  UNCHANGED <<phase, next, stage>>
    BY <2>6, MovesAre DEF CloseStdin, vars, importVars, Call, KillChild, ChildExits
  <2>7. Main => Further
    BY <2>2, <2>3, <2>4 DEF Main
  <2> QED BY <1>1, <2>2, <2>3, <2>4, <2>5, <2>6, <2>7 DEF Next, Main, Moves
<1> QED BY <1>1, Invariant, PTL DEF Spec, OnlyFurther
=============================================================================
