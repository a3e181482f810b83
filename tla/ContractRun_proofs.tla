------------------------- MODULE ContractRun_proofs -------------------------
(***************************************************************************)
(* Proofs about ContractPlan and ContractRun for any registries over any   *)
(* finite set of tools.  What makes the order right is that the counter of *)
(* an action is the number of its dependencies that are not out yet        *)
(* (Counters), so that the queue and the order hold exactly the actions    *)
(* without any left (Freed).  What makes a finished run whole is that an   *)
(* action whose dependency ran in an earlier step has been triggered since *)
(* (Pursued), and that the order has a first action the run left out.      *)
(***************************************************************************)
EXTENDS ContractRun, SequenceTheorems, FiniteSetTheorems, WellFoundedInduction,
        TLAPS

-----------------------------------------------------------------------------
(* Sequences and the sets of their entries.                                *)
LEMMA EntriesInSet ==
  ASSUME NEW S, NEW s \in Seq(S)
  PROVE  /\ ToSet(s) \subseteq S
         /\ \A i \in DOMAIN s : s[i] \in ToSet(s)
         /\ \A e \in ToSet(s) : \E i \in DOMAIN s : e = s[i]
         /\ DOMAIN s = 1 .. Len(s)
         /\ s = <<>> => ToSet(s) = {}
  BY DEF ToSet

LEMMA EntriesOfAppend ==
  ASSUME NEW S, NEW s \in Seq(S), NEW e \in S
  PROVE  ToSet(Append(s, e)) = ToSet(s) \cup {e}
<1>1. DOMAIN Append(s, e) = DOMAIN s \cup {Len(s) + 1}
  OBVIOUS
<1>2. \A i \in DOMAIN s : Append(s, e)[i] = s[i]
  OBVIOUS
<1>3. Append(s, e)[Len(s) + 1] = e
  OBVIOUS
<1> QED
  BY <1>1, <1>2, <1>3, Zenon DEF ToSet

LEMMA EntriesOfConcat ==
  ASSUME NEW S, NEW s \in Seq(S), NEW t \in Seq(S)
  PROVE  ToSet(s \o t) = ToSet(s) \cup ToSet(t)
<1>1. ToSet(s \o t) \subseteq ToSet(s) \cup ToSet(t)
  <2> SUFFICES ASSUME NEW i \in DOMAIN (s \o t)
               PROVE  (s \o t)[i] \in ToSet(s) \cup ToSet(t)
    BY DEF ToSet
  <2>1. CASE i \in DOMAIN s
    <3>1. (s \o t)[i] = s[i]
      BY <2>1
    <3> QED
      BY <2>1, <3>1, EntriesInSet
  <2>2. CASE i \notin DOMAIN s
    <3>1. i - Len(s) \in DOMAIN t /\ (s \o t)[i] = t[i - Len(s)]
      BY <2>2
    <3> QED
      BY <3>1, EntriesInSet
  <2> QED
    BY <2>1, <2>2
<1>2. ToSet(s) \subseteq ToSet(s \o t)
  <2> SUFFICES ASSUME NEW i \in DOMAIN s PROVE s[i] \in ToSet(s \o t)
    BY DEF ToSet
  <2>1. i \in DOMAIN (s \o t) /\ (s \o t)[i] = s[i]
    OBVIOUS
  <2> QED
    BY <2>1, Zenon DEF ToSet
<1>3. ToSet(t) \subseteq ToSet(s \o t)
  <2> SUFFICES ASSUME NEW i \in DOMAIN t PROVE t[i] \in ToSet(s \o t)
    BY DEF ToSet
  <2>1. Len(s) + i \in DOMAIN (s \o t) /\ (s \o t)[Len(s) + i] = t[i]
    OBVIOUS
  <2> QED
    BY <2>1, Zenon DEF ToSet
<1> QED
  BY <1>1, <1>2, <1>3

Injective(s) == \A i, j \in DOMAIN s : s[i] = s[j] => i = j

LEMMA TailWithoutHead ==
  ASSUME NEW S, NEW s \in Seq(S), s # <<>>, Injective(s)
  PROVE  /\ Tail(s) \in Seq(S)
         /\ Head(s) \in ToSet(s)
         /\ Injective(Tail(s))
         /\ ToSet(Tail(s)) = ToSet(s) \ {Head(s)}
<1>1. /\ Tail(s) \in Seq(S)
      /\ Len(Tail(s)) = Len(s) - 1
      /\ \A i \in DOMAIN Tail(s) : i + 1 \in DOMAIN s /\ Tail(s)[i] = s[i + 1]
      /\ 1 \in DOMAIN s /\ Head(s) = s[1]
  OBVIOUS
<1>2. Head(s) \in ToSet(s)
  BY <1>1, EntriesInSet
<1>3. Injective(Tail(s))
  BY <1>1 DEF Injective
<1>4. ToSet(Tail(s)) \subseteq ToSet(s) \ {Head(s)}
  <2> SUFFICES ASSUME NEW i \in DOMAIN Tail(s)
               PROVE  Tail(s)[i] \in ToSet(s) \ {Head(s)}
    BY DEF ToSet
  <2>1. s[i + 1] # s[1]
    BY <1>1 DEF Injective
  <2> QED
    BY <1>1, <2>1, EntriesInSet
<1>5. ToSet(s) \ {Head(s)} \subseteq ToSet(Tail(s))
  <2> SUFFICES ASSUME NEW i \in DOMAIN s, i # 1
               PROVE  s[i] \in ToSet(Tail(s))
    BY <1>1 DEF ToSet
  <2>1. i - 1 \in DOMAIN Tail(s) /\ Tail(s)[i - 1] = s[i]
    BY <1>1
  <2> QED
    BY <1>1, <2>1, EntriesInSet
<1> QED
  BY <1>1, <1>2, <1>3, <1>4, <1>5

LEMMA ConcatInjective ==
  ASSUME NEW S, NEW s \in Seq(S), NEW t \in Seq(S),
         Injective(s), Injective(t), ToSet(s) \cap ToSet(t) = {}
  PROVE  Injective(s \o t)
<1> SUFFICES ASSUME NEW i \in DOMAIN (s \o t), NEW j \in DOMAIN (s \o t),
                    (s \o t)[i] = (s \o t)[j]
             PROVE  i = j
  BY DEF Injective
<1> DEFINE entry(k) == IF k <= Len(s) THEN s[k] ELSE t[k - Len(s)]
<1>1. \A k \in DOMAIN (s \o t) :
        /\ k <= Len(s) => k \in DOMAIN s /\ (s \o t)[k] = s[k]
        /\ k > Len(s) => k - Len(s) \in DOMAIN t /\ (s \o t)[k] = t[k - Len(s)]
  OBVIOUS
<1>2. \A k \in DOMAIN s, l \in DOMAIN t : s[k] # t[l]
  BY EntriesInSet
<1>3. CASE i <= Len(s) /\ j <= Len(s)
  BY <1>1, <1>3 DEF Injective
<1>4. CASE i > Len(s) /\ j > Len(s)
  BY <1>1, <1>4 DEF Injective
<1>5. CASE i <= Len(s) /\ j > Len(s)
  BY <1>1, <1>2, <1>5
<1>6. CASE i > Len(s) /\ j <= Len(s)
  BY <1>1, <1>2, <1>6
<1> QED
  BY <1>3, <1>4, <1>5, <1>6

(* A listing is a sequence of exactly these members, each once.            *)
LEMMA ListingFacts ==
  ASSUME NEW S, S \subseteq Nat, IsFiniteSet(S), NEW s \in Listings(S)
  PROVE  /\ s \in Seq(S)
         /\ ToSet(s) = S
         /\ Injective(s)
<1>1. Cardinality(S) \in Nat
  BY FS_CardinalityType
<1>2. s \in Seq(S)
  BY <1>1 DEF Listings
<1>3. \A i, j \in DOMAIN s : i < j => s[i] < s[j]
  BY Zenon DEF Listings
<1>4. \A i \in DOMAIN s : s[i] \in Nat /\ i \in Nat
  <2> TAKE i \in DOMAIN s
  <2>1. DOMAIN s = 1 .. Cardinality(S) /\ s \in [1 .. Cardinality(S) -> S]
    BY DEF Listings
  <2>2. s[i] \in S
    BY <2>1
  <2>3. s[i] \in Nat
    BY <2>2, Zenon
  <2>4. i \in 1 .. Cardinality(S)
    BY <2>1
  <2> QED
    BY <1>1, <2>3, <2>4
<1>5. Injective(s)
  BY <1>3, <1>4 DEF Injective
<1> QED
  BY <1>2, <1>5, Zenon DEF Listings

-----------------------------------------------------------------------------
(* What Build puts into a contract refers to the contract only, and no     *)
(* action depends on itself (builder.go:167-169, "continue").              *)
LEMMA ContractIsClosed ==
  ASSUME NEW contract \in Contracts
  PROVE  /\ DOMAIN contract \subseteq Tool
         /\ contract \in [DOMAIN contract -> SUBSET DOMAIN contract]
         /\ \A t \in DOMAIN contract : t \notin contract[t]
<1>1. PICK registry \in Registries, asked \in SUBSET Capability :
        contract = [t \in Lookup(registry, asked) |->
                      DependsOn(registry, Lookup(registry, asked), t)]
  BY DEF Contracts
<1> DEFINE tools == Lookup(registry, asked)
<1>2. tools \subseteq Tool
  BY RegistriesAssumption DEF Lookup
<1>3. \A t \in tools : DependsOn(registry, tools, t) \subseteq tools \ {t}
  BY DEF DependsOn
<1>4. DOMAIN contract = tools /\ \A t \in tools : contract[t] = DependsOn(registry, tools, t)
  BY <1>1
<1> HIDE DEF tools
<1>5. contract \in [tools -> SUBSET tools]
  BY <1>1, <1>3 DEF tools
<1> QED
  BY <1>2, <1>3, <1>4, <1>5

-----------------------------------------------------------------------------
(* The queue and the order hold different actions, each once.              *)
Queue ==
  /\ Injective(out)
  /\ Injective(ready)
  /\ ToSet(out) \cap ToSet(ready) = {}

Counters == \A a \in Actions : indeg[a] = Cardinality(deps[a] \ ToSet(out))

Freed == \A a \in Actions : indeg[a] = 0 <=> a \in ToSet(out) \cup ToSet(ready)

Counted == Len(out) = Cardinality(ToSet(out))

Verdict ==
  /\ pc = "ordered" => Len(out) = Cardinality(Actions)
  /\ pc = "raised" => ready = <<>> /\ Len(out) # Cardinality(Actions)

PlanInv ==
  /\ PlanTypeOK
  /\ Queue
  /\ Counters
  /\ Freed
  /\ Counted
  /\ Verdict
  /\ OrderHonorsDependsOn

LEMMA FiniteActions ==
  ASSUME PlanTypeOK
  PROVE  /\ IsFiniteSet(Actions)
         /\ Actions \subseteq Nat
         /\ \A S \in SUBSET Actions : IsFiniteSet(S) /\ Cardinality(S) \in Nat
<1>1. IsFiniteSet(Actions) /\ Actions \subseteq Nat
  BY ToolAssumption, FS_Subset DEF PlanTypeOK
<1> QED
  BY <1>1, FS_Subset, FS_CardinalityType

(* An action in the queue waits for nothing.                               *)
LEMMA QueuedIsFree ==
  ASSUME PlanTypeOK, Counters, Freed, NEW a \in ToSet(ready)
  PROVE  a \in Actions /\ deps[a] \subseteq ToSet(out)
<1>1. a \in Actions
  BY EntriesInSet DEF PlanTypeOK
<1>2. Cardinality(deps[a] \ ToSet(out)) = 0
  BY <1>1 DEF Counters, Freed
<1>3. deps[a] \ ToSet(out) \in SUBSET Actions
  BY <1>1 DEF PlanTypeOK
<1>4. deps[a] \ ToSet(out) = {}
  BY <1>2, <1>3, FiniteActions, FS_EmptySet
<1> QED
  BY <1>1, <1>4

LEMMA InitPlanInv == PlanInit => PlanInv
<1> SUFFICES ASSUME PlanInit PROVE PlanInv
  OBVIOUS
<1> DEFINE free == {a \in Actions : deps[a] = {}}
<1>1. Actions \subseteq Tool /\ deps \in [Actions -> SUBSET Actions]
  BY ContractIsClosed DEF PlanInit, Actions
<1>2. IsFiniteSet(Actions) /\ Actions \subseteq Nat
  BY <1>1, ToolAssumption, FS_Subset
<1>3. \A S \in SUBSET Actions : IsFiniteSet(S) /\ Cardinality(S) \in Nat
  BY <1>2, FS_Subset, FS_CardinalityType
<1>4. /\ out = <<>>
      /\ pc = "ordering"
      /\ indeg = [a \in Actions |-> Cardinality(deps[a])]
      /\ ready \in Listings(free)
  BY DEF PlanInit
<1>5. free \in SUBSET Actions
  OBVIOUS
<1>6. free \subseteq Nat /\ IsFiniteSet(free)
  BY <1>2, <1>3, <1>5, Zenon
<1> HIDE DEF free
<1>7. ready \in Seq(free) /\ ToSet(ready) = free /\ Injective(ready)
  BY <1>4, <1>6, ListingFacts
<1>8. ToSet(out) = {} /\ DOMAIN out = {} /\ Len(out) = 0 /\ out \in Seq(Actions)
  BY <1>4 DEF ToSet
<1>9. indeg \in [Actions -> Nat]
  BY <1>1, <1>3, <1>4
<1>10. ready \in Seq(Actions)
  BY <1>5, <1>7
<1>11. PlanTypeOK
  BY <1>1, <1>4, <1>8, <1>9, <1>10 DEF PlanTypeOK
<1>12. Queue
  BY <1>7, <1>8 DEF Queue, Injective
<1>13. Counters
  BY <1>1, <1>4, <1>8 DEF Counters
<1>14. Freed
  <2> SUFFICES ASSUME NEW a \in Actions PROVE indeg[a] = 0 <=> a \in free
    BY <1>7, <1>8 DEF Freed
  <2>1. deps[a] \in SUBSET Actions /\ indeg[a] = Cardinality(deps[a])
    BY <1>1, <1>4
  <2>2. IsFiniteSet(deps[a])
    BY <1>3, <2>1
  <2>3. Cardinality(deps[a]) = 0 <=> deps[a] = {}
    BY <2>2, FS_EmptySet
  <2> QED
    BY <2>1, <2>3 DEF free
<1>15. Counted
  BY <1>8, FS_EmptySet DEF Counted
<1> QED
  BY <1>4, <1>8, <1>11, <1>12, <1>13, <1>14, <1>15
  DEF PlanInv, Verdict, OrderHonorsDependsOn

-----------------------------------------------------------------------------
LEMMA PutOutPlanInv == PlanInv /\ PutOut => PlanInv'
<1> SUFFICES ASSUME PlanInv, PutOut PROVE PlanInv'
  OBVIOUS
<1> DEFINE a == Head(ready)
           freed == {c \in Children(a) : indeg[c] = 1}
<1>1. /\ PlanTypeOK /\ Queue /\ Counters /\ Freed /\ Counted /\ Verdict
      /\ OrderHonorsDependsOn
  BY DEF PlanInv
<1>2. /\ pc = "ordering" /\ ready # <<>>
      /\ out' = Append(out, a)
      /\ indeg' = [c \in Actions |->
                     IF c \in Children(a) THEN indeg[c] - 1 ELSE indeg[c]]
      /\ deps' = deps /\ pc' = pc
  BY DEF PutOut
<1>3. PICK s \in Listings(freed) : ready' = Tail(ready) \o s
  BY DEF PutOut
<1>4. /\ Actions' = Actions
      /\ deps \in [Actions -> SUBSET Actions]
      /\ indeg \in [Actions -> Nat]
      /\ ready \in Seq(Actions)
      /\ out \in Seq(Actions)
  BY <1>1, <1>2 DEF PlanTypeOK, Actions
<1>5. \A S \in SUBSET Actions : IsFiniteSet(S) /\ Cardinality(S) \in Nat /\ S \subseteq Nat
  BY <1>1, FiniteActions
<1>6. /\ Tail(ready) \in Seq(Actions)
      /\ a \in ToSet(ready)
      /\ Injective(Tail(ready))
      /\ ToSet(Tail(ready)) = ToSet(ready) \ {a}
  BY <1>1, <1>2, <1>4, TailWithoutHead DEF Queue
<1>7. a \in Actions /\ a \notin ToSet(out) /\ deps[a] \subseteq ToSet(out)
  BY <1>1, <1>6, QueuedIsFree DEF Queue
<1>8. \A c \in Actions : c \in Children(a) <=> a \in deps[c]
  BY DEF Children
<1>9. freed \subseteq Actions
  BY DEF Children
<1>10. s \in Seq(freed) /\ ToSet(s) = freed /\ Injective(s)
  BY <1>3, <1>5, <1>9, ListingFacts
<1>11. \A c \in Actions : c \in freed <=> a \in deps[c] /\ indeg[c] = 1
  BY <1>8
<1> HIDE DEF a, freed
<1>12. s \in Seq(Actions)
  BY <1>9, <1>10
<1>13. /\ ToSet(out)' = ToSet(out) \cup {a}
       /\ out' \in Seq(Actions)
  BY <1>2, <1>4, <1>7, EntriesOfAppend
<1>14. /\ ToSet(ready)' = (ToSet(ready) \ {a}) \cup freed
       /\ ready' \in Seq(Actions)
  <2> DEFINE rest == Tail(ready)
  <2>1. rest \in Seq(Actions)
    BY <1>6
  <2> HIDE DEF rest
  <2>2. ToSet(rest \o s) = ToSet(rest) \cup ToSet(s) /\ rest \o s \in Seq(Actions)
    BY <1>12, <2>1, EntriesOfConcat
  <2> QED
    BY <1>3, <1>6, <1>10, <2>2 DEF rest
(* What a child waits for before and after.                                *)
<1>15. ASSUME NEW c \in Actions, a \in deps[c]
       PROVE  /\ indeg[c] >= 1
              /\ indeg'[c] = indeg[c] - 1
              /\ indeg'[c] = Cardinality(deps[c] \ ToSet(out)')
  <2> DEFINE rest == deps[c] \ ToSet(out)
  <2>1. rest \in SUBSET Actions
    BY <1>4
  <2>2. IsFiniteSet(rest) /\ Cardinality(rest) \in Nat
    BY <1>5, <2>1
  <2>3. a \in rest
    BY <1>7, <1>15
  <2>4. deps[c] \ ToSet(out)' = rest \ {a}
    BY <1>13
  <2> HIDE DEF rest
  <2>5. Cardinality(rest \ {a}) = Cardinality(rest) - 1
    BY <2>2, <2>3, FS_RemoveElement
  <2>6. Cardinality(rest) # 0
    BY <2>2, <2>3, FS_EmptySet
  <2>7. indeg[c] = Cardinality(rest)
    BY <1>1 DEF Counters, rest
  <2>8. indeg'[c] = indeg[c] - 1
    BY <1>2, <1>8, <1>15
  <2> QED
    BY <2>2, <2>4, <2>5, <2>6, <2>7, <2>8
<1>16. ASSUME NEW c \in Actions, a \notin deps[c]
       PROVE  /\ indeg'[c] = indeg[c]
              /\ indeg'[c] = Cardinality(deps[c] \ ToSet(out)')
  <2>1. deps[c] \ ToSet(out)' = deps[c] \ ToSet(out)
    BY <1>13, <1>16
  <2>2. indeg'[c] = indeg[c]
    BY <1>2, <1>8, <1>16
  <2> QED
    BY <1>1, <2>1, <2>2 DEF Counters
<1>17. indeg' \in [Actions -> Nat]
  <2>1. \A c \in Actions : indeg[c] \in Nat
    BY <1>4
  <2>2. ASSUME NEW c \in Actions PROVE indeg'[c] \in Nat
    <3>1. CASE a \in deps[c]
      <4>1. indeg[c] >= 1 /\ indeg'[c] = indeg[c] - 1
        BY <1>15, <3>1, Zenon
      <4> QED
        BY <2>1, <4>1
    <3>2. CASE a \notin deps[c]
      BY <1>16, <2>1, <3>2
    <3> QED
      BY <3>1, <3>2
  <2>3. indeg' = [c \in Actions |-> indeg'[c]]
    BY <1>2
  <2> QED
    BY <2>2, <2>3
<1>18. PlanTypeOK'
  BY <1>1, <1>2, <1>4, <1>13, <1>14, <1>17 DEF PlanTypeOK
<1>19. Queue'
  <2>1. \A c \in freed : c \notin ToSet(out) /\ c \notin ToSet(ready) /\ c # a
    BY <1>1, <1>6, <1>9, <1>11 DEF Freed
  <2>2. Injective(out')
    <3>1. Injective(out)
      BY <1>1 DEF Queue
    <3>2. /\ DOMAIN out' = DOMAIN out \cup {Len(out) + 1}
          /\ \A i \in DOMAIN out : out'[i] = out[i] /\ out[i] # a
          /\ out'[Len(out) + 1] = a
      BY <1>2, <1>4, <1>7, EntriesInSet
    <3> QED
      BY <3>1, <3>2 DEF Injective
  <2>3. ToSet(Tail(ready)) \cap ToSet(s) = {}
    BY <1>6, <1>10, <2>1
  <2>4. Injective(ready')
    BY <1>3, <1>6, <1>10, <1>12, <2>3, ConcatInjective
  <2>5. ToSet(out)' \cap ToSet(ready)' = {}
    BY <1>1, <1>6, <1>13, <1>14, <2>1 DEF Queue
  <2> QED
    BY <2>2, <2>4, <2>5 DEF Queue, Injective
<1>20. Counters'
  BY <1>2, <1>4, <1>15, <1>16 DEF Counters
<1>21. Freed'
  <2> SUFFICES ASSUME NEW c \in Actions
               PROVE  indeg'[c] = 0 <=> c \in ToSet(out)' \cup ToSet(ready)'
    BY <1>4 DEF Freed
  <2>1. indeg[c] \in Nat /\ (indeg[c] = 0 <=> c \in ToSet(out) \cup ToSet(ready))
    BY <1>1, <1>4 DEF Freed
  <2>2. CASE a \in deps[c]
    <3>1. indeg[c] >= 1 /\ indeg'[c] = indeg[c] - 1
      BY <1>15, <2>2, Zenon
    <3>2. c \notin ToSet(out) \cup ToSet(ready)
      BY <2>1, <3>1
    <3>3. indeg'[c] = 0 <=> indeg[c] = 1
      BY <2>1, <3>1
    <3> QED
      BY <1>6, <1>11, <1>13, <1>14, <2>2, <3>2, <3>3
  <2>3. CASE a \notin deps[c]
    <3>1. c \notin freed
      BY <1>11, <2>3
    <3> QED
      BY <1>6, <1>13, <1>14, <1>16, <2>1, <2>3, <3>1
  <2> QED
    BY <2>2, <2>3
<1>22. Counted'
  <2>1. ToSet(out) \in SUBSET Actions
    BY <1>4, EntriesInSet
  <2>2. Cardinality(ToSet(out) \cup {a}) = Cardinality(ToSet(out)) + 1
    BY <1>5, <1>7, <2>1, FS_AddElement
  <2>3. Len(out') = Len(out) + 1
    BY <1>2, <1>4
  <2> QED
    BY <1>1, <1>13, <2>2, <2>3 DEF Counted
<1>23. Verdict'
  BY <1>2 DEF Verdict
<1>24. OrderHonorsDependsOn'
  <2> SUFFICES ASSUME NEW i \in DOMAIN out'
               PROVE  deps[out'[i]] \subseteq {out'[j] : j \in 1 .. i - 1}
    BY <1>2 DEF OrderHonorsDependsOn
  <2>1. /\ DOMAIN out = 1 .. Len(out)
        /\ DOMAIN out' = 1 .. Len(out) + 1
        /\ Len(out) \in Nat
        /\ \A j \in 1 .. Len(out) : out'[j] = out[j]
        /\ out'[Len(out) + 1] = a
    BY <1>2, <1>4
  <2>2. CASE i \in DOMAIN out
    <3>1. deps[out[i]] \subseteq {out[j] : j \in 1 .. i - 1}
      BY <1>1, <2>2 DEF OrderHonorsDependsOn
    <3>2. \A j \in 1 .. i - 1 : out'[j] = out[j]
      BY <2>1, <2>2
    <3> QED
      BY <2>1, <2>2, <3>1, <3>2
  <2>3. CASE i = Len(out) + 1
    <3>1. ToSet(out) = {out[j] : j \in 1 .. i - 1}
      BY <2>1, <2>3 DEF ToSet
    <3>2. \A j \in 1 .. i - 1 : out'[j] = out[j]
      BY <2>1, <2>3
    <3> QED
      BY <1>7, <2>1, <2>3, <3>1, <3>2
  <2> QED
    BY <2>1, <2>2, <2>3
<1> QED
  BY <1>18, <1>19, <1>20, <1>21, <1>22, <1>23, <1>24 DEF PlanInv

(* A step that leaves the queue and the order alone.                       *)
LEMMA SameQueuePlanInv ==
  ASSUME PlanInv, UNCHANGED <<deps, indeg, ready, out>>,
         pc' \in {"ordering", "ordered", "raised"}, Verdict'
  PROVE  PlanInv'
<1>1. deps' = deps /\ indeg' = indeg /\ ready' = ready /\ out' = out
  OBVIOUS
<1>2. PlanTypeOK'
  BY <1>1 DEF PlanInv, PlanTypeOK, Actions
<1>3. Queue' /\ Counted'
  BY <1>1 DEF PlanInv, Queue, Counted, Injective, ToSet
<1>4. Counters'
  BY <1>1 DEF PlanInv, Counters, ToSet, Actions
<1>5. Freed'
  BY <1>1 DEF PlanInv, Freed, ToSet, Actions
<1>6. OrderHonorsDependsOn'
  BY <1>1 DEF PlanInv, OrderHonorsDependsOn
<1> QED
  BY <1>2, <1>3, <1>4, <1>5, <1>6 DEF PlanInv

LEMMA NextPlanInv == PlanInv /\ [PlanNext]_planVars => PlanInv'
<1> SUFFICES ASSUME PlanInv, [PlanNext]_planVars PROVE PlanInv'
  OBVIOUS
<1>1. CASE PutOut
  BY <1>1, PutOutPlanInv
<1>2. CASE Return
  <2>1. Verdict'
    BY <1>2 DEF Return, Verdict, Actions
  <2> QED
    BY <1>2, <2>1, SameQueuePlanInv DEF Return
<1>3. CASE RaiseCycleError
  <2>1. Verdict'
    BY <1>3 DEF RaiseCycleError, Verdict, Actions
  <2> QED
    BY <1>3, <2>1, SameQueuePlanInv DEF RaiseCycleError
<1>4. CASE UNCHANGED planVars
  <2>1. UNCHANGED <<deps, indeg, ready, out>> /\ pc' = pc
    BY <1>4 DEF planVars
  <2>2. Verdict' /\ pc' \in {"ordering", "ordered", "raised"}
    BY <2>1 DEF PlanInv, PlanTypeOK, Verdict, Actions
  <2> QED
    BY <2>1, <2>2, SameQueuePlanInv
<1> QED
  BY <1>1, <1>2, <1>3, <1>4 DEF PlanNext

(* An order of as many actions as there are has them all.                  *)
LEMMA FullOrder ==
  ASSUME PlanInv, Len(out) = Cardinality(Actions)
  PROVE  ToSet(out) = Actions
<1>1. ToSet(out) \in SUBSET Actions
  BY EntriesInSet DEF PlanInv, PlanTypeOK
<1>2. IsFiniteSet(Actions)
  BY FiniteActions DEF PlanInv
<1>3. Cardinality(ToSet(out)) = Cardinality(Actions)
  BY DEF PlanInv, Counted
<1> QED
  BY <1>1, <1>2, <1>3, FS_Subset

LEMMA PlanInvOrderIsWhole == PlanInv => OrderIsWhole
  BY FullOrder DEF PlanInv, Queue, Verdict, OrderIsWhole, Injective

(* Where the queue has run dry too early, those left wait for each other.  *)
LEMMA StuckIsKnot ==
  ASSUME PlanInv, ready = <<>>, Len(out) # Cardinality(Actions)
  PROVE  \E S \in SUBSET Actions :
           S # {} /\ \A a \in S : deps[a] \cap S # {}
<1> DEFINE S == Actions \ ToSet(out)
<1>1. ToSet(out) \subseteq Actions /\ ToSet(ready) = {}
  BY EntriesInSet DEF PlanInv, PlanTypeOK
<1>2. S # {}
  <2>1. ToSet(out) # Actions
    BY DEF PlanInv, Counted
  <2> QED
    BY <1>1, <2>1
<1>3. ASSUME NEW a \in S PROVE deps[a] \cap S # {}
  <2>1. indeg[a] # 0
    BY <1>1 DEF PlanInv, Freed
  <2>2. Cardinality(deps[a] \ ToSet(out)) # 0
    BY <2>1 DEF PlanInv, Counters
  <2>3. deps[a] \ ToSet(out) # {}
    BY <2>2, FS_EmptySet
  <2>4. deps[a] \subseteq Actions
    BY DEF PlanInv, PlanTypeOK
  <2> QED
    BY <2>3, <2>4
<1> QED
  BY <1>2, <1>3

LEMMA PlanInvCycleErrorIsReal == PlanInv => CycleErrorIsReal
  BY StuckIsKnot DEF PlanInv, Verdict, CycleErrorIsReal

-----------------------------------------------------------------------------
(* A nonempty set of naturals has a least member.                          *)
LEMMA LeastMember ==
  ASSUME NEW T \in SUBSET Nat, T # {}
  PROVE  \E m \in T : \A n \in T : ~ (n < m)
<1> DEFINE less == OpToRel(<, Nat)
<1>1. IsWellFoundedOn(less, Nat)
  BY NatLessThanWellFounded
<1>2. \A m, n \in Nat : n < m => <<n, m>> \in less
  BY DEF OpToRel
<1> HIDE DEF less
<1>3. PICK m \in T : \A n \in T : <<n, m>> \notin less
  BY <1>1, WFMin, Zenon
<1> QED
  BY <1>2, <1>3

(* Of the actions left out, one depends on none of them: the first in the  *)
(* order.                                                                  *)
LEMMA FirstLeftOut ==
  ASSUME PlanInv, pc = "ordered", NEW U \in SUBSET Actions, U # {}
  PROVE  \E c \in U : deps[c] \cap U = {}
<1>1. ToSet(out) = Actions
  BY FullOrder DEF PlanInv, Verdict
<1>2. out \in Seq(Actions) /\ DOMAIN out = 1 .. Len(out) /\ Len(out) \in Nat
  BY EntriesInSet DEF PlanInv, PlanTypeOK
<1> DEFINE T == {i \in DOMAIN out : out[i] \in U}
<1>3. T \in SUBSET Nat
  BY <1>2
<1>4. T # {}
  BY <1>1 DEF ToSet
<1>5. PICK m \in T : \A n \in T : ~ (n < m)
  BY <1>3, <1>4, LeastMember
<1>6. deps[out[m]] \subseteq {out[j] : j \in 1 .. m - 1}
  BY DEF PlanInv, OrderHonorsDependsOn
<1>7. \A j \in 1 .. m - 1 : out[j] \notin U
  BY <1>2, <1>5
<1>8. out[m] \in U
  OBVIOUS
<1> QED
  BY <1>6, <1>7, <1>8

-----------------------------------------------------------------------------
RunTypeOK ==
  /\ run \in {"none", "running", "finished", "failed"}
  /\ stage \in [Actions -> {"idle", "triggered", "called", "answered"}]
  /\ completed \subseteq Actions

(* The graph is run over a plan that was returned, and not touched before. *)
Planned ==
  /\ run # "none" => pc = "ordered"
  /\ run = "none" => stage = Idle /\ completed = {}

Answered == \A a \in Actions : stage[a] = "answered" => a \in completed

(* A node that runs has been triggered by START or by a dependency that    *)
(* was answered.                                                           *)
Prepared == \A a \in Active : deps[a] = {} \/ deps[a] \cap completed # {}

(* A node that neither ran nor runs depends on something, and on nothing   *)
(* that ran in an earlier step.                                            *)
Pursued ==
  run # "none" =>
    \A c \in Actions \ (completed \cup Active) :
      deps[c] # {} /\ deps[c] \cap completed \subseteq Active

RunInv ==
  /\ PlanInv
  /\ RunTypeOK
  /\ Planned
  /\ Answered
  /\ Prepared
  /\ Pursued
  /\ FinishedRunIsWhole

LEMMA InitRunInv == Init => RunInv
<1> SUFFICES ASSUME Init PROVE RunInv
  OBVIOUS
<1>1. PlanInv
  BY InitPlanInv DEF Init
<1>2. run = "none" /\ stage = Idle /\ completed = {}
  BY DEF Init
<1> QED
  BY <1>1, <1>2 DEF RunInv, RunTypeOK, Planned, Answered, Prepared, Pursued,
     FinishedRunIsWhole, Idle, Active

(* Every step is a step of the plan or leaves the plan alone.              *)
LEMMA PlanStep == [Next]_vars => [PlanNext]_planVars
  BY DEF Next, vars, Plan, Invoke, Call, Answer, Raise, NextStep, Finish,
     RefuseUpdate, planVars

LEMMA FinishIsWhole == RunInv /\ Finish => completed = Actions
<1> SUFFICES ASSUME RunInv, Finish, Actions \ completed # {} PROVE FALSE
  BY DEF RunInv, RunTypeOK
<1> DEFINE U == Actions \ completed
<1>1. /\ run = "running" /\ pc = "ordered"
      /\ Active \subseteq completed
      /\ Successors(Active) = {}
  BY DEF Finish, StepEnded, RunInv, Planned, Answered, Active
<1>2. PICK c \in U : deps[c] \cap U = {}
  BY <1>1, FirstLeftOut DEF RunInv
<1>3. deps[c] # {} /\ deps[c] \cap completed \subseteq Active
  BY <1>1 DEF RunInv, Pursued
<1>4. deps[c] \cap Active = {}
  BY <1>1 DEF Successors
<1>5. deps[c] \subseteq Actions
  BY DEF RunInv, PlanInv, PlanTypeOK
<1> QED
  BY <1>2, <1>3, <1>4, <1>5

(* The part of the invariant that steps of the run can disturb.            *)
LEMMA NextRunInv == RunInv /\ [Next]_vars => RunInv'
<1> SUFFICES ASSUME RunInv, [Next]_vars PROVE RunInv'
  OBVIOUS
<1>1. PlanInv'
  BY PlanStep, NextPlanInv DEF RunInv
<1> DEFINE RunPart == /\ RunTypeOK /\ Planned /\ Answered
                      /\ Prepared /\ Pursued /\ FinishedRunIsWhole
<1> SUFFICES RunPart'
  BY <1>1 DEF RunInv
<1>2. RunPart /\ deps \in [Actions -> SUBSET Actions]
  BY DEF RunInv, PlanInv, PlanTypeOK
<1> USE DEF RunTypeOK, Planned, Answered, Prepared, Pursued, FinishedRunIsWhole
<1>3. CASE Plan
  <2>1. deps' = deps /\ Actions' = Actions /\ UNCHANGED runVars
    BY <1>3 DEF Plan, PlanNext, PutOut, Return, RaiseCycleError, Actions
  <2>2. pc = "ordering"
    BY <1>3 DEF Plan, PlanNext, PutOut, Return, RaiseCycleError
  <2> QED
    BY <1>2, <2>1, <2>2 DEF runVars, Idle, Active
<1>4. CASE Invoke
  <2>1. /\ UNCHANGED planVars /\ Actions' = Actions
        /\ run' = "running" /\ completed' = completed /\ completed = {}
        /\ stage' = Trigger(StartEdges) /\ pc = "ordered"
    BY <1>2, <1>4 DEF Invoke, Actions, planVars
  <2>2. Active' = StartEdges /\ StartEdges = {a \in Actions : deps[a] = {}}
    BY <2>1 DEF Active, Trigger, StartEdges
  <2>3. stage' \in [Actions -> {"idle", "triggered", "called", "answered"}]
    BY <2>1 DEF Trigger
  <2>4. \A a \in Actions : stage'[a] # "answered"
    BY <2>1 DEF Trigger
  <2> QED
    BY <1>2, <2>1, <2>2, <2>3, <2>4 DEF planVars
<1>5. ASSUME NEW a \in Actions, Call(a) PROVE RunPart'
  <2>1. /\ UNCHANGED planVars /\ Actions' = Actions
        /\ run' = run /\ completed' = completed /\ run = "running"
        /\ stage[a] = "triggered"
        /\ stage' = [stage EXCEPT ![a] = "called"]
    BY <1>5 DEF Call, Actions, planVars
  <2>2. Active' = Active
    BY <1>2, <2>1 DEF Active
  <2> QED
    BY <1>2, <2>1, <2>2 DEF planVars
<1>6. ASSUME NEW a \in Actions, Answer(a) PROVE RunPart'
  <2>1. /\ UNCHANGED planVars /\ Actions' = Actions
        /\ run' = run /\ completed' = completed \cup {a} /\ run = "running"
        /\ stage[a] = "called"
        /\ stage' = [stage EXCEPT ![a] = "answered"]
    BY <1>6 DEF Answer, Actions, planVars
  <2>2. Active' = Active /\ a \in Active
    BY <1>2, <2>1 DEF Active
  <2> QED
    BY <1>2, <2>1, <2>2 DEF planVars
<1>7. ASSUME NEW a \in Actions, Raise(a) PROVE RunPart'
  <2>1. /\ UNCHANGED planVars /\ Actions' = Actions /\ Active' = Active
        /\ run' = "failed" /\ completed' = completed /\ stage' = stage
        /\ run = "running"
    BY <1>7 DEF Raise, Actions, Active, planVars
  <2> QED
    BY <1>2, <2>1 DEF planVars
<1>8. CASE NextStep
  <2>1. /\ UNCHANGED planVars /\ Actions' = Actions
        /\ run' = run /\ completed' = completed /\ run = "running"
        /\ stage' = Trigger(Successors(Active))
    BY <1>8 DEF NextStep, StepEnded, Actions, planVars
  <2>2. Active' = Successors(Active)
    BY <2>1 DEF Active, Trigger, Successors
  <2>3. Active \subseteq completed
    BY <1>2, <1>8 DEF NextStep, StepEnded, Active
  <2>4. /\ stage' \in [Actions -> {"idle", "triggered", "called", "answered"}]
        /\ \A a \in Actions : stage'[a] # "answered"
    BY <2>1 DEF Trigger
  <2>5. Prepared'
    BY <2>1, <2>2, <2>3 DEF Successors, planVars
  <2>6. Pursued'
    <3> SUFFICES ASSUME NEW c \in Actions \ (completed \cup Successors(Active))
                 PROVE  deps[c] # {} /\ deps[c] \cap completed \subseteq Successors(Active)
      BY <2>1, <2>2 DEF planVars
    <3>1. deps[c] # {} /\ deps[c] \cap completed \subseteq Active
      BY <1>2, <2>1, <2>3
    <3>2. deps[c] \cap Active = {}
      BY DEF Successors
    <3> QED
      BY <3>1, <3>2
  <2> QED
    BY <1>2, <2>1, <2>4, <2>5, <2>6 DEF planVars
<1>9. CASE Finish
  <2>1. /\ UNCHANGED planVars /\ Actions' = Actions /\ Active' = Active
        /\ run' = "finished" /\ completed' = completed /\ stage' = stage
        /\ run = "running"
    BY <1>9 DEF Finish, StepEnded, Actions, Active, planVars
  <2>2. completed = Actions
    BY <1>9, FinishIsWhole
  <2> QED
    BY <1>2, <2>1, <2>2 DEF planVars
<1>10. CASE RefuseUpdate
  <2>1. /\ UNCHANGED planVars /\ Actions' = Actions /\ Active' = Active
        /\ run' = "failed" /\ completed' = completed /\ stage' = stage
        /\ run = "running"
    BY <1>10 DEF RefuseUpdate, StepEnded, Actions, Active, planVars
  <2> QED
    BY <1>2, <2>1 DEF planVars
<1>11. CASE UNCHANGED vars
  <2>1. /\ UNCHANGED planVars /\ Actions' = Actions /\ Active' = Active /\ Idle' = Idle
        /\ run' = run /\ completed' = completed /\ stage' = stage
    BY <1>11 DEF vars, runVars, Actions, Active, planVars, Idle
  <2> QED
    BY <1>2, <2>1 DEF planVars
<1> QED
  BY <1>3, <1>4, <1>5, <1>6, <1>7, <1>8, <1>9, <1>10, <1>11 DEF Next

LEMMA RunInvariant == Spec => []RunInv
<1>1. Init => RunInv
  BY InitRunInv
<1>2. RunInv /\ [Next]_vars => RunInv'
  BY NextRunInv
<1> QED
  BY <1>1, <1>2, PTL DEF Spec

-----------------------------------------------------------------------------
(* Type correctness of planning and running.                               *)
THEOREM TypeCorrect == Spec => []TypeOK
<1>1. RunInv => TypeOK
  BY DEF RunInv, PlanInv, RunTypeOK, TypeOK
<1> QED
  BY <1>1, RunInvariant, PTL

(* Whatever is registered and asked for, the order that topological_order  *)
(* builds puts every action behind all it depends on.                      *)
THEOREM OrderIsValid == Spec => []OrderHonorsDependsOn
<1>1. RunInv => OrderHonorsDependsOn
  BY DEF RunInv, PlanInv
<1> QED
  BY <1>1, RunInvariant, PTL

(* It repeats no action, and returns none without the others.              *)
THEOREM OrderIsComplete == Spec => []OrderIsWhole
<1>1. RunInv => OrderIsWhole
  BY PlanInvOrderIsWhole DEF RunInv
<1> QED
  BY <1>1, RunInvariant, PTL

(* CycleError is raised only when some actions wait for each other.        *)
THEOREM CycleErrorIsJust == Spec => []CycleErrorIsReal
<1>1. RunInv => CycleErrorIsReal
  BY PlanInvCycleErrorIsReal DEF RunInv
<1> QED
  BY <1>1, RunInvariant, PTL

(* A graph of any shape that build_graph makes leaves no action out of a   *)
(* run that finishes.                                                      *)
THEOREM RunLeavesNothingOut == Spec => []FinishedRunIsWhole
<1>1. RunInv => FinishedRunIsWhole
  BY DEF RunInv
<1> QED
  BY <1>1, RunInvariant, PTL

(* In a graph of any shape an action with a single dependency is called    *)
(* after it: the order is lost only where two edges meet.                  *)
THEOREM SingleDependencyInOrder == Spec => OneDependencyHonored
<1>1. RunInv /\ [Next]_vars =>
        \A a \in Actions :
          Calls(a) /\ Cardinality(deps[a]) = 1 => deps[a] \subseteq completed
  <2> SUFFICES ASSUME RunInv, [Next]_vars, NEW a \in Actions,
                      Calls(a), Cardinality(deps[a]) = 1
               PROVE  deps[a] \subseteq completed
    OBVIOUS
  <2>1. deps[a] \in SUBSET Actions
    BY DEF RunInv, PlanInv, PlanTypeOK
  <2>2. IsFiniteSet(deps[a])
    BY <2>1, FiniteActions DEF RunInv, PlanInv
  <2>3. PICK d : deps[a] = {d}
    BY <2>2, FS_Singleton
  <2>4. a \in Active
    BY DEF Calls, Active
  <2> QED
    BY <2>3, <2>4 DEF RunInv, Prepared
<1> QED
  BY <1>1, RunInvariant, PTL DEF Spec, OneDependencyHonored

-----------------------------------------------------------------------------
(* sorted(S).  The place of a member is the number of those below it.      *)
Rank(S, x) == Cardinality({y \in S : y < x})

LEMMA RankFacts ==
  ASSUME NEW S, S \subseteq Nat, IsFiniteSet(S)
  PROVE  /\ Cardinality(S) \in Nat
         /\ \A x \in S : Rank(S, x) \in Nat /\ Rank(S, x) < Cardinality(S)
         /\ \A x, y \in S : x < y => Rank(S, x) < Rank(S, y)
<1> DEFINE below(x) == {y \in S : y < x}
<1>1. \A T \in SUBSET S : IsFiniteSet(T) /\ Cardinality(T) \in Nat /\ Cardinality(T) <= Cardinality(S)
  BY FS_Subset, FS_CardinalityType
<1>2. \A x \in S : below(x) \in SUBSET S /\ x \notin below(x) /\ x \in Nat
  OBVIOUS
<1>3. \A x : Rank(S, x) = Cardinality(below(x))
  BY DEF Rank
<1>4. \A x \in S : Rank(S, x) \in Nat
  BY <1>1, <1>2, <1>3
<1>5. \A T \in SUBSET S : \A x \in S \ T : Cardinality(T \cup {x}) = Cardinality(T) + 1
  BY <1>1, FS_AddElement
<1>6. ASSUME NEW x \in S, NEW T \in SUBSET S, below(x) \subseteq T, x \in T
      PROVE  Rank(S, x) < Cardinality(T)
  <2>1. IsFiniteSet(T) /\ below(x) \cup {x} \in SUBSET T
    BY <1>1, <1>6
  <2>2. Cardinality(below(x) \cup {x}) <= Cardinality(T)
    BY <2>1, FS_Subset
  <2>3. Cardinality(below(x) \cup {x}) = Cardinality(below(x)) + 1
    BY <1>2, <1>5
  <2> QED
    BY <1>1, <1>3, <1>4, <2>2, <2>3
<1>7. \A x \in S : Rank(S, x) < Cardinality(S)
  BY <1>2, <1>6
<1>8. ASSUME NEW x \in S, NEW y \in S, x < y
      PROVE  Rank(S, x) < Rank(S, y)
  <2>1. \A z \in S : z < x => z < y
    <3> TAKE z \in S
    <3>1. z \in Nat /\ x \in Nat /\ y \in Nat
      BY <1>2
    <3> QED
      BY <1>8, <3>1
  <2>2. below(x) \subseteq below(y)
    BY <2>1
  <2>3. x \in below(y) /\ below(y) \in SUBSET S
    BY <1>8
  <2> HIDE DEF below
  <2> QED
    BY <1>3, <1>6, <2>2, <2>3
<1>9. Cardinality(S) \in Nat
  BY FS_CardinalityType
<1> QED
  BY <1>4, <1>7, <1>8, <1>9

LEMMA ListingExists ==
  ASSUME NEW S, S \subseteq Nat, IsFiniteSet(S)
  PROVE  Listings(S) # {}
<1> DEFINE n == Cardinality(S)
           place == [x \in S |-> Rank(S, x) + 1]
           s == [i \in 1 .. n |-> CHOOSE x \in S : place[x] = i]
<1>0. /\ n \in Nat
      /\ \A x \in S : Rank(S, x) \in Nat /\ Rank(S, x) < n /\ place[x] = Rank(S, x) + 1
      /\ \A x, y \in S : x < y => Rank(S, x) < Rank(S, y)
  BY RankFacts
<1> HIDE DEF place, n
<1>1. n \in Nat /\ \A x \in S : x \in Nat /\ place[x] \in 1 .. n
  <2> SUFFICES ASSUME NEW x \in S PROVE x \in Nat /\ place[x] \in 1 .. n
    BY <1>0
  <2>1. n \in Nat /\ Rank(S, x) \in Nat /\ Rank(S, x) < n /\ place[x] = Rank(S, x) + 1
    BY <1>0
  <2> QED
    BY <2>1
<1>2. \A x, y \in S : x < y => place[x] < place[y]
  <2> SUFFICES ASSUME NEW x \in S, NEW y \in S, x < y PROVE place[x] < place[y]
    OBVIOUS
  <2>1. /\ Rank(S, x) \in Nat /\ Rank(S, y) \in Nat /\ Rank(S, x) < Rank(S, y)
        /\ place[x] = Rank(S, x) + 1 /\ place[y] = Rank(S, y) + 1
    BY <1>0
  <2> QED
    BY <2>1
<1>3. \A x, y \in S : place[x] = place[y] => x = y
  <2> SUFFICES ASSUME NEW x \in S, NEW y \in S, place[x] = place[y], x # y
               PROVE  FALSE
    OBVIOUS
  <2>1. x \in Nat /\ y \in Nat /\ place[x] \in 1 .. n /\ place[y] \in 1 .. n
    BY <1>1
  <2>2. x < y \/ y < x
    BY <2>1
  <2>3. place[x] < place[y] \/ place[y] < place[x]
    BY <1>2, <2>2
  <2> QED
    BY <1>1, <2>1, <2>3
<1>4. IsFiniteSet(1 .. n) /\ Cardinality(1 .. n) = n
  BY <1>1, FS_Interval
<1>5. place \in Injection(S, 1 .. n)
  <2>1. place \in [S -> 1 .. n]
    BY <1>1, Zenon DEF place
  <2> QED
    BY <1>3, <2>1 DEF Injection, IsInjective
<1>6. place \in Surjection(S, 1 .. n)
  <2>1. IsFiniteSet(1 .. n) /\ Cardinality(S) = Cardinality(1 .. n)
    BY <1>4 DEF n
  <2>2. IsFiniteSet(1 .. n) /\ Cardinality(S) = Cardinality(1 .. n) => place \in Surjection(S, 1 .. n)
    BY <1>5, FS_Injection
  <2> QED
    BY <2>1, <2>2
<1>7. \A i \in 1 .. n : \E x \in S : place[x] = i
  BY <1>6 DEF Surjection
<1>8. \A i \in 1 .. n : s[i] \in S /\ place[s[i]] = i
  BY <1>7
<1>9. \A x \in S : s[place[x]] = x
  BY <1>1, <1>3, <1>8
<1>10. s \in [1 .. n -> S]
  BY <1>8
<1> HIDE DEF s, n
<1>11. ToSet(s) = S
  <2>1. DOMAIN s = 1 .. n
    BY <1>10
  <2> QED
    BY <1>1, <1>8, <1>9, <2>1 DEF ToSet
<1>12. \A i, j \in DOMAIN s : i < j => s[i] < s[j]
  <2> SUFFICES ASSUME NEW i \in 1 .. n, NEW j \in 1 .. n, i < j
               PROVE  s[i] < s[j]
    BY <1>10
  <2>1. s[i] \in S /\ s[j] \in S /\ place[s[i]] = i /\ place[s[j]] = j
    BY <1>8
  <2>2. i \in Nat /\ j \in Nat
    BY <1>1
  <2>3. s[i] \in Nat /\ s[j] \in Nat /\ s[i] # s[j]
    <3>1. s[i] \in Nat /\ s[j] \in Nat
      BY <1>1, <2>1, Zenon
    <3>2. i # j
      BY <2>2
    <3> QED
      BY <2>1, <3>1, <3>2
  <2>4. s[j] < s[i] => j < i
    BY <1>2, <2>1, Zenon
  <2>5. ~(j < i)
    BY <2>2
  <2> QED
    BY <2>3, <2>4, <2>5
<1>13. s \in Listings(S)
  BY <1>10, <1>11, <1>12 DEF Listings, n
<1> QED
  BY <1>13

LEMMA ListingIsOne ==
  ASSUME NEW S, S \subseteq Nat, IsFiniteSet(S), NEW s \in Listings(S), NEW t \in Listings(S)
  PROVE  s = t
<1> DEFINE n == Cardinality(S)
           Bad == {i \in 1 .. n : s[i] # t[i]}
<1>1. n \in Nat
  BY FS_CardinalityType
<1>2. /\ s \in [1 .. n -> S] /\ t \in [1 .. n -> S]
      /\ ToSet(s) = S /\ ToSet(t) = S
      /\ DOMAIN s = 1 .. n /\ DOMAIN t = 1 .. n
  BY DEF Listings
<1>3. /\ \A i, j \in 1 .. n : i < j => s[i] < s[j]
      /\ \A i, j \in 1 .. n : i < j => t[i] < t[j]
  BY <1>2, Zenon DEF Listings
<1> HIDE DEF n
<1>4. \A i \in 1 .. n : s[i] \in S /\ t[i] \in S /\ s[i] \in Nat /\ t[i] \in Nat /\ i \in Nat
  <2> TAKE i \in 1 .. n
  <2>1. s[i] \in S /\ t[i] \in S
    BY <1>2
  <2>2. s[i] \in Nat /\ t[i] \in Nat
    BY <2>1, Zenon
  <2> QED
    BY <1>1, <2>1, <2>2
<1>5. ASSUME NEW m \in 1 .. n, \A j \in 1 .. n : j < m => s[j] = t[j], s[m] < t[m]
      PROVE  FALSE
  <2>1. PICK j \in 1 .. n : t[j] = s[m]
    BY <1>2, <1>4 DEF ToSet
  <2>2. ~(j < m)
    BY <1>3, <1>4, <1>5, <2>1
  <2>3. ~(m < j)
    BY <1>3, <1>4, <1>5, <2>1
  <2>4. j = m
    BY <1>4, <2>2, <2>3
  <2> QED
    BY <1>4, <1>5, <2>1, <2>4
<1>6. ASSUME NEW m \in 1 .. n, \A j \in 1 .. n : j < m => s[j] = t[j], t[m] < s[m]
      PROVE  FALSE
  <2>1. PICK j \in 1 .. n : s[j] = t[m]
    BY <1>2, <1>4 DEF ToSet
  <2>2. ~(j < m)
    BY <1>3, <1>4, <1>6, <2>1
  <2>3. ~(m < j)
    BY <1>3, <1>4, <1>6, <2>1
  <2>4. j = m
    BY <1>4, <2>2, <2>3
  <2> QED
    BY <1>4, <1>6, <2>1, <2>4
<1>7. Bad = {}
  <2> SUFFICES ASSUME Bad # {} PROVE FALSE
    OBVIOUS
  <2>1. Bad \in SUBSET Nat
    BY <1>1
  <2>2. PICK m \in Bad : \A j \in Bad : ~ (j < m)
    <3> HIDE DEF Bad
    <3> QED
      BY <2>1, LeastMember
  <2>3. \A j \in 1 .. n : j < m => s[j] = t[j]
    BY <2>2
  <2>4. s[m] < t[m] \/ t[m] < s[m]
    BY <1>4, <2>2
  <2> QED
    BY <1>5, <1>6, <2>2, <2>3, <2>4
<1>8. \A i \in 1 .. n : s[i] = t[i]
  BY <1>7
<1>9. s = [i \in 1 .. n |-> s[i]] /\ t = [i \in 1 .. n |-> t[i]]
  BY <1>2, Zenon
<1>10. [i \in 1 .. n |-> s[i]] = [i \in 1 .. n |-> t[i]]
  BY <1>8, Zenon
<1> QED
  BY <1>9, <1>10, Zenon

Sorted(S) == CHOOSE s \in Listings(S) : TRUE

(* Planning is a function of the contract: a step that takes an action off *)
(* the queue is always possible and leaves no choice (acp_common,          *)
(* topological_order, "Tie-breaks by action id so the ordering is          *)
(* deterministic").                                                        *)
THEOREM PlanIsDeterministic ==
  ASSUME PlanInv, pc = "ordering", ready # <<>>
  PROVE  PutOut <=>
           /\ out' = Append(out, Head(ready))
           /\ indeg' = [c \in Actions |->
                          IF c \in Children(Head(ready)) THEN indeg[c] - 1 ELSE indeg[c]]
           /\ ready' = Tail(ready) \o Sorted({c \in Children(Head(ready)) : indeg[c] = 1})
           /\ UNCHANGED <<deps, pc>>
<1> DEFINE freed == {c \in Children(Head(ready)) : indeg[c] = 1}
<1>1. freed \in SUBSET Actions
  BY DEF Children
<1> HIDE DEF freed
<1>2. freed \subseteq Nat /\ IsFiniteSet(freed)
  BY <1>1, FiniteActions DEF PlanInv
<1>3. Sorted(freed) \in Listings(freed)
  BY <1>2, ListingExists DEF Sorted
<1>4. \A s \in Listings(freed) : s = Sorted(freed)
  BY <1>2, <1>3, ListingIsOne
<1>5. (\E s \in Listings(freed) : ready' = Tail(ready) \o s) <=> ready' = Tail(ready) \o Sorted(freed)
  BY <1>3, <1>4
<1> QED
  BY <1>5 DEF PutOut, freed

-----------------------------------------------------------------------------
(* Counters and queue implement the abstract order: every step of planning *)
(* is a step of LinearExtension, and no step of a run touches the plan.    *)
THEOREM PlanImplementsOrder == Spec => OrderKeepsPromise
<1>1. Init => Promise!Init
  BY DEF Init, PlanInit, Promise!Init
<1>2. ASSUME RunInv, [Next]_vars
      PROVE  [Promise!Next]_(Promise!vars)
  <2>1. PlanInv /\ Promise!Placed = ToSet(out) /\ DOMAIN deps = Actions
    BY <1>2 DEF RunInv, Promise!Placed, ToSet, Actions
  <2>2. CASE PutOut
    <3> DEFINE a == Head(ready)
    <3>1. /\ pc = "ordering" /\ ready # <<>> /\ out' = Append(out, a)
          /\ UNCHANGED <<deps, pc>>
      BY <2>2 DEF PutOut
    <3>2. ready \in Seq(Actions) /\ Injective(ready) /\ ToSet(out) \cap ToSet(ready) = {}
      BY <2>1 DEF PlanInv, PlanTypeOK, Queue
    <3>3. a \in ToSet(ready)
      BY <3>1, <3>2, TailWithoutHead
    <3> HIDE DEF a
    <3>4. a \in Actions /\ deps[a] \subseteq ToSet(out) /\ a \notin ToSet(out)
      BY <2>1, <3>2, <3>3, QueuedIsFree DEF PlanInv
    <3>5. Promise!Place(a)
      BY <2>1, <3>1, <3>4 DEF Promise!Place
    <3> QED
      BY <2>1, <3>4, <3>5 DEF Promise!Next
  <2>3. CASE Return
    <3>1. ToSet(out) = Actions
      BY <2>1, <2>3, FullOrder DEF Return
    <3> QED
      BY <2>1, <2>3, <3>1 DEF Return, Promise!Accept, Promise!Next
  <2>4. CASE RaiseCycleError
    <3>1. \E S \in SUBSET Actions : S # {} /\ \A a \in S : deps[a] \cap S # {}
      BY <2>1, <2>4, StuckIsKnot DEF RaiseCycleError
    <3> QED
      BY <2>1, <2>4, <3>1 DEF RaiseCycleError, Promise!Refuse, Promise!Knot, Promise!Next
  <2>5. CASE UNCHANGED planVars
    BY <2>5 DEF planVars, Promise!vars
  <2> QED
    BY <1>2, <2>2, <2>3, <2>4, <2>5, PlanStep DEF PlanNext
<1> QED
  BY <1>1, <1>2, RunInvariant, PTL DEF Spec, OrderKeepsPromise, Promise!Spec

(* A contract that is given an order has no cycle: whatever actions are    *)
(* taken of it, one of them depends on none of the others.  With           *)
(* CycleErrorIsJust, CycleError is raised for the cyclic ones and no other.*)
THEOREM OrderedIsAcyclic ==
  Spec => [](pc = "ordered" =>
               \A S \in SUBSET Actions : S # {} => \E a \in S : deps[a] \cap S = {})
<1>1. RunInv => (pc = "ordered" =>
                   \A S \in SUBSET Actions : S # {} => \E a \in S : deps[a] \cap S = {})
  BY FirstLeftOut DEF RunInv
<1> QED
  BY <1>1, RunInvariant, PTL

-----------------------------------------------------------------------------
(* The first place in the order at which one of these nodes stands.        *)
First(nodes) ==
  CHOOSE i \in DOMAIN out : out[i] \in nodes /\ \A j \in DOMAIN out : out[j] \in nodes => i <= j

LEMMA FirstIs ==
  ASSUME PlanInv, pc = "ordered", NEW nodes \in SUBSET Actions, nodes # {}
  PROVE  /\ First(nodes) \in DOMAIN out /\ out[First(nodes)] \in nodes
         /\ \A j \in DOMAIN out : out[j] \in nodes => First(nodes) <= j
<1> DEFINE T == {i \in DOMAIN out : out[i] \in nodes}
<1>1. ToSet(out) = Actions
  BY FullOrder DEF PlanInv, Verdict
<1>2. DOMAIN out = 1 .. Len(out) /\ Len(out) \in Nat
  BY EntriesInSet DEF PlanInv, PlanTypeOK
<1>3. T \in SUBSET Nat
  BY <1>2
<1>4. T # {}
  BY <1>1 DEF ToSet
<1>5. PICK m \in T : \A n \in T : ~ (n < m)
  BY <1>3, <1>4, LeastMember
<1>6. \A j \in DOMAIN out : out[j] \in nodes => m <= j
  BY <1>2, <1>3, <1>5
<1> QED
  BY <1>5, <1>6 DEF First

(* Of one node the call is sent, or its answer comes.                      *)
Moves(a) ==
  /\ \/ stage[a] = "triggered" /\ stage'[a] = "called"
     \/ stage[a] = "called" /\ stage'[a] = "answered"
  /\ \A b \in Actions \ {a} : stage'[b] = stage[b]

(* Why a run ends: a step that does not end it moves one node of the graph *)
(* on, or leaves the graph's step for one that begins further down the     *)
(* order.  LangGraph has no order; that it cannot turn in a circle is due  *)
(* to the CycleError which was not raised.                                 *)
RunMovesOn ==
  [][run = "running" /\ run' = "running" =>
       \/ Active' = Active /\ \E a \in Active : Moves(a)
       \/ Active' # {} /\ First(Active)' > First(Active)]_vars

THEOREM RunCannotTurn == Spec => RunMovesOn
<1>1. ASSUME RunInv, [Next]_vars, ~UNCHANGED vars, run = "running", run' = "running"
      PROVE  \/ Active' = Active /\ \E a \in Active : Moves(a)
             \/ Active' # {} /\ First(Active)' > First(Active)
  <2>1. PlanInv /\ pc = "ordered" /\ RunTypeOK
    BY <1>1 DEF RunInv, Planned
  <2>2. ASSUME NEW a \in Actions, Call(a) \/ Answer(a)
        PROVE  Active' = Active /\ \E b \in Active : Moves(b)
    <3>1. UNCHANGED planVars /\ Actions' = Actions
      BY <2>2 DEF Call, Answer, Actions, planVars
    <3>2. Moves(a) /\ a \in Active
      BY <2>1, <2>2 DEF Call, Answer, Moves, Active, RunTypeOK
    <3>3. Active' = Active
      BY <2>1, <2>2, <3>1 DEF Call, Answer, Active, RunTypeOK
    <3> QED
      BY <3>2, <3>3
  <2>3. CASE NextStep
    <3> DEFINE U == Active
               V == Successors(Active)
    <3>1. /\ UNCHANGED planVars /\ Actions' = Actions /\ out' = out /\ V # {}
          /\ stage' = Trigger(V)
      BY <2>3 DEF NextStep, Actions, planVars
    <3>2. Active' = V
      BY <3>1 DEF Active, Trigger, Successors
    <3>3. U \in SUBSET Actions /\ V \in SUBSET Actions /\ U # {}
      BY <3>1 DEF Active, Successors
    <3> HIDE DEF U
    <3>4. /\ First(V) \in DOMAIN out /\ out[First(V)] \in V
      BY <2>1, <3>1, <3>3, FirstIs
    <3>5. PICK a \in U : a \in deps[out[First(V)]]
      BY <3>4 DEF Successors, U
    <3>6. PICK i \in 1 .. First(V) - 1 : out[i] = a
      BY <2>1, <3>4, <3>5 DEF PlanInv, OrderHonorsDependsOn
    <3>7. DOMAIN out = 1 .. Len(out) /\ Len(out) \in Nat
      BY <2>1, EntriesInSet DEF PlanInv, PlanTypeOK
    <3>8. i \in DOMAIN out /\ i < First(V)
      BY <3>4, <3>6, <3>7
    <3>9. First(U) <= i /\ First(U) \in DOMAIN out
      BY <2>1, <3>3, <3>6, <3>8, FirstIs
    <3>10. First(V) > First(U)
      BY <3>4, <3>7, <3>8, <3>9
    <3>11. First(Active)' = First(V)
      BY <3>1, <3>2 DEF First
    <3> QED
      BY <3>1, <3>2, <3>10, <3>11 DEF U
  <2>4. CASE Plan \/ Invoke \/ Finish \/ RefuseUpdate \/ \E a \in Actions : Raise(a)
    BY <1>1, <2>1, <2>4 DEF Plan, PlanNext, PutOut, Return, RaiseCycleError, Invoke, Finish,
       RefuseUpdate, Raise
  <2> QED
    BY <1>1, <2>2, <2>3, <2>4 DEF Next
<1>2. RunInv /\ [Next]_vars =>
        [run = "running" /\ run' = "running" =>
           \/ Active' = Active /\ \E a \in Active : Moves(a)
           \/ Active' # {} /\ First(Active)' > First(Active)]_vars
  BY <1>1
<1> QED
  BY <1>2, RunInvariant, PTL DEF Spec, RunMovesOn

=============================================================================
