--------------------------- MODULE DeferredIntent ---------------------------
(***************************************************************************)
(* What Resolve promises its callers (deferred.go:126-130): everything     *)
(* below the threshold, from there on the observed domains, the hints, and *)
(* what the intent signals.  It is stated over the whole list of           *)
(* observations since the last reset, every question being answered at one *)
(* instant.  There is no window and no lock here.                          *)
(*                                                                         *)
(* To a question without an intent this is the answer of SPEC.md 4.8.1 to  *)
(* 4.8.3.  With one it is wider: SPEC.md knows no intent in a narrowed     *)
(* phase.  The comment of the type (deferred.go:25-27) promises less: it   *)
(* would narrow from the first observation on.                             *)
(***************************************************************************)
EXTENDS Integers, Sequences

CONSTANTS
  Capability,
  AllCapabilities,
  W,          \* how many observations count as recent
  N,          \* how many recent observations it takes to narrow
  Asker,      \* whoever asks for the capability set
  Intent,     \* intents an asker may name, NoIntent among them
  Related,    \* what each intent signals; {} for no intent
  NoAnswer

VARIABLES
  log,        \* observations since the last reset, oldest first
  phase,      \* "idle", "asked" or "decided", per asker
  question,   \* the intent and the hints of the last question, per asker
  answer      \* the last answer, per asker

vars == <<log, phase, question, answer>>

Question == [intent : Intent, hints : SUBSET Capability]

Recent == {log[i] : i \in {j \in 1 .. Len(log) : j > Len(log) - W}}

Narrowed == N <= W /\ N <= Len(log)

Promised(q) ==
  q.hints \cup
    IF Narrowed THEN Recent \cup Related[q.intent] ELSE AllCapabilities

Init ==
  /\ log = <<>>
  /\ phase = [a \in Asker |-> "idle"]
  /\ question \in [Asker -> Question]
  /\ answer = [a \in Asker |-> NoAnswer]

Observe(c) ==
  /\ log' = Append(log, c)
  /\ UNCHANGED <<phase, question, answer>>

Reset ==
  /\ log' = <<>>
  /\ UNCHANGED <<phase, question, answer>>

Ask(a, q) ==
  /\ phase[a] = "idle"
  /\ phase' = [phase EXCEPT ![a] = "asked"]
  /\ question' = [question EXCEPT ![a] = q]
  /\ answer' = [answer EXCEPT ![a] = NoAnswer]
  /\ UNCHANGED log

Decide(a) ==
  /\ phase[a] = "asked"
  /\ phase' = [phase EXCEPT ![a] = "decided"]
  /\ answer' = [answer EXCEPT ![a] = Promised(question[a])]
  /\ UNCHANGED <<log, question>>

Tell(a) ==
  /\ phase[a] = "decided"
  /\ phase' = [phase EXCEPT ![a] = "idle"]
  /\ UNCHANGED <<log, question, answer>>

Next ==
  \/ \E c \in Capability : Observe(c)
  \/ Reset
  \/ \E a \in Asker :
       \/ \E q \in Question : Ask(a, q)
       \/ Decide(a)
       \/ Tell(a)

Spec == Init /\ [][Next]_vars
=============================================================================
