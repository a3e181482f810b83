-------------------------- MODULE DeferredResolver --------------------------
(***************************************************************************)
(* internal/resolver/deferred.go: the resolver of the deferred-intent mode *)
(* as goroutines share it.  Observe and Reset hold the write lock for      *)
(* their whole effect.  Resolve normalises the hints, reads the window     *)
(* once under the read lock, and builds its answer, with a call of the     *)
(* fallback resolver, after it has let the lock go: other goroutines may   *)
(* observe and reset in between.                                           *)
(***************************************************************************)
EXTENDS DeferredWindow

CONSTANTS
  Goroutine,
  RawTag,          \* tags as callers spell them
  Normalize,       \* ToLower and TrimSpace: the stored tag, or NoTag
  NoTag,           \* the empty string
  Intent,          \* intents as callers word them, NoIntent among them
  NoIntent,        \* the empty intent
  Fallback,        \* what the fallback resolver finds; {} when it fails
  NoAnswer,        \* no answer: the last call has not returned
  MaxObservations  \* bound: observations between two resets

ASSUME NormalizeAssumption ==
  /\ Normalize \in [RawTag -> Capability \cup {NoTag}]
  /\ NoTag \notin Capability
ASSUME FallbackAssumption ==
  /\ NoIntent \in Intent
  /\ Fallback \in [Intent -> SUBSET Capability]
ASSUME NoAnswerAssumption == NoAnswer # {}
ASSUME BoundAssumption == MaxObservations \in Nat

VARIABLES
  window,    \* DeferredResolver.window, the tags only
  log,       \* history: every tag stored since the last Reset
  pc,        \* where each goroutine stands in Resolve
  req,       \* the arguments of its call, hints normalised
  snapshot,  \* obsCount and observed, as read under the lock
  result     \* history: what its last call returned

vars == <<window, log, pc, req, snapshot, result>>

Request == [intent : Intent, hints : SUBSET Capability]
Snapshot == [obsCount : Nat, observed : SUBSET Capability]

NothingRead == [obsCount |-> 0, observed |-> {}]

Normalized(raw) == {Normalize[r] : r \in raw} \ {NoTag}

Init ==
  /\ window = <<>>
  /\ log = <<>>
  /\ pc = [g \in Goroutine |-> "idle"]
  /\ req = [g \in Goroutine |-> [intent |-> NoIntent, hints |-> {}]]
  /\ snapshot = [g \in Goroutine |-> NothingRead]
  /\ result = [g \in Goroutine |-> NoAnswer]

(* Deviation: the check for the empty tag is missing.                      *)
Observe_KeepsBlank(g, raw) ==
  /\ pc[g] = "idle"
  /\ Len(log) < MaxObservations
  /\ window' = Push(window, Normalize[raw])
  /\ log' = Append(log, Normalize[raw])
  /\ UNCHANGED <<pc, req, snapshot, result>>

(***************************************************************************)
(* Observe: a tag that normalises to nothing is ignored.                   *)
(***************************************************************************)
Observe(g, raw) ==
  /\ pc[g] = "idle"
  /\ Normalize[raw] # NoTag
  /\ Len(log) < MaxObservations
  /\ window' = Push(window, Normalize[raw])
  /\ log' = Append(log, Normalize[raw])
  /\ UNCHANGED <<pc, req, snapshot, result>>

Reset(g) ==
  /\ pc[g] = "idle"
  /\ window' = <<>>
  /\ log' = <<>>
  /\ UNCHANGED <<pc, req, snapshot, result>>

(***************************************************************************)
(* Resolve, in the three parts its lock divides it into.                   *)
(***************************************************************************)
ResolveCall(g, intent, hints) ==
  /\ pc[g] = "idle"
  /\ pc' = [pc EXCEPT ![g] = "called"]
  /\ req' = [req EXCEPT ![g] =
               [intent |-> intent, hints |-> Normalized(hints)]]
  /\ result' = [result EXCEPT ![g] = NoAnswer]
  /\ UNCHANGED <<window, log, snapshot>>

ResolveRead(g) ==
  /\ pc[g] = "called"
  /\ pc' = [pc EXCEPT ![g] = "read"]
  /\ snapshot' = [snapshot EXCEPT ![g] =
                    [obsCount |-> Len(window), observed |-> observedCaps(window)]]
  /\ UNCHANGED <<window, log, req, result>>

(* The fallback is asked only about an intent that is not empty.           *)
FallbackCaps(intent) == IF intent = NoIntent THEN {} ELSE Fallback[intent]

Resolved(g) ==
  Gather(snapshot[g].obsCount, snapshot[g].observed,
         req[g].hints, FallbackCaps(req[g].intent))

(* Deviation: the window is read a second time, after the lock is released, *)
(* so that the count and the tags may belong to different windows.         *)
ResolveReturn_ReadsAgain(g) ==
  /\ pc[g] = "read"
  /\ pc' = [pc EXCEPT ![g] = "idle"]
  /\ result' = [result EXCEPT ![g] =
                  Gather(snapshot[g].obsCount, observedCaps(window),
                         req[g].hints, FallbackCaps(req[g].intent))]
  /\ snapshot' = [snapshot EXCEPT ![g] = NothingRead]
  /\ UNCHANGED <<window, log, req>>

ResolveReturn(g) ==
  /\ pc[g] = "read"
  /\ pc' = [pc EXCEPT ![g] = "idle"]
  /\ result' = [result EXCEPT ![g] = Resolved(g)]
  /\ snapshot' = [snapshot EXCEPT ![g] = NothingRead]
  /\ UNCHANGED <<window, log, req>>

Next ==
  \E g \in Goroutine :
    \/ \E raw \in RawTag : Observe(g, raw)
    \/ Reset(g)
    \/ \E intent \in Intent, hints \in SUBSET RawTag : ResolveCall(g, intent, hints)
    \/ ResolveRead(g)
    \/ ResolveReturn(g)

Spec == Init /\ [][Next]_vars

-----------------------------------------------------------------------------
(* Every variable stays in its type; in particular the empty tag is never  *)
(* stored, so a window entry always names a capability.                    *)
TypeOK ==
  /\ window \in Seq(Capability)
  /\ log \in Seq(Capability)
  /\ pc \in [Goroutine -> {"idle", "called", "read"}]
  /\ req \in [Goroutine -> Request]
  /\ snapshot \in [Goroutine -> Snapshot]
  /\ result \in [Goroutine -> (SUBSET Capability) \cup {NoAnswer}]

(* The window is exactly the newest windowSize observations since the last *)
(* reset: however appends and trims by several goroutines interleave, none *)
(* is lost, kept too long or reordered.                                    *)
WindowIsNewest == window = Newest(log, windowSize)

(* A snapshot that reaches the threshold names at least one capability.    *)
SnapshotNotHollow ==
  \A g \in Goroutine :
    snapshot[g].obsCount >= narrowThreshold => snapshot[g].observed # {}

(* Resolve fails with ErrNoCapabilities only when no tool was registered:  *)
(* neither defaults, nor blank tags, nor a Reset racing the call can       *)
(* narrow the surface to nothing.                                          *)
NeverNarrowedToNothing ==
  AllCapabilities # {} => \A g \in Goroutine : result[g] # {}

(* A window configured smaller than the threshold can never fill up to it, *)
(* and every answer is then the full surface for ever: nothing in the      *)
(* constructor relates the two options.                                    *)
SmallWindowNeverNarrows ==
  windowSize < narrowThreshold =>
    \A g \in Goroutine : result[g] = NoAnswer \/ AllCapabilities \subseteq result[g]

(* Sliding the window never undoes the narrowing; only Reset brings the    *)
(* resolver back below the threshold, and Reset brings it back to nothing. *)
NarrowedUntilReset ==
  [][Len(window) >= narrowThreshold /\ Len(window') < narrowThreshold
       => window' = <<>>]_window

(***************************************************************************)
(* What Resolve's comment promises (deferred.go:126-130; DeferredIntent    *)
(* says where SPEC.md 4.8 and the comment of the type differ): the answer  *)
(* is what the list of observations called for at one instant between the  *)
(* call and its return, although it is put together after the lock is      *)
(* released, and although a Reset or observations may come before that.    *)
(***************************************************************************)
Promise == INSTANCE DeferredIntent WITH
  W <- windowSize,
  N <- narrowThreshold,
  Asker <- Goroutine,
  Related <- [i \in Intent |-> FallbackCaps(i)],
  phase <- [g \in Goroutine |-> CASE pc[g] = "called" -> "asked"
                                  [] pc[g] = "read" -> "decided"
                                  [] OTHER -> "idle"],
  question <- req,
  answer <- [g \in Goroutine |->
               IF pc[g] = "read" THEN Resolved(g) ELSE result[g]]

KeepsPromise == Promise!Spec
=============================================================================
