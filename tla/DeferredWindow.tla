--------------------------- MODULE DeferredWindow ---------------------------
(***************************************************************************)
(* The pure part of internal/resolver/deferred.go: what an observation     *)
(* does to the sliding window, and which capabilities a window stands for. *)
(* DeferredResolver puts these operators under its lock and its            *)
(* goroutines, Bridge calls them from its single serving loop.             *)
(***************************************************************************)
EXTENDS Integers, Sequences, Functions

CONSTANTS
  Capability,            \* capability tags as the resolver stores them
  AllCapabilities,       \* DeferredOptions.AllCapabilities
  WindowSizeOption,      \* DeferredOptions.WindowSize, before its default
  NarrowThresholdOption  \* DeferredOptions.NarrowThreshold, likewise

ASSUME CapabilityAssumption == AllCapabilities \subseteq Capability
ASSUME OptionAssumption ==
  /\ WindowSizeOption \in Int
  /\ NarrowThresholdOption \in Int

(***************************************************************************)
(* The options the constructor settles on: zero and negative values select *)
(* the defaults.                                                           *)
(***************************************************************************)
windowSize == IF WindowSizeOption <= 0 THEN 10 ELSE WindowSizeOption

(* Deviation: the default of NarrowThreshold is forgotten.                 *)
narrowThreshold_NoDefault == NarrowThresholdOption

narrowThreshold ==
  IF NarrowThresholdOption <= 0 THEN 3 ELSE NarrowThresholdOption

(* The last n entries of s: the reslicing that drops the oldest entries.   *)
Newest(s, n) == IF Len(s) > n THEN SubSeq(s, Len(s) - n + 1, Len(s)) ELSE s

(* Deviation: a full window refuses new entries instead of dropping old ones. *)
Push_KeepsOldest(window, cap) ==
  IF Len(window) >= windowSize THEN window ELSE Append(window, cap)

(* Deviation: trimming an overfull window drops one entry too many.        *)
Push_DropsOneMore(window, cap) ==
  IF Len(window) >= windowSize
  THEN Newest(Append(window, cap), windowSize - 1)
  ELSE Append(window, cap)

(* The window after one observation of the stored tag cap.                 *)
Push(window, cap) == Newest(Append(window, cap), windowSize)

(* Deviation: the observations of a call are not trimmed.                  *)
PushAll_Untrimmed(window, tags) == window \o tags

(* Deviation: a call whose tags do not fit is not observed at all.         *)
PushAll_OnlyIfItFits(window, tags) ==
  IF Len(window \o tags) > windowSize THEN window ELSE window \o tags

(* The window after one observation of each of tags, in order: trimming    *)
(* after every append or once at the end leaves the same newest entries.   *)
PushAll(window, tags) == Newest(window \o tags, windowSize)

(* The set of tags in a window.                                            *)
observedCaps(window) == Range(window)

(***************************************************************************)
(* The capabilities Resolve gathers from the size and the tags it read     *)
(* from the window, the caller's hints and what the fallback resolver      *)
(* finds in the intent.  The empty set stands for ErrNoCapabilities.       *)
(***************************************************************************)
Gather(obsCount, observed, hints, related) ==
  hints \cup
    IF obsCount < narrowThreshold THEN AllCapabilities ELSE observed \cup related
=============================================================================
