---------------------------- MODULE ComparePhase ----------------------------
(***************************************************************************)
(* The decision core shared by FastClone and FastCheck (compare_phase.cpp): *)
(* what the metadata of a local and a remote file say, and what their       *)
(* hashes say.  The modification time travels in the representation of the  *)
(* side it was read on: Unix nanoseconds, or FILETIME ticks of 100 ns since *)
(* 1601; the constants below are the code's literals, so that an instance   *)
(* can scale them to numbers TLC can hold while keeping their order.        *)
(***************************************************************************)
EXTENDS Integers

CONSTANTS
  MtimeTolerance,          \* kMtimeToleranceNs and kLegacyRawTolerance
  LikelyUnixNsThreshold,   \* above it a raw time is Unix nanoseconds
  WindowsEpochDiff,        \* ticks between 1601 and 1970
  Tick,                    \* nanoseconds per FILETIME tick
  MaxInt64                 \* std::numeric_limits<int64_t>::max()

ASSUME ComparePhaseAssumption ==
  /\ MtimeTolerance \in Nat
  /\ WindowsEpochDiff \in Nat
  /\ Tick \in Nat \ {0}
  /\ MaxInt64 \in Nat
  /\ LikelyUnixNsThreshold \in WindowsEpochDiff..MaxInt64

Abs(n) == IF n < 0 THEN -n ELSE n

\* TryNormalizeMtimeToUnixNs succeeds on raw
Normalizes(raw) ==
  \/ raw > LikelyUnixNsThreshold
  \/ /\ raw >= WindowsEpochDiff
     /\ raw - WindowsEpochDiff <= MaxInt64 \div Tick

\* and this is what it yields
UnixNs(raw) ==
  IF raw > LikelyUnixNsThreshold THEN raw ELSE (raw - WindowsEpochDiff) * Tick

MtimeWithinTolerance(a, b) ==
  IF Normalizes(a) /\ Normalizes(b)
  THEN Abs(UnixNs(a) - UnixNs(b)) <= MtimeTolerance
  ELSE Abs(a - b) <= MtimeTolerance

\* The metadata verdict: category and needHash.  local is {} or one entry
\* with fields size and mtime.
DecideCompare(mode, local, remote) ==
  IF local = {} THEN [category |-> "Missing", needHash |-> FALSE]
  ELSE LET l == CHOOSE e \in local : TRUE IN
       IF l.size # remote.size THEN [category |-> "Diff", needHash |-> FALSE]
       ELSE [category |-> "Same",
             needHash |-> \/ mode = "Strict"
                          \/ /\ mode = "Fast"
                             /\ ~MtimeWithinTolerance(l.mtime, remote.mtime)]

ClassifyByHash(localReadable, localHash, remoteHash) ==
  IF localReadable /\ localHash = remoteHash THEN "Same" ELSE "Diff"
=============================================================================
