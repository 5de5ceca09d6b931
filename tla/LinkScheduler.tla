---------------------------- MODULE LinkScheduler ----------------------------
(***************************************************************************)
(* The two pure decisions of the lane scheduler: which lane takes the next  *)
(* stream, and how many of a lane's slots only large-file blocks may use    *)
(* (FastClone/link_scheduler.h).  A lane is a record with the fields        *)
(* healthy, inFlight, weight and bias of LaneLoad; lanes are numbered from  *)
(* 0.  Weights are integers: the code's are positive doubles, and only      *)
(* their ratios matter.                                                     *)
(***************************************************************************)
EXTENDS Integers, FiniteSetsExt

NoLane == -1

\* The load of a is strictly below that of b: (inFlight + bias) / weight.
LessLoaded(a, b) == (a.inFlight + a.bias) * b.weight < (b.inFlight + b.bias) * a.weight

\* The lane below its cap with the least load, the lowest index of equals.  A stream
\* pinned to the primary waits for it while it is healthy.
SelectLeastLoadedLane(lanes, streamLimit, forcePrimary) ==
    LET free == {l \in DOMAIN lanes : lanes[l].healthy /\ lanes[l].inFlight < streamLimit}
        eligible == IF forcePrimary /\ lanes[0].healthy THEN free \cap {0} ELSE free
        least == {l \in eligible : \A m \in eligible : ~LessLoaded(lanes[m], lanes[l])}
    IN  IF eligible = {} THEN NoLane ELSE Min(least)

\* clamp(max(2, limit / 8), 2, 4), always below the limit.
ComputeFileRangeReservedSlots(streamLimit) ==
    IF streamLimit <= 2 THEN streamLimit - 1
    ELSE Min({Max({2, streamLimit \div 8}), 4, streamLimit - 1})
=============================================================================
