SPECIFICATION FairSpec
CONSTANTS
    d = d
    e = e
    g = g
    File = {d, e, g}
    Changed = {{d}, {e, g}}
    DeltaFile = {d, e, g}
    LargeFile = {d}
    HashedFile = {}
    Blocks <- BlockCount
    Lanes = 2
    StreamLimit = 2
    SigWindow = 1
    MaxFaults = 2
INVARIANTS CommittedWhole OneOwner
 
CHECK_DEADLOCK FALSE
