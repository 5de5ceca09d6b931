SPECIFICATION FairSpec
CONSTANTS
  HashReq = {h1, h2}
  SigReq = {g1}
  FileReq = {f1}
  BatchReq = {b1}
  RangeReq = {d1}
  MaxFrames = 2
  Walker = {w1}
  Chunk = 1
  Chunks = 2
  MaxQueued = 1
  HighBudget = 1
  Budget = 1
  Length = 2
  MaxChanges = 1
  Sticky = {g1}
  Free = Free
INVARIANTS  RepliesWellFormed CachedDigestFresh
PROPERTIES EveryRequestAnswered SessionReturns
CHECK_DEADLOCK FALSE
