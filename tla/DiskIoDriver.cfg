SPECIFICATION FairSpec
CONSTANTS
  r1 = r1
  w1 = w1
  w2 = w2
  f1 = f1
  f2 = f2
  Op <- MCOp
  File = {f1, f2}
  FileOf <- MCFileOf
  Reads = {r1}
  Small = {w2}
  Waiter = {t1}
  MaxReadQueue = 1
  MaxWriteQueue = 2
  MaxInFlight = 2
  ReadWeight = 1
  WriteWeight = 1
  NoOp = NoOp
  NoFile = NoFile
INVARIANTS TypeOK ExactlyOnePlace DeferredReleaseHasTrigger ReleaseLeavesNothing FairShare
PROPERTIES KeepsPromise EveryOpCompletes TeardownCompletes
CHECK_DEADLOCK FALSE
