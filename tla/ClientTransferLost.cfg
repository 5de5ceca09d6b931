SPECIFICATION Spec
CONSTANTS
  s1 = s1
  g1 = g1
  File = {s1, g1}
  Small = {s1}
  Large = {g1}
  Outcomes <- MCOutcomes
  Lanes = 2
  StreamLimit = 1
  BatchMax = 2
  HashWindow = 1
  MaxTransferRetries = 1
  MaxFaults = 2
CHECK_DEADLOCK FALSE
INVARIANT CompleteCountsEveryFile
