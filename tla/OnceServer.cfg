SPECIFICATION FairSpec
CONSTANTS
  Conn = {c1, c2}
  Modes = {"once", "multi"}
  Claims = {"Auth", "CheckAuth", "SessionJoin"}
  None = None
INVARIANTS LiveConnsExact OneSessionServed VerdictCountsEveryLane
PROPERTIES TerminalReturns UnusedServerExits
CHECK_DEADLOCK FALSE
