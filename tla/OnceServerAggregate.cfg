SPECIFICATION Spec
CONSTANTS
  Conn = {c1, c2}
  Modes = {"multi"}
  Claims = {"Auth"}
  None = None
INVARIANT AggregateIsComplete
CHECK_DEADLOCK FALSE
