CONSTANTS
  Nodes <- MCNodes
  Worlds <- MCWorlds
  None = None
  MaxOps <- MCOps
  MaxFaults = 1
SPECIFICATION Spec
INVARIANTS ReportTrue NothingLeft
PROPERTY AllEnds
CHECK_DEADLOCK FALSE
