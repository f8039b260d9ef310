CONSTANTS
  p1 = p1
  p2 = p2
  rust = rust
  Node = node
  Pane <- MCPane
  Kinds <- MCKinds
  HasTool <- MCHasTool
  MaxStarts = 2
  MaxEvents = 1
  MaxLock = 2
SPECIFICATION Spec
INVARIANTS TypeOK SidecarsOutliveSiblings FailureLeavesNothing OverlayIsCurrent FoundWhereItIs SocketIsOwn
CHECK_DEADLOCK FALSE
