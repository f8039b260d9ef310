CONSTANTS
  l1 = l1
  l2 = l2
  NoImage = NoImage
  Launcher = {l1, l2}
  Settings <- MCSettings
  LocalAtFirst <- MCLocal
  Projects <- MCProjects
  MaxStarts = 2
  MaxPrunes = 1
SPECIFICATION StartSpec
INVARIANTS StartTypeOK LocalImageIsRun InvalidationHolds
PROPERTIES LockKept
SYMMETRY MCSymmetry
CHECK_DEADLOCK FALSE
