CONSTANTS
  a1 = a1
  a2 = a2
  a3 = a3
  repo = repo
  Proc <- MCProc
  Path <- MCPath
  Candidates <- MCCandidates
  Attempts <- MCAttempts
  Unopenable <- None
  Unlockable <- None
  Unremovable <- None
SPECIFICATION Spec
INVARIANT OneHolder
