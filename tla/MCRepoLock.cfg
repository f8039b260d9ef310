CONSTANTS
  a1 = a1
  a2 = a2
  a3 = a3
  m1 = m1
  m2 = m2
  repo = repo
  runtime = runtime
  merge = merge
  Proc <- MCProc
  Path <- MCPath
  Candidates <- MCCandidates
  Attempts <- MCAttempts
  Unopenable <- MCUnopenable
  Unlockable <- MCUnlockable
  Unremovable <- NoPath
SPECIFICATION Spec
INVARIANTS TypeOK ExclusionUntilRemoval NoLeftoverFile
PROPERTIES RefusedOnlyByALiveHolder AcquireEnds
