CONSTANTS
  Panes = 2
  MaxCommits = 1
  MaxDirty = 0
  Strategy = "octopus"
  CliStrategies = {"fetch", "octopus"}
  Autoclean = TRUE
  KeepMergeRef = FALSE
  OrigDetached = FALSE
  CleanModes = {}
  UserEdits = 1
  BaseMoves = FALSE
  Launcher = Launcher
  Cli = Cli
SPECIFICATION Spec
INVARIANTS MergedWorkKept
CHECK_DEADLOCK FALSE
