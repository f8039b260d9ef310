CONSTANTS
  Panes = 2
  MaxCommits = 1
  MaxDirty = 1
  Strategy = "none"
  CliStrategies = {"octopus"}
  Autoclean = TRUE
  KeepMergeRef = FALSE
  OrigDetached = FALSE
  CleanModes = {"default", "keep-dirty", "auto", "force"}
  UserEdits = 0
  BaseMoves = TRUE
  Launcher = Launcher
  Cli = Cli
SPECIFICATION Spec
PROPERTIES CleanSparesWork DisposedWorkWasMerged
CHECK_DEADLOCK FALSE
