CONSTANTS
  first = first
  again = again
  sig = sig
  i1 = i1
  NoExec = NoExec
  Exec <- MCExec
  Signal <- MCSignal
  Id <- MCId
  IdOf <- MCIdOf
  Streaming <- NoneOfThem
  SignalOf <- MCSignalOf
  FallbackDir <- NoneOfThem
  MaxConns = 2
  ChannelCap = 1
  MaxOutput = 0
SPECIFICATION Spec
INVARIANTS RunningIsSignallable RegistryIsCurrent
PROPERTIES DroppedOnlyWhenFull
