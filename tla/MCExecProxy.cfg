CONSTANTS
  v2 = v2
  sig = sig
  i1 = i1
  NoExec = NoExec
  Exec <- MCExec
  Signal <- MCSignal
  Id <- MCId
  IdOf <- MCIdOf
  Streaming <- MCExec
  SignalOf <- MCSignalOf
  FallbackDir <- NoneOfThem
  MaxConns = 2
  ChannelCap = 1
  MaxOutput = 2
SPECIFICATION Spec
INVARIANTS TypeOK NoOrphan TimeoutIsReported
PROPERTIES KeepsPromise ExecEnds
