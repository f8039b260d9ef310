CONSTANTS
  MaxInts = 3
  MaxChunks = 1
  HdrCap = 9
  LineCap = 2
  BodyCap = 3
  ReadCap = 3
  PipeCap = 1
  MaxOut = 2
SPECIFICATION ProcessSpec
INVARIANTS ProcessTypeOK RunTwiceOnlyOnBrokenOutput LostOnlyWithoutAnswer ExitIsReplied MarkersCleared ReadsWhatWasSent AnswerIsWhole
PROPERTIES ClosedCallsEnd InterruptEnds RequestEnds
CHECK_DEADLOCK FALSE
