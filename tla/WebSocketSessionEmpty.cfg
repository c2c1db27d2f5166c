SPECIFICATION Spec
CONSTANTS
  CheapPrepend = 8
  InitialSize = 1024
  ExtraSize = 65536
  Frames <- EmptyPing
  MaxFrames = 2
  RequestSize = 200
  Limit = 70000
  CutPoints <- MCCutPoints
INVARIANT FramesInStep
