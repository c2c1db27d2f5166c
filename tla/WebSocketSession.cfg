SPECIFICATION Spec
CONSTANTS
  CheapPrepend = 8
  InitialSize = 1024
  ExtraSize = 65536
  Frames <- MCFrames
  MaxFrames = 4
  RequestSize = 200
  Limit = 70000
  CutPoints <- MCCutPoints
INVARIANTS TypeOK BytesInPlace FramesInStep AnsweredInOrder BacklogIsCrowding
