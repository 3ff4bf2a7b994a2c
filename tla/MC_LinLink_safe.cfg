CONSTANTS
  Bytes = {0, 1, 2, 3, 4, 5, 6, 7, 8, 9}
  Pad = 0
  FFPayload = 1
  CFPayload = 2
  SFMax = 1
  FFMax = 9
  SeqMax = 2
  Nads = {"own", "functional"}
  FunctionalNad = "functional"
  DefaultNad = "own"
  Frames = {}
  Nad = "own"
  Messages <- MC_Messages
  Links <- MC_Links
  ByteSize = 4
  BlockSizes = {0, 1, 2}
  MaxMessages = 2
  MaxFrames = 2
SPECIFICATION FairSpec
PROPERTY DeliversInOrder
PROPERTY EveryMessageArrives
CHECK_DEADLOCK FALSE
