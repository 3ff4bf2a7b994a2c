CONSTANTS
  Bytes = {0, 1, 2, 3}
  Pad = 0
  FFPayload = 1
  CFPayload = 2
  SFMax = 1
  FFMax = 8
  SeqMax = 2
  Nads = {"own", "functional", "other"}
  FunctionalNad = "functional"
  DefaultNad = "own"
  Frames <- MC_Frames
  Messages <- MC_Messages
  ByteSize = 4
  BlockSizes = {0, 1, 2}
SPECIFICATION ContextSpec
 
INVARIANT StreamWhole
INVARIANT SequenceTracksStream
INVARIANT EndsComplete
INVARIANT BufferFits
INVARIANT SequenceTracksBuffer
