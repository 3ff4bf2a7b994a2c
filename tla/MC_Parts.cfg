CONSTANTS
  Bytes = {0}
  Pad = 0
  FFPayload = 5
  CFPayload = 6
  SFMax = 6
  FFMax = 4095
  SeqMax = 15
  U8 = 256
  Lengths <- MC_Messages
  Capacities = {0, 1, 2, 8, 43, 44}
  Levels = {l1, l2, l3}
  MaxAttempts = 2
  DataBytes = {0, 1, 2}
  Blank = 0
  BufferSize = 4
  MaxBlock = 2
  ByteSize = 3
  WordSize = 8
  RegionMax = 2
  Ranges <- MC_Ranges
  Addresses = {0, 4, 6, 7}
  Sizes = {0, 2, 3, 4, 5}
  Blocks <- MC_Blocks
  Images <- MC_Images
  Instances = 2
  ClockSize = 5
  LimitB = 3
  LimitA = 1
  LastTime = 9
  Millisecond = 3
  Timeouts = {0, 1, 2}
  LastTick = 14
  UartBytes = {0, 1}
  Wanted = {0, 1, 3}
  Outgoing <- MC_Outgoing
  MaxBytes = 4
  NvmSize = 3
  NvmBytes = {0, 1, 2}
  ErasedByte = 2
  FreshByte = 0
  NvmAddresses = {0, 1, 2, 3}
  NvmLengths = {0, 1, 2, 3}
SPECIFICATION Spec
INVARIANT TypeOK
INVARIANT PiecesFit
INVARIANT GuessesBounded
INVARIANT SecurityCoherent
INVARIANT BytesConserved
INVARIANT StoredInOrder
INVARIANT TransferInRegion
INVARIANT TimeoutExact
INVARIANT StreamConserved
INVARIANT NvmKeeps
PROPERTY ReturnsWhole
PROPERTY DelayRefusesAll
PROPERTY DelayEnds
PROPERTY TimerIsOneShot
CHECK_DEADLOCK FALSE
