CONSTANTS
  Bytes = {0, 1, 2, 3, 4, 5}
  Pad = 0
  FFPayload = 3
  CFPayload = 3
  SFMax = 3
  FFMax = 6
  SeqMax = 2
  Nads = {"own", "functional"}
  FunctionalNad = "functional"
  DefaultNad = "own"
  Frames = {}
  DataBytes = {0, 1, 2}
  Blank = 0
  BufferSize = 3
  MaxBlock = 2
  ByteSize = 3
  WordSize = 8
  RegionMax = 1
  Ranges <- MC_Ranges
  Addresses = {}
  Sizes = {}
  Blocks = {}
  Images = {}
  Image <- MC_Image
  Piece = 2
  Address = 0
  OpenSid = 3
  DataSid = 4
  ExitSid = 5
  MaxFaults = 6
  Tolerated = 2
  MaxTries = 2
  MaxRestarts = 2
SPECIFICATION DownloadSpec
INVARIANT DownloadWhole
CHECK_DEADLOCK FALSE
