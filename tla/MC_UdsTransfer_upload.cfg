CONSTANTS
  DataBytes = {0, 1, 2}
  Blank = 0
  BufferSize = 4
  MaxBlock = 2
  ByteSize = 3
  WordSize = 8
  RegionMax = 2
  Ranges <- MC_Ranges
  Addresses = {0, 4, 6, 7}
  Sizes = {0, 2, 3, 4, 5}
  Blocks <- MC_Blocks
  Images <- MC_LongImages
SPECIFICATION TransferSpec
INVARIANT UploadFaithful
