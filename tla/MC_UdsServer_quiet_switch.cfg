CONSTANTS
  Levels = {l1}
  MaxAttempts = 1
  DataBytes = {0, 1}
  Blank = 0
  BufferSize = 2
  MaxBlock = 2
  ByteSize = 3
  WordSize = 4
  RegionMax = 1
  Ranges <- MC_Ranges
  Addresses = {0}
  Sizes = {2, 3}
  Blocks <- MC_Blocks
  Images = {}
  RoutineMax = 3
  Routines <- MC_Routines
  Defaults <- MC_Defaults
  MaySuppress = TRUE
SPECIFICATION ServerSpec
PROPERTY SwitchRelocks
