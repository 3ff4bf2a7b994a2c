CONSTANTS
  Levels = {l1}
  MaxAttempts = 1
  DataBytes = {0, 1}
  Blank = 0
  BufferSize = 2
  MaxBlock = 2
  ByteSize = 3
  WordSize = 4
  RegionMax = 1
  Ranges <- MC_Ranges
  Addresses = {0}
  Sizes = {2, 3}
  Blocks <- MC_Blocks
  Images = {}
  RoutineMax = 3
  Routines <- MC_Routines
  Defaults <- MC_Defaults
  MaySuppress = FALSE
  Dtcs = {65793, 2294017}
  Bits = {1}
  Contents <- MC_Contents
  RecordMax = 1
  DbSize = 1
  Groups = {16777215, 2}
  DefaultRegion <- MC_DefaultRegion
  Regions <- MC_Regions
  RegionsMax = 2
  MemBytes = {0, 1}
  Erased = 0
  Starts = {0, 1, 2}
  Lengths = {1, 2}
  AddressSpace = 8
  MaxRead = 2
  Targets = {1, 2}
  Definitions <- MC_Definitions
  SourceMax = 1
  DynamicMax = 1
  DefaultDids <- MC_DefaultDids
  Dids <- MC_Dids
  UnknownDids = {4}
  DidMax = 2
  Values <- MC_Values
  BlankByte = 0
  RspMax = 6
  Scaling = 1
  PeriodicIds = {1}
  PeriodicMax = 1
  OverrideMax = 1
  ValueMax = 1
  EventMax = 2
  EventDataMax = 2
  LengthSize = 4
  EventTypes = {1, 2}
  EventData <- MC_EventData
SPECIFICATION Spec
PROPERTY OverridesEndWithSession
