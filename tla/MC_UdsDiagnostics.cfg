CONSTANTS
  Dtcs = {65793, 131586, 2294017}
  Bits = {1}
  Contents <- MC_Contents
  RecordMax = 1
  DbSize = 2
  Groups = {16777215, 0, 2, 2097152}
  DefaultRegion <- MC_DefaultRegion
  Regions <- MC_Regions
  RegionsMax = 2
  MemBytes = {0, 1}
  Erased = 0
  Starts = {0, 1, 2, 3, 7}
  Lengths = {0, 1, 2, 3}
  AddressSpace = 8
  MaxRead = 2
  Targets = {1, 2, 3}
  Definitions <- MC_Definitions
  SourceMax = 2
  DynamicMax = 2
  DefaultDids <- MC_DefaultDids
  Dids <- MC_Dids
  UnknownDids = {4}
  DidMax = 3
  Values <- MC_Values
  BlankByte = 0
  RspMax = 6
  Scaling = 1
  PeriodicIds = {1, 2}
  PeriodicMax = 1
  OverrideMax = 2
  ValueMax = 2
  Sids = {16, 34}
  Masks <- MC_Masks
  Delays = {0, 2}
  TableMax = 2
  MsSize = 3
  LastMs = 5
SPECIFICATION Spec
INVARIANT TypeOK
 
INVARIANT DidsConsistent
 
 
PROPERTY OverridesAreMap
PROPERTY DispatchOutcome
