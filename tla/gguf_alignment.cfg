SPECIFICATION Spec
CONSTANTS
  Procs = {me, other}
  Me = me
  NoProc = none
  MaxStarts <- Starts
  Files <- AlignedFiles
  Cuts = {0, 1, 20, 400}
  KeyBytes = 9
  MaxDims = 2
  DefaultAlignment = 8
  U64Max = 5000
  TypeInfo <- SmallTypes
  TableSlack = 1
  Hash <- SmallHash
  Options <- AlignedOptions
  FloatBytes = 1
  ArenaFloats = 1
  FreeMemory = {0, 40, 60, 80, 200}
  Reserve = 5
  DefaultCtx = 9
  DefaultLow = 6
  Granule = 4
INVARIANTS AlignmentRecorded
