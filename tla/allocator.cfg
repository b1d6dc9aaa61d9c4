SPECIFICATION Spec
CONSTANTS
  Blocks = {k, b1, b2, b3}
  Keeper = k
  Null = Null
  Class <- ClassSizes
  NumLists = 2
  BlockHdr = 5
  ChunkHdr = 2
  InitBlock = 8
  MaxBlock = 12
  Sizes = {1, 2, 3}
SYMMETRY BlockSymmetry
INVARIANTS HeapSound
