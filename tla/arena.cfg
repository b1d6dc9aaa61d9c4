SPECIFICATION Spec
CONSTANTS
  Plans <- AllPlans
  UBATCH = 2
  Backends = {"cpu", "cuda"}
INVARIANTS SlotsDisjoint SourcesIntact ReadsLocal NoArenaLeak CapacityEnough
