SPECIFICATION FairSpec
CONSTANTS
  Patchers = {p1}
  Droppable = {}
  EventWorkers = {}
  DriftWorkers = {d1}
  NoTask = NoTask
  stability = stability
  energy = energy
  clarity = clarity
  BaseDims = {stability, energy}
  DerivedDims = {clarity}
  RangeMin <- MCRangeMin
  RangeMax <- MCRangeMax
  Baseline <- MCBaseline
  Default <- MCDefault
  MaxDelta <- MCMaxDelta
  DriftDiv <- MCDriftDiv
  DriftOrder <- MCDriftOrder
  Derive <- MCDerive
  PatchRequests <- MCPatches
  DeltaBatches <- MCBatches
  MaxHistory = 2
  MaxCalls = 2
PROPERTY
  CallsReturn
CHECK_DEADLOCK FALSE
