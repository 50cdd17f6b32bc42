SPECIFICATION Spec
CONSTANTS
  Patchers = {p1, p2}
  Droppable = {p2}
  EventWorkers = {e1}
  DriftWorkers = {}
  NoTask = NoTask
  stability = stability
  energy = energy
  clarity = clarity
  BaseDims = {stability, energy}
  DerivedDims = {clarity}
  RangeMin <- MCRangeMin
  RangeMax <- MCRangeMax
  Baseline <- MCBaseline
  Default <- MCDefault
  MaxDelta <- MCMaxDelta
  DriftDiv <- MCDriftDiv
  DriftOrder <- MCDriftOrder
  Derive <- MCDerive
  PatchRequests <- MCPatches
  DeltaBatches <- MCBatches
  MaxHistory = 2
  MaxCalls = 4
INVARIANTS
  NumbersDistinct
PROPERTY
  NoNumberLost
CHECK_DEADLOCK FALSE
