SPECIFICATION FairSpec
CONSTANTS
  Patchers = {}
  Droppable = {}
  EventWorkers = {e1, e2}
  DriftWorkers = {d1}
  NoTask = NoTask
  stability = stability
  energy = energy
  clarity = clarity
  BaseDims = {stability, energy}
  DerivedDims = {clarity}
  RangeMin <- MCRangeMin
  RangeMax <- MCRangeMax
  Baseline <- MCBaseline
  Default <- MCDefault
  MaxDelta <- MCMaxDelta
  DriftDiv <- MCDriftDiv
  DriftOrder <- MCDriftOrder
  Derive <- MCDerive
  PatchRequests <- MCPatches
  DeltaBatches <- MCBatches
  MaxHistory = 3
  MaxCalls = 4
INVARIANTS
  TypeOK
  HistoryIsLastChanges
  LogExplainsValues
PROPERTY
  CallsReturn
