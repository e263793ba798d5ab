SPECIFICATION LoadingFairSpec
CONSTANTS
  big = big
  mid = mid
  vae = vae
  tiny = tiny
  NoModel = NoModel
  Model <- MCModel
  GpuMem <- MCGpuMem
  EagerModels <- MCEager
  ClassOf <- MCClassOf
  GpuMemLimit = 6
INVARIANTS
  MemoryBound
  WeightsAccounted
  AssertsHold
  GpuHoldsCounted
PROPERTIES
  ActiveKeepsWeights
  InsufficientIsTrue
  LoadEnds
  ImplementsLru
CHECK_DEADLOCK FALSE
