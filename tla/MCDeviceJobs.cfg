SPECIFICATION JobsSpec
CONSTANTS
  qwenEncoder = qwenEncoder
  qwenVae = qwenVae
  qwenTransformer = qwenTransformer
  wanEncoder = wanEncoder
  wanVae = wanVae
  wanHigh = wanHigh
  wanLow = wanLow
  dino = dino
  backbone = backbone
  decoder = decoder
  normal = normal
  NoModel = NoModel
  Model <- ShippedModel
  GpuMem <- ShippedGpuMem
  EagerModels <- ShippedEager
  GpuMemLimit = 60
  Scripts <- ShippedScripts
  Blocks <- ShippedBlocks
INVARIANTS
  ComputesWhileActive
  MemorySuffices
  ActiveIsEntered
CHECK_DEADLOCK FALSE
