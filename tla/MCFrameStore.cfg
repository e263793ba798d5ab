CONSTANTS
  None = None
  Blank = Blank
  m = m
  c = c
  n = n
  u = u
  v = v
  Movies <- MCMovies
  Cuts <- MCCuts
  Norms <- MCNorms
  Uploads <- MCUploads
  Uploaded <- MCUploaded
  Requests <- MCRequests
  Batch = 2
  MaxTries <- MCMaxTries
  MaxFlying = 1
  MinPeriod = 2
  MinStitch = 8
  MinMotion = 1
  MaxArea = 4
  ModValue = 1
  Temporal = 4
  MaxHrSize = 3
  HrThreshold = 2
  MinSide = 2
  MaxSide = 2
  Multiple = 1
SPECIFICATION Spec
INVARIANTS
  LoopsMeet
  FramePerFrame
  FallsAreForeseeable
PROPERTIES
  CalmReadsAreExact
  AnsweredIsReadable
CHECK_DEADLOCK FALSE
