CONSTANTS
  MaxCapture = 2
  CaptureChunk = 2
  MaxProbe = 1
  ProbeChunk = 2
  CopyChunk = 2
  Window = 1
  Total = 3
SPECIFICATION FairStreamSpec
INVARIANTS
  StreamTypeOK
  UpstreamSeesClientStream
  ClientSeesOneBanner
  BudgetDecides
  EofAfterAllData
PROPERTIES
  SentIsDelivered
  RelayEnds
