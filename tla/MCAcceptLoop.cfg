CONSTANTS
  Conn = {c1, c2, c3}
  Max = 2
SPECIFICATION FairLoopSpec
INVARIANTS
  LoopTypeOK
  CountersAgree
  OneStrandedAtShutdown
PROPERTIES
  ImplementsService
  ShutdownCompletes
  ConnectionsAreAnswered
