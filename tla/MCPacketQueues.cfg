\* Both ways to end the server, at any moment.
SPECIFICATION FairSpec
CONSTANTS
  MaxPackets = 4
  Endings = {"requested", "failed"}
INVARIANTS
  TypeOK
  PipelineIsFifo
  RequestedEndIsClean
PROPERTIES
  EveryPacketIsAnswered
  ShutdownCompletes
CHECK_DEADLOCK FALSE
