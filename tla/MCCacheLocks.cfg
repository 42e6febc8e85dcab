\* Nobody disconnects.
SPECIFICATION LocksSpec
CONSTANTS
  handler = handler
  command = command
  rpki = rpki
  reader = reader
  Thread <- ConnectedThreads
  Jobs <- ConnectedJobs
INVARIANT SomebodyProceeds
