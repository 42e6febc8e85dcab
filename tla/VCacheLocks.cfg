\* The connection of a client is lost.
SPECIFICATION LocksSpec
CONSTANTS
  handler = handler
  command = command
  rpki = rpki
  reader = reader
  Thread <- AllThreads
  Jobs <- AllJobs
INVARIANT UnregistrationIsNotBlocked
