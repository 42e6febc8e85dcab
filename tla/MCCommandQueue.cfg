\* Two workers, commands in any order with oversized ones in between, and
\* shutdown at any moment.
CONSTANTS
  Worker = {w1, w2}
  MayReject = TRUE
  MayStop = TRUE
  MaxCommands = 5
SPECIFICATION FairSpec
INVARIANTS TypeOK TotalIsListSize CursorIsOldest
PROPERTIES ImplementsFifoChannel EveryCommandIsProcessed ShutdownCompletes
CHECK_DEADLOCK FALSE
