\* One ROA that is announced, withdrawn and announced again, two session ids, one fault.
SPECIFICATION FairSpec
CONSTANTS
  Roa = {1}
  MaxErrCt = 2
  MaxSession = 1
  MaxCommands = 3
  MaxFaults = 1
INVARIANTS TypeOK NothingIsMissing FollowsExactly
PROPERTY ClientSettles
CHECK_DEADLOCK FALSE
