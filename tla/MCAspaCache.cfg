\* Four updates with three paths, two requests, three ASPA PDUs.
SPECIFICATION Spec
CONSTANTS
  AS = {1, 3, 12}
  Extension <- MCExtension
  Offer <- MCOffer
  PathId = {"long", "set", "empty"}
  List <- MCList
  IsSequence <- MCIsSequence
  Update = {"u1", "u2", "u3", "u4"}
  PathOf <- MCPathOf
  FromProvider = {"u2"}
  MaxPdus = 3
  MaxRequests = 2
  MaxTime = 2
INVARIANTS TypeOK ValidationIsDraft ResultsAreCurrent NoneIsForgotten
CHECK_DEADLOCK FALSE
