\* Two clients with room for both, answers through the send queue.
SPECIFICATION MCSpec
CONSTANTS
  Client = {c1, c2}
  UseSendQueue = TRUE
  Receipts = {TRUE, FALSE}
  MinClients = 2
  MaxRequests = 2
  MaxChanges = 2
INVARIANTS StoredOriginIsCurrent ListenersAreUpToDate
PROPERTY ReceiptLeadsToValidation
CHECK_DEADLOCK FALSE
