CONSTANTS
  a1 = a1  a2 = a2  b1 = b1  A = A  B = B
  Events = {a1, a2}
  PhoneOf <- MCPhoneOf
  NoEvent = NoEvent
  Manual = {}
  Workers = {w1, w2}
  Handlers = {h1}
  LegacyQueue <- MCNoLegacy
  MaxBatches = 2
  Debounce = 2
  Lease = 2
  RetryDelay <- MCRetryDelay
  MaxLate = 1
  ScanLimit = 2
  Isolated = TRUE
  RenewsOnTime = FALSE
SPECIFICATION Spec
SYMMETRY WorkerSymmetry
INVARIANTS
  TypeOK
  DoneMeansHandled
  AbandonedOnlyWhenExhausted
PROPERTIES
  DebounceRespected
  ImplementsDelivery
