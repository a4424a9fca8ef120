CONSTANTS
  a1 = a1  a2 = a2  b1 = b1  A = A  B = B
  Events = {a1, a2}
  PhoneOf <- MCPhoneOf
  NoEvent = NoEvent
  Manual = {}
  Workers = {w1, w2}
  Handlers = {h1}
  LegacyQueue <- MCNoLegacy
  MaxBatches = 2
  Debounce = 1
  Lease = 1
  RetryDelay <- MCRetryDelay
  MaxLate = 0
  ScanLimit = 2
  Isolated = FALSE
  RenewsOnTime = FALSE
SPECIFICATION Spec
SYMMETRY WorkerSymmetry
INVARIANTS
  UniqueAttempt
  OlderBatchesAttempted
