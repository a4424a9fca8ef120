CONSTANTS
  a1 = a1  a2 = a2  b1 = b1  A = A  B = B
  Events = {a1, b1}
  PhoneOf <- MCPhoneOf
  NoEvent = NoEvent
  Manual = {}
  Workers = {w1, w2}
  Handlers = {h1}
  LegacyQueue <- MCOneLegacy
  MaxBatches = 1
  Debounce = 1
  Lease = 2
  RetryDelay <- MCRetryDelay
  MaxLate = 0
  ScanLimit = 2
  Isolated = TRUE
  RenewsOnTime = FALSE
SPECIFICATION FairSpec
PROPERTIES
  CustomerMessagesResolved
