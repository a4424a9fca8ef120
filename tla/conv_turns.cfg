\* Two workers on two turns of one customer, one panel action.
SPECIFICATION Spec
CONSTANTS
  client = client
  owner = owner
  w1 = w1
  w2 = w2
  Phones <- MCPhones
  Admins = {owner}
  AdminRole = "owner"
  Messages <- MCMessages
  Kind <- MCKind
  Command <- MCCommand
  Turns <- TwoTurns
  PhoneOf <- ClientOnly
  Payload <- TwoTurnsPayload
  Workers = {w1, w2}
  Photos <- MCPhotos
  Decisions <- WithoutPhotos
  MaxAttempts = 2
  Targets = {client}
  Budget = 1
SYMMETRY Interchangeable
INVARIANTS
  NotifiedOncePerHandoff
  OneAnswerCrossesPerWorker
  FinishedTurnsAnswered
PROPERTY
  ImplementsHandover
CHECK_DEADLOCK FALSE
