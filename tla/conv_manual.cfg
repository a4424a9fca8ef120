\* A hand-written reply within a window, photos, media and a WhatsApp command.
SPECIFICATION Spec
CONSTANTS
  client = client
  owner = owner
  w1 = w1
  w2 = w2
  Phones <- MCPhones
  Admins = {owner}
  AdminRole = "owner"
  Messages <- MCMessages
  Kind <- MCKind
  Command <- MCCommand
  Turns <- ThreeTurns
  PhoneOf <- WithOwner
  Payload <- ManualPayload
  Workers = {w1}
  Photos <- MCPhotos
  Decisions <- MCDecisions
  MaxAttempts = 2
  Targets = {client}
  Budget = 0
INVARIANTS
  AnsweredOnce
  FinishedTurnsRecorded
  ManualReplyHoldsFirstAttempt
CHECK_DEADLOCK FALSE
