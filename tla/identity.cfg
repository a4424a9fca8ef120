\* Callbacks of two contacts under changing numbers.
SPECIFICATION Spec
CONSTANTS
  A = A  B = B
  Store = Store
  Ids <- MCIds
  Twin <- MCTwin
  Contacts = {A, B, Store}
  ContactOf <- MCContactOf
  Events <- MCEvents
  Callback <- MCCallback
  Budget = 1
INVARIANTS
  TypeOK
  ContactsStaySeparate
  AliasesAreFlat
  OneConversationWhenIdle
PROPERTY
  AttendedContactUnanswered
CHECK_DEADLOCK FALSE
