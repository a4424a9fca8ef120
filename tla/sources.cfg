\* A search in the web process and a list there or a forced refresh in the worker.
SPECIFICATION FairSpec
CONSTANTS
  web = web  worker = worker  q1 = q1  q2 = q2
  Processes = {web, worker}
  Requests = {q1, q2}
  Uses <- MCUses
  TTL = 1
  FetchTime = 1
  EmptyOnes = {2}
  KeptFiles = {{"inventory"}}
  Free = Free
  MaxTime = 3
  MaxVersion = 2
  MaxCrashes = 1
INVARIANTS
  AnswersAreCurrent
  EmptyIsVerified
PROPERTIES
  RequestsEnd
  ImplementsRegister
CHECK_DEADLOCK FALSE
