\* Three sends in two processes, a new callback, crashes and an expiring lease.
SPECIFICATION FairSpec
CONSTANTS
  s1 = s1  s2 = s2  s3 = s3  e1 = e1  e2 = e2  web1 = web1  web2 = web2
  Webs = {web1, web2}
  Senders = {s1, s2, s3}
  Events = {e1}
  WebOf <- MCWebOf
  Seen <- MCSeen
  Lease = 1
  NoOne = NoOne
  MaxTime = 1
INVARIANTS
  RecoverySentOnce
PROPERTIES
  LiveClaimIsFenced
  RequestsEnd
CHECK_DEADLOCK FALSE
