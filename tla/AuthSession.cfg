CONSTANTS
  Accounts = {a1}
  Sessions = {s1, s2, s3}
  Requests = {q1, q2}
  NoAccount = NoAccount
  NoSession = NoSession
  Nobody = Nobody
  MaxLogins = 1
  Lifetime = 3
  Retention = 4
SPECIFICATION FairSpec
INVARIANTS
  EndedLineageIsDead
  DeletionEndsSessions
  AncestorsKept
PROPERTIES
  RedeemedOnce
  RequestsEnd
CHECK_DEADLOCK FALSE
