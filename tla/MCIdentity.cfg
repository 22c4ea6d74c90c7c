\* One account, two requests at a time, two links and two sessions.
SPECIFICATION Spec
CONSTANTS
  Users = {u}
  Requests = {q1, q2}
  Links = {l1, l2}
  Sessions = {s1, s2}
  Nothing = Nothing
  MaxRequests = 7
  RecoversInWorld = "yes"
INVARIANTS
  TypeOK
  LinksSingle
PROPERTIES
  PasswordEarned
  SessionsFresh
CHECK_DEADLOCK FALSE
