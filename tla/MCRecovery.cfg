\* A person is invited and presents the link; the record of it has no World.
SPECIFICATION Spec
CONSTANTS
  Users = {u}
  Requests = {q1}
  Links = {l1}
  Sessions = {s1}
  Nothing = Nothing
  MaxRequests = 2
  RecoversInWorld = "no"
PROPERTIES
  LinkHonoured
CHECK_DEADLOCK FALSE
