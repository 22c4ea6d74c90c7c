\* A command, a promotion, and the same command again.
SPECIFICATION Spec
CONSTANTS
  Worlds = {main}
  Main = main
  Users = {u}
  Admins = {}
  Managers = {u}
  Requests = {q1}
  Nothing = Nothing
  MaxReleases = 2
  MaxRequests = 4
  Keys = {k1}
  Authorities = {a1, a2}
  Contents = {c1}
  Decisions = {d1}
  Envelopes = {e1}
PROPERTIES
  ReplayAnswered
CHECK_DEADLOCK FALSE
