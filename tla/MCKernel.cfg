\* The default World and another; one manager; releases up to the third.
SPECIFICATION Spec
CONSTANTS
  Worlds = {main, w}
  Main = main
  Users = {u}
  Admins = {}
  Managers = {u}
  Requests = {q1, q2}
  Nothing = Nothing
  MaxReleases = 3
  MaxRequests = 6
  Keys = {k1, k2}
  Authorities = {a1}
  Contents = {c1, c2}
  Decisions = {d1}
  Envelopes = {e1, e2}
INVARIANTS
  TypeOK
  ReleaseLine
  OneGeneration
  ActsOnce
SYMMETRY Interchangeable
CHECK_DEADLOCK FALSE
