\* One asset, two reservations, one person, two requests at a time.
SPECIFICATION DomainsSpec
CONSTANTS
  Editors = {q1, q2}
  Assets = {a}
  Slots = {s1, s2}
  People = {p}
  None = None
  Horizon = 2
  MaxEdits = 6
INVARIANTS
  DomainsTypeOK
  Exclusive
PROPERTIES
  JudgedAsRead
CHECK_DEADLOCK FALSE
