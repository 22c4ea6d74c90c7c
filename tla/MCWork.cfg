\* A task, an ordinary and a restricted case, two concurrent requests at a time.
SPECIFICATION Spec
CONSTANTS
  TaskIds = {t}
  CaseIds = {c, r}
  RestrictedCases = {r}
  Requests = {q1, q2}
  Nothing = Nothing
  MaxRequests = 3
  Ahead = 0
  MaxFaults = 1
  EscalatesInWorld = "yes"
INVARIANTS
  WorkTypeOK
  ShelterKept
PROPERTIES
  NoLostUpdate
  NoWorkForArchived
  OverdueEscalated
  MessagesServed
CHECK_DEADLOCK FALSE
