\* A task overdue in progress, escalated by the worker as the code does it.
SPECIFICATION Spec
CONSTANTS
  TaskIds = {t}
  CaseIds = {}
  RestrictedCases = {}
  Requests = {q}
  Nothing = Nothing
  MaxRequests = 3
  Ahead = 0
  MaxFaults = 0
  EscalatesInWorld = "no"
PROPERTY
  OverdueEscalated
CHECK_DEADLOCK FALSE
