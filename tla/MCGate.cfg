\* A process with a single approval step, resumed as the code resumes it.
SPECIFICATION Spec
CONSTANTS
  Processes = {p}
  Compensations = {}
  Workers = {w1}
  Nobody = Nobody
  Plans <- GatePlan
  MaxLength = 1
  MaxDecisions = 2
  MaxFaults = 1
  ResumedInWorld = "no"
PROPERTY
  GateReached
CHECK_DEADLOCK FALSE
