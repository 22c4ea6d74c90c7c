\* A process of mixed steps and its compensation, one worker loop, two decisions.
SPECIFICATION Spec
CONSTANTS
  Processes = {p, c}
  Compensations = {c}
  Workers = {w1}
  Nobody = Nobody
  Plans <- MixedPlans
  MaxLength = 3
  MaxDecisions = 2
  MaxFaults = 2
  ResumedInWorld = "yes"
INVARIANTS
  TypeOK
  CompletedInOrder
  IntentsTracked
  CompensationSound
PROPERTIES
  EndIsFinal
  DecidedAsSeen
  ImplementsLife
  NeverHangs
CHECK_DEADLOCK FALSE
