\* One operation of a process, redelivered and retried, two competing workers.
SPECIFICATION Spec
CONSTANTS
  Messages = {m1}
  Workers = {w1, w2}
  Nobody = Nobody
  ProcessOps = {m1}
  MaxAttempts = 2
  MaxFaults = 2
INVARIANTS
  TypeOK
  NoOrphan
  AcceptedWaits
PROPERTIES
  SuccessIsFinal
  OperationSettles
  ImplementsLifecycle
  ImplementsQueue
CHECK_DEADLOCK FALSE
