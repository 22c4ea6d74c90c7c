\* One signal with up to two messages about it, one notification, two competing
\* workers; a message is dead after one failed attempt and comes back by a redrive.
SPECIFICATION Spec
CONSTANTS
  Messages = {q1, q2, n1}
  Notices = {n1}
  Signals = {s1}
  Workers = {w1, w2}
  Nobody = Nobody
  MaxAttempts = 1
  MaxFaults = 1
INVARIANTS
  TypeOK
  RunsOnce
  NoticesTrue
PROPERTIES
  SignalsAnswered
CHECK_DEADLOCK FALSE
