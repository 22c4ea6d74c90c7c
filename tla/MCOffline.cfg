\* Two identities of commands, two Worlds, two contexts, one replay while another is at work.
SPECIFICATION Spec
CONSTANTS
  Commands = {k1, k2}
  Worlds = {w1, w2}
  Contexts = {a, b}
  Requests = {r1, r2}
  Nothing = Nothing
  BatchSize = 2
  MaxFaults = 1
  MaxChanges = 1
INVARIANTS
  TypeOK
  AppliedAtMostOnce
  NothingLost
PROPERTY
  EveryCommandAnswered
CHECK_DEADLOCK FALSE
