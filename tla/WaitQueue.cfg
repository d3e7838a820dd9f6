SPECIFICATION Spec
CONSTANTS
  Taker = {main, helper, poller}
  Timed = {poller}
  Element = {a, b}
  Nothing = Nothing
  MaxPuts = 3
INVARIANTS
  TypeOK
  NoLostWakeup
PROPERTIES
  IsAtomicQueue
