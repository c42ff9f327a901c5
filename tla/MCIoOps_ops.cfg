CONSTANTS
  o1 = o1
  t1 = t1
  None = None
  Tasks = {o1, t1}
  Ops = {o1}
  Sizes = {0, 2}
  MaxAvail = 3
SPECIFICATION Spec
INVARIANTS
  TypeOK
  NothingTakenUnseen
  DoneIsTrue
PROPERTIES
  ReadyReturns
  WaitingReturns
\* Operations without a deadline may wait for good.
CHECK_DEADLOCK FALSE
