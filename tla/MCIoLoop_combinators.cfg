CONSTANTS
  t1 = t1
  t2 = t2
  t3 = t3
  p1 = p1
  p2 = p2
  p3 = p3
  a1 = a1
  b1 = b1
  f1 = f1
  Never = Never
  None = None
  Tasks = {t1, t2}
  Leaves = {p1, p2, p3}
  Anys = {a1}
  Alls = {b1}
  Fds = {}
  FdOf <- NoFds
  Waits <- ShortWaits
  AnyWaits <- NoWaits
  AllWaits <- ShortWaits
  Allow = {"restart"}
SPECIFICATION Spec
SYMMETRY CombinatorSymmetry
INVARIANTS
  TypeOK
  NoDoubleResume
  NoDeadHandle
  NoLostWakeup
  NoSpuriousWakeup
  AllWokenComplete
  AllCountExact
  AwaitedIsListed
  NoDanglingParent
PROPERTIES
  RefinesRunQueue
\* Tasks may wait for something that never comes: the loop then blocks in
\* epoll_wait for good.
CHECK_DEADLOCK FALSE
