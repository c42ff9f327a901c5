CONSTANTS
  t1 = t1
  t2 = t2
  t3 = t3
  p1 = p1
  p2 = p2
  p3 = p3
  a1 = a1
  b1 = b1
  f1 = f1
  Never = Never
  None = None
  Tasks = {t1}
  Leaves = {p1, p2}
  Anys = {}
  Alls = {b1}
  Fds = {f1}
  FdOf <- OneFd
  Waits <- NoWaits
  AnyWaits <- NoWaits
  AllWaits <- NoWaits
  Allow = {}
SPECIFICATION Spec
INVARIANTS
  AllWokenComplete
\* Tasks may wait for something that never comes: the loop then blocks in
\* epoll_wait for good.
CHECK_DEADLOCK FALSE
