CONSTANTS
  t1 = t1
  t2 = t2
  t3 = t3
  p1 = p1
  p2 = p2
  p3 = p3
  a1 = a1
  b1 = b1
  f1 = f1
  Never = Never
  None = None
  Tasks = {t1}
  Leaves = {p1, p2}
  Anys = {a1}
  Alls = {}
  Fds = {}
  FdOf <- NoFds
  Waits <- NoWaits
  AnyWaits <- ShortWaits
  AllWaits <- NoWaits
  Allow = {}
SPECIFICATION FairSpec
PROPERTIES
  AnyTimerResumes
\* Tasks may wait for something that never comes: the loop then blocks in
\* epoll_wait for good.
CHECK_DEADLOCK FALSE
