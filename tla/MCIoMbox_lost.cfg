CONSTANTS
  t1 = t1
  t2 = t2
  t3 = t3
  None = None
  Tasks = {t1, t2}
  Capacity = 2
  MaxSent = 3
  Allow = {}
SPECIFICATION Spec
PROPERTIES
  DeliveredIsReceived
\* Readers without a deadline may wait for a message that never comes: the loop
\* then blocks in epoll_wait for good.
CHECK_DEADLOCK FALSE
