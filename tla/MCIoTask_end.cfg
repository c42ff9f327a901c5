CONSTANTS
  r1 = r1
  r2 = r2
  f1 = f1
  f2 = f2
  None = None
  Roots = {r1, r2}
  Funcs = {f1, f2}
SPECIFICATION Spec
PROPERTIES
  AllDoneEnds
\* run() ends, and nothing happens after it.
CHECK_DEADLOCK FALSE
