CONSTANTS
  r1 = r1
  r2 = r2
  f1 = f1
  f2 = f2
  None = None
  Roots = {r1, r2}
  Funcs = {f1, f2}
SPECIFICATION Spec
INVARIANTS
  TypeOK
  NoLostFrame
  HandlesAlive
PROPERTIES
  DestroyedWhenDone
  NestingIsTransparent
  DoneIsReaped
\* run() ends, and nothing happens after it.
CHECK_DEADLOCK FALSE
