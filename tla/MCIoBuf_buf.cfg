CONSTANTS
  Root = Root
  v1 = v1
  v2 = v2
  Views = {v1, v2}
  Shape <- TwoViews
  Cap = 3
  Data <- ShortData
  Offsets <- NearOffsets
  Bytes = {0, 1}
  Reach = 4
  Unknown = Unknown
  Spoilt = Spoilt
SPECIFICATION Spec
INVARIANTS
  TypeOK
  PartsKept
  ReadsWhatWasWritten
