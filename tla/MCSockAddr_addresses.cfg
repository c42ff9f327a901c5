CONSTANTS
  s1 = s1
  s2 = s2
  None = None
  Malformed = Malformed
  Slots = {s1, s2}
  Texts <- SomeTexts
  Structs <- SomeStructs
  Prefixes <- FewPrefixes
  UnixNames <- SomeNames
  Lengths <- SomeLengths
  RangeTexts <- SomeRanges
SPECIFICATION Spec
SYMMETRY Symmetric
INVARIANTS
  TypeOK
  ContainsByPrefix
  
