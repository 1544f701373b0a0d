SPECIFICATION Spec
CONSTANTS
  Byte = {0, 1}
  Size = 5
INVARIANTS
  RegionsApart EmptyIsWhole
PROPERTIES
  IsFifo
