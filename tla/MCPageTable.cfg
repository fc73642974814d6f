SPECIFICATION Spec
CONSTANTS
  Radix = 2
  PpnLimit = 16
  Spaces = {s1, s2}
  HeapPages <- MCHeapPages
  Targets = {11}
  FlagSets <- MCFlagSets
  MaxMaps = 3
INVARIANTS
  SoftwareWalkAgrees
  TablesApart
PROPERTIES
  ImplementsAddressSpace
