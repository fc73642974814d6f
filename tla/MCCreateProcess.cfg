SPECIFICATION Spec
CONSTANTS
  Radix = 5
  PpnLimit = 125
  KernelBase = 50
  FreeRam = 51
  FreeRamEnd = 125
  UserBase = 6
  Virtio = 11
  NumDevices = 2
  HeapOrder <- MCHeapOrder
  ImageSizes <- MCImageSizes
  MaxStores = 2
INVARIANTS
  Isolation
  KernelEverywhere
  ImageLoaded
PROPERTIES
  CreationEnds
