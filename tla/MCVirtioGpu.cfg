SPECIFICATION Spec
CONSTANTS
  Width = 4
  Height = 5
  Side = 2
  UIntMod = 8
  IdxMod = 4
INVARIANTS
  SquareInside
  ChainFits
  NoTearing
  FlushShowsFrame
PROPERTY
  FramesFinish
