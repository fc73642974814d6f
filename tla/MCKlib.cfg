SPECIFICATION Spec
CONSTANTS
  IntMod = 32
  LongMod = 1024
  Ints <- MCInts
  Longs = {0, 10, 31, 1023}
  Texts <- MCTexts
  Letters <- MCLetters
  FormatLen = 4
  MemSize = 10
  Old <- MCOld
  Parts <- MCParts
  Outer <- MCOuter
  Inner <- MCInner
INVARIANTS
  PrintsFormat
  StoresInPlace
  FindsEveryWord
