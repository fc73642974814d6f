SPECIFICATION Spec
CONSTANTS
  MaxOrder = 2
  BlockPages <- MCBlockPages
  HeapStart = 5
  HeapPages = 7
  PageSize = 2
  MaxReq = 5
INVARIANTS
  TypeOK
  NoSharedPage
  NoLeak
  MemsetInside
  NoFreeBuddies
PROPERTIES
  CallsEnd
  ImplementsPageHeap
