SPECIFICATION Spec
CONSTANTS
  MaxOrder = 2
  BlockPages <- MCBlockPages
  HeapStart = 8
  HeapPages = 7
  PageSize = 2
  MaxReq = 5
INVARIANTS
  CoalescesBack
