SPECIFICATION Spec
CONSTANTS
  MaxOrder = 2
  BlockPages <- MCBlockPages
  HeapStart = 5
  HeapPages = 8
  PageSize = 2
  MaxReq = 5
INVARIANT
  CoalescesBack
