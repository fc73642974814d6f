SPECIFICATION Spec
CONSTANTS
  Data = {z, a}
  Zero = z
  Capacity = 2
  VIRTQ_ENTRY_NUM = 4
  IdxMod = 8
  InOrder = FALSE
INVARIANT
  DeviceSeesCall
