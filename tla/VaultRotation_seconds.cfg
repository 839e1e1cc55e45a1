SPECIFICATION Spec
CONSTANTS
  Device = {d1, d2}
  Record = {r1}
  None = None
  Deleted = Deleted
  MaxKey = 1
  MaxEdit = 1
  MaxTime = 0
  Enabled = {"sign-in", "lost"}
SYMMETRY DeviceRecordSymmetry
PROPERTY RotationKeepsRecords
CHECK_DEADLOCK FALSE
