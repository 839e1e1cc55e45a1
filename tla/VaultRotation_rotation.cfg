SPECIFICATION Spec
CONSTANTS
  Device = {d1, d2}
  Record = {r1}
  None = None
  Deleted = Deleted
  MaxKey = 2
  MaxEdit = 1
  MaxTime = 1
  Enabled = {"sign-in", "lost"}
SYMMETRY DeviceRecordSymmetry
INVARIANTS TypeOK VersionNamesKey
PROPERTIES OldKeyWritesRefused RotationKeepsEdits
CHECK_DEADLOCK FALSE
