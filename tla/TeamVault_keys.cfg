SPECIFICATION Spec
CONSTANTS
  User = {u1, u2}
  Record = {r1}
  None = None
  Deleted = Deleted
  Role = {"owner", "member"}
  MaxKey = 2
  MaxEdit = 1
  Enabled = {"save", "rename", "role", "add", "remove", "delete"}
SYMMETRY UserRecordSymmetry
INVARIANTS TypeOK OneTeamKey KeepsAnOwner OutsidersLackKey
PROPERTY EditsTakeEffectOnce
CHECK_DEADLOCK FALSE
