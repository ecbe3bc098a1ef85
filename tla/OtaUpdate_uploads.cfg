\* Uploads that fail, are damaged, too short or too long, and power failures.
SPECIFICATION Spec
CONSTANTS
  Versions = {v1, v2}
  Parts = 2
  MaxHandles = 2
INVARIANTS
  TypeOK
  BootSlotComplete
PROPERTY UpdateIsAtomic
