SPECIFICATION Spec
CONSTANTS
  Key = {k1}
  Task = {t1, t2}
  Receipt = {r1}
  MaxU64 = 2
  MaxU32 = 1
  None = None
INVARIANTS RecordsCoherent
PROPERTIES StepsBackAreCounted

