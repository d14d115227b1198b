SPECIFICATION FinalitySpec
CONSTANTS
  Key = {k}
  Task = {t1}
  Receipt = {r}
  MaxU64 = 3
  MaxU32 = 0
  None = None
  FinalityBlocks = 2
  RecordedBlock = {"inclusion"}
INVARIANTS ConfirmedIsOnChain
