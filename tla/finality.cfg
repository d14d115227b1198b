SPECIFICATION FairFinalitySpec
CONSTANTS
  Key = {k}
  Task = {t1, t2}
  Receipt = {r}
  MaxU64 = 2
  MaxU32 = 0
  None = None
  FinalityBlocks = 1
  RecordedBlock = {"height"}
INVARIANTS FinalityIInv
PROPERTIES ConfirmedVotesStay ConfirmedStays LandedIsConfirmed
