SPECIFICATION Spec
CONSTANTS
  MERKLE_DEPTH = 1
  Zero = Zero
  Commitment = {c1, c2, c3}
  MaxU8 = 2
  MaxU32 = 4
  None = None
INVARIANTS CountedCanProve
CHECK_DEADLOCK FALSE
