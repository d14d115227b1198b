SPECIFICATION Spec
CONSTANTS
  MERKLE_DEPTH = 2
  Zero = Zero
  Commitment = {c1, c2, c3, c4, c5}
  MaxU8 = 2
  MaxU32 = 4
  None = None
INVARIANTS TypeOK EnrolledCanProve OnlyEnrolledProve RootCommitsToMembers OneLeafEach
CHECK_DEADLOCK FALSE
