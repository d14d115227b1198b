SPECIFICATION Spec
CONSTANTS
  a = a
  b = b
  s1 = s1
  s2 = s2
  s3 = s3
  s4 = s4
  s5 = s5
  x = x
  Secret = {s1, s2, s3, s4, s5}
  Salt = {x}
  Draw <- DemoDraw
  Action = {a, b}
  ActionLen <- DemoLen
  DemoAction = a
  DEMO_CREATE_KEY = demo
  NOOP_ID = noop
  Chain = chain
  MERKLE_DEPTH = 2
  Zero = Zero
  MaxU8 = 3
  MaxU32 = 5
  MaxMembers = 5
  MaxArgs = 3
  None = None
INVARIANTS QuorumIsReal FailuresExplained DemoIInv
PROPERTIES DemoFollowsVerifier ShowableRunsSucceed
CHECK_DEADLOCK FALSE
