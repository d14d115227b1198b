SPECIFICATION FairSpec
CONSTANTS
  k1 = k1
  k2 = k2
  s1 = s1
  s2 = s2
  s3 = s3
  x = x
  y = y
  a = a
  b = b
  c = c
  t = t
  main = main
  test = test
  Absent = Absent
  CreateKey = {k1}
  Secret = {s1, s2, s3}
  Salt = {x, y}
  MembersRoot <- CouncilRoots
  Action = {a, b}
  ActionLen <- CouncilLen
  Target = {t}
  ChainIds = {main}
  DeploymentChain = main
  MaxU8 = 2
  MaxU32 = 2
  MaxU64 = 2
  ProverInput <- CouncilInputs
INVARIANTS TypeOK CountIsDistinctVoters FiresAtMostOnce IndicesDense BackedNeverStuck
PROPERTIES NeverRewritten BackedProposalsFire ImplementsThresholdVote
