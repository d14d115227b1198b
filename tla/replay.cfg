SPECIFICATION Spec
CONSTANTS
  k1 = k1
  k2 = k2
  s1 = s1
  s2 = s2
  s3 = s3
  x = x
  y = y
  a = a
  b = b
  c = c
  t = t
  main = main
  test = test
  Absent = Absent
  CreateKey = {k1, k2}
  Secret = {s1, s2, s3}
  Salt = {x}
  MembersRoot <- ReplayRoots
  Action = {a, b, c}
  ActionLen <- ReplayLen
  Target = {t}
  ChainIds = {main, test}
  DeploymentChain = main
  MaxU8 = 2
  MaxU32 = 2
  MaxU64 = 1
  ProverInput <- ReplayInputs
INVARIANTS IInv VotersConsented CallsBackedByThreshold VotesNotReused
