SPECIFICATION FairClientSpec
CONSTANTS
  k1 = k1
  s1 = s1
  s2 = s2
  x = x
  y = y
  a = a
  b = b
  t = t
  main = main
  c1 = c1
  c2 = c2
  Absent = Absent
  None = None
  CreateKey = {k1}
  Secret = {s1, s2}
  Salt = {x, y}
  MembersRoot <- CouncilRoots
  Action = {a, b}
  ActionLen <- ShortLen
  Target = {t}
  ChainIds = {main}
  DeploymentChain = main
  MaxU8 = 1
  MaxU32 = 2
  MaxU64 = 1
  ProverInput <- Witnesses
  Client = {c1, c2}
  MemberOf <- CouncilMembers
INVARIANTS ClientTypeOK ProversTargetProposals ClientIInv
PROPERTIES SkippedOnlyIfVoted VotesLand FollowsVerifier
