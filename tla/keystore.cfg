SPECIFICATION Spec
CONSTANTS
  Device = {phone, laptop}
  Bytes32 = {b1, b2, b3, b4}
  Password = {p, q}
  Random = {r1, r2}
  ProposalId = {pid}
  None = None
INVARIANTS DevicesHoldMembers BackupRecovers OneVotePerMember KeystoreIInv
CHECK_DEADLOCK FALSE
