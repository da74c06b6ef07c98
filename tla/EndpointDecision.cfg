SPECIFICATION Spec
CONSTANTS
  a1 = a1
  a2 = a2
  n1 = n1
  n2 = n2
  net = net
  NoValue = NoValue
  Ips = {a1, a2}
  Names = {n1, n2}
  HexNames = {n2}
  Networks = {net}
  Members <- MCMembers
  Entries <- MCEntries
INVARIANTS
  TypeOK
  TargetsWereOpen
  OpenAreTargets
  ApprovalIsUsable
