SPECIFICATION FairSpec
CONSTANTS
  k1 = k1
  k2 = k2
  v1 = v1
  u1 = u1
  u2 = u2
  Default = Default
  NULL = NULL
  Keys <- TwoKeys
  Vals <- OneVal
  Users <- TwoUsers
  timepp = 2
  checkt = 1
PROPERTIES
  AddedKept
  Swept

