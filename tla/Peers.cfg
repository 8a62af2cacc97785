SPECIFICATION MCSpec
CONSTANTS
  Owner = Owner
  Managed = Managed
  Nobody = Nobody
  Nothing = Nothing
  Free = Free
  Threads = {t1, t2}
  Commands = {}
  Items = {i, j}
  Donors = {a}
  MaxDonations = 3
  MaxGen = 3
  Shareable = {i1, i2}
  Users = {u1}
  Tagged = {i1, i2}
  MaxTime = 3
  Addresses = 2
  BodyItems = 2
  RequestRecords = 1
  MaxSequence = 1
  Due = 1
  MaxFaults = 1
  MAX_CHAIN = 3
  Shown <- MCShown
  Anchors <- MCAnchors
  Host <- MCHost
  FirstDay = 1996
  LastDay = 2004
CHECK_DEADLOCK FALSE
INVARIANTS
  AckedWaits
  ReplyWhole
  ChannelAgrees
  ChainJudged
PROPERTIES
  MergeAdmitted
  ReadsByRight
  EndedShareRevoked
  HeldEnds
