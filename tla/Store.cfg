SPECIFICATION MCFairSpec
CONSTANTS
  p1 = p1
  p2 = p2
  a = a
  b = b
  t1 = t1
  t2 = t2
  NoProc = NoProc
  NoTxn = NoTxn
  Procs = {p1, p2}
  Items = {a}
  Txns = {t1, t2}
  Pass <- MCPass
  Remotes <- MCOneRemote
  Explored = {"save", "arm", "lift", "vanish", "pull", "forced pull", "restore", "mirror", "forced mirror"}
  MaxGen = 2
INVARIANTS
  WriteLockExcludes
PROPERTIES
  FenceHolds
  FenceBelongsToItsMove
  SaveReplacesWhatItRead
  WriterLeaves
