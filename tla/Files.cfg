SPECIFICATION FilesSpec
CONSTANTS
  k1 = k1
  k2 = k2
  b1 = b1
  b2 = b2
  p1 = p1
  c1 = c1
  c2 = c2
  t1 = t1
  NoPhrase = NoPhrase
  Absent = Absent
  Fprs = {k1, k2}
  Blocks = {b1, b2}
  Phrases = {p1}
  Homes <- MCHomes
  Commands = {c1, c2}
  Threads = {t1}
  MaxWrites = 2
  MaxPhrases = 1
  Importers = {m1, m2}
  Tools = {"npm", "gh", "huggingface", "vercel", "aws", "kube", "terraform", "cargo", "git", "docker"}
  Entries = {e1, e2}
  Active = e1
  Ids = {i1, i2}
  None = None
  Ref = Ref
  Vault = Vault
  Other = Other
  MaxToken = 3
  CiCommands = {g1, g2}
  Bound = {s1, s2}
  MaxValue = 2
  NoEntry = NoEntry
SYMMETRY FilesAlike
CHECK_DEADLOCK FALSE
INVARIANTS
  KeysStand
  TokensInReach
  AnswersHold
  BehindIsListed
PROPERTIES
  HalfKept
