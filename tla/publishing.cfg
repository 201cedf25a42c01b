SPECIFICATION Spec
CONSTANTS
  Earlier = Earlier
  Nothing = Nothing
  u1 = u1
  u2 = u2
  u3 = u3
  v1 = v1
  d1 = d1
  d2 = d2
  n1 = n1
  Uploads = {u1, u2, u3}
  Viewers = {v1}
  Dirs = {d1, d2}
  Names = {n1}
  Pictures = {n1}
  Faults = {"open", "cross", "unlink", "decode", "create", "encode"}
SYMMETRY UploadSymmetry
INVARIANTS
  TempsOwned
  SentWhole
  ThumbFresh
  CacheInv
PROPERTIES
  FileKept
  LegacyImplementsFolder
