SPECIFICATION FairAccessSpec
CONSTANTS
  v0 = v0
  v1 = v1
  v2 = v2
  w1 = w1
  w2 = w2
  Versions = {v0, v1, v2}
  Size <- Sizes
  PieceSize = 2
  MaxPieces = 2
  Workers = {w1, w2}
  MaxAttempts = 2
  Nothing = Nothing
  RawNames <- AllNames
  OtherNames <- Others
  Wanted <- Clicked
  Subfolders <- Folders
INVARIANTS
  StaysBelow
  PlainNamesAgree
  SavedFaithful
PROPERTIES
  DownloadSettles
