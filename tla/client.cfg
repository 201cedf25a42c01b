SPECIFICATION ClientSpec
CONSTANTS
  u1 = u1
  h1 = h1
  h2 = h2
  h3 = h3
  r1 = r1
  n1 = n1
  w1 = w1
  w2 = w2
  UploadIDs = {u1}
  Handlers = {h1, h2}
  Workers = {w1, w2}
  Roots = {r1}
  Names = {n1}
  MaxChunks = 2
  MaxAttempts = 2
  Faults = {"create", "sync", "close", "rename", "remove"}
  MaxStops = 1
  Script = Script
  Nobody = Nobody
  Janitor = Janitor
  Main = Main
  NoUpload = NoUpload
  NoFile = NoFile
  Older = Older
SYMMETRY WorkerSymmetry
INVARIANTS
  NoOrphanPart
  ToldStored
  CompleteFindsAll
  ClientInv
