SPECIFICATION FairClientSpec
CONSTANTS
  u1 = u1
  h1 = h1
  h2 = h2
  h3 = h3
  r1 = r1
  n1 = n1
  w1 = w1
  w2 = w2
  UploadIDs = {u1}
  Handlers = {h1, h2}
  Workers = {w1}
  Roots = {r1}
  Names = {n1}
  MaxChunks = 1
  MaxAttempts = 2
  Faults = {"create", "sync"}
  MaxStops = 0
  Script = Script
  Nobody = Nobody
  Janitor = Janitor
  Main = Main
  NoUpload = NoUpload
  NoFile = NoFile
  Older = Older
PROPERTIES
  StaleReclaimed
  CloseReturns
  UploadEnds
  FailedLeavesNothing
