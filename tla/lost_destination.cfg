SPECIFICATION Spec
CONSTANTS
  u1 = u1
  u2 = u2
  h1 = h1
  h2 = h2
  h3 = h3
  r1 = r1
  r2 = r2
  n1 = n1
  UploadIDs = {u1}
  Handlers = {h1, h2}
  Roots = {r1}
  Names = {n1}
  MaxChunks = 1
  Faults = {}
  MaxStops = 0
  Janitor = Janitor
  Main = Main
  NoUpload = NoUpload
  NoFile = NoFile
  Older = Older
PROPERTIES
  AtomicReplacement
