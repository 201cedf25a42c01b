SPECIFICATION Spec
CONSTANTS
  Missing = Missing
  Malformed = Malformed
  a1 = a1
  a2 = a2
  d1 = d1
  d2 = d2
  Admins = {a1, a2}
  Editors = {a1, a2}
  Restarters = {}
  Dirs = {d1, d2}
  Ports = {1}
  Streams = {1}
  Sizes = {1, 2}
  Maxima = {1}
  Defaults <- FirstDefaults
  Faults = {"write", "crash"}
  MaxBoots = 2
SYMMETRY Alike
INVARIANTS
  FoldersAgree
  AnsweredInForce
  MalformedExplained
  SettingsInv
PROPERTIES
  StartRestores
