SPECIFICATION FairSpec
CONSTANTS
  Missing = Missing
  Malformed = Malformed
  a1 = a1
  a2 = a2
  d1 = d1
  d2 = d2
  Admins = {a1, a2}
  Editors = {a1}
  Restarters = {a1, a2}
  Dirs = {d1, d2}
  Ports = {1, 2}
  Streams = {1}
  Sizes = {1, 2}
  Maxima = {1}
  Defaults <- FirstDefaults
  Faults = {"storage", "open", "write", "listen", "exec", "crash"}
  MaxBoots = 2
INVARIANTS
  RestartHasRoom
PROPERTIES
  DrainEnds
