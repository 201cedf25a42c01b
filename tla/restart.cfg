SPECIFICATION FairSpec
CONSTANTS
  Missing = Missing
  Malformed = Malformed
  a1 = a1
  a2 = a2
  d1 = d1
  d2 = d2
  Admins = {a1}
  Editors = {}
  Restarters = {a1}
  Dirs = {d1, d2}
  Ports = {1, 2}
  Streams = {1}
  Sizes = {1, 2}
  Maxima = {1}
  Defaults <- FirstDefaults
  Faults = {}
  MaxBoots = 1
PROPERTIES
  RestartHappens
