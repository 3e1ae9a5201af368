\* Two requests that interleave, with nothing else going on.
SPECIFICATION Spec
CONSTANTS
  Hosts = {h1}
  Calls = {c1, c2}
  Editors = {}
  AutoReload = {TRUE}
  MaxRestarts = 0
PROPERTIES
  OnlyCreateAddsHosts
CHECK_DEADLOCK FALSE
