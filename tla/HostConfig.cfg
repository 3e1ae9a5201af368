\* Two requests that interleave, one use of the editor and one restart of the panel.
SPECIFICATION Spec
CONSTANTS
  Hosts = {h1}
  Calls = {c1, c2}
  Editors = {e1}
  AutoReload = {TRUE, FALSE}
  MaxRestarts = 1
SYMMETRY CallSymmetry
INVARIANTS
  TypeOK
  LiveIsFile
  FileIsDb
  NoHalfHost
\* Every request may have been answered.
CHECK_DEADLOCK FALSE
