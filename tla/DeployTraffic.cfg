\* Three deployments in a row, in both modes: the first one, and two that alternate ports.
SPECIFICATION Spec
CONSTANTS
  Modes = {"bare", "docker"}
  MaxDeploys = 3
INVARIANTS
  TypeOK
  PortsAgree
  NoStagingLeft
  
PROPERTIES
  ZeroDowntime
\* A deleted project is the end.
CHECK_DEADLOCK FALSE
