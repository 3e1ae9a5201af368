\* Fresh installs, upgrades with new plugins, and restarts at every point.
SPECIFICATION Spec
CONSTANTS
  Plugins <- MCPluginSet
  Deps <- MCDeps
  Default = "ai"
INVARIANTS
  TypeOK
  DepsEnabled
  DisabledIsBlocked
  RunningIsEnabled
PROPERTIES
  DepsStartedFirst
