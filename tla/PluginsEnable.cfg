SPECIFICATION Spec
CONSTANTS
  Plugins <- MCPluginSet
  Deps <- MCDeps
  Default = "ai"
INVARIANTS
  EnableTakesEffect
