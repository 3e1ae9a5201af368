\* What comments promise of events, against what subscribers get.
SPECIFICATION EvSpec
CONSTANTS
  Channels = {c1}
  Filters = {{}}
  MaxPubs = 1
INVARIANTS
  NotifierHears
CHECK_DEADLOCK FALSE
