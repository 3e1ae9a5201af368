\* Three builds, a rollback, a deletion and one stop of the panel: two builds queue
\* behind the first, and every call without a lock can fall between any two steps.
SPECIFICATION Spec
CONSTANTS
  Calls = {b1, b2, b3}
  Rollbacks = {r1}
  MaxCrashes = 1
SYMMETRY BuildSymmetry
INVARIANTS
  TypeOK
  OnePipeline
  LockMatchesHolder
  NoPhantomBuilding
  RowSettled
  NumbersDistinct
PROPERTIES
  RolledBackStays
  ServesOneAtATime
\* Every call may have been made and answered.
CHECK_DEADLOCK FALSE
