SPECIFICATION Spec
CONSTANTS
  Artists = {a1, a2}
  Discography = {d}
  MaxCrashes = 2
INVARIANTS
  TypeOK
  ServesUpgraded
PROPERTIES
  PurgesOnlyStale
  OpensInTheEnd
