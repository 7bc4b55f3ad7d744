SPECIFICATION Spec
CONSTANTS
  Calls = {p1, p2}
  Keys = {k1, k2}
  NoKey = NoKey
  Ttl = 1
  Margin = 1
  MaxTime = 3
  MaxLaunches = 3
  MaxRestarts = 1
SYMMETRY Symmetry
INVARIANTS
  TypeOK
  OneLaunchPerKey
  OneKeyPerLaunch
  KeyOutlivesIntent
