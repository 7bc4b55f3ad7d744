SPECIFICATION Spec
CONSTANTS
  Ids = {i1, i2}
  Keys = {k1, k2}
  Mints = {t1, t2}
  Modules = {m1, m2}
  Kinds = {"buyback"}
  Signatures = {s1}
  Indexes = {0}
  Tables = {a1}
  Wallets = {w1, w2}
  Heights = {1, 2}
  Slots = {1}
  Null = Null
  MaxCalls = 6
  MaxNow = 1
INVARIANTS
  DriversAgree
  ListsAgree
SYMMETRY Symmetry
CHECK_DEADLOCK FALSE
