SPECIFICATION Spec
CONSTANTS
  Runs = {r1, r2}
  Launches = {l1}
  Keys = {"fee", "old", "new"}
  Globals = {"old", "new"}
  Entries <- TwoEntries
  Genesis = "old"
  None = None
  MaxSlot = 6
  MaxForks = 1
  MaxRotations = 2
SYMMETRY Symmetry
CHECK_DEADLOCK FALSE
INVARIANTS
  TypeOK
  ValidatedIsExecuted
  CreatedIsReady
