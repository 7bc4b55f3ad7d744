SPECIFICATION Spec
CONSTANTS
  Launches = {l1, l2}
  Dests <- SomeDests
  Texts = {66, 154, 155}
  Prefaces = {0, 2}
  OtherSplits <- SomeSplits
SYMMETRY Symmetry
INVARIANTS
  SplitIsLocked
  FeesGoToSplit
  SignerAgrees
  BuiltExecutes
  CoverageIsMaximal
  ProjectionIsExact
  WorkerCanDistribute
  SkipsInitOnlyWhenPresent
