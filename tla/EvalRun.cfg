CONSTANTS
  Unit = 2
  Null = Null
  NRuns = 3
  NItems = 2
  Concurrency = 2
  SetVersions = {1, 2}
  CodeVersions = {"c1", "c2"}
  Trees <- MCTrees
  Builds = {"b1", "b2", "b3"}
  Release <- MCRelease
  Shape <- MCShape
  Answers = {"right", "wrong"}
  Passing <- MCPassing
  FirstTree <- MCFirstTree
  FirstBuild = "b1"
  HasGit = TRUE
  MidRunChanges = FALSE
  MaxChanges = 1
  MaxFaults = 1
SPECIFICATION Spec
INVARIANTS
  ScoreIsWhole
  NoiseOnly
  ReportIsHomogeneous
  DriftIsExplained
CHECK_DEADLOCK FALSE
