CONSTANTS
  Unit = 2
  Null = Null
  NRuns = 2
  NItems = 2
  Concurrency = 1
  SetVersions = {1, 2}
  CodeVersions = {"c1", "c2"}
  Trees <- MCTrees
  Builds = {"b1"}
  Release <- MCRelease
  Shape <- MCShape
  Answers = {"right", "wrong"}
  Passing <- MCPassing
  FirstTree <- MCFirstTree
  FirstBuild = "b1"
  HasGit = FALSE
  MidRunChanges = TRUE
  MaxChanges = 1
  MaxFaults = 1
SPECIFICATION Spec
INVARIANTS
  EditIsCaught
CHECK_DEADLOCK FALSE
