CONSTANTS
  NEpics = 2
  NStories = 4
  NSprints = 2
  FirstPlan <- MCFirstPlan
  Chunk = 2
  MaxRuns = 4
  MaxStops = 3
  MaxEdits = 1
SPECIFICATION FairSpec
INVARIANTS
  RecordedIsReal
  OneOrphanPerStop
  FinishedIsComplete
PROPERTY ResumesUnlessTorn
CHECK_DEADLOCK FALSE
