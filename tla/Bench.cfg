CONSTANTS
  Threads <- MCThreads
  MaxChunks = 1
  ChunkTokens = {0, 2}
  Latencies = {1, 2}
  NPrompts = 2
  Warmups = 1
  Repeats = 2
  Setups <- MCSetups
  Baselines <- MCBaselines
  MaxCompares = 1
  Concurrency = 2
SPECIFICATION ToolSpec
INVARIANTS
  SamplesAreTheMeasured
  ResultAddsUp
  ComparisonIsGrounded
  LoadIsKept
CHECK_DEADLOCK TRUE
