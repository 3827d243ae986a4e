SPECIFICATION JournalsSpec
CONSTANTS
  MaxRuns = 3
  MaxBatches = 2
  MaxTrades = 2
  Party <- SomeParties
INVARIANTS
  LossIsOneOrder
  UserTradesComplete
  BatchesOfOneRun
