SPECIFICATION FairSpec
CONSTANTS
  StartDate = 1
  EndDate = 9
  BatchSize = 7
  Permits = 1
  MaxFaults = 3
  MaxSweeps = 1
INVARIANTS CompletedIsWhole ForcedRunRepairs VectorsComplete
PROPERTY WindowServed
