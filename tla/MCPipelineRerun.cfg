SPECIFICATION FairSpec
CONSTANTS
  StartDate = 1
  EndDate = 9
  BatchSize = 7
  Permits = 1
  MaxFaults = 2
  MaxSweeps = 0
PROPERTY RerunRecovers
