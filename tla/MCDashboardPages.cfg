SPECIFICATION MCSpec
CONSTANTS
  c1 = c1  c2 = c2
  Client = {c1, c2}
  Neo = {1, 2}
  Approach = {11, 12, 13}
  Of <- MCOf
  Day <- MCDay
  Miss <- MCMiss
  Speed <- MCSpeed
  Diameter <- MCDiameter
  Pha = {1, 2}
  Today = 8
  File = {21, 22}
  Days = {7}
  Date = {8}
  HistoryLimit = 1
  RecentLimit = 2
  SimilarLimit = 1
  PageSize = 1
  Page = {1, 2}
  MaxChanges = 2
  MaxFaults = 1
CONSTRAINT MCBound
SYMMETRY ClientSymmetry
INVARIANTS CountsAgree DetailAgrees FoundHasPage FreshestKept
