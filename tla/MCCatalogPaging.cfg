SPECIFICATION MCSpec
CONSTANTS
  Client = {1, 2}
  Walker = {1}
  Asteroid = {1, 2, 3}
  Value = {1, 2}
  Sort = {"ApproachActivity", "Name"}
  Limit = 1
  MaxChanges = 1
  MaxFaults = 1
INVARIANTS WalkComplete WalkAscends PrevReturns OneQuery
PROPERTY RequestEnds
