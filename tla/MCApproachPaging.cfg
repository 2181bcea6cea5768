SPECIFICATION MCSpec
CONSTANTS
  Client = {1, 2}
  Walker = {1}
  Approach = {1, 2, 3}
  Day <- MCDay
  Week = {1, 2}
  Fact <- MCFact
  Sort = {"date"}
  PageSize = 2
  ApiPage = {2}
  ApiSize = {2}
  Word = 6
  MaxChanges = 1
  MaxFaults = 1
CONSTRAINT MCBound
INVARIANTS AnswersQuestion LabelsAgree DriftBounded NextLeadsOn MostHazardousFirst
