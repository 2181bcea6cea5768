SPECIFICATION FairSpec
CONSTANTS
  a1 = a1  a2 = a2
  s1 = s1  s2 = s2
  Approach = {a1, a2}
  Notable = {a1}
  DateOf <- MCDateOf
  Slot = {s1, s2}
  Limit = 1
  Configured = TRUE
  Retention = 0
  MaxDay = 2
  MaxFaults = 1
INVARIANTS DuplicatesBounded AlertedStaysAlerted RecordedWasSent
PROPERTY EventuallyAlerted
