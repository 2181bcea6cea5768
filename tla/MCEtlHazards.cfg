SPECIFICATION Spec
CONSTANTS
  n1 = n1  n2 = n2  n3 = n3
  a1 = a1  a2 = a2  a3 = a3
  fa = fa  fb = fb  fc = fc  fd = fd  fe = fe
  r1 = r1  r2 = r2
  Malformed = Malformed
  Neo = {n1, n2, n3}
  Approach = {a1, a2, a3}
  Notable = {a2}
  File = {fa, fb}
  Run = {r1, r2}
  Content <- MCContent
  BatchSize = 2
  Permits = 2
  MaxFaults = 1
SYMMETRY RunSymmetry
PROPERTY InsertedHazardsPublished
CHECK_DEADLOCK FALSE
