SPECIFICATION SearchesSpec
CONSTANTS
  N = 4
  Weights = {0, 1, 3}
  Begins = {1, 2}
  IntMax = 9
  Width = 3
  Height = 3
  Capacity = 10
  MaxFinds = 1
INVARIANTS ResultIsShortest SettledIsFinal FoundIsShortest ParentsLeadBack NoPathIsRight NodesSuffice
CHECK_DEADLOCK FALSE
