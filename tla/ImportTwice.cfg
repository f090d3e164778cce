SPECIFICATION Spec
CONSTANTS
  Requests = {1, 2, 3}
  Workloads <- TwoConfirmations
  MaxCrashes = 0
  Codes = {0, 1, 2, 3, 4, 5}
  Years = {0, 1}
  FirstDay <- DaysOfYears
  Students = {1, 2, 3, 4, 5}
  Plans = {1}
  Sessions = {1, 2}
  Identifiers = {1, 2}
  TokenDays = 1
INVARIANT RowsImportedOnce
