SPECIFICATION FairSpec
CONSTANTS
  Requests = {1, 2, 3}
  Workloads <- OfficeWorkloads
  MaxCrashes = 1
  Codes = {0, 1, 2, 3, 4, 5}
  Years = {0, 1}
  FirstDay <- DaysOfYears
  Students = {1, 2, 3, 4, 5}
  Plans = {1}
  Sessions = {1, 2}
  Identifiers = {1, 2}
  TokenDays = 1
INVARIANTS GeneratedCodeIsNeverRefused AlwaysACurrentYear SemestersTileTheYear AssignmentsChargeOnce ReceivableCodesGapFree ImportsAreAllOrNothing SummaryIsTrue TokenNotLost LogsTellTheTruth
PROPERTIES ReadingSettlesTheYear EveryOfficeRequestEnds
