SPECIFICATION Spec
CONSTANTS
  NumRequests = 2
  Requests = {1, 2}
  Workloads <- TwoMatches
  Transactions = {1}
  AmountOf <- AmountsPaid
  Receivables = {1, 2}
  OriginalAmount <- FeesCharged
  Orders = {1, 2}
  Items <- SeparateItems
  MaxCrashes = 0
CHECK_DEADLOCK FALSE
INVARIANTS TransferCountsOnce
