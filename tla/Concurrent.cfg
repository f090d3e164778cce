SPECIFICATION FairSpec
CONSTANTS
  NumRequests = 4
  Requests = {1, 2, 3, 4}
  Workloads <- PaymentWorkloads
  Transactions = {1, 2, 3}
  AmountOf <- AmountsPaid
  Receivables = {1, 2}
  OriginalAmount <- FeesCharged
  Orders = {1, 2}
  Items <- SharedItems
  MaxCrashes = 1
CHECK_DEADLOCK FALSE
INVARIANTS RowsHaveOneWriter PaidIsAllocated TransferCountsOnce PaidOrdersLackNothing
INVARIANTS ReceiptNumbersGapFree OneReceiptInForce DiscountIsGranted
PROPERTIES NeverOverpaid KeepsTransferBooks EveryRequestEnds EveryTransferRecorded
