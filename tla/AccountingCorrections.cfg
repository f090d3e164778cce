SPECIFICATION Spec
CONSTANTS
  NumReceivables = 2
  NumOrders = 2
  NumTransactions = 1
  NumStudents = 2
  StudentOf <- TwoStudents
  PastDue = {}
  FeeAmounts = {2}
  TransferAmounts = {3}
  DiscountAmounts = {1}
  AdjustmentDeltas <- Adjustments
  RefundAmounts = {1, 2}
  ItemLists <- SingleItems
  MaxAdjustment = 1
  MaxReceipts = 2
CHECK_DEADLOCK FALSE
INVARIANTS TypeOK PaidIsAllocated ReceiptsMatchPayments RefundsWithinCredits
PROPERTIES NeverOverpaid LedgerTracksBooks
