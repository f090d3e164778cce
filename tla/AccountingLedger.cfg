SPECIFICATION Spec
CONSTANTS
  NumReceivables = 1
  NumOrders = 1
  NumTransactions = 1
  NumStudents = 1
  StudentOf <- OneStudent
  PastDue = {}
  FeeAmounts = {2}
  TransferAmounts = {3}
  DiscountAmounts = {}
  AdjustmentDeltas = {}
  RefundAmounts = {}
  ItemLists <- FirstOnly
  MaxAdjustment = 0
  MaxReceipts = 2
CHECK_DEADLOCK FALSE
INVARIANT LedgerMatchesBooks
