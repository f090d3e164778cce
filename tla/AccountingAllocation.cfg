SPECIFICATION Spec
CONSTANTS
  NumReceivables = 2
  NumOrders = 2
  NumTransactions = 2
  NumStudents = 1
  StudentOf <- SameStudent
  PastDue = {2}
  FeeAmounts = {2}
  TransferAmounts = {0, 1, 3}
  DiscountAmounts = {}
  AdjustmentDeltas = {}
  RefundAmounts = {}
  ItemLists <- ItemChoices
  MaxAdjustment = 0
  MaxReceipts = 2
CHECK_DEADLOCK FALSE
INVARIANTS PaidIsAllocated SurplusBecomesCredit ReconciliationAgrees
PROPERTIES OrdersSettleForGood
