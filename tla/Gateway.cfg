SPECIFICATION GatewayFairSpec
CONSTANTS
  NumReceivables = 1
  NumOrders = 2
  NumTransactions = 2
  NumStudents = 1
  StudentOf <- OneStudent
  PastDue = {}
  FeeAmounts = {4, 5}
  TransferAmounts = {3}
  DiscountAmounts = {4}
  AdjustmentDeltas = {}
  RefundAmounts = {}
  ItemLists <- FirstOnly
  MaxAdjustment = 0
  MaxReceipts = 1
  PartAmounts = {3}
  UnitsPerDong = 3
  MaxInPlay = 3
CHECK_DEADLOCK FALSE
INVARIANTS AnswersHold BillMoneyReachesItsOrder
PROPERTIES BillAmountSettles EveryPaymentAcknowledged
