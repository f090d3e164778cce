SPECIFICATION ReportSpec
CONSTANTS
  NumReceivables = 2
  NumOrders = 1
  NumTransactions = 2
  NumStudents = 2
  StudentOf <- TwoStudents
  PastDue = {2}
  FeeAmounts = {1}
  TransferAmounts = {2}
  DiscountAmounts = {1}
  AdjustmentDeltas <- Adjustments
  RefundAmounts = {}
  ItemLists <- SingleItems
  MaxAdjustment = 1
  MaxReceipts = 1
  NumSchools = 2
  NumClasses = 2
  NumCategories = 2
  NumDays = 2
  SchoolOf <- OwnSchool
  PlanSchool <- OwnPlan
  CompanyOf <- OneCompany
  ClassesOf <- InClasses
  ClassSchool <- SchoolsOfClasses
  CategoryOf <- OwnCategory
  CategorySchool <- SchoolsOfCategories
  DayOf <- OwnDay
  AccountOf <- OwnAccount
  Users <- EveryKindOfUser
  ReportsAsked <- CashiersReport
  MaxAdjusted = 1
  MaxDeleted = 1
  ExportLimit = 1
CHECK_DEADLOCK FALSE
INVARIANTS ReportAddsUp  PaymentsCoverReceivables
