------------------------------ MODULE Reports ------------------------------
(***************************************************************************)
(* What the office sees of the accounting engine: the reports, the         *)
(* dashboard and the exports, each within the schools its user may see.    *)
(* They only read.  Beside the tables of Accounting they read the rows of  *)
(* receivable_adjustments, the school of each transaction and the deletion *)
(* of fee categories, which this module adds to the engine's steps.        *)
(*                                                                         *)
(* A statement sees one committed state.  The report of the receivables    *)
(* takes two of them and no transaction: a request under way is in         *)
(* `report', and others commit between its two.  Every other view is told  *)
(* of one state.                                                           *)
(*                                                                         *)
(* Filters by year, semester, date and student compare a column as those   *)
(* kept here do; rates and the layout of the sheets are left out.          *)
(***************************************************************************)
EXTENDS Accounting, FiniteSets

CONSTANTS
  NumSchools, NumClasses, NumCategories, NumDays,
  SchoolOf,        \* of each student
  PlanSchool,      \* of each receivable's fee plan
  CompanyOf,       \* of each school
  ClassesOf,       \* the classes of each student's ACTIVE student_classes rows
  ClassSchool,     \* of each class
  CategoryOf,      \* the fee category of each receivable's plan
  CategorySchool,  \* of each fee category
  DayOf,           \* of each transaction
  Users,           \* with their role, company and school
  ReportsAsked,    \* the user and filter of the reports others overlap with
  AccountOf,       \* the school whose account each transaction is paid to
  MaxAdjusted,     \* bound: what the adjustments of a receivable come to
  MaxDeleted,      \* bound: fee categories deleted
  ExportLimit      \* rows an export lists at most

Schools    == 1..NumSchools       \* those not deleted
Classes    == 1..NumClasses
Categories == 1..NumCategories
Days       == 1..NumDays
Nothing    == 0       \* a filter that is not given; no company, no school

ASSUME ReportSizesAssumption ==
  /\ NumSchools \in Nat /\ NumClasses \in Nat /\ NumCategories \in Nat
  /\ NumDays \in Nat /\ MaxAdjusted \in Nat /\ MaxDeleted \in Nat
  /\ ExportLimit \in Nat

ASSUME RecordsAssumption ==
  /\ SchoolOf       \in [Students -> Schools]
  /\ PlanSchool     \in [Receivables -> Schools]
  /\ ClassesOf      \in [Students -> SUBSET Classes]
  /\ ClassSchool    \in [Classes -> Schools]
  /\ CategoryOf     \in [Receivables -> Categories]
  /\ CategorySchool \in [Categories -> Schools]
  /\ DayOf          \in [Transactions -> Days]
  /\ AccountOf      \in [Transactions -> Schools]
  /\ \A user \in Users : user.school \in Schools \union {Nothing}
  /\ \A asked \in ReportsAsked : asked.user \in Users

VARIABLES
  adjustments,     \* of each receivable, the totals of its APPROVED rows
  collectedBy,     \* the school of each transaction
  deleted,         \* the fee categories that have a deletedAt
  report           \* a receivables report between its two statements

reportVars == <<vars, adjustments, collectedBy, deleted, report>>

(* A receivable is of the school of its fee plan, an order of that of its  *)
(* student.  An assignment to named classes or students does not compare   *)
(* the two, and nothing compares either with the school of the category or *)
(* of the class.                                                           *)
SchoolOfReceivable(r) == PlanSchool[r]
SchoolOfOrder(o) == SchoolOf[StudentOf[orders[o].items[1]]]

-----------------------------------------------------------------------------
(* Which schools a user may see.  A scope is every school or a set of      *)
(* them; or the request is refused.                                        *)

Unrestricted     == [all |-> TRUE, ids |-> {}]
Only(ids)        == [all |-> FALSE, ids |-> ids]
SchoolOutOfScope == [error |-> "SCHOOL_OUT_OF_SCOPE"]

CanAccessSchool(user, s) ==
  \/ user.role = "SUPER_ADMIN"
  \/ user.company # Nothing /\ CompanyOf[s] = user.company
  \/ user.company = Nothing /\ user.school # Nothing /\ user.school = s
  \/ user.company = Nothing /\ user.school = Nothing /\ user.role = "ADMIN"

FindIdsByCompany(company) == {s \in Schools : CompanyOf[s] = company}

GetAccessibleSchoolIds(user) ==
  CASE user.role = "SUPER_ADMIN" -> Unrestricted
    [] user.role # "SUPER_ADMIN" /\ user.company # Nothing ->
         Only(FindIdsByCompany(user.company))
    [] user.role # "SUPER_ADMIN" /\ user.company = Nothing /\ user.school # Nothing ->
         Only({user.school})
    [] OTHER -> IF user.role = "ADMIN" THEN Unrestricted ELSE Only({})

(* A school asked for by name must be one the user can access. *)
ResolveSchoolFilter(user, requested) ==
  CASE requested = Nothing -> GetAccessibleSchoolIds(user)
    [] requested # Nothing /\ CanAccessSchool(user, requested) -> Only({requested})
    [] OTHER -> SchoolOutOfScope

(* Mutation: no school in the scope is taken for no restriction. *)
EmptyScopeIsNone(scope, s) == scope.all \/ scope.ids = {} \/ s \in scope.ids

ApplySchoolScope(scope, s) == scope.all \/ s \in scope.ids

-----------------------------------------------------------------------------
(* The queries. *)

NoFilter == [school |-> Nothing, category |-> Nothing, class |-> Nothing,
             status |-> "NONE"]

(* The rows a filter keeps. *)
ApplyFilters(scope, filter) ==
  {r \in Receivables :
    /\ Exists(receivables[r])
    /\ ApplySchoolScope(scope, SchoolOfReceivable(r))
    /\ filter.school \in {Nothing, SchoolOfReceivable(r)}
    /\ filter.category \in {Nothing, CategoryOf[r]}
    /\ filter.class # Nothing => filter.class \in ClassesOf[StudentOf[r]]
    /\ filter.status \in {"NONE", receivables[r].status}}

SumOf(rows, column) ==
  Total([r \in Receivables |-> IF r \in rows THEN receivables[r][column] ELSE 0],
        NumReceivables)

Adjusted(rows, type) ==
  Total([r \in Receivables |-> IF r \in rows THEN adjustments[r][type] ELSE 0],
        NumReceivables)

Count(rows, statuses) == Cardinality({r \in rows : receivables[r].status \in statuses})

UnpaidStatuses == {"UNPAID", "OVERDUE"}

(* The first statement of a report of the receivables, and the second.     *)
ReportTotals(scope, filter) ==
  LET rows == ApplyFilters(scope, filter)
  IN  [totalReceivable  |-> SumOf(rows, "originalAmount"),
       totalDiscount    |-> SumOf(rows, "discountAmount"),
       totalDue         |-> SumOf(rows, "amountDue"),
       totalPaid        |-> SumOf(rows, "amountPaid"),
       totalOutstanding |-> SumOf(rows, "amountOutstanding"),
       studentsPaid     |-> Count(rows, {"PAID"}),
       studentsUnpaid   |-> Count(rows, UnpaidStatuses),
       studentsPartial  |-> Count(rows, {"PARTIALLY_PAID"})]

(* Mutation: the second statement leaves out the optional scope. *)
UnscopedTotals(scope, filter) ==
  LET rows == ApplyFilters(Unrestricted, filter)
  IN  [increase |-> Adjusted(rows, "INCREASE"),
       decrease |-> Adjusted(rows, "DECREASE")]

AdjustmentTotals(scope, filter) ==
  LET rows == ApplyFilters(scope, filter)
  IN  [increase |-> Adjusted(rows, "INCREASE"),
       decrease |-> Adjusted(rows, "DECREASE")]

-----------------------------------------------------------------------------
(* The engine's steps, with the columns that are added. *)

Type(delta) == IF delta > 0 THEN "INCREASE" ELSE "DECREASE"
Size(delta) == IF delta > 0 THEN delta ELSE -delta

NoReport == [running |-> FALSE]

(* What an adjustment changes for the report under way: nothing it has     *)
(* read.  `since` is no state of the program: it adds up the adjustments   *)
(* to its rows that were committed after its first statement.              *)
AdjustedSince(r, delta) ==
  IF report.running /\ r \in ApplyFilters(report.scope, report.filter)
  THEN [report EXCEPT !.since = @ + delta]
  ELSE report

CreateAdjustment(r, delta) ==
  /\ adjustments[r].INCREASE + adjustments[r].DECREASE + Size(delta) <= MaxAdjusted
  /\ Adjust(r, delta)
  /\ adjustments' = [adjustments EXCEPT ![r][Type(delta)] = @ + Size(delta)]
  /\ report' = AdjustedSince(r, delta)
  /\ UNCHANGED <<collectedBy, deleted>>

(* Mutation: the account of the payment decides before its content. *)
SchoolOfAccount(t, o) == AccountOf[t]

(* The order the content names decides, whatever its status; else the      *)
(* school the account is of.                                               *)
ResolveSchoolId(t, o) ==
  IF o # NoOrder /\ orders[o].status # "NONE" THEN SchoolOfOrder(o) ELSE AccountOf[t]

Ingest(t, amount, o) ==
  /\ IngestMatched(t, amount, o) \/ IngestUnmatched(t, amount, o)
  /\ collectedBy' = [collectedBy EXCEPT ![t] = ResolveSchoolId(t, o)]
  /\ UNCHANGED <<adjustments, deleted, report>>

OtherRequest ==
  \/ \E r \in Receivables :
       \/ \E amount \in FeeAmounts : CreateReceivable(r, amount)
       \/ \E amount \in DiscountAmounts : Discount(r, amount)
  \/ \E o \in Orders : \E items \in ItemLists : CreateOrder(o, items)
  \/ \E o \in Orders : GetQr(o)
  \/ \E t \in Transactions :
       \/ \E o \in Orders : Match(t, o)
       \/ Unmatch(t)
       \/ \E amount \in RefundAmounts : Refund(t, amount)
       \/ \E i \in DOMAIN receipts[t] : CancelReceipt(t, i)

(* A fee category may be deleted whatever plans and receivables it has.    *)
SoftDeleteCategory(k) ==
  /\ k \notin deleted
  /\ Cardinality(deleted) < MaxDeleted
  /\ deleted' = deleted \union {k}
  /\ UNCHANGED <<vars, adjustments, collectedBy, report>>

(* The first statement of a report; the second, with which it answers.     *)
(* Reports only read, so one of them at a time shows all there is.         *)
StartReport(asked) ==
  LET scope == ResolveSchoolFilter(asked.user, asked.filter.school)
  IN  /\ ~ report.running
      /\ scope # SchoolOutOfScope
      /\ report' = [running |-> TRUE, scope |-> scope, filter |-> asked.filter,
                    totals |-> ReportTotals(scope, asked.filter), since |-> 0]
      /\ UNCHANGED <<vars, adjustments, collectedBy, deleted>>

FinishReport ==
  /\ report.running
  /\ report' = NoReport
  /\ UNCHANGED <<vars, adjustments, collectedBy, deleted>>

ReportInit ==
  /\ Init
  /\ adjustments = [r \in Receivables |-> [INCREASE |-> 0, DECREASE |-> 0]]
  /\ collectedBy = [t \in Transactions |-> Nothing]
  /\ deleted = {}
  /\ report = NoReport

ReportNext ==
  \/ \E r \in Receivables, delta \in AdjustmentDeltas : CreateAdjustment(r, delta)
  \/ \E t \in Transactions, amount \in TransferAmounts, o \in Orders \union {NoOrder} :
       Ingest(t, amount, o)
  \/ OtherRequest /\ UNCHANGED <<adjustments, collectedBy, deleted, report>>
  \/ \E k \in Categories : SoftDeleteCategory(k)
  \/ \E asked \in ReportsAsked : StartReport(asked)
  \/ FinishReport

ReportSpec == ReportInit /\ [][ReportNext]_reportVars

-----------------------------------------------------------------------------
(* The other views. *)

(* The latest rows first, cut at the limit: receivables are numbered in    *)
(* the order they were created in.                                         *)
ExportReceivables(scope, filter) ==
  LET rows == ApplyFilters(scope, filter)
  IN  {r \in rows : Cardinality({q \in rows : q > r}) < ExportLimit}

PaymentsIn(scope, school) ==
  {t \in Transactions :
    /\ transactions[t].status # "NONE"
    /\ ApplySchoolScope(scope, collectedBy[t])
    /\ school \in {Nothing, collectedBy[t]}}

Revenue(payments) ==
  [amount |-> Total([t \in Transactions |->
                       IF t \in payments THEN transactions[t].amount ELSE 0],
                    NumTransactions),
   count  |-> Cardinality(payments)]

PaymentsReport(scope, school) == Revenue(PaymentsIn(scope, school))

(* By day or by month: a row for each period that has a transaction. *)
RevenueByDay(scope, school) ==
  [d \in {DayOf[t] : t \in PaymentsIn(scope, school)} |->
     Revenue({t \in PaymentsIn(scope, school) : DayOf[t] = d})]

Figures(rows) ==
  [totalDue         |-> SumOf(rows, "amountDue"),
   totalPaid        |-> SumOf(rows, "amountPaid"),
   totalOutstanding |-> SumOf(rows, "amountOutstanding")]

DashboardSummary(scope, school) ==
  Figures(ApplyFilters(scope, [NoFilter EXCEPT !.school = school]))

(* The receivables of every student with an ACTIVE row in the class, those *)
(* of other years and semesters too.                                       *)
InClass(c) ==
  {r \in Receivables : Exists(receivables[r]) /\ c \in ClassesOf[StudentOf[r]]}

ClassReport(c) == Figures(InClass(c))

ByClass(scope, school) ==
  [c \in {k \in Classes : /\ ApplySchoolScope(scope, ClassSchool[k])
                          /\ school \in {Nothing, ClassSchool[k]}} |->
     ClassReport(c)]

(* The categories of the schools in the scope that are not deleted, and    *)
(* every receivable of a plan of theirs.                                   *)
ByFeeCategory(scope, school) ==
  [k \in {k \in Categories : /\ k \notin deleted
                             /\ ApplySchoolScope(scope, CategorySchool[k])
                             /\ school \in {Nothing, CategorySchool[k]}} |->
     Figures({r \in Receivables : Exists(receivables[r]) /\ CategoryOf[r] = k})]

-----------------------------------------------------------------------------
(* The requests: each resolves the scope of its user first. *)

Respond(scope, view) == IF scope = SchoolOutOfScope THEN SchoolOutOfScope ELSE view

(* A report of the receivables between whose statements nothing commits.   *)
GetReceivables(user, filter) ==
  LET scope == ResolveSchoolFilter(user, filter.school)
  IN  Respond(scope, [totals   |-> ReportTotals(scope, filter),
                      adjusted |-> AdjustmentTotals(scope, filter)])

GetReceivablesSheet(user, filter) ==
  LET scope == ResolveSchoolFilter(user, filter.school)
  IN  Respond(scope, ExportReceivables(scope, filter))

GetPayments(user, school) ==
  LET scope == ResolveSchoolFilter(user, school)
  IN  Respond(scope, PaymentsReport(scope, school))

GetSummary(user, school) ==
  LET scope == ResolveSchoolFilter(user, school)
  IN  Respond(scope, DashboardSummary(scope, school))

GetRevenueByDay(user, school) ==
  LET scope == ResolveSchoolFilter(user, school)
  IN  Respond(scope, RevenueByDay(scope, school))

GetByClass(user, school) ==
  LET scope == ResolveSchoolFilter(user, school)
  IN  Respond(scope, ByClass(scope, school))

GetByFeeCategory(user, school) ==
  LET scope == ResolveSchoolFilter(user, school)
  IN  Respond(scope, ByFeeCategory(scope, school))

-----------------------------------------------------------------------------
(* Properties. *)

Filters ==
  {NoFilter} \union
  {[NoFilter EXCEPT !.category = k] : k \in Categories} \union
  {[NoFilter EXCEPT !.class = c] : c \in Classes} \union
  {[NoFilter EXCEPT !.status = "PAID"]}

(* A report can be followed from its first figure to its last: charged,    *)
(* less discounts, plus and minus the adjustments, is due - but for what   *)
(* the second statement counts and the first did not - and due is paid and *)
(* outstanding.                                                            *)
Follows(totals, adjusted, missed) ==
  /\ totals.totalDue = totals.totalReceivable - totals.totalDiscount
       + adjusted.increase - adjusted.decrease - missed
  /\ totals.totalDue = totals.totalPaid + totals.totalOutstanding

(* The sheet exported with a report's filter: all the rows its counts are  *)
(* of and all that is outstanding, or as many rows as a sheet may have.    *)
SheetIsOf(totals, listed) ==
  LET counted == totals.studentsPaid + totals.studentsUnpaid + totals.studentsPartial
  IN  IF counted <= ExportLimit
      THEN /\ Cardinality(listed) = counted
           /\ SumOf(listed, "amountOutstanding") = totals.totalOutstanding
      ELSE Cardinality(listed) = ExportLimit

(* A report between whose two statements nothing commits follows, its      *)
(* three counts leave no receivable out and its sheet is of its rows.  One *)
(* that others overlap with is off by the adjustments made to its rows     *)
(* since its first statement and by nothing else: receivables charged,     *)
(* discounted, paid and unmatched in the meantime are in none of its       *)
(* figures.  (A filter by status may keep other rows the second time.)     *)
(* The figures come from columns kept by five different requests and from  *)
(* a second statement over receivable_adjustments.                         *)
ReportAddsUp ==
  /\ \A user \in Users, filter \in Filters :
       LET answer == GetReceivables(user, filter)
       IN  /\ Follows(answer.totals, answer.adjusted, 0)
           /\ SheetIsOf(answer.totals, GetReceivablesSheet(user, filter))
  /\ report.running /\ report.filter.status = "NONE" =>
       Follows(report.totals, AdjustmentTotals(report.scope, report.filter),
               report.since)

(* What the plans, categories and classes are meant to be: no code checks  *)
(* it, but the views of a school only fit together where it holds.         *)
CategoriesWithinSchools ==
  \A r \in Receivables : CategorySchool[CategoryOf[r]] = SchoolOfReceivable(r)

ClassesWithinSchools ==
  \A r \in Receivables : \A c \in ClassesOf[StudentOf[r]] :
    ClassSchool[c] = SchoolOfReceivable(r)

StudentsWithinSchools ==
  \A r \in Receivables : SchoolOf[StudentOf[r]] = SchoolOfReceivable(r)

Seen(user) == {s \in Schools : CanAccessSchool(user, s)}

DueByFilter(user, filter) == GetReceivables(user, filter).totals.totalDue

OverSchools(schools, F(_)) ==
  Total([s \in Schools |-> IF s \in schools THEN F(s) ELSE 0], NumSchools)

(* Of one state, a user who asks for no school in particular is shown what *)
(* asking for each of the user's schools in turn would show, of payments   *)
(* as of receivables: no more when there is no school to see, no less when *)
(* a company has several.  The series by day splits the same figures; so   *)
(* do the rows by fee category, but for what is due to the categories that *)
(* were deleted, which the summary still counts; and no class is shown to  *)
(* have paid more than its school - where categories and classes are       *)
(* within schools.                                                         *)
ViewsAddUp ==
  \A user \in Users :
    LET summary    == GetSummary(user, Nothing)
        payments   == GetPayments(user, Nothing)
        byDay      == GetRevenueByDay(user, Nothing)
        byCategory == GetByFeeCategory(user, Nothing)
        byClass    == GetByClass(user, Nothing)
        Due(s)      == GetSummary(user, s).totalDue
        Paying(s)   == GetPayments(user, s).amount
        Paid(s)     == LET scope == ResolveSchoolFilter(user, Nothing)
                       IN  DashboardSummary(scope, s).totalPaid
        OnDay(d)      == IF d \in DOMAIN byDay THEN byDay[d].amount ELSE 0
        OfCategory(k) ==
          IF k \in DOMAIN byCategory THEN byCategory[k].totalDue ELSE 0
        OfDeleted(k) ==
          IF k \in deleted THEN DueByFilter(user, [NoFilter EXCEPT !.category = k])
                          ELSE 0
    IN  /\ summary.totalDue = OverSchools(Seen(user), Due)
        /\ summary.totalDue
             = Total([k \in Categories |-> OfCategory(k)], NumCategories)
                 + Total([k \in Categories |-> OfDeleted(k)], NumCategories)
        /\ payments.amount = OverSchools(Seen(user), Paying)
        /\ payments.amount = Total([d \in Days |-> OnDay(d)], NumDays)
        /\ \A c \in DOMAIN byClass :
             byClass[c].totalPaid <= Paid(ClassSchool[c])

(* What a school's receivables count as paid, its payments report has      *)
(* received, unless transactions of other schools were matched by hand to  *)
(* orders of this one: reconciliation takes any order, a notification only *)
(* brings money to the school of the order it names.  That is where the    *)
(* school of a plan is that of the students it charges.                    *)
PaymentsCoverReceivables ==
  \A s \in Schools :
    LET byHand == {t \in Transactions :
                     /\ reconciliations[t].status = "MANUAL_MATCHED"
                     /\ collectedBy[t] # s
                     /\ SchoolOfOrder(reconciliations[t].order) = s}
    IN  DashboardSummary(Only({s}), s).totalPaid <=
          PaymentsReport(Only({s}), s).amount + Revenue(byHand).amount
=============================================================================
