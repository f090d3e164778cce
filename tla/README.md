# Formal model of the school-fee back end

TLA+ modules, TLC configurations and TLAPS proofs about the NestJS/PostgreSQL
back end under `src/src`: fees are charged to students as receivables, parents
pay by bank transfer, the bank's notifications are matched to payment orders and
allocated to receivables, surpluses become credits, and every movement is posted
to a student ledger. Around that engine: the bank's gateway, the reports, and the
school office with its codes, school years, fee plans, imports and notifications.

The money is the point: the properties are about money that must not be lost,
counted twice or made up, and about the records that must agree about it; those of
the office are about who is charged, under which code, for which year.

## Inventory

| Component | State it keeps | Operations that change it | What makes it correct |
|---|---|---|---|
| receivables | `student_receivables`: original, discount, adjustment, due, paid, outstanding, status | `createIfNotExists`; `applyDiscountDelta`, `applyAdjustmentDelta`, `applyPaymentDelta`, `reversePaymentDelta` (row lock, recompute, save) | paid = live allocations; never paid beyond what it lacks |
| payment-orders | `payment_orders` (status), `payment_order_items` | `create`, `getQr` (lazy expiry) | PAID only when nothing is outstanding; PAID and EXPIRED are final |
| payment-transactions | `payment_transactions`, unique on (provider, externalTransactionId) | `ingest` from a webhook or by hand | each bank transaction is recorded and allocated once |
| payment-allocations | `payment_allocations` (amount, reversed) | `allocateToOrder`, `reverseByTransaction` | nothing allocated beyond the transfer, surplus becomes credit |
| reconciliation | `bank_reconciliations` (status, order) | `match`, `unmatch` | status, order and allocations agree |
| student-credits | `student_credits` (amount, remaining, status) | created by allocation, voided by unmatch, drawn by refund | never negative, never spent twice |
| refunds | `refunds` | `create` | within the transaction's own credits |
| receipts | `receipts`, `receipt_items` | `issue`, `cancel`, `cancelByTransactionId` | one receipt in force per allocated transaction, for its amount |
| discounts, adjustments | their document tables | `create` | the receivable and the ledger move together |
| ledger | `student_ledger_entries`, append-only | `post` | its balance follows the books |
| fee-plans, fee-assignments | plans, assignments | `assign` charges a plan to students, split over semesters | one receivable per student, plan and semester |
| sequence codes | `number_sequences` | `next` (upsert and increment) | unique, and "gap-free" by its comment |
| academic-years, semesters, student-classes | years, halves, class of a student in a year | `getCurrent` (writes), `synchronizeDefaults`, `assign` | one current year per school |
| imports | `import_sessions` | `preview`, `confirm` | a session is confirmed once |
| viettinbank gateway | none of its own | `inqBill`, `notifyBill` in front of `ingest`, `generateQr` before an order is saved | its answer tells what was recorded; the money of a bill reaches its order |
| notifications (Zalo) | one OAuth token row | `getValidAccessToken`, `refresh` | the one good refresh token is never lost |
| access-control | none | `resolveSchoolFilter`, `applySchoolScope` | an empty scope means nothing, not everything |
| students, classes, schools, companies, users, fee-categories, fee-plans | records with a code, unique by an index | create (chosen or generated code), update, delete | who asks for no code gets a free one |
| reports, dashboard, exports | none | queries | figures add up, and agree with each other |
| parent-portal | none | order creation and QR of payment-orders | - |
| auth, audit-logs, common, migrations | tokens, a log | - | - |

How they interact. Everything is a service method called in one process;
components share the PostgreSQL database and pass one `EntityManager`, so that a
request's writes are one database transaction (READ COMMITTED). `ingest` and
`match` call `allocateToOrder`, which locks and updates receivables, posts to
the ledger, creates a credit, saves order and transaction and issues a receipt;
`unmatch` calls `reverseByTransaction` and `cancelByTransactionId` and voids
credits. The bank calls the webhook, possibly several times.

What is hard. Long sequences of payments and corrections of the same rows;
surplus, refund and reversal of one transaction; requests that interleave
between an unlocked read and a locked write; the order in which foreign keys and
`FOR UPDATE` take row locks; a notification that fails and is or is not sent
again. `PROJECT.json` lists each hazard at the line where it bites.

## Modules

* `Sums` - totals of a table's rows, as running totals (the `reduce(...)` calls).
* `Receivables` - one receivable's row and the functions that change it, with the
  names of `ReceivablesService`.
* `Accounting` - the engine with one action per request, requests one after the
  other. `EXTENDS Receivables, Sums`.
* `ReadCommitted` - what the code relies on of PostgreSQL and TypeORM: committed
  rows, the open versions of each transaction, READ COMMITTED reads, and `save`,
  which writes only the columns that differ from what its own SELECT returned. It has
  its own operators for sets of row versions, as the prover knows none of TLC's.
* `ConcurrentPayments` - the payment requests statement by statement, all at
  once. `EXTENDS ReadCommitted, Receivables, Sums`.
* `TransferBooks` - the abstract specification: what the accounting principles of
  `src/README.md` (3 to 5) promise of the bank's transfers, without requests,
  transactions or locks.
* `Reports` - what reports, dashboard and exports show of `Accounting`, through the
  scope of each user. `EXTENDS Accounting`, whose steps it gives two more columns, and has
  two kinds of steps of its own: fee categories are deleted, and a report is between its two
  statements.
* `Gateway` - VietinBank around `Accounting`: bills, payments, notifications, their
  answers. `EXTENDS Accounting`, with six variables of its own.
* `OfficeRequests` - requests of the office on the rows of `ReadCommitted`: the
  statement each runs next, waits, deadlocks, crashes, the clock, and the counter of
  `SequenceService.next`.
* `CodedRecords`, `SchoolYears`, `FeeCharging`, `Imports` - the handlers of the
  office, each module extending the one before, as the code calls the one before:
  a class is created in the current year, an import creates students and charges
  them. `ZaloNotifications` extends `OfficeRequests` alone.
* `Office` - all of them at once: the next-state relation, the fairness and the
  properties.
* `MCAccounting`, `MCConcurrentPayments`, `MCReports`, `MCGateway`, `MCOffice` - the
  values of the constants and the workloads for TLC.
* `ArithmeticTheorems`, `AccountingTheorems`, `LedgerTheorems`, `GatewayTheorems`,
  `ConcurrentTheorems`, `PaymentTheorems`, `OfficeTheorems`, `ReportTheorems` - theorems
  and proofs.

### Accounting: state and actions

| Variable | Table |
|---|---|
| `receivables[r]` | `student_receivables`; status `"NONE"` is a row that is not there |
| `orders[o]` | `payment_orders` and the receivables of its items |
| `transactions[t]` | `payment_transactions`; `t` stands for a (provider, external id) pair |
| `reconciliations[t]` | `bank_reconciliations`, one per transaction |
| `allocations[t][r]` | sum of the rows of `payment_allocations` with `reversed = false` |
| `credits[t]` | `student_credits` whose source is `t`, oldest first |
| `refunds[t]` | sum of the refunds of `t`, which are created COMPLETED |
| `receipts[t]` | `receipts` of `t`, oldest first |
| `ledger[s]` | the balance of `student_ledger_entries` of `s` (`getBalance`) |

| Action | Code |
|---|---|
| `CreateReceivable` | `ReceivablesService.createIfNotExists` |
| `Discount`, `Adjust` | `DiscountsService.create`, `AdjustmentsService.create` |
| `CreateOrder`, `GetQr` | `PaymentOrdersService.create`, `.getQr` |
| `IngestMatched`, `IngestUnmatched` | `PaymentTransactionsService.ingest` |
| `Match`, `Unmatch` | `ReconciliationService.match`, `.unmatch` |
| `Refund`, `CancelReceipt` | `RefundsService.create`, `ReceiptsService.cancel` |

A request that is refused throws, its database transaction rolls back, and no
action is taken. A second report of a transaction inserts nothing and changes
nothing. Money is a whole number; amounts are inputs, so a percentage is the
amount it comes to. Statuses nothing in the program ever sets (a receivable's
CANCELLED and DRAFT, an order's CANCELLED and FAILED, a transaction's MATCHED
and REVERSED, a credit's HELD and ALLOCATED) are left out, except the guards on
CANCELLED receivables, which are kept. `"RECEIVED"` lasts only inside `ingest`.

### ConcurrentPayments: state and actions

`committed` maps every row to its committed version and `written[p]` holds what
request `p` has written and not committed; `pc[p]` is the statement `p` runs next
and `local[p]` the variables of its code. One request runs in one database
transaction, as `dataSource.transaction(...)` makes it do.

| Request | Steps |
|---|---|
| notification (`ingest`) | `Ingest` (insert, or the end of a duplicate), `FindOrder`, then the allocation |
| `match` | `Match`, `ReadTransaction`, `ReadOrder`, the allocation, `SaveReconciliation`, `UpdateReconciliation` |
| allocation (`allocateToOrder`) | per item `ReadItem` (no lock), `SaveAllocation` (insert), `ApplyPayment` (`FOR UPDATE`, check, update); per item `CheckItem`; `SaveOrder`, `UpdateOrder`, `SaveTransaction`, `UpdateTransaction`, `IssueReceipt` |
| `unmatch` | `Unmatch`, `FindAllocations`, `ReversePayment` for each, `FindReceipt`, `CancelReceipt`, `FindCredits`, `VoidCredit` for each, then transaction and reconciliation as above |
| `getQr` past the deadline | `GetQr` (read), `SaveOrder`, `UpdateOrder` |
| discount | `Discount` (read and check), `SaveDiscount`, `ApplyDiscount` |

`Commit` ends a request, `Fails` rolls it back. A statement that writes or locks a
row runs only when `Blockers` is empty: nobody else has an open version of the
row, and, for `FOR UPDATE`, nobody else has inserted a row that refers to it by
foreign key (a KEY SHARE lock, which an insert takes on the receivable). A save is two
steps, its SELECT and its UPDATE. `DeadlockVictim` is PostgreSQL's answer to a
cycle of waits, `Crash` a connection lost before the commit, `Redeliver` the gateway
calling `notifyBill` again after an error. Refunds and manual receipt
cancellations are in `Accounting` only. A behaviour starts with one of the
`Workloads`: the requests, and whether the gateway waits.

### Reports: state and operators

| Variable | Meaning |
|---|---|
| `adjustments[r]` | the totals of the APPROVED `receivable_adjustments` of a receivable, by type |
| `collectedBy[t]` | the school of a transaction, which `resolveSchoolId` settles when it comes in: that of the order its content names, else that of the account it was paid to (`AccountOf`) |
| `deleted` | the fee categories that have a `deletedAt` |
| `report` | a `receivablesReport` between its two statements: its scope, its filter and what the first has returned (`totals`); `since` is no state of the program but adds up the adjustments committed to its rows since then |

`CreateAdjustment` and `Ingest` are `Adjust` and the two ingests of `Accounting` with these
columns; every other step of the engine leaves them alone. `SoftDeleteCategory` is
`FeeCategoriesService.softDelete`, which does not ask whether the category has plans;
schools are those that are not deleted. `receivablesReport` runs two statements in no
transaction, each of which sees another state: `StartReport` is the first (`ReportTotals`),
`FinishReport` the answer after the second, whose result in a given state is
`AdjustmentTotals`. One report at a time is enough, as reports only read. The other queries
are operators that read one state: `PaymentsReport`, `ClassReport`, `ExportReceivables` (the
latest rows, up to `ExportLimit`), `DashboardSummary`, `RevenueByDay` (and by month),
`ByClass`, `ByFeeCategory` (categories that are not deleted). `GetReceivables` and the other
`Get...` are the routes, which resolve the scope of their user first; asking for a school
out of it is refused (`SchoolOutOfScope`, a 403).

A receivable is of the school of its fee plan (`PlanSchool`), an order of that of its student
(`SchoolOf`), a fee category and a class of one of their own (`CategorySchool`, `ClassSchool`),
and the views by category and by class ask for the latter. The code compares none of them: an
assignment takes the students and classes it is given, a plan any category, a student any class.
The reports of two schools only fit together where they agree
(`StudentsWithinSchools`, `CategoriesWithinSchools`, `ClassesWithinSchools`), as in the instance
of the run; the theorems about them have these as hypotheses.

### Gateway: state and actions

| Variable | Meaning |
|---|---|
| `drafts[o]` | an order in the middle of `PaymentOrdersService.create`: checked, its QR asked of the bank, not saved |
| `requested[o]` | `requestedAmount` |
| `pastDeadline` | orders whose `expiresAt` has passed |
| `told[o]`, `payments[t]`, `heard[t]` | the bank's side: the amount last told of a bill, the transfers it has made, the answer it heard last |

`AskBankForQr`, `SaveOrder` and `QrFails` are the three ends of the await in `create`;
`InqBill` and `NotifyBill` the two handlers; `NotifyUnheard` a notification whose
answer is lost, or a late duplicate; `PayBill` and `PayAtCounter` are the bank's.
`OfficeWorks` is what the accounting does meanwhile. An amount is counted in
fractions, `UnitsPerDong` to the dong, since the columns have two decimals and the
bank is told `toFixed(0)`.

### Office: state and actions

Rows and writers are those of `ReadCommitted`. A row is named by its table and key:
a record's unique code, a year, a (student, plan, semester), a session, the one token.
`pc[p]` is the statement request `p` runs next, `wants[p]` the rows that statement
writes - it waits while another transaction has written one of them, which is also
how PostgreSQL treats two inserts of one unique key - and `local[p]` the handler's
variables. Statements outside a transaction commit at once (`WritesAtOnce`).

| Module | Code |
|---|---|
| `CodedRecords` | `create` (look up, draw a code, insert, draw another), `update`, `softDelete`, `remove` of companies, schools, classes, students, fee categories, fee plans, users |
| `SchoolYears` | `AcademicYearsService.getCurrent` (`GetCurrent`, `CloseYear` per year, `OpenYear`, `CommitYear`) and `SemestersService.splitAcademicYear` |
| `FeeCharging` | `ReceivablesService.createIfNotExists` (look up, draw a code, insert), `FeeAssignmentsService.assign` (all students in one transaction, who is charged is skipped), `FeePlansService.update` |
| `Imports` | `preview` with `ImportValidationService.validate`, `confirm` (per row: student, enrolment, charge; then the session) |
| `ZaloNotifications` | `notifyParentForOrder`, `sendTemplate`, `getValidAccessToken`, `refresh` |

The service's `create`, `update` and `remove` of school years have no caller; years
only change by being read. Endpoints of Zalo are rows written at once. A request to notify
a parent `lacks` the telephone, the template or the account with Zalo, or nothing: without
telephone or template it is refused before anything is logged (`CanBeSent`), without an
account the failure is logged. A fee plan that has receivables is not removed
(`HasReceivables`: the foreign key is RESTRICT, and whether there are any is the
workload's choice). A row of an import whose class was renamed since the preview
is charged without being enrolled (`WithClasses`). Removing a class takes its
`student_classes` rows with it (CASCADE); that is left out, as no workload removes a class
that an import enrols in.

## Runs

| Run | Checks | Bounds |
|---|---|---|
| `allocation` | `PaidIsAllocated`, `SurplusBecomesCredit`, `ReconciliationAgrees`, `OrdersSettleForGood` | 2 receivables of 2 units of one student, 2 orders over every list of them, 2 transactions of 0, 1 or 3 units, 2 receipts each |
| `corrections` | `TypeOK`, `PaidIsAllocated`, `ReceiptsMatchPayments`, `RefundsWithinCredits`, `NeverOverpaid`, `LedgerTracksBooks` | 2 receivables of two students, 2 orders, 1 transaction of 3 units, discount 1, adjustment of +1 or -1 kept within 1, refunds of 1 or 2 |
| `rematch` | `TransactionMoneyConserved`, found violated | as small as shows it |
| `ledger_books` | `LedgerMatchesBooks`, found violated | as small as shows it: one receivable of 2, one transfer of 3 |
| `reports` | `ReportAddsUp`, `ViewsAddUp`, `PaymentsCoverReceivables` | 2 schools of one company, a student with a receivable of 1 in each, 1 order, 2 transactions of 2 on two days, discount and adjustment of 1; 2 classes, of which one from last year; 2 fee categories, of which one is deleted; sheets of 1 row at most; a user of each kind of scope, and a cashier's report that others overlap with |
| `concurrent` | `RowsHaveOneWriter`, `PaidIsAllocated`, `TransferCountsOnce`, `PaidOrdersLackNothing`, `ReceiptNumbersGapFree`, `OneReceiptInForce`, `DiscountIsGranted`, `NeverOverpaid`, `KeepsTransferBooks`, `EveryRequestEnds`, `EveryTransferRecorded` | five workloads of up to four requests over receivables of 2 and 2 and transfers of 3, 2 and 1: three notifications of two transfers to orders that list the receivables in opposite order, with and without a manual match; a notification, an unmatch and two matches; a payment, two discounts and a QR; 1 crash |
| `office` | the properties of `Office` | 25 workloads of two or three requests; 1 crash each; the clock passes 1 September, or an access token's day, once |
| `gateway` | `AnswersHold`, `BillMoneyReachesItsOrder`, `BillAmountSettles`, `EveryPaymentAcknowledged` | 1 receivable of 4 or 5 thirds of a dong, a discount of 4, 2 orders for all or 3 of it, 2 transfers, at the counter of 3; orders and transfers together at most 3; 1 receipt for each |
| `double_match` | `TransferCountsOnce`, found violated | two matches |
| `qr_after_payment` | `MatchedOrderShowsPaid`, found violated | a notification and a QR request |
| `import_twice` | `RowsImportedOnce`, found violated | two confirmations of a session of one row |
| `changed_billing` | `AssigningIsIdempotent`, found violated | a plan assigned, changed and assigned again |

Bounds, by name: `MaxReceipts` bounds how often one transaction is matched,
`MaxAdjustment` how far adjustments take a receivable. They are enough for the
cases that matter: a transfer of 3 for items of 2 leaves a surplus, pays the
second item in part, or pays an item a second transaction pays the rest of; two
matches of a transaction give it two receipts and two credits, possibly of two
students; a discount after a payment takes the outstanding amount below zero.
Deadlock is not checked: an engine no request can change any more simply waits.
No fairness is assumed in `Accounting`: the program promises no request by itself.

In `ConcurrentPayments` the workload is the bound (`NumRequests`, `Workloads`) with
`MaxCrashes`. Four requests over two shared receivables are enough for every lock
cycle the code can make (two payments of one receivable; two orders listing two
receivables in opposite order), for a request that starts before, between and
after any statement of another, and for a surplus. Payments, corrections and
charges are separate workloads because the interleavings of all kinds at once are
too many. A deadlock of the model is not an error: requests end.

In `Reports` `MaxAdjusted` and `MaxAdjustment` bound adjustments, `MaxDeleted` the deleted
categories, and `ExportLimit` (10,000 rows in the code) is one less than the receivables, so that
a sheet may be whole or cut. One order and two transactions are enough for a match across
schools, which the property allows for, and for a payment named by one school's order and sent
to the other's account. A report of one school is overlapped with every request on the
receivables of its own school and of the other.

In `Gateway` `MaxInPlay` bounds orders and transfers together: two orders and one
transfer, or one order and two transfers, cover a bill paid twice, a bill and
a counter transfer for the same order, and two bills for one receivable. Four and
five thirds of a dong are rounded down and up, and a discount takes them to zero or
below half a dong. `EveryPaymentAcknowledged` needs weak fairness of `NotifyBill(t)` for
each transfer: the bank goes on notifying what it has not heard "00" for, and not
every answer is lost. That is an assumption about the bank, as its protocol has it;
nothing is assumed of the program beyond answering.

In `Office` the workloads (`MCOffice`) put together the requests that touch the
same rows, on rows chosen so that the case happens: codes already taken by older
records, a deleted student's code, a year from the example data, files that repeat
codes and identifiers, an expired token. Two or three requests and one crash are enough
for two writers and a late third. `Requests`, `Codes`, `Years`, `Students`, `Sessions`,
`Identifiers` are as large as the workloads use, and `Codes` larger than any loop can
draw. The fairness is one weak fairness for all requests: as long as a statement can
run, or PostgreSQL finds a deadlock, one of them goes on. Since every request that goes
on comes nearer its end, that is all `EveryOfficeRequestEnds` needs; the clock and crashes have
none. Deadlock is checked here: `AllEnded` is the only step of a finished workload.

Fairness of `ConcurrentPayments` (`FairSpec`) is of the same form, one weak fairness of the
statements, deadlock victims and repetitions together. The gateway repeats a
notification answered with an error; the repository only shows that repeats are
expected (the duplicate test of the controller), so this is an assumption about the
bank. `Crash` has none. `gatewayWaits` is the workload's choice: the repetition comes when
no database transaction is open. Without it `EveryTransferRecorded` fails: two
notifications whose orders list the same receivables in opposite order can
deadlock, be repeated at once, and deadlock again for ever. The two liveness properties
therefore speak of the workloads in which it waits.

What the violations show.

* `rematch`: a transfer leaves a surplus, the surplus is refunded, the transfer
  is unmatched and matched again - and its whole amount is allocated, although
  part of it was paid back. The doc comment of `reverseByTransaction` says that a
  refunded credit blocks the reversal; nothing does.
* `double_match`: two staff members match one transfer at the same moment, to two
  orders. Both read the reconciliation row as UNMATCHED; the whole amount is given
  out twice. `KeepsTransferBooks` and the other properties of `concurrent` hold since at
  most one match of a transfer runs at a time there; that is the condition under which
  the books are right, and the code has no lock that brings it about.
* `qr_after_payment`: the QR of an order past its deadline, asked for while a
  payment commits, overwrites PAID by EXPIRED. A later payment of that order would not
  be matched to it.
* `import_twice`: two confirmations of one session both find it pending. Rows without a
  student code create their student twice; rows with a code are saved from it by the unique
  index, which makes one of the two confirmations fail.
* `changed_billing`: a plan of the whole year is assigned, then billed by the month and
  assigned again: the student is charged the year and both halves. The receivables
  that are there are looked for in the new slots only.
* `ledger_books`: a transfer leaves a surplus and is unmatched. The allocations are
  reversed by a ledger entry, the credit is voided by none, and from then on the student's
  balance is lower than what the receivables say the student owes - while the repository's
  README has the balance reconcile every figure of the reports. `LedgerTracksBooks` says
  that nothing else takes the ledger away from the books of a student, except that a refund
  is posted to one student, the one of the oldest credit it draws from.

Other disagreements met on the way, which no run states. `inqBill` tells the bank an
order's `requestedAmount`, also when part of it has been paid by a transfer matched by hand
(`viettinbank.controller.ts:81`); the comment of the controller says that the bank asks
how much is owed (16-17). The repository's README (79-80) says that every sending
to a parent, whether it succeeds or not, is logged, and that an error of sending never breaks
the request: a missing telephone or template ends the request with an error and no log
(`CanBeSent`). Two unmatches of one transfer at once reverse its allocations twice, and two
discounts at once can exceed the original amount together: both checks are made before the
lock. A plan of several months that is imported (charged whole) and assigned (charged in
halves) charges the student twice: the unique index has the semester in it.
`sequence.service.ts` calls order codes gap-free, but an order whose QR fails has drawn one.
The comment in `import-validation.service.ts` says its check keeps raw constraint violations
from `confirm`, but the code of a deleted student passes it and aborts the confirmation.
A transaction can be matched by hand to an order of another school. A fee category can be
deleted while students owe for it: the summary of the dashboard counts what they owe, its rows
by category no longer do. A receivables report with an adjustment committed between its
two statements shows an increase or decrease that its amount due does not have.

What the refinement says. `KeepsTransferBooks` maps the committed rows to the
state of each transfer, how much of it is on each receivable and how much is kept as
credit. Every commit of a request is then one step of `TransferBooks` -
recording a transfer, or allocating all of it at once, to the receivables of one
order, with credit only when none of them lacks anything - and every other
statement, failure or crash is a stutter.

## Proofs

Every theorem holds for every value of the constants that the assumptions allow: any
number of receivables, orders, transfers, students and requests, and any amounts.
They assume `SizesAssumption` and `InputsAssumption` (`Accounting`: the tables are
numbered, the amounts that come in are integers of the sign the DTOs demand),
`UnitsAssumption` (`Gateway`: a dong has some number of units), `WorkAssumption` and
`RowsAssumption` (`ConcurrentPayments`: what a request of each kind names exists, fees and
transfers are not negative, orders have items), and the assumptions of `Office` about its
workloads (there are finitely many requests; a school year has two days at least) and about
the rows they start from, each of which is the property in question read of the rows that are
there before: receivables numbered without gaps, semesters that tile their years, a stored
token that Zalo takes, nothing made yet by a request that is still to come; and in `Reports`
`ReportSizesAssumption` and `RecordsAssumption`, that each record is of some school. None of them
bounds anything the code does not, and TLC evaluates them all. Two theorems have hypotheses of
their own, in the table below.

| Module | Theorem | Argument |
|---|---|---|
| `ArithmeticTheorems` | `TotalUpdate`, `TotalAtLeastRow`, `TotalByOwner`, `TotalDrawn` and lemmas | what a running total is for a table of any length, and what each delta of `ReceivablesService` does to a row |
| `AccountingTheorems` | `TypeCorrect` | `TypeInv`: `TypeOK`, and an order that exists has items (the student credited is that of the first) |
| | `PaidIsAllocatedAlways` | `PaidInv` on top of it: a receivable not yet created has nothing paid |
| | `ReconciliationAgreesAlways` | `ReconciliationAgrees` is inductive once every receivable's amounts add up (`RowsInv`) |
| | `SurplusBecomesCreditAlways`, `ReceiptsMatchPaymentsAlways` | from `ReconciliationAgrees`: only an unmatched transfer is matched, and it has no allocation left |
| | `NeverOverpaidEver`, `OrdersSettleForGoodEver` | action properties, from `RowsInv`: each share is at most what the row lacks |
| | `RefundsWithinCreditsAlways` | what a refund draws from the credits, oldest first, is what it pays out (`TotalDrawn`) |
| `LedgerTheorems` | `LedgerTracksBooksEver` | per request, what it posts is what it does to the student's rows, unless a credit of the student is voided; needs `OneStudentPerOrder`, since the credit goes to one student |
| `GatewayTheorems` | `AnswersHoldAlways`, `BillMoneyReachesItsOrderAlways` | `GatewayInv`: what was answered agrees with what is recorded, per transfer; an order in draft is not there yet |
| | `BillAmountSettlesEver` | an allocation in full lowers what the order lacks by the amount, or to nothing; rounding costs half a dong |
| `ConcurrentTheorems` | `RowsHaveOneWriterAlways` | `WriterInv`, below |
| `PaymentTheorems` | `NeverOverpaidAtOnce` | action property, from `AmountsInv`: what each request has written is what it may do to the committed row |
| | `ReceiptNumbersStayGapFree` | `ReceiptsInv`: the committed numbers are a bijection onto 1 to the last; who holds the sequence row has written the receipt |
| | `PaidOrdersNeverLack` | `OrdersInv`: what a request has found of the items so far stays true while it goes on |
| | `DiscountIsGrantedAlways` | `DiscountsInv`: an open version of a receivable differs from the committed one by its writer's grant |
| `OfficeTheorems` | `SemestersAlwaysTile` | `TilesInv`: in what is committed, and in what each request that has a version of the year would commit |
| | `ACurrentYearAlways` | `CurrentInv`: who closes years is on the way to open one, and commits both together |
| | `ReadingSettlesTheYearAlways` | `SettleInv`: who comes last still has on its list every open year it has not closed |
| | `AssignmentsAlwaysChargeOnce` | `ChargesInv`: between two halves of a student the second comes next, and no other request commits one of them alone |
| | `ReceivableCodesStayGapFree` | `CodesInv`: who holds the counter has written the receivables numbered from the committed count on |
| | `ImportsAllOrNothingAlways` | `MadeInv`: what a confirmation has made is in its open versions only |
| | `TokenIsNotLost` | `TokenInv`: one request at most holds the token Zalo takes next |
| | `LogsAlwaysTellTheTruth` | `LogsInv`: a log is written by the request it is of, after the message; who has not ended has logged nothing yet |
| `ReportTheorems` | `ReportAddsUpAlways` | `AdjustmentsInv`: the adjustment of a receivable is what its APPROVED rows come to, and no request but `Adjust` changes it; `UnderWay`: what the first statement of a report has read, and what was adjusted since |
| | `ViewsAddUpAlways`, if `CategoriesWithinSchools` and `ClassesWithinSchools` | `CollectedInv`: a known transaction has a school; each view is a split of the same rows (`TotalByKey`), the rows of a deleted category being those a filter by it keeps |
| | `PaymentsCoverReceivablesAlways`, if no transfer is negative (`TransferAmounts \subseteq Nat`) and `StudentsWithinSchools` | `CollectedInv`: a transaction matched by its content is of the school of its order; `TotalSwap` |

Totals. The induction is over row numbers and is first-order: the least row at which
the claim would fail (`LeastNumber`, from the well-foundedness of `<`) has a predecessor
at which it holds (`RowInduction`). The loops of the code - items of an order, credits of
a refund - are functions on the number of turns, and their invariants (`RunOK`: available
plus allocated is the amount; `RunSound`: rows add up) go by the same induction.

One action, several handlers. `IngestMatched` and `Match` end in the same allocation:
`Pays` states what both do, and each property is proved of `Pays` once. In the gateway a
step of the engine is split in the same way (`Settles`, `Waits`), so that the theorems of
`AccountingTheorems` carry over to `GatewaySpec`, whose engine steps are those of
`Accounting`.

Rows with one writer. `RowsHaveOneWriter` is far from inductive: most statements look
at no lock, and write rows nobody else can have an open version of only because of how
their request came there. `WriterInv` says how:

* the code: each kind of request stays on its own statements (`StaysOnPath`), its
  variables hold what those statements use (`LocalsOK`: an item of the order), and what is
  still to be reversed or voided belongs to requests that have committed (`TodoOK`);
* rows with a key of their own: until a request has committed, its allocations, its
  credit, receipt and discount are not in the tables (`Unborn`), so that only itself can have a
  version of them (`OwnOrCommitted`);
* the rows of a transfer: a notification that goes on has inserted its transfer, which is
  not committed before (`HoldsTransfer`, by the unique index), whereas match and unmatch work on a
  committed one, and so never on the same; a transfer and its reconciliation are committed
  together (`KnownTogether`). Two matches of one transfer do meet at its rows, and are kept
  apart by the waits of `UpdateTransaction` and `UpdateReconciliation`.

`WriterInv` was an invariant of `concurrent` before it was proved, one lemma per statement.

Money on top of it. The theorems of `PaymentTheorems` compare what a request has written
with what is committed, which only makes sense because nobody else can commit those
rows meanwhile. `StepEffects` says once what every step is: it moves one request, and it reads,
rolls back, commits, or writes rows of which only the named statements write the tables in
question (`Touches`). Each property is false by itself of an open transaction, so its invariant
follows the request from its first statement:

* `AmountsInv`: a payment's version of a receivable lacks no less than nothing, any other's has
  no more paid than the committed row (`Successor`), and an allocation hands out numbers
  (`Handing`). The check of `applyPaymentDelta` under the lock is what makes it inductive; what
  `ReadItem` saw before it is never used.
* `ReceiptsInv`: a request that has drawn a number is in its last statements, so that it draws no
  second one, and it has written the receipt the number is for (`Numbering`). A failure gives back
  both, since number and receipt are rows of the same transaction.
* `OrdersInv`: without an unmatch what a receivable lacks only falls, for whoever looks
  (`LackedFalls`): payments and discounts lower it, and another's commit replaces what was read
  by something smaller. So items found settled one by one are settled together (`Deciding`), also
  when a save keeps the PAID that another wrote between its SELECT and its UPDATE.
* `DiscountsInv`: a discount has written its own row when it locks the receivable, and both when
  it commits (`Granting`); the total over requests then grows by as much (`TotalUpdate`).

All four were invariants of TLC runs over workloads of three requests before they were proved.

The office. `WriterInv` says who writes what there, too, and is simpler than that of payments, as a
request that is to write says so: `wants[p]` are the rows its next statement writes, and it waits while another has
written one of them. The invariant says that each statement wants what it writes (`WantsOK`), that
each kind of request stays on its statements (`OnPath`) and has written into its own tables only
(`HeldOK`), and that outside of a transaction nobody holds anything. On the one path where a
statement writes what it does not want - the semesters of a year - the year itself is held
(`SemestersHeld`). `StepOK` says once what every statement does to the rows (`Effect`: writes
alone, writes inside, commits, rolls back, or leaves them) and `Touches` which rows it may
write, so that each property looks only at the statements of its table:

* `TilesInv`: a year and its halves are always written by one transaction. It sees the year either
  committed or its own (`SeesGood`), and closing a year leaves the days of its halves alone.
* `CurrentInv` and `SettleInv`: a commit brings the closed years together with the open one, and
  several readings of the year close the same rows one after the other. Two of them around the first
  of September may leave two years open, which is why only the last reading settles it.
* `CodesInv`: between drawing the code and the insert a request holds the counter, so that the
  number it has drawn is one more than those it has written. A failure gives back both, as the
  counter is a row of the same transaction, which is why receivables have no gaps and order codes have.
* `ChargesInv`: the property is false of an assignment that is under way. Its list goes through the
  students half after half (`Paired`, `Follows`), so that a first half without its second means
  that the second is in turn (`HalvesOK`). When the second half turns out to be charged and the
  first was not, the two were not of one assignment: what assignments have committed they have
  committed in pairs (`Together`). That needs the slots of the plan to stay the same (`TermsOK`), hence
  the condition `KeepsBilling`; `changed_billing` shows what happens without it. The theorem leaves
  the prices free: halves at different prices are excluded since one request makes both.
* `MadeInv`: a confirmation's students and receivables are made inside its transaction, and the
  requests that could touch them from outside - an update or a deletion of a student - keep
  whose they are.
* `TokenInv`: the token Zalo takes is a row of Zalo's, written at once; between `askToken` and
  `saveToken` it is known to one request alone. Others hold older ones, which Zalo refuses. A
  crash there loses it, and the property excepts crashes.

All were invariants of `office` before they were proved.

The reports. A step of `Reports` is a step of the engine (`EngineStep`), so that every behaviour
of `ReportSpec` is one of `Spec`, and the theorems of `AccountingTheorems` and `LedgerTheorems`
hold of it (`Books`). On top of them come two columns, the report under way, and ways to add up rows:

* `AdjustmentsInv` ties the second statement of the report to the column of the first. Allocations,
  reversals and discounts rewrite the row and recompute its amounts, and keep the adjustment in it
  (`RunKeepsAdjustments`, through the loop over the items of an order).
* `UnderWay` does so for a report between the two: what the first has read is due less what has
  been adjusted since. Only an adjustment of one of its rows moves either side; a
  receivable that is charged in between is among the rows of the second statement, and has nothing adjusted
  (`AdjustmentNet`). A filter by status is excepted, as a row may enter or leave it in between.
* a sheet is cut to the latest rows: the rows that come after one are fewer with each
  row, so that exactly as many are listed as the limit allows (`LatestRows`).
* what is due is then a sum of tables row by row (`TotalPlus`); the three counts split the rows
  that are there, since no request ever cancels one.
* a split by school, category or day is a total by the key of each row, whatever keys there are
  besides (`TotalByKey`); the scope of a user holds exactly the schools `canAccessSchool` lets the user
  see (`ScopeIsSeen`), though the code decides the two apart.
* what receivables count as paid is the total of all allocations, first by receivable
  (`PaidIsAllocated`) and, turned around by `TotalSwap`, by transaction (`PaidByTransaction`). A
  transaction that has given something to a school's receivables is matched, gives no more than
  its amount (`SurplusBecomesCredit`), and is of the school of the order or matched by hand
  (`GivenIsCollected`, which needs `OneStudentPerOrder`).

Only model-checked:

* liveness (`EveryPaymentAcknowledged`, `EveryRequestEnds`, `EveryTransferRecorded`,
  `EveryOfficeRequestEnds`): the prover has neither fairness nor ENABLED;
* `PaidIsAllocated`, `TransferCountsOnce`, `OneReceiptInForce` and `KeepsTransferBooks` of
  `ConcurrentPayments`: they are not theorems of every workload, but hold while no two
  corrections of one transfer run at once (see `double_match`);
* `GeneratedCodeIsNeverRefused` of `Office`: it holds of the workloads of the run; in a larger one
  two readings of the year that wait for each other's years can be ended by PostgreSQL;
* `SummaryIsTrue` of `Office`: its counts need the rows of two tables told apart over renamed codes.

## Plan

Done so far: the accounting engine (`Accounting`) and its concurrency
(`ConcurrentPayments`, `TransferBooks`), the gateway, the reports, the office; theorems
for every property of the `Accounting` runs, for the reports, for the safety of the gateway,
for every safety property of `ConcurrentPayments` that holds of all workloads, and for those of `Office`
that do. Next, the most important first:

1. `SummaryIsTrue`.
2. The refinement of `TransferBooks`, under the condition that at most one correction of a
   transfer runs at a time; its sums have to be written with `Total` first.
3. Refunds in `ConcurrentPayments`, against an unmatch of the same transfer.
4. The access token of a parent, and what it lets its holder see.

## Not modelled, and why

Passwords, tokens and guards (`auth`, `common`) are cryptography and framework; a user
appears as a record with an e-mail address and as a scope. QR payloads, RSA
envelopes, signatures and the parsing of notifications are inputs of `ingest` and of
the gateway's handlers. The audit log is written and never read by the program. `draw` and
`markRefunded` of the credits service, and `create`, `update` and `remove` of school
years, have no caller. Rates and the layout of
exported sheets, listings with their pages and searches, seeds and one-off data
migrations change nothing another part reads. The parent portal's own check, that an order is
of the student in the token, is one comparison. The rows of the dashboard by class and
by category, the totals and counts of its summary and of a class report also come from several
queries in no transaction; each view is of one state here, as it puts no two of them together in a
figure.

## Running

`tlc -config AccountingAllocation.cfg MCAccounting.tla` and likewise for the other
configurations (`AccountingCorrections`, `AccountingRematch` and `AccountingLedger` with
`MCAccounting.tla`, `Concurrent`, `DoubleMatch` and `QrAfterPayment` with
`MCConcurrentPayments.tla`, `Office`, `ImportTwice` and `ChangedBilling` with `MCOffice.tla`,
`Gateway` with `MCGateway.tla`, `Reports` with `MCReports.tla`); `tlapm M.tla` for the proofs of each
`M` whose name ends in `Theorems`.
