----------------------------- MODULE Accounting -----------------------------
(***************************************************************************)
(* The accounting engine of the school-fee back end: receivables, payment  *)
(* orders, bank transactions, their reconciliation, allocations, student   *)
(* credits, refunds, receipts and the student ledger.                      *)
(*                                                                         *)
(* Every request of the engine runs in one database transaction and an     *)
(* action is one whole request: what happens when requests run one after   *)
(* the other.  A request that is refused changes nothing, so it is no      *)
(* action.  Rows are numbered from 1 in each table; money is a whole       *)
(* number of the smallest unit of numeric(18,2).                           *)
(***************************************************************************)
EXTENDS Integers, Sequences, Receivables, Sums

CONSTANTS
  NumReceivables,     \* rows student_receivables can hold
  NumOrders,          \* rows payment_orders can hold
  NumTransactions,    \* distinct (provider, externalTransactionId) pairs
  NumStudents,
  StudentOf,          \* the student each receivable is charged to
  PastDue,            \* the receivables whose due date has passed
  FeeAmounts,         \* quantity * unitPrice of the fee plans
  TransferAmounts,    \* amounts the bank reports
  DiscountAmounts,    \* amounts a discount comes to, fixed or by percentage
  AdjustmentDeltas,   \* signed amounts of the adjustments
  RefundAmounts,
  ItemLists,          \* the lists of receivables an order may be made for
  MaxAdjustment,      \* bound: adjustments keep |adjustmentAmount| within it
  MaxReceipts         \* bound: receipts issued for one transaction

Receivables  == 1..NumReceivables
Orders       == 1..NumOrders
Students     == 1..NumStudents
Transactions == 1..NumTransactions
NoOrder      == 0     \* paymentOrderId is null, or no order has the content

ASSUME SizesAssumption ==
  /\ NumReceivables \in Nat /\ NumOrders \in Nat /\ NumTransactions \in Nat
  /\ NumStudents \in Nat /\ MaxAdjustment \in Nat /\ MaxReceipts \in Nat

ASSUME InputsAssumption ==
  /\ StudentOf \in [Receivables -> Students]
  /\ PastDue \subseteq Receivables
  /\ FeeAmounts \subseteq Int
  /\ TransferAmounts \subseteq Int
  /\ DiscountAmounts \subseteq Nat
  /\ AdjustmentDeltas \subseteq Int \ {0}
  /\ RefundAmounts \subseteq Nat \ {0}
  /\ ItemLists \subseteq Seq(Receivables) \ {<<>>}

VARIABLES
  receivables,      \* student_receivables
  orders,           \* payment_orders with their payment_order_items
  transactions,     \* payment_transactions
  reconciliations,  \* bank_reconciliations, one row per transaction
  allocations,      \* amounts of the payment_allocations rows not reversed
  credits,          \* student_credits of each transaction, oldest first
  refunds,          \* total of the COMPLETED refunds of each transaction
  receipts,         \* receipts of each transaction, oldest first
  ledger            \* each student's balance of student_ledger_entries

vars == <<receivables, orders, transactions, reconciliations, allocations,
          credits, refunds, receipts, ledger>>

-----------------------------------------------------------------------------
(* Types and initial state. *)

Order ==
  [status : {"NONE", "PENDING", "PARTIALLY_PAID", "PAID", "EXPIRED"},
   items  : Seq(Receivables)]

Transaction ==
  [status : {"NONE", "UNMATCHED", "ALLOCATED"}, amount : Int]

Reconciliation ==
  [status : {"NONE", "UNMATCHED", "AUTO_MATCHED", "MANUAL_MATCHED"},
   order  : Orders \union {NoOrder}]

Credit ==
  [student : Students, amount : Nat, remaining : Nat,
   status  : {"AVAILABLE", "REFUNDED"}]

Receipt == [total : Nat, status : {"ISSUED", "CANCELLED"}]

NoAllocation == [r \in Receivables |-> 0]

Init ==
  /\ receivables     = [r \in Receivables |-> NoReceivable]
  /\ orders          = [o \in Orders |-> [status |-> "NONE", items |-> <<>>]]
  /\ transactions    = [t \in Transactions |-> [status |-> "NONE", amount |-> 0]]
  /\ reconciliations =
       [t \in Transactions |-> [status |-> "NONE", order |-> NoOrder]]
  /\ allocations     = [t \in Transactions |-> NoAllocation]
  /\ credits         = [t \in Transactions |-> <<>>]
  /\ refunds         = [t \in Transactions |-> 0]
  /\ receipts        = [t \in Transactions |-> <<>>]
  /\ ledger          = [s \in Students |-> 0]

(* A ledger entry: debits raise what the student owes, credits lower it. *)
Debit(s, amount)  == ledger' = [ledger EXCEPT ![s] = @ + amount]
CreditTo(s, amount) == ledger' = [ledger EXCEPT ![s] = @ - amount]

IsPastDue(r) == r \in PastDue

-----------------------------------------------------------------------------
(* Charging a student: receivables, discounts, adjustments. *)

CreateReceivable(r, amount) ==
  /\ ~Exists(receivables[r])
  /\ receivables' = [receivables EXCEPT ![r] = NewReceivable(amount)]
  /\ Debit(StudentOf[r], amount)
  /\ UNCHANGED <<orders, transactions, reconciliations, allocations, credits,
                 refunds, receipts>>

Discount(r, amount) ==
  /\ Mutable(receivables[r])
  /\ amount <= receivables[r].originalAmount - receivables[r].discountAmount
  /\ receivables' = [receivables EXCEPT
       ![r] = ApplyDiscountDelta(@, amount, IsPastDue(r))]
  /\ CreditTo(StudentOf[r], amount)
  /\ UNCHANGED <<orders, transactions, reconciliations, allocations, credits,
                 refunds, receipts>>

Adjust(r, delta) ==
  /\ Mutable(receivables[r])
  /\ receivables[r].adjustmentAmount + delta \in -MaxAdjustment..MaxAdjustment
  /\ receivables' = [receivables EXCEPT
       ![r] = ApplyAdjustmentDelta(@, delta, IsPastDue(r))]
  /\ Debit(StudentOf[r], delta)
  /\ UNCHANGED <<orders, transactions, reconciliations, allocations, credits,
                 refunds, receipts>>

-----------------------------------------------------------------------------
(* Payment orders. *)

CanBeOrdered(r) ==
  /\ receivables[r].status \notin {"NONE", "CANCELLED", "PAID"}
  /\ receivables[r].amountOutstanding > 0

CreateOrder(o, items) ==
  /\ orders[o].status = "NONE"
  /\ \A i \in DOMAIN items :
       CanBeOrdered(items[i]) /\ StudentOf[items[i]] = StudentOf[items[1]]
  /\ orders' = [orders EXCEPT ![o] = [status |-> "PENDING", items |-> items]]
  /\ UNCHANGED <<receivables, transactions, reconciliations, allocations,
                 credits, refunds, receipts, ledger>>

(* Asking for the QR of an order whose deadline has passed. *)
GetQr(o) ==
  /\ orders[o].status = "PENDING"
  /\ orders' = [orders EXCEPT ![o].status = "EXPIRED"]
  /\ UNCHANGED <<receivables, transactions, reconciliations, allocations,
                 credits, refunds, receipts, ledger>>

Payable(o) ==
  o # NoOrder /\ orders[o].status \in {"PENDING", "PARTIALLY_PAID"}

-----------------------------------------------------------------------------
(* Allocating a transaction's money to the items of an order. *)

(* Mutations of ToAllocate: either side of the minimum forgotten. *)
ToAllocateIgnoringAvailable(run, r) ==
  IF run.available <= 0 THEN 0 ELSE run.receivables[r].amountOutstanding
ToAllocateIgnoringOutstanding(run, r) == run.available

(* What the loop over the items gives to r; a run is the loop's state.     *)
ToAllocate(run, r) ==
  LET outstanding == run.receivables[r].amountOutstanding
  IN  IF run.available <= outstanding THEN run.available ELSE outstanding

(* One turn of the loop. *)
AllocateItem(run, r) ==
  LET toAllocate == ToAllocate(run, r)
  IN  IF run.receivables[r].status = "CANCELLED" \/ toAllocate <= 0
      THEN run
      ELSE [available      |-> run.available - toAllocate,
            allocatedTotal |-> run.allocatedTotal + toAllocate,
            allocated      |-> [run.allocated EXCEPT ![r] = @ + toAllocate],
            receivables    |-> [run.receivables EXCEPT
              ![r] = ApplyPaymentDelta(@, toAllocate, IsPastDue(r))]]

AllocationRun(items, amount) ==
  LET run[i \in 0..Len(items)] ==
        IF i = 0 THEN [available |-> amount, allocatedTotal |-> 0,
                       allocated |-> NoAllocation, receivables |-> receivables]
        ELSE AllocateItem(run[i - 1], items[i])
  IN  run

(* Mutation: the last item decides for the whole order. *)
FullyPaidByLastItem(items, recs) ==
  recs[items[Len(items)]].amountOutstanding <= 0

FullyPaid(items, recs) ==
  \A i \in DOMAIN items :
    recs[items[i]].status = "CANCELLED" \/ recs[items[i]].amountOutstanding <= 0

AllocateToOrder(t, o, amount) ==
  LET items   == orders[o].items
      student == StudentOf[items[1]]
      done    == AllocationRun(items, amount)[Len(items)]
      surplus == IF done.available > 0 THEN done.available ELSE 0
      paid    == done.allocatedTotal + surplus
  IN  /\ receivables' = done.receivables
      /\ allocations' = [allocations EXCEPT
           ![t] = [r \in Receivables |-> @[r] + done.allocated[r]]]
      /\ credits' = IF surplus = 0 THEN credits ELSE [credits EXCEPT
           ![t] = Append(@, [student |-> student, amount |-> surplus,
                             remaining |-> surplus, status |-> "AVAILABLE"])]
      /\ CreditTo(student, paid)
      /\ orders' = [orders EXCEPT
           ![o].status = IF FullyPaid(items, done.receivables)
                         THEN "PAID" ELSE "PARTIALLY_PAID"]
      /\ transactions' = [transactions EXCEPT
           ![t] = [status |-> "ALLOCATED", amount |-> amount]]
      /\ receipts' = IF paid = 0 THEN receipts ELSE [receipts EXCEPT
           ![t] = Append(@, [total |-> paid, status |-> "ISSUED"])]

-----------------------------------------------------------------------------
(* Bank transactions and their reconciliation. *)

(* The bank reports t for the first time, with the transfer content of     *)
(* order o.  A later report of t finds its row and changes nothing.        *)
IngestMatched(t, amount, o) ==
  /\ transactions[t].status = "NONE"
  /\ Payable(o)
  /\ reconciliations' = [reconciliations EXCEPT
       ![t] = [status |-> "AUTO_MATCHED", order |-> o]]
  /\ AllocateToOrder(t, o, amount)
  /\ UNCHANGED refunds

IngestUnmatched(t, amount, o) ==
  /\ transactions[t].status = "NONE"
  /\ ~Payable(o)
  /\ transactions' = [transactions EXCEPT
       ![t] = [status |-> "UNMATCHED", amount |-> amount]]
  /\ reconciliations' = [reconciliations EXCEPT
       ![t] = [status |-> "UNMATCHED", order |-> NoOrder]]
  /\ UNCHANGED <<receivables, orders, allocations, credits, refunds, receipts,
                 ledger>>

Match(t, o) ==
  /\ reconciliations[t].status = "UNMATCHED"
  /\ Payable(o)
  /\ transactions[t].status # "ALLOCATED"
  /\ Len(receipts[t]) < MaxReceipts
  /\ AllocateToOrder(t, o, transactions[t].amount)
  /\ reconciliations' = [reconciliations EXCEPT
       ![t] = [status |-> "MANUAL_MATCHED", order |-> o]]
  /\ UNCHANGED refunds

(* Unmatching voids the credits nothing was drawn from; the others stay. *)
Untouched(credit) ==
  credit.status = "AVAILABLE" /\ credit.remaining = credit.amount

Voided(credit) ==
  IF Untouched(credit)
  THEN [credit EXCEPT !.remaining = 0, !.status = "REFUNDED"]
  ELSE credit

(* Mutation: the reversal leaves the receipt in force. *)
CancelNoReceipt(t) == UNCHANGED receipts

(* findOne picks one ISSUED receipt of the transaction, if there is any. *)
CancelByTransaction(t) ==
  LET issued == {i \in DOMAIN receipts[t] : receipts[t][i].status = "ISSUED"}
  IN  IF issued = {} THEN UNCHANGED receipts
      ELSE \E i \in issued :
             receipts' = [receipts EXCEPT ![t][i].status = "CANCELLED"]

(* Mutation: no REVERSAL entry is posted. *)
NothingReversedFrom(t, s) == 0

(* REVERSAL entries are posted for each allocation, to its student. *)
ReversedFrom(t, s) ==
  Total([r \in Receivables |-> IF StudentOf[r] = s THEN allocations[t][r] ELSE 0],
        NumReceivables)

(* Mutation: the allocations are not marked as reversed. *)
ReverseKeepingAllocations(t) ==
  /\ receivables' = [r \in Receivables |->
       ReversePaymentDelta(receivables[r], allocations[t][r], IsPastDue(r))]
  /\ ledger' = [s \in Students |-> ledger[s] + ReversedFrom(t, s)]
  /\ UNCHANGED allocations

ReverseByTransaction(t) ==
  /\ receivables' = [r \in Receivables |->
       IF allocations[t][r] > 0
       THEN ReversePaymentDelta(receivables[r], allocations[t][r], IsPastDue(r))
       ELSE receivables[r]]
  /\ ledger' = [s \in Students |-> ledger[s] + ReversedFrom(t, s)]
  /\ allocations' = [allocations EXCEPT ![t] = NoAllocation]

Unmatch(t) ==
  /\ reconciliations[t].status \in {"AUTO_MATCHED", "MANUAL_MATCHED"}
  /\ ReverseByTransaction(t)
  /\ CancelByTransaction(t)
  /\ credits' = [credits EXCEPT
       ![t] = [i \in DOMAIN @ |-> Voided(@[i])]]
  /\ transactions' = [transactions EXCEPT ![t].status = "UNMATCHED"]
  /\ reconciliations' = [reconciliations EXCEPT
       ![t] = [status |-> "UNMATCHED", order |-> NoOrder]]
  /\ UNCHANGED <<orders, refunds>>

-----------------------------------------------------------------------------
(* Refunds and receipts. *)

AvailableAmount(credit) ==
  IF credit.status = "AVAILABLE" THEN credit.remaining ELSE 0

AvailableCredit(t) ==
  Total([i \in DOMAIN credits[t] |-> AvailableAmount(credits[t][i])],
        Len(credits[t]))

(* What the first i credits of t leave to be drawn, of a refund of amount. *)
StillToDraw(t, amount, i) ==
  LET before == RunningTotal([j \in DOMAIN credits[t] |->
                                AvailableAmount(credits[t][j])],
                             Len(credits[t]))[i]
  IN  IF before >= amount THEN 0 ELSE amount - before

(* Mutations: a draw beyond what is left; a partial draw that is not saved. *)
DrawnUncapped(credit, toDraw) ==
  IF credit.status # "AVAILABLE" \/ toDraw <= 0 THEN credit
  ELSE [credit EXCEPT !.remaining = @ - toDraw]
DrawnUnsaved(credit, toDraw) ==
  IF credit.status = "AVAILABLE" /\ toDraw >= credit.remaining
  THEN [credit EXCEPT !.remaining = 0, !.status = "REFUNDED"]
  ELSE credit

Drawn(credit, toDraw) ==
  IF credit.status # "AVAILABLE" \/ toDraw <= 0 THEN credit
  ELSE IF toDraw >= credit.remaining
       THEN [credit EXCEPT !.remaining = 0, !.status = "REFUNDED"]
       ELSE [credit EXCEPT !.remaining = @ - toDraw]

OldestAvailable(t) ==
  CHOOSE i \in DOMAIN credits[t] :
    /\ credits[t][i].status = "AVAILABLE"
    /\ \A j \in DOMAIN credits[t] :
         credits[t][j].status = "AVAILABLE" => i <= j

Refund(t, amount) ==
  /\ transactions[t].status # "NONE"
  /\ \E i \in DOMAIN credits[t] : credits[t][i].status = "AVAILABLE"
  /\ amount <= AvailableCredit(t)
  /\ refunds' = [refunds EXCEPT ![t] = @ + amount]
  /\ credits' = [credits EXCEPT
       ![t] = [i \in DOMAIN @ |-> Drawn(@[i], StillToDraw(t, amount, i - 1))]]
  /\ Debit(credits[t][OldestAvailable(t)].student, amount)
  /\ UNCHANGED <<receivables, orders, transactions, reconciliations,
                 allocations, receipts>>

CancelReceipt(t, i) ==
  /\ receipts[t][i].status = "ISSUED"
  /\ receipts' = [receipts EXCEPT ![t][i].status = "CANCELLED"]
  /\ UNCHANGED <<receivables, orders, transactions, reconciliations,
                 allocations, credits, refunds, ledger>>

-----------------------------------------------------------------------------
Next ==
  \/ \E r \in Receivables :
       \/ \E amount \in FeeAmounts : CreateReceivable(r, amount)
       \/ \E amount \in DiscountAmounts : Discount(r, amount)
       \/ \E delta \in AdjustmentDeltas : Adjust(r, delta)
  \/ \E o \in Orders :
       \/ \E items \in ItemLists : CreateOrder(o, items)
       \/ GetQr(o)
  \/ \E t \in Transactions :
       \/ \E amount \in TransferAmounts, o \in Orders \union {NoOrder} :
            IngestMatched(t, amount, o) \/ IngestUnmatched(t, amount, o)
       \/ \E o \in Orders : Match(t, o)
       \/ Unmatch(t)
       \/ \E amount \in RefundAmounts : Refund(t, amount)
       \/ \E i \in DOMAIN receipts[t] : CancelReceipt(t, i)

Spec == Init /\ [][Next]_vars
-----------------------------------------------------------------------------
(* Properties. *)

(* Every table holds rows of its type: credits never go below zero,        *)
(* nothing is allocated or paid in a negative amount.                      *)
TypeOK ==
  /\ receivables     \in [Receivables -> Receivable]
  /\ orders          \in [Orders -> Order]
  /\ transactions    \in [Transactions -> Transaction]
  /\ reconciliations \in [Transactions -> Reconciliation]
  /\ allocations     \in [Transactions -> [Receivables -> Nat]]
  /\ credits         \in [Transactions -> Seq(Credit)]
  /\ refunds         \in [Transactions -> Nat]
  /\ receipts        \in [Transactions -> Seq(Receipt)]
  /\ ledger          \in [Students -> Int]

AllocatedTo(r) ==
  Total([t \in Transactions |-> allocations[t][r]], NumTransactions)

AllocatedFrom(t) == Total(allocations[t], NumReceivables)

(* What a receivable counts as paid is what the live allocations of all    *)
(* transactions give it, through any number of payments, corrections,      *)
(* matches and reversals: applyPaymentDelta and reversePaymentDelta keep   *)
(* amountPaid in step with payment_allocations, and the max(0, ...) of the *)
(* reversal never hides a difference.                                      *)
PaidIsAllocated ==
  \A r \in Receivables : receivables[r].amountPaid = AllocatedTo(r)

Received(t) == IF transactions[t].amount > 0 THEN transactions[t].amount ELSE 0

(* No payment is lost: all of an allocated transaction is on receivables,  *)
(* except a surplus for which its latest credit was made; an unmatched one *)
(* is on none.                                                             *)
SurplusBecomesCredit ==
  \A t \in Transactions :
    LET surplus == Received(t) - AllocatedFrom(t) IN
    /\ transactions[t].status = "ALLOCATED" =>
         /\ surplus >= 0
         /\ surplus > 0 =>
              /\ credits[t] # <<>>
              /\ credits[t][Len(credits[t])].amount = surplus
    /\ transactions[t].status # "ALLOCATED" => AllocatedFrom(t) = 0

(* The three records of what became of a transaction agree: its status,    *)
(* its reconciliation row and its allocations, which are all on items of   *)
(* the matched order; and that order has been told of the money.           *)
ReconciliationAgrees ==
  \A t \in Transactions :
    LET order == reconciliations[t].order
        matched == reconciliations[t].status \in {"AUTO_MATCHED", "MANUAL_MATCHED"}
    IN  /\ matched <=> transactions[t].status = "ALLOCATED"
        /\ matched <=> order # NoOrder
        /\ matched => orders[order].status \in {"PARTIALLY_PAID", "PAID"}
        /\ \A r \in Receivables :
             allocations[t][r] > 0 =>
               matched /\ \E i \in DOMAIN orders[order].items :
                            orders[order].items[i] = r

(* A receipt in force is the only one of its transaction, the transaction  *)
(* is allocated, and the receipt is for all the money received: a reversal *)
(* leaves no receipt in force, a new match does not leave two.             *)
ReceiptsMatchPayments ==
  \A t \in Transactions : \A i \in DOMAIN receipts[t] :
    receipts[t][i].status = "ISSUED" =>
      /\ transactions[t].status = "ALLOCATED"
      /\ receipts[t][i].total = transactions[t].amount
      /\ \A j \in DOMAIN receipts[t] :
           receipts[t][j].status = "ISSUED" => j = i

CreditTotal(t) ==
  Total([i \in DOMAIN credits[t] |-> credits[t][i].amount], Len(credits[t]))

(* Refunds come out of a transaction's own credits: what was refunded and  *)
(* what is still available never exceed the credits it ever gave.          *)
RefundsWithinCredits ==
  \A t \in Transactions : refunds[t] + AvailableCredit(t) <= CreditTotal(t)

(* Paying never takes more than a receivable lacks, also after discounts   *)
(* and adjustments took its outstanding amount below zero.                 *)
NeverOverpaid ==
  [][\A r \in Receivables :
       receivables'[r].amountPaid > receivables[r].amountPaid
         => receivables'[r].amountOutstanding >= 0]_vars

(* PAID and EXPIRED are final, and an order turns PAID only when none of   *)
(* its receivables has anything outstanding; in particular money that      *)
(* comes for an expired order is never taken for it.                       *)
OrdersSettleForGood ==
  [][\A o \in Orders :
       /\ orders[o].status \in {"PAID", "EXPIRED"} => orders'[o] = orders[o]
       /\ orders[o].status # "PAID" /\ orders'[o].status = "PAID" =>
            \A i \in DOMAIN orders'[o].items :
              receivables'[orders'[o].items[i]].amountOutstanding <= 0]_vars

CreditOf(s) ==
  Total([t \in Transactions |->
           Total([i \in DOMAIN credits[t] |->
                    IF credits[t][i].student = s
                    THEN AvailableAmount(credits[t][i]) ELSE 0],
                 Len(credits[t]))],
        NumTransactions)

(* What the student's accounts say: owed on receivables, less credit.      *)
BooksOf(s) ==
  Total([r \in Receivables |->
           IF StudentOf[r] = s THEN receivables[r].amountOutstanding ELSE 0],
        NumReceivables) - CreditOf(s)

VoidedBy(t, s) ==
  Total([i \in DOMAIN credits[t] |->
           IF Untouched(credits[t][i]) /\ credits[t][i].student = s
           THEN credits[t][i].amount ELSE 0],
        Len(credits[t]))

VoidedCredit(s) ==
  IF \E t \in Transactions : Unmatch(t)
  THEN VoidedBy(CHOOSE t \in Transactions : Unmatch(t), s) ELSE 0

Drift(s) == ledger[s] - BooksOf(s)
SchoolDrift == Total([s \in Students |-> Drift(s)], NumStudents)

(* Every request but the unmatch that voids an untouched credit posts for  *)
(* each student exactly what it does to that student's books, whatever the *)
(* ledger was off by before; and a refund does so for the school as a      *)
(* whole, being posted to the student of the oldest credit it draws from.  *)
LedgerTracksBooks ==
  [][/\ refunds' = refunds =>
          \A s \in Students : VoidedCredit(s) = 0 => Drift(s)' = Drift(s)
     /\ refunds' # refunds => SchoolDrift' = SchoolDrift]_vars

(* The running balance of a student's ledger is the one every figure of    *)
(* the reports can be reconciled with (src/README.md:63-65): it is what    *)
(* the student owes on receivables, less the credit the student has.       *)
LedgerMatchesBooks == \A s \in Students : ledger[s] = BooksOf(s)

(* A transaction gives no more than the bank transferred: what is on       *)
(* receivables, what is available as credit and what was refunded add up   *)
(* to at most its amount.                                                  *)
TransactionMoneyConserved ==
  \A t \in Transactions :
    AllocatedFrom(t) + AvailableCredit(t) + refunds[t] <= Received(t)
=============================================================================
