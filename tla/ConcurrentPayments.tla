------------------------- MODULE ConcurrentPayments -------------------------
(***************************************************************************)
(* The payment requests of Accounting at the grain of their SQL            *)
(* statements: notifications of bank transfers, matching and unmatching,   *)
(* the QR of an order and discounts, all of them running at once on the    *)
(* rows of ReadCommitted.  A step is one statement that another request    *)
(* can tell from the next one; inserts of rows nobody else touches (ledger *)
(* entries, receipt items, audit logs) go with their neighbours.           *)
(***************************************************************************)
EXTENDS Integers, Sequences, SequencesExt, Receivables, Sums, ReadCommitted

CONSTANTS
  NumRequests,
  Workloads,       \* what each request asks for, and whether the gateway waits
  Transactions,    \* the transfers, (provider, externalTransactionId)
  AmountOf,        \* the amount of each transfer
  Receivables,
  OriginalAmount,  \* of each receivable, none of which has been paid yet
  Orders,
  Items,           \* the receivables of each order, in order
  MaxCrashes       \* bound: requests cut off before they end

NoOrder == 0       \* the transfer content is that of no order

Kinds == {"ingest", "match", "unmatch", "getQr", "discount"}

ASSUME WorkAssumption ==
  /\ NumRequests \in Nat /\ Requests = 1..NumRequests
  /\ \A workload \in Workloads : \A p \in Requests :
       LET request == workload[1][p]
       IN  /\ request.kind \in Kinds \union {"done"}
           /\ request.transaction \in Transactions
           /\ request.order \in Orders \union {NoOrder}
           /\ request.kind = "getQr" => request.order \in Orders
           /\ request.kind = "discount" =>
                request.receivable \in Receivables /\ request.amount \in Nat

(* The tables are finite, amounts are not negative, orders have items. *)
ASSUME RowsAssumption ==
  /\ IsFiniteSet(Receivables)
  /\ \A r \in Receivables : OriginalAmount[r] \in Nat
  /\ \A t \in Transactions : AmountOf[t] \in Nat
  /\ \A o \in Orders : Items[o] \in Seq(Receivables) /\ Items[o] # <<>>

VARIABLES
  work,          \* what each request asks for
  gatewayWaits,  \* a failed notification is only repeated when all is quiet
  pc,            \* the statement each request runs next
  local,         \* the variables of each request's code
  crashes        \* how many requests were cut off

load == <<work, gatewayWaits>>
vars == <<committed, written, load, pc, local, crashes>>

-----------------------------------------------------------------------------
(* The rows: what identifies them, and what they are before any request.   *)

ReceivableRow(r)     == <<"student_receivables", r>>
OrderRow(o)          == <<"payment_orders", o>>
TransactionRow(t)    == <<"payment_transactions", t>>
ReconciliationRow(t) == <<"bank_reconciliations", t>>
AllocationRow(p, r)  == <<"payment_allocations", <<p, r>>>>   \* inserted by p
CreditRow(p)         == <<"student_credits", p>>
ReceiptRow(p)        == <<"receipts", p>>
DiscountRow(p)       == <<"student_discounts", p>>
SequenceRow          == <<"number_sequences", "RECEIPT">>

Table(name, keys, Version(_)) == [row \in {name} \X keys |-> Version(row[2])]

(* Transfers that nothing reports were recorded before, not matched yet. *)
InitialStatus(requests, t) ==
  IF \E p \in Requests : requests[p].kind = "ingest" /\ requests[p].transaction = t
  THEN "NONE" ELSE "UNMATCHED"

InitialRows(requests) ==
  Table("student_receivables", Receivables,
           LAMBDA r : NewReceivable(OriginalAmount[r]))
  \uplus Table("payment_orders", Orders, LAMBDA o : [status |-> "PENDING"])
  \uplus Table("payment_transactions", Transactions,
           LAMBDA t : [status |-> InitialStatus(requests, t)])
  \uplus Table("bank_reconciliations", Transactions,
           LAMBDA t : [status |-> InitialStatus(requests, t), order |-> NoOrder])
  \uplus Table("payment_allocations", Requests \X Receivables,
           LAMBDA key : [amount |-> 0, reversed |-> FALSE])
  \uplus Table("student_credits", Requests,
           LAMBDA p : [amount |-> 0, remaining |-> 0, status |-> "NONE"])
  \uplus Table("receipts", Requests, LAMBDA p : [number |-> 0, status |-> "NONE"])
  \uplus Table("student_discounts", Requests, LAMBDA p : 0)
  \uplus Table("number_sequences", {"RECEIPT"}, LAMBDA key : 0)

(* The local variables: the item in turn, the money still available, what  *)
(* the item is to get, the status the order is to be saved with, the row a *)
(* save has selected, and the rows still to be gone through.               *)
NoLocals == [item |-> 1, available |-> 0, toAllocate |-> 0, orderStatus |-> "",
             selected |-> [status |-> ""], todo |-> <<>>]

Init ==
  /\ \E workload \in Workloads :
       /\ work = workload[1] /\ gatewayWaits = workload[2]
       /\ committed = InitialRows(workload[1])
  /\ written   = [p \in Requests |-> NothingWritten]
  /\ pc        = [p \in Requests |-> work[p].kind]
  /\ local     = [p \in Requests |-> NoLocals]
  /\ crashes   = 0

TransactionOf(p) == work[p].transaction
OrderOf(p)       == work[p].order
ItemsOf(p)       == Items[OrderOf(p)]
Item(p)          == ItemsOf(p)[local[p].item]

Ended == {"done", "failed"}

-----------------------------------------------------------------------------
(* Waiting for locks. *)

AvailableCredits(p) ==
  {q \in Requests : /\ TransactionOf(q) = TransactionOf(p)
                    /\ Sees(p, CreditRow(q)).status = "AVAILABLE"}

(* Mutations of what is locked: no unique index, no lock on a receivable.  *)
NoTransactionLocked(p) == {}
NoReceivableLocked(p) == {}

(* Inserting a transaction that another request is inserting waits for it, *)
(* by the unique index; updating a row waits for who has updated it.       *)
TransactionsLocked(p) ==
  IF pc[p] \in {"ingest", "updateTransaction"}
  THEN {TransactionRow(TransactionOf(p))} ELSE {}

(* FOR UPDATE, or to insert a row that refers to the receivable. *)
ReceivablesLocked(p) ==
  LET label == pc[p]
  IN  CASE label \in {"saveAllocation", "applyPayment"} -> {ReceivableRow(Item(p))}
        [] label \in {"saveDiscount", "applyDiscount"} ->
             {ReceivableRow(work[p].receivable)}
        [] label = "reversePayment" -> {ReceivableRow(Head(local[p].todo)[2])}
        [] OTHER -> {}

(* The rows the next statement writes or locks: nobody else may have an    *)
(* open version of them.                                                   *)
Wanted(p) ==
  LET label == pc[p]
  IN  TransactionsLocked(p) \union ReceivablesLocked(p) \union
      CASE label = "updateOrder"   -> {OrderRow(OrderOf(p))}
        [] label = "issueReceipt"  -> {SequenceRow}
        [] label = "updateReconciliation" -> {ReconciliationRow(TransactionOf(p))}
        [] label = "reversePayment" -> {AllocationRow(Head(local[p].todo)[1],
                                                      Head(local[p].todo)[2])}
        [] label = "cancelReceipt" -> {ReceiptRow(Head(local[p].todo))}
        [] label = "voidCredit"    -> {CreditRow(Head(local[p].todo))}
        [] OTHER -> {}

(* A row that refers to r by a foreign key, not committed yet, keeps r     *)
(* from being locked FOR UPDATE by anyone else (a KEY SHARE lock).         *)
RefersTo(q, r) ==
  \/ AllocationRow(q, r) \in DOMAIN written[q]
  \/ DiscountRow(q) \in DOMAIN written[q] /\ work[q].receivable = r

LocksForUpdate(p) ==
  pc[p] \in {"applyPayment", "reversePayment", "applyDiscount"}

Blockers(p) ==
  {q \in Requests \ {p} :
     \/ Wanted(p) \intersect DOMAIN written[q] # {}
     \/ /\ LocksForUpdate(p)
        /\ \E r \in Receivables : ReceivableRow(r) \in Wanted(p) /\ RefersTo(q, r)}

(* A request comes to run the statement `label' and has no lock to wait for. *)
At(p, label) ==
  /\ pc[p] = label
  /\ Blockers(p) = {}
  /\ UNCHANGED <<load, crashes>>

Goto(p, label) == pc' = [pc EXCEPT ![p] = label]

Proceeds(p, label, locals) ==
  /\ Goto(p, label)
  /\ local' = [local EXCEPT ![p] = locals]

(* An exception leaves the callback of dataSource.transaction. *)
Fails(p) == RollsBack(p) /\ Proceeds(p, "failed", NoLocals)

Ends(p) == Commits(p) /\ Proceeds(p, "done", NoLocals)

-----------------------------------------------------------------------------
(* PaymentTransactionsService.ingest. *)

(* Mutation: every report is taken for the first. *)
NeverRecorded(p) == FALSE

(* A second report of the transaction inserts nothing and ends there. *)
AlreadyRecorded(p) == Sees(p, TransactionRow(TransactionOf(p))).status # "NONE"

Ingest(p) ==
  /\ At(p, "ingest")
  /\ \/ /\ AlreadyRecorded(p)
        /\ Ends(p)
     \/ /\ ~AlreadyRecorded(p)
        /\ Writes(p, NewVersion(TransactionRow(TransactionOf(p)),
                                [status |-> "RECEIVED"]))
        /\ Goto(p, "findOrder")
        /\ UNCHANGED local

Payable(p) ==
  /\ OrderOf(p) # NoOrder
  /\ Sees(p, OrderRow(OrderOf(p))).status \in {"PENDING", "PARTIALLY_PAID"}

StartsAllocating(p) ==
  Proceeds(p, "readItem",
           [local[p] EXCEPT !.available = AmountOf[TransactionOf(p)]])

FindOrder(p) ==
  LET t == TransactionOf(p) IN
  /\ At(p, "findOrder")
  /\ \/ /\ Payable(p)
        /\ Writes(p, NewVersion(ReconciliationRow(t),
                                [status |-> "AUTO_MATCHED", order |-> OrderOf(p)]))
        /\ StartsAllocating(p)
     \/ /\ ~Payable(p)
        /\ Writes(p, NewVersion(TransactionRow(t), [status |-> "UNMATCHED"])
               \uplus NewVersion(ReconciliationRow(t),
                                [status |-> "UNMATCHED", order |-> NoOrder]))
        /\ Goto(p, "commit")
        /\ UNCHANGED local

-----------------------------------------------------------------------------
(* ReconciliationService.match, up to the allocation. *)

Match(p) ==
  /\ At(p, "match")
  /\ IF Sees(p, ReconciliationRow(TransactionOf(p))).status = "UNMATCHED"
     THEN OnlyReads /\ Goto(p, "readTransaction") /\ UNCHANGED local
     ELSE Fails(p)

(* The transaction is read here; allocateToOrder refuses it further down,  *)
(* after the order has been read, when it was ALLOCATED.                   *)
ReadTransaction(p) ==
  /\ At(p, "readTransaction")
  /\ OnlyReads
  /\ Proceeds(p, "readOrder", [local[p] EXCEPT
       !.selected = Sees(p, TransactionRow(TransactionOf(p)))])

ReadOrder(p) ==
  /\ At(p, "readOrder")
  /\ IF Payable(p) /\ local[p].selected.status # "ALLOCATED"
     THEN OnlyReads /\ StartsAllocating(p)
     ELSE Fails(p)

-----------------------------------------------------------------------------
(* PaymentAllocationsService.allocateToOrder. *)

ReceivableOf(p) == Sees(p, ReceivableRow(Item(p)))

(* What is outstanding is read here, with no lock on the receivable. *)
Lesser(m, n) == IF m <= n THEN m ELSE n
Share(p) == Lesser(local[p].available, ReceivableOf(p).amountOutstanding)

(* Mutation: an item that gets nothing is tried again. *)
SameItem(p) == local[p]

NextItem(p) == [local[p] EXCEPT !.item = @ + 1]

(* Mutation: the surplus is dropped. *)
NoLeftover(p) == NothingWritten

(* The surplus becomes a credit of the transaction. *)
Leftover(p) ==
  IF local[p].available > 0
  THEN NewVersion(CreditRow(p),
                  [amount |-> local[p].available,
                   remaining |-> local[p].available, status |-> "AVAILABLE"])
  ELSE NothingWritten

ReadItem(p) ==
  LET allItems == local[p].item > Len(ItemsOf(p)) \/ local[p].available <= 0
      passed   == ReceivableOf(p).status = "CANCELLED" \/ Share(p) <= 0
  IN  /\ At(p, "readItem")
      /\ \/ /\ allItems
            /\ Writes(p, Leftover(p))
            /\ Proceeds(p, "checkItem", [local[p] EXCEPT !.item = 1])
         \/ /\ ~allItems /\ passed
            /\ OnlyReads
            /\ Proceeds(p, "readItem", NextItem(p))
         \/ /\ ~allItems /\ ~passed
            /\ OnlyReads
            /\ Proceeds(p, "saveAllocation",
                        [local[p] EXCEPT !.toAllocate = Share(p)])

SaveAllocation(p) ==
  /\ At(p, "saveAllocation")
  /\ Writes(p, NewVersion(AllocationRow(p, Item(p)),
                          [amount |-> local[p].toAllocate, reversed |-> FALSE]))
  /\ Goto(p, "applyPayment")
  /\ UNCHANGED local

(* Past due dates do not matter here: OVERDUE is paid as UNPAID is. *)
NotPastDue == FALSE

(* Mutations: what was read before the lock is trusted; paying what is     *)
(* outstanding to the last unit is refused.                                *)
NeverExceeds(p) == FALSE
ExceedsIfEqual(p) == local[p].toAllocate >= ReceivableOf(p).amountOutstanding

(* Checked again on the row as it is once locked. *)
ExceedsOutstanding(p) == local[p].toAllocate > ReceivableOf(p).amountOutstanding

ApplyPayment(p) ==
  /\ At(p, "applyPayment")
  /\ IF ExceedsOutstanding(p) \/ ~Mutable(ReceivableOf(p))
     THEN Fails(p)
     ELSE /\ Writes(p, NewVersion(ReceivableRow(Item(p)),
               ApplyPaymentDelta(ReceivableOf(p), local[p].toAllocate, NotPastDue)))
          /\ Proceeds(p, "readItem",
               [local[p] EXCEPT !.item = @ + 1, !.available = @ - local[p].toAllocate])

(* The order is paid when no item, read again one by one, lacks anything. *)
Lacks(receivable) ==
  receivable.status # "CANCELLED" /\ receivable.amountOutstanding > 0

(* Mutation: the last item decides for the order. *)
LackingIfLast(p) ==
  local[p].item = Len(ItemsOf(p)) /\ Lacks(ReceivableOf(p))

Lacking(p) == Lacks(ReceivableOf(p))

CheckItem(p) ==
  LET lacking == Lacking(p)
      last    == local[p].item = Len(ItemsOf(p))
  IN  /\ At(p, "checkItem")
      /\ OnlyReads
      /\ IF lacking \/ last
         THEN Proceeds(p, "saveOrder", [local[p] EXCEPT !.orderStatus =
                IF lacking THEN "PARTIALLY_PAID" ELSE "PAID"])
         ELSE Proceeds(p, "checkItem", NextItem(p))

(* A save has its SELECT done; setting paidAt makes one of a PAID order    *)
(* always differ.                                                          *)
AfterOrder(p) == IF work[p].kind = "getQr" THEN "commit" ELSE "saveTransaction"

SaveOrder(p) ==
  LET selected == Sees(p, OrderRow(OrderOf(p)))
      differs  == selected.status # local[p].orderStatus \/ selected.status = "PAID"
  IN  /\ At(p, "saveOrder")
      /\ OnlyReads
      /\ Proceeds(p, IF differs THEN "updateOrder" ELSE AfterOrder(p),
                  [local[p] EXCEPT !.selected = selected])

UpdateOrder(p) ==
  LET row == OrderRow(OrderOf(p)) IN
  /\ At(p, "updateOrder")
  /\ Writes(p, NewVersion(row, Saved([status |-> local[p].orderStatus],
                                     local[p].selected, Sees(p, row))))
  /\ Goto(p, AfterOrder(p))
  /\ UNCHANGED local

TransactionStatus(p) ==
  IF work[p].kind = "unmatch" THEN "UNMATCHED" ELSE "ALLOCATED"

AfterTransaction(p) ==
  IF work[p].kind = "unmatch" THEN "saveReconciliation" ELSE "issueReceipt"

SaveTransaction(p) ==
  LET selected == Sees(p, TransactionRow(TransactionOf(p)))
      differs  == selected.status # TransactionStatus(p)
  IN  /\ At(p, "saveTransaction")
      /\ OnlyReads
      /\ Proceeds(p, IF differs THEN "updateTransaction" ELSE AfterTransaction(p),
                  [local[p] EXCEPT !.selected = selected])

UpdateTransaction(p) ==
  LET row == TransactionRow(TransactionOf(p)) IN
  /\ At(p, "updateTransaction")
  /\ Writes(p, NewVersion(row, Saved([status |-> TransactionStatus(p)],
                                     local[p].selected, Sees(p, row))))
  /\ Goto(p, AfterTransaction(p))
  /\ UNCHANGED local

(* ReceiptsService.issue: the upsert of the sequence row, then the receipt. *)
NextNumber(p) == Sees(p, SequenceRow) + 1

(* Mutation: the number is drawn outside the transaction. *)
NumberedAtOnce(p) ==
  /\ committed' = [committed EXCEPT ![SequenceRow] = @ + 1]
  /\ written' = [written EXCEPT ![p] =
       NewVersion(ReceiptRow(p), [number |-> NextNumber(p), status |-> "ISSUED"])
         \uplus @]

Numbered(p) ==
  Writes(p, NewVersion(SequenceRow, NextNumber(p)) \uplus
            NewVersion(ReceiptRow(p), [number |-> NextNumber(p), status |-> "ISSUED"]))

IssueReceipt(p) ==
  /\ At(p, "issueReceipt")
  /\ IF AmountOf[TransactionOf(p)] > 0 THEN Numbered(p) ELSE OnlyReads
  /\ Goto(p, IF work[p].kind = "match" THEN "saveReconciliation" ELSE "commit")
  /\ UNCHANGED local

-----------------------------------------------------------------------------
(* How match and unmatch end.  matchedAt and note always differ.           *)

SaveReconciliation(p) ==
  /\ At(p, "saveReconciliation")
  /\ OnlyReads
  /\ Proceeds(p, "updateReconciliation", [local[p] EXCEPT
       !.selected = Sees(p, ReconciliationRow(TransactionOf(p)))])

UpdateReconciliation(p) ==
  LET row    == ReconciliationRow(TransactionOf(p))
      entity == IF work[p].kind = "unmatch"
                THEN [status |-> "UNMATCHED", order |-> NoOrder]
                ELSE [status |-> "MANUAL_MATCHED", order |-> OrderOf(p)]
  IN  /\ At(p, "updateReconciliation")
      /\ Writes(p, NewVersion(row, Saved(entity, local[p].selected, Sees(p, row))))
      /\ Goto(p, "commit")
      /\ UNCHANGED local

-----------------------------------------------------------------------------
(* ReconciliationService.unmatch.                                          *)

Unmatch(p) ==
  /\ At(p, "unmatch")
  /\ IF Sees(p, ReconciliationRow(TransactionOf(p))).status
          \in {"AUTO_MATCHED", "MANUAL_MATCHED"}
     THEN OnlyReads /\ Goto(p, "findAllocations") /\ UNCHANGED local
     ELSE Fails(p)

(* The allocations that a request finds in force: who made them, for what. *)
Live(allocation) == allocation.amount > 0 /\ ~allocation.reversed

LiveAllocations(p) ==
  {key \in Requests \X Receivables :
     /\ TransactionOf(key[1]) = TransactionOf(p)
     /\ Live(Sees(p, AllocationRow(key[1], key[2])))}

FindAllocations(p) ==
  /\ At(p, "findAllocations")
  /\ OnlyReads
  /\ \E found \in SetToSeqs(LiveAllocations(p)) :
       Proceeds(p, IF found = <<>> THEN "findReceipt" ELSE "reversePayment",
                [local[p] EXCEPT !.todo = found])

ReversePayment(p) ==
  LET key         == Head(local[p].todo)
      allocation  == Sees(p, AllocationRow(key[1], key[2]))
      receivable  == ReceivableRow(key[2])
      rest        == Tail(local[p].todo)
  IN  /\ At(p, "reversePayment")
      /\ Writes(p, NewVersion(receivable, ReversePaymentDelta(Sees(p, receivable),
                                             allocation.amount, NotPastDue))
             \uplus NewVersion(AllocationRow(key[1], key[2]),
                              [allocation EXCEPT !.reversed = TRUE]))
      /\ Proceeds(p, IF rest = <<>> THEN "findReceipt" ELSE "reversePayment",
                  [local[p] EXCEPT !.todo = rest])

(* Mutations of unmatch: no receipt is cancelled, no credit voided. *)
NoneIssued(p) == {}
NoneUntouched(p) == {}

Issued(p) ==
  {q \in Requests : /\ TransactionOf(q) = TransactionOf(p)
                    /\ Sees(p, ReceiptRow(q)).status = "ISSUED"}

FindReceipt(p) ==
  /\ At(p, "findReceipt")
  /\ OnlyReads
  /\ \/ /\ Issued(p) = {}
        /\ Goto(p, "findCredits")
        /\ UNCHANGED local
     \/ \E q \in Issued(p) :
          Proceeds(p, "cancelReceipt", [local[p] EXCEPT !.todo = <<q>>])

CancelReceipt(p) ==
  LET row == ReceiptRow(Head(local[p].todo)) IN
  /\ At(p, "cancelReceipt")
  /\ Writes(p, NewVersion(row, [Sees(p, row) EXCEPT !.status = "CANCELLED"]))
  /\ Proceeds(p, "findCredits", [local[p] EXCEPT !.todo = <<>>])

Untouched(p) ==
  {q \in AvailableCredits(p) :
     Sees(p, CreditRow(q)).remaining = Sees(p, CreditRow(q)).amount}

FindCredits(p) ==
  /\ At(p, "findCredits")
  /\ OnlyReads
  /\ \E found \in SetToSeqs(Untouched(p)) :
       Proceeds(p, IF found = <<>> THEN "saveTransaction" ELSE "voidCredit",
                [local[p] EXCEPT !.todo = found])

VoidCredit(p) ==
  LET row  == CreditRow(Head(local[p].todo))
      rest == Tail(local[p].todo)
  IN  /\ At(p, "voidCredit")
      /\ Writes(p, NewVersion(row, [Sees(p, row) EXCEPT !.remaining = 0,
                                                        !.status = "REFUNDED"]))
      /\ Proceeds(p, IF rest = <<>> THEN "saveTransaction" ELSE "voidCredit",
                  [local[p] EXCEPT !.todo = rest])

-----------------------------------------------------------------------------
(* PaymentOrdersService.getQr of an order past its deadline, and           *)
(* DiscountsService.create.                                                *)

GetQr(p) ==
  /\ At(p, "getQr")
  /\ OnlyReads
  /\ IF Sees(p, OrderRow(OrderOf(p))).status = "PENDING"
     THEN Proceeds(p, "saveOrder", [local[p] EXCEPT !.orderStatus = "EXPIRED"])
     ELSE Proceeds(p, "done", NoLocals)

Discounted(p) == ReceivableRow(work[p].receivable)

ExceedsOriginal(receivable, amount) ==
  amount > receivable.originalAmount - receivable.discountAmount

Discount(p) ==
  /\ At(p, "discount")
  /\ IF ExceedsOriginal(Sees(p, Discounted(p)), work[p].amount)
     THEN Fails(p)
     ELSE OnlyReads /\ Goto(p, "saveDiscount") /\ UNCHANGED local

SaveDiscount(p) ==
  /\ At(p, "saveDiscount")
  /\ Writes(p, NewVersion(DiscountRow(p), work[p].amount))
  /\ Goto(p, "applyDiscount")
  /\ UNCHANGED local

ApplyDiscount(p) ==
  /\ At(p, "applyDiscount")
  /\ Writes(p, NewVersion(Discounted(p), ApplyDiscountDelta(Sees(p, Discounted(p)),
                                           work[p].amount, NotPastDue)))
  /\ Goto(p, "commit")
  /\ UNCHANGED local

-----------------------------------------------------------------------------
(* How a request ends.                                                     *)

Commit(p) == At(p, "commit") /\ Ends(p)

(* The requests p waits for, those that they wait for, and so on. *)
WaitsFor(p) ==
  LET reached[n \in 0..NumRequests] ==
        IF n = 0 THEN Blockers(p)
        ELSE reached[n - 1] \union UNION {Blockers(q) : q \in reached[n - 1]}
  IN  reached[NumRequests]

(* PostgreSQL ends a deadlock by an error to one of those in it. *)
DeadlockVictim(p) ==
  /\ p \in WaitsFor(p)
  /\ Fails(p)
  /\ UNCHANGED <<load, crashes>>

(* The process or its connection is gone before the commit. *)
Crash(p) ==
  /\ crashes < MaxCrashes
  /\ pc[p] \notin Ended
  /\ Fails(p)
  /\ crashes' = crashes + 1
  /\ UNCHANGED load

(* The gateway reports again a transfer that was answered with an error;   *)
(* if it waits long enough, none of the requests of then is still running. *)
Redeliver(p) ==
  /\ work[p].kind = "ingest"
  /\ pc[p] = "failed"
  /\ gatewayWaits => \A q \in Requests : written[q] = NothingWritten
  /\ OnlyReads
  /\ Proceeds(p, "ingest", NoLocals)
  /\ UNCHANGED <<load, crashes>>

Statement(p) ==
  \/ Ingest(p) \/ FindOrder(p)
  \/ Match(p) \/ ReadTransaction(p) \/ ReadOrder(p)
  \/ ReadItem(p) \/ SaveAllocation(p) \/ ApplyPayment(p) \/ CheckItem(p)
  \/ SaveOrder(p) \/ UpdateOrder(p)
  \/ SaveTransaction(p) \/ UpdateTransaction(p) \/ IssueReceipt(p)
  \/ SaveReconciliation(p) \/ UpdateReconciliation(p)
  \/ Unmatch(p) \/ FindAllocations(p) \/ ReversePayment(p)
  \/ FindReceipt(p) \/ CancelReceipt(p) \/ FindCredits(p) \/ VoidCredit(p)
  \/ GetQr(p) \/ Discount(p) \/ SaveDiscount(p) \/ ApplyDiscount(p)
  \/ Commit(p)

Next == \E p \in Requests :
  Statement(p) \/ DeadlockVictim(p) \/ Crash(p) \/ Redeliver(p)

Spec == Init /\ [][Next]_vars

(* Something goes on as long as some request has a statement it can run, a *)
(* deadlock is to be resolved or a failed notification to be repeated.     *)
(* Nothing is assumed of any one request; crashes need not happen.         *)
Proceeding ==
  \E p \in Requests : Statement(p) \/ DeadlockVictim(p) \/ Redeliver(p)

Fairness == WF_vars(Proceeding)

FairSpec == Spec /\ Fairness

-----------------------------------------------------------------------------
(* Properties.                                                             *)

Labels == Kinds \union Ended \union
  {"findOrder", "readTransaction", "readOrder", "readItem", "saveAllocation",
   "applyPayment", "checkItem", "saveOrder", "updateOrder", "saveTransaction",
   "updateTransaction", "issueReceipt", "saveReconciliation",
   "updateReconciliation", "findAllocations", "reversePayment", "findReceipt",
   "cancelReceipt", "findCredits", "voidCredit", "saveDiscount",
   "applyDiscount", "commit"}

(* Open transactions never hold versions of the same row, and a request    *)
(* that has ended holds none: every row that is written is waited for.     *)
RowsHaveOneWriter ==
  /\ pc \in [Requests -> Labels]
  /\ \A p \in Requests :
       /\ pc[p] \in Ended => written[p] = NothingWritten
       /\ \A q \in Requests \ {p} :
            DOMAIN written[p] \intersect DOMAIN written[q] = {}

LiveAmount(p, r) ==
  LET allocation == committed[AllocationRow(p, r)]
  IN  IF allocation.reversed THEN 0 ELSE allocation.amount

PaidTo(r) == MapThenSumSet(LAMBDA p : LiveAmount(p, r), Requests)

(* Whatever requests run at once, what a receivable counts as paid is the  *)
(* sum of its allocations in force.                                        *)
PaidIsAllocated ==
  \A r \in Receivables : committed[ReceivableRow(r)].amountPaid = PaidTo(r)

(* No payments that run at once together give a receivable more than it    *)
(* lacked, although each reads what it lacks before it locks it.           *)
NeverOverpaid ==
  [][\A r \in Receivables :
       LET receivable == committed[ReceivableRow(r)] IN
       receivable'.amountPaid > receivable.amountPaid
         => receivable'.amountOutstanding >= 0]_vars

RequestsOf(t) == {p \in Requests : TransactionOf(p) = t}

GivenTo(t, r) == MapThenSumSet(LAMBDA p : LiveAmount(p, r), RequestsOf(t))

KeptOf(t) ==
  MapThenSumSet(LAMBDA p : committed[CreditRow(p)].remaining, RequestsOf(t))

(* "A bank transaction is recorded once": however often it is reported or  *)
(* matched, no more than its amount is on receivables and kept as credit.  *)
TransferCountsOnce ==
  \A t \in Transactions :
    MapThenSumSet(LAMBDA r : GivenTo(t, r), Receivables) + KeptOf(t)
      <= AmountOf[t]

(* As long as nothing is unmatched, an order that shows as PAID has no     *)
(* receivable that lacks anything, whatever was paid while it was decided. *)
PaidOrdersLackNothing ==
  (\A p \in Requests : work[p].kind # "unmatch") =>
    \A o \in Orders : committed[OrderRow(o)].status = "PAID" =>
      \A i \in DOMAIN Items[o] : ~Lacks(committed[ReceivableRow(Items[o][i])])

NumbersIssued == {committed[ReceiptRow(p)].number : p \in Requests} \ {0}

(* "Gap-free, concurrency-safe": the receipts there are have the numbers   *)
(* from 1 to their count, whatever failed or was cut off on the way.       *)
ReceiptNumbersGapFree ==
  LET receipts == {p \in Requests : committed[ReceiptRow(p)].number # 0}
  IN  NumbersIssued = 1..Cardinality(receipts)

(* Every transfer that is allocated has one receipt in force at most, and  *)
(* a transfer that was unmatched has none.                                 *)
OneReceiptInForce ==
  \A t \in Transactions :
    LET inForce == {p \in RequestsOf(t) :
                      committed[ReceiptRow(p)].status = "ISSUED"}
    IN  Cardinality(inForce) <=
          IF committed[TransactionRow(t)].status = "ALLOCATED" THEN 1 ELSE 0

(* What each request has been granted off r, and committed. *)
Granted(r) ==
  [p \in 1..NumRequests |->
     IF work[p].kind = "discount" /\ work[p].receivable = r
     THEN committed[DiscountRow(p)] ELSE 0]

(* The discount on a receivable is the sum of the discounts granted on it: *)
(* none is lost between the ones that are granted at once.                 *)
DiscountIsGranted ==
  \A r \in Receivables :
    committed[ReceivableRow(r)].discountAmount = Total(Granted(r), NumRequests)

(* An order that a transfer was matched to, and whose receivables lack     *)
(* nothing, shows as PAID to the page that polls it.                       *)
MatchedOrderShowsPaid ==
  \A t \in Transactions :
    LET order == committed[ReconciliationRow(t)].order IN
    /\ order # NoOrder
    /\ \A i \in DOMAIN Items[order] :
         ~Lacks(committed[ReceivableRow(Items[order][i])])
    => committed[OrderRow(order)].status = "PAID"

StateOf(t) ==
  LET status == committed[TransactionRow(t)].status
  IN  CASE status = "NONE" -> "unknown"
        [] status = "UNMATCHED" -> "unmatched"
        [] status = "ALLOCATED" -> "allocated"

(* In a workload that also takes money back, the books stay closed. *)
OnlyPays == \A p \in Requests : work[p].kind \notin {"unmatch", "discount"}

Books == INSTANCE TransferBooks WITH
  Transfers <- Transactions,
  Due       <- OriginalAmount,
  ItemSets  <- {Range(Items[o]) : o \in Orders},
  state     <- [t \in Transactions |-> IF OnlyPays THEN StateOf(t) ELSE "unmatched"],
  given     <- [t \in Transactions |-> [r \in Receivables |->
                  IF OnlyPays THEN GivenTo(t, r) ELSE 0]],
  kept      <- [t \in Transactions |-> IF OnlyPays THEN KeptOf(t) ELSE 0]

(* Payments that run at once do what the accounting principles say of them *)
(* one by one: a commit records a transfer with all of its money, and any  *)
(* other step shows nothing.                                               *)
KeepsTransferBooks == Books!Spec

(* When the gateway waits before it repeats, no request waits or goes      *)
(* round for ever: deadlocks, refusals and crashes are got over.           *)
EveryRequestEnds ==
  gatewayWaits => <>(\A p \in Requests : pc[p] \in Ended)

(* A transfer whose notification is repeated until it is answered is       *)
(* recorded in the end, in spite of deadlocks, refusals and crashes.       *)
EveryTransferRecorded ==
  gatewayWaits => <>(\A t \in Transactions :
                       committed[TransactionRow(t)].status # "NONE")
=============================================================================
