--------------------------- MODULE PaymentTheorems ---------------------------
(***************************************************************************)
(* Theorems about the money of ConcurrentPayments: what payments that run  *)
(* at once may do to a receivable, to an order and to the receipt numbers. *)
(* They rest on WriterInv of ConcurrentTheorems.                           *)
(***************************************************************************)
EXTENDS ConcurrentTheorems

-----------------------------------------------------------------------------
(* What a step may touch.                                                  *)

StepOf(p) == Statement(p) \/ DeadlockVictim(p) \/ Crash(p) \/ Redeliver(p)

(* The other requests stay where they are. *)
Frame(p) ==
  /\ work' = work
  /\ DOMAIN pc = Requests /\ DOMAIN written' = Requests
  /\ \A q \in Requests \ {p} :
       pc'[q] = pc[q] /\ local'[q] = local[q] /\ written'[q] = written[q]

(* The statements that write rows of the tables the theorems are about. *)
Touches(p, row) ==
  /\ row[1] = "student_receivables" =>
       ApplyPayment(p) \/ ReversePayment(p) \/ ApplyDiscount(p)
  /\ row[1] = "payment_allocations" => SaveAllocation(p) \/ ReversePayment(p)
  /\ row[1] = "payment_orders" => UpdateOrder(p)
  /\ row[1] \in {"number_sequences", "receipts"} => IssueReceipt(p) \/ CancelReceipt(p)
  /\ row[1] = "student_discounts" => SaveDiscount(p)

(* What a step does to the rows. *)
Effect(p) ==
  \/ OnlyReads /\ pc'[p] # "failed"
  \/ RollsBack(p) /\ pc'[p] = "failed"
  \/ Commits(p) /\ pc'[p] = "done" /\ pc[p] \in Kinds \union {"commit"}
  \/ \E versions :
       /\ Writes(p, versions) /\ pc'[p] \notin Ended
       /\ \A row \in DOMAIN versions : Touches(p, row)

(* The statements after which the others of an allocation come. *)
Arrives(p) ==
  /\ pc'[p] \in {"readItem", "saveAllocation", "applyPayment"} =>
       \/ FindOrder(p) \/ ReadOrder(p) \/ ReadItem(p) \/ SaveAllocation(p)
       \/ ApplyPayment(p)
  /\ pc'[p] = "checkItem" => ReadItem(p) \/ CheckItem(p)
  /\ pc'[p] = "saveOrder" => CheckItem(p) \/ GetQr(p)
  /\ pc'[p] = "updateOrder" => SaveOrder(p)
  /\ pc'[p] = "reversePayment" => FindAllocations(p) \/ ReversePayment(p)

LEMMA RowsFrame ==
  ASSUME NEW p \in Requests, DOMAIN written = Requests,
         OnlyReads \/ RollsBack(p) \/ Commits(p) \/ \E v : Writes(p, v)
  PROVE  /\ DOMAIN written' = Requests
         /\ \A q \in Requests \ {p} : written'[q] = written[q]
<1>1. CASE \E v : Writes(p, v)
  BY <1>1, WritesRows
<1>2. QED BY <1>1, RollsBackRows, CommitsRows DEF OnlyReads

LEMMA ProceedsFrame ==
  ASSUME Shapes, NEW p \in Requests, NEW label, NEW locals, Proceeds(p, label, locals),
         work' = work,
         OnlyReads \/ RollsBack(p) \/ Commits(p) \/ \E v : Writes(p, v)
  PROVE  Frame(p) /\ pc'[p] = label /\ local'[p] = locals
BY RowsFrame DEF Shapes, Proceeds, Goto, Frame

LEMMA GotoFrame ==
  ASSUME Shapes, NEW p \in Requests, NEW label, Goto(p, label), local' = local,
         work' = work,
         OnlyReads \/ RollsBack(p) \/ Commits(p) \/ \E v : Writes(p, v)
  PROVE  Frame(p) /\ pc'[p] = label /\ local'[p] = local[p]
BY RowsFrame DEF Shapes, Goto, Frame

LEMMA FailsEffect ==
  ASSUME Shapes, NEW p \in Requests, Fails(p), work' = work
  PROVE  Frame(p) /\ Effect(p) /\ Arrives(p)
BY ProceedsFrame DEF Fails, Effect, Arrives

(* A statement that only reads, whatever it goes to. *)
ReadTo(p, labels) ==
  /\ OnlyReads /\ work' = work
  /\ \E label \in labels :
       \/ Goto(p, label) /\ local' = local
       \/ \E locals : Proceeds(p, label, locals)

LEMMA ReadEffect ==
  ASSUME Shapes, NEW p \in Requests, NEW labels, ReadTo(p, labels)
  PROVE  Frame(p) /\ pc'[p] \in labels /\ ("failed" \notin labels => Effect(p))
BY ProceedsFrame, GotoFrame DEF ReadTo, Effect

LEMMA ReadingStatements ==
  ASSUME Shapes, NEW p \in Requests
  PROVE  /\ Match(p) => ReadTo(p, {"readTransaction"}) \/ Fails(p)
         /\ ReadTransaction(p) => ReadTo(p, {"readOrder"})
         /\ ReadOrder(p) => ReadTo(p, {"readItem"}) \/ Fails(p)
         /\ CheckItem(p) => ReadTo(p, {"checkItem", "saveOrder"})
         /\ SaveOrder(p) => ReadTo(p, {"updateOrder", "commit", "saveTransaction"})
         /\ SaveTransaction(p) =>
              ReadTo(p, {"updateTransaction", "saveReconciliation", "issueReceipt"})
         /\ SaveReconciliation(p) => ReadTo(p, {"updateReconciliation"})
         /\ Unmatch(p) => ReadTo(p, {"findAllocations"}) \/ Fails(p)
         /\ FindAllocations(p) => ReadTo(p, {"findReceipt", "reversePayment"})
         /\ FindReceipt(p) => ReadTo(p, {"findCredits", "cancelReceipt"})
         /\ FindCredits(p) => ReadTo(p, {"saveTransaction", "voidCredit"})
         /\ GetQr(p) => ReadTo(p, {"saveOrder", "done"})
         /\ Discount(p) => ReadTo(p, {"saveDiscount"}) \/ Fails(p)
         /\ Redeliver(p) => ReadTo(p, {"ingest"})
<1>1. ASSUME NEW label, At(p, label) PROVE work' = work
  BY <1>1 DEF At, load
<1>2. Match(p) => ReadTo(p, {"readTransaction"}) \/ Fails(p)
  BY <1>1 DEF Match, ReadTo
<1>3. ReadTransaction(p) => ReadTo(p, {"readOrder"})
  BY <1>1 DEF ReadTransaction, ReadTo
<1>4. ReadOrder(p) => ReadTo(p, {"readItem"}) \/ Fails(p)
  BY <1>1 DEF ReadOrder, ReadTo, StartsAllocating
<1>5. CheckItem(p) => ReadTo(p, {"checkItem", "saveOrder"})
  BY <1>1 DEF CheckItem, ReadTo
<1>6. SaveOrder(p) => ReadTo(p, {"updateOrder", "commit", "saveTransaction"})
  BY <1>1 DEF SaveOrder, ReadTo, AfterOrder
<1>7. SaveTransaction(p) =>
        ReadTo(p, {"updateTransaction", "saveReconciliation", "issueReceipt"})
  BY <1>1 DEF SaveTransaction, ReadTo, AfterTransaction
<1>8. SaveReconciliation(p) => ReadTo(p, {"updateReconciliation"})
  BY <1>1 DEF SaveReconciliation, ReadTo
<1>9. Unmatch(p) => ReadTo(p, {"findAllocations"}) \/ Fails(p)
  BY <1>1 DEF Unmatch, ReadTo
<1>10. FindAllocations(p) => ReadTo(p, {"findReceipt", "reversePayment"})
  BY <1>1 DEF FindAllocations, ReadTo
<1>11. FindReceipt(p) => ReadTo(p, {"findCredits", "cancelReceipt"})
  BY <1>1 DEF FindReceipt, ReadTo
<1>12. FindCredits(p) => ReadTo(p, {"saveTransaction", "voidCredit"})
  BY <1>1 DEF FindCredits, ReadTo
<1>13. GetQr(p) => ReadTo(p, {"saveOrder", "done"})
  BY <1>1 DEF GetQr, ReadTo
<1>14. Discount(p) => ReadTo(p, {"saveDiscount"}) \/ Fails(p)
  BY <1>1 DEF Discount, ReadTo
<1>15. Redeliver(p) => ReadTo(p, {"ingest"})
  BY DEF Redeliver, ReadTo, load
<1>16. QED BY <1>2, <1>3, <1>4, <1>5, <1>6, <1>7, <1>8, <1>9, <1>10, <1>11, <1>12,
              <1>13, <1>14, <1>15

LEMMA WriteEffect ==
  ASSUME Shapes, NEW p \in Requests, NEW versions, Writes(p, versions), work' = work,
         NEW label, label \notin Ended,
         \/ Goto(p, label) /\ local' = local
         \/ \E locals : Proceeds(p, label, locals),
         \A row \in DOMAIN versions : Touches(p, row)
  PROVE  Frame(p) /\ pc'[p] = label /\ Effect(p)
<1>1. Frame(p) /\ pc'[p] = label
  BY ProceedsFrame, GotoFrame
<1>2. QED BY <1>1 DEF Effect

(* A statement that writes one row, or two, and goes on. *)
GoesOn(p, label) ==
  /\ work' = work /\ label \notin Ended
  /\ \/ Goto(p, label) /\ local' = local
     \/ \E locals : Proceeds(p, label, locals)

WritesInto(p, tables) ==
  \E versions :
    /\ Writes(p, versions)
    /\ \A row \in DOMAIN versions : row[1] \in tables

LEMMA WritesEffect ==
  ASSUME Shapes, NEW p \in Requests, NEW label, NEW tables,
         WritesInto(p, tables), GoesOn(p, label),
         \A row : row[1] \in tables => Touches(p, row)
  PROVE  Frame(p) /\ pc'[p] = label /\ Effect(p)
BY WriteEffect DEF WritesInto, GoesOn

LEMMA WritesOne ==
  ASSUME NEW p, NEW row, NEW version, Writes(p, NewVersion(row, version))
  PROVE  WritesInto(p, {row[1]})
<1>1. DOMAIN NewVersion(row, version) = {row}
  BY OneVersion
<1>2. QED BY <1>1 DEF WritesInto

LEMMA WritesTwo ==
  ASSUME NEW p, NEW a, NEW v, NEW b, NEW w,
         Writes(p, NewVersion(a, v) \uplus NewVersion(b, w))
  PROVE  WritesInto(p, {a[1], b[1]})
<1>1. DOMAIN (NewVersion(a, v) \uplus NewVersion(b, w)) = {a, b}
  BY TwoVersions, Zenon
<1>2. QED BY <1>1 DEF WritesInto

LEMMA IngestEffect ==
  ASSUME Shapes, NEW p \in Requests, Ingest(p)
  PROVE  Frame(p) /\ Effect(p) /\ Arrives(p)
<1>1. work' = work /\ pc[p] = "ingest"
  BY DEF Ingest, At, load
<1>2. CASE Ends(p)
  <2>1. Frame(p) /\ pc'[p] = "done" /\ Commits(p)
    BY <1>1, <1>2, ProceedsFrame DEF Ends
  <2>2. QED BY <1>1, <2>1 DEF Effect, Arrives, Kinds
<1>3. CASE ~ Ends(p)
  <2>1. PICK t : t = TransactionOf(p)
    OBVIOUS
  <2>2. WritesInto(p, {TransactionRow(t)[1]}) /\ GoesOn(p, "findOrder")
    BY <1>1, <1>3, <2>1, WritesOne DEF Ingest, GoesOn, Ended
  <2>3. Frame(p) /\ pc'[p] = "findOrder" /\ Effect(p)
    BY <2>2, WritesEffect DEF Touches, TransactionRow
  <2>4. QED BY <2>3 DEF Arrives
<1>4. QED BY <1>2, <1>3

LEMMA FindOrderEffect ==
  ASSUME Shapes, NEW p \in Requests, FindOrder(p)
  PROVE  Frame(p) /\ Effect(p) /\ Arrives(p)
<1>1. PICK t : t = TransactionOf(p)
  OBVIOUS
<1>2. PICK label \in {"readItem", "commit"} : GoesOn(p, label)
  BY DEF FindOrder, StartsAllocating, GoesOn, Ended, At, load
<1>3. WritesInto(p, {"payment_transactions", "bank_reconciliations"})
  <2>1. WritesInto(p, {ReconciliationRow(t)[1]})
          \/ WritesInto(p, {TransactionRow(t)[1], ReconciliationRow(t)[1]})
    BY <1>1, WritesOne, WritesTwo DEF FindOrder
  <2>2. QED BY <2>1 DEF WritesInto, TransactionRow, ReconciliationRow
<1>4. Frame(p) /\ pc'[p] = label /\ Effect(p)
  BY <1>2, <1>3, WritesEffect DEF Touches
<1>5. QED BY <1>4 DEF Arrives

LEMMA ReadItemEffect ==
  ASSUME Shapes, NEW p \in Requests, ReadItem(p)
  PROVE  Frame(p) /\ Effect(p) /\ Arrives(p)
<1>1. work' = work
  BY DEF ReadItem, At, load
<1>2. CASE ReadTo(p, {"readItem", "saveAllocation"})
  <2>1. Frame(p) /\ pc'[p] \in {"readItem", "saveAllocation"} /\ Effect(p)
    BY <1>2, ReadEffect
  <2>2. QED BY <2>1 DEF Arrives
<1>3. CASE Writes(p, Leftover(p)) /\ \E locals : Proceeds(p, "checkItem", locals)
  <2>1. WritesInto(p, {"student_credits"})
    <3>1. Leftover(p) # NothingWritten => WritesInto(p, {CreditRow(p)[1]})
      BY <1>3, WritesOne DEF Leftover
    <3>2. Leftover(p) = NothingWritten => WritesInto(p, {})
      BY <1>3, NothingIsWritten DEF WritesInto
    <3>3. QED BY <3>1, <3>2 DEF WritesInto, CreditRow
  <2>2. GoesOn(p, "checkItem")
    BY <1>1, <1>3 DEF GoesOn, Ended
  <2>3. Frame(p) /\ pc'[p] = "checkItem" /\ Effect(p)
    BY <2>1, <2>2, WritesEffect DEF Touches
  <2>4. QED BY <2>3 DEF Arrives
<1>4. QED
  BY <1>1, <1>2, <1>3 DEF ReadItem, ReadTo

LEMMA SaveAllocationEffect ==
  ASSUME Shapes, NEW p \in Requests, SaveAllocation(p)
  PROVE  Frame(p) /\ Effect(p) /\ Arrives(p)
<1>1. PICK r : r = Item(p)
  OBVIOUS
<1>2. WritesInto(p, {AllocationRow(p, r)[1]}) /\ GoesOn(p, "applyPayment")
  BY <1>1, WritesOne DEF SaveAllocation, GoesOn, Ended, At, load
<1>3. Frame(p) /\ pc'[p] = "applyPayment" /\ Effect(p)
  BY <1>2, WritesEffect DEF Touches, AllocationRow
<1>4. QED BY <1>3 DEF Arrives

LEMMA ApplyPaymentEffect ==
  ASSUME Shapes, NEW p \in Requests, ApplyPayment(p)
  PROVE  Frame(p) /\ Effect(p) /\ Arrives(p)
<1>1. work' = work
  BY DEF ApplyPayment, At, load
<1>2. CASE Fails(p)
  BY <1>1, <1>2, FailsEffect
<1>3. CASE ~ Fails(p)
  <2>1. PICK r : r = Item(p)
    OBVIOUS
  <2>2. WritesInto(p, {ReceivableRow(r)[1]}) /\ GoesOn(p, "readItem")
    BY <1>1, <1>3, <2>1, WritesOne DEF ApplyPayment, GoesOn, Ended
  <2>3. Frame(p) /\ pc'[p] = "readItem" /\ Effect(p)
    BY <2>2, WritesEffect DEF Touches, ReceivableRow
  <2>4. QED BY <2>3 DEF Arrives
<1>4. QED BY <1>2, <1>3

LEMMA UpdateOrderEffect ==
  ASSUME Shapes, NEW p \in Requests, UpdateOrder(p)
  PROVE  Frame(p) /\ Effect(p) /\ Arrives(p)
<1>1. PICK o : o = OrderOf(p)
  OBVIOUS
<1>2. PICK label \in {"commit", "saveTransaction"} : GoesOn(p, label)
  BY DEF UpdateOrder, AfterOrder, GoesOn, Ended, At, load
<1>3. WritesInto(p, {OrderRow(o)[1]})
  BY <1>1, WritesOne DEF UpdateOrder
<1>4. Frame(p) /\ pc'[p] = label /\ Effect(p)
  BY <1>2, <1>3, WritesEffect DEF Touches, OrderRow
<1>5. QED BY <1>4 DEF Arrives

LEMMA UpdateTransactionEffect ==
  ASSUME Shapes, NEW p \in Requests, UpdateTransaction(p)
  PROVE  Frame(p) /\ Effect(p) /\ Arrives(p)
<1>1. PICK t : t = TransactionOf(p)
  OBVIOUS
<1>2. PICK label \in {"saveReconciliation", "issueReceipt"} : GoesOn(p, label)
  BY DEF UpdateTransaction, AfterTransaction, GoesOn, Ended, At, load
<1>3. WritesInto(p, {TransactionRow(t)[1]})
  BY <1>1, WritesOne DEF UpdateTransaction
<1>4. Frame(p) /\ pc'[p] = label /\ Effect(p)
  BY <1>2, <1>3, WritesEffect DEF Touches, TransactionRow
<1>5. QED BY <1>4 DEF Arrives

LEMMA IssueReceiptEffect ==
  ASSUME Shapes, NEW p \in Requests, IssueReceipt(p)
  PROVE  Frame(p) /\ Effect(p) /\ Arrives(p)
<1>1. PICK label \in {"saveReconciliation", "commit"} : GoesOn(p, label)
  BY DEF IssueReceipt, GoesOn, Ended, At, load
<1>2. CASE OnlyReads
  <2>1. ReadTo(p, {label})
    BY <1>1, <1>2 DEF ReadTo, GoesOn
  <2>2. Frame(p) /\ pc'[p] = label /\ Effect(p)
    BY <2>1, ReadEffect
  <2>3. QED BY <2>2 DEF Arrives
<1>3. CASE Numbered(p)
  <2>1. WritesInto(p, {SequenceRow[1], ReceiptRow(p)[1]})
    BY <1>3, WritesTwo DEF Numbered
  <2>2. Frame(p) /\ pc'[p] = label /\ Effect(p)
    BY <1>1, <2>1, WritesEffect DEF Touches, SequenceRow, ReceiptRow
  <2>3. QED BY <2>2 DEF Arrives
<1>4. QED BY <1>2, <1>3 DEF IssueReceipt

LEMMA UpdateReconciliationEffect ==
  ASSUME Shapes, NEW p \in Requests, UpdateReconciliation(p)
  PROVE  Frame(p) /\ Effect(p) /\ Arrives(p)
<1>1. PICK t : t = TransactionOf(p)
  OBVIOUS
<1>2. GoesOn(p, "commit")
  BY DEF UpdateReconciliation, GoesOn, Ended, At, load
<1>3. WritesInto(p, {ReconciliationRow(t)[1]})
  BY <1>1, WritesOne DEF UpdateReconciliation
<1>4. Frame(p) /\ pc'[p] = "commit" /\ Effect(p)
  BY <1>2, <1>3, WritesEffect DEF Touches, ReconciliationRow
<1>5. QED BY <1>4 DEF Arrives

LEMMA ReversePaymentEffect ==
  ASSUME Shapes, NEW p \in Requests, ReversePayment(p)
  PROVE  Frame(p) /\ Effect(p) /\ Arrives(p)
<1>1. PICK r, q : r = Head(local[p].todo)[2] /\ q = Head(local[p].todo)[1]
  OBVIOUS
<1>2. PICK label \in {"findReceipt", "reversePayment"} : GoesOn(p, label)
  BY DEF ReversePayment, GoesOn, Ended, At, load
<1>3. WritesInto(p, {ReceivableRow(r)[1], AllocationRow(q, r)[1]})
  BY <1>1, WritesTwo DEF ReversePayment
<1>4. Frame(p) /\ pc'[p] = label /\ Effect(p)
  BY <1>2, <1>3, WritesEffect DEF Touches, ReceivableRow, AllocationRow
<1>5. QED BY <1>4 DEF Arrives

LEMMA CancelReceiptEffect ==
  ASSUME Shapes, NEW p \in Requests, CancelReceipt(p)
  PROVE  Frame(p) /\ Effect(p) /\ Arrives(p)
<1>1. PICK q : q = Head(local[p].todo)
  OBVIOUS
<1>2. GoesOn(p, "findCredits")
  BY DEF CancelReceipt, GoesOn, Ended, At, load
<1>3. WritesInto(p, {ReceiptRow(q)[1]})
  BY <1>1, WritesOne DEF CancelReceipt
<1>4. Frame(p) /\ pc'[p] = "findCredits" /\ Effect(p)
  BY <1>2, <1>3, WritesEffect DEF Touches, ReceiptRow
<1>5. QED BY <1>4 DEF Arrives

LEMMA VoidCreditEffect ==
  ASSUME Shapes, NEW p \in Requests, VoidCredit(p)
  PROVE  Frame(p) /\ Effect(p) /\ Arrives(p)
<1>1. PICK q : q = Head(local[p].todo)
  OBVIOUS
<1>2. PICK label \in {"saveTransaction", "voidCredit"} : GoesOn(p, label)
  BY DEF VoidCredit, GoesOn, Ended, At, load
<1>3. WritesInto(p, {CreditRow(q)[1]})
  BY <1>1, WritesOne DEF VoidCredit
<1>4. Frame(p) /\ pc'[p] = label /\ Effect(p)
  BY <1>2, <1>3, WritesEffect DEF Touches, CreditRow
<1>5. QED BY <1>4 DEF Arrives

LEMMA SaveDiscountEffect ==
  ASSUME Shapes, NEW p \in Requests, SaveDiscount(p)
  PROVE  Frame(p) /\ Effect(p) /\ Arrives(p)
<1>1. WritesInto(p, {DiscountRow(p)[1]}) /\ GoesOn(p, "applyDiscount")
  BY WritesOne DEF SaveDiscount, GoesOn, Ended, At, load
<1>2. Frame(p) /\ pc'[p] = "applyDiscount" /\ Effect(p)
  BY <1>1, WritesEffect DEF Touches, DiscountRow
<1>3. QED BY <1>2 DEF Arrives

LEMMA ApplyDiscountEffect ==
  ASSUME Shapes, NEW p \in Requests, ApplyDiscount(p)
  PROVE  Frame(p) /\ Effect(p) /\ Arrives(p)
<1>1. PICK r : r = work[p].receivable
  OBVIOUS
<1>2. GoesOn(p, "commit")
  BY DEF ApplyDiscount, GoesOn, Ended, At, load
<1>3. WritesInto(p, {ReceivableRow(r)[1]})
  BY <1>1, WritesOne DEF ApplyDiscount, Discounted
<1>4. Frame(p) /\ pc'[p] = "commit" /\ Effect(p)
  BY <1>2, <1>3, WritesEffect DEF Touches, ReceivableRow
<1>5. QED BY <1>4 DEF Arrives

LEMMA CommitEffect ==
  ASSUME Shapes, NEW p \in Requests, Commit(p)
  PROVE  Frame(p) /\ Effect(p) /\ Arrives(p)
<1>1. work' = work /\ pc[p] = "commit" /\ Ends(p)
  BY DEF Commit, At, load
<1>2. Frame(p) /\ pc'[p] = "done" /\ Commits(p)
  BY <1>1, ProceedsFrame DEF Ends
<1>3. QED BY <1>1, <1>2 DEF Effect, Arrives

LEMMA ReadingEffect ==
  ASSUME Shapes, NEW p \in Requests,
         \/ Match(p) \/ ReadTransaction(p) \/ ReadOrder(p) \/ CheckItem(p)
         \/ SaveOrder(p) \/ SaveTransaction(p) \/ SaveReconciliation(p)
         \/ Unmatch(p) \/ FindAllocations(p) \/ FindReceipt(p) \/ FindCredits(p)
         \/ GetQr(p) \/ Discount(p) \/ Redeliver(p)
  PROVE  Frame(p) /\ Effect(p) /\ Arrives(p)
<1>1. CASE Fails(p) /\ work' = work
  BY <1>1, FailsEffect
<1>2. ASSUME NEW label, At(p, label) PROVE work' = work
  BY <1>2 DEF At, load
<1>3. Match(p) => Frame(p) /\ Effect(p) /\ Arrives(p)
  <2>1. ASSUME ReadTo(p, {"readTransaction"}) PROVE Frame(p) /\ Effect(p) /\ Arrives(p)
    BY <2>1, ReadEffect DEF Arrives
  <2>2. QED BY <1>1, <1>2, <2>1, ReadingStatements DEF Match
<1>4. ReadTransaction(p) => Frame(p) /\ Effect(p) /\ Arrives(p)
  BY ReadEffect, ReadingStatements DEF Arrives
<1>5. ReadOrder(p) => Frame(p) /\ Effect(p) /\ Arrives(p)
  <2>1. ASSUME ReadOrder(p), ReadTo(p, {"readItem"})
        PROVE  Frame(p) /\ Effect(p) /\ Arrives(p)
    BY <2>1, ReadEffect DEF Arrives
  <2>2. QED BY <1>1, <1>2, <2>1, ReadingStatements DEF ReadOrder
<1>6. CheckItem(p) => Frame(p) /\ Effect(p) /\ Arrives(p)
  BY ReadEffect, ReadingStatements DEF Arrives
<1>7. SaveOrder(p) => Frame(p) /\ Effect(p) /\ Arrives(p)
  BY ReadEffect, ReadingStatements DEF Arrives
<1>8. SaveTransaction(p) => Frame(p) /\ Effect(p) /\ Arrives(p)
  BY ReadEffect, ReadingStatements DEF Arrives
<1>9. SaveReconciliation(p) => Frame(p) /\ Effect(p) /\ Arrives(p)
  BY ReadEffect, ReadingStatements DEF Arrives
<1>10. Unmatch(p) => Frame(p) /\ Effect(p) /\ Arrives(p)
  <2>1. ASSUME ReadTo(p, {"findAllocations"}) PROVE Frame(p) /\ Effect(p) /\ Arrives(p)
    BY <2>1, ReadEffect DEF Arrives
  <2>2. QED BY <1>1, <1>2, <2>1, ReadingStatements DEF Unmatch
<1>11. FindAllocations(p) => Frame(p) /\ Effect(p) /\ Arrives(p)
  BY ReadEffect, ReadingStatements DEF Arrives
<1>12. FindReceipt(p) => Frame(p) /\ Effect(p) /\ Arrives(p)
  BY ReadEffect, ReadingStatements DEF Arrives
<1>13. FindCredits(p) => Frame(p) /\ Effect(p) /\ Arrives(p)
  BY ReadEffect, ReadingStatements DEF Arrives
<1>14. GetQr(p) => Frame(p) /\ Effect(p) /\ Arrives(p)
  BY ReadEffect, ReadingStatements DEF Arrives
<1>15. Discount(p) => Frame(p) /\ Effect(p) /\ Arrives(p)
  <2>1. ASSUME ReadTo(p, {"saveDiscount"}) PROVE Frame(p) /\ Effect(p) /\ Arrives(p)
    BY <2>1, ReadEffect DEF Arrives
  <2>2. QED BY <1>1, <1>2, <2>1, ReadingStatements DEF Discount
<1>16. Redeliver(p) => Frame(p) /\ Effect(p) /\ Arrives(p)
  BY ReadEffect, ReadingStatements DEF Arrives
<1>17. QED BY <1>3, <1>4, <1>5, <1>6, <1>7, <1>8, <1>9, <1>10, <1>11, <1>12, <1>13,
              <1>14, <1>15, <1>16

(* Every step of a request moves it alone, reads, rolls back, commits or   *)
(* writes, and only the statements named write what the theorems are about.*)
LEMMA StepEffects ==
  ASSUME Shapes, NEW p \in Requests, StepOf(p)
  PROVE  Frame(p) /\ Effect(p) /\ Arrives(p)
<1>1. CASE DeadlockVictim(p) \/ Crash(p)
  BY <1>1, FailsEffect DEF DeadlockVictim, Crash, load
<1>2. CASE Redeliver(p)
  BY <1>2, ReadingEffect
<1>3. CASE Statement(p)
  BY <1>3, ReadingEffect, IngestEffect, FindOrderEffect, ReadItemEffect,
     SaveAllocationEffect, ApplyPaymentEffect, UpdateOrderEffect,
     UpdateTransactionEffect, IssueReceiptEffect, UpdateReconciliationEffect,
     ReversePaymentEffect, CancelReceiptEffect, VoidCreditEffect,
     SaveDiscountEffect, ApplyDiscountEffect, CommitEffect DEF Statement
<1>4. QED BY <1>1, <1>2, <1>3 DEF StepOf

-----------------------------------------------------------------------------
(* Nothing is paid that is not owed.                                       *)

Pays(p) == work[p].kind \in {"ingest", "match"}

Good(rec) == rec \in Receivable /\ Sound(rec)

(* What requests do to a receivable before they commit it: a payment takes *)
(* no more than it lacks, nothing else pays, and only an unmatch adds to   *)
(* what it lacks.                                                          *)
Successor(p, old, new) ==
  /\ Good(new)
  /\ Pays(p) => new.amountOutstanding >= 0
  /\ ~ Pays(p) => new.amountPaid <= old.amountPaid
  /\ work[p].kind # "unmatch" => new.amountOutstanding <= old.amountOutstanding

AmountsOf(p) ==
  /\ \A r \in Receivables : ReceivableRow(r) \in DOMAIN written[p] =>
       Successor(p, committed[ReceivableRow(r)], written[p][ReceivableRow(r)])
  /\ \A q \in Requests, r \in Receivables : AllocationRow(q, r) \in DOMAIN written[p] =>
       written[p][AllocationRow(q, r)].amount \in Nat

(* What an allocation hands out is a number, and what an item is to get is *)
(* not negative.                                                           *)
Handing(p) ==
  /\ pc[p] \in {"readItem", "saveAllocation", "applyPayment"} =>
       local[p].available \in Int
  /\ pc[p] \in {"saveAllocation", "applyPayment"} => local[p].toAllocate \in Nat

AmountsInv ==
  /\ \A r \in Receivables : Good(committed[ReceivableRow(r)])
  /\ \A q \in Requests, r \in Receivables : committed[AllocationRow(q, r)].amount \in Nat
  /\ \A p \in Requests : AmountsOf(p) /\ Handing(p)

(* What a request sees of the rows, it may count with. *)
LEMMA SeenAmounts ==
  ASSUME AmountsInv, NEW p \in Requests, NEW r \in Receivables
  PROVE  LET seen == Sees(p, ReceivableRow(r))
             old  == committed[ReceivableRow(r)]
         IN  /\ Good(old) /\ Good(seen)
             /\ old.amountPaid \in Nat /\ old.amountOutstanding \in Int
             /\ seen.amountPaid \in Nat /\ seen.amountOutstanding \in Int
             /\ ~ Pays(p) => seen.amountPaid <= old.amountPaid
             /\ work[p].kind # "unmatch" => seen.amountOutstanding <= old.amountOutstanding
             /\ \A q \in Requests : Sees(p, AllocationRow(q, r)).amount \in Nat
<1> DEFINE seen == Sees(p, ReceivableRow(r))
           old  == committed[ReceivableRow(r)]
<1>1. Good(old) /\ AmountsOf(p)
  BY DEF AmountsInv
<1>2. seen = old \/ Successor(p, old, seen)
  BY <1>1 DEF AmountsOf, Sees
<1>3. \A q \in Requests : Sees(p, AllocationRow(q, r)).amount \in Nat
  BY <1>1 DEF AmountsInv, AmountsOf, Sees
<1> HIDE DEF seen, old
<1>4. Good(seen)
  BY <1>1, <1>2 DEF Successor
<1>5. /\ old.amountPaid \in Nat /\ old.amountOutstanding \in Int
      /\ seen.amountPaid \in Nat /\ seen.amountOutstanding \in Int
  BY <1>1, <1>4 DEF Good, Receivable
<1>6. /\ ~ Pays(p) => seen.amountPaid <= old.amountPaid
      /\ work[p].kind # "unmatch" => seen.amountOutstanding <= old.amountOutstanding
  BY <1>2, <1>5 DEF Successor
<1>7. QED BY <1>1, <1>3, <1>4, <1>5, <1>6 DEF seen, old

LEMMA WritesAmounts ==
  ASSUME Shapes, AmountsInv, NEW p \in Requests, NEW versions,
         Writes(p, versions), work' = work,
         \A r \in Receivables : ReceivableRow(r) \in DOMAIN versions =>
           Successor(p, committed[ReceivableRow(r)], versions[ReceivableRow(r)]),
         \A q \in Requests, r \in Receivables : AllocationRow(q, r) \in DOMAIN versions =>
           versions[AllocationRow(q, r)].amount \in Nat
  PROVE  AmountsOf(p)'
<1>1. /\ committed' = committed
      /\ DOMAIN written'[p] = DOMAIN versions \union DOMAIN written[p]
      /\ \A row \in DOMAIN versions : written'[p][row] = versions[row]
      /\ \A row \in DOMAIN written[p] \ DOMAIN versions :
           written'[p][row] = written[p][row]
  BY WritesRows DEF Shapes
<1>2. AmountsOf(p)
  BY DEF AmountsInv
<1>3. ASSUME NEW r \in Receivables, ReceivableRow(r) \in DOMAIN written'[p]
      PROVE  Successor(p, committed[ReceivableRow(r)], written'[p][ReceivableRow(r)])
  BY <1>1, <1>2, <1>3 DEF AmountsOf
<1>4. ASSUME NEW r \in Receivables, ReceivableRow(r) \in DOMAIN written'[p]
      PROVE  Successor(p, committed[ReceivableRow(r)], written[p][ReceivableRow(r)])'
  BY <1>1, <1>3, <1>4 DEF Successor, Pays
<1>5. ASSUME NEW q \in Requests, NEW r \in Receivables,
             AllocationRow(q, r) \in DOMAIN written'[p]
      PROVE  written'[p][AllocationRow(q, r)].amount \in Nat
  BY <1>1, <1>2, <1>5 DEF AmountsOf
<1>6. QED BY <1>4, <1>5 DEF AmountsOf

LEMMA RowsOfTables ==
  /\ \A r, s : ReceivableRow(r) = ReceivableRow(s) => r = s
  /\ \A r, q, s : ReceivableRow(r) # AllocationRow(q, s)
  /\ \A q, r : AllocationRow(q, r)[1] = "payment_allocations"
  /\ \A r : ReceivableRow(r)[1] = "student_receivables"
BY DEF ReceivableRow, AllocationRow

LEMMA SaveAllocationAmounts ==
  ASSUME WriterInv, AmountsInv, NEW p \in Requests, SaveAllocation(p)
  PROVE  AmountsOf(p)'
<1>1. PICK row, version :
        /\ row = AllocationRow(p, Item(p))
        /\ version = [amount |-> local[p].toAllocate, reversed |-> FALSE]
  OBVIOUS
<1>2. Writes(p, NewVersion(row, version)) /\ work' = work /\ pc[p] = "saveAllocation"
  BY <1>1 DEF SaveAllocation, At, load
<1>3. version.amount \in Nat
  BY <1>1, <1>2 DEF AmountsInv, Handing
<1>4. PICK versions : versions = NewVersion(row, version)
  OBVIOUS
<1>5. DOMAIN versions = {row} /\ versions[row] = version
  BY <1>4, OneVersion
<1>6. \A r : ReceivableRow(r) # row
  BY <1>1, RowsOfTables
<1>7. QED BY <1>2, <1>3, <1>4, <1>5, <1>6, WritesAmounts DEF WriterInv

LEMMA NotPastDueType == NotPastDue \in BOOLEAN
BY DEF NotPastDue

LEMMA ApplyPaymentAmounts ==
  ASSUME WriterInv, AmountsInv, NEW p \in Requests, ApplyPayment(p), ~ Fails(p)
  PROVE  AmountsOf(p)'
<1>0. At(p, "applyPayment")
  BY DEF ApplyPayment
<1>1. /\ Item(p) \in Receivables /\ Pays(p) /\ work' = work
      /\ local[p].toAllocate \in Nat
  BY <1>0, ItemIsReceivable DEF Pays, AmountsInv, Handing
<1>2. PICK r, paid, seen, old :
        /\ r \in Receivables /\ paid \in Nat
        /\ r = Item(p) /\ paid = local[p].toAllocate
        /\ seen = Sees(p, ReceivableRow(r)) /\ old = committed[ReceivableRow(r)]
  BY <1>1
<1>3. /\ ~ (paid > seen.amountOutstanding)
      /\ Writes(p, NewVersion(ReceivableRow(r), ApplyPaymentDelta(seen, paid, NotPastDue)))
  BY <1>2 DEF ApplyPayment, ExceedsOutstanding, ReceivableOf
<1>4. /\ Good(seen) /\ seen.amountPaid \in Nat /\ seen.amountOutstanding \in Int
      /\ old.amountOutstanding \in Int
      /\ work[p].kind # "unmatch" => seen.amountOutstanding <= old.amountOutstanding
  BY <1>2, SeenAmounts
<1>5. PICK new : new = ApplyPaymentDelta(seen, paid, NotPastDue)
  OBVIOUS
<1>6. Good(new) /\ new.amountOutstanding = seen.amountOutstanding - paid
  <2>1. paid \in Nat /\ seen \in Receivable /\ Sound(seen)
    BY <1>2, <1>4 DEF Good
  <2>2. new \in Receivable /\ Sound(new)
        /\ new.amountOutstanding = seen.amountOutstanding - paid
    BY <1>5, <2>1, DeltaTypes, DeltaEffects, NotPastDueType
  <2>3. QED BY <2>2 DEF Good
<1>7. Successor(p, old, new)
  BY <1>1, <1>2, <1>3, <1>4, <1>6 DEF Successor, Pays
<1>8. PICK versions : versions = NewVersion(ReceivableRow(r), new)
  OBVIOUS
<1>9. DOMAIN versions = {ReceivableRow(r)} /\ versions[ReceivableRow(r)] = new
  BY <1>8, OneVersion
<1>10. QED
  BY <1>1, <1>2, <1>3, <1>5, <1>7, <1>8, <1>9, RowsOfTables, WritesAmounts DEF WriterInv

LEMMA DiscountedGood ==
  ASSUME NEW rec, Good(rec), NEW d \in Nat, NEW new,
         new = ApplyDiscountDelta(rec, d, NotPastDue)
  PROVE  /\ Good(new) /\ new.amountOutstanding = rec.amountOutstanding - d
         /\ new.amountPaid = rec.amountPaid
<1>1. rec \in Receivable /\ Sound(rec) /\ d \in Int /\ NotPastDue \in BOOLEAN
  BY NotPastDueType DEF Good
<1>2. new \in Receivable /\ new.amountPaid = rec.amountPaid
  BY <1>1, DeltaTypes
<1>3. Sound(new) /\ new.amountOutstanding = rec.amountOutstanding - d
  BY <1>1, DeltaEffects
<1>4. QED BY <1>2, <1>3 DEF Good

LEMMA ReversedGood ==
  ASSUME NEW rec, Good(rec), NEW a \in Nat, NEW new,
         new = ReversePaymentDelta(rec, a, NotPastDue)
  PROVE  /\ Good(new)
         /\ new.amountPaid = IF a <= rec.amountPaid THEN rec.amountPaid - a ELSE 0
<1>1. rec \in Receivable /\ Sound(rec) /\ NotPastDue \in BOOLEAN
  BY NotPastDueType DEF Good
<1>2. /\ new \in Receivable
      /\ new.amountPaid = IF a <= rec.amountPaid THEN rec.amountPaid - a ELSE 0
  BY <1>1, DeltaTypes
<1>3. Sound(new)
  BY <1>1, DeltaEffects
<1>4. QED BY <1>2, <1>3 DEF Good

LEMMA ApplyDiscountAmounts ==
  ASSUME WriterInv, AmountsInv, NEW p \in Requests, ApplyDiscount(p)
  PROVE  AmountsOf(p)'
<1>0. At(p, "applyDiscount") /\ work' = work
  BY DEF ApplyDiscount, At, load
<1>1. work[p].kind = "discount"
  BY <1>0, Standing DEF StaysOnPath, OnPath, Ended, AllocationLabels, MatchLabels,
                        UnmatchLabels, Kinds
<1>2. work[p].receivable \in Receivables /\ work[p].amount \in Nat
  BY <1>1 DEF WriterInv, WorkOK
<1>3. PICK r, granted, seen, old :
        /\ r \in Receivables /\ granted \in Nat
        /\ r = work[p].receivable /\ granted = work[p].amount
        /\ seen = Sees(p, ReceivableRow(r)) /\ old = committed[ReceivableRow(r)]
  BY <1>2
<1>4. Writes(p, NewVersion(ReceivableRow(r),
                           ApplyDiscountDelta(seen, granted, NotPastDue)))
  BY <1>3 DEF ApplyDiscount, Discounted
<1>5. /\ Good(seen) /\ seen.amountPaid \in Nat /\ seen.amountOutstanding \in Int
      /\ old.amountOutstanding \in Int /\ old.amountPaid \in Nat
      /\ ~ Pays(p) => seen.amountPaid <= old.amountPaid
      /\ work[p].kind # "unmatch" => seen.amountOutstanding <= old.amountOutstanding
  BY <1>3, SeenAmounts
<1>6. PICK new : new = ApplyDiscountDelta(seen, granted, NotPastDue)
  OBVIOUS
<1>7. /\ Good(new) /\ new.amountOutstanding = seen.amountOutstanding - granted
      /\ new.amountPaid = seen.amountPaid
  <2>1. granted \in Nat /\ Good(seen)
    BY <1>3, <1>5
  <2>2. QED BY <1>6, <2>1, DiscountedGood
<1>8. Successor(p, old, new)
  BY <1>1, <1>3, <1>5, <1>7 DEF Successor, Pays
<1>9. PICK versions : versions = NewVersion(ReceivableRow(r), new)
  OBVIOUS
<1>10. DOMAIN versions = {ReceivableRow(r)} /\ versions[ReceivableRow(r)] = new
  BY <1>9, OneVersion
<1>11. QED
  BY <1>0, <1>3, <1>4, <1>6, <1>8, <1>9, <1>10, RowsOfTables, WritesAmounts
     DEF WriterInv

LEMMA ReversePaymentAmounts ==
  ASSUME WriterInv, AmountsInv, NEW p \in Requests, ReversePayment(p)
  PROVE  AmountsOf(p)'
<1>0. At(p, "reversePayment") /\ work' = work
  BY DEF ReversePayment, At, load
<1>1. work[p].kind = "unmatch" /\ pc[p] = "reversePayment" /\ TodoOK(p)
  BY <1>0, UnmatchStands
<1>2. Head(local[p].todo) \in Requests \X Receivables
  BY <1>1, TodoTail DEF TodoOK
<1>3. PICK q, r, seen, old, allocation :
        /\ q \in Requests /\ r \in Receivables
        /\ Head(local[p].todo) = <<q, r>>
        /\ seen = Sees(p, ReceivableRow(r)) /\ old = committed[ReceivableRow(r)]
        /\ allocation = Sees(p, AllocationRow(q, r))
  BY <1>2
<1>4. Writes(p, NewVersion(ReceivableRow(r),
                   ReversePaymentDelta(seen, allocation.amount, NotPastDue))
         \uplus NewVersion(AllocationRow(q, r), [allocation EXCEPT !.reversed = TRUE]))
  <2>1. Head(local[p].todo)[1] = q /\ Head(local[p].todo)[2] = r
    BY <1>3
  <2>2. QED BY <1>3, <2>1, Zenon DEF ReversePayment
<1>5. /\ Good(seen) /\ seen.amountPaid \in Nat /\ old.amountPaid \in Nat
      /\ allocation.amount \in Nat
      /\ ~ Pays(p) => seen.amountPaid <= old.amountPaid
  BY <1>3, SeenAmounts
<1>6. PICK new, reversed :
        /\ new = ReversePaymentDelta(seen, allocation.amount, NotPastDue)
        /\ reversed = [allocation EXCEPT !.reversed = TRUE]
  OBVIOUS
<1>7. /\ Good(new)
      /\ new.amountPaid = IF allocation.amount <= seen.amountPaid
                          THEN seen.amountPaid - allocation.amount ELSE 0
  BY <1>5, <1>6, ReversedGood
<1>8. Successor(p, old, new)
  BY <1>1, <1>5, <1>7 DEF Successor, Pays
<1>9. reversed.amount \in Nat
  BY <1>5, <1>6
<1>10. PICK versions :
         versions = NewVersion(ReceivableRow(r), new)
                      \uplus NewVersion(AllocationRow(q, r), reversed)
  OBVIOUS
<1>11. /\ DOMAIN versions = {ReceivableRow(r), AllocationRow(q, r)}
       /\ versions[ReceivableRow(r)] = new
       /\ versions[AllocationRow(q, r)] = reversed
  <2>1. PICK a, b : a = ReceivableRow(r) /\ b = AllocationRow(q, r)
    OBVIOUS
  <2>2. a # b
    BY <2>1, RowsOfTables
  <2>3. versions = NewVersion(a, new) \uplus NewVersion(b, reversed)
    BY <1>10, <2>1
  <2>4. DOMAIN versions = {a, b} /\ versions[a] = new /\ versions[b] = reversed
    BY <2>2, <2>3 DEF NewVersion, \uplus
  <2>5. QED BY <2>1, <2>4
<1>12. /\ \A s \in Receivables : ReceivableRow(s) \in DOMAIN versions => s = r
       /\ \A d \in Requests, s \in Receivables : AllocationRow(d, s) \in DOMAIN versions =>
            AllocationRow(d, s) = AllocationRow(q, r)
  BY <1>11, RowsOfTables
<1>13. Writes(p, versions)
  BY <1>4, <1>6, <1>10
<1>14. /\ \A s \in Receivables : ReceivableRow(s) \in DOMAIN versions =>
            Successor(p, committed[ReceivableRow(s)], versions[ReceivableRow(s)])
       /\ \A d \in Requests, s \in Receivables : AllocationRow(d, s) \in DOMAIN versions =>
            versions[AllocationRow(d, s)].amount \in Nat
  BY <1>3, <1>8, <1>9, <1>11, <1>12
<1>15. QED
  BY <1>0, <1>13, <1>14, WritesAmounts DEF WriterInv

(* A statement that writes none of these rows leaves them. *)
LEMMA OtherWritesAmounts ==
  ASSUME Shapes, AmountsInv, NEW p \in Requests, NEW versions,
         Writes(p, versions), work' = work,
         \A row \in DOMAIN versions :
           row[1] \notin {"student_receivables", "payment_allocations"}
  PROVE  AmountsOf(p)'
BY RowsOfTables, WritesAmounts

LEMMA NextItemIsReceivable ==
  ASSUME WriterInv, NEW p \in Requests, At(p, "readItem"),
         ~ (local[p].item > Len(ItemsOf(p)))
  PROVE  Item(p) \in Receivables
<1>1. work[p].kind \in {"ingest", "match"}
  BY Standing DEF StaysOnPath, OnPath, Ended, MatchLabels, UnmatchLabels, Kinds
<1>2. /\ ItemsOf(p) \in Seq(Receivables) /\ Len(ItemsOf(p)) \in Nat \ {0}
      /\ LocalsOK(p) /\ pc[p] = "readItem"
  BY <1>1, Allocating DEF AllocationLabels
<1>3. local[p].item \in 1..(Len(ItemsOf(p)) + 1)
  BY <1>2 DEF LocalsOK
<1>4. local[p].item \in 1..Len(ItemsOf(p))
  BY <1>2, <1>3
<1>5. QED BY <1>2, <1>4, ElementOfSeq DEF Item

LEMMA HandingStep ==
  ASSUME WriterInv, AmountsInv, NEW p \in Requests, StepOf(p)
  PROVE  Handing(p)'
<1>1. Frame(p) /\ Arrives(p)
  BY StepEffects DEF WriterInv
<1>2. DOMAIN local[p] = DOMAIN NoLocals /\ Handing(p) /\ Shapes
  BY DEF WriterInv, Shapes, AmountsInv
<1>3. CASE pc'[p] \notin {"readItem", "saveAllocation", "applyPayment"}
  BY <1>3 DEF Handing
<1>4. CASE Fails(p)
  <2>1. pc'[p] = "failed"
    BY <1>2, <1>4 DEF Fails, Proceeds, Goto, Shapes
  <2>2. QED BY <1>3, <2>1
<1>5. CASE ReadOrder(p) /\ ~ Fails(p)
  <2>1. StartsAllocating(p) /\ At(p, "readOrder")
    BY <1>5 DEF ReadOrder
  <2>2. AmountOf[TransactionOf(p)] \in Int
    BY <2>1, Standing, RowsAssumption
  <2>3. pc'[p] = "readItem"
        /\ local'[p] = [local[p] EXCEPT !.available = AmountOf[TransactionOf(p)]]
    BY <1>2, <2>1 DEF StartsAllocating, Proceeds, Goto, Shapes
  <2>4. QED BY <1>2, <2>2, <2>3 DEF Handing, NoLocals
<1>6. CASE FindOrder(p)
  <2>1. At(p, "findOrder") /\ Shapes
    BY <1>2, <1>6 DEF FindOrder
  <2>2. AmountOf[TransactionOf(p)] \in Int
    BY <2>1, Standing, RowsAssumption
  <2>3. CASE StartsAllocating(p)
    <3>1. pc'[p] = "readItem"
          /\ local'[p] = [local[p] EXCEPT !.available = AmountOf[TransactionOf(p)]]
      BY <1>2, <2>3 DEF StartsAllocating, Proceeds, Goto, Shapes
    <3>2. QED BY <1>2, <2>2, <3>1 DEF Handing, NoLocals
  <2>4. CASE Goto(p, "commit")
    BY <1>2, <1>3, <2>4 DEF Goto, Shapes
  <2>5. QED BY <1>6, <2>3, <2>4 DEF FindOrder
<1>7. CASE ReadItem(p)
  <2>1. At(p, "readItem") /\ pc[p] = "readItem" /\ local[p].available \in Int
    BY <1>2, <1>7 DEF ReadItem, At, Handing
  <2>2. CASE local'[p] = NextItem(p) /\ pc'[p] = "readItem"
    BY <1>2, <2>1, <2>2 DEF Handing, NextItem, NoLocals
  <2>3. CASE /\ local'[p] = [local[p] EXCEPT !.toAllocate = Share(p)]
             /\ pc'[p] = "saveAllocation" /\ ~ (Share(p) <= 0)
             /\ ~ (local[p].item > Len(ItemsOf(p)))
    <3>1. Item(p) \in Receivables
      BY <2>1, <2>3, NextItemIsReceivable
    <3>2. ReceivableOf(p).amountOutstanding \in Int
      BY <3>1, SeenAmounts DEF ReceivableOf
    <3>3. Share(p) \in Nat
      BY <2>1, <2>3, <3>2 DEF Share, Lesser
    <3>4. local'[p].available = local[p].available /\ local'[p].toAllocate = Share(p)
      BY <1>2, <2>3 DEF NoLocals
    <3>5. QED BY <2>1, <2>3, <3>3, <3>4 DEF Handing
  <2>4. CASE pc'[p] = "checkItem"
    BY <1>3, <2>4
  <2>5. QED
    BY <1>2, <1>7, <2>2, <2>3, <2>4 DEF ReadItem, Proceeds, Goto, Shapes
<1>8. CASE SaveAllocation(p)
  <2>1. pc[p] = "saveAllocation" /\ local'[p] = local[p]
    BY <1>8 DEF SaveAllocation, At
  <2>2. QED BY <1>2, <2>1 DEF Handing
<1>9. CASE ApplyPayment(p) /\ ~ Fails(p)
  <2>1. pc[p] = "applyPayment" /\ pc'[p] = "readItem"
        /\ local'[p] = [local[p] EXCEPT !.item = @ + 1,
                                        !.available = @ - local[p].toAllocate]
    BY <1>2, <1>9 DEF ApplyPayment, At, Proceeds, Goto, Shapes
  <2>2. local'[p].available = local[p].available - local[p].toAllocate
    BY <1>2, <2>1 DEF NoLocals
  <2>3. local[p].available \in Int /\ local[p].toAllocate \in Nat
    BY <1>2, <2>1 DEF Handing
  <2>4. QED BY <2>1, <2>2, <2>3 DEF Handing
<1>10. QED
  BY <1>1, <1>3, <1>4, <1>5, <1>6, <1>7, <1>8, <1>9 DEF Arrives

(* The rows of a request stay as they were against those committed. *)
LEMMA AmountsStay ==
  ASSUME NEW q \in Requests, AmountsOf(q), written'[q] = written[q], work' = work,
         \A r \in Receivables : ReceivableRow(r) \in DOMAIN written[q] =>
           committed'[ReceivableRow(r)] = committed[ReceivableRow(r)]
  PROVE  AmountsOf(q)'
<1>1. ASSUME NEW r \in Receivables, ReceivableRow(r) \in DOMAIN written'[q]
      PROVE  Successor(q, committed[ReceivableRow(r)], written[q][ReceivableRow(r)])'
  BY <1>1 DEF AmountsOf, Successor, Pays
<1>2. QED BY <1>1 DEF AmountsOf

LEMMA StepAmounts ==
  ASSUME WriterInv, AmountsInv, NEW p \in Requests, StepOf(p)
  PROVE  AmountsInv'
<1>0. /\ Frame(p) /\ Effect(p) /\ Shapes /\ work' = work /\ DOMAIN written = Requests
      /\ \A q \in Requests : AmountsOf(q) /\ Handing(q)
  BY StepEffects DEF WriterInv, Shapes, AmountsInv, Frame
<1>1. \A q \in Requests : Handing(q)'
  BY <1>0, HandingStep DEF Frame, Handing
<1>2. CASE OnlyReads
  <2>1. committed' = committed /\ written' = written
    BY <1>2 DEF OnlyReads
  <2>2. \A q \in Requests : AmountsOf(q)'
    BY <1>0, <2>1, AmountsStay
  <2>3. QED BY <1>1, <2>1, <2>2 DEF AmountsInv
<1>3. CASE RollsBack(p)
  <2>1. committed' = committed /\ written'[p] = NothingWritten
    BY <1>0, <1>3, RollsBackRows
  <2>2. \A q \in Requests \ {p} : AmountsOf(q)'
    BY <1>0, <2>1, AmountsStay DEF Frame
  <2>3. AmountsOf(p)'
    BY <2>1, NothingIsWritten DEF AmountsOf
  <2>4. QED BY <1>1, <2>1, <2>2, <2>3 DEF AmountsInv
<1>4. CASE Commits(p)
  <2>1. /\ written'[p] = NothingWritten
        /\ \A row \in DOMAIN written[p] : committed'[row] = written[p][row]
        /\ \A row \in DOMAIN committed \ DOMAIN written[p] :
             committed'[row] = committed[row]
    BY <1>0, <1>4, CommitsRows
  <2>2. /\ \A r \in Receivables : ReceivableRow(r) \in DOMAIN committed
        /\ \A q \in Requests, r \in Receivables : AllocationRow(q, r) \in DOMAIN committed
    BY <1>0, AllRowsHere, OwnRowsApart DEF Shapes
  <2>3. ASSUME NEW q \in Requests \ {p} PROVE AmountsOf(q)'
    <3>1. DOMAIN written[p] \intersect DOMAIN written[q] = {}
      BY DEF WriterInv, OneWriter
    <3>2. \A r \in Receivables : ReceivableRow(r) \in DOMAIN written[q] =>
            committed'[ReceivableRow(r)] = committed[ReceivableRow(r)]
      BY <2>1, <2>2, <3>1
    <3>3. QED BY <1>0, <3>2, AmountsStay DEF Frame
  <2>4. AmountsOf(p)'
    BY <2>1, NothingIsWritten DEF AmountsOf
  <2>5. \A r \in Receivables : Good(committed'[ReceivableRow(r)])
    BY <1>0, <2>1, <2>2 DEF AmountsInv, AmountsOf, Successor
  <2>6. \A q \in Requests, r \in Receivables :
          committed'[AllocationRow(q, r)].amount \in Nat
    BY <1>0, <2>1, <2>2 DEF AmountsInv, AmountsOf
  <2>7. QED BY <1>1, <2>3, <2>4, <2>5, <2>6 DEF AmountsInv, Good
<1>5. ASSUME NEW versions, Writes(p, versions), pc'[p] \notin Ended,
             \A row \in DOMAIN versions : Touches(p, row)
      PROVE  AmountsInv'
  <2>1. committed' = committed
    BY <1>5 DEF Writes
  <2>2. \A q \in Requests \ {p} : AmountsOf(q)'
    BY <1>0, <2>1, AmountsStay DEF Frame
  <2>3. ~ Fails(p)
    BY <1>0, <1>5 DEF Fails, Proceeds, Goto, Shapes, Ended
  <2>4. AmountsOf(p)'
    <3>1. CASE ApplyPayment(p) \/ ReversePayment(p) \/ ApplyDiscount(p)
                 \/ SaveAllocation(p)
      BY <2>3, <3>1, ApplyPaymentAmounts, ReversePaymentAmounts, ApplyDiscountAmounts,
         SaveAllocationAmounts
    <3>2. CASE ~ (ApplyPayment(p) \/ ReversePayment(p) \/ ApplyDiscount(p)
                    \/ SaveAllocation(p))
      <4>1. \A row \in DOMAIN versions :
              row[1] \notin {"student_receivables", "payment_allocations"}
        BY <1>5, <3>2 DEF Touches
      <4>2. QED BY <1>0, <1>5, <4>1, OtherWritesAmounts
    <3>3. QED BY <3>1, <3>2
  <2>5. QED BY <1>1, <2>1, <2>2, <2>4 DEF AmountsInv
<1>6. QED BY <1>0, <1>2, <1>3, <1>4, <1>5 DEF Effect

LEMMA StutterAmounts ==
  ASSUME AmountsInv, UNCHANGED vars
  PROVE  AmountsInv'
BY DEF AmountsInv, AmountsOf, Handing, Successor, Pays, vars, load, Good

LEMMA InitAmounts == Init => AmountsInv
<1> SUFFICES ASSUME Init PROVE AmountsInv
  OBVIOUS
<1>1. PICK workload \in Workloads : committed = InitialRows(workload[1])
  BY DEF Init
<1>2. /\ \A r \in Receivables :
           committed[ReceivableRow(r)] = NewReceivable(OriginalAmount[r])
      /\ \A q \in Requests, r \in Receivables :
           committed[AllocationRow(q, r)] = [amount |-> 0, reversed |-> FALSE]
  BY <1>1, InitialVersions
<1>3. \A r \in Receivables : Good(committed[ReceivableRow(r)])
  <2>1. ASSUME NEW r \in Receivables PROVE Good(NewReceivable(OriginalAmount[r]))
    <3>1. OriginalAmount[r] \in Int
      BY RowsAssumption
    <3>2. QED BY <3>1, NewReceivableType, NewReceivableSound DEF Good
  <2>2. QED BY <1>2, <2>1
<1>4. \A q \in Requests, r \in Receivables : committed[AllocationRow(q, r)].amount = 0
  BY <1>2
<1>5. ASSUME NEW p \in Requests PROVE AmountsOf(p) /\ Handing(p)
  <2>1. DOMAIN written[p] = {} /\ pc[p] \in Kinds \union {"done"}
    BY InitWriterInv, NothingIsWritten DEF Init, WriterInv, WorkOK
  <2>2. QED BY <2>1 DEF AmountsOf, Handing, Kinds
<1>6. QED BY <1>3, <1>4, <1>5 DEF AmountsInv

LEMMA NextAmounts == WriterInv /\ AmountsInv /\ [Next]_vars => AmountsInv'
BY StepAmounts, StutterAmounts DEF Next, StepOf

LEMMA AmountsInvAlways == Spec => []AmountsInv
BY WriterInvAlways, InitAmounts, NextAmounts, PTL DEF Spec

(* A step commits no payment of a receivable beyond what it lacks. *)
LEMMA StepNeverOverpays ==
  ASSUME WriterInv, AmountsInv, NEW p \in Requests, StepOf(p),
         NEW r \in Receivables,
         committed'[ReceivableRow(r)].amountPaid > committed[ReceivableRow(r)].amountPaid
  PROVE  committed'[ReceivableRow(r)].amountOutstanding >= 0
<1> DEFINE row == ReceivableRow(r)
           old == committed[ReceivableRow(r)]
<1>1. Effect(p) /\ Shapes /\ row \in DOMAIN committed
  BY StepEffects, AllRowsHere DEF WriterInv, Shapes
<1>2. Good(old) /\ AmountsOf(p)
  BY DEF AmountsInv
<1>3. old.amountPaid \in Nat
  BY <1>2 DEF Good, Receivable
<1>4. committed'[row] # old
  BY <1>3
<1>5. Commits(p)
  <2>1. committed' # committed
    BY <1>4
  <2>2. QED BY <1>1, <2>1 DEF Effect, OnlyReads, RollsBack, Writes
<1>6. row \in DOMAIN written[p] /\ committed'[row] = written[p][row]
  BY <1>1, <1>4, <1>5, CommitsRows DEF Shapes
<1> HIDE DEF row, old
<1>7. Successor(p, old, committed'[row])
  BY <1>2, <1>6 DEF AmountsOf, row, old
<1>8. PICK new : new = committed'[row]
  OBVIOUS
<1>9. new.amountPaid > old.amountPaid /\ Successor(p, old, new)
  BY <1>7, <1>8 DEF row, old
<1>10. new.amountPaid \in Nat
  BY <1>9 DEF Successor, Good, Receivable
<1>11. QED BY <1>3, <1>8, <1>9, <1>10 DEF Successor, row

(* No payments that run at once together give a receivable more than it    *)
(* lacked, although each reads what it lacks before it locks it.           *)
THEOREM NeverOverpaidAtOnce == Spec => NeverOverpaid
<1>1. WriterInv /\ AmountsInv /\ [Next]_vars
      => [\A r \in Receivables :
            LET receivable == committed[ReceivableRow(r)] IN
            receivable'.amountPaid > receivable.amountPaid
              => receivable'.amountOutstanding >= 0]_vars
  BY StepNeverOverpays DEF Next, StepOf
<1>2. QED BY <1>1, WriterInvAlways, AmountsInvAlways, PTL DEF Spec, NeverOverpaid

-----------------------------------------------------------------------------
(* The numbers of receipts have no gaps.                                   *)

NumberOf(p) == committed[ReceiptRow(p)].number
LastNumber  == committed[SequenceRow]

(* The statements that come after the receipt. *)
LastLabels == {"saveReconciliation", "updateReconciliation", "commit"}

(* Who has drawn a number has written the receipt it is for, and draws no  *)
(* second one; nobody changes the number of another's receipt.             *)
Numbering(p) ==
  /\ SequenceRow \in DOMAIN written[p] =>
       /\ pc[p] \in LastLabels
       /\ written[p][SequenceRow] = LastNumber + 1
       /\ ReceiptRow(p) \in DOMAIN written[p]
       /\ written[p][ReceiptRow(p)].number = LastNumber + 1
  /\ ReceiptRow(p) \in DOMAIN written[p] => SequenceRow \in DOMAIN written[p]
  /\ \A q \in Requests \ {p} : ReceiptRow(q) \in DOMAIN written[p] =>
       written[p][ReceiptRow(q)].number = NumberOf(q)

NumbersOK ==
  /\ LastNumber \in Nat
  /\ \A p \in Requests : NumberOf(p) \in 0..LastNumber
  /\ \A n \in 1..LastNumber : \E p \in Requests : NumberOf(p) = n
  /\ \A p, q \in Requests : NumberOf(p) = NumberOf(q) /\ NumberOf(p) # 0 => p = q

ReceiptsInv == NumbersOK /\ \A p \in Requests : Numbering(p)

LEMMA LabelsRun ==
  ASSUME NEW p
  PROVE  /\ Ingest(p) => pc[p] = "ingest"
         /\ FindOrder(p) => pc[p] = "findOrder"
         /\ Match(p) => pc[p] = "match"
         /\ ReadTransaction(p) => pc[p] = "readTransaction"
         /\ ReadOrder(p) => pc[p] = "readOrder"
         /\ ReadItem(p) => pc[p] = "readItem"
         /\ SaveAllocation(p) => pc[p] = "saveAllocation"
         /\ ApplyPayment(p) => pc[p] = "applyPayment"
         /\ CheckItem(p) => pc[p] = "checkItem"
         /\ SaveOrder(p) => pc[p] = "saveOrder"
         /\ UpdateOrder(p) => pc[p] = "updateOrder"
         /\ SaveTransaction(p) => pc[p] = "saveTransaction"
         /\ UpdateTransaction(p) => pc[p] = "updateTransaction"
         /\ IssueReceipt(p) => pc[p] = "issueReceipt"
         /\ Unmatch(p) => pc[p] = "unmatch"
         /\ FindAllocations(p) => pc[p] = "findAllocations"
         /\ ReversePayment(p) => pc[p] = "reversePayment"
         /\ FindReceipt(p) => pc[p] = "findReceipt"
         /\ CancelReceipt(p) => pc[p] = "cancelReceipt"
         /\ FindCredits(p) => pc[p] = "findCredits"
         /\ VoidCredit(p) => pc[p] = "voidCredit"
         /\ GetQr(p) => pc[p] = "getQr"
         /\ Discount(p) => pc[p] = "discount"
         /\ SaveDiscount(p) => pc[p] = "saveDiscount"
         /\ ApplyDiscount(p) => pc[p] = "applyDiscount"
         /\ Redeliver(p) => pc[p] = "failed"
<1>1. /\ Ingest(p) => pc[p] = "ingest"
      /\ FindOrder(p) => pc[p] = "findOrder"
      /\ Match(p) => pc[p] = "match"
      /\ ReadTransaction(p) => pc[p] = "readTransaction"
      /\ ReadOrder(p) => pc[p] = "readOrder"
  BY DEF Ingest, FindOrder, Match, ReadTransaction, ReadOrder, At
<1>2. /\ ReadItem(p) => pc[p] = "readItem"
      /\ SaveAllocation(p) => pc[p] = "saveAllocation"
      /\ ApplyPayment(p) => pc[p] = "applyPayment"
      /\ CheckItem(p) => pc[p] = "checkItem"
      /\ SaveOrder(p) => pc[p] = "saveOrder"
      /\ UpdateOrder(p) => pc[p] = "updateOrder"
  BY DEF ReadItem, SaveAllocation, ApplyPayment, CheckItem, SaveOrder, UpdateOrder, At
<1>3. /\ SaveTransaction(p) => pc[p] = "saveTransaction"
      /\ UpdateTransaction(p) => pc[p] = "updateTransaction"
      /\ IssueReceipt(p) => pc[p] = "issueReceipt"
      /\ Unmatch(p) => pc[p] = "unmatch"
      /\ FindAllocations(p) => pc[p] = "findAllocations"
      /\ ReversePayment(p) => pc[p] = "reversePayment"
  BY DEF SaveTransaction, UpdateTransaction, IssueReceipt, Unmatch, FindAllocations,
         ReversePayment, At
<1>4. /\ FindReceipt(p) => pc[p] = "findReceipt"
      /\ CancelReceipt(p) => pc[p] = "cancelReceipt"
      /\ FindCredits(p) => pc[p] = "findCredits"
      /\ VoidCredit(p) => pc[p] = "voidCredit"
      /\ GetQr(p) => pc[p] = "getQr"
      /\ Discount(p) => pc[p] = "discount"
  BY DEF FindReceipt, CancelReceipt, FindCredits, VoidCredit, GetQr, Discount, At
<1>5. /\ SaveDiscount(p) => pc[p] = "saveDiscount"
      /\ ApplyDiscount(p) => pc[p] = "applyDiscount"
      /\ Redeliver(p) => pc[p] = "failed"
  BY DEF SaveDiscount, ApplyDiscount, Redeliver, At
<1>6. QED BY <1>1, <1>2, <1>3, <1>4, <1>5

(* After its receipt, a request saves its reconciliation and ends. *)
LEMMA LastStatements ==
  ASSUME Shapes, NEW p \in Requests, StepOf(p), pc[p] \in LastLabels
  PROVE  /\ pc'[p] \in LastLabels \union Ended
         /\ pc'[p] = "done" => Commits(p)
<1>1. \/ SaveReconciliation(p) \/ UpdateReconciliation(p) \/ Commit(p) \/ Fails(p)
  BY LabelsRun DEF StepOf, Statement, LastLabels, DeadlockVictim, Crash
<1>2. SaveReconciliation(p) => pc'[p] = "updateReconciliation"
  BY DEF SaveReconciliation, Proceeds, Goto, Shapes
<1>3. UpdateReconciliation(p) => pc'[p] = "commit"
  BY DEF UpdateReconciliation, Goto, Shapes
<1>4. Commit(p) => pc'[p] = "done" /\ Commits(p)
  BY DEF Commit, Ends, Proceeds, Goto, Shapes
<1>5. Fails(p) => pc'[p] = "failed"
  BY DEF Fails, Proceeds, Goto, Shapes
<1>6. QED BY <1>1, <1>2, <1>3, <1>4, <1>5 DEF LastLabels, Ended

LEMMA ReceiptRowsApart ==
  /\ \A p, q : ReceiptRow(p) = ReceiptRow(q) => p = q
  /\ \A p : ReceiptRow(p) # SequenceRow
  /\ \A p : ReceiptRow(p)[1] = "receipts"
  /\ SequenceRow[1] = "number_sequences"
BY DEF ReceiptRow, SequenceRow

LEMMA NumberingStays ==
  ASSUME NEW q \in Requests, Numbering(q), written'[q] = written[q],
         SequenceRow \in DOMAIN written[q] =>
           pc'[q] \in LastLabels /\ committed'[SequenceRow] = committed[SequenceRow],
         \A d \in Requests : committed'[ReceiptRow(d)] = committed[ReceiptRow(d)]
                             \/ NumberOf(d)' = NumberOf(d)
                             \/ ReceiptRow(d) \notin DOMAIN written[q]
  PROVE  Numbering(q)'
BY DEF Numbering, NumberOf, LastNumber

LEMMA OtherWritesNumbers ==
  ASSUME Shapes, NEW p \in Requests, Numbering(p), NEW versions,
         Writes(p, versions), StepOf(p), pc'[p] \notin Ended,
         \A row \in DOMAIN versions : row[1] \notin {"number_sequences", "receipts"}
  PROVE  Numbering(p)'
<1>1. /\ committed' = committed
      /\ DOMAIN written'[p] = DOMAIN versions \union DOMAIN written[p]
      /\ \A row \in DOMAIN written[p] \ DOMAIN versions :
           written'[p][row] = written[p][row]
  BY WritesRows DEF Shapes
<1>2. SequenceRow \notin DOMAIN versions /\ \A q : ReceiptRow(q) \notin DOMAIN versions
  BY ReceiptRowsApart
<1>3. pc[p] \in LastLabels => pc'[p] \in LastLabels
  BY LastStatements
<1>4. QED BY <1>1, <1>2, <1>3 DEF Numbering, NumberOf, LastNumber

LEMMA IssueReceiptNumbers ==
  ASSUME Shapes, NEW p \in Requests, Numbering(p), IssueReceipt(p), Numbered(p)
  PROVE  Numbering(p)'
<1>1. pc[p] = "issueReceipt" /\ pc'[p] \in LastLabels
  BY DEF IssueReceipt, At, Goto, Shapes, LastLabels
<1>2. SequenceRow \notin DOMAIN written[p]
  BY <1>1 DEF Numbering, LastLabels
<1>3. PICK next, receipt, versions :
        /\ next = LastNumber + 1
        /\ receipt = [number |-> next, status |-> "ISSUED"]
        /\ versions = NewVersion(SequenceRow, next)
                        \uplus NewVersion(ReceiptRow(p), receipt)
  OBVIOUS
<1>4. Writes(p, versions)
  BY <1>2, <1>3 DEF Numbered, NextNumber, Sees, LastNumber
<1>5. /\ DOMAIN versions = {SequenceRow, ReceiptRow(p)}
      /\ versions[SequenceRow] = next /\ versions[ReceiptRow(p)] = receipt
  BY <1>3, ReceiptRowsApart DEF NewVersion, \uplus
<1>6. receipt.number = next
  BY <1>3
<1>7. /\ committed' = committed
      /\ DOMAIN written'[p] = DOMAIN versions \union DOMAIN written[p]
      /\ \A row \in DOMAIN versions : written'[p][row] = versions[row]
      /\ \A row \in DOMAIN written[p] \ DOMAIN versions :
           written'[p][row] = written[p][row]
  BY <1>4, WritesRows DEF Shapes
<1>8. \A q \in Requests \ {p} : ReceiptRow(q) \notin DOMAIN versions
  BY <1>5, ReceiptRowsApart
<1>9. QED
  BY <1>1, <1>3, <1>5, <1>6, <1>7, <1>8 DEF Numbering, NumberOf, LastNumber

LEMMA CancelReceiptNumbers ==
  ASSUME WriterInv, NEW p \in Requests, Numbering(p), CancelReceipt(p)
  PROVE  Numbering(p)'
<1>0. At(p, "cancelReceipt") /\ pc[p] = "cancelReceipt"
  BY DEF CancelReceipt, At
<1>1. TodoOK(p) /\ Shapes
  BY <1>0, UnmatchStands
<1>2. Head(local[p].todo) \in Requests /\ pc[Head(local[p].todo)] = "done"
  BY <1>0, <1>1, TodoTail DEF TodoOK
<1>3. PICK q, seen, cancelled, versions :
        /\ q \in Requests \ {p}
        /\ q = Head(local[p].todo) /\ seen = Sees(p, ReceiptRow(q))
        /\ cancelled = [seen EXCEPT !.status = "CANCELLED"]
        /\ versions = NewVersion(ReceiptRow(q), cancelled)
  BY <1>0, <1>2
<1>4. Writes(p, versions)
  BY <1>3 DEF CancelReceipt
<1>5. DOMAIN versions = {ReceiptRow(q)} /\ versions[ReceiptRow(q)] = cancelled
  BY <1>3, OneVersion
<1>6. cancelled.number = NumberOf(q)
  <2>1. seen.number = NumberOf(q)
    BY <1>3 DEF Numbering, NumberOf, Sees
  <2>2. QED BY <1>3, <2>1
<1>7. /\ committed' = committed
      /\ DOMAIN written'[p] = DOMAIN versions \union DOMAIN written[p]
      /\ \A row \in DOMAIN versions : written'[p][row] = versions[row]
      /\ \A row \in DOMAIN written[p] \ DOMAIN versions :
           written'[p][row] = written[p][row]
  BY <1>1, <1>4, WritesRows DEF Shapes
<1>8. SequenceRow \notin DOMAIN written[p]
  BY <1>0 DEF Numbering, LastLabels
<1>9. /\ SequenceRow \notin DOMAIN written'[p]
      /\ ReceiptRow(p) \notin DOMAIN written'[p]
  BY <1>3, <1>5, <1>7, <1>8, ReceiptRowsApart DEF Numbering
<1>10. \A d \in Requests \ {p} : ReceiptRow(d) \in DOMAIN written'[p] =>
          written'[p][ReceiptRow(d)].number = NumberOf(d)
  BY <1>5, <1>6, <1>7, ReceiptRowsApart DEF Numbering
<1>11. QED BY <1>7, <1>9, <1>10 DEF Numbering, NumberOf

(* The numbers before and after a commit of p. *)
LEMMA CommitNumbers ==
  ASSUME WriterInv, ReceiptsInv, NEW p \in Requests, Commits(p), pc[p] # "done"
  PROVE  /\ \A q \in Requests \ {p} : NumberOf(q)' = NumberOf(q)
         /\ SequenceRow \in DOMAIN written[p] =>
              /\ NumberOf(p) = 0 /\ NumberOf(p)' = LastNumber + 1
              /\ LastNumber' = LastNumber + 1
         /\ SequenceRow \notin DOMAIN written[p] =>
              NumberOf(p)' = NumberOf(p) /\ LastNumber' = LastNumber
<1>1. /\ \A row \in DOMAIN written[p] : committed'[row] = written[p][row]
      /\ \A row \in DOMAIN committed \ DOMAIN written[p] :
           committed'[row] = committed[row]
  BY CommitsRows DEF WriterInv, Shapes
<1>2. SequenceRow \in DOMAIN committed
      /\ \A q \in Requests : ReceiptRow(q) \in DOMAIN committed
  BY AllRowsHere, OwnRowsApart DEF WriterInv, Shapes
<1>3. Numbering(p)
  BY DEF ReceiptsInv
<1>4. \A q \in Requests \ {p} : NumberOf(q)' = NumberOf(q)
  BY <1>1, <1>2, <1>3 DEF Numbering, NumberOf
<1>5. NumberOf(p) = 0
  <2>1. committed[ReceiptRow(p)] = [number |-> 0, status |-> "NONE"]
    BY DEF WriterInv, Unborn
  <2>2. QED BY <2>1 DEF NumberOf
<1>6. CASE SequenceRow \in DOMAIN written[p]
  BY <1>1, <1>3, <1>4, <1>5, <1>6 DEF Numbering, NumberOf, LastNumber
<1>7. CASE SequenceRow \notin DOMAIN written[p]
  BY <1>1, <1>2, <1>3, <1>4, <1>7 DEF Numbering, NumberOf, LastNumber
<1>8. QED BY <1>4, <1>6, <1>7

LEMMA StepNumbers ==
  ASSUME WriterInv, ReceiptsInv, NEW p \in Requests, StepOf(p)
  PROVE  ReceiptsInv'
<1>0. /\ Frame(p) /\ Effect(p) /\ Shapes /\ work' = work /\ DOMAIN written = Requests
      /\ NumbersOK /\ \A q \in Requests : Numbering(q)
  BY StepEffects DEF WriterInv, Shapes, ReceiptsInv, Frame
<1>1. CASE OnlyReads /\ pc'[p] # "failed"
  <2>1. committed' = committed /\ written' = written
    BY <1>1 DEF OnlyReads
  <2>2. SequenceRow \in DOMAIN written[p] => pc'[p] \in LastLabels
    <3>1. SUFFICES ASSUME SequenceRow \in DOMAIN written[p] PROVE pc'[p] \in LastLabels
      OBVIOUS
    <3>2. pc[p] \in LastLabels
      BY <1>0, <3>1 DEF Numbering
    <3>3. pc'[p] # "done"
      <4>1. Commits(p) => written'[p] = NothingWritten
        BY <1>0, CommitsRows
      <4>2. written[p] # NothingWritten
        BY <3>1, NothingIsWritten
      <4>3. QED BY <1>0, <2>1, <3>2, <4>1, <4>2, LastStatements
    <3>4. QED BY <1>0, <1>1, <3>2, <3>3, LastStatements DEF Ended
  <2>3. \A q \in Requests : Numbering(q)'
    BY <1>0, <2>1, <2>2, NumberingStays DEF Frame, Numbering
  <2>4. NumbersOK'
    BY <1>0, <2>1 DEF NumbersOK, NumberOf, LastNumber
  <2>5. QED BY <2>3, <2>4 DEF ReceiptsInv
<1>2. CASE RollsBack(p)
  <2>1. committed' = committed /\ written'[p] = NothingWritten
    BY <1>0, <1>2, RollsBackRows
  <2>2. \A q \in Requests \ {p} : Numbering(q)'
    BY <1>0, <2>1, NumberingStays DEF Frame, Numbering
  <2>3. Numbering(p)'
    BY <2>1, NothingIsWritten DEF Numbering
  <2>4. NumbersOK'
    BY <1>0, <2>1 DEF NumbersOK, NumberOf, LastNumber
  <2>5. QED BY <2>2, <2>3, <2>4 DEF ReceiptsInv
<1>3. CASE Commits(p) /\ pc'[p] = "done" /\ pc[p] \in Kinds \union {"commit"}
  <2>0. pc[p] # "done"
    BY <1>3 DEF Kinds
  <2>1. written'[p] = NothingWritten
    BY <1>0, <1>3, CommitsRows
  <2>2. ASSUME NEW q \in Requests \ {p} PROVE Numbering(q)'
    <3>1. DOMAIN written[p] \intersect DOMAIN written[q] = {}
      BY DEF WriterInv, OneWriter
    <3>2. SequenceRow \in DOMAIN written[q] =>
            pc'[q] \in LastLabels /\ committed'[SequenceRow] = committed[SequenceRow]
      BY <1>0, <1>3, <2>0, <3>1, CommitNumbers DEF Numbering, LastNumber, Frame
    <3>3. ReceiptRow(p) \notin DOMAIN written[q]
      BY <2>0, OwnRowsApart DEF WriterInv, OwnOrCommitted
    <3>4. \A d \in Requests : NumberOf(d)' = NumberOf(d)
                              \/ ReceiptRow(d) \notin DOMAIN written[q]
      BY <1>3, <2>0, <3>3, CommitNumbers
    <3>5. QED BY <1>0, <3>2, <3>4, NumberingStays DEF Frame
  <2>3. Numbering(p)'
    BY <2>1, NothingIsWritten DEF Numbering
  <2>4. NumbersOK'
    <3>1. PICK last \in Nat : last = LastNumber
      BY <1>0 DEF NumbersOK
    <3>2. CASE SequenceRow \in DOMAIN written[p]
      <4>1. /\ \A q \in Requests \ {p} : NumberOf(q)' = NumberOf(q)
            /\ NumberOf(p) = 0 /\ NumberOf(p)' = last + 1 /\ LastNumber' = last + 1
        BY <1>3, <2>0, <3>1, <3>2, CommitNumbers
      <4>2. \A q \in Requests : NumberOf(q)' \in 0..(last + 1)
        BY <1>0, <3>1, <4>1 DEF NumbersOK
      <4>3. \A n \in 1..(last + 1) : \E q \in Requests : NumberOf(q)' = n
        <5>1. SUFFICES ASSUME NEW n \in 1..last PROVE \E q \in Requests : NumberOf(q)' = n
          BY <3>1, <4>1
        <5>2. PICK q \in Requests : NumberOf(q) = n
          BY <1>0, <3>1 DEF NumbersOK
        <5>3. q # p
          BY <4>1, <5>2
        <5>4. QED BY <4>1, <5>2, <5>3
      <4>4. ASSUME NEW q \in Requests, NEW d \in Requests,
                   NumberOf(q)' = NumberOf(d)', NumberOf(q)' # 0
            PROVE  q = d
        <5>1. \A c \in Requests : NumberOf(c) \in 0..last
          BY <1>0, <3>1 DEF NumbersOK
        <5>2. \A c \in Requests \ {p} : NumberOf(c)' # last + 1
          BY <3>1, <4>1, <5>1
        <5>3. (q = p) <=> (d = p)
          BY <4>1, <4>4, <5>2
        <5>4. CASE q # p /\ d # p
          BY <1>0, <4>1, <4>4, <5>4 DEF NumbersOK
        <5>5. QED BY <5>3, <5>4
      <4>5. QED BY <3>1, <4>1, <4>2, <4>3, <4>4 DEF NumbersOK
    <3>3. CASE SequenceRow \notin DOMAIN written[p]
      <4>1. LastNumber' = LastNumber /\ \A q \in Requests : NumberOf(q)' = NumberOf(q)
        BY <1>3, <2>0, <3>3, CommitNumbers
      <4>2. QED BY <1>0, <4>1 DEF NumbersOK
    <3>4. QED BY <3>2, <3>3
  <2>5. QED BY <2>2, <2>3, <2>4 DEF ReceiptsInv
<1>4. ASSUME NEW versions, Writes(p, versions), pc'[p] \notin Ended,
             \A row \in DOMAIN versions : Touches(p, row)
      PROVE  ReceiptsInv'
  <2>1. committed' = committed
    BY <1>4 DEF Writes
  <2>2. \A q \in Requests \ {p} : Numbering(q)'
    BY <1>0, <2>1, NumberingStays DEF Frame, Numbering
  <2>3. Numbering(p)'
    <3>1. CASE \A row \in DOMAIN versions : row[1] \notin {"number_sequences", "receipts"}
      BY <1>0, <1>4, <3>1, OtherWritesNumbers
    <3>2. CASE CancelReceipt(p)
      BY <1>0, <3>2, CancelReceiptNumbers
    <3>3. CASE IssueReceipt(p) /\ Numbered(p)
      BY <1>0, <3>3, IssueReceiptNumbers
    <3>4. CASE IssueReceipt(p) /\ OnlyReads
      <4>1. written' = written /\ pc'[p] \in LastLabels /\ pc[p] = "issueReceipt"
        BY <1>0, <3>4 DEF IssueReceipt, At, OnlyReads, Goto, Shapes, LastLabels
      <4>2. QED BY <1>0, <2>1, <4>1, NumberingStays
    <3>5. QED BY <1>4, <3>1, <3>2, <3>3, <3>4 DEF Touches, IssueReceipt
  <2>4. NumbersOK'
    BY <1>0, <2>1 DEF NumbersOK, NumberOf, LastNumber
  <2>5. QED BY <2>2, <2>3, <2>4 DEF ReceiptsInv
<1>5. QED BY <1>0, <1>1, <1>2, <1>3, <1>4 DEF Effect

LEMMA StutterNumbers ==
  ASSUME ReceiptsInv, UNCHANGED vars
  PROVE  ReceiptsInv'
BY DEF ReceiptsInv, NumbersOK, Numbering, NumberOf, LastNumber, vars, load

LEMMA InitNumbers == Init => ReceiptsInv
<1> SUFFICES ASSUME Init PROVE ReceiptsInv
  OBVIOUS
<1>1. PICK workload \in Workloads : committed = InitialRows(workload[1])
  BY DEF Init
<1>2. /\ committed[SequenceRow] = 0
      /\ \A p \in Requests :
           committed[ReceiptRow(p)] = [number |-> 0, status |-> "NONE"]
  BY <1>1, InitialVersions
<1>3. LastNumber = 0 /\ \A p \in Requests : NumberOf(p) = 0
  BY <1>2 DEF LastNumber, NumberOf
<1>4. NumbersOK
  BY <1>3 DEF NumbersOK
<1>5. \A p \in Requests : DOMAIN written[p] = {}
  BY NothingIsWritten DEF Init
<1>6. QED BY <1>4, <1>5 DEF ReceiptsInv, Numbering

LEMMA NextNumbers == WriterInv /\ ReceiptsInv /\ [Next]_vars => ReceiptsInv'
BY StepNumbers, StutterNumbers DEF Next, StepOf

LEMMA ReceiptsInvAlways == Spec => []ReceiptsInv
BY WriterInvAlways, InitNumbers, NextNumbers, PTL DEF Spec

(* "Gap-free, concurrency-safe": the receipts there are have the numbers   *)
(* from 1 to their count, whatever failed or was cut off on the way.       *)
THEOREM ReceiptNumbersStayGapFree == Spec => []ReceiptNumbersGapFree
<1>1. ReceiptsInv => ReceiptNumbersGapFree
  <2> SUFFICES ASSUME ReceiptsInv PROVE ReceiptNumbersGapFree
    OBVIOUS
  <2>1. PICK receipts, last, number :
          /\ receipts = {p \in Requests : NumberOf(p) # 0}
          /\ last = LastNumber
          /\ number = [p \in receipts |-> NumberOf(p)]
    OBVIOUS
  <2>2. last \in Nat /\ number \in [receipts -> 1..last]
    BY <2>1 DEF ReceiptsInv, NumbersOK
  <2>3. /\ \A p, q \in receipts : number[p] = number[q] => p = q
        /\ \A n \in 1..last : \E p \in receipts : number[p] = n
    BY <2>1, <2>2 DEF ReceiptsInv, NumbersOK
  <2>4. Cardinality(receipts) = last
    BY <2>2, <2>3, CountOfNumbers
  <2>5. NumbersIssued = 1..last
    <3>1. NumbersIssued = {number[p] : p \in receipts}
      BY <2>1 DEF NumbersIssued, NumberOf
    <3>2. QED BY <2>2, <2>3, <3>1
  <2>6. QED BY <2>1, <2>4, <2>5 DEF ReceiptNumbersGapFree, NumberOf
<1>2. QED BY <1>1, ReceiptsInvAlways, PTL

-----------------------------------------------------------------------------
(* As long as nothing is unmatched, paid orders lack nothing.              *)

NothingUnmatched == \A p \in Requests : work[p].kind # "unmatch"

Owed(r)    == committed[ReceivableRow(r)].amountOutstanding
Lacked(p, r) == Sees(p, ReceivableRow(r)).amountOutstanding

Settled(p, o) == \A i \in DOMAIN Items[o] : Lacked(p, Items[o][i]) <= 0

(* A request that is at an item has found that those before it lack        *)
(* nothing; what it then holds to be paid, or has written to be, lacks     *)
(* nothing in its eyes.                                                    *)
Deciding(p) ==
  /\ pc[p] = "checkItem" =>
       \A i \in 1..(local[p].item - 1) : Lacked(p, ItemsOf(p)[i]) <= 0
  /\ pc[p] \in {"saveOrder", "updateOrder"} /\ local[p].orderStatus = "PAID" =>
       Settled(p, OrderOf(p))
  /\ \A o \in Orders :
       OrderRow(o) \in DOMAIN written[p] /\ written[p][OrderRow(o)].status = "PAID" =>
         Settled(p, o)

PaidIsSettled ==
  \A o \in Orders : committed[OrderRow(o)].status = "PAID" =>
    \A i \in DOMAIN Items[o] : Owed(Items[o][i]) <= 0

OrdersInv == NothingUnmatched => PaidIsSettled /\ \A p \in Requests : Deciding(p)

LEMMA ItemsAreReceivables ==
  ASSUME NEW o \in Orders
  PROVE  /\ Items[o] \in Seq(Receivables)
         /\ DOMAIN Items[o] = 1..Len(Items[o]) /\ Len(Items[o]) \in Nat
         /\ \A i \in DOMAIN Items[o] : Items[o][i] \in Receivables
BY RowsAssumption, ElementOfSeq

(* Only an unmatch makes a receivable lack more. *)
LEMMA LackedIsNumber ==
  ASSUME AmountsInv, NEW p \in Requests, NEW r \in Receivables
  PROVE  /\ Lacked(p, r) \in Int /\ Owed(r) \in Int
         /\ work[p].kind # "unmatch" => Lacked(p, r) <= Owed(r)
BY SeenAmounts DEF Lacked, Owed

LEMMA WrittenLess ==
  ASSUME Shapes, NEW p \in Requests, NEW s \in Receivables, NEW new,
         Writes(p, NewVersion(ReceivableRow(s), new)),
         new.amountOutstanding <= Sees(p, ReceivableRow(s)).amountOutstanding,
         NEW r \in Receivables, Lacked(p, r) \in Int
  PROVE  Lacked(p, r)' <= Lacked(p, r)
<1>1. PICK versions : versions = NewVersion(ReceivableRow(s), new)
  OBVIOUS
<1>2. DOMAIN versions = {ReceivableRow(s)} /\ versions[ReceivableRow(s)] = new
  BY <1>1, OneVersion
<1>3. /\ committed' = committed
      /\ DOMAIN written'[p] = DOMAIN versions \union DOMAIN written[p]
      /\ \A row \in DOMAIN versions : written'[p][row] = versions[row]
      /\ \A row \in DOMAIN written[p] \ DOMAIN versions :
           written'[p][row] = written[p][row]
  BY <1>1, WritesRows DEF Shapes
<1>4. QED BY <1>2, <1>3, RowsOfTables DEF Lacked, Sees

LEMMA PaymentLeavesLess ==
  ASSUME WriterInv, AmountsInv, NEW p \in Requests, ApplyPayment(p), ~ Fails(p),
         NEW r \in Receivables
  PROVE  Lacked(p, r)' <= Lacked(p, r)
<1>1. At(p, "applyPayment") /\ Shapes
  BY DEF ApplyPayment, WriterInv
<1>2. Item(p) \in Receivables /\ local[p].toAllocate \in Nat
  BY <1>1, ItemIsReceivable DEF AmountsInv, Handing
<1>3. PICK s, paid, seen, new :
        /\ s \in Receivables /\ paid \in Nat
        /\ s = Item(p) /\ paid = local[p].toAllocate
        /\ seen = Sees(p, ReceivableRow(s))
        /\ new = ApplyPaymentDelta(seen, paid, NotPastDue)
  BY <1>2
<1>4. Writes(p, NewVersion(ReceivableRow(s), new))
  BY <1>3 DEF ApplyPayment, ReceivableOf
<1>5. Good(seen) /\ seen.amountOutstanding \in Int
  BY <1>3, SeenAmounts
<1>6. new.amountOutstanding = seen.amountOutstanding - paid
  <2>1. paid \in Nat /\ new = ApplyPaymentDelta(seen, paid, NotPastDue)
    BY <1>3
  <2>2. seen \in Receivable /\ Sound(seen)
    BY <1>5 DEF Good
  <2>3. QED BY <2>1, <2>2, DeltaEffects, NotPastDueType
<1>7. new.amountOutstanding <= seen.amountOutstanding
  BY <1>3, <1>5, <1>6
<1>8. QED BY <1>1, <1>3, <1>4, <1>7, LackedIsNumber, WrittenLess

LEMMA DiscountLeavesLess ==
  ASSUME WriterInv, AmountsInv, NEW p \in Requests, ApplyDiscount(p),
         NEW r \in Receivables
  PROVE  Lacked(p, r)' <= Lacked(p, r)
<1>1. At(p, "applyDiscount") /\ Shapes
  BY DEF ApplyDiscount, WriterInv
<1>2. work[p].kind = "discount"
  BY <1>1, Standing DEF StaysOnPath, OnPath, Ended, AllocationLabels, MatchLabels,
                        UnmatchLabels, Kinds
<1>3. work[p].receivable \in Receivables /\ work[p].amount \in Nat
  BY <1>2 DEF WriterInv, WorkOK
<1>4. PICK s, granted, seen, new :
        /\ s \in Receivables /\ granted \in Nat
        /\ s = work[p].receivable /\ granted = work[p].amount
        /\ seen = Sees(p, ReceivableRow(s))
        /\ new = ApplyDiscountDelta(seen, granted, NotPastDue)
  BY <1>3
<1>5. Writes(p, NewVersion(ReceivableRow(s), new))
  BY <1>4 DEF ApplyDiscount, Discounted
<1>6. Good(seen) /\ seen.amountOutstanding \in Int
  BY <1>4, SeenAmounts
<1>7. new.amountOutstanding = seen.amountOutstanding - granted
  <2>1. granted \in Nat /\ new = ApplyDiscountDelta(seen, granted, NotPastDue)
    BY <1>4
  <2>2. QED BY <1>6, <2>1, DiscountedGood
<1>8. new.amountOutstanding <= seen.amountOutstanding
  BY <1>4, <1>6, <1>7
<1>9. QED BY <1>1, <1>4, <1>5, <1>8, LackedIsNumber, WrittenLess

(* What a request sees lacking only falls, its own failure apart. *)
LEMMA LackedFalls ==
  ASSUME WriterInv, AmountsInv, NothingUnmatched, NEW p \in Requests, StepOf(p),
         NEW q \in Requests, q # p \/ pc'[p] # "failed", NEW r \in Receivables
  PROVE  Lacked(q, r)' <= Lacked(q, r)
<1>0. /\ Frame(p) /\ Effect(p) /\ Shapes /\ DOMAIN written = Requests
      /\ AmountsOf(p) /\ work[p].kind # "unmatch" /\ Lacked(q, r) \in Int
      /\ ReceivableRow(r) \in DOMAIN committed
  BY StepEffects, AllRowsHere, LackedIsNumber
     DEF WriterInv, Shapes, AmountsInv, NothingUnmatched
<1>1. CASE committed' = committed /\ written'[q] = written[q]
  BY <1>0, <1>1 DEF Lacked, Sees
<1>2. CASE Commits(p)
  <2>1. /\ written'[p] = NothingWritten
        /\ \A row \in DOMAIN written[p] : committed'[row] = written[p][row]
        /\ \A row \in DOMAIN committed \ DOMAIN written[p] :
             committed'[row] = committed[row]
    BY <1>0, <1>2, CommitsRows
  <2>2. CASE q = p
    BY <1>0, <2>1, <2>2, NothingIsWritten DEF Lacked, Sees
  <2>3. CASE q # p /\ ReceivableRow(r) \in DOMAIN written[q]
    BY <1>0, <2>3 DEF Frame, Lacked, Sees
  <2>4. CASE q # p /\ ReceivableRow(r) \notin DOMAIN written[q]
    <3>1. Lacked(q, r) = Owed(r) /\ Lacked(q, r)' = Owed(r)'
      BY <1>0, <2>4 DEF Frame, Lacked, Sees, Owed
    <3>2. Owed(r)' <= Owed(r)
      BY <1>0, <2>1, <3>1 DEF AmountsOf, Successor, Owed
    <3>3. QED BY <3>1, <3>2
  <2>5. QED BY <2>2, <2>3, <2>4
<1>3. ASSUME NEW versions, Writes(p, versions), pc'[p] \notin Ended, q = p,
             \A row \in DOMAIN versions : Touches(p, row)
      PROVE  Lacked(q, r)' <= Lacked(q, r)
  <2>1. ~ Fails(p)
    BY <1>0, <1>3 DEF Fails, Proceeds, Goto, Shapes, Ended
  <2>2. ~ ReversePayment(p)
    BY <1>0, UnmatchStands DEF ReversePayment
  <2>3. CASE ReceivableRow(r) \in DOMAIN versions
    BY <1>3, <2>1, <2>2, <2>3, RowsOfTables, PaymentLeavesLess, DiscountLeavesLess
       DEF Touches
  <2>4. CASE ReceivableRow(r) \notin DOMAIN versions
    BY <1>0, <1>3, <2>4, WritesRows DEF Lacked, Sees
  <2>5. QED BY <2>3, <2>4
<1>4. QED
  BY <1>0, <1>1, <1>2, <1>3 DEF Effect, OnlyReads, RollsBack, Writes, Frame

LEMMA SettledStays ==
  ASSUME WriterInv, AmountsInv, NothingUnmatched, NEW p \in Requests, StepOf(p),
         NEW q \in Requests, q # p \/ pc'[p] # "failed", NEW r \in Receivables,
         Lacked(q, r) <= 0
  PROVE  Lacked(q, r)' <= 0
<1>1. Lacked(q, r)' <= Lacked(q, r) /\ Lacked(q, r) \in Int
  BY LackedFalls, LackedIsNumber
<1>2. AmountsInv'
  BY StepAmounts
<1>3. Good(committed'[ReceivableRow(r)])
  BY <1>2 DEF AmountsInv, Good
<1>4. ReceivableRow(r) \in DOMAIN written'[q] => Good(written'[q][ReceivableRow(r)])
  BY <1>2 DEF AmountsInv, AmountsOf, Successor, Good
<1>5. Lacked(q, r)' \in Int
  BY <1>3, <1>4 DEF Lacked, Sees, Good, Receivable
<1>6. QED BY <1>1, <1>5

LEMMA OrdersOfLabels ==
  ASSUME WriterInv, NEW p \in Requests, pc[p] \in {"checkItem", "saveOrder", "updateOrder"}
  PROVE  /\ OrderOf(p) \in Orders /\ ItemsOf(p) = Items[OrderOf(p)]
         /\ pc[p] = "checkItem" =>
              work[p].kind \in {"ingest", "match"} /\ local[p].item \in 1..Len(ItemsOf(p))
         /\ work[p].kind # "unmatch"
<1>1. StaysOnPath(p) /\ LocalsOK(p) /\ WorkOK
  BY DEF WriterInv
<1>2. /\ work[p].kind \in {"ingest", "match", "getQr"}
      /\ pc[p] = "checkItem" => work[p].kind \in {"ingest", "match"}
  BY <1>1 DEF StaysOnPath, OnPath, Ended, Kinds, UnmatchLabels, MatchLabels,
              AllocationLabels, WorkOK
<1>3. QED BY <1>1, <1>2 DEF LocalsOK, WorkOK, AllocationLabels, OrderOf, ItemsOf

(* The decision of a request stands whatever the others do. *)
LEMMA DecidingStays ==
  ASSUME WriterInv, AmountsInv, NothingUnmatched, NEW p \in Requests, StepOf(p),
         NEW q \in Requests \ {p}, Deciding(q)
  PROVE  Deciding(q)'
<1>0. /\ pc'[q] = pc[q] /\ local'[q] = local[q] /\ written'[q] = written[q]
      /\ work' = work
  BY StepEffects DEF WriterInv, Frame
<1>1. \A r \in Receivables : Lacked(q, r) <= 0 => Lacked(q, r)' <= 0
  BY SettledStays
<1>2. \A o \in Orders : Settled(q, o) => Settled(q, o)'
  BY <1>1, ItemsAreReceivables DEF Settled
<1>3. OrderOf(q)' = OrderOf(q) /\ ItemsOf(q)' = ItemsOf(q)
  BY <1>0 DEF OrderOf, ItemsOf
<1>4. ASSUME pc[q] = "checkItem", NEW i \in 1..(local[q].item - 1)
      PROVE  Lacked(q, ItemsOf(q)[i])' <= 0
  <2>1. OrderOf(q) \in Orders /\ ItemsOf(q) = Items[OrderOf(q)]
        /\ local[q].item \in 1..Len(ItemsOf(q))
    BY <1>4, OrdersOfLabels
  <2>2. i \in DOMAIN ItemsOf(q)
    BY <2>1, ItemsAreReceivables
  <2>3. PICK r \in Receivables : r = ItemsOf(q)[i]
    BY <2>1, <2>2, ItemsAreReceivables
  <2>4. Lacked(q, r) <= 0
    BY <1>4, <2>3 DEF Deciding
  <2>5. ItemsOf(q)'[i] = r
    BY <1>3, <2>3
  <2>6. QED BY <1>1, <2>3, <2>4, <2>5
<1>5. pc[q] \in {"saveOrder", "updateOrder"} /\ local[q].orderStatus = "PAID" =>
        Settled(q, OrderOf(q))'
  <2>1. SUFFICES ASSUME pc[q] \in {"saveOrder", "updateOrder"},
                        local[q].orderStatus = "PAID"
                 PROVE  Settled(q, OrderOf(q))'
    OBVIOUS
  <2>2. PICK o \in Orders : o = OrderOf(q)
    BY <2>1, OrdersOfLabels
  <2>3. Settled(q, o)'
    BY <1>2, <2>1, <2>2 DEF Deciding
  <2>4. QED BY <1>3, <2>2, <2>3 DEF Settled
<1>6. QED BY <1>0, <1>2, <1>3, <1>4, <1>5 DEF Deciding

LEMMA CheckItemDecides ==
  ASSUME WriterInv, AmountsInv, NEW p \in Requests, Deciding(p), CheckItem(p)
  PROVE  /\ pc'[p] = "checkItem" =>
              \A i \in 1..(local'[p].item - 1) : Lacked(p, ItemsOf(p)[i]) <= 0
         /\ pc'[p] = "saveOrder" /\ local'[p].orderStatus = "PAID" =>
              Settled(p, OrderOf(p))
<1>1. At(p, "checkItem") /\ pc[p] = "checkItem"
  BY DEF CheckItem, At
<1>2. /\ Item(p) \in Receivables /\ local[p].item \in 1..Len(ItemsOf(p))
      /\ Len(ItemsOf(p)) \in Nat /\ DOMAIN local[p] = DOMAIN NoLocals /\ Shapes
      /\ OrderOf(p) \in Orders /\ ItemsOf(p) = Items[OrderOf(p)]
  BY <1>1, ItemIsReceivable DEF ItemsOf
<1>3. PICK r \in Receivables, k \in 1..Len(ItemsOf(p)) :
        r = Item(p) /\ k = local[p].item
  BY <1>2
<1>4. r = ItemsOf(p)[k]
  BY <1>3 DEF Item
<1>5. \A i \in 1..(k - 1) : Lacked(p, ItemsOf(p)[i]) <= 0
  BY <1>1, <1>3 DEF Deciding
<1>6. ~ Lacking(p) => Lacked(p, r) <= 0
  <2>1. Good(Sees(p, ReceivableRow(r))) /\ Lacked(p, r) \in Int
    BY SeenAmounts, LackedIsNumber
  <2>2. QED BY <1>3, <2>1 DEF Lacking, Lacks, ReceivableOf, Lacked, Good, Sound
<1>7. ~ Lacking(p) => \A i \in 1..k : Lacked(p, ItemsOf(p)[i]) <= 0
  <2>1. \A i \in 1..k : i = k \/ i \in 1..(k - 1)
    BY <1>2, <1>3
  <2>2. QED BY <1>4, <1>5, <1>6, <2>1
<1>8. CASE Lacking(p) \/ k = Len(ItemsOf(p))
  <2>1. /\ pc'[p] = "saveOrder"
        /\ local'[p] = [local[p] EXCEPT !.orderStatus =
                          IF Lacking(p) THEN "PARTIALLY_PAID" ELSE "PAID"]
    BY <1>2, <1>3, <1>8 DEF CheckItem, Proceeds, Goto, Shapes
  <2>2. local'[p].orderStatus = IF Lacking(p) THEN "PARTIALLY_PAID" ELSE "PAID"
    BY <1>2, <2>1 DEF NoLocals
  <2>3. ~ Lacking(p) => Settled(p, OrderOf(p))
    BY <1>2, <1>7, <1>8, ItemsAreReceivables DEF Settled
  <2>4. QED BY <2>1, <2>2, <2>3
<1>9. CASE ~ (Lacking(p) \/ k = Len(ItemsOf(p)))
  <2>1. pc'[p] = "checkItem" /\ local'[p] = NextItem(p)
    BY <1>2, <1>3, <1>9 DEF CheckItem, Proceeds, Goto, Shapes
  <2>2. local'[p].item = k + 1
    BY <1>2, <1>3, <2>1 DEF NextItem, NoLocals
  <2>3. 1..(local'[p].item - 1) = 1..k
    BY <1>2, <1>3, <2>2
  <2>4. QED BY <1>7, <1>9, <2>1, <2>3
<1>10. QED BY <1>8, <1>9

LEMMA UpdateOrderDecides ==
  ASSUME WriterInv, AmountsInv, NothingUnmatched, OrdersInv, NEW p \in Requests,
         UpdateOrder(p), NEW o \in Orders, OrderRow(o) \in DOMAIN written'[p],
         written'[p][OrderRow(o)].status = "PAID"
  PROVE  Settled(p, o)
<1>0. /\ Deciding(p) /\ PaidIsSettled /\ Shapes /\ work[p].kind # "unmatch"
      /\ pc[p] = "updateOrder"
  BY DEF OrdersInv, WriterInv, NothingUnmatched, UpdateOrder, At
<1>1. PICK d, wanted, selected, seen, saved :
        /\ d \in Orders
        /\ d = OrderOf(p) /\ wanted = local[p].orderStatus
        /\ selected = local[p].selected /\ seen = Sees(p, OrderRow(d))
        /\ saved = Saved([status |-> wanted], selected, seen)
  BY <1>0, OrdersOfLabels
<1>2. PICK versions : versions = NewVersion(OrderRow(d), saved)
  OBVIOUS
<1>3. Writes(p, versions)
  BY <1>1, <1>2 DEF UpdateOrder
<1>4. DOMAIN versions = {OrderRow(d)} /\ versions[OrderRow(d)] = saved
  BY <1>2, OneVersion
<1>5. /\ DOMAIN written'[p] = DOMAIN versions \union DOMAIN written[p]
      /\ \A row \in DOMAIN versions : written'[p][row] = versions[row]
      /\ \A row \in DOMAIN written[p] \ DOMAIN versions :
           written'[p][row] = written[p][row]
  BY <1>0, <1>3, WritesRows DEF Shapes
<1>6. CASE o # d
  <2>1. OrderRow(o) # OrderRow(d)
    BY <1>6 DEF OrderRow
  <2>2. QED BY <1>0, <1>4, <1>5, <2>1 DEF Deciding
<1>7. CASE o = d
  <2>1. saved.status = "PAID"
    BY <1>4, <1>5, <1>7
  <2>2. wanted = "PAID" \/ seen.status = "PAID"
    BY <1>1, <2>1 DEF Saved
  <2>3. CASE wanted = "PAID"
    BY <1>0, <1>1, <1>7, <2>3 DEF Deciding
  <2>4. CASE seen.status = "PAID" /\ OrderRow(d) \in DOMAIN written[p]
    BY <1>0, <1>1, <1>7, <2>4 DEF Deciding, Sees
  <2>5. CASE seen.status = "PAID" /\ OrderRow(d) \notin DOMAIN written[p]
    <3>1. \A i \in DOMAIN Items[d] : Owed(Items[d][i]) <= 0
      BY <1>0, <1>1, <2>5 DEF PaidIsSettled, Sees
    <3>2. ASSUME NEW i \in DOMAIN Items[d] PROVE Lacked(p, Items[d][i]) <= 0
      <4>1. PICK r \in Receivables : r = Items[d][i]
        BY <1>1, ItemsAreReceivables
      <4>2. Owed(r) <= 0 /\ Lacked(p, r) <= Owed(r)
            /\ Owed(r) \in Int /\ Lacked(p, r) \in Int
        BY <1>0, <3>1, <4>1, LackedIsNumber
      <4>3. QED BY <4>1, <4>2
    <3>3. QED BY <1>7, <3>2 DEF Settled
  <2>6. QED BY <2>2, <2>3, <2>4, <2>5
<1>8. QED BY <1>6, <1>7

LEMMA DecidingStep ==
  ASSUME WriterInv, AmountsInv, NothingUnmatched, OrdersInv, NEW p \in Requests,
         StepOf(p)
  PROVE  Deciding(p)'
<1>0. /\ Frame(p) /\ Effect(p) /\ Arrives(p) /\ Shapes /\ Deciding(p)
      /\ work' = work /\ DOMAIN written = Requests /\ DOMAIN local[p] = DOMAIN NoLocals
      /\ OrderOf(p)' = OrderOf(p) /\ ItemsOf(p)' = ItemsOf(p)
  BY StepEffects DEF WriterInv, Shapes, OrdersInv, Frame, OrderOf, ItemsOf
<1>1. CASE pc'[p] = "failed"
  <2>1. RollsBack(p)
    BY <1>0, <1>1 DEF Effect, Ended
  <2>2. written'[p] = NothingWritten
    BY <1>0, <2>1, RollsBackRows
  <2>3. QED BY <1>1, <2>2, NothingIsWritten DEF Deciding
<1>2. CASE pc'[p] # "failed"
  <2>1. \A r \in Receivables : Lacked(p, r) <= 0 => Lacked(p, r)' <= 0
    BY <1>2, SettledStays
  <2>2. \A o \in Orders : Settled(p, o) => Settled(p, o)'
    BY <2>1, ItemsAreReceivables DEF Settled
  <2>3. ~ Fails(p)
    BY <1>0, <1>2 DEF Fails, Proceeds, Goto, Shapes
  <2>4. ASSUME pc'[p] = "checkItem", NEW i \in 1..(local'[p].item - 1)
        PROVE  Lacked(p, ItemsOf(p)[i])' <= 0
    <3>1. CASE ReadItem(p)
      <4>1. local'[p] = [local[p] EXCEPT !.item = 1]
        BY <1>0, <2>4, <3>1 DEF ReadItem, Proceeds, Goto, Shapes
      <4>2. local'[p].item = 1
        BY <1>0, <4>1 DEF NoLocals
      <4>3. QED BY <4>2
    <3>2. CASE CheckItem(p)
      <4>1. At(p, "checkItem")
        BY <3>2 DEF CheckItem
      <4>2. /\ local[p].item \in 1..Len(ItemsOf(p)) /\ Len(ItemsOf(p)) \in Nat
            /\ OrderOf(p) \in Orders /\ ItemsOf(p) = Items[OrderOf(p)]
        BY <4>1, ItemIsReceivable DEF ItemsOf
      <4>3. local'[p] = NextItem(p) /\ local[p].item # Len(ItemsOf(p))
        BY <1>0, <2>4, <3>2 DEF CheckItem, Proceeds, Goto, Shapes
      <4>4. local'[p].item = local[p].item + 1
        BY <1>0, <4>3 DEF NextItem, NoLocals
      <4>5. i \in DOMAIN Items[OrderOf(p)]
        BY <4>2, <4>4, ItemsAreReceivables
      <4>6. PICK r \in Receivables : r = ItemsOf(p)[i]
        BY <4>2, <4>5, ItemsAreReceivables
      <4>7. Lacked(p, r) <= 0
        BY <1>0, <2>4, <3>2, <4>6, CheckItemDecides
      <4>8. ItemsOf(p)'[i] = r
        BY <1>0, <4>6
      <4>9. QED BY <2>1, <4>6, <4>7, <4>8
    <3>3. QED BY <1>0, <2>4, <3>1, <3>2 DEF Arrives
  <2>5. ASSUME pc'[p] \in {"saveOrder", "updateOrder"}, local'[p].orderStatus = "PAID"
        PROVE  Settled(p, OrderOf(p))'
    <3>1. Settled(p, OrderOf(p)) /\ OrderOf(p) \in Orders
      <4>1. CASE CheckItem(p)
        <5>1. At(p, "checkItem")
          BY <4>1 DEF CheckItem
        <5>2. OrderOf(p) \in Orders
          BY <5>1, ItemIsReceivable
        <5>3. pc'[p] = "saveOrder"
          BY <1>0, <2>5, <4>1 DEF CheckItem, Proceeds, Goto, Shapes
        <5>4. QED BY <1>0, <2>5, <4>1, <5>2, <5>3, CheckItemDecides
      <4>2. CASE GetQr(p)
        <5>1. /\ pc'[p] = "saveOrder" \/ pc'[p] = "done"
              /\ pc'[p] = "saveOrder" =>
                   local'[p] = [local[p] EXCEPT !.orderStatus = "EXPIRED"]
          BY <1>0, <4>2 DEF GetQr, Proceeds, Goto, Shapes, NoLocals
        <5>2. pc'[p] = "saveOrder" => local'[p].orderStatus = "EXPIRED"
          BY <1>0, <5>1 DEF NoLocals
        <5>3. QED BY <2>5, <5>1, <5>2
      <4>3. CASE SaveOrder(p)
        <5>1. pc[p] = "saveOrder"
          BY <4>3 DEF SaveOrder, At
        <5>2. PICK selected : local'[p] = [local[p] EXCEPT !.selected = selected]
          BY <1>0, <4>3 DEF SaveOrder, Proceeds, Goto, Shapes
        <5>3. local[p].orderStatus = "PAID"
          BY <1>0, <2>5, <5>2 DEF NoLocals
        <5>4. QED BY <1>0, <5>1, <5>3, OrdersOfLabels DEF Deciding
      <4>4. QED BY <1>0, <2>5, <4>1, <4>2, <4>3 DEF Arrives
    <3>2. PICK o \in Orders : o = OrderOf(p)
      BY <3>1
    <3>3. Settled(p, o)'
      BY <2>2, <3>1, <3>2
    <3>4. QED BY <1>0, <3>2, <3>3 DEF Settled
  <2>6. ASSUME NEW o \in Orders, OrderRow(o) \in DOMAIN written'[p],
               written'[p][OrderRow(o)].status = "PAID"
        PROVE  Settled(p, o)
    <3>1. CASE UpdateOrder(p)
      BY <2>6, <3>1, UpdateOrderDecides
    <3>2. CASE ~ UpdateOrder(p)
      <4>1. OrderRow(o) \in DOMAIN written[p]
            /\ written'[p][OrderRow(o)] = written[p][OrderRow(o)]
        <5>1. CASE written' = written
          BY <2>6, <5>1
        <5>2. CASE written'[p] = NothingWritten
          BY <2>6, <5>2, NothingIsWritten
        <5>3. ASSUME NEW versions, Writes(p, versions),
                     \A row \in DOMAIN versions : Touches(p, row)
              PROVE  OrderRow(o) \in DOMAIN written[p]
                     /\ written'[p][OrderRow(o)] = written[p][OrderRow(o)]
          <6>1. OrderRow(o) \notin DOMAIN versions
            BY <3>2, <5>3 DEF Touches, OrderRow
          <6>2. QED BY <1>0, <2>6, <5>3, <6>1, WritesRows
        <5>4. QED
          BY <1>0, <5>1, <5>2, <5>3, CommitsRows, RollsBackRows DEF Effect, OnlyReads
      <4>2. QED BY <1>0, <2>6, <4>1 DEF Deciding
    <3>3. QED BY <3>1, <3>2
  <2>7. QED BY <2>2, <2>4, <2>5, <2>6 DEF Deciding
<1>3. QED BY <1>1, <1>2

LEMMA PaidIsSettledStep ==
  ASSUME WriterInv, AmountsInv, NothingUnmatched, OrdersInv, NEW p \in Requests,
         StepOf(p)
  PROVE  PaidIsSettled'
<1>0. /\ Effect(p) /\ Shapes /\ Deciding(p) /\ PaidIsSettled /\ AmountsOf(p)
      /\ DOMAIN written = Requests /\ work[p].kind # "unmatch"
  BY StepEffects DEF WriterInv, Shapes, OrdersInv, NothingUnmatched, AmountsInv
<1>1. CASE committed' = committed
  BY <1>0, <1>1 DEF PaidIsSettled, Owed
<1>2. CASE Commits(p)
  <2>1. /\ \A row \in DOMAIN written[p] : committed'[row] = written[p][row]
        /\ \A row \in DOMAIN committed \ DOMAIN written[p] :
             committed'[row] = committed[row]
    BY <1>0, <1>2, CommitsRows
  <2>2. /\ \A r \in Receivables : ReceivableRow(r) \in DOMAIN committed
        /\ \A o \in Orders : OrderRow(o) \in DOMAIN committed
    BY <1>0, AllRowsHere DEF Shapes
  <2>3. \A r \in Receivables : Owed(r)' = Lacked(p, r)
    BY <2>1, <2>2 DEF Owed, Lacked, Sees
  <2>4. \A r \in Receivables : Lacked(p, r) \in Int /\ Owed(r) \in Int
                               /\ Lacked(p, r) <= Owed(r)
    BY <1>0, LackedIsNumber
  <2>5. ASSUME NEW o \in Orders, committed'[OrderRow(o)].status = "PAID",
               NEW i \in DOMAIN Items[o]
        PROVE  Owed(Items[o][i])' <= 0
    <3>1. PICK r \in Receivables : r = Items[o][i]
      BY ItemsAreReceivables
    <3>2. CASE OrderRow(o) \in DOMAIN written[p]
      <4>1. Lacked(p, r) <= 0
        BY <1>0, <2>1, <2>5, <3>1, <3>2 DEF Deciding, Settled
      <4>2. QED BY <2>3, <3>1, <4>1
    <3>3. CASE OrderRow(o) \notin DOMAIN written[p]
      <4>1. Owed(r) <= 0
        BY <1>0, <2>1, <2>2, <2>5, <3>1, <3>3 DEF PaidIsSettled
      <4>2. QED BY <2>3, <2>4, <3>1, <4>1
    <3>4. QED BY <3>2, <3>3
  <2>6. QED BY <2>5 DEF PaidIsSettled
<1>3. QED BY <1>0, <1>1, <1>2 DEF Effect, OnlyReads, RollsBack, Writes

LEMMA StepOrders ==
  ASSUME WriterInv, AmountsInv, OrdersInv, NEW p \in Requests, StepOf(p)
  PROVE  OrdersInv'
<1>1. work' = work
  BY StepEffects DEF WriterInv, Frame
<1>2. NothingUnmatched' => NothingUnmatched
  BY <1>1 DEF NothingUnmatched
<1>3. NothingUnmatched => \A q \in Requests : Deciding(q)'
  BY DecidingStep, DecidingStays DEF OrdersInv
<1>4. NothingUnmatched => PaidIsSettled'
  BY PaidIsSettledStep
<1>5. QED BY <1>2, <1>3, <1>4 DEF OrdersInv

LEMMA StutterOrders ==
  ASSUME OrdersInv, UNCHANGED vars
  PROVE  OrdersInv'
<1>1. /\ NothingUnmatched' = NothingUnmatched
      /\ PaidIsSettled' = PaidIsSettled
  BY DEF NothingUnmatched, PaidIsSettled, Owed, vars, load
<1>2. \A p \in Requests : Deciding(p)' = Deciding(p)
  BY DEF Deciding, Settled, Lacked, Sees, OrderOf, ItemsOf, vars, load
<1>3. QED BY <1>1, <1>2 DEF OrdersInv

LEMMA InitOrders == Init => OrdersInv
<1> SUFFICES ASSUME Init PROVE OrdersInv
  OBVIOUS
<1>1. PICK workload \in Workloads : committed = InitialRows(workload[1])
  BY DEF Init
<1>2. \A o \in Orders : committed[OrderRow(o)] = [status |-> "PENDING"]
  BY <1>1, InitialVersions
<1>3. \A o \in Orders : committed[OrderRow(o)].status = "PENDING"
  BY <1>2
<1>4. ASSUME NEW p \in Requests PROVE Deciding(p)
  <2>1. DOMAIN written[p] = {} /\ pc[p] \in Kinds \union {"done"}
    BY InitWriterInv, NothingIsWritten DEF Init, WriterInv, WorkOK
  <2>2. QED BY <2>1 DEF Deciding, Kinds
<1>5. QED BY <1>3, <1>4 DEF OrdersInv, PaidIsSettled

LEMMA NextOrders == WriterInv /\ AmountsInv /\ OrdersInv /\ [Next]_vars => OrdersInv'
BY StepOrders, StutterOrders DEF Next, StepOf

LEMMA OrdersInvAlways == Spec => []OrdersInv
BY WriterInvAlways, AmountsInvAlways, InitOrders, NextOrders, PTL DEF Spec

(* As long as nothing is unmatched, an order that shows as PAID has no     *)
(* receivable that lacks anything, whatever was paid while it was decided. *)
THEOREM PaidOrdersNeverLack == Spec => []PaidOrdersLackNothing
<1>1. AmountsInv /\ OrdersInv => PaidOrdersLackNothing
  <2> SUFFICES ASSUME AmountsInv, PaidIsSettled, NEW o \in Orders,
                      committed[OrderRow(o)].status = "PAID", NEW i \in DOMAIN Items[o]
               PROVE  ~ Lacks(committed[ReceivableRow(Items[o][i])])
    BY DEF OrdersInv, NothingUnmatched, PaidOrdersLackNothing
  <2>1. PICK r \in Receivables : r = Items[o][i]
    BY ItemsAreReceivables
  <2>2. Owed(r) <= 0 /\ Owed(r) \in Int
    BY <2>1 DEF PaidIsSettled, AmountsInv, Good, Receivable, Owed
  <2>3. QED BY <2>1, <2>2 DEF Owed, Lacks
<1>2. QED BY <1>1, AmountsInvAlways, OrdersInvAlways, PTL

-----------------------------------------------------------------------------
(* No discount that is granted is lost.                                    *)

DiscountAt(r) == committed[ReceivableRow(r)].discountAmount

(* What p takes off r, when it commits. *)
Grant(p, r) ==
  IF work[p].kind = "discount" /\ work[p].receivable = r THEN work[p].amount ELSE 0

(* Who has a receivable has it with its own grant added to the discount,   *)
(* which nobody else can change meanwhile; a discount has written its row  *)
(* by the time it locks the receivable, and both by the time it commits.   *)
Granting(p) ==
  /\ \A q \in Requests : DiscountRow(q) \in DOMAIN written[p] =>
       /\ q = p /\ work[p].kind = "discount"
       /\ written[p][DiscountRow(p)] = work[p].amount
  /\ \A r \in Receivables : ReceivableRow(r) \in DOMAIN written[p] =>
       written[p][ReceivableRow(r)].discountAmount = DiscountAt(r) + Grant(p, r)
  /\ work[p].kind = "discount" =>
       /\ pc[p] = "saveDiscount" => written[p] = NothingWritten
       /\ pc[p] = "applyDiscount" => DOMAIN written[p] = {DiscountRow(p)}
       /\ pc[p] = "commit" =>
            {DiscountRow(p), ReceivableRow(work[p].receivable)} \subseteq DOMAIN written[p]

DiscountsInv ==
  /\ DiscountIsGranted
  /\ \A p \in Requests : committed[DiscountRow(p)] \in Nat /\ Granting(p)

LEMMA DiscountRowsApart ==
  /\ \A p, q : DiscountRow(p) = DiscountRow(q) => p = q
  /\ \A p, r : DiscountRow(p) # ReceivableRow(r)
  /\ \A p, q, r : DiscountRow(p) # AllocationRow(q, r)
  /\ \A p : DiscountRow(p)[1] = "student_discounts"
BY DEF DiscountRow, ReceivableRow, AllocationRow

LEMMA GrantIsNumber ==
  ASSUME WriterInv, AmountsInv, NEW p \in Requests, NEW r \in Receivables
  PROVE  /\ Grant(p, r) \in Nat /\ DiscountAt(r) \in Int
         /\ work[p].kind # "discount" => Grant(p, r) = 0
         /\ committed[ReceivableRow(r)] \in Receivable
<1>1. WorkOK /\ Good(committed[ReceivableRow(r)])
  BY DEF WriterInv, AmountsInv
<1>2. QED BY <1>1 DEF WorkOK, Good, Receivable, Grant, DiscountAt

(* The statements of a discount. *)
LEMMA DiscountRuns ==
  ASSUME WriterInv, NEW p \in Requests, StepOf(p), work[p].kind = "discount"
  PROVE  Discount(p) \/ SaveDiscount(p) \/ ApplyDiscount(p) \/ Commit(p) \/ Fails(p)
<1>1. pc[p] \in Ended \union {"discount", "commit", "saveDiscount", "applyDiscount"}
  BY DEF WriterInv, StaysOnPath, OnPath
<1>2. ~ Redeliver(p)
  BY DEF Redeliver
<1>3. /\ ~ Ingest(p) /\ ~ FindOrder(p) /\ ~ Match(p) /\ ~ ReadTransaction(p)
      /\ ~ ReadOrder(p) /\ ~ ReadItem(p) /\ ~ SaveAllocation(p) /\ ~ ApplyPayment(p)
      /\ ~ CheckItem(p) /\ ~ SaveOrder(p) /\ ~ UpdateOrder(p) /\ ~ SaveTransaction(p)
  BY <1>1, LabelsRun DEF Ended
<1>4. /\ ~ UpdateTransaction(p) /\ ~ IssueReceipt(p)
      /\ ~ Unmatch(p) /\ ~ FindAllocations(p) /\ ~ ReversePayment(p)
      /\ ~ FindReceipt(p) /\ ~ CancelReceipt(p) /\ ~ FindCredits(p) /\ ~ VoidCredit(p)
      /\ ~ GetQr(p)
  BY <1>1, LabelsRun DEF Ended
<1>5. ~ SaveReconciliation(p) /\ ~ UpdateReconciliation(p)
  BY <1>1 DEF SaveReconciliation, UpdateReconciliation, At, Ended
<1>6. QED
  BY <1>2, <1>3, <1>4, <1>5 DEF StepOf, Statement, DeadlockVictim, Crash

(* The grants of a request stand while its receivables do. *)
LEMMA GrantingStays ==
  ASSUME NEW q \in Requests, Granting(q), written'[q] = written[q], pc'[q] = pc[q],
         work' = work,
         \A r \in Receivables : ReceivableRow(r) \in DOMAIN written[q] =>
           committed'[ReceivableRow(r)] = committed[ReceivableRow(r)]
  PROVE  Granting(q)'
<1>1. ASSUME NEW r \in Receivables, ReceivableRow(r) \in DOMAIN written[q]
      PROVE  DiscountAt(r)' = DiscountAt(r) /\ Grant(q, r)' = Grant(q, r)
  BY <1>1 DEF DiscountAt, Grant
<1>2. QED BY <1>1 DEF Granting

(* A request that grants nothing leaves the discount of what it writes. *)
LEMMA PaymentGrants ==
  ASSUME WriterInv, AmountsInv, NEW p \in Requests, Granting(p),
         work[p].kind # "discount", NEW versions, Writes(p, versions), work' = work,
         \A q : DiscountRow(q) \notin DOMAIN versions,
         \A r \in Receivables : ReceivableRow(r) \in DOMAIN versions =>
           versions[ReceivableRow(r)].discountAmount = DiscountAt(r)
  PROVE  Granting(p)'
<1>1. /\ committed' = committed
      /\ DOMAIN written'[p] = DOMAIN versions \union DOMAIN written[p]
      /\ \A row \in DOMAIN versions : written'[p][row] = versions[row]
      /\ \A row \in DOMAIN written[p] \ DOMAIN versions :
           written'[p][row] = written[p][row]
  BY WritesRows DEF WriterInv, Shapes
<1>2. \A r \in Receivables : /\ DiscountAt(r)' = DiscountAt(r) /\ DiscountAt(r) \in Int
                             /\ Grant(p, r) = 0 /\ Grant(p, r)' = 0
  BY <1>1, GrantIsNumber DEF DiscountAt, Grant
<1>3. \A q \in Requests : DiscountRow(q) \notin DOMAIN written'[p]
  BY <1>1 DEF Granting
<1>4. ASSUME NEW r \in Receivables, ReceivableRow(r) \in DOMAIN written'[p]
      PROVE  written'[p][ReceivableRow(r)].discountAmount = DiscountAt(r)
  <2>1. CASE ReceivableRow(r) \in DOMAIN versions
    BY <1>1, <2>1
  <2>2. CASE ReceivableRow(r) \notin DOMAIN versions
    <3>1. written[p][ReceivableRow(r)].discountAmount = DiscountAt(r) + Grant(p, r)
      BY <1>1, <1>4, <2>2 DEF Granting
    <3>2. QED BY <1>1, <1>2, <1>4, <2>2, <3>1
  <2>3. QED BY <2>1, <2>2
<1>5. QED BY <1>2, <1>3, <1>4 DEF Granting

LEMMA SeenDiscount ==
  ASSUME WriterInv, AmountsInv, NEW p \in Requests, Granting(p), NEW r \in Receivables,
         work[p].kind # "discount" \/ ReceivableRow(r) \notin DOMAIN written[p]
  PROVE  Sees(p, ReceivableRow(r)).discountAmount = DiscountAt(r)
BY GrantIsNumber DEF Granting, Sees, DiscountAt

LEMMA ApplyPaymentGrants ==
  ASSUME WriterInv, AmountsInv, NEW p \in Requests, Granting(p), ApplyPayment(p),
         ~ Fails(p)
  PROVE  Granting(p)'
<1>1. At(p, "applyPayment") /\ work' = work
  BY DEF ApplyPayment, At, load
<1>2. /\ Item(p) \in Receivables /\ local[p].toAllocate \in Nat
      /\ work[p].kind # "discount"
  BY <1>1, ItemIsReceivable DEF AmountsInv, Handing
<1>3. PICK s, paid, seen, new :
        /\ s \in Receivables /\ paid \in Nat
        /\ s = Item(p) /\ paid = local[p].toAllocate
        /\ seen = Sees(p, ReceivableRow(s))
        /\ new = ApplyPaymentDelta(seen, paid, NotPastDue)
  BY <1>2
<1>4. PICK versions : versions = NewVersion(ReceivableRow(s), new)
  OBVIOUS
<1>5. Writes(p, versions)
  BY <1>3, <1>4 DEF ApplyPayment, ReceivableOf
<1>6. DOMAIN versions = {ReceivableRow(s)} /\ versions[ReceivableRow(s)] = new
  BY <1>4, OneVersion
<1>7. seen \in Receivable /\ seen.discountAmount = DiscountAt(s)
  BY <1>2, <1>3, SeenAmounts, SeenDiscount DEF Good
<1>8. new.discountAmount = DiscountAt(s)
  BY <1>3, <1>7, DeltaDiscounts, NotPastDueType
<1>9. QED
  BY <1>1, <1>2, <1>5, <1>6, <1>8, RowsOfTables, DiscountRowsApart, PaymentGrants

LEMMA ReversePaymentGrants ==
  ASSUME WriterInv, AmountsInv, NEW p \in Requests, Granting(p), ReversePayment(p)
  PROVE  Granting(p)'
<1>0. At(p, "reversePayment") /\ work' = work
  BY DEF ReversePayment, At, load
<1>1. work[p].kind = "unmatch" /\ pc[p] = "reversePayment" /\ TodoOK(p)
  BY <1>0, UnmatchStands
<1>2. Head(local[p].todo) \in Requests \X Receivables
  BY <1>1, TodoTail DEF TodoOK
<1>3. PICK q, s, seen, allocation :
        /\ q \in Requests /\ s \in Receivables
        /\ Head(local[p].todo) = <<q, s>>
        /\ seen = Sees(p, ReceivableRow(s))
        /\ allocation = Sees(p, AllocationRow(q, s))
  BY <1>2
<1>4. PICK new, reversed :
        /\ new = ReversePaymentDelta(seen, allocation.amount, NotPastDue)
        /\ reversed = [allocation EXCEPT !.reversed = TRUE]
  OBVIOUS
<1>5. Writes(p, NewVersion(ReceivableRow(s), new)
                  \uplus NewVersion(AllocationRow(q, s), reversed))
  <2>1. Head(local[p].todo)[1] = q /\ Head(local[p].todo)[2] = s
    BY <1>3
  <2>2. QED BY <1>3, <1>4, <2>1, Zenon DEF ReversePayment
<1>6. PICK a, b : a = ReceivableRow(s) /\ b = AllocationRow(q, s)
  OBVIOUS
<1>7. PICK versions : versions = NewVersion(a, new) \uplus NewVersion(b, reversed)
  OBVIOUS
<1>8. Writes(p, versions)
  BY <1>5, <1>6, <1>7
<1>9. a # b
  BY <1>6, RowsOfTables
<1>10. DOMAIN versions = {a, b} /\ versions[a] = new
  BY <1>7, <1>9 DEF NewVersion, \uplus
<1>11. seen \in Receivable /\ seen.discountAmount = DiscountAt(s)
       /\ allocation.amount \in Nat
  BY <1>1, <1>3, SeenAmounts, SeenDiscount DEF Good
<1>12. new.discountAmount = DiscountAt(s)
  BY <1>11, <1>4, DeltaDiscounts, NotPastDueType
<1>13. \A d : DiscountRow(d) \notin DOMAIN versions
  BY <1>6, <1>10, DiscountRowsApart
<1>14. \A r \in Receivables : ReceivableRow(r) \in DOMAIN versions =>
         versions[ReceivableRow(r)].discountAmount = DiscountAt(r)
  BY <1>6, <1>10, <1>12, RowsOfTables
<1>15. QED BY <1>0, <1>1, <1>8, <1>13, <1>14, PaymentGrants

LEMMA SaveDiscountGrants ==
  ASSUME WriterInv, NEW p \in Requests, Granting(p), SaveDiscount(p),
         work[p].kind = "discount"
  PROVE  Granting(p)'
<1>1. /\ pc[p] = "saveDiscount" /\ pc'[p] = "applyDiscount" /\ work' = work /\ Shapes
  BY DEF SaveDiscount, At, Goto, WriterInv, Shapes, load
<1>2. written[p] = NothingWritten
  BY <1>1 DEF Granting
<1>3. PICK row, amount, versions :
        /\ row = DiscountRow(p) /\ amount = work[p].amount
        /\ versions = NewVersion(row, amount)
  OBVIOUS
<1>4. Writes(p, versions)
  BY <1>3 DEF SaveDiscount
<1>5. DOMAIN versions = {row} /\ versions[row] = amount
  BY <1>3, OneVersion
<1>6. DOMAIN written'[p] = {row} /\ written'[p][row] = amount
  BY <1>1, <1>2, <1>4, <1>5, WritesRows, NothingIsWritten DEF Shapes
<1>7. QED BY <1>1, <1>3, <1>6, DiscountRowsApart DEF Granting

LEMMA ApplyDiscountGrants ==
  ASSUME WriterInv, AmountsInv, NEW p \in Requests, Granting(p), ApplyDiscount(p),
         work[p].kind = "discount"
  PROVE  Granting(p)'
<1>1. /\ pc[p] = "applyDiscount" /\ pc'[p] = "commit" /\ work' = work /\ Shapes
  BY DEF ApplyDiscount, At, Goto, WriterInv, Shapes, load
<1>2. work[p].receivable \in Receivables /\ work[p].amount \in Nat
  BY DEF WriterInv, WorkOK
<1>3. PICK s, granted, seen, new, versions :
        /\ s \in Receivables /\ granted \in Nat
        /\ s = work[p].receivable /\ granted = work[p].amount
        /\ seen = Sees(p, ReceivableRow(s))
        /\ new = ApplyDiscountDelta(seen, granted, NotPastDue)
        /\ versions = NewVersion(ReceivableRow(s), new)
  BY <1>2
<1>4. Writes(p, versions)
  BY <1>3 DEF ApplyDiscount, Discounted
<1>5. DOMAIN versions = {ReceivableRow(s)} /\ versions[ReceivableRow(s)] = new
  BY <1>3, OneVersion
<1>6. DOMAIN written[p] = {DiscountRow(p)} /\ written[p][DiscountRow(p)] = granted
  BY <1>1, <1>3 DEF Granting
<1>7. /\ committed' = committed
      /\ DOMAIN written'[p] = {ReceivableRow(s), DiscountRow(p)}
      /\ written'[p][ReceivableRow(s)] = new
      /\ written'[p][DiscountRow(p)] = granted
  BY <1>1, <1>4, <1>5, <1>6, WritesRows, DiscountRowsApart DEF Shapes
<1>8. ReceivableRow(s) \notin DOMAIN written[p]
  BY <1>6, DiscountRowsApart
<1>9. seen \in Receivable /\ seen.discountAmount = DiscountAt(s)
  BY <1>3, <1>8, SeenAmounts, SeenDiscount DEF Good
<1>10. new.discountAmount = DiscountAt(s) + granted
  BY <1>3, <1>9, DeltaDiscounts, NotPastDueType
<1>11. Grant(p, s)' = granted /\ DiscountAt(s)' = DiscountAt(s)
  BY <1>1, <1>3, <1>7 DEF Grant, DiscountAt
<1>12. \A r \in Receivables : ReceivableRow(r) \in DOMAIN written'[p] => r = s
  BY <1>7, RowsOfTables, DiscountRowsApart
<1>13. \A q \in Requests : DiscountRow(q) \in DOMAIN written'[p] => q = p
  BY <1>7, DiscountRowsApart
<1>14. /\ work'[p].kind = "discount" /\ work'[p].receivable = s
       /\ written'[p][DiscountRow(p)] = work'[p].amount
  BY <1>1, <1>3, <1>7
<1>15. QED BY <1>1, <1>7, <1>10, <1>11, <1>12, <1>13, <1>14 DEF Granting

(* What a request other than p has been granted stays as it is, and so do  *)
(* the discounts of receivables that p does not have.                      *)
LEMMA TotalOfGrants ==
  ASSUME DiscountsInv, NEW r \in Receivables
  PROVE  /\ NumRequests \in Nat /\ Requests = 1..NumRequests
         /\ Granted(r) \in [1..NumRequests -> Int]
         /\ DiscountAt(r) = Total(Granted(r), NumRequests)
BY WorkAssumption DEF DiscountsInv, DiscountIsGranted, Granted, DiscountAt

LEMMA SameGrants ==
  ASSUME DiscountsInv, work' = work, NEW r \in Receivables,
         DiscountAt(r)' = DiscountAt(r),
         \A p \in Requests : committed'[DiscountRow(p)] = committed[DiscountRow(p)]
  PROVE  DiscountAt(r)' = Total(Granted(r), NumRequests)'
<1>1. Granted(r)' = Granted(r)
  BY WorkAssumption DEF Granted
<1>2. QED BY <1>1, TotalOfGrants

LEMMA MoreGrants ==
  ASSUME WriterInv, DiscountsInv, work' = work, NEW p \in Requests,
         work[p].kind = "discount", committed[DiscountRow(p)] = 0,
         committed'[DiscountRow(p)] = work[p].amount,
         \A q \in Requests \ {p} : committed'[DiscountRow(q)] = committed[DiscountRow(q)],
         NEW r \in Receivables, DiscountAt(r)' = DiscountAt(r) + Grant(p, r)
  PROVE  DiscountAt(r)' = Total(Granted(r), NumRequests)'
<1>1. PICK f, g : f = Granted(r) /\ g = [q \in 1..NumRequests |->
                     IF q = p THEN Grant(p, r) ELSE Granted(r)[q]]
  OBVIOUS
<1>2. /\ NumRequests \in Nat /\ p \in 1..NumRequests /\ f \in [1..NumRequests -> Int]
      /\ DiscountAt(r) = Total(f, NumRequests)
  BY <1>1, TotalOfGrants
<1>3. Grant(p, r) \in Nat
  BY DEF WriterInv, WorkOK, Grant
<1>4. g \in [1..NumRequests -> Int] /\ f[p] = 0 /\ g[p] = Grant(p, r)
      /\ \A q \in 1..NumRequests : q # p => g[q] = f[q]
  BY <1>1, <1>2, <1>3 DEF Granted
<1>5. Granted(r)' = g
  BY <1>1, <1>2, WorkAssumption DEF Granted, Grant
<1>6. Total(g, NumRequests) = Total(f, NumRequests) + g[p] - f[p]
  BY <1>2, <1>4, TotalUpdate
<1>7. Total(f, NumRequests) \in Int
  BY <1>2, TotalType
<1>8. Total(g, NumRequests) = DiscountAt(r) + Grant(p, r)
  BY <1>2, <1>3, <1>4, <1>6, <1>7
<1>9. Total(Granted(r), NumRequests)' = Total(g, NumRequests)
  BY <1>5
<1>10. QED BY <1>8, <1>9

(* What a commit of p does to the discounts. *)
LEMMA CommitGrants ==
  ASSUME WriterInv, AmountsInv, DiscountsInv, NEW p \in Requests, Commits(p), work' = work,
         work[p].kind = "discount" => pc[p] = "commit"
  PROVE  /\ DiscountIsGranted'
         /\ \A q \in Requests : committed'[DiscountRow(q)] \in Nat
<1>0. /\ Granting(p) /\ Shapes /\ WorkOK
      /\ \A q \in Requests : committed[DiscountRow(q)] \in Nat
  BY DEF DiscountsInv, WriterInv
<1>1. /\ \A row \in DOMAIN written[p] : committed'[row] = written[p][row]
      /\ \A row \in DOMAIN committed \ DOMAIN written[p] :
           committed'[row] = committed[row]
  BY <1>0, CommitsRows DEF Shapes
<1>2. /\ \A r \in Receivables : ReceivableRow(r) \in DOMAIN committed
      /\ \A q \in Requests : DiscountRow(q) \in DOMAIN committed
  BY <1>0, AllRowsHere, OwnRowsApart DEF Shapes
<1>3. \A q \in Requests \ {p} : committed'[DiscountRow(q)] = committed[DiscountRow(q)]
  BY <1>0, <1>1, <1>2 DEF Granting
<1>4. ASSUME NEW r \in Receivables
      PROVE  DiscountAt(r)' = IF ReceivableRow(r) \in DOMAIN written[p]
                              THEN DiscountAt(r) + Grant(p, r) ELSE DiscountAt(r)
  BY <1>0, <1>1, <1>2 DEF Granting, DiscountAt
<1>5. \A r \in Receivables : Grant(p, r) \in Nat /\ DiscountAt(r) \in Int
  BY GrantIsNumber
<1>6. CASE work[p].kind # "discount"
  <2>1. \A q \in Requests : committed'[DiscountRow(q)] = committed[DiscountRow(q)]
    BY <1>0, <1>1, <1>2, <1>6 DEF Granting
  <2>2. \A r \in Receivables : DiscountAt(r)' = DiscountAt(r)
    BY <1>4, <1>5, <1>6, GrantIsNumber
  <2>3. \A r \in Receivables : DiscountAt(r)' = Total(Granted(r), NumRequests)'
    BY <2>1, <2>2, SameGrants
  <2>4. QED BY <1>0, <2>1, <2>3 DEF DiscountIsGranted, DiscountAt
<1>7. CASE work[p].kind = "discount"
  <2>1. /\ pc[p] = "commit" /\ DiscountRow(p) \in DOMAIN written[p]
        /\ ReceivableRow(work[p].receivable) \in DOMAIN written[p]
        /\ work[p].amount \in Nat
    BY <1>0, <1>7 DEF Granting, WorkOK
  <2>2. committed[DiscountRow(p)] = 0
    BY <2>1 DEF WriterInv, Unborn
  <2>3. committed'[DiscountRow(p)] = work[p].amount
    BY <1>0, <1>1, <2>1 DEF Granting
  <2>4. \A r \in Receivables : DiscountAt(r)' = DiscountAt(r) + Grant(p, r)
    <3>1. \A r \in Receivables : r # work[p].receivable => Grant(p, r) = 0
      BY DEF Grant
    <3>2. QED BY <1>4, <1>5, <2>1, <3>1
  <2>5. \A r \in Receivables : DiscountAt(r)' = Total(Granted(r), NumRequests)'
    BY <1>3, <1>7, <2>2, <2>3, <2>4, MoreGrants
  <2>6. QED BY <1>0, <1>3, <2>1, <2>3, <2>5 DEF DiscountIsGranted, DiscountAt
<1>8. QED BY <1>6, <1>7

LEMMA GrantingStep ==
  ASSUME WriterInv, AmountsInv, DiscountsInv, NEW p \in Requests, StepOf(p)
  PROVE  Granting(p)'
<1>0. /\ Frame(p) /\ Effect(p) /\ Shapes /\ Granting(p) /\ work' = work
      /\ DOMAIN written = Requests
  BY StepEffects DEF WriterInv, Shapes, DiscountsInv, Frame
<1>1. CASE written'[p] = NothingWritten /\ pc'[p] \in Ended
  BY <1>1, NothingIsWritten DEF Granting, Ended
<1>2. CASE Fails(p) \/ Commit(p)
  <2>1. pc'[p] \in Ended /\ written'[p] = NothingWritten
    BY <1>0, <1>2, RollsBackRows, CommitsRows
       DEF Fails, Commit, Ends, Proceeds, Goto, Shapes, Ended
  <2>2. QED BY <1>1, <2>1
<1>3. CASE work[p].kind = "discount"
  <2>1. CASE Discount(p) /\ ~ Fails(p)
    <3>1. /\ pc[p] = "discount" /\ pc'[p] = "saveDiscount" /\ written' = written
      BY <1>0, <2>1 DEF Discount, At, Goto, OnlyReads, Shapes
    <3>2. written[p] = NothingWritten
      BY <3>1 DEF WriterInv, OneWriter, Kinds
    <3>3. QED BY <3>1, <3>2, NothingIsWritten DEF Granting
  <2>2. QED
    BY <1>0, <1>2, <1>3, <2>1, DiscountRuns, SaveDiscountGrants, ApplyDiscountGrants
<1>4. CASE work[p].kind # "discount"
  <2>1. CASE OnlyReads
    <3>1. \A r \in Receivables : DiscountAt(r)' = DiscountAt(r) /\ Grant(p, r)' = Grant(p, r)
      BY <1>0, <2>1 DEF DiscountAt, Grant, OnlyReads
    <3>2. QED BY <1>0, <1>4, <2>1, <3>1 DEF Granting, OnlyReads
  <2>2. CASE RollsBack(p) \/ Commits(p)
    <3>1. written'[p] = NothingWritten
      BY <1>0, <2>2, RollsBackRows, CommitsRows
    <3>2. QED BY <1>0, <1>4, <3>1, NothingIsWritten DEF Granting
  <2>3. ASSUME NEW versions, Writes(p, versions), pc'[p] \notin Ended,
               \A row \in DOMAIN versions : Touches(p, row)
        PROVE  Granting(p)'
    <3>1. CASE ApplyPayment(p) \/ ReversePayment(p)
      <4>1. ~ Fails(p)
        BY <1>0, <2>3 DEF Fails, Proceeds, Goto, Shapes, Ended
      <4>2. QED BY <1>0, <3>1, <4>1, ApplyPaymentGrants, ReversePaymentGrants
    <3>2. CASE ~ ApplyPayment(p) /\ ~ ReversePayment(p)
      <4>1. ~ SaveDiscount(p) /\ ~ ApplyDiscount(p)
        <5>1. pc[p] \notin {"saveDiscount", "applyDiscount"}
          BY <1>4 DEF WriterInv, StaysOnPath, OnPath, Ended, AllocationLabels,
                      MatchLabels, UnmatchLabels, WorkOK, Kinds
        <5>2. QED BY <5>1, LabelsRun
      <4>2. \A row \in DOMAIN versions :
              row[1] \notin {"student_receivables", "student_discounts"}
        BY <2>3, <3>2, <4>1 DEF Touches
      <4>3. /\ \A q : DiscountRow(q) \notin DOMAIN versions
            /\ \A r \in Receivables : ReceivableRow(r) \notin DOMAIN versions
        BY <4>2, DiscountRowsApart, RowsOfTables
      <4>4. QED BY <1>0, <1>4, <2>3, <4>3, PaymentGrants
    <3>3. QED BY <3>1, <3>2
  <2>4. QED BY <1>0, <2>1, <2>2, <2>3 DEF Effect
<1>5. QED BY <1>3, <1>4

LEMMA StepDiscounts ==
  ASSUME WriterInv, AmountsInv, DiscountsInv, NEW p \in Requests, StepOf(p)
  PROVE  DiscountsInv'
<1>0. /\ Frame(p) /\ Effect(p) /\ Shapes /\ work' = work /\ DOMAIN written = Requests
      /\ DiscountIsGranted
      /\ \A q \in Requests : Granting(q) /\ committed[DiscountRow(q)] \in Nat
  BY StepEffects DEF WriterInv, Shapes, DiscountsInv, Frame
<1>1. Granting(p)'
  BY GrantingStep
<1>2. ASSUME NEW q \in Requests \ {p} PROVE Granting(q)'
  <2>1. \A r \in Receivables : ReceivableRow(r) \in DOMAIN written[q] =>
          committed'[ReceivableRow(r)] = committed[ReceivableRow(r)]
    <3>1. CASE committed' = committed
      BY <3>1
    <3>2. CASE Commits(p)
      <4>1. DOMAIN written[p] \intersect DOMAIN written[q] = {}
        BY DEF WriterInv, OneWriter
      <4>2. \A r \in Receivables : ReceivableRow(r) \in DOMAIN committed
        BY <1>0, AllRowsHere DEF Shapes
      <4>3. QED BY <1>0, <3>2, <4>1, <4>2, CommitsRows
    <3>3. QED BY <1>0, <3>1, <3>2 DEF Effect, OnlyReads, RollsBack, Writes
  <2>2. QED BY <1>0, <2>1, GrantingStays DEF Frame
<1>3. DiscountIsGranted' /\ \A q \in Requests : committed'[DiscountRow(q)] \in Nat
  <2>1. CASE committed' = committed
    <3>1. \A r \in Receivables : DiscountAt(r)' = Total(Granted(r), NumRequests)'
      BY <1>0, <2>1, SameGrants DEF DiscountAt
    <3>2. QED BY <1>0, <2>1, <3>1 DEF DiscountIsGranted, DiscountAt
  <2>2. CASE Commits(p) /\ pc'[p] = "done" /\ pc[p] \in Kinds \union {"commit"}
    <3>1. work[p].kind = "discount" => pc[p] = "commit"
      <4>1. SUFFICES ASSUME work[p].kind = "discount" PROVE pc[p] = "commit"
        OBVIOUS
      <4>2. Discount(p) => pc'[p] # "done"
        BY <1>0 DEF Discount, Fails, Proceeds, Goto, Shapes
      <4>3. SaveDiscount(p) => pc'[p] # "done"
        BY <1>0 DEF SaveDiscount, Goto, Shapes
      <4>4. ApplyDiscount(p) => pc'[p] # "done"
        BY <1>0 DEF ApplyDiscount, Goto, Shapes
      <4>5. Fails(p) => pc'[p] # "done"
        BY <1>0 DEF Fails, Proceeds, Goto, Shapes
      <4>6. Commit(p) => pc[p] = "commit"
        BY DEF Commit, At
      <4>7. QED BY <2>2, <4>1, <4>2, <4>3, <4>4, <4>5, <4>6, DiscountRuns
    <3>2. QED BY <1>0, <2>2, <3>1, CommitGrants
  <2>3. QED BY <1>0, <2>1, <2>2 DEF Effect, OnlyReads, RollsBack, Writes
<1>4. QED BY <1>1, <1>2, <1>3 DEF DiscountsInv

LEMMA StutterDiscounts ==
  ASSUME DiscountsInv, UNCHANGED vars
  PROVE  DiscountsInv'
<1>1. /\ DiscountIsGranted' = DiscountIsGranted
      /\ \A p \in Requests : committed'[DiscountRow(p)] = committed[DiscountRow(p)]
  BY DEF DiscountIsGranted, Granted, vars, load
<1>2. \A p \in Requests : Granting(p)' = Granting(p)
  BY DEF Granting, Grant, DiscountAt, vars, load
<1>3. QED BY <1>1, <1>2 DEF DiscountsInv

LEMMA InitDiscounts == Init => DiscountsInv
<1> SUFFICES ASSUME Init PROVE DiscountsInv
  OBVIOUS
<1>1. PICK workload \in Workloads : committed = InitialRows(workload[1])
  BY DEF Init
<1>2. /\ \A p \in Requests : committed[DiscountRow(p)] = 0
      /\ \A r \in Receivables :
           committed[ReceivableRow(r)] = NewReceivable(OriginalAmount[r])
  BY <1>1, InitialVersions
<1>3. ASSUME NEW r \in Receivables
      PROVE  committed[ReceivableRow(r)].discountAmount = Total(Granted(r), NumRequests)
  <2>1. committed[ReceivableRow(r)].discountAmount = 0
    <3>1. NewReceivable(OriginalAmount[r]).discountAmount = 0
      BY DEF NewReceivable
    <3>2. QED BY <1>2, <3>1
  <2>2. /\ NumRequests \in Nat /\ Granted(r) \in [1..NumRequests -> Int]
        /\ \A p \in 1..NumRequests : Granted(r)[p] = 0
    BY <1>2, WorkAssumption DEF Granted
  <2>3. Total(Granted(r), NumRequests) = 0
    BY <2>2, TotalOfZeros
  <2>4. QED BY <2>1, <2>3
<1>4. ASSUME NEW p \in Requests PROVE Granting(p)
  <2>1. DOMAIN written[p] = {} /\ pc[p] \in Kinds \union {"done"}
    BY InitWriterInv, NothingIsWritten DEF Init, WriterInv, WorkOK
  <2>2. QED BY <2>1 DEF Granting, Kinds
<1>5. QED BY <1>2, <1>3, <1>4 DEF DiscountsInv, DiscountIsGranted

LEMMA NextDiscounts ==
  WriterInv /\ AmountsInv /\ DiscountsInv /\ [Next]_vars => DiscountsInv'
BY StepDiscounts, StutterDiscounts DEF Next, StepOf

(* The discount on a receivable is the sum of the discounts granted on it: *)
(* none is lost between the ones that are granted at once.                 *)
THEOREM DiscountIsGrantedAlways == Spec => []DiscountIsGranted
<1>1. DiscountsInv => DiscountIsGranted
  BY DEF DiscountsInv
<1>2. QED
  BY <1>1, WriterInvAlways, AmountsInvAlways, InitDiscounts, NextDiscounts, PTL DEF Spec
=============================================================================
