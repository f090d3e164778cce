--------------------------- MODULE ReportTheorems ---------------------------
(***************************************************************************)
(* Theorems about Reports, for every number of schools, users, receivables *)
(* and transactions: the figures of a report follow from one another; the  *)
(* views of a user split the same figures by school, day and category; and *)
(* the payments of a school cover what its receivables count as paid.      *)
(* The engine beneath is that of Accounting, with its invariants.          *)
(***************************************************************************)
EXTENDS Reports, LedgerTheorems

-----------------------------------------------------------------------------
(* The reports only add to the engine: what holds of it holds here.        *)

LEMMA EngineStep == [ReportNext]_reportVars => [Next]_vars
<1> SUFFICES ASSUME [ReportNext]_reportVars PROVE [Next]_vars
  OBVIOUS
<1>1. ASSUME NEW r \in Receivables, NEW delta \in AdjustmentDeltas,
             CreateAdjustment(r, delta)
      PROVE  Next
  BY <1>1 DEF CreateAdjustment, Next
<1>2. ASSUME NEW t \in Transactions, NEW amount \in TransferAmounts,
             NEW o \in Orders \union {NoOrder}, Ingest(t, amount, o)
      PROVE  Next
  BY <1>2 DEF Ingest, Next
<1>3. OtherRequest => Next
  BY DEF OtherRequest, Next
<1>4. UNCHANGED reportVars => UNCHANGED vars
  BY DEF reportVars
<1>5. ASSUME NEW k \in Categories, SoftDeleteCategory(k) PROVE UNCHANGED vars
  BY <1>5 DEF SoftDeleteCategory
<1>6. ASSUME NEW asked \in ReportsAsked, StartReport(asked) PROVE UNCHANGED vars
  BY <1>6 DEF StartReport
<1>7. FinishReport => UNCHANGED vars
  BY DEF FinishReport
<1>8. QED BY <1>1, <1>2, <1>3, <1>4, <1>5, <1>6, <1>7 DEF ReportNext

(* Deleting a category and the two statements of a report leave the tables *)
(* of the engine alone, and the columns its steps are given here.          *)
ReadsOrDeletes ==
  \/ \E k \in Categories : SoftDeleteCategory(k)
  \/ \E asked \in ReportsAsked : StartReport(asked)
  \/ FinishReport

LEMMA ReadingLeavesTables ==
  ReadsOrDeletes => UNCHANGED <<vars, adjustments, collectedBy>>
BY DEF ReadsOrDeletes, SoftDeleteCategory, StartReport, FinishReport

Books ==
  /\ TypeInv /\ RowsInv /\ OneStudentPerOrder
  /\ PaidIsAllocated /\ ReconciliationAgrees /\ SurplusBecomesCredit

LEMMA EngineRuns == ReportSpec => Spec
<1>1. ReportInit => Init
  BY DEF ReportInit
<1>2. QED BY <1>1, EngineStep, PTL DEF ReportSpec, Spec

LEMMA BooksInvariance == ReportSpec => []Books
<1>1. (TypeInv /\ RowsInv /\ OneStudentPerOrder
       /\ PaidIsAllocated /\ ReconciliationAgrees /\ SurplusBecomesCredit) => Books
  BY DEF Books
<1>2. QED
  BY <1>1, EngineRuns, TypeInvariance, RowsInvariance, OneStudentInvariance,
     PaidIsAllocatedAlways, ReconciliationAgreesAlways,
     SurplusBecomesCreditAlways, PTL

-----------------------------------------------------------------------------
(* The adjustment of a receivable is what its APPROVED rows come to.       *)

AdjustmentsInv ==
  /\ adjustments \in [Receivables -> [INCREASE : Nat, DECREASE : Nat]]
  /\ \A r \in Receivables :
       /\ receivables[r].adjustmentAmount
            = adjustments[r].INCREASE - adjustments[r].DECREASE
       /\ ~ Exists(receivables[r]) => receivables[r].adjustmentAmount = 0

(* A step that leaves the adjustment of every receivable alone.            *)
KeepsAdjustments ==
  \A r \in Receivables :
    /\ receivables'[r].adjustmentAmount = receivables[r].adjustmentAmount
    /\ ~ Exists(receivables'[r]) => ~ Exists(receivables[r])

RunKeepsAdjustments(run) ==
  \A r \in Receivables :
    run.receivables[r].adjustmentAmount = receivables[r].adjustmentAmount

LEMMA AllocateItemAdjusts ==
  ASSUME NEW run \in Run, NEW r \in Receivables, RunKeepsAdjustments(run)
  PROVE  RunKeepsAdjustments(AllocateItem(run, r))
<1> DEFINE take == ToAllocate(run, r)
           next == AllocateItem(run, r)
<1>1. CASE run.receivables[r].status = "CANCELLED" \/ take <= 0
  BY <1>1 DEF AllocateItem
<1>2. CASE ~ (run.receivables[r].status = "CANCELLED" \/ take <= 0)
  <2>1. /\ run.available \in Int
        /\ run.receivables \in [Receivables -> Receivable]
        /\ run.receivables[r] \in Receivable /\ IsPastDue(r) \in BOOLEAN
        /\ run.receivables[r].amountOutstanding \in Int
    BY DEF Run, IsPastDue, Receivable
  <2>2. take \in Nat
    BY <1>2, <2>1 DEF ToAllocate
  <2> DEFINE paid == ApplyPaymentDelta(run.receivables[r], take, IsPastDue(r))
  <2>3. next.receivables = [run.receivables EXCEPT ![r] = paid]
    BY <1>2 DEF AllocateItem
  <2> HIDE DEF take, next
  <2>4. paid.adjustmentAmount = run.receivables[r].adjustmentAmount
    BY <2>1, <2>2, DeltaAdjustments
  <2> HIDE DEF paid
  <2>5. RunKeepsAdjustments(next)
    BY <2>1, <2>3, <2>4 DEF RunKeepsAdjustments
  <2>6. QED BY <2>5 DEF next
<1>3. QED BY <1>1, <1>2

LEMMA AllocationRunAdjusts ==
  ASSUME TypeInv, NEW amount \in Int, NEW items \in Seq(Receivables)
  PROVE  RunKeepsAdjustments(AllocationRun(items, amount)[Len(items)])
<1> DEFINE run == AllocationRun(items, amount)
           Good == {i \in 0..Len(items) : RunKeepsAdjustments(run[i])}
<1>0. Len(items) \in Nat /\ DOMAIN items = 1..Len(items)
      /\ receivables \in [Receivables -> Receivable]
  BY DEF TypeInv, TypeOK
<1>1. IsRun(run, items, amount, Len(items))
  BY AllocationRunIsRun
<1>2. \A i \in 0..Len(items) : run[i] \in Run
  BY <1>0, AllocationRunOK DEF RunOK
<1> HIDE DEF run
<1>3. 0 \in Good
  <2>1. run[0].receivables = receivables
    BY <1>1 DEF IsRun, StartOfRun
  <2>2. QED BY <1>0, <2>1 DEF RunKeepsAdjustments
<1>4. ASSUME NEW i \in 1..Len(items), i - 1 \in Good PROVE i \in Good
  <2>1. RunKeepsAdjustments(run[i - 1]) /\ items[i] \in Receivables
        /\ run[i - 1] \in Run
    BY <1>0, <1>2, <1>4
  <2>2. RunKeepsAdjustments(AllocateItem(run[i - 1], items[i]))
    BY <2>1, AllocateItemAdjusts
  <2>3. run[i] = AllocateItem(run[i - 1], items[i])
    BY <1>1 DEF IsRun
  <2>4. QED BY <1>0, <2>2, <2>3
<1>5. \A i \in 0..Len(items) : i \in Good
  <2> HIDE DEF Good
  <2>1. QED BY <1>0, <1>3, <1>4, RowInduction
<1>6. Len(items) \in 0..Len(items)
  BY <1>0
<1>7. QED BY <1>5, <1>6 DEF run

LEMMA AllocateToOrderAdjusts ==
  ASSUME TypeInv, NEW t \in Transactions, NEW o \in Orders, NEW amount \in Int,
         AllocateToOrder(t, o, amount)
  PROVE  KeepsAdjustments
<1> DEFINE items == orders[o].items
           done == AllocationRun(items, amount)[Len(items)]
<1>1. items \in Seq(Receivables) /\ receivables \in [Receivables -> Receivable]
  BY DEF TypeInv, TypeOK, Order
<1>2. RunOK(done, amount) /\ RunKeepsAdjustments(done)
  BY <1>1, AllocationRunOK, AllocationRunAdjusts
<1>3. receivables' = done.receivables
  BY Zenon DEF AllocateToOrder
<1> HIDE DEF done
<1>4. QED BY <1>2, <1>3 DEF RunOK, RunKeepsAdjustments, KeepsAdjustments

LEMMA UnmatchAdjusts ==
  ASSUME TypeInv, NEW t \in Transactions, Unmatch(t)
  PROVE  KeepsAdjustments
<1> SUFFICES ASSUME NEW r \in Receivables
             PROVE  /\ receivables'[r].adjustmentAmount = receivables[r].adjustmentAmount
                    /\ ~ Exists(receivables'[r]) => ~ Exists(receivables[r])
  BY DEF KeepsAdjustments
<1>1. /\ receivables[r] \in Receivable /\ IsPastDue(r) \in BOOLEAN
      /\ allocations[t][r] \in Nat
  BY DEF TypeInv, TypeOK, IsPastDue
<1> DEFINE back == ReversePaymentDelta(receivables[r], allocations[t][r], IsPastDue(r))
<1>2. back.adjustmentAmount = receivables[r].adjustmentAmount /\ Exists(back)
  BY <1>1, DeltaAdjustments, DeltaTypes
<1>3. receivables'[r] = IF allocations[t][r] > 0 THEN back ELSE receivables[r]
  BY DEF Unmatch, ReverseByTransaction
<1> HIDE DEF back
<1>4. QED BY <1>2, <1>3

LEMMA AdjustmentsKept ==
  ASSUME AdjustmentsInv, KeepsAdjustments, UNCHANGED adjustments
  PROVE  AdjustmentsInv'
BY DEF AdjustmentsInv, KeepsAdjustments

LEMMA InitAdjustments == ReportInit => AdjustmentsInv
BY DEF ReportInit, Init, AdjustmentsInv, NoReceivable, NewReceivable

LEMMA CreateAdjustmentAdjusts ==
  ASSUME TypeInv, AdjustmentsInv, NEW r \in Receivables,
         NEW delta \in AdjustmentDeltas, CreateAdjustment(r, delta)
  PROVE  AdjustmentsInv'
<1>1. /\ receivables \in [Receivables -> Receivable]
      /\ receivables[r] \in Receivable /\ IsPastDue(r) \in BOOLEAN
      /\ receivables[r].adjustmentAmount \in Int
      /\ delta \in Int /\ delta # 0
  BY InputsAssumption DEF TypeInv, TypeOK, IsPastDue, Receivable
<1> DEFINE new == ApplyAdjustmentDelta(receivables[r], delta, IsPastDue(r))
<1>2. /\ new.adjustmentAmount = receivables[r].adjustmentAmount + delta
      /\ Exists(new)
  BY <1>1, DeltaAdjustments, DeltaTypes
<1>3. receivables' = [receivables EXCEPT ![r] = new]
  BY DEF CreateAdjustment, Adjust
<1> HIDE DEF new
<1>4. adjustments' = [adjustments EXCEPT ![r][Type(delta)] = @ + Size(delta)]
  BY DEF CreateAdjustment
<1>5. /\ adjustments' \in [Receivables -> [INCREASE : Nat, DECREASE : Nat]]
      /\ adjustments'[r].INCREASE - adjustments'[r].DECREASE
           = adjustments[r].INCREASE - adjustments[r].DECREASE + delta
      /\ \A q \in Receivables : q # r => adjustments'[q] = adjustments[q]
  <2>1. adjustments \in [Receivables -> [INCREASE : Nat, DECREASE : Nat]]
    BY DEF AdjustmentsInv
  <2>2. CASE delta > 0
    <3>1. adjustments' = [adjustments EXCEPT ![r].INCREASE = @ + delta]
      BY <1>4, <2>2 DEF Type, Size
    <3>2. QED BY <1>1, <2>1, <2>2, <3>1
  <2>3. CASE ~ (delta > 0)
    <3>1. adjustments' = [adjustments EXCEPT ![r].DECREASE = @ + (-delta)]
      BY <1>4, <2>3 DEF Type, Size
    <3>2. -delta \in Nat
      BY <1>1, <2>3
    <3>3. QED BY <1>1, <2>1, <3>1, <3>2
  <2>4. QED BY <2>2, <2>3
<1>6. QED BY <1>1, <1>2, <1>3, <1>5 DEF AdjustmentsInv

LEMMA NextAdjustments ==
  TypeInv /\ AdjustmentsInv /\ [ReportNext]_reportVars => AdjustmentsInv'
<1> SUFFICES ASSUME TypeInv, AdjustmentsInv, [ReportNext]_reportVars
             PROVE  AdjustmentsInv'
  OBVIOUS
<1>0. /\ receivables \in [Receivables -> Receivable]
      /\ \A r \in Receivables : receivables[r] \in Receivable /\ IsPastDue(r) \in BOOLEAN
  BY DEF TypeInv, TypeOK, IsPastDue
<1>1. ASSUME NEW r \in Receivables, NEW delta \in AdjustmentDeltas,
             CreateAdjustment(r, delta)
      PROVE  AdjustmentsInv'
  BY <1>1, CreateAdjustmentAdjusts
<1>2. ASSUME NEW t \in Transactions, NEW amount \in TransferAmounts,
             NEW o \in Orders \union {NoOrder}, Ingest(t, amount, o)
      PROVE  AdjustmentsInv'
  <2>1. CASE IngestMatched(t, amount, o)
    <3>1. o \in Orders /\ amount \in Int /\ AllocateToOrder(t, o, amount)
      BY <2>1, InputsAssumption DEF IngestMatched, Payable
    <3>2. QED BY <1>2, <3>1, AllocateToOrderAdjusts, AdjustmentsKept DEF Ingest
  <2>2. CASE IngestUnmatched(t, amount, o)
    <3>1. KeepsAdjustments
      BY <2>2 DEF IngestUnmatched, KeepsAdjustments
    <3>2. QED BY <1>2, <3>1, AdjustmentsKept DEF Ingest
  <2>3. QED BY <1>2, <2>1, <2>2 DEF Ingest
<1>3. ASSUME NEW r \in Receivables, NEW amount \in FeeAmounts,
             CreateReceivable(r, amount), UNCHANGED adjustments
      PROVE  AdjustmentsInv'
  <2>1. /\ receivables' = [receivables EXCEPT ![r] = NewReceivable(amount)]
        /\ NewReceivable(amount).adjustmentAmount = 0
        /\ receivables[r].adjustmentAmount = 0
    BY <1>3 DEF CreateReceivable, NewReceivable, AdjustmentsInv
  <2>2. QED BY <1>0, <1>3, <2>1 DEF AdjustmentsInv
<1>4. ASSUME NEW r \in Receivables, NEW amount \in DiscountAmounts,
             Discount(r, amount), UNCHANGED adjustments
      PROVE  AdjustmentsInv'
  <2> DEFINE new == ApplyDiscountDelta(receivables[r], amount, IsPastDue(r))
  <2>1. new.adjustmentAmount = receivables[r].adjustmentAmount /\ Exists(new)
    <3>1. amount \in Nat /\ amount \in Int
      BY InputsAssumption
    <3>2. QED BY <1>0, <3>1, DeltaAdjustments, DeltaTypes
  <2>2. receivables' = [receivables EXCEPT ![r] = new]
    BY <1>4 DEF Discount
  <2> HIDE DEF new
  <2>3. KeepsAdjustments
    BY <1>0, <2>1, <2>2 DEF KeepsAdjustments
  <2>4. QED BY <1>4, <2>3, AdjustmentsKept
<1>5. ASSUME NEW t \in Transactions, NEW o \in Orders, Match(t, o),
             UNCHANGED adjustments
      PROVE  AdjustmentsInv'
  <2>1. transactions[t].amount \in Int /\ AllocateToOrder(t, o, transactions[t].amount)
    BY <1>5 DEF Match, TypeInv, TypeOK, Transaction
  <2>2. QED BY <1>5, <2>1, AllocateToOrderAdjusts, AdjustmentsKept
<1>6. ASSUME NEW t \in Transactions, Unmatch(t), UNCHANGED adjustments
      PROVE  AdjustmentsInv'
  BY <1>6, UnmatchAdjusts, AdjustmentsKept
<1>7. ASSUME UNCHANGED <<receivables, adjustments>>
      PROVE  AdjustmentsInv'
  BY <1>7 DEF AdjustmentsInv
<1>8. OtherRequest /\ UNCHANGED <<adjustments, collectedBy, deleted, report>>
        => AdjustmentsInv'
  BY <1>3, <1>4, <1>5, <1>6, <1>7
     DEF OtherRequest, CreateOrder, GetQr, Refund, CancelReceipt
<1>9. UNCHANGED reportVars => AdjustmentsInv'
  BY <1>7 DEF reportVars, vars
<1>10. ReadsOrDeletes => AdjustmentsInv'
  BY <1>7, ReadingLeavesTables DEF vars
<1>11. QED BY <1>1, <1>2, <1>8, <1>9, <1>10 DEF ReportNext, ReadsOrDeletes

LEMMA AdjustmentsInvariance == ReportSpec => []AdjustmentsInv
<1>1. Books => TypeInv
  BY DEF Books
<1>2. QED BY <1>1, BooksInvariance, InitAdjustments, NextAdjustments, PTL DEF ReportSpec

-----------------------------------------------------------------------------
(* The figures of a report, row by row.                                    *)

LEMMA Sizes ==
  /\ NumReceivables \in Nat /\ NumTransactions \in Nat /\ NumSchools \in Nat
  /\ NumDays \in Nat /\ NumCategories \in Nat
BY SizesAssumption, ReportSizesAssumption

(* Two tables added row by row. *)
Plus(f, g, n) == [i \in 1..n |-> f[i] + g[i]]

LEMMA TotalPlus ==
  ASSUME NEW n \in Nat, NEW f \in [1..n -> Int], NEW g \in [1..n -> Int]
  PROVE  /\ Plus(f, g, n) \in [1..n -> Int]
         /\ Total(Plus(f, g, n), n) = Total(f, n) + Total(g, n)
         /\ Total(f, n) \in Int
<1>1. PICK h : h = Plus(f, g, n)
  OBVIOUS
<1>2. h \in [1..n -> Int] /\ \A i \in 1..n : h[i] = f[i] + g[i]
  BY <1>1 DEF Plus
<1>3. Total(h, n) = Total(f, n) + Total(g, n)
  BY <1>2, TotalAddition
<1>4. QED BY <1>1, <1>2, <1>3, TotalType

(* A column of the receivables, 0 where the row is not among rows.         *)
Column(rows, column) ==
  [r \in Receivables |-> IF r \in rows THEN receivables[r][column] ELSE 0]

AdjustedColumn(rows, type) ==
  [r \in Receivables |-> IF r \in rows THEN adjustments[r][type] ELSE 0]

LEMMA ColumnTypes ==
  ASSUME TypeInv, NEW rows
  PROVE  /\ Column(rows, "originalAmount") \in [1..NumReceivables -> Int]
         /\ Column(rows, "discountAmount") \in [1..NumReceivables -> Int]
         /\ Column(rows, "amountDue") \in [1..NumReceivables -> Int]
         /\ Column(rows, "amountPaid") \in [1..NumReceivables -> Int]
         /\ Column(rows, "amountOutstanding") \in [1..NumReceivables -> Int]
         /\ \A r \in Receivables : Column(rows, "amountPaid")[r] >= 0
<1>1. \A r \in Receivables : receivables[r] \in Receivable
  BY DEF TypeInv, TypeOK
<1>2. QED BY <1>1 DEF Column, Receivable, Receivables

LEMMA SumIsTotal ==
  ASSUME NEW rows, NEW column
  PROVE  SumOf(rows, column) = Total(Column(rows, column), NumReceivables)
BY DEF SumOf, Column

LEMMA FiguresFollow ==
  ASSUME TypeInv, RowsInv, AdjustmentsInv, NEW rows
  PROVE  /\ SumOf(rows, "amountDue")
              = SumOf(rows, "originalAmount") - SumOf(rows, "discountAmount")
                  + Adjusted(rows, "INCREASE") - Adjusted(rows, "DECREASE")
         /\ SumOf(rows, "amountDue")
              = SumOf(rows, "amountPaid") + SumOf(rows, "amountOutstanding")
<1> DEFINE original == Column(rows, "originalAmount")
           discount == Column(rows, "discountAmount")
           due == Column(rows, "amountDue")
           paid == Column(rows, "amountPaid")
           owed == Column(rows, "amountOutstanding")
           inc == AdjustedColumn(rows, "INCREASE")
           dec == AdjustedColumn(rows, "DECREASE")
<1>0. PICK n \in Nat : n = NumReceivables
  BY Sizes
<1>1. /\ original \in [1..n -> Int] /\ discount \in [1..n -> Int]
      /\ due \in [1..n -> Int] /\ paid \in [1..n -> Int] /\ owed \in [1..n -> Int]
  BY <1>0, ColumnTypes
<1>2. inc \in [1..n -> Int] /\ dec \in [1..n -> Int]
  BY <1>0 DEF AdjustmentsInv, AdjustedColumn, Receivables
<1>3. ASSUME NEW r \in 1..n
      PROVE  /\ due[r] = original[r] - discount[r] + inc[r] - dec[r]
             /\ due[r] = paid[r] + owed[r]
  <2>0. r \in Receivables
    BY <1>0 DEF Receivables
  <2>1. /\ receivables[r] \in Receivable /\ Sound(receivables[r])
        /\ receivables[r].adjustmentAmount
             = adjustments[r].INCREASE - adjustments[r].DECREASE
        /\ adjustments[r] \in [INCREASE : Nat, DECREASE : Nat]
    BY <2>0 DEF TypeInv, TypeOK, RowsInv, AdjustmentsInv
  <2>2. CASE r \in rows
    <3>1. /\ original[r] = receivables[r].originalAmount
          /\ discount[r] = receivables[r].discountAmount
          /\ due[r] = receivables[r].amountDue
          /\ paid[r] = receivables[r].amountPaid
          /\ owed[r] = receivables[r].amountOutstanding
          /\ inc[r] = adjustments[r].INCREASE
          /\ dec[r] = adjustments[r].DECREASE
      BY <2>0, <2>2 DEF Column, AdjustedColumn
    <3>2. QED BY <2>1, <3>1 DEF Sound, Receivable
  <2>3. CASE r \notin rows
    <3>1. /\ original[r] = 0 /\ discount[r] = 0 /\ due[r] = 0 /\ paid[r] = 0
          /\ owed[r] = 0 /\ inc[r] = 0 /\ dec[r] = 0
      BY <2>0, <2>3 DEF Column, AdjustedColumn
    <3>2. QED BY <3>1
  <2>4. QED BY <2>2, <2>3
<1>4. /\ SumOf(rows, "originalAmount") = Total(original, n)
      /\ SumOf(rows, "discountAmount") = Total(discount, n)
      /\ SumOf(rows, "amountDue") = Total(due, n)
      /\ SumOf(rows, "amountPaid") = Total(paid, n)
      /\ SumOf(rows, "amountOutstanding") = Total(owed, n)
      /\ Adjusted(rows, "INCREASE") = Total(inc, n)
      /\ Adjusted(rows, "DECREASE") = Total(dec, n)
  BY <1>0, SumIsTotal DEF Adjusted, AdjustedColumn
<1> HIDE DEF original, discount, due, paid, owed, inc, dec
<1>5. Plus(Plus(due, discount, n), dec, n) = Plus(original, inc, n)
  <2>1. ASSUME NEW r \in 1..n
        PROVE  due[r] + discount[r] + dec[r] = original[r] + inc[r]
    BY <1>1, <1>2, <1>3
  <2>2. QED BY <2>1 DEF Plus
<1>6. due = Plus(paid, owed, n)
  <2>1. \A r \in 1..n : due[r] = paid[r] + owed[r]
    BY <1>3
  <2>2. QED BY <1>1, <2>1 DEF Plus
<1>7. /\ Plus(due, discount, n) \in [1..n -> Int]
      /\ Total(Plus(due, discount, n), n) = Total(due, n) + Total(discount, n)
      /\ Total(due, n) \in Int
  BY <1>1, TotalPlus
<1>8. /\ Total(Plus(Plus(due, discount, n), dec, n), n)
           = Total(Plus(due, discount, n), n) + Total(dec, n)
  BY <1>2, <1>7, TotalPlus
<1>9. /\ Total(Plus(original, inc, n), n) = Total(original, n) + Total(inc, n)
      /\ Total(original, n) \in Int
  BY <1>1, <1>2, TotalPlus
<1>10. Total(due, n) = Total(paid, n) + Total(owed, n)
  BY <1>1, <1>6, TotalPlus
<1>11. Total(discount, n) \in Int /\ Total(inc, n) \in Int /\ Total(dec, n) \in Int
  BY <1>1, <1>2, TotalType
<1>12. Total(due, n) = Total(original, n) - Total(discount, n)
                         + Total(inc, n) - Total(dec, n)
  <2>1. Total(due, n) + Total(discount, n) + Total(dec, n)
          = Total(original, n) + Total(inc, n)
    BY <1>5, <1>7, <1>8, <1>9
  <2>2. PICK a \in Int, b \in Int, c \in Int, d \in Int, e \in Int :
          /\ a = Total(original, n) /\ b = Total(discount, n) /\ c = Total(inc, n)
          /\ d = Total(dec, n) /\ e = Total(due, n)
    BY <1>7, <1>9, <1>11
  <2>3. e + b + d = a + c
    BY <2>1, <2>2
  <2>4. e = a - b + c - d
    BY <2>3
  <2>5. QED BY <2>2, <2>4
<1>13. QED BY <1>4, <1>10, <1>12

(* The three counts of a report leave out no receivable and count none     *)
(* twice: a receivable is PAID, PARTIALLY_PAID, or one of the two that     *)
(* count as unpaid.                                                        *)
LEMMA CountsAreAll ==
  ASSUME TypeInv, RowsInv, NEW rows \in SUBSET Receivables,
         \A r \in rows : Exists(receivables[r])
  PROVE  Cardinality(rows)
           = Count(rows, {"PAID"}) + Count(rows, UnpaidStatuses)
               + Count(rows, {"PARTIALLY_PAID"})
<1> DEFINE paid == {r \in rows : receivables[r].status \in {"PAID"}}
           unpaid == {r \in rows : receivables[r].status \in UnpaidStatuses}
           partial == {r \in rows : receivables[r].status \in {"PARTIALLY_PAID"}}
<1>1. IsFiniteSet(rows)
  <2>1. IsFiniteSet(1..NumReceivables)
    BY Sizes, FS_Interval
  <2>2. QED BY <2>1, FS_Subset DEF Receivables
<1>2. IsFiniteSet(paid) /\ IsFiniteSet(unpaid) /\ IsFiniteSet(partial)
  <2>1. paid \subseteq rows /\ unpaid \subseteq rows /\ partial \subseteq rows
    OBVIOUS
  <2> HIDE DEF paid, unpaid, partial
  <2>2. QED BY <1>1, <2>1, FS_Subset
<1>3. /\ rows = (paid \union unpaid) \union partial
      /\ paid \intersect unpaid = {}
      /\ (paid \union unpaid) \intersect partial = {}
  <2>1. \A r \in rows : receivables[r].status
                          \in {"PAID", "PARTIALLY_PAID", "UNPAID", "OVERDUE"}
    BY DEF TypeInv, TypeOK, Receivable, ReceivableStatus, RowsInv, Sound, Exists
  <2>2. QED BY <2>1 DEF UnpaidStatuses
<1>4. /\ Count(rows, {"PAID"}) = Cardinality(paid)
      /\ Count(rows, UnpaidStatuses) = Cardinality(unpaid)
      /\ Count(rows, {"PARTIALLY_PAID"}) = Cardinality(partial)
  BY DEF Count
<1> HIDE DEF paid, unpaid, partial
<1>5. /\ Cardinality(paid) \in Nat /\ Cardinality(unpaid) \in Nat
      /\ Cardinality(partial) \in Nat /\ Cardinality({}) = 0
  BY <1>2, FS_CardinalityType, FS_EmptySet
<1>6. /\ IsFiniteSet(paid \union unpaid)
      /\ Cardinality(paid \union unpaid)
           = Cardinality(paid) + Cardinality(unpaid) - Cardinality({})
  BY <1>2, <1>3, FS_Union
<1>7. Cardinality((paid \union unpaid) \union partial)
        = Cardinality(paid \union unpaid) + Cardinality(partial) - Cardinality({})
  BY <1>2, <1>3, <1>6, FS_Union
<1>8. QED BY <1>3, <1>4, <1>5, <1>6, <1>7

(* The sheet of a filter lists every row where there is room for all, and  *)
(* else as many of the latest as it may have.                              *)
Latest(rows) == {r \in rows : Cardinality({q \in rows : q > r}) < ExportLimit}

LEMMA LatestRows ==
  ASSUME NEW rows \in SUBSET Receivables
  PROVE  /\ Cardinality(rows) <= ExportLimit => Latest(rows) = rows
         /\ Cardinality(rows) > ExportLimit => Cardinality(Latest(rows)) = ExportLimit
<1> DEFINE later(r) == {q \in rows : q > r}
<1>0. PICK n \in Nat, limit \in Nat : n = NumReceivables /\ limit = ExportLimit
  BY Sizes, ReportSizesAssumption
<1>1. PICK listed : listed = Latest(rows)
  OBVIOUS
<1>2. /\ rows \subseteq 1..n /\ IsFiniteSet(rows) /\ Cardinality(rows) \in Nat
      /\ \A r \in rows : r \in Nat
  <2>1. IsFiniteSet(1..n) /\ rows \subseteq 1..n
    BY <1>0, FS_Interval DEF Receivables
  <2>2. IsFiniteSet(rows) /\ Cardinality(rows) \in Nat
    BY <2>1, FS_Subset, FS_CardinalityType
  <2>3. \A r \in rows : r \in Nat
    BY <2>1
  <2>4. QED BY <2>1, <2>2, <2>3
<1>3. ASSUME NEW r \in rows
      PROVE  /\ IsFiniteSet(later(r)) /\ Cardinality(later(r)) \in Nat
             /\ Cardinality(later(r)) + 1 <= Cardinality(rows)
  <2>1. /\ later(r) \subseteq rows /\ r \notin later(r)
        /\ later(r) \union {r} \subseteq rows
    BY <1>2
  <2> HIDE DEF later
  <2>2. IsFiniteSet(later(r)) /\ Cardinality(later(r)) \in Nat
    BY <1>2, <2>1, FS_Subset, FS_CardinalityType
  <2>3. Cardinality(later(r) \union {r}) = Cardinality(later(r)) + 1
    BY <2>1, <2>2, FS_AddElement
  <2>4. Cardinality(later(r) \union {r}) <= Cardinality(rows)
    BY <1>2, <2>1, FS_Subset
  <2>5. QED BY <2>2, <2>3, <2>4
<1>4. /\ listed \subseteq rows
      /\ \A r \in rows : r \in listed <=> Cardinality(later(r)) < limit
  BY <1>0, <1>1 DEF Latest
<1> HIDE DEF later
<1>5. CASE Cardinality(rows) <= limit
  <2>1. ASSUME NEW r \in rows PROVE r \in listed
    BY <1>2, <1>3, <1>4, <1>5
  <2>2. listed = rows
    BY <1>4, <2>1
  <2>3. QED BY <1>0, <1>1, <1>2, <1>5, <2>2
<1>6. CASE Cardinality(rows) > limit
  <2>1. IsFiniteSet(listed) /\ Cardinality(listed) \in Nat
    BY <1>2, <1>4, FS_Subset, FS_CardinalityType
  <2>2. Cardinality(listed) <= limit
    <3>1. CASE listed = {}
      <4>1. Cardinality({}) = 0
        BY FS_EmptySet
      <4>2. QED BY <3>1, <4>1
    <3>2. CASE listed # {}
      <4>1. PICK m \in listed : \A q \in listed : m <= q
        <5>1. listed \in SUBSET Nat
          BY <1>2, <1>4
        <5>2. QED BY <3>2, <5>1, LeastNumber
      <4>2. listed \ {m} \subseteq later(m)
        <5>1. ASSUME NEW q \in listed, q # m PROVE q > m
          <6>1. q \in Nat /\ m \in Nat /\ m <= q
            BY <1>2, <1>4, <4>1
          <6>2. QED BY <5>1, <6>1
        <5>2. QED BY <1>4, <5>1 DEF later
      <4>3. m \in rows /\ Cardinality(later(m)) < limit /\ m \in listed
        BY <1>4, <4>1
      <4>4. Cardinality(listed \ {m}) = Cardinality(listed) - 1
        BY <2>1, <4>3, FS_RemoveElement
      <4>5. Cardinality(listed \ {m}) <= Cardinality(later(m))
        BY <1>3, <4>2, <4>3, FS_Subset
      <4>6. QED BY <1>3, <2>1, <4>3, <4>4, <4>5
    <3>3. QED BY <3>1, <3>2
  <2>3. PICK u \in rows \ listed : \A q \in rows \ listed : q <= u
    <3>1. rows \ listed # {}
      <4>1. ~ (Cardinality(listed) > limit)
        BY <2>1, <2>2
      <4>2. rows # listed
        BY <1>6, <4>1
      <4>3. QED BY <1>4, <4>2
    <3>2. PICK from : from = {n - q : q \in rows \ listed}
      OBVIOUS
    <3>3. from \in SUBSET Nat /\ from # {}
      <4>1. \A q \in rows \ listed : n - q \in Nat
        BY <1>2
      <4>2. QED BY <3>1, <3>2, <4>1
    <3>4. PICK d \in from : \A e \in from : d <= e
      BY <3>3, LeastNumber
    <3>5. PICK u \in rows \ listed : d = n - u
      BY <3>2, <3>4
    <3>6. ASSUME NEW q \in rows \ listed PROVE q <= u
      <4>1. n - u <= n - q /\ q \in Nat /\ u \in Nat
        BY <1>2, <3>2, <3>4, <3>5
      <4>2. QED BY <4>1
    <3>7. QED BY <3>5, <3>6
  <2>4. later(u) \subseteq listed
    <3>1. ASSUME NEW q \in later(u), q \notin listed PROVE FALSE
      <4>1. q \in rows /\ q > u /\ q <= u /\ q \in Nat /\ u \in Nat
        BY <1>2, <2>3, <3>1 DEF later
      <4>2. QED BY <4>1
    <3>2. QED BY <3>1
  <2>5. Cardinality(later(u)) \in Nat /\ Cardinality(later(u)) >= limit
    BY <1>0, <1>3, <1>4, <2>3
  <2>6. Cardinality(later(u)) <= Cardinality(listed)
    BY <2>1, <2>4, FS_Subset
  <2>7. PICK a \in Nat, b \in Nat, c \in Nat :
          /\ a = Cardinality(listed) /\ b = Cardinality(later(u))
          /\ c = Cardinality(rows)
    BY <1>2, <2>1, <2>5
  <2>8. a = limit /\ ~ (c <= limit)
    BY <1>6, <2>2, <2>5, <2>6, <2>7
  <2>9. QED BY <1>0, <1>1, <2>7, <2>8
<1>7. QED BY <1>0, <1>2, <1>5, <1>6

(* A user who asks for no school, or for one to access, is answered.       *)
LEMMA Responds ==
  ASSUME NEW user \in Users, NEW school, NEW view,
         school = Nothing \/ CanAccessSchool(user, school)
  PROVE  /\ Respond(ResolveSchoolFilter(user, school), view) = view
         /\ school # Nothing => ResolveSchoolFilter(user, school) = Only({school})
<1>2. /\ Unrestricted # SchoolOutOfScope
      /\ \A ids : Only(ids) # SchoolOutOfScope
  BY DEF Unrestricted, Only, SchoolOutOfScope
<1>3. GetAccessibleSchoolIds(user) # SchoolOutOfScope
  BY <1>2 DEF GetAccessibleSchoolIds
<1>4. CASE school = Nothing
  <2>1. ResolveSchoolFilter(user, school) = GetAccessibleSchoolIds(user)
    BY <1>4 DEF ResolveSchoolFilter
  <2>2. QED BY <1>3, <1>4, <2>1 DEF Respond
<1>5. CASE school # Nothing
  <2>1. ResolveSchoolFilter(user, school) = Only({school})
    BY <1>5 DEF ResolveSchoolFilter
  <2>2. QED BY <1>2, <2>1 DEF Respond
<1>6. QED BY <1>4, <1>5

-----------------------------------------------------------------------------
(* A report others overlap with.                                           *)

(* What the adjustments of the rows of a filter come to, row by row. *)
NetRow(scope, filter, r) ==
  IF r \in ApplyFilters(scope, filter)
  THEN adjustments[r].INCREASE - adjustments[r].DECREASE ELSE 0

Net(scope, filter) ==
  Total([r \in Receivables |-> NetRow(scope, filter, r)], NumReceivables)

LEMMA NetType ==
  ASSUME AdjustmentsInv, NEW scope, NEW filter
  PROVE  /\ [r \in Receivables |-> NetRow(scope, filter, r)]
              \in [1..NumReceivables -> Int]
         /\ Net(scope, filter) \in Int
<1>1. \A r \in Receivables : NetRow(scope, filter, r) \in Int
  <2>1. \A r \in Receivables : adjustments[r].INCREASE \in Nat
                               /\ adjustments[r].DECREASE \in Nat
    BY DEF AdjustmentsInv
  <2>2. QED BY <2>1 DEF NetRow
<1>2. [r \in Receivables |-> NetRow(scope, filter, r)] \in [1..NumReceivables -> Int]
  BY <1>1 DEF Receivables
<1>3. QED BY <1>2, Sizes, TotalType DEF Net

LEMMA AdjustedIsNet ==
  ASSUME AdjustmentsInv, NEW scope, NEW filter
  PROVE  /\ AdjustmentTotals(scope, filter).increase \in Int
         /\ AdjustmentTotals(scope, filter).decrease \in Int
         /\ Net(scope, filter) = AdjustmentTotals(scope, filter).increase
                                   - AdjustmentTotals(scope, filter).decrease
<1>0. PICK n \in Nat : n = NumReceivables
  BY Sizes
<1>1. PICK rows : rows = ApplyFilters(scope, filter)
  OBVIOUS
<1>2. PICK inc, dec, net :
        /\ inc = AdjustedColumn(rows, "INCREASE")
        /\ dec = AdjustedColumn(rows, "DECREASE")
        /\ net = [r \in Receivables |-> NetRow(scope, filter, r)]
  OBVIOUS
<1>3. inc \in [1..n -> Int] /\ dec \in [1..n -> Int] /\ net \in [1..n -> Int]
  <2>1. inc \in [1..n -> Int] /\ dec \in [1..n -> Int]
    BY <1>0, <1>2 DEF AdjustmentsInv, AdjustedColumn, Receivables
  <2>2. QED BY <1>0, <1>2, <2>1, NetType
<1>4. ASSUME NEW r \in 1..n PROVE inc[r] = net[r] + dec[r]
  <2>1. /\ r \in Receivables
        /\ adjustments[r].INCREASE \in Nat /\ adjustments[r].DECREASE \in Nat
    BY <1>0 DEF Receivables, AdjustmentsInv
  <2>2. /\ inc[r] = IF r \in rows THEN adjustments[r].INCREASE ELSE 0
        /\ dec[r] = IF r \in rows THEN adjustments[r].DECREASE ELSE 0
        /\ net[r] = NetRow(scope, filter, r)
    BY <1>2, <2>1 DEF AdjustedColumn
  <2>3. QED BY <1>1, <2>1, <2>2 DEF NetRow
<1>5. Total(inc, n) = Total(net, n) + Total(dec, n)
  BY <1>3, <1>4, TotalAddition
<1>6. Total(inc, n) \in Int /\ Total(net, n) \in Int /\ Total(dec, n) \in Int
  BY <1>3, TotalType
<1>7. /\ AdjustmentTotals(scope, filter).increase = Total(inc, n)
      /\ AdjustmentTotals(scope, filter).decrease = Total(dec, n)
      /\ Net(scope, filter) = Total(net, n)
  BY <1>0, <1>1, <1>2 DEF AdjustmentTotals, Adjusted, AdjustedColumn, Net
<1>8. QED BY <1>5, <1>6, <1>7

(* What the first statement has read follows, with the adjustments of its  *)
(* rows as they are now less those made to them since.                     *)
Read(totals, net, since) ==
  /\ totals.totalDue = totals.totalReceivable - totals.totalDiscount + net - since
  /\ totals.totalDue = totals.totalPaid + totals.totalOutstanding

ReadTypes(totals) ==
  /\ totals.totalDue \in Int /\ totals.totalReceivable \in Int
  /\ totals.totalDiscount \in Int

UnderWay ==
  report.running =>
    /\ report.since \in Int /\ ReadTypes(report.totals)
    /\ report.filter.status = "NONE" =>
         Read(report.totals, Net(report.scope, report.filter), report.since)

(* The totals of a filter, of one state. *)
LEMMA TotalsFollow ==
  ASSUME TypeInv, RowsInv, AdjustmentsInv, NEW scope, NEW filter
  PROVE  LET totals == ReportTotals(scope, filter)
         IN  /\ ReadTypes(totals)
             /\ Read(totals, Net(scope, filter), 0)
             /\ Follows(totals, AdjustmentTotals(scope, filter), 0)
<1>1. PICK rows : rows = ApplyFilters(scope, filter)
  OBVIOUS
<1>2. PICK totals, adjusted, net :
        /\ totals = ReportTotals(scope, filter)
        /\ adjusted = AdjustmentTotals(scope, filter)
        /\ net = Net(scope, filter)
  OBVIOUS
<1>3. /\ totals.totalReceivable = SumOf(rows, "originalAmount")
      /\ totals.totalDiscount = SumOf(rows, "discountAmount")
      /\ totals.totalDue = SumOf(rows, "amountDue")
      /\ totals.totalPaid = SumOf(rows, "amountPaid")
      /\ totals.totalOutstanding = SumOf(rows, "amountOutstanding")
  BY <1>1, <1>2 DEF ReportTotals
<1>4. /\ adjusted.increase = Adjusted(rows, "INCREASE")
      /\ adjusted.decrease = Adjusted(rows, "DECREASE")
  BY <1>1, <1>2 DEF AdjustmentTotals
<1>5. /\ SumOf(rows, "originalAmount") \in Int
      /\ SumOf(rows, "discountAmount") \in Int /\ SumOf(rows, "amountDue") \in Int
  BY Sizes, ColumnTypes, SumIsTotal, TotalType
<1>6. /\ totals.totalDue = totals.totalReceivable - totals.totalDiscount
           + adjusted.increase - adjusted.decrease
      /\ totals.totalDue = totals.totalPaid + totals.totalOutstanding
  BY <1>3, <1>4, FiguresFollow
<1>7. /\ adjusted.increase \in Int /\ adjusted.decrease \in Int
      /\ net = adjusted.increase - adjusted.decrease /\ net \in Int
  BY <1>2, AdjustedIsNet, NetType
<1>8. PICK d \in Int, o \in Int, c \in Int, i \in Int, e \in Int :
        /\ d = totals.totalDue /\ o = totals.totalReceivable
        /\ c = totals.totalDiscount
        /\ i = adjusted.increase /\ e = adjusted.decrease
  BY <1>3, <1>5, <1>7
<1>9. ReadTypes(totals)
  BY <1>8 DEF ReadTypes
<1>10. d = o - c + i - e /\ net = i - e
  BY <1>6, <1>7, <1>8
<1>11. d = o - c + net - 0 /\ d = o - c + i - e - 0
  BY <1>10
<1>12. Read(totals, net, 0) /\ Follows(totals, adjusted, 0)
  BY <1>6, <1>8, <1>11 DEF Read, Follows
<1>13. QED BY <1>2, <1>9, <1>12

(* A step that leaves the report and the net of each row alone.            *)
LEMMA UnderWayKept ==
  ASSUME UnderWay, UNCHANGED report,
         \A scope, filter : filter.status = "NONE" =>
           \A r \in Receivables : NetRow(scope, filter, r)' = NetRow(scope, filter, r)
  PROVE  UnderWay'
<1>1. PICK scope, filter : scope = report.scope /\ filter = report.filter
  OBVIOUS
<1>2. CASE filter.status = "NONE"
  <2>1. [r \in Receivables |-> NetRow(scope, filter, r)']
          = [r \in Receivables |-> NetRow(scope, filter, r)]
    BY <1>2
  <2>2. Net(scope, filter)' = Net(scope, filter)
    BY <2>1 DEF Net
  <2>3. Net(report.scope, report.filter)' = Net(scope, filter)'
    BY <1>1 DEF Net, NetRow, ApplyFilters
  <2>4. QED BY <1>1, <2>2, <2>3 DEF UnderWay
<1>3. CASE filter.status # "NONE"
  BY <1>1, <1>3 DEF UnderWay
<1>4. QED BY <1>2, <1>3

(* A step that leaves the adjustments alone: a row that is new to a filter *)
(* has none.                                                               *)
LEMMA NetRowsKept ==
  ASSUME AdjustmentsInv, AdjustmentsInv', UNCHANGED adjustments,
         NEW scope, NEW filter, filter.status = "NONE", NEW r \in Receivables
  PROVE  NetRow(scope, filter, r)' = NetRow(scope, filter, r)
<1> DEFINE net == adjustments[r].INCREASE - adjustments[r].DECREASE
           asked == /\ ApplySchoolScope(scope, SchoolOfReceivable(r))
                    /\ filter.school \in {Nothing, SchoolOfReceivable(r)}
                    /\ filter.category \in {Nothing, CategoryOf[r]}
                    /\ filter.class # Nothing =>
                         filter.class \in ClassesOf[StudentOf[r]]
<1>1. /\ ~ Exists(receivables[r]) => net = 0
      /\ ~ Exists(receivables'[r]) => net = 0
  BY DEF AdjustmentsInv
<1>2. /\ r \in ApplyFilters(scope, filter) <=> Exists(receivables[r]) /\ asked
      /\ (r \in ApplyFilters(scope, filter))' <=> Exists(receivables'[r]) /\ asked
  BY DEF ApplyFilters, ApplySchoolScope, SchoolOfReceivable
<1>3. NetRow(scope, filter, r)
        = IF Exists(receivables[r]) /\ asked THEN net ELSE 0
  BY <1>2 DEF NetRow
<1>4. NetRow(scope, filter, r)'
        = IF Exists(receivables'[r]) /\ asked THEN net ELSE 0
  BY <1>2 DEF NetRow
<1> HIDE DEF net, asked
<1>5. QED BY <1>1, <1>3, <1>4

LEMMA UnadjustedUnderWay ==
  ASSUME UnderWay, AdjustmentsInv, AdjustmentsInv', UNCHANGED <<adjustments, report>>
  PROVE  UnderWay'
BY NetRowsKept, UnderWayKept

(* The rows of a filter, and the net of each, after an adjustment.         *)
LEMMA AdjustmentNet ==
  ASSUME TypeInv, AdjustmentsInv, AdjustmentsInv', NEW r \in Receivables,
         NEW delta \in AdjustmentDeltas, CreateAdjustment(r, delta),
         NEW scope, NEW filter, filter.status = "NONE"
  PROVE  Net(scope, filter)' = Net(scope, filter)
           + (IF r \in ApplyFilters(scope, filter) THEN delta ELSE 0)
<1>1. /\ receivables \in [Receivables -> Receivable]
      /\ receivables[r] \in Receivable /\ IsPastDue(r) \in BOOLEAN
      /\ delta \in Int /\ delta # 0
      /\ adjustments \in [Receivables -> [INCREASE : Nat, DECREASE : Nat]]
  BY InputsAssumption DEF TypeInv, TypeOK, IsPastDue, AdjustmentsInv
<1>2. /\ receivables' = [receivables EXCEPT
           ![r] = ApplyAdjustmentDelta(receivables[r], delta, IsPastDue(r))]
      /\ Mutable(receivables[r])
      /\ adjustments' = [adjustments EXCEPT ![r][Type(delta)] = @ + Size(delta)]
  BY DEF CreateAdjustment, Adjust
<1>3. \A q \in Receivables :
        Exists(receivables'[q]) <=> Exists(receivables[q])
  <2>1. Exists(ApplyAdjustmentDelta(receivables[r], delta, IsPastDue(r)))
    BY <1>1, DeltaTypes
  <2>2. Exists(receivables[r])
    BY <1>2 DEF Mutable, Exists
  <2> DEFINE new == ApplyAdjustmentDelta(receivables[r], delta, IsPastDue(r))
  <2> HIDE DEF new
  <2>3. receivables' = [receivables EXCEPT ![r] = new] /\ Exists(new)
    BY <1>2, <2>1 DEF new
  <2>4. QED BY <1>1, <2>2, <2>3
<1>4. /\ adjustments'[r].INCREASE - adjustments'[r].DECREASE
           = adjustments[r].INCREASE - adjustments[r].DECREASE + delta
      /\ \A q \in Receivables : q # r => adjustments'[q] = adjustments[q]
  <2>1. CASE delta > 0
    <3>1. adjustments' = [adjustments EXCEPT ![r].INCREASE = @ + delta]
      BY <1>2, <2>1 DEF Type, Size
    <3>2. QED BY <1>1, <2>1, <3>1
  <2>2. CASE ~ (delta > 0)
    <3>1. adjustments' = [adjustments EXCEPT ![r].DECREASE = @ + (-delta)]
      BY <1>2, <2>2 DEF Type, Size
    <3>2. -delta \in Nat
      BY <1>1, <2>2
    <3>3. QED BY <1>1, <2>2, <3>1, <3>2
  <2>3. QED BY <2>1, <2>2
<1>5. PICK rows : rows = ApplyFilters(scope, filter)
  OBVIOUS
<1>6. \A q \in Receivables : (q \in ApplyFilters(scope, filter))' <=> q \in rows
  BY <1>3, <1>5 DEF ApplyFilters, ApplySchoolScope, SchoolOfReceivable
<1>7. PICK before, after :
        /\ before = [q \in Receivables |-> NetRow(scope, filter, q)]
        /\ after = [q \in Receivables |-> NetRow(scope, filter, q)']
  OBVIOUS
<1>8. PICK n \in Nat : n = NumReceivables
  BY Sizes
<1>9. before \in [1..n -> Int] /\ after \in [1..n -> Int]
  <2>1. before \in [1..n -> Int]
    BY <1>7, <1>8, NetType
  <2>2. \A q \in Receivables : NetRow(scope, filter, q)' \in Int
    <3>1. \A q \in Receivables : /\ adjustments'[q].INCREASE \in Nat
                                 /\ adjustments'[q].DECREASE \in Nat
      BY DEF AdjustmentsInv
    <3>2. QED BY <3>1 DEF NetRow
  <2>3. QED BY <1>7, <1>8, <2>1, <2>2 DEF Receivables
<1>10. r \in 1..n /\ \A q \in 1..n : q # r => after[q] = before[q]
  <2>1. \A q \in Receivables : q # r =>
          NetRow(scope, filter, q)' = NetRow(scope, filter, q)
    BY <1>4, <1>5, <1>6 DEF NetRow
  <2>2. QED BY <1>7, <1>8, <2>1 DEF Receivables
<1>11. after[r] = before[r] + (IF r \in rows THEN delta ELSE 0)
  <2>1. /\ adjustments[r].INCREASE \in Nat /\ adjustments[r].DECREASE \in Nat
        /\ adjustments'[r].INCREASE \in Nat /\ adjustments'[r].DECREASE \in Nat
    BY DEF AdjustmentsInv
  <2>2. before[r] = IF r \in rows
                    THEN adjustments[r].INCREASE - adjustments[r].DECREASE ELSE 0
    BY <1>5, <1>7 DEF NetRow
  <2>3. after[r] = IF r \in rows
                   THEN adjustments'[r].INCREASE - adjustments'[r].DECREASE ELSE 0
    BY <1>6, <1>7 DEF NetRow
  <2>4. QED BY <1>1, <1>4, <2>1, <2>2, <2>3
<1>12. Total(after, n) = Total(before, n) + after[r] - before[r]
  BY <1>9, <1>10, TotalUpdate
<1>13. Net(scope, filter) = Total(before, n) /\ Net(scope, filter)' = Total(after, n)
  BY <1>7, <1>8 DEF Net
<1>14. Total(before, n) \in Int /\ before[r] \in Int
  BY <1>9, <1>10, TotalType
<1>15. QED BY <1>1, <1>5, <1>11, <1>12, <1>13, <1>14

LEMMA AdjustmentUnderWay ==
  ASSUME TypeInv, UnderWay, AdjustmentsInv, AdjustmentsInv', NEW r \in Receivables,
         NEW delta \in AdjustmentDeltas, CreateAdjustment(r, delta)
  PROVE  UnderWay'
<1>0. delta \in Int
  BY InputsAssumption
<1>1. report' = AdjustedSince(r, delta)
  BY DEF CreateAdjustment
<1>2. CASE ~ report.running
  BY <1>1, <1>2 DEF AdjustedSince, UnderWay
<1>3. CASE report.running
  <2>1. PICK scope, filter, totals, since, more :
          /\ scope = report.scope /\ filter = report.filter
          /\ totals = report.totals /\ since = report.since
          /\ more = IF r \in ApplyFilters(scope, filter) THEN delta ELSE 0
    OBVIOUS
  <2>2. since \in Int /\ more \in Int /\ ReadTypes(totals)
    BY <1>0, <1>3, <2>1 DEF UnderWay
  <2>3. /\ report'.scope = scope /\ report'.filter = filter
        /\ report'.totals = totals /\ report'.since = since + more
    BY <1>1, <1>3, <2>1, <2>2 DEF AdjustedSince
  <2>4. CASE filter.status = "NONE"
    <3>1. Net(scope, filter)' = Net(scope, filter) + more
      BY <2>1, <2>4, AdjustmentNet
    <3>2. Read(totals, Net(scope, filter), since)
      BY <1>3, <2>1, <2>4 DEF UnderWay
    <3>3. Net(scope, filter) \in Int
      BY NetType
    <3>4. Read(totals, Net(scope, filter) + more, since + more)
      BY <2>2, <3>2, <3>3 DEF Read, ReadTypes
    <3>5. Net(report.scope, report.filter)' = Net(scope, filter)'
      BY <2>3 DEF Net, NetRow, ApplyFilters
    <3>6. QED BY <2>2, <2>3, <3>1, <3>4, <3>5 DEF UnderWay, ReadTypes, Read
  <2>5. CASE filter.status # "NONE"
    BY <2>2, <2>3, <2>5 DEF UnderWay, ReadTypes
  <2>6. QED BY <2>4, <2>5
<1>4. QED BY <1>2, <1>3

LEMMA StartUnderWay ==
  ASSUME TypeInv, RowsInv, AdjustmentsInv, NEW asked \in ReportsAsked,
         StartReport(asked)
  PROVE  UnderWay'
<1>1. PICK scope, filter, totals :
        /\ filter = asked.filter
        /\ scope = ResolveSchoolFilter(asked.user, asked.filter.school)
        /\ totals = ReportTotals(scope, filter)
  OBVIOUS
<1>2. /\ report' = [running |-> TRUE, scope |-> scope, filter |-> filter,
                    totals |-> totals, since |-> 0]
      /\ UNCHANGED <<receivables, adjustments>>
  BY <1>1 DEF StartReport, vars
<1>3. ReadTypes(totals) /\ Read(totals, Net(scope, filter), 0)
  BY <1>1, TotalsFollow
<1>4. Net(report.scope, report.filter)' = Net(scope, filter)
  BY <1>2 DEF Net, NetRow, ApplyFilters
<1>5. QED BY <1>2, <1>3, <1>4 DEF UnderWay, ReadTypes, Read

LEMMA NextUnderWay ==
  TypeInv /\ RowsInv /\ AdjustmentsInv /\ AdjustmentsInv' /\ UnderWay
    /\ [ReportNext]_reportVars => UnderWay'
<1> SUFFICES ASSUME TypeInv, RowsInv, AdjustmentsInv, AdjustmentsInv', UnderWay,
                    [ReportNext]_reportVars
             PROVE  UnderWay'
  OBVIOUS
<1>1. ASSUME NEW r \in Receivables, NEW delta \in AdjustmentDeltas,
             CreateAdjustment(r, delta)
      PROVE  UnderWay'
  BY <1>1, AdjustmentUnderWay
<1>2. ASSUME NEW asked \in ReportsAsked, StartReport(asked) PROVE UnderWay'
  BY <1>2, StartUnderWay
<1>3. FinishReport => UnderWay'
  BY DEF FinishReport, NoReport, UnderWay
<1>4. UNCHANGED <<adjustments, report>> => UnderWay'
  BY UnadjustedUnderWay
<1>5. QED BY <1>1, <1>2, <1>3, <1>4
          DEF ReportNext, Ingest, SoftDeleteCategory, reportVars

LEMMA UnderWayInvariance == ReportSpec => []UnderWay
<1>1. ReportInit => UnderWay
  BY DEF ReportInit, NoReport, UnderWay
<1>2. Books => TypeInv /\ RowsInv
  BY DEF Books
<1>3. QED
  BY <1>1, <1>2, BooksInvariance, AdjustmentsInvariance, NextUnderWay, PTL
     DEF ReportSpec

(* A report between whose statements nothing commits follows from its      *)
(* first figure to its last, its counts leave no receivable out, and its   *)
(* sheet is of its rows: all of them, or as many as a sheet may have.  A   *)
(* report that others overlap with is off by the adjustments made to its   *)
(* rows since its first statement, whatever else they charged, discounted, *)
(* paid, matched and unmatched: for every user, filter, table of           *)
(* receivables and limit of the sheets.                                    *)
THEOREM ReportAddsUpAlways == ReportSpec => []ReportAddsUp
<1>1. ASSUME Books, AdjustmentsInv, UnderWay PROVE ReportAddsUp
  <2>0. TypeInv /\ RowsInv
    BY <1>1 DEF Books
  <2>1. ASSUME NEW user \in Users, NEW filter \in Filters
        PROVE  /\ Follows(GetReceivables(user, filter).totals,
                          GetReceivables(user, filter).adjusted, 0)
               /\ SheetIsOf(GetReceivables(user, filter).totals,
                            GetReceivablesSheet(user, filter))
    <3>1. PICK scope, rows, totals, adjusted :
            /\ scope = ResolveSchoolFilter(user, filter.school)
            /\ rows = ApplyFilters(scope, filter)
            /\ totals = ReportTotals(scope, filter)
            /\ adjusted = AdjustmentTotals(scope, filter)
      OBVIOUS
    <3>2. filter.school = Nothing
      BY DEF Filters, NoFilter
    <3>3. /\ GetReceivables(user, filter) = [totals |-> totals, adjusted |-> adjusted]
          /\ GetReceivablesSheet(user, filter) = ExportReceivables(scope, filter)
      <4>1. \A view : Respond(scope, view) = view
        BY <3>1, <3>2, Responds
      <4>2. QED BY <3>1, <4>1 DEF GetReceivables, GetReceivablesSheet
    <3>4. Follows(totals, adjusted, 0)
      BY <1>1, <2>0, <3>1, TotalsFollow
    <3>5. rows \in SUBSET Receivables /\ \A r \in rows : Exists(receivables[r])
      BY <3>1 DEF ApplyFilters
    <3>6. totals.studentsPaid + totals.studentsUnpaid + totals.studentsPartial
            = Cardinality(rows)
      <4>1. Cardinality(rows)
              = Count(rows, {"PAID"}) + Count(rows, UnpaidStatuses)
                  + Count(rows, {"PARTIALLY_PAID"})
        BY <2>0, <3>5, CountsAreAll
      <4>2. /\ totals.studentsPaid = Count(rows, {"PAID"})
            /\ totals.studentsUnpaid = Count(rows, UnpaidStatuses)
            /\ totals.studentsPartial = Count(rows, {"PARTIALLY_PAID"})
        BY <3>1 DEF ReportTotals
      <4>3. QED BY <4>1, <4>2
    <3>7. ExportReceivables(scope, filter) = Latest(rows)
      BY <3>1 DEF ExportReceivables, Latest
    <3>8. totals.totalOutstanding = SumOf(rows, "amountOutstanding")
      BY <3>1 DEF ReportTotals
    <3>9. PICK size \in Nat : size = Cardinality(rows)
      <4>1. IsFiniteSet(1..NumReceivables) /\ rows \subseteq 1..NumReceivables
        BY <3>5, Sizes, FS_Interval DEF Receivables
      <4>2. QED BY <4>1, FS_Subset, FS_CardinalityType
    <3>10. /\ size <= ExportLimit => Latest(rows) = rows
           /\ ~ (size <= ExportLimit) => Cardinality(Latest(rows)) = ExportLimit
      <4>1. ~ (size <= ExportLimit) => size > ExportLimit
        BY <3>9, ReportSizesAssumption
      <4>2. QED BY <3>5, <3>9, <4>1, LatestRows
    <3>11. SheetIsOf(totals, Latest(rows))
      BY <3>6, <3>8, <3>9, <3>10, Zenon DEF SheetIsOf
    <3>12. QED BY <3>3, <3>4, <3>7, <3>11
  <2>2. ASSUME report.running, report.filter.status = "NONE"
        PROVE  Follows(report.totals, AdjustmentTotals(report.scope, report.filter),
                       report.since)
    <3>1. PICK totals, adjusted, net, since :
            /\ totals = report.totals /\ since = report.since
            /\ adjusted = AdjustmentTotals(report.scope, report.filter)
            /\ net = Net(report.scope, report.filter)
      OBVIOUS
    <3>2. Read(totals, net, since) /\ ReadTypes(totals) /\ since \in Int
      BY <1>1, <2>2, <3>1 DEF UnderWay
    <3>3. /\ adjusted.increase \in Int /\ adjusted.decrease \in Int
          /\ net = adjusted.increase - adjusted.decrease
      BY <1>1, <3>1, AdjustedIsNet
    <3>4. Follows(totals, adjusted, since)
      BY <3>2, <3>3 DEF Read, ReadTypes, Follows
    <3>5. QED BY <3>1, <3>4
  <2>3. QED BY <2>1, <2>2 DEF ReportAddsUp
<1>2. QED
  BY <1>1, BooksInvariance, AdjustmentsInvariance, UnderWayInvariance, PTL

-----------------------------------------------------------------------------
(* The school of a transaction.                                            *)

(* A transaction is of a school once it is known, and of that of its order *)
(* when its content named the order.                                       *)
Collected(t) ==
  /\ transactions[t].status # "NONE" \/ reconciliations[t].status # "NONE"
       => collectedBy[t] \in Schools
  /\ reconciliations[t].status = "AUTO_MATCHED"
       => collectedBy[t] = SchoolOfOrder(reconciliations[t].order)

CollectedInv ==
  /\ collectedBy \in [Transactions -> Schools \union {Nothing}]
  /\ \A t \in Transactions : Collected(t)

LEMMA OrderSchool ==
  ASSUME TypeInv, NEW o \in Orders, orders[o].status # "NONE"
  PROVE  /\ orders[o].items[1] \in Receivables
         /\ SchoolOfOrder(o) \in Schools
<1>1. orders[o].items \in Seq(Receivables) /\ orders[o].items # <<>>
  BY DEF TypeInv, TypeOK, OrdersHaveItems, Order
<1>2. orders[o].items[1] \in Receivables
  BY <1>1
<1>3. QED BY <1>2, InputsAssumption, RecordsAssumption
             DEF SchoolOfOrder

(* A step leaves the school of an order that exists alone.                 *)
LEMMA OrderKeepsSchool ==
  ASSUME TypeInv, [Next]_vars, NEW o \in Orders, orders[o].status # "NONE"
  PROVE  SchoolOfOrder(o)' = SchoolOfOrder(o)
<1>1. orders'[o].items = orders[o].items
  BY OrderStep
<1>2. QED BY <1>1 DEF SchoolOfOrder

(* A transaction that a step leaves alone stays with its school. *)
LEMMA CollectedKept ==
  ASSUME TypeInv, ReconciliationAgrees, [Next]_vars, NEW t \in Transactions,
         Collected(t), transactions'[t] = transactions[t],
         reconciliations'[t] = reconciliations[t], collectedBy'[t] = collectedBy[t]
  PROVE  Collected(t)'
<1>1. CASE reconciliations[t].status = "AUTO_MATCHED"
  <2>1. Agrees(t)
    BY AgreementByTransaction
  <2>2. PICK o \in Orders : o = reconciliations[t].order /\ orders[o].status # "NONE"
    BY <1>1, <2>1 DEF Agrees, Matched, TypeInv, TypeOK, Reconciliation
  <2>3. SchoolOfOrder(o)' = SchoolOfOrder(o)
    BY <2>2, OrderKeepsSchool
  <2>4. reconciliations'[t].order = o
    BY <2>2
  <2>5. collectedBy'[t] = SchoolOfOrder(o)
    BY <1>1, <2>2 DEF Collected
  <2>6. collectedBy'[t] \in Schools
    BY <1>1 DEF Collected
  <2>7. SchoolOfOrder(reconciliations[t].order)' = SchoolOfOrder(o)'
    BY <2>4 DEF SchoolOfOrder
  <2>8. QED BY <2>3, <2>5, <2>6, <2>7 DEF Collected
<1>2. CASE reconciliations[t].status # "AUTO_MATCHED"
  BY <1>2 DEF Collected
<1>3. QED BY <1>1, <1>2

LEMMA InitCollected == ReportInit => CollectedInv
BY DEF ReportInit, Init, CollectedInv, Collected

LEMMA IngestCollects ==
  ASSUME TypeInv, [Next]_vars, CollectedInv, NEW t \in Transactions,
         NEW amount \in TransferAmounts, NEW o \in Orders \union {NoOrder},
         Ingest(t, amount, o)
  PROVE  /\ Collected(t)'
         /\ collectedBy' \in [Transactions -> Schools \union {Nothing}]
         /\ \A u \in Transactions : u # t =>
              /\ transactions'[u] = transactions[u]
              /\ reconciliations'[u] = reconciliations[u]
              /\ collectedBy'[u] = collectedBy[u]
<1>0. /\ collectedBy \in [Transactions -> Schools \union {Nothing}]
      /\ transactions \in [Transactions -> Transaction]
      /\ reconciliations \in [Transactions -> Reconciliation]
  BY DEF CollectedInv, TypeInv, TypeOK
<1> DEFINE school == ResolveSchoolId(t, o)
<1>1. school \in Schools
  BY OrderSchool, RecordsAssumption DEF ResolveSchoolId
<1>2. collectedBy' = [collectedBy EXCEPT ![t] = school]
  BY DEF Ingest
<1>3. CASE IngestMatched(t, amount, o)
  <2>1. /\ o \in Orders /\ o # NoOrder /\ orders[o].status # "NONE"
        /\ reconciliations' = [reconciliations EXCEPT
             ![t] = [status |-> "AUTO_MATCHED", order |-> o]]
        /\ transactions' = [transactions EXCEPT
             ![t] = [status |-> "ALLOCATED", amount |-> amount]]
    BY <1>3 DEF IngestMatched, Payable, AllocateToOrder
  <2>2. school = SchoolOfOrder(o) /\ SchoolOfOrder(o)' = SchoolOfOrder(o)
    BY <2>1, OrderKeepsSchool DEF ResolveSchoolId
  <2> HIDE DEF school
  <2>3. /\ collectedBy'[t] = school /\ reconciliations'[t].order = o
    BY <1>0, <1>2, <2>1
  <2>4. SchoolOfOrder(reconciliations[t].order)' = SchoolOfOrder(o)'
    BY <2>3 DEF SchoolOfOrder
  <2>5. Collected(t)'
    BY <1>1, <2>2, <2>3, <2>4 DEF Collected
  <2>6. QED BY <1>0, <1>1, <1>2, <2>1, <2>5
<1>4. CASE IngestUnmatched(t, amount, o)
  <2>1. /\ reconciliations' = [reconciliations EXCEPT
             ![t] = [status |-> "UNMATCHED", order |-> NoOrder]]
        /\ transactions' = [transactions EXCEPT
             ![t] = [status |-> "UNMATCHED", amount |-> amount]]
    BY <1>4 DEF IngestUnmatched
  <2> HIDE DEF school
  <2>2. collectedBy'[t] = school /\ reconciliations'[t].status = "UNMATCHED"
    BY <1>0, <1>2, <2>1
  <2>3. Collected(t)'
    BY <1>1, <2>2 DEF Collected
  <2>4. QED BY <1>0, <1>1, <1>2, <2>1, <2>3
<1>5. QED BY <1>3, <1>4 DEF Ingest

LEMMA NextCollected ==
  TypeInv /\ ReconciliationAgrees /\ CollectedInv /\ [ReportNext]_reportVars
    => CollectedInv'
<1> SUFFICES ASSUME TypeInv, ReconciliationAgrees, CollectedInv,
                    [ReportNext]_reportVars
             PROVE  CollectedInv'
  OBVIOUS
<1>0. /\ [Next]_vars
      /\ collectedBy \in [Transactions -> Schools \union {Nothing}]
      /\ transactions \in [Transactions -> Transaction]
      /\ reconciliations \in [Transactions -> Reconciliation]
      /\ \A t \in Transactions : Collected(t)
  BY EngineStep DEF CollectedInv, Collected, TypeInv, TypeOK
<1>1. SUFFICES /\ collectedBy' \in [Transactions -> Schools \union {Nothing}]
               /\ \A t \in Transactions : Collected(t)'
  BY DEF CollectedInv, Collected
<1>2. ASSUME NEW t \in Transactions, NEW amount \in TransferAmounts,
             NEW o \in Orders \union {NoOrder}, Ingest(t, amount, o)
      PROVE  /\ collectedBy' \in [Transactions -> Schools \union {Nothing}]
             /\ \A u \in Transactions : Collected(u)'
  <2>1. /\ Collected(t)'
        /\ collectedBy' \in [Transactions -> Schools \union {Nothing}]
        /\ \A u \in Transactions : u # t =>
             /\ transactions'[u] = transactions[u]
             /\ reconciliations'[u] = reconciliations[u]
             /\ collectedBy'[u] = collectedBy[u]
    BY <1>0, <1>2, IngestCollects
  <2>2. ASSUME NEW u \in Transactions, u # t PROVE Collected(u)'
    BY <1>0, <2>1, <2>2, CollectedKept
  <2>3. QED BY <2>1, <2>2
<1>3. ASSUME NEW t \in Transactions, UNCHANGED collectedBy,
             Unmatch(t) \/ (\E o \in Orders : Match(t, o))
      PROVE  \A u \in Transactions : Collected(u)'
  <2>1. /\ transactions[t].status # "NONE" \/ reconciliations[t].status # "NONE"
        /\ reconciliations'[t].status \in {"UNMATCHED", "MANUAL_MATCHED"}
        /\ \A u \in Transactions : u # t =>
             /\ transactions'[u] = transactions[u]
             /\ reconciliations'[u] = reconciliations[u]
    <3>1. CASE Unmatch(t)
      BY <1>0, <3>1 DEF Unmatch
    <3>2. ASSUME NEW o \in Orders, Match(t, o)
          PROVE  /\ reconciliations[t].status = "UNMATCHED"
                 /\ reconciliations' = [reconciliations EXCEPT
                      ![t] = [status |-> "MANUAL_MATCHED", order |-> o]]
                 /\ transactions' = [transactions EXCEPT
                      ![t] = [status |-> "ALLOCATED", amount |-> transactions[t].amount]]
      BY <3>2 DEF Match, AllocateToOrder
    <3>3. QED BY <1>0, <1>3, <3>1, <3>2
  <2>2. Collected(t)'
    BY <1>0, <1>3, <2>1 DEF Collected
  <2>3. ASSUME NEW u \in Transactions, u # t PROVE Collected(u)'
    BY <1>0, <1>3, <2>1, <2>3, CollectedKept
  <2>4. QED BY <2>2, <2>3
<1>4. ASSUME UNCHANGED <<transactions, reconciliations, collectedBy>>
      PROVE  \A u \in Transactions : Collected(u)'
  BY <1>0, <1>4, CollectedKept
<1>5. ASSUME NEW r \in Receivables, NEW delta \in AdjustmentDeltas,
             CreateAdjustment(r, delta)
      PROVE  UNCHANGED <<transactions, reconciliations, collectedBy>>
  BY <1>5 DEF CreateAdjustment, Adjust
<1>6. ASSUME OtherRequest, UNCHANGED <<adjustments, collectedBy, deleted, report>>
      PROVE  \/ UNCHANGED <<transactions, reconciliations, collectedBy>>
             \/ \E t \in Transactions :
                  Unmatch(t) \/ (\E o \in Orders : Match(t, o))
  BY <1>6 DEF OtherRequest, CreateReceivable, Discount, CreateOrder, GetQr, Refund,
              CancelReceipt
<1>7. UNCHANGED reportVars => UNCHANGED <<transactions, reconciliations, collectedBy>>
  BY DEF reportVars, vars
<1>8. CASE \E t \in Transactions, amount \in TransferAmounts,
              o \in Orders \union {NoOrder} : Ingest(t, amount, o)
  BY <1>2, <1>8
<1>9. CASE \E r \in Receivables, delta \in AdjustmentDeltas : CreateAdjustment(r, delta)
  BY <1>0, <1>4, <1>5, <1>9
<1>10. CASE OtherRequest /\ UNCHANGED <<adjustments, collectedBy, deleted, report>>
  BY <1>0, <1>3, <1>4, <1>6, <1>10
<1>11. CASE UNCHANGED reportVars
  BY <1>0, <1>4, <1>7, <1>11
<1>12. CASE ReadsOrDeletes
  BY <1>0, <1>4, <1>12, ReadingLeavesTables DEF vars
<1>13. QED BY <1>8, <1>9, <1>10, <1>11, <1>12 DEF ReportNext, ReadsOrDeletes

LEMMA CollectedInvariance == ReportSpec => []CollectedInv
<1>1. Books => TypeInv /\ ReconciliationAgrees
  BY DEF Books
<1>2. QED
  BY <1>1, BooksInvariance, InitCollected, NextCollected, PTL DEF ReportSpec

-----------------------------------------------------------------------------
(* The payments of a school.                                               *)

AmountsInv == \A t \in Transactions : transactions[t].amount \in Nat

LEMMA NextAmounts ==
  ASSUME TransferAmounts \subseteq Nat
  PROVE  TypeInv /\ AmountsInv /\ [Next]_vars => AmountsInv'
<1> SUFFICES ASSUME TypeInv, AmountsInv, [Next]_vars PROVE AmountsInv'
  OBVIOUS
<1>0. transactions \in [Transactions -> Transaction]
  BY DEF TypeInv, TypeOK
<1>1. ASSUME NEW t \in Transactions, NEW amount \in TransferAmounts,
             NEW o \in Orders \union {NoOrder},
             IngestMatched(t, amount, o) \/ IngestUnmatched(t, amount, o)
      PROVE  AmountsInv'
  <2>1. \E status : transactions' = [transactions EXCEPT
                      ![t] = [status |-> status, amount |-> amount]]
    BY <1>1 DEF IngestMatched, IngestUnmatched, AllocateToOrder
  <2>2. QED BY <1>0, <2>1 DEF AmountsInv
<1>2. ASSUME NEW t \in Transactions, NEW o \in Orders, Match(t, o)
      PROVE  AmountsInv'
  <2>1. transactions' = [transactions EXCEPT
          ![t] = [status |-> "ALLOCATED", amount |-> transactions[t].amount]]
    BY <1>2 DEF Match, AllocateToOrder
  <2>2. QED BY <1>0, <2>1 DEF AmountsInv
<1>3. ASSUME NEW t \in Transactions, Unmatch(t)
      PROVE  AmountsInv'
  <2>1. transactions' = [transactions EXCEPT ![t].status = "UNMATCHED"]
    BY <1>3 DEF Unmatch
  <2>2. QED BY <1>0, <2>1 DEF AmountsInv, Transaction
<1>4. UNCHANGED transactions => AmountsInv'
  BY DEF AmountsInv
<1>5. QED
  BY <1>1, <1>2, <1>3, <1>4
     DEF Next, CreateReceivable, Discount, Adjust, CreateOrder, GetQr, Refund,
         CancelReceipt, vars

LEMMA AmountsInvariance ==
  ASSUME TransferAmounts \subseteq Nat
  PROVE  ReportSpec => []AmountsInv
<1>1. Init => AmountsInv
  BY DEF Init, AmountsInv
<1>2. QED BY <1>1, NextAmounts, EngineRuns, TypeInvariance, PTL DEF Spec

(* What a transaction has on the receivables of s is no more than its      *)
(* amount if it was collected by s or matched to an order of s by hand,    *)
(* and nothing otherwise.                                                  *)
GivenTo(rows, t) == [r \in Receivables |-> IF r \in rows THEN allocations[t][r] ELSE 0]

MatchedByHandTo(s) ==
  {t \in Transactions :
    /\ reconciliations[t].status = "MANUAL_MATCHED"
    /\ collectedBy[t] # s
    /\ SchoolOfOrder(reconciliations[t].order) = s}

LEMMA GivenIsCollected ==
  ASSUME StudentsWithinSchools,
         Books, CollectedInv, AmountsInv, NEW s \in Schools, NEW t \in Transactions,
         NEW rows, \A r \in rows : r \in Receivables /\ SchoolOfReceivable(r) = s
  PROVE  /\ Total(GivenTo(rows, t), NumReceivables) <= transactions[t].amount
         /\ \/ /\ transactions[t].status # "NONE"
               /\ collectedBy[t] = s
            \/ t \in MatchedByHandTo(s)
            \/ Total(GivenTo(rows, t), NumReceivables) = 0
<1> DEFINE given == GivenTo(rows, t)
<1>0. PICK n \in Nat : n = NumReceivables
  BY Sizes
<1>1. allocations[t] \in [1..n -> Nat] /\ given \in [1..n -> Int]
      /\ \A r \in 1..n : /\ given[r] <= allocations[t][r]
                         /\ r \in rows => given[r] = allocations[t][r]
                         /\ r \notin rows => given[r] = 0
  BY <1>0 DEF Books, TypeInv, TypeOK, GivenTo, Receivables
<1>2. /\ Agrees(t) /\ transactions[t].amount \in Nat
      /\ AllocatedFrom(t) = Total(allocations[t], n)
  BY <1>0, AgreementByTransaction DEF Books, AmountsInv, AllocatedFrom
<1>3. AllocatedFrom(t) <= transactions[t].amount
  <2>1. AllocatedFrom(t) \in Int
    BY <1>1, <1>2, TotalType
  <2>2. Received(t) = transactions[t].amount
    BY <1>2 DEF Received
  <2>3. \/ transactions[t].status = "ALLOCATED" /\ Received(t) - AllocatedFrom(t) >= 0
        \/ AllocatedFrom(t) = 0
    BY DEF Books, SurplusBecomesCredit
  <2>4. QED BY <1>2, <2>1, <2>2, <2>3
<1> HIDE DEF given
<1>4. Total(given, n) <= transactions[t].amount
  <2>1. allocations[t] \in [1..n -> Int]
    BY <1>1
  <2>2. Total(given, n) <= Total(allocations[t], n)
    BY <1>1, <2>1, TotalAtMost
  <2>3. Total(given, n) \in Int /\ Total(allocations[t], n) \in Int
    BY <1>1, <2>1, TotalType
  <2>4. QED BY <1>2, <1>3, <2>2, <2>3
<1>5. CASE \A r \in 1..n : given[r] = 0
  <2>1. Total(given, n) = 0
    BY <1>1, <1>5, TotalOfZeros
  <2>2. QED BY <1>0, <1>4, <2>1 DEF given
<1>6. CASE \E r \in 1..n : given[r] # 0
  <2>1. PICK r \in rows : r \in Receivables /\ allocations[t][r] > 0
    BY <1>0, <1>1, <1>6 DEF Receivables
  <2>2. PICK o : o = reconciliations[t].order
    OBVIOUS
  <2>3. /\ Matched(t) /\ transactions[t].status = "ALLOCATED"
        /\ o \in Orders /\ orders[o].status # "NONE"
        /\ \E i \in DOMAIN orders[o].items : orders[o].items[i] = r
    BY <1>2, <2>1, <2>2 DEF Agrees, Matched, Books, TypeInv, TypeOK, Reconciliation
  <2>4. StudentOf[r] = StudentOf[orders[o].items[1]]
    BY <2>3 DEF Books, OneStudentPerOrder, OneStudent
  <2>5. SchoolOfOrder(o) = s
    BY <2>1, <2>4 DEF SchoolOfOrder, StudentsWithinSchools
  <2>6. collectedBy[t] = s \/ t \in MatchedByHandTo(s)
    BY <2>2, <2>3, <2>5 DEF CollectedInv, Collected, Matched, MatchedByHandTo
  <2>7. QED BY <1>0, <1>4, <2>3, <2>6 DEF given
<1>7. QED BY <1>5, <1>6

AmountColumn(payments) ==
  [t \in Transactions |-> IF t \in payments THEN transactions[t].amount ELSE 0]

LEMMA RevenueIsTotal ==
  ASSUME TypeInv, NEW payments
  PROVE  /\ Revenue(payments).amount = Total(AmountColumn(payments), NumTransactions)
         /\ AmountColumn(payments) \in [1..NumTransactions -> Int]
BY DEF Revenue, AmountColumn, TypeInv, TypeOK, Transaction, Transactions

(* The receivables of a user who looks at school s. *)
RowsOfSchool(scope, s) == ApplyFilters(scope, [NoFilter EXCEPT !.school = s])

LEMMA SchoolRows ==
  ASSUME NEW scope, NEW s \in Schools
  PROVE  RowsOfSchool(scope, s)
           = {r \in Receivables : /\ Exists(receivables[r])
                                  /\ ApplySchoolScope(scope, s)
                                  /\ SchoolOfReceivable(r) = s}
<1>1. s # Nothing
  BY Sizes DEF Schools, Nothing
<1>2. QED BY <1>1 DEF RowsOfSchool, ApplyFilters, NoFilter, Nothing

(* What receivables count as paid, split by the transactions it came with. *)
LEMMA PaidByTransaction ==
  ASSUME Books, NEW rows \in SUBSET Receivables
  PROVE  SumOf(rows, "amountPaid")
           = Total([t \in 1..NumTransactions |->
                      Total(GivenTo(rows, t), NumReceivables)], NumTransactions)
<1>0. PICK n \in Nat, m \in Nat : n = NumReceivables /\ m = NumTransactions
  BY Sizes
<1>1. PICK f : f = [r \in 1..n |-> [t \in 1..m |->
                      IF r \in rows THEN allocations[t][r] ELSE 0]]
  OBVIOUS
<1>2. f \in [1..n -> [1..m -> Int]]
  BY <1>0, <1>1 DEF Books, TypeInv, TypeOK, Receivables, Transactions
<1>3. ASSUME NEW r \in 1..n PROVE Total(f[r], m) = Column(rows, "amountPaid")[r]
  <2>0. r \in Receivables /\ f[r] \in [1..m -> Int]
    BY <1>0, <1>2 DEF Receivables
  <2>1. CASE r \in rows
    <3>1. f[r] = [t \in Transactions |-> allocations[t][r]]
      BY <1>0, <1>1, <2>1 DEF Transactions
    <3>2. receivables[r].amountPaid = Total(f[r], m)
      BY <1>0, <2>0, <3>1 DEF Books, PaidIsAllocated, AllocatedTo
    <3>3. QED BY <2>0, <2>1, <3>2 DEF Column
  <2>2. CASE r \notin rows
    <3>1. \A t \in 1..m : f[r][t] = 0
      BY <1>1, <2>2
    <3>2. Total(f[r], m) = 0
      BY <2>0, <3>1, TotalOfZeros
    <3>3. QED BY <2>0, <2>2, <3>2 DEF Column
  <2>3. QED BY <2>1, <2>2
<1>4. Column(rows, "amountPaid") = [r \in 1..n |-> Total(f[r], m)]
  BY <1>0, <1>3 DEF Column, Receivables
<1>5. \A t \in 1..m : GivenTo(rows, t) = [r \in 1..n |-> f[r][t]]
  BY <1>0, <1>1 DEF GivenTo, Receivables
<1>6. Total([r \in 1..n |-> Total(f[r], m)], n)
        = Total([t \in 1..m |-> Total([r \in 1..n |-> f[r][t]], n)], m)
  BY <1>2, TotalSwap
<1>7. [t \in 1..m |-> Total([r \in 1..n |-> f[r][t]], n)]
        = [t \in 1..m |-> Total(GivenTo(rows, t), n)]
  BY <1>5
<1>8. SumOf(rows, "amountPaid") = Total(Column(rows, "amountPaid"), n)
  BY <1>0, SumIsTotal
<1>9. QED BY <1>0, <1>4, <1>6, <1>7, <1>8

(* What a school's receivables count as paid, the school's payments report *)
(* has received, but for transactions of other schools that were matched   *)
(* by hand to its orders: for every number of schools, orders and          *)
(* transactions, as long as the bank reports no negative amounts and each  *)
(* student is charged by plans of the student's own school.                *)
THEOREM PaymentsCoverReceivablesAlways ==
  ASSUME TransferAmounts \subseteq Nat, StudentsWithinSchools
  PROVE  ReportSpec => []PaymentsCoverReceivables
<1>1. ASSUME Books, CollectedInv, AmountsInv, NEW s \in Schools
      PROVE  DashboardSummary(Only({s}), s).totalPaid
               <= PaymentsReport(Only({s}), s).amount
                    + Revenue(MatchedByHandTo(s)).amount
  <2>0. PICK n \in Nat, m \in Nat : n = NumReceivables /\ m = NumTransactions
    BY Sizes
  <2>1. TypeInv
    BY <1>1 DEF Books
  <2>2. PICK rows : rows = RowsOfSchool(Only({s}), s)
    OBVIOUS
  <2>3. /\ rows \in SUBSET Receivables
        /\ \A r \in rows : r \in Receivables /\ SchoolOfReceivable(r) = s
    BY <2>2, SchoolRows
  <2>4. PICK pay : pay = AmountColumn(PaymentsIn(Only({s}), s))
    OBVIOUS
  <2>5. PICK hand : hand = AmountColumn(MatchedByHandTo(s))
    OBVIOUS
  <2>6. PICK given : given = [t \in 1..m |-> Total(GivenTo(rows, t), n)]
    OBVIOUS
  <2>7. given \in [1..m -> Int]
    <3>1. ASSUME NEW t \in 1..m PROVE Total(GivenTo(rows, t), n) \in Int
      <4>1. GivenTo(rows, t) \in [1..n -> Int]
        BY <2>0, <2>1 DEF GivenTo, TypeInv, TypeOK, Receivables, Transactions
      <4>2. QED BY <4>1, TotalType
    <3>2. QED BY <2>6, <3>1
  <2>8. /\ pay \in [1..m -> Int] /\ hand \in [1..m -> Int]
        /\ PaymentsReport(Only({s}), s).amount = Total(pay, m)
        /\ Revenue(MatchedByHandTo(s)).amount = Total(hand, m)
    BY <2>0, <2>1, <2>4, <2>5, RevenueIsTotal DEF PaymentsReport
  <2>9. DashboardSummary(Only({s}), s).totalPaid = Total(given, m)
    <3>1. DashboardSummary(Only({s}), s).totalPaid = SumOf(rows, "amountPaid")
      BY <2>2 DEF DashboardSummary, Figures, RowsOfSchool
    <3>2. QED BY <1>1, <2>0, <2>3, <2>6, <3>1, PaidByTransaction
  <2>10. ASSUME NEW t \in 1..m PROVE given[t] <= pay[t] + hand[t]
    <3>0. t \in Transactions /\ transactions[t].amount \in Nat
      BY <1>1, <2>0 DEF Transactions, AmountsInv
    <3>1. /\ given[t] <= transactions[t].amount
          /\ \/ transactions[t].status # "NONE" /\ collectedBy[t] = s
             \/ t \in MatchedByHandTo(s)
             \/ given[t] = 0
      BY <1>1, <2>0, <2>3, <2>6, <3>0, GivenIsCollected
    <3>2. /\ pay[t] = IF t \in PaymentsIn(Only({s}), s)
                      THEN transactions[t].amount ELSE 0
          /\ hand[t] = IF t \in MatchedByHandTo(s) THEN transactions[t].amount ELSE 0
      BY <2>4, <2>5, <3>0 DEF AmountColumn
    <3>3. transactions[t].status # "NONE" /\ collectedBy[t] = s
            => t \in PaymentsIn(Only({s}), s)
      BY <3>0 DEF PaymentsIn, ApplySchoolScope, Only
    <3>4. given[t] \in Int
      BY <2>7
    <3>5. QED BY <3>0, <3>1, <3>2, <3>3, <3>4
  <2>11. /\ Plus(pay, hand, m) \in [1..m -> Int]
         /\ Total(Plus(pay, hand, m), m) = Total(pay, m) + Total(hand, m)
    BY <2>8, TotalPlus
  <2>12. \A t \in 1..m : given[t] <= Plus(pay, hand, m)[t]
    BY <2>10 DEF Plus
  <2>13. Total(given, m) <= Total(Plus(pay, hand, m), m)
    BY <2>7, <2>11, <2>12, TotalAtMost
  <2>14. QED BY <2>8, <2>9, <2>11, <2>13
<1>2. ASSUME Books, CollectedInv, AmountsInv PROVE PaymentsCoverReceivables
  BY <1>1, <1>2 DEF PaymentsCoverReceivables, MatchedByHandTo
<1>3. QED
  BY <1>2, BooksInvariance, CollectedInvariance, AmountsInvariance, PTL

-----------------------------------------------------------------------------
(* The views of a user, each a split of the same rows.                     *)

(* The scope of a user holds exactly the schools the user can access.      *)
LEMMA ScopeIsSeen ==
  ASSUME NEW user \in Users, NEW s \in Schools
  PROVE  ApplySchoolScope(ResolveSchoolFilter(user, Nothing), s)
           <=> CanAccessSchool(user, s)
<1>1. ResolveSchoolFilter(user, Nothing) = GetAccessibleSchoolIds(user)
  BY DEF ResolveSchoolFilter
<1>2. CASE user.role = "SUPER_ADMIN"
  <2>1. GetAccessibleSchoolIds(user) = Unrestricted
    BY <1>2 DEF GetAccessibleSchoolIds
  <2>2. QED
    BY <1>1, <1>2, <2>1 DEF ApplySchoolScope, Unrestricted, CanAccessSchool
<1>3. CASE user.role # "SUPER_ADMIN" /\ user.company # Nothing
  <2>1. GetAccessibleSchoolIds(user) = Only(FindIdsByCompany(user.company))
    BY <1>3 DEF GetAccessibleSchoolIds
  <2>2. QED
    BY <1>1, <1>3, <2>1
       DEF ApplySchoolScope, Only, FindIdsByCompany, CanAccessSchool
<1>4. CASE /\ user.role # "SUPER_ADMIN" /\ user.company = Nothing
           /\ user.school # Nothing
  <2>1. GetAccessibleSchoolIds(user) = Only({user.school})
    BY <1>4 DEF GetAccessibleSchoolIds
  <2>2. QED
    BY <1>1, <1>4, <2>1 DEF ApplySchoolScope, Only, CanAccessSchool
<1>5. CASE /\ user.role # "SUPER_ADMIN" /\ user.company = Nothing
           /\ user.school = Nothing
  <2>1. GetAccessibleSchoolIds(user)
          = IF user.role = "ADMIN" THEN Unrestricted ELSE Only({})
    BY <1>5 DEF GetAccessibleSchoolIds
  <2>2. QED
    BY <1>1, <1>5, <2>1
       DEF ApplySchoolScope, Unrestricted, Only, CanAccessSchool
<1>6. QED BY <1>2, <1>3, <1>4, <1>5

(* The rows of a user who asks for no school in particular. *)
RowsSeen(user) == ApplyFilters(ResolveSchoolFilter(user, Nothing), NoFilter)

LEMMA SchoolsOfReceivables == \A r \in Receivables : SchoolOfReceivable(r) \in Schools
BY RecordsAssumption DEF SchoolOfReceivable

LEMMA SeenRows ==
  ASSUME NEW user \in Users
  PROVE  /\ RowsSeen(user) = {r \in Receivables :
                                /\ Exists(receivables[r])
                                /\ CanAccessSchool(user, SchoolOfReceivable(r))}
         /\ GetSummary(user, Nothing) = Figures(RowsSeen(user))
<1>1. \A r \in Receivables : SchoolOfReceivable(r) \in Schools
  BY SchoolsOfReceivables
<1>2. RowsSeen(user)
        = {r \in Receivables :
             /\ Exists(receivables[r])
             /\ ApplySchoolScope(ResolveSchoolFilter(user, Nothing),
                                 SchoolOfReceivable(r))}
  BY DEF RowsSeen, ApplyFilters, NoFilter, Nothing
<1>3. [NoFilter EXCEPT !.school = Nothing] = NoFilter
  BY DEF NoFilter
<1>4. GetSummary(user, Nothing) = Figures(RowsSeen(user))
  BY <1>3, Responds DEF GetSummary, DashboardSummary, RowsSeen
<1>5. \A r \in Receivables :
        ApplySchoolScope(ResolveSchoolFilter(user, Nothing), SchoolOfReceivable(r))
          <=> CanAccessSchool(user, SchoolOfReceivable(r))
  BY <1>1, ScopeIsSeen
<1>6. QED BY <1>2, <1>4, <1>5

(* A total over some rows, split by a key that each of them has: the parts *)
(* that the keys 1..m pick out add up to the whole.                        *)
LEMMA SplitDue ==
  ASSUME TypeInv, NEW rows \in SUBSET Receivables, NEW m \in Nat, NEW key,
         \A r \in rows : key[r] \in 1..m
  PROVE  SumOf(rows, "amountDue")
           = Total([k \in 1..m |->
                      SumOf({r \in rows : key[r] = k}, "amountDue")], m)
<1>0. PICK n \in Nat : n = NumReceivables
  BY Sizes
<1>1. PICK f : f = Column(rows, "amountDue")
  OBVIOUS
<1>2. f \in [1..n -> Int] /\ \A r \in 1..n : f[r] # 0 => key[r] \in 1..m
  BY <1>0, <1>1, ColumnTypes DEF Column, Receivables
<1>3. Total([k \in 1..m |-> Total(RowsOf(f, key, n, k), n)], m) = Total(f, n)
  BY <1>2, TotalByKey
<1>4. ASSUME NEW k \in 1..m
      PROVE  Total(RowsOf(f, key, n, k), n)
               = SumOf({r \in rows : key[r] = k}, "amountDue")
  <2>1. RowsOf(f, key, n, k) = Column({r \in rows : key[r] = k}, "amountDue")
    BY <1>0, <1>1 DEF RowsOf, Column, Receivables
  <2>2. QED BY <1>0, <2>1, SumIsTotal
<1>5. [k \in 1..m |-> Total(RowsOf(f, key, n, k), n)]
        = [k \in 1..m |-> SumOf({r \in rows : key[r] = k}, "amountDue")]
  BY <1>4
<1>6. SumOf(rows, "amountDue") = Total(f, n)
  BY <1>0, <1>1, SumIsTotal
<1>7. QED BY <1>3, <1>5, <1>6

LEMMA SplitRevenue ==
  ASSUME TypeInv, NEW payments \in SUBSET Transactions, NEW m \in Nat, NEW key,
         \A t \in payments : key[t] \in 1..m
  PROVE  Revenue(payments).amount
           = Total([k \in 1..m |->
                      Revenue({t \in payments : key[t] = k}).amount], m)
<1>0. PICK n \in Nat : n = NumTransactions
  BY Sizes
<1>1. PICK f : f = AmountColumn(payments)
  OBVIOUS
<1>2. f \in [1..n -> Int] /\ \A t \in 1..n : f[t] # 0 => key[t] \in 1..m
  BY <1>0, <1>1, RevenueIsTotal DEF AmountColumn, Transactions
<1>3. Total([k \in 1..m |-> Total(RowsOf(f, key, n, k), n)], m) = Total(f, n)
  BY <1>2, TotalByKey
<1>4. ASSUME NEW k \in 1..m
      PROVE  Total(RowsOf(f, key, n, k), n)
               = Revenue({t \in payments : key[t] = k}).amount
  <2>1. RowsOf(f, key, n, k) = AmountColumn({t \in payments : key[t] = k})
    BY <1>0, <1>1 DEF RowsOf, AmountColumn, Transactions
  <2>2. QED BY <1>0, <2>1, RevenueIsTotal
<1>5. [k \in 1..m |-> Total(RowsOf(f, key, n, k), n)]
        = [k \in 1..m |-> Revenue({t \in payments : key[t] = k}).amount]
  BY <1>4
<1>6. Revenue(payments).amount = Total(f, n)
  BY <1>0, <1>1, RevenueIsTotal
<1>7. QED BY <1>3, <1>5, <1>6

(* Nothing is due and nothing collected where there is no row.             *)
LEMMA SumsOfNothing ==
  ASSUME TypeInv
  PROVE  SumOf({}, "amountDue") = 0 /\ Revenue({}).amount = 0
<1>0. PICK n \in Nat, m \in Nat : n = NumReceivables /\ m = NumTransactions
  BY Sizes
<1>1. PICK f : f = Column({}, "amountDue")
  OBVIOUS
<1>2. PICK g : g = AmountColumn({})
  OBVIOUS
<1>3. f \in [1..n -> Int] /\ \A r \in 1..n : f[r] = 0
  BY <1>0, <1>1 DEF Column, Receivables
<1>4. g \in [1..m -> Int] /\ \A t \in 1..m : g[t] = 0
  BY <1>0, <1>2 DEF AmountColumn, Transactions
<1>5. Total(f, n) = 0
  BY <1>3, TotalOfZeros
<1>6. Total(g, m) = 0
  BY <1>4, TotalOfZeros
<1>7. QED BY <1>0, <1>1, <1>2, <1>5, <1>6, SumIsTotal, RevenueIsTotal

(* Fewer rows count no more as paid. *)
LEMMA FewerRowsPayLess ==
  ASSUME TypeInv, NEW rows, NEW fewer \in SUBSET rows
  PROVE  SumOf(fewer, "amountPaid") <= SumOf(rows, "amountPaid")
<1>0. PICK n \in Nat : n = NumReceivables
  BY Sizes
<1>1. PICK f : f = Column(rows, "amountPaid")
  OBVIOUS
<1>2. PICK g : g = Column(fewer, "amountPaid")
  OBVIOUS
<1>3. f \in [1..n -> Int] /\ g \in [1..n -> Int] /\ \A r \in 1..n : f[r] >= 0
  BY <1>0, <1>1, <1>2, ColumnTypes DEF Receivables
<1>4. \A r \in 1..n : g[r] = f[r] \/ g[r] = 0
  BY <1>0, <1>1, <1>2 DEF Column, Receivables
<1>5. \A r \in 1..n : g[r] <= f[r]
  BY <1>3, <1>4
<1>6. Total(g, n) <= Total(f, n)
  BY <1>3, <1>5, TotalAtMost
<1>7. QED BY <1>0, <1>1, <1>2, <1>6, SumIsTotal

(* What is due, school by school and category by category. *)
LEMMA DueBySchool ==
  ASSUME TypeInv, NEW user \in Users
  PROVE  GetSummary(user, Nothing).totalDue
           = Total([s \in Schools |-> IF s \in Seen(user)
                                      THEN GetSummary(user, s).totalDue ELSE 0],
                   NumSchools)
<1>1. PICK rows : rows = RowsSeen(user)
  OBVIOUS
<1>2. PICK key : key = [r \in Receivables |-> SchoolOfReceivable(r)]
  OBVIOUS
<1>3. /\ rows \in SUBSET Receivables /\ NumSchools \in Nat
      /\ \A r \in rows : key[r] \in 1..NumSchools
  BY <1>1, <1>2, Sizes, SeenRows, SchoolsOfReceivables DEF Schools
<1>4. SumOf(rows, "amountDue")
        = Total([s \in 1..NumSchools |->
                   SumOf({r \in rows : key[r] = s}, "amountDue")], NumSchools)
  BY <1>3, SplitDue
<1>5. ASSUME NEW s \in Schools
      PROVE  SumOf({r \in rows : key[r] = s}, "amountDue")
               = IF s \in Seen(user) THEN GetSummary(user, s).totalDue ELSE 0
  <2>1. {r \in rows : key[r] = s}
          = {r \in Receivables : /\ Exists(receivables[r])
                                 /\ CanAccessSchool(user, s)
                                 /\ SchoolOfReceivable(r) = s}
    BY <1>1, <1>2, SeenRows
  <2>2. CASE CanAccessSchool(user, s)
    <3>1. GetSummary(user, s) = Figures(RowsOfSchool(Only({s}), s))
      <4>1. s # Nothing
        BY Sizes DEF Schools, Nothing
      <4>2. QED BY <2>2, <4>1, Responds
                   DEF GetSummary, DashboardSummary, RowsOfSchool
    <3>2. RowsOfSchool(Only({s}), s) = {r \in rows : key[r] = s}
      <4>1. ApplySchoolScope(Only({s}), s)
        BY DEF ApplySchoolScope, Only
      <4>2. QED BY <2>1, <2>2, <4>1, SchoolRows
    <3>3. QED BY <2>2, <3>1, <3>2 DEF Seen, Figures
  <2>3. CASE ~ CanAccessSchool(user, s)
    <3>1. {r \in rows : key[r] = s} = {}
      BY <2>1, <2>3
    <3>2. QED BY <2>3, <3>1, SumsOfNothing DEF Seen
  <2>4. QED BY <2>2, <2>3
<1>6. [s \in 1..NumSchools |-> SumOf({r \in rows : key[r] = s}, "amountDue")]
        = [s \in Schools |-> IF s \in Seen(user)
                             THEN GetSummary(user, s).totalDue ELSE 0]
  BY <1>5 DEF Schools
<1>7. GetSummary(user, Nothing).totalDue = SumOf(rows, "amountDue")
  BY <1>1, SeenRows DEF Figures
<1>8. QED BY <1>4, <1>6, <1>7

LEMMA DueByCategory ==
  ASSUME TypeInv, CategoriesWithinSchools, NEW user \in Users
  PROVE  LET byCategory == GetByFeeCategory(user, Nothing)
         IN  GetSummary(user, Nothing).totalDue
               = Total([k \in Categories |->
                          IF k \in DOMAIN byCategory
                          THEN byCategory[k].totalDue ELSE 0], NumCategories)
                   + Total([k \in Categories |->
                              IF k \in deleted
                              THEN DueByFilter(user, [NoFilter EXCEPT !.category = k])
                              ELSE 0], NumCategories)
<1> DEFINE byCategory == GetByFeeCategory(user, Nothing)
           of(k) == {r \in Receivables : Exists(receivables[r]) /\ CategoryOf[r] = k}
           Filter(k) == [NoFilter EXCEPT !.category = k]
<1>1. PICK rows : rows = RowsSeen(user)
  OBVIOUS
<1>2. PICK m \in Nat : m = NumCategories
  BY Sizes
<1>3. /\ rows \in SUBSET Receivables
      /\ \A r \in rows : CategoryOf[r] \in 1..m
  BY <1>1, <1>2, SeenRows, RecordsAssumption DEF Categories
<1>4. PICK all, shown, left :
        /\ all = [k \in 1..m |-> SumOf({r \in rows : CategoryOf[r] = k}, "amountDue")]
        /\ shown = [k \in Categories |-> IF k \in DOMAIN byCategory
                                         THEN byCategory[k].totalDue ELSE 0]
        /\ left = [k \in Categories |-> IF k \in deleted
                                        THEN DueByFilter(user, Filter(k)) ELSE 0]
  OBVIOUS
<1>5. SumOf(rows, "amountDue") = Total(all, m)
  BY <1>3, <1>4, SplitDue
<1>6. byCategory
        = [k \in {k \in Categories : /\ k \notin deleted
                                     /\ CanAccessSchool(user, CategorySchool[k])} |->
             Figures(of(k))]
  <2>1. \A k \in Categories :
          ApplySchoolScope(ResolveSchoolFilter(user, Nothing), CategorySchool[k])
            <=> CanAccessSchool(user, CategorySchool[k])
    BY RecordsAssumption, ScopeIsSeen
  <2>2. byCategory = ByFeeCategory(ResolveSchoolFilter(user, Nothing), Nothing)
    BY Responds DEF GetByFeeCategory
  <2> HIDE DEF byCategory
  <2>3. QED BY <2>1, <2>2 DEF ByFeeCategory
<1>7. ASSUME NEW k \in Categories
      PROVE  DueByFilter(user, Filter(k))
               = SumOf({r \in rows : CategoryOf[r] = k}, "amountDue")
  <2>1. PICK scope, filter :
          scope = ResolveSchoolFilter(user, Nothing) /\ filter = Filter(k)
    OBVIOUS
  <2>2. /\ filter.school = Nothing /\ filter.category = k /\ k # Nothing
        /\ filter.class = Nothing /\ filter.status = "NONE"
    BY <2>1, Sizes DEF NoFilter, Categories, Nothing
  <2>3. DueByFilter(user, filter) = SumOf(ApplyFilters(scope, filter), "amountDue")
    <3>1. GetReceivables(user, filter).totals = ReportTotals(scope, filter)
      <4>1. \A view : Respond(scope, view) = view
        BY <2>1, Responds
      <4>2. QED BY <2>1, <2>2, <4>1 DEF GetReceivables
    <3>2. QED BY <3>1 DEF DueByFilter, ReportTotals
  <2>4. rows = ApplyFilters(scope, NoFilter)
    BY <1>1, <2>1 DEF RowsSeen
  <2>5. ApplyFilters(scope, filter) = {r \in rows : CategoryOf[r] = k}
    BY <2>2, <2>4 DEF ApplyFilters, NoFilter, Nothing
  <2>6. QED BY <2>1, <2>3, <2>5
<1>8. ASSUME NEW k \in 1..m
      PROVE  /\ all[k] \in Int /\ shown[k] \in Int /\ left[k] \in Int
             /\ all[k] = shown[k] + left[k]
  <2>0. k \in Categories
    BY <1>2 DEF Categories
  <2>1. all[k] = SumOf({r \in rows : CategoryOf[r] = k}, "amountDue")
    BY <1>4
  <2>2. all[k] \in Int
    BY <2>1, Sizes, ColumnTypes, SumIsTotal, TotalType
  <2>3. CASE k \in deleted
    <3>1. k \notin DOMAIN byCategory
      BY <1>6, <2>3
    <3>2. shown[k] = 0 /\ left[k] = all[k]
      BY <1>4, <1>7, <2>0, <2>1, <2>3, <3>1
    <3>3. QED BY <2>2, <3>2
  <2>4. CASE k \notin deleted
    <3>1. left[k] = 0
      BY <1>4, <2>0, <2>4
    <3>2. {r \in rows : CategoryOf[r] = k}
            = {r \in of(k) : CanAccessSchool(user, CategorySchool[k])}
      BY <1>1, SeenRows DEF CategoriesWithinSchools
    <3>3. CASE CanAccessSchool(user, CategorySchool[k])
      <4>1. {r \in rows : CategoryOf[r] = k} = of(k)
        BY <3>2, <3>3
      <4>2. k \in DOMAIN byCategory /\ byCategory[k] = Figures(of(k))
        BY <1>6, <2>0, <2>4, <3>3
      <4>3. shown[k] = SumOf(of(k), "amountDue")
        BY <1>4, <2>0, <4>2 DEF Figures
      <4>4. QED BY <2>1, <2>2, <3>1, <4>1, <4>3
    <3>4. CASE ~ CanAccessSchool(user, CategorySchool[k])
      <4>1. {r \in rows : CategoryOf[r] = k} = {} /\ k \notin DOMAIN byCategory
        BY <1>6, <3>2, <3>4
      <4>2. all[k] = 0 /\ shown[k] = 0
        BY <1>4, <2>0, <2>1, <4>1, SumsOfNothing
      <4>3. QED BY <3>1, <4>2
    <3>5. QED BY <3>3, <3>4
  <2>5. QED BY <2>3, <2>4
<1> HIDE DEF byCategory, Filter
<1>9. all \in [1..m -> Int] /\ shown \in [1..m -> Int] /\ left \in [1..m -> Int]
  BY <1>2, <1>4, <1>8 DEF Categories
<1>10. Total(all, m) = Total(shown, m) + Total(left, m)
  BY <1>8, <1>9, TotalAddition
<1>11. GetSummary(user, Nothing).totalDue = SumOf(rows, "amountDue")
  BY <1>1, SeenRows DEF Figures
<1>12. GetSummary(user, Nothing).totalDue = Total(shown, m) + Total(left, m)
  BY <1>5, <1>10, <1>11
<1>13. QED BY <1>2, <1>4, <1>12 DEF byCategory, Filter

(* What was collected, school by school and day by day. *)
LEMMA SeenPayments ==
  ASSUME CollectedInv, NEW user \in Users
  PROVE  /\ PaymentsIn(ResolveSchoolFilter(user, Nothing), Nothing)
              = {t \in Transactions : /\ transactions[t].status # "NONE"
                                      /\ CanAccessSchool(user, collectedBy[t])}
         /\ \A t \in Transactions :
              transactions[t].status # "NONE" => collectedBy[t] \in Schools
<1>1. \A t \in Transactions :
        transactions[t].status # "NONE" => collectedBy[t] \in Schools
  BY DEF CollectedInv, Collected
<1>2. \A t \in Transactions : transactions[t].status # "NONE" =>
        (ApplySchoolScope(ResolveSchoolFilter(user, Nothing), collectedBy[t])
           <=> CanAccessSchool(user, collectedBy[t]))
  BY <1>1, ScopeIsSeen
<1>3. QED BY <1>1, <1>2 DEF PaymentsIn

LEMMA CollectedBySchool ==
  ASSUME TypeInv, CollectedInv, NEW user \in Users
  PROVE  GetPayments(user, Nothing).amount
           = Total([s \in Schools |-> IF s \in Seen(user)
                                      THEN GetPayments(user, s).amount ELSE 0],
                   NumSchools)
<1>1. PICK rows : rows = PaymentsIn(ResolveSchoolFilter(user, Nothing), Nothing)
  OBVIOUS
<1>2. /\ rows \in SUBSET Transactions /\ NumSchools \in Nat
      /\ \A t \in rows : collectedBy[t] \in 1..NumSchools
  BY <1>1, Sizes, SeenPayments DEF Schools
<1>3. Revenue(rows).amount
        = Total([s \in 1..NumSchools |->
                   Revenue({t \in rows : collectedBy[t] = s}).amount], NumSchools)
  BY <1>2, SplitRevenue
<1>4. ASSUME NEW s \in Schools
      PROVE  Revenue({t \in rows : collectedBy[t] = s}).amount
               = IF s \in Seen(user) THEN GetPayments(user, s).amount ELSE 0
  <2>1. {t \in rows : collectedBy[t] = s}
          = {t \in Transactions : /\ transactions[t].status # "NONE"
                                  /\ CanAccessSchool(user, s)
                                  /\ collectedBy[t] = s}
    BY <1>1, SeenPayments
  <2>2. CASE CanAccessSchool(user, s)
    <3>1. s # Nothing
      BY Sizes DEF Schools, Nothing
    <3>2. GetPayments(user, s) = Revenue(PaymentsIn(Only({s}), s))
      BY <2>2, <3>1, Responds DEF GetPayments, PaymentsReport
    <3>3. PaymentsIn(Only({s}), s) = {t \in rows : collectedBy[t] = s}
      BY <2>1, <2>2, <3>1 DEF PaymentsIn, ApplySchoolScope, Only
    <3>4. QED BY <2>2, <3>2, <3>3 DEF Seen
  <2>3. CASE ~ CanAccessSchool(user, s)
    <3>1. {t \in rows : collectedBy[t] = s} = {}
      BY <2>1, <2>3
    <3>2. QED BY <2>3, <3>1, SumsOfNothing DEF Seen
  <2>4. QED BY <2>2, <2>3
<1>5. [s \in 1..NumSchools |-> Revenue({t \in rows : collectedBy[t] = s}).amount]
        = [s \in Schools |-> IF s \in Seen(user)
                             THEN GetPayments(user, s).amount ELSE 0]
  BY <1>4 DEF Schools
<1>6. GetPayments(user, Nothing) = Revenue(rows)
  BY <1>1, Responds DEF GetPayments, PaymentsReport
<1>7. QED BY <1>3, <1>5, <1>6

LEMMA CollectedByDay ==
  ASSUME TypeInv, NEW user \in Users
  PROVE  LET byDay == GetRevenueByDay(user, Nothing)
         IN  GetPayments(user, Nothing).amount
               = Total([d \in Days |->
                          IF d \in DOMAIN byDay THEN byDay[d].amount ELSE 0],
                       NumDays)
<1> DEFINE byDay == GetRevenueByDay(user, Nothing)
<1>1. PICK rows : rows = PaymentsIn(ResolveSchoolFilter(user, Nothing), Nothing)
  OBVIOUS
<1>2. /\ rows \in SUBSET Transactions /\ NumDays \in Nat
      /\ \A t \in rows : DayOf[t] \in 1..NumDays
  BY <1>1, Sizes, RecordsAssumption DEF PaymentsIn, Days
<1>3. Revenue(rows).amount
        = Total([d \in 1..NumDays |-> Revenue({t \in rows : DayOf[t] = d}).amount],
                NumDays)
  BY <1>2, SplitRevenue
<1>4. byDay = [d \in {DayOf[t] : t \in rows} |-> Revenue({t \in rows : DayOf[t] = d})]
  <2>1. byDay = RevenueByDay(ResolveSchoolFilter(user, Nothing), Nothing)
    BY Responds DEF GetRevenueByDay
  <2> HIDE DEF byDay
  <2>2. QED BY <1>1, <2>1 DEF RevenueByDay
<1>5. ASSUME NEW d \in Days
      PROVE  Revenue({t \in rows : DayOf[t] = d}).amount
               = IF d \in DOMAIN byDay THEN byDay[d].amount ELSE 0
  <2>1. CASE \E t \in rows : DayOf[t] = d
    BY <1>4, <2>1
  <2>2. CASE ~ \E t \in rows : DayOf[t] = d
    <3>1. {t \in rows : DayOf[t] = d} = {} /\ d \notin DOMAIN byDay
      BY <1>4, <2>2
    <3>2. QED BY <3>1, SumsOfNothing
  <2>3. QED BY <2>1, <2>2
<1> HIDE DEF byDay
<1>6. [d \in 1..NumDays |-> Revenue({t \in rows : DayOf[t] = d}).amount]
        = [d \in Days |-> IF d \in DOMAIN byDay THEN byDay[d].amount ELSE 0]
  BY <1>5 DEF Days
<1>7. GetPayments(user, Nothing) = Revenue(rows)
  BY <1>1, Responds DEF GetPayments, PaymentsReport
<1>8. QED BY <1>3, <1>6, <1>7 DEF byDay

(* A class has not paid more than its school. *)
LEMMA ClassWithinSchool ==
  ASSUME TypeInv, ClassesWithinSchools, NEW user \in Users
  PROVE  LET byClass == GetByClass(user, Nothing)
             scope == ResolveSchoolFilter(user, Nothing)
         IN  \A c \in DOMAIN byClass :
               byClass[c].totalPaid
                 <= DashboardSummary(scope, ClassSchool[c]).totalPaid
<1> DEFINE scope == ResolveSchoolFilter(user, Nothing)
           byClass == GetByClass(user, Nothing)
<1> SUFFICES ASSUME NEW c \in DOMAIN byClass
             PROVE  byClass[c].totalPaid
                      <= DashboardSummary(scope, ClassSchool[c]).totalPaid
  OBVIOUS
<1>1. /\ c \in Classes /\ ApplySchoolScope(scope, ClassSchool[c])
      /\ byClass[c] = Figures(InClass(c))
  <2>1. byClass = ByClass(scope, Nothing)
    BY Responds DEF GetByClass
  <2> HIDE DEF byClass, scope
  <2>2. QED BY <2>1 DEF ByClass, ClassReport
<1>2. ClassSchool[c] \in Schools
  BY <1>1, RecordsAssumption
<1>3. InClass(c) \subseteq RowsOfSchool(scope, ClassSchool[c])
  BY <1>1, <1>2, SchoolRows DEF InClass, ClassesWithinSchools
<1>4. SumOf(InClass(c), "amountPaid")
        <= SumOf(RowsOfSchool(scope, ClassSchool[c]), "amountPaid")
  BY <1>3, FewerRowsPayLess
<1>5. byClass[c].totalPaid = SumOf(InClass(c), "amountPaid")
  BY <1>1 DEF Figures
<1>6. DashboardSummary(scope, ClassSchool[c]).totalPaid
        = SumOf(RowsOfSchool(scope, ClassSchool[c]), "amountPaid")
  BY DEF DashboardSummary, RowsOfSchool, Figures
<1>7. QED BY <1>4, <1>5, <1>6

(* A user who asks for no school sees what asking for each of the user's   *)
(* schools would show, of receivables as of payments; the days, and the    *)
(* categories with those deleted, split the same figures; no class has     *)
(* paid more than its school: whatever the user's role, company and        *)
(* school, as long as the receivables of a category, and of a class's      *)
(* students, are of the school of the category, and of the class.          *)
THEOREM ViewsAddUpAlways ==
  ASSUME CategoriesWithinSchools, ClassesWithinSchools
  PROVE  ReportSpec => []ViewsAddUp
<1>1. ASSUME Books, CollectedInv PROVE ViewsAddUp
  <2>1. TypeInv
    BY <1>1 DEF Books
  <2>2. QED
    BY <1>1, <2>1, DueBySchool, DueByCategory, CollectedBySchool, CollectedByDay,
       ClassWithinSchool
       DEF ViewsAddUp, OverSchools
<1>2. QED BY <1>1, BooksInvariance, CollectedInvariance, PTL
=============================================================================
