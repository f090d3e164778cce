------------------------- MODULE AccountingTheorems -------------------------
(***************************************************************************)
(* Theorems about Accounting, for every number of receivables, orders and  *)
(* transactions and every set of amounts: types and allocations; what      *)
(* becomes of a bank transaction, what the reconciliation, the orders and  *)
(* the receipts say of it; refunds that come out of the credits of their   *)
(* transaction.                                                            *)
(***************************************************************************)
EXTENDS Accounting, ArithmeticTheorems, SequenceTheorems

-----------------------------------------------------------------------------
(* The loop that allocates a transaction's money over an order's items. *)

Run == [available : Int, allocatedTotal : Nat,
        allocated : [Receivables -> Nat], receivables : [Receivables -> Receivable]]

StartOfRun(amount) ==
  [available |-> amount, allocatedTotal |-> 0,
   allocated |-> NoAllocation, receivables |-> receivables]

(* g holds the states of the loop after each of the first m items. *)
IsRun(g, items, amount, m) ==
  /\ DOMAIN g = 0..m
  /\ g[0] = StartOfRun(amount)
  /\ \A i \in 1..m : g[i] = AllocateItem(g[i - 1], items[i])

RunStep(g, items, amount) ==
  [i \in 0..Len(items) |-> IF i = 0 THEN StartOfRun(amount)
                           ELSE AllocateItem(g[i - 1], items[i])]

LEMMA IsRunExists ==
  ASSUME NEW n \in Nat, NEW items, NEW amount
  PROVE  \E g : IsRun(g, items, amount, n)
<1> DEFINE Good == {m \in 0..n : \E g : IsRun(g, items, amount, m)}
<1>1. 0 \in Good
  <2>1. IsRun([i \in 0..0 |-> StartOfRun(amount)], items, amount, 0)
    BY DEF IsRun
  <2>2. QED BY <2>1
<1>2. ASSUME NEW m \in 1..n, m - 1 \in Good PROVE m \in Good
  <2>1. PICK g : IsRun(g, items, amount, m - 1)
    BY <1>2
  <2> DEFINE longer ==
        [i \in 0..m |-> IF i = m THEN AllocateItem(g[m - 1], items[m]) ELSE g[i]]
  <2>2. DOMAIN longer = 0..m /\ longer[0] = StartOfRun(amount)
    BY <2>1 DEF IsRun
  <2>3. ASSUME NEW i \in 1..m PROVE longer[i] = AllocateItem(longer[i - 1], items[i])
    <3>1. longer[i - 1] = g[i - 1]
      OBVIOUS
    <3>2. CASE i = m
      <4>1. longer[i] = AllocateItem(g[m - 1], items[m])
        BY <3>2
      <4>2. QED BY <3>1, <3>2, <4>1
    <3>3. CASE i # m
      <4>1. i \in 1..(m - 1) /\ longer[i] = g[i]
        BY <3>3
      <4>2. g[i] = AllocateItem(g[i - 1], items[i])
        BY <2>1, <4>1 DEF IsRun
      <4>3. QED BY <3>1, <4>1, <4>2
    <3>4. QED BY <3>2, <3>3
  <2> HIDE DEF longer
  <2>4. IsRun(longer, items, amount, m)
    BY <2>2, <2>3 DEF IsRun
  <2>5. QED BY <2>4
<1>3. n \in Good
  <2> HIDE DEF Good
  <2>1. n \in 0..n
    OBVIOUS
  <2>2. QED BY <1>1, <1>2, <2>1, RowInduction
<1>4. QED BY <1>3

(* The recursive definition is the loop: its first state, and each state   *)
(* from the one before.                                                    *)
LEMMA AllocationRunIsRun ==
  ASSUME NEW items \in Seq(Receivables), NEW amount
  PROVE  IsRun(AllocationRun(items, amount), items, amount, Len(items))
<1> DEFINE run == AllocationRun(items, amount)
<1>0. Len(items) \in Nat
  OBVIOUS
<1>1. PICK g0 : IsRun(g0, items, amount, Len(items))
  BY <1>0, IsRunExists
<1> DEFINE g == [i \in 0..Len(items) |-> g0[i]]
<1>2. g = RunStep(g, items, amount)
  <2>1. ASSUME NEW i \in 0..Len(items)
        PROVE  g[i] = IF i = 0 THEN StartOfRun(amount)
                      ELSE AllocateItem(g[i - 1], items[i])
    <3>1. CASE i = 0
      BY <1>0, <1>1, <3>1 DEF IsRun
    <3>2. CASE i # 0
      <4>1. i \in 1..Len(items) /\ i - 1 \in 0..Len(items)
        BY <1>0, <3>2
      <4>2. g[i] = g0[i] /\ g[i - 1] = g0[i - 1]
        BY <4>1
      <4>3. g0[i] = AllocateItem(g0[i - 1], items[i])
        BY <1>1, <4>1 DEF IsRun
      <4>4. QED BY <3>2, <4>2, <4>3
    <3>3. QED BY <3>1, <3>2
  <2>2. QED BY <2>1, Zenon DEF RunStep
<1> HIDE DEF g
<1>3. run = CHOOSE h : h = RunStep(h, items, amount)
  BY Zenon DEF AllocationRun, StartOfRun, RunStep
<1>4. run = RunStep(run, items, amount)
  BY <1>2, <1>3, Zenon
<1> HIDE DEF run
<1>5. DOMAIN run = 0..Len(items)
  BY <1>4, Zenon DEF RunStep
<1>6. run[0] = StartOfRun(amount)
  <2>1. 0 \in 0..Len(items)
    BY <1>0
  <2>2. QED BY <1>4, <2>1, Zenon DEF RunStep
<1>7. ASSUME NEW i \in 1..Len(items)
      PROVE  run[i] = AllocateItem(run[i - 1], items[i])
  <2>1. i \in 0..Len(items) /\ i # 0
    BY <1>0
  <2>2. QED BY <1>4, <2>1, Zenon DEF RunStep
<1>8. QED BY <1>5, <1>6, <1>7 DEF IsRun, run

(* What the loop keeps: the money is either still available or allocated,  *)
(* it is allocated to receivables, and they count it as paid; a transfer   *)
(* of nothing or less allocates nothing.                                   *)
RunOK(run, amount) ==
  /\ run \in Run
  /\ run.available + run.allocatedTotal = amount
  /\ run.available >= 0 \/ run.allocatedTotal = 0
  /\ run.allocatedTotal = Total(run.allocated, NumReceivables)
  /\ \A r \in Receivables :
       /\ run.receivables[r].amountPaid
            = receivables[r].amountPaid + run.allocated[r]
       /\ ~ Exists(run.receivables[r]) => run.receivables[r] = receivables[r]

LEMMA StartOfRunOK ==
  ASSUME receivables \in [Receivables -> Receivable], NEW amount \in Int
  PROVE  RunOK(StartOfRun(amount), amount)
<1> DEFINE run == StartOfRun(amount)
<1>1. /\ run.available = amount /\ run.allocatedTotal = 0
      /\ run.allocated = NoAllocation /\ run.receivables = receivables
      /\ run \in Run
  BY DEF StartOfRun, Run, NoAllocation
<1>2. Total(NoAllocation, NumReceivables) = 0
  BY SizesAssumption, TotalOfZeros DEF NoAllocation, Receivables
<1>3. \A r \in Receivables :
        receivables[r].amountPaid \in Nat /\ NoAllocation[r] = 0
  BY DEF Receivable, NoAllocation
<1> HIDE DEF run
<1>4. RunOK(run, amount)
  BY <1>1, <1>2, <1>3 DEF RunOK
<1>5. QED BY <1>4 DEF run

LEMMA AllocateItemOK ==
  ASSUME receivables \in [Receivables -> Receivable], NEW amount \in Int,
         NEW run, RunOK(run, amount), NEW r \in Receivables
  PROVE  RunOK(AllocateItem(run, r), amount)
<1> DEFINE take == ToAllocate(run, r)
           next == AllocateItem(run, r)
<1>1. CASE run.receivables[r].status = "CANCELLED" \/ take <= 0
  BY <1>1 DEF AllocateItem
<1>2. CASE ~ (run.receivables[r].status = "CANCELLED" \/ take <= 0)
  <2>0. run \in Run
    BY DEF RunOK
  <2>1. /\ run.available \in Int /\ run.allocatedTotal \in Nat
        /\ run.allocated \in [Receivables -> Nat]
        /\ run.receivables \in [Receivables -> Receivable]
    BY <2>0 DEF Run
  <2>2. run.receivables[r] \in Receivable /\ IsPastDue(r) \in BOOLEAN
    BY <2>1 DEF IsPastDue
  <2>3. take \in Nat /\ take > 0 /\ take <= run.available
    <3>1. run.receivables[r].amountOutstanding \in Int
      BY <2>2 DEF Receivable
    <3>2. take \in Int /\ take <= run.available
      BY <2>1, <3>1 DEF ToAllocate
    <3> HIDE DEF take
    <3>3. QED BY <1>2, <3>2
  <2> DEFINE paid == ApplyPaymentDelta(run.receivables[r], take, IsPastDue(r))
             alloc == [run.allocated EXCEPT ![r] = @ + take]
             recs == [run.receivables EXCEPT ![r] = paid]
  <2>4. next = [available |-> run.available - take,
                allocatedTotal |-> run.allocatedTotal + take,
                allocated |-> alloc, receivables |-> recs]
    BY <1>2 DEF AllocateItem
  <2>5. paid \in Receivable
        /\ paid.amountPaid = run.receivables[r].amountPaid + take
        /\ Exists(paid)
    <3> HIDE DEF take
    <3>1. QED BY <2>2, <2>3, DeltaTypes
  <2>6. recs \in [Receivables -> Receivable]
    <3> HIDE DEF paid
    <3>1. QED BY <2>1, <2>5
  <2>7. alloc \in [Receivables -> Nat]
    <3> HIDE DEF take
    <3>1. QED BY <2>1, <2>3
  <2>8. Total(alloc, NumReceivables) = Total(run.allocated, NumReceivables) + take
    <3> HIDE DEF take
    <3>1. alloc \in [1..NumReceivables -> Int]
          /\ run.allocated \in [1..NumReceivables -> Int]
      BY <2>1, <2>7 DEF Receivables
    <3>2. alloc[r] = run.allocated[r] + take /\ run.allocated[r] \in Nat
          /\ \A i \in 1..NumReceivables : i # r => alloc[i] = run.allocated[i]
      BY <2>1 DEF Receivables
    <3> HIDE DEF alloc
    <3>3. Total(alloc, NumReceivables)
            = Total(run.allocated, NumReceivables) + alloc[r] - run.allocated[r]
      BY <3>1, <3>2, SizesAssumption, TotalUpdate DEF Receivables
    <3>4. Total(run.allocated, NumReceivables) \in Int
      BY <3>1, SizesAssumption, TotalType
    <3>5. QED BY <2>3, <3>2, <3>3, <3>4
  <2>9. ASSUME NEW q \in Receivables
        PROVE  /\ recs[q].amountPaid = receivables[q].amountPaid + alloc[q]
               /\ ~ Exists(recs[q]) => recs[q] = receivables[q]
    <3>1. /\ run.receivables[q].amountPaid
               = receivables[q].amountPaid + run.allocated[q]
          /\ ~ Exists(run.receivables[q]) => run.receivables[q] = receivables[q]
          /\ receivables[q].amountPaid \in Nat /\ run.allocated[q] \in Nat
      BY <2>1 DEF RunOK, Receivable
    <3> HIDE DEF take, paid
    <3>2. CASE q = r
      <4>1. recs[q] = paid /\ alloc[q] = run.allocated[q] + take
        BY <2>1, <3>2
      <4> HIDE DEF recs, alloc
      <4>2. recs[q].amountPaid = run.receivables[q].amountPaid + take
        BY <2>5, <3>2, <4>1
      <4>3. recs[q].amountPaid = receivables[q].amountPaid + alloc[q]
        BY <2>3, <3>1, <4>1, <4>2
      <4>4. Exists(recs[q])
        BY <2>5, <4>1
      <4>5. QED BY <4>3, <4>4
    <3>3. CASE q # r
      <4>1. recs[q] = run.receivables[q] /\ alloc[q] = run.allocated[q]
        BY <2>1, <3>3
      <4> HIDE DEF recs, alloc
      <4>2. QED BY <3>1, <4>1
    <3>4. QED BY <3>2, <3>3
  <2> HIDE DEF take, next, alloc, recs, paid
  <2>10. next \in Run
    BY <2>1, <2>3, <2>4, <2>6, <2>7 DEF Run
  <2>11. /\ next.available = run.available - take
         /\ next.allocatedTotal = run.allocatedTotal + take
         /\ next.allocated = alloc /\ next.receivables = recs
    BY <2>4
  <2>12. /\ run.available + run.allocatedTotal = amount
         /\ run.allocatedTotal = Total(run.allocated, NumReceivables)
    BY DEF RunOK
  <2>13. RunOK(next, amount)
    BY <2>1, <2>3, <2>8, <2>9, <2>10, <2>11, <2>12 DEF RunOK
  <2>14. QED BY <2>13 DEF next
<1>3. QED BY <1>1, <1>2

(* What the loop keeps, it has kept after each item and when it ends. *)
LEMMA AllocationRunOK ==
  ASSUME receivables \in [Receivables -> Receivable], NEW amount \in Int,
         NEW items \in Seq(Receivables)
  PROVE  /\ \A i \in 0..Len(items) : RunOK(AllocationRun(items, amount)[i], amount)
         /\ RunOK(AllocationRun(items, amount)[Len(items)], amount)
<1> DEFINE run == AllocationRun(items, amount)
           Good == {i \in 0..Len(items) : RunOK(run[i], amount)}
<1>0. Len(items) \in Nat
  OBVIOUS
<1>1. IsRun(run, items, amount, Len(items))
  BY AllocationRunIsRun
<1> HIDE DEF run
<1>2. 0 \in Good
  BY <1>0, <1>1, StartOfRunOK DEF IsRun
<1>3. ASSUME NEW i \in 1..Len(items), i - 1 \in Good PROVE i \in Good
  <2>1. RunOK(run[i - 1], amount) /\ items[i] \in Receivables
    BY <1>3
  <2>2. RunOK(AllocateItem(run[i - 1], items[i]), amount)
    BY <2>1, AllocateItemOK
  <2>3. run[i] = AllocateItem(run[i - 1], items[i])
    BY <1>1 DEF IsRun
  <2>4. QED BY <1>0, <2>2, <2>3
<1>4. \A i \in 0..Len(items) : i \in Good
  <2> HIDE DEF Good
  <2>1. QED BY <1>0, <1>2, <1>3, RowInduction
<1>5. Len(items) \in 0..Len(items)
  BY <1>0
<1>6. QED BY <1>4, <1>5 DEF run

-----------------------------------------------------------------------------
(* Type correctness. *)

(* An order that exists has items: its student is that of its first item,  *)
(* so TypeOK alone is not inductive.                                       *)
OrdersHaveItems ==
  \A o \in Orders : orders[o].status # "NONE" => orders[o].items # <<>>

TypeInv == TypeOK /\ OrdersHaveItems

LEMMA FunctionIsSeq ==
  ASSUME NEW n \in Nat, NEW S, NEW f \in [1..n -> S]
  PROVE  f \in Seq(S) /\ Len(f) = n
BY SeqDef

LEMMA InitTypes == Init => TypeInv
<1>1. \A S : <<>> \in Seq(S)
  BY EmptySeq
<1>2. [r \in Receivables |-> NoReceivable] \in [Receivables -> Receivable]
  BY NewReceivableType
<1>3. NoAllocation \in [Receivables -> Nat]
  BY DEF NoAllocation
<1>4. QED
  BY <1>1, <1>2, <1>3 DEF Init, TypeInv, TypeOK, OrdersHaveItems, Order,
     Transaction, Reconciliation

LEMMA AllocateToOrderTypes ==
  ASSUME TypeInv, NEW t \in Transactions, NEW o \in Orders, Payable(o),
         NEW amount \in Int, AllocateToOrder(t, o, amount),
         reconciliations' \in [Transactions -> Reconciliation],
         UNCHANGED refunds
  PROVE  TypeInv'
<1> DEFINE items == orders[o].items
           student == StudentOf[items[1]]
           done == AllocationRun(items, amount)[Len(items)]
           surplus == IF done.available > 0 THEN done.available ELSE 0
           paid == done.allocatedTotal + surplus
<1>1. /\ items \in Seq(Receivables) /\ items # <<>>
      /\ orders[o].status # "NONE"
  BY DEF TypeInv, TypeOK, OrdersHaveItems, Order, Payable
<1>2. student \in Students
  <2>1. items[1] \in Receivables
    BY <1>1, EmptySeq, ElementOfSeq
  <2>2. QED BY <2>1, InputsAssumption
<1>3. done \in Run
  BY <1>1, AllocationRunOK DEF TypeInv, TypeOK, RunOK
<1> HIDE DEF items, student, done
<1>4. /\ done.available \in Int /\ done.allocatedTotal \in Nat
      /\ done.allocated \in [Receivables -> Nat]
      /\ done.receivables \in [Receivables -> Receivable]
  BY <1>3 DEF Run
<1>5. surplus \in Nat /\ paid \in Nat
  BY <1>4
<1> HIDE DEF surplus, paid
<1>6. receivables' \in [Receivables -> Receivable]
  BY <1>4 DEF AllocateToOrder, done, items
<1>7. orders' \in [Orders -> Order] /\ OrdersHaveItems'
  <2>1. PICK st \in {"PAID", "PARTIALLY_PAID"} :
          orders' = [orders EXCEPT ![o].status = st]
    BY DEF AllocateToOrder
  <2>2. QED BY <1>1, <2>1 DEF TypeInv, TypeOK, OrdersHaveItems, Order
<1>8. transactions' \in [Transactions -> Transaction]
  BY DEF AllocateToOrder, TypeInv, TypeOK, Transaction
<1>9. allocations' \in [Transactions -> [Receivables -> Nat]]
  <2> DEFINE row == [r \in Receivables |-> allocations[t][r] + done.allocated[r]]
  <2>1. row \in [Receivables -> Nat]
    BY <1>4 DEF TypeInv, TypeOK
  <2>2. allocations' = [allocations EXCEPT ![t] = row]
    BY DEF AllocateToOrder, done, items
  <2> HIDE DEF row
  <2>3. QED BY <2>1, <2>2 DEF TypeInv, TypeOK
<1>10. credits' \in [Transactions -> Seq(Credit)]
  <2> DEFINE credit == [student |-> student, amount |-> surplus,
                        remaining |-> surplus, status |-> "AVAILABLE"]
  <2>1. credit \in Credit
    BY <1>2, <1>5 DEF Credit
  <2>2. credits' = credits \/ credits' = [credits EXCEPT ![t] = Append(@, credit)]
    BY Zenon DEF AllocateToOrder, done, items, surplus, student
  <2> HIDE DEF credit
  <2>3. /\ credits \in [Transactions -> Seq(Credit)]
        /\ Append(credits[t], credit) \in Seq(Credit)
    BY <2>1, AppendProperties DEF TypeInv, TypeOK
  <2>4. QED BY <2>2, <2>3
<1>11. receipts' \in [Transactions -> Seq(Receipt)]
  <2> DEFINE receipt == [total |-> paid, status |-> "ISSUED"]
  <2>1. receipt \in Receipt
    BY <1>5 DEF Receipt
  <2>2. receipts' = receipts
        \/ receipts' = [receipts EXCEPT ![t] = Append(@, receipt)]
    BY Zenon DEF AllocateToOrder, done, items, surplus, paid
  <2> HIDE DEF receipt
  <2>3. /\ receipts \in [Transactions -> Seq(Receipt)]
        /\ Append(receipts[t], receipt) \in Seq(Receipt)
    BY <2>1, AppendProperties DEF TypeInv, TypeOK
  <2>4. QED BY <2>2, <2>3
<1>12. ledger' \in [Students -> Int]
  <2>1. ledger' = [ledger EXCEPT ![student] = @ - paid]
    BY Zenon DEF AllocateToOrder, CreditTo, done, items, surplus, paid, student
  <2>2. QED BY <1>2, <1>5, <2>1 DEF TypeInv, TypeOK
<1>13. refunds' \in [Transactions -> Nat]
  BY DEF TypeInv, TypeOK
<1>14. QED
  BY <1>6, <1>7, <1>8, <1>9, <1>10, <1>11, <1>12, <1>13 DEF TypeInv, TypeOK

LEMMA CreditType ==
  ASSUME TypeInv, NEW t \in Transactions, NEW i \in DOMAIN credits[t]
  PROVE  credits[t][i] \in Credit
<1>1. credits[t] \in Seq(Credit)
  BY DEF TypeInv, TypeOK
<1>2. i \in 1..Len(credits[t])
  BY <1>1
<1>3. QED BY <1>1, <1>2, ElementOfSeq

LEMMA VoidedType ==
  ASSUME NEW credit \in Credit
  PROVE  Voided(credit) \in Credit
BY DEF Voided, Credit

LEMMA AvailableAmountType ==
  ASSUME NEW credit \in Credit
  PROVE  AvailableAmount(credit) \in Nat
BY DEF AvailableAmount, Credit

LEMMA DrawnType ==
  ASSUME NEW credit \in Credit, NEW toDraw \in Nat
  PROVE  Drawn(credit, toDraw) \in Credit
<1>1. CASE credit.status # "AVAILABLE" \/ toDraw <= 0
  BY <1>1 DEF Drawn
<1>2. CASE ~ (credit.status # "AVAILABLE" \/ toDraw <= 0)
  <2>1. CASE toDraw >= credit.remaining
    <3>1. Drawn(credit, toDraw)
            = [credit EXCEPT !.remaining = 0, !.status = "REFUNDED"]
      BY <1>2, <2>1 DEF Drawn
    <3> DEFINE emptied == [credit EXCEPT !.remaining = 0]
    <3>2. emptied \in Credit
      BY DEF Credit
    <3>3. Drawn(credit, toDraw) = [emptied EXCEPT !.status = "REFUNDED"]
      BY <3>1 DEF Credit
    <3> HIDE DEF emptied
    <3>4. QED BY <3>2, <3>3 DEF Credit
  <2>2. CASE ~ (toDraw >= credit.remaining)
    <3>1. credit.remaining - toDraw \in Nat
      BY <2>2 DEF Credit
    <3>2. Drawn(credit, toDraw)
            = [credit EXCEPT !.remaining = credit.remaining - toDraw]
      BY <1>2, <2>2 DEF Drawn
    <3>3. QED BY <3>1, <3>2 DEF Credit
  <2>3. QED BY <2>1, <2>2
<1>3. QED BY <1>1, <1>2

LEMMA CancelledReceiptTypes ==
  ASSUME TypeInv, NEW t \in Transactions, NEW i \in DOMAIN receipts[t],
         receipts' = [receipts EXCEPT ![t][i].status = "CANCELLED"]
  PROVE  receipts' \in [Transactions -> Seq(Receipt)]
<1> DEFINE receipt == [receipts[t][i] EXCEPT !.status = "CANCELLED"]
           row == [receipts[t] EXCEPT ![i] = receipt]
<1>1. receipts[t] \in Seq(Receipt) /\ i \in 1..Len(receipts[t])
  BY DEF TypeInv, TypeOK
<1>2. receipt \in Receipt
  <2>1. receipts[t][i] \in Receipt
    BY <1>1, ElementOfSeq
  <2>2. QED BY <2>1 DEF Receipt
<1>3. receipts' = [receipts EXCEPT ![t] = row]
  OBVIOUS
<1> HIDE DEF receipt
<1>4. row \in Seq(Receipt)
  BY <1>1, <1>2, ExceptSeq
<1> HIDE DEF row
<1>5. QED BY <1>3, <1>4 DEF TypeInv, TypeOK

(* An unmatch: the reversed amounts stay natural numbers, the voided       *)
(* credits and the cancelled receipt stay in their sequences.              *)
LEMMA UnmatchTypes ==
  ASSUME TypeInv, NEW t \in Transactions, Unmatch(t)
  PROVE  TypeInv'
<1>1. receivables' \in [Receivables -> Receivable]
  <2>1. ASSUME NEW r \in Receivables
        PROVE  receivables'[r] \in Receivable
    <3>1. receivables[r] \in Receivable /\ allocations[t][r] \in Nat
          /\ IsPastDue(r) \in BOOLEAN
      BY DEF TypeInv, TypeOK, IsPastDue
    <3>2. ReversePaymentDelta(receivables[r], allocations[t][r], IsPastDue(r))
            \in Receivable
      BY <3>1, DeltaTypes
    <3>3. QED BY <3>1, <3>2 DEF Unmatch, ReverseByTransaction
  <2>2. receivables' = [r \in Receivables |-> receivables'[r]]
    BY DEF Unmatch, ReverseByTransaction
  <2>3. QED BY <2>1, <2>2
<1>2. allocations' \in [Transactions -> [Receivables -> Nat]]
  BY DEF Unmatch, ReverseByTransaction, TypeInv, TypeOK, NoAllocation
<1>3. ledger' \in [Students -> Int]
  <2>1. ASSUME NEW s \in Students PROVE ReversedFrom(t, s) \in Int
    <3> DEFINE row == [r \in Receivables |->
                         IF StudentOf[r] = s THEN allocations[t][r] ELSE 0]
    <3>1. row \in [1..NumReceivables -> Int]
      <4>1. \A r \in Receivables : allocations[t][r] \in Int
        BY DEF TypeInv, TypeOK
      <4>2. QED BY <4>1 DEF Receivables
    <3> HIDE DEF row
    <3>2. Total(row, NumReceivables) \in Int
      BY <3>1, SizesAssumption, TotalType
    <3>3. QED BY <3>2 DEF row, ReversedFrom
  <2>2. \A s \in Students : ledger[s] + ReversedFrom(t, s) \in Int
    BY <2>1 DEF TypeInv, TypeOK
  <2>3. QED BY <2>2 DEF Unmatch, ReverseByTransaction
<1>4. receipts' \in [Transactions -> Seq(Receipt)]
  <2>0. CancelByTransaction(t)
    BY DEF Unmatch
  <2>1. CASE UNCHANGED receipts
    BY <2>1 DEF TypeInv, TypeOK
  <2>2. CASE ~ UNCHANGED receipts
    <3>1. PICK i \in DOMAIN receipts[t] :
            receipts' = [receipts EXCEPT ![t][i].status = "CANCELLED"]
      BY <2>0, <2>2, Zenon DEF CancelByTransaction
    <3>2. QED BY <3>1, CancelledReceiptTypes
  <2>3. QED BY <2>1, <2>2
<1>5. credits' \in [Transactions -> Seq(Credit)]
  <2> DEFINE row == [i \in DOMAIN credits[t] |-> Voided(credits[t][i])]
  <2>1. credits[t] \in Seq(Credit) /\ Len(credits[t]) \in Nat
        /\ DOMAIN credits[t] = 1..Len(credits[t])
    BY DEF TypeInv, TypeOK
  <2>2. \A i \in 1..Len(credits[t]) : Voided(credits[t][i]) \in Credit
    BY <2>1, CreditType, VoidedType
  <2>3. row \in [1..Len(credits[t]) -> Credit]
    BY <2>1, <2>2
  <2>4. credits' = [credits EXCEPT ![t] = row]
    BY DEF Unmatch
  <2> HIDE DEF row
  <2>5. row \in Seq(Credit)
    BY <2>1, <2>3, FunctionIsSeq
  <2>6. QED BY <2>4, <2>5 DEF TypeInv, TypeOK
<1>6. transactions' \in [Transactions -> Transaction]
  BY DEF Unmatch, TypeInv, TypeOK, Transaction
<1>7. reconciliations' \in [Transactions -> Reconciliation]
  BY DEF Unmatch, TypeInv, TypeOK, Reconciliation
<1>8. orders' \in [Orders -> Order] /\ refunds' \in [Transactions -> Nat]
      /\ OrdersHaveItems'
  BY DEF Unmatch, TypeInv, TypeOK, OrdersHaveItems
<1>9. QED
  BY <1>1, <1>2, <1>3, <1>4, <1>5, <1>6, <1>7, <1>8 DEF TypeInv, TypeOK

(* What is left to draw from the i-th credit on is a natural number. *)
LEMMA StillToDrawType ==
  ASSUME TypeInv, NEW t \in Transactions, NEW amount \in Nat,
         NEW i \in 0..Len(credits[t])
  PROVE  StillToDraw(t, amount, i) \in Nat
<1> DEFINE row == [j \in DOMAIN credits[t] |-> AvailableAmount(credits[t][j])]
<1>1. credits[t] \in Seq(Credit) /\ Len(credits[t]) \in Nat
      /\ DOMAIN credits[t] = 1..Len(credits[t])
  BY DEF TypeInv, TypeOK
<1>2. \A j \in 1..Len(credits[t]) : AvailableAmount(credits[t][j]) \in Nat
  BY <1>1, CreditType, AvailableAmountType
<1>3. row \in [1..Len(credits[t]) -> Int]
      /\ \A j \in 1..Len(credits[t]) : row[j] >= 0
  BY <1>1, <1>2
<1> DEFINE before == RunningTotal(row, Len(credits[t]))[i]
<1> HIDE DEF row
<1>4. before \in Nat
  BY <1>1, <1>3, TotalType
<1>5. StillToDraw(t, amount, i) = IF before >= amount THEN 0 ELSE amount - before
  BY Zenon DEF StillToDraw, row
<1> HIDE DEF before
<1>6. QED BY <1>4, <1>5

(* Among the available credits there is an oldest one, of a student. *)
LEMMA OldestAvailableIsOne ==
  ASSUME TypeInv, NEW t \in Transactions,
         \E i \in DOMAIN credits[t] : credits[t][i].status = "AVAILABLE"
  PROVE  credits[t][OldestAvailable(t)].student \in Students
<1> DEFINE available == {i \in DOMAIN credits[t] : credits[t][i].status = "AVAILABLE"}
<1>1. available \in SUBSET Nat /\ available # {}
  BY DEF TypeInv, TypeOK
<1>2. PICK i \in available : \A j \in available : i <= j
  <2> HIDE DEF available
  <2>1. QED BY <1>1, LeastNumber
<1>3. OldestAvailable(t) \in DOMAIN credits[t]
  BY <1>2, Zenon DEF OldestAvailable
<1>4. credits[t][OldestAvailable(t)] \in Credit
  BY <1>3, CreditType
<1>5. QED BY <1>4 DEF Credit

LEMMA RefundTypes ==
  ASSUME TypeInv, NEW t \in Transactions, NEW amount \in RefundAmounts,
         Refund(t, amount)
  PROVE  TypeInv'
<1>0. amount \in Nat
  BY InputsAssumption
<1>1. credits[t] \in Seq(Credit) /\ Len(credits[t]) \in Nat
      /\ DOMAIN credits[t] = 1..Len(credits[t])
  BY DEF TypeInv, TypeOK
<1>2. credits' \in [Transactions -> Seq(Credit)]
  <2> DEFINE toDraw(i) == StillToDraw(t, amount, i - 1)
             row == [i \in DOMAIN credits[t] |-> Drawn(credits[t][i], toDraw(i))]
  <2>1. ASSUME NEW i \in 1..Len(credits[t])
        PROVE  Drawn(credits[t][i], toDraw(i)) \in Credit
    <3>1. toDraw(i) \in Nat
      <4>1. i - 1 \in 0..Len(credits[t])
        BY <1>1
      <4>2. QED BY <1>0, <4>1, StillToDrawType
    <3>2. credits[t][i] \in Credit
      BY <1>1, CreditType
    <3> DEFINE credit == credits[t][i]
    <3> HIDE DEF toDraw, credit
    <3>3. credit \in Credit => Drawn(credit, toDraw(i)) \in Credit
      BY <3>1, DrawnType
    <3>4. QED BY <3>2, <3>3 DEF credit
  <2>2. row \in [1..Len(credits[t]) -> Credit]
    BY <1>1, <2>1
  <2>3. credits' = [credits EXCEPT ![t] = row]
    BY DEF Refund
  <2> HIDE DEF row
  <2>4. row \in Seq(Credit)
    BY <1>1, <2>2, FunctionIsSeq
  <2>5. QED BY <2>3, <2>4 DEF TypeInv, TypeOK
<1>3. ledger' \in [Students -> Int]
  <2> DEFINE student == credits[t][OldestAvailable(t)].student
  <2>1. ledger' = [ledger EXCEPT ![student] = @ + amount]
    BY Zenon DEF Refund, Debit
  <2>2. student \in Students
    BY OldestAvailableIsOne DEF Refund
  <2> HIDE DEF student
  <2>3. QED BY <1>0, <2>1, <2>2 DEF TypeInv, TypeOK
<1>4. refunds' \in [Transactions -> Nat]
  BY <1>0 DEF Refund, TypeInv, TypeOK
<1>5. QED
  BY <1>2, <1>3, <1>4 DEF Refund, TypeInv, TypeOK, OrdersHaveItems

(* One step per action. *)
LEMMA NextTypes == TypeInv /\ [Next]_vars => TypeInv'
<1> SUFFICES ASSUME TypeInv, [Next]_vars PROVE TypeInv'
  OBVIOUS
<1>1. ASSUME NEW r \in Receivables, NEW amount \in FeeAmounts,
             CreateReceivable(r, amount)
      PROVE  TypeInv'
  <2>1. amount \in Int /\ NewReceivable(amount) \in Receivable
        /\ StudentOf[r] \in Students
    BY InputsAssumption, NewReceivableType
  <2>2. receivables' \in [Receivables -> Receivable] /\ ledger' \in [Students -> Int]
    BY <1>1, <2>1 DEF CreateReceivable, Debit, TypeInv, TypeOK
  <2>3. QED BY <1>1, <2>2 DEF CreateReceivable, TypeInv, TypeOK, OrdersHaveItems
<1>2. ASSUME NEW r \in Receivables, NEW amount \in DiscountAmounts,
             Discount(r, amount)
      PROVE  TypeInv'
  <2>0. receivables[r] \in Receivable /\ IsPastDue(r) \in BOOLEAN
    BY DEF TypeInv, TypeOK, IsPastDue
  <2>1. amount \in Int /\ StudentOf[r] \in Students
        /\ ApplyDiscountDelta(receivables[r], amount, IsPastDue(r)) \in Receivable
    BY <2>0, InputsAssumption, DeltaTypes
  <2>2. receivables' \in [Receivables -> Receivable] /\ ledger' \in [Students -> Int]
    BY <1>2, <2>1 DEF Discount, CreditTo, TypeInv, TypeOK
  <2>3. QED BY <1>2, <2>2 DEF Discount, TypeInv, TypeOK, OrdersHaveItems
<1>3. ASSUME NEW r \in Receivables, NEW delta \in AdjustmentDeltas,
             Adjust(r, delta)
      PROVE  TypeInv'
  <2>0. receivables[r] \in Receivable /\ IsPastDue(r) \in BOOLEAN
    BY DEF TypeInv, TypeOK, IsPastDue
  <2>1. delta \in Int /\ StudentOf[r] \in Students
        /\ ApplyAdjustmentDelta(receivables[r], delta, IsPastDue(r)) \in Receivable
    BY <2>0, InputsAssumption, DeltaTypes
  <2>2. receivables' \in [Receivables -> Receivable] /\ ledger' \in [Students -> Int]
    BY <1>3, <2>1 DEF Adjust, Debit, TypeInv, TypeOK
  <2>3. QED BY <1>3, <2>2 DEF Adjust, TypeInv, TypeOK, OrdersHaveItems
<1>4. ASSUME NEW o \in Orders, NEW items \in ItemLists, CreateOrder(o, items)
      PROVE  TypeInv'
  <2>1. items \in Seq(Receivables) /\ items # <<>>
    BY InputsAssumption
  <2>2. orders' \in [Orders -> Order] /\ OrdersHaveItems'
    BY <1>4, <2>1 DEF CreateOrder, TypeInv, TypeOK, OrdersHaveItems, Order
  <2>3. QED BY <1>4, <2>2 DEF CreateOrder, TypeInv, TypeOK
<1>5. ASSUME NEW o \in Orders, GetQr(o)
      PROVE  TypeInv'
  <2>1. orders' \in [Orders -> Order] /\ OrdersHaveItems'
    BY <1>5 DEF GetQr, TypeInv, TypeOK, OrdersHaveItems, Order
  <2>2. QED BY <1>5, <2>1 DEF GetQr, TypeInv, TypeOK
<1>6. ASSUME NEW t \in Transactions, NEW amount \in TransferAmounts,
             NEW o \in Orders \union {NoOrder}, IngestMatched(t, amount, o)
      PROVE  TypeInv'
  <2>1. amount \in Int /\ o \in Orders /\ Payable(o)
    BY <1>6, InputsAssumption DEF IngestMatched, Payable
  <2>2. reconciliations' \in [Transactions -> Reconciliation]
    BY <1>6 DEF IngestMatched, TypeInv, TypeOK, Reconciliation
  <2>3. QED BY <1>6, <2>1, <2>2, AllocateToOrderTypes DEF IngestMatched
<1>7. ASSUME NEW t \in Transactions, NEW amount \in TransferAmounts,
             NEW o \in Orders \union {NoOrder}, IngestUnmatched(t, amount, o)
      PROVE  TypeInv'
  <2>1. amount \in Int
    BY InputsAssumption
  <2>2. /\ reconciliations' \in [Transactions -> Reconciliation]
        /\ transactions' \in [Transactions -> Transaction]
    BY <1>7, <2>1
       DEF IngestUnmatched, TypeInv, TypeOK, Reconciliation, Transaction
  <2>3. QED BY <1>7, <2>2 DEF IngestUnmatched, TypeInv, TypeOK, OrdersHaveItems
<1>8. ASSUME NEW t \in Transactions, NEW o \in Orders, Match(t, o)
      PROVE  TypeInv'
  <2>1. transactions[t].amount \in Int /\ Payable(o)
    BY <1>8 DEF Match, TypeInv, TypeOK, Transaction
  <2>2. reconciliations' \in [Transactions -> Reconciliation]
    BY <1>8 DEF Match, TypeInv, TypeOK, Reconciliation
  <2>3. QED BY <1>8, <2>1, <2>2, AllocateToOrderTypes DEF Match
<1>9. ASSUME NEW t \in Transactions, Unmatch(t)
      PROVE  TypeInv'
  BY <1>9, UnmatchTypes
<1>10. ASSUME NEW t \in Transactions, NEW amount \in RefundAmounts,
              Refund(t, amount)
       PROVE  TypeInv'
  BY <1>10, RefundTypes
<1>11. ASSUME NEW t \in Transactions, NEW i \in DOMAIN receipts[t],
              CancelReceipt(t, i)
       PROVE  TypeInv'
  <2>1. receipts' \in [Transactions -> Seq(Receipt)]
    <3>1. receipts' = [receipts EXCEPT ![t][i].status = "CANCELLED"]
      BY <1>11 DEF CancelReceipt
    <3>2. QED BY <3>1, CancelledReceiptTypes
  <2>2. QED BY <1>11, <2>1 DEF CancelReceipt, TypeInv, TypeOK, OrdersHaveItems
<1>12. CASE UNCHANGED vars
  BY <1>12 DEF vars, TypeInv, TypeOK, OrdersHaveItems
<1>13. QED
  BY <1>1, <1>2, <1>3, <1>4, <1>5, <1>6, <1>7, <1>8, <1>9, <1>10, <1>11, <1>12
     DEF Next

LEMMA TypeInvariance == Spec => []TypeInv
<1>1. QED BY InitTypes, NextTypes, PTL DEF Spec

(* In every reachable state every table holds rows of its type.  No credit *)
(* is drawn below zero, no allocation or payment is negative, whatever the *)
(* order of payments, corrections, reversals and refunds.                  *)
THEOREM TypeCorrect == Spec => []TypeOK
<1>1. TypeInv => TypeOK
  BY DEF TypeInv
<1>2. QED BY <1>1, TypeInvariance, PTL

-----------------------------------------------------------------------------
(* What receivables count as paid is what is allocated to them. *)

(* A receivable that is not there yet has nothing paid: it is created with *)
(* nothing paid, which agrees with its allocations only if it had none.    *)
UnchargedUnpaid ==
  \A r \in Receivables : ~ Exists(receivables[r]) => receivables[r].amountPaid = 0

PaidInv == UnchargedUnpaid /\ PaidIsAllocated

(* Changing what one transaction allocates to r changes r's total by that. *)
LEMMA AllocatedToUpdate ==
  ASSUME TypeInv, TypeInv', NEW t \in Transactions, NEW r \in Receivables,
         \A u \in Transactions : u # t => allocations'[u] = allocations[u]
  PROVE  /\ AllocatedTo(r)' = AllocatedTo(r) + allocations'[t][r] - allocations[t][r]
         /\ AllocatedTo(r) \in Int
         /\ allocations[t][r] \in Nat /\ allocations'[t][r] \in Nat
         /\ allocations[t][r] <= AllocatedTo(r)
<1> DEFINE f == [u \in Transactions |-> allocations[u][r]]
           g == [u \in Transactions |-> allocations'[u][r]]
<1>1. /\ f \in [1..NumTransactions -> Nat] /\ f \in [1..NumTransactions -> Int]
      /\ g \in [1..NumTransactions -> Int]
  <2>1. \A u \in Transactions : allocations[u][r] \in Nat /\ allocations'[u][r] \in Nat
    BY DEF TypeInv, TypeOK
  <2>2. QED BY <2>1 DEF Transactions
<1>2. /\ f[t] = allocations[t][r] /\ g[t] = allocations'[t][r]
      /\ allocations[t][r] \in Nat /\ allocations'[t][r] \in Nat
      /\ t \in 1..NumTransactions
      /\ \A u \in 1..NumTransactions : u # t => g[u] = f[u]
  BY DEF TypeInv, TypeOK, Transactions
<1>3. AllocatedTo(r) = Total(f, NumTransactions)
      /\ AllocatedTo(r)' = Total(g, NumTransactions)
  BY DEF AllocatedTo
<1> HIDE DEF f, g
<1>4. Total(g, NumTransactions) = Total(f, NumTransactions) + g[t] - f[t]
  BY <1>1, <1>2, SizesAssumption, TotalUpdate
<1>5. f[t] <= Total(f, NumTransactions) /\ Total(f, NumTransactions) \in Int
  BY <1>1, <1>2, SizesAssumption, TotalAtLeastRow, TotalType
<1>6. QED BY <1>2, <1>3, <1>4, <1>5

LEMMA InitPaid == Init => PaidInv
<1> SUFFICES ASSUME Init, NEW r \in Receivables
             PROVE  receivables[r].amountPaid = 0 /\ AllocatedTo(r) = 0
  BY DEF PaidInv, UnchargedUnpaid, PaidIsAllocated
<1> DEFINE f == [t \in Transactions |-> allocations[t][r]]
<1>1. f \in [1..NumTransactions -> Int] /\ \A t \in 1..NumTransactions : f[t] = 0
  BY DEF Init, NoAllocation, Transactions
<1> HIDE DEF f
<1>2. Total(f, NumTransactions) = 0
  BY <1>1, SizesAssumption, TotalOfZeros
<1>3. AllocatedTo(r) = 0
  BY <1>2 DEF AllocatedTo, f
<1>4. receivables[r].amountPaid = 0
  BY NewReceivableType DEF Init
<1>5. QED BY <1>3, <1>4

(* Requests that allocate and reverse nothing. *)
LEMMA PaidUnchanged ==
  ASSUME PaidInv, UNCHANGED allocations,
         \A r \in Receivables :
           /\ receivables'[r].amountPaid = receivables[r].amountPaid
           /\ ~ Exists(receivables'[r]) => ~ Exists(receivables[r])
  PROVE  PaidInv'
BY DEF PaidInv, UnchargedUnpaid, PaidIsAllocated, AllocatedTo

LEMMA AllocateToOrderPaid ==
  ASSUME TypeInv, TypeInv', PaidInv, NEW t \in Transactions, NEW o \in Orders,
         NEW amount \in Int, AllocateToOrder(t, o, amount)
  PROVE  PaidInv'
<1> DEFINE items == orders[o].items
           done == AllocationRun(items, amount)[Len(items)]
<1>1. RunOK(done, amount)
  <2>1. items \in Seq(Receivables)
    BY DEF TypeInv, TypeOK, Order
  <2>2. QED BY <2>1, AllocationRunOK DEF TypeInv, TypeOK
<1>2. receivables' = done.receivables
  BY DEF AllocateToOrder
<1>3. allocations' = [allocations EXCEPT
        ![t] = [r \in Receivables |-> allocations[t][r] + done.allocated[r]]]
  BY DEF AllocateToOrder
<1> HIDE DEF items, done
<1>4. ASSUME NEW r \in Receivables
      PROVE  /\ receivables'[r].amountPaid = AllocatedTo(r)'
             /\ ~ Exists(receivables'[r]) => receivables'[r].amountPaid = 0
  <2>1. /\ receivables'[r].amountPaid = receivables[r].amountPaid + done.allocated[r]
        /\ ~ Exists(receivables'[r]) => receivables'[r] = receivables[r]
        /\ done.allocated[r] \in Nat
    BY <1>1, <1>2 DEF RunOK, Run
  <2>2. /\ allocations'[t][r] = allocations[t][r] + done.allocated[r]
        /\ \A u \in Transactions : u # t => allocations'[u] = allocations[u]
    BY <1>3 DEF TypeInv, TypeOK
  <2>3. receivables[r].amountPaid = AllocatedTo(r)
        /\ (~ Exists(receivables[r]) => receivables[r].amountPaid = 0)
    BY DEF PaidInv, PaidIsAllocated, UnchargedUnpaid
  <2>4. /\ AllocatedTo(r)' = AllocatedTo(r) + allocations'[t][r] - allocations[t][r]
        /\ AllocatedTo(r) \in Int /\ allocations[t][r] \in Nat
    BY <2>2, AllocatedToUpdate
  <2>5. AllocatedTo(r)' = AllocatedTo(r) + done.allocated[r]
    BY <2>1, <2>2, <2>4
  <2>6. QED BY <2>1, <2>3, <2>5
<1>5. QED BY <1>4 DEF PaidInv, UnchargedUnpaid, PaidIsAllocated

(* A reversal takes off each receivable exactly what the transaction had   *)
(* allocated to it: the receivable counts at least that much as paid, so   *)
(* the max(0, ...) of reversePaymentDelta never cuts anything off.         *)
LEMMA UnmatchPaid ==
  ASSUME TypeInv, TypeInv', PaidInv, NEW t \in Transactions, Unmatch(t)
  PROVE  PaidInv'
<1>1. ASSUME NEW r \in Receivables
      PROVE  /\ receivables'[r].amountPaid = AllocatedTo(r)'
             /\ ~ Exists(receivables'[r]) => receivables'[r].amountPaid = 0
  <2>1. /\ allocations'[t][r] = 0
        /\ \A u \in Transactions : u # t => allocations'[u] = allocations[u]
    BY DEF Unmatch, ReverseByTransaction, NoAllocation, TypeInv, TypeOK
  <2>2. /\ AllocatedTo(r)' = AllocatedTo(r) + allocations'[t][r] - allocations[t][r]
        /\ AllocatedTo(r) \in Int /\ allocations[t][r] \in Nat
        /\ allocations[t][r] <= AllocatedTo(r)
    BY <2>1, AllocatedToUpdate
  <2>3. receivables[r].amountPaid = AllocatedTo(r)
        /\ (~ Exists(receivables[r]) => receivables[r].amountPaid = 0)
    BY DEF PaidInv, PaidIsAllocated, UnchargedUnpaid
  <2>4. CASE allocations[t][r] > 0
    <3> DEFINE reversed == ReversePaymentDelta(receivables[r], allocations[t][r],
                                               IsPastDue(r))
    <3>1. receivables'[r] = reversed
      BY <2>4 DEF Unmatch, ReverseByTransaction
    <3>2. receivables[r] \in Receivable /\ IsPastDue(r) \in BOOLEAN
      BY DEF TypeInv, TypeOK, IsPastDue
    <3>3. /\ Exists(reversed)
          /\ reversed.amountPaid
               = IF allocations[t][r] <= receivables[r].amountPaid
                 THEN receivables[r].amountPaid - allocations[t][r] ELSE 0
      BY <2>2, <3>2, DeltaTypes
    <3> HIDE DEF reversed
    <3>4. receivables'[r].amountPaid = AllocatedTo(r) - allocations[t][r]
      BY <2>2, <2>3, <3>1, <3>3
    <3>5. AllocatedTo(r)' = AllocatedTo(r) - allocations[t][r]
      BY <2>1, <2>2
    <3>6. QED BY <3>1, <3>3, <3>4, <3>5
  <2>5. CASE ~ (allocations[t][r] > 0)
    <3>1. receivables'[r] = receivables[r]
      BY <2>5 DEF Unmatch, ReverseByTransaction
    <3>2. AllocatedTo(r)' = AllocatedTo(r)
      BY <2>1, <2>2, <2>5
    <3>3. QED BY <2>3, <3>1, <3>2
  <2>6. QED BY <2>4, <2>5
<1>2. QED BY <1>1 DEF PaidInv, UnchargedUnpaid, PaidIsAllocated

LEMMA NextPaid == TypeInv /\ TypeInv' /\ PaidInv /\ [Next]_vars => PaidInv'
<1> SUFFICES ASSUME TypeInv, TypeInv', PaidInv, [Next]_vars PROVE PaidInv'
  OBVIOUS
<1>1. ASSUME NEW r \in Receivables, NEW amount \in FeeAmounts,
             CreateReceivable(r, amount)
      PROVE  PaidInv'
  <2>1. amount \in Int /\ receivables \in [Receivables -> Receivable]
    BY InputsAssumption DEF TypeInv, TypeOK
  <2>2. receivables' = [receivables EXCEPT ![r] = NewReceivable(amount)]
        /\ ~ Exists(receivables[r]) /\ UNCHANGED allocations
    BY <1>1 DEF CreateReceivable
  <2>3. receivables[r].amountPaid = 0
    BY <2>2 DEF PaidInv, UnchargedUnpaid
  <2>4. ASSUME NEW q \in Receivables
        PROVE  /\ receivables'[q].amountPaid = receivables[q].amountPaid
               /\ ~ Exists(receivables'[q]) => ~ Exists(receivables[q])
    BY <2>1, <2>2, <2>3, NewReceivableType
  <2>5. QED BY <2>2, <2>4, PaidUnchanged
<1>2. ASSUME NEW r \in Receivables, NEW amount \in DiscountAmounts,
             Discount(r, amount)
      PROVE  PaidInv'
  <2> DEFINE new == ApplyDiscountDelta(receivables[r], amount, IsPastDue(r))
  <2>1. receivables[r] \in Receivable /\ IsPastDue(r) \in BOOLEAN /\ amount \in Int
        /\ receivables \in [Receivables -> Receivable]
    BY InputsAssumption DEF TypeInv, TypeOK, IsPastDue
  <2>2. Exists(new) /\ new.amountPaid = receivables[r].amountPaid
    BY <2>1, DeltaTypes
  <2>3. receivables' = [receivables EXCEPT ![r] = new] /\ UNCHANGED allocations
    BY <1>2 DEF Discount
  <2> HIDE DEF new
  <2>4. QED BY <2>1, <2>2, <2>3, PaidUnchanged
<1>3. ASSUME NEW r \in Receivables, NEW delta \in AdjustmentDeltas,
             Adjust(r, delta)
      PROVE  PaidInv'
  <2> DEFINE new == ApplyAdjustmentDelta(receivables[r], delta, IsPastDue(r))
  <2>1. receivables[r] \in Receivable /\ IsPastDue(r) \in BOOLEAN /\ delta \in Int
        /\ receivables \in [Receivables -> Receivable]
    BY InputsAssumption DEF TypeInv, TypeOK, IsPastDue
  <2>2. Exists(new) /\ new.amountPaid = receivables[r].amountPaid
    BY <2>1, DeltaTypes
  <2>3. receivables' = [receivables EXCEPT ![r] = new] /\ UNCHANGED allocations
    BY <1>3 DEF Adjust
  <2> HIDE DEF new
  <2>4. QED BY <2>1, <2>2, <2>3, PaidUnchanged
<1>4. ASSUME NEW t \in Transactions, NEW amount \in TransferAmounts,
             NEW o \in Orders \union {NoOrder}, IngestMatched(t, amount, o)
      PROVE  PaidInv'
  <2>1. amount \in Int /\ o \in Orders /\ AllocateToOrder(t, o, amount)
    BY <1>4, InputsAssumption DEF IngestMatched, Payable
  <2>2. QED BY <2>1, AllocateToOrderPaid
<1>5. ASSUME NEW t \in Transactions, NEW o \in Orders, Match(t, o)
      PROVE  PaidInv'
  <2>1. transactions[t].amount \in Int
        /\ AllocateToOrder(t, o, transactions[t].amount)
    BY <1>5 DEF Match, TypeInv, TypeOK, Transaction
  <2>2. QED BY <2>1, AllocateToOrderPaid
<1>6. ASSUME NEW t \in Transactions, Unmatch(t)
      PROVE  PaidInv'
  BY <1>6, UnmatchPaid
<1>7. ASSUME UNCHANGED <<receivables, allocations>>
      PROVE  PaidInv'
  BY <1>7, PaidUnchanged
<1>8. QED
  BY <1>1, <1>2, <1>3, <1>4, <1>5, <1>6, <1>7
     DEF Next, CreateOrder, GetQr, IngestUnmatched, Refund, CancelReceipt, vars

(* In every reachable state a receivable counts as paid exactly what the   *)
(* live allocations of all transactions give it: through any number of     *)
(* payments, discounts, adjustments, reversals and new matches.            *)
THEOREM PaidIsAllocatedAlways == Spec => []PaidIsAllocated
<1>1. PaidInv => PaidIsAllocated
  BY DEF PaidInv
<1>2. QED
  BY <1>1, TypeInvariance, InitPaid, NextPaid, PTL DEF Spec

-----------------------------------------------------------------------------
(* The amounts of every receivable add up.  Nothing in the program sets    *)
(* CANCELLED.                                                              *)
RowsInv == \A r \in Receivables : Sound(receivables[r])

-----------------------------------------------------------------------------
(* What the loop over an order's items does to the receivables.            *)

(* Money goes to items of the order only, it lowers what they lack by as   *)
(* much, and never below zero.                                             *)
RunSound(run, items) ==
  \A r \in Receivables :
    /\ Sound(run.receivables[r])
    /\ run.receivables[r].amountOutstanding
         = receivables[r].amountOutstanding - run.allocated[r]
    /\ run.allocated[r] > 0 =>
         /\ run.receivables[r].amountOutstanding >= 0
         /\ \E i \in DOMAIN items : items[i] = r

LEMMA AllocateItemSound ==
  ASSUME receivables \in [Receivables -> Receivable], NEW run \in Run,
         NEW items, NEW i \in DOMAIN items, items[i] \in Receivables,
         RunSound(run, items)
  PROVE  RunSound(AllocateItem(run, items[i]), items)
<1> DEFINE r == items[i]
           take == ToAllocate(run, r)
           next == AllocateItem(run, r)
<1>1. CASE run.receivables[r].status = "CANCELLED" \/ take <= 0
  BY <1>1 DEF AllocateItem
<1>2. CASE ~ (run.receivables[r].status = "CANCELLED" \/ take <= 0)
  <2>1. /\ run.available \in Int /\ run.allocatedTotal \in Nat
        /\ run.allocated \in [Receivables -> Nat]
        /\ run.receivables \in [Receivables -> Receivable]
    BY DEF Run
  <2>2. /\ run.receivables[r] \in Receivable /\ IsPastDue(r) \in BOOLEAN
        /\ run.receivables[r].amountOutstanding \in Int
        /\ receivables[r].amountOutstanding \in Int
        /\ run.allocated[r] \in Nat
    BY <2>1 DEF IsPastDue, Receivable
  <2>3. take \in Nat /\ take > 0 /\ take <= run.receivables[r].amountOutstanding
    BY <1>2, <2>1, <2>2 DEF ToAllocate
  <2> DEFINE paid == ApplyPaymentDelta(run.receivables[r], take, IsPastDue(r))
             alloc == [run.allocated EXCEPT ![r] = @ + take]
             recs == [run.receivables EXCEPT ![r] = paid]
  <2>4. next.receivables = recs /\ next.allocated = alloc
    BY <1>2 DEF AllocateItem
  <2>5. /\ Sound(paid)
        /\ paid.amountOutstanding = run.receivables[r].amountOutstanding - take
    <3> HIDE DEF take
    <3>1. Sound(run.receivables[r])
      BY DEF RunSound
    <3>2. QED BY <2>2, <2>3, <3>1, DeltaEffects
  <2>6. /\ recs[r] = paid /\ alloc[r] = run.allocated[r] + take
        /\ \A q \in Receivables :
             q # r => recs[q] = run.receivables[q] /\ alloc[q] = run.allocated[q]
    BY <2>1
  <2>7. run.receivables[r].amountOutstanding
          = receivables[r].amountOutstanding - run.allocated[r]
    BY DEF RunSound
  <2> HIDE DEF take, next, alloc, recs, paid
  <2>8. /\ recs[r].amountOutstanding
             = receivables[r].amountOutstanding - alloc[r]
        /\ recs[r].amountOutstanding >= 0
    BY <2>2, <2>3, <2>5, <2>6, <2>7
  <2>9. ASSUME NEW q \in Receivables
        PROVE  /\ Sound(recs[q])
               /\ recs[q].amountOutstanding
                    = receivables[q].amountOutstanding - alloc[q]
               /\ alloc[q] > 0 =>
                    /\ recs[q].amountOutstanding >= 0
                    /\ \E j \in DOMAIN items : items[j] = q
    BY <2>5, <2>6, <2>8 DEF RunSound
  <2>10. RunSound(next, items)
    BY <2>4, <2>9 DEF RunSound
  <2>11. QED BY <2>10 DEF next
<1>3. QED BY <1>1, <1>2

LEMMA AllocationRunSound ==
  ASSUME receivables \in [Receivables -> Receivable], RowsInv,
         NEW amount \in Int, NEW items \in Seq(Receivables)
  PROVE  /\ \A i \in 0..Len(items) : RunSound(AllocationRun(items, amount)[i], items)
         /\ RunSound(AllocationRun(items, amount)[Len(items)], items)
<1> DEFINE run == AllocationRun(items, amount)
           Good == {i \in 0..Len(items) : RunSound(run[i], items)}
<1>0. Len(items) \in Nat /\ DOMAIN items = 1..Len(items)
  OBVIOUS
<1>1. IsRun(run, items, amount, Len(items))
  BY AllocationRunIsRun
<1>2. \A i \in 0..Len(items) : run[i] \in Run
  BY AllocationRunOK DEF RunOK
<1> HIDE DEF run
<1>3. 0 \in Good
  <2> DEFINE start == StartOfRun(amount)
  <2>1. run[0] = start /\ start.receivables = receivables
        /\ start.allocated = NoAllocation
    BY <1>1 DEF IsRun, StartOfRun
  <2>2. \A r \in Receivables :
          receivables[r].amountOutstanding \in Int /\ NoAllocation[r] = 0
    BY DEF Receivable, NoAllocation
  <2> HIDE DEF start
  <2>3. RunSound(start, items)
    BY <2>1, <2>2 DEF RunSound, RowsInv
  <2>4. QED BY <1>0, <2>1, <2>3
<1>4. ASSUME NEW i \in 1..Len(items), i - 1 \in Good PROVE i \in Good
  <2>1. RunSound(run[i - 1], items) /\ items[i] \in Receivables
        /\ run[i - 1] \in Run /\ i \in DOMAIN items
    BY <1>0, <1>2, <1>4
  <2>2. RunSound(AllocateItem(run[i - 1], items[i]), items)
    BY <2>1, AllocateItemSound
  <2>3. run[i] = AllocateItem(run[i - 1], items[i])
    BY <1>1 DEF IsRun
  <2>4. QED BY <1>0, <2>2, <2>3
<1>5. \A i \in 0..Len(items) : i \in Good
  <2> HIDE DEF Good
  <2>1. QED BY <1>0, <1>3, <1>4, RowInduction
<1>6. Len(items) \in 0..Len(items)
  BY <1>0
<1>7. QED BY <1>5, <1>6 DEF run

(* What allocating amount to o does, where `done' is the end of the loop   *)
(* and `surplus' what it leaves.                                           *)
Allocated(t, o, amount, done, surplus) ==
  LET items   == orders[o].items
      student == StudentOf[items[1]]
      paid    == done.allocatedTotal + surplus
  IN  /\ RunOK(done, amount) /\ RunSound(done, items)
      /\ paid = IF amount > 0 THEN amount ELSE 0
      /\ receivables' = done.receivables
      /\ allocations' = [allocations EXCEPT ![t] =
           [r \in Receivables |-> allocations[t][r] + done.allocated[r]]]
      /\ credits' = IF surplus = 0 THEN credits ELSE [credits EXCEPT
           ![t] = Append(@, [student |-> student, amount |-> surplus,
                             remaining |-> surplus, status |-> "AVAILABLE"])]
      /\ ledger' = [ledger EXCEPT ![student] = @ - paid]
      /\ orders' = [orders EXCEPT ![o].status =
           IF FullyPaid(items, done.receivables) THEN "PAID" ELSE "PARTIALLY_PAID"]
      /\ transactions' = [transactions EXCEPT
           ![t] = [status |-> "ALLOCATED", amount |-> amount]]
      /\ receipts' = IF paid = 0 THEN receipts ELSE [receipts EXCEPT
           ![t] = Append(@, [total |-> paid, status |-> "ISSUED"])]

LEMMA AllocateToOrderEffect ==
  ASSUME TypeInv, RowsInv, NEW t \in Transactions, NEW o \in Orders,
         NEW amount \in Int, AllocateToOrder(t, o, amount)
  PROVE  \E done \in Run, surplus \in Nat : Allocated(t, o, amount, done, surplus)
<1> DEFINE items == orders[o].items
           done == AllocationRun(items, amount)[Len(items)]
           surplus == IF done.available > 0 THEN done.available ELSE 0
<1>1. items \in Seq(Receivables) /\ receivables \in [Receivables -> Receivable]
  BY DEF TypeInv, TypeOK, Order
<1>2. RunOK(done, amount) /\ RunSound(done, items) /\ done \in Run
  BY <1>1, AllocationRunOK, AllocationRunSound DEF RunOK
<1> HIDE DEF done
<1>3. surplus \in Nat
      /\ done.allocatedTotal + surplus = IF amount > 0 THEN amount ELSE 0
  BY <1>2 DEF RunOK, Run
<1>4. /\ receivables' = done.receivables
      /\ allocations' = [allocations EXCEPT ![t] =
           [r \in Receivables |-> allocations[t][r] + done.allocated[r]]]
      /\ credits' = IF surplus = 0 THEN credits ELSE [credits EXCEPT
           ![t] = Append(@, [student |-> StudentOf[items[1]], amount |-> surplus,
                             remaining |-> surplus, status |-> "AVAILABLE"])]
      /\ ledger' = [ledger EXCEPT
           ![StudentOf[items[1]]] = @ - (done.allocatedTotal + surplus)]
      /\ orders' = [orders EXCEPT ![o].status =
           IF FullyPaid(items, done.receivables) THEN "PAID" ELSE "PARTIALLY_PAID"]
      /\ transactions' = [transactions EXCEPT
           ![t] = [status |-> "ALLOCATED", amount |-> amount]]
      /\ receipts' =
           IF done.allocatedTotal + surplus = 0 THEN receipts
           ELSE [receipts EXCEPT ![t] = Append(@,
                   [total |-> done.allocatedTotal + surplus, status |-> "ISSUED"])]
  BY Zenon DEF AllocateToOrder, CreditTo, done
<1> HIDE DEF items, surplus
<1>5. Allocated(t, o, amount, done, surplus)
  BY <1>2, <1>3, <1>4, Zenon DEF Allocated, items
<1>6. QED BY <1>2, <1>3, <1>5

-----------------------------------------------------------------------------
(* The rows of the receivables stay sound. *)

LEMMA InitRows == Init => RowsInv
BY NewReceivableSound DEF Init, RowsInv

LEMMA UnmatchRows ==
  ASSUME TypeInv, RowsInv, NEW t \in Transactions, Unmatch(t)
  PROVE  RowsInv'
<1> SUFFICES ASSUME NEW r \in Receivables PROVE Sound(receivables'[r])
  BY DEF RowsInv
<1>1. /\ receivables[r] \in Receivable /\ IsPastDue(r) \in BOOLEAN
      /\ allocations[t][r] \in Nat /\ Sound(receivables[r])
  BY DEF TypeInv, TypeOK, IsPastDue, RowsInv
<1>2. Sound(ReversePaymentDelta(receivables[r], allocations[t][r], IsPastDue(r)))
  BY <1>1, DeltaEffects
<1>3. QED BY <1>1, <1>2 DEF Unmatch, ReverseByTransaction

LEMMA NextRows == TypeInv /\ RowsInv /\ [Next]_vars => RowsInv'
<1> SUFFICES ASSUME TypeInv, RowsInv, [Next]_vars PROVE RowsInv'
  OBVIOUS
<1>0. /\ receivables \in [Receivables -> Receivable]
      /\ \A r \in Receivables : /\ receivables[r] \in Receivable
                                /\ IsPastDue(r) \in BOOLEAN
                                /\ Sound(receivables[r])
  BY DEF TypeInv, TypeOK, IsPastDue, RowsInv
<1>1. ASSUME NEW r \in Receivables, NEW amount \in FeeAmounts,
             CreateReceivable(r, amount)
      PROVE  RowsInv'
  <2>1. Sound(NewReceivable(amount))
    BY InputsAssumption, NewReceivableSound
  <2>2. QED BY <1>0, <1>1, <2>1 DEF CreateReceivable, RowsInv
<1>2. ASSUME NEW r \in Receivables, NEW amount \in DiscountAmounts,
             Discount(r, amount)
      PROVE  RowsInv'
  <2>1. Sound(ApplyDiscountDelta(receivables[r], amount, IsPastDue(r)))
    <3>1. amount \in Int
      BY InputsAssumption
    <3>2. QED BY <1>0, <3>1, DeltaEffects
  <2>2. QED BY <1>0, <1>2, <2>1 DEF Discount, RowsInv
<1>3. ASSUME NEW r \in Receivables, NEW delta \in AdjustmentDeltas,
             Adjust(r, delta)
      PROVE  RowsInv'
  <2>1. Sound(ApplyAdjustmentDelta(receivables[r], delta, IsPastDue(r)))
    <3>1. delta \in Int
      BY InputsAssumption
    <3>2. QED BY <1>0, <3>1, DeltaEffects
  <2>2. QED BY <1>0, <1>3, <2>1 DEF Adjust, RowsInv
<1>4. ASSUME NEW t \in Transactions, NEW o \in Orders, NEW amount \in Int,
             AllocateToOrder(t, o, amount)
      PROVE  RowsInv'
  <2>1. PICK done \in Run, surplus \in Nat :
          Allocated(t, o, amount, done, surplus)
    BY <1>4, AllocateToOrderEffect
  <2>2. QED BY <2>1 DEF Allocated, RunSound, RowsInv
<1>5. ASSUME NEW t \in Transactions, Unmatch(t)
      PROVE  RowsInv'
  BY <1>5, UnmatchRows
<1>6. ASSUME UNCHANGED receivables
      PROVE  RowsInv'
  BY <1>6 DEF RowsInv
<1>7. ASSUME NEW t \in Transactions, NEW amount \in TransferAmounts,
             NEW o \in Orders \union {NoOrder}, IngestMatched(t, amount, o)
      PROVE  RowsInv'
  BY <1>4, <1>7, InputsAssumption DEF IngestMatched, Payable
<1>8. ASSUME NEW t \in Transactions, NEW o \in Orders, Match(t, o)
      PROVE  RowsInv'
  BY <1>4, <1>8 DEF Match, TypeInv, TypeOK, Transaction
<1>9. QED
  BY <1>1, <1>2, <1>3, <1>5, <1>6, <1>7, <1>8
     DEF Next, CreateOrder, GetQr, IngestUnmatched, Refund, CancelReceipt, vars

LEMMA RowsInvariance == Spec => []RowsInv
<1>1. QED BY InitRows, NextRows, TypeInvariance, PTL DEF Spec

-----------------------------------------------------------------------------
(* The steps that pay: a transfer is allocated to an order, when the bank  *)
(* reports it or when it is matched by hand.                               *)

Unallocated(t) ==
  \/ transactions[t].status = "NONE"
  \/ reconciliations[t].status = "UNMATCHED" /\ transactions[t].status # "ALLOCATED"

Pays(t, o, amount) ==
  /\ Unallocated(t) /\ Payable(o)
  /\ transactions[t].status # "NONE" => amount = transactions[t].amount
  /\ AllocateToOrder(t, o, amount)
  /\ \E status \in {"AUTO_MATCHED", "MANUAL_MATCHED"} :
       reconciliations' = [reconciliations EXCEPT
         ![t] = [status |-> status, order |-> o]]
  /\ UNCHANGED refunds

LEMMA IngestPays ==
  ASSUME NEW t \in Transactions, NEW amount \in TransferAmounts,
         NEW o \in Orders \union {NoOrder}, IngestMatched(t, amount, o)
  PROVE  o \in Orders /\ amount \in Int /\ Pays(t, o, amount)
BY InputsAssumption DEF IngestMatched, Pays, Payable, Unallocated

LEMMA MatchPays ==
  ASSUME TypeInv, NEW t \in Transactions, NEW o \in Orders, Match(t, o)
  PROVE  transactions[t].amount \in Int /\ Pays(t, o, transactions[t].amount)
BY DEF Match, Pays, Unallocated, TypeInv, TypeOK, Transaction

LEMMA PaysEffect ==
  ASSUME TypeInv, RowsInv, NEW t \in Transactions, NEW o \in Orders,
         NEW amount \in Int, Pays(t, o, amount)
  PROVE  \E done \in Run, surplus \in Nat : Allocated(t, o, amount, done, surplus)
<1>1. AllocateToOrder(t, o, amount)
  BY DEF Pays
<1>2. QED BY <1>1, AllocateToOrderEffect

(* Requests that concern no transaction and no receipt. *)
Elsewhere == UNCHANGED <<transactions, reconciliations, allocations, receipts>>

(* Every step, by what it does to the bank transactions. *)
LEMMA StepKinds ==
  ASSUME TypeInv, [Next]_vars
  PROVE  \/ \E t \in Transactions, o \in Orders, amount \in Int : Pays(t, o, amount)
         \/ \E t \in Transactions, amount \in TransferAmounts,
               o \in Orders \union {NoOrder} : IngestUnmatched(t, amount, o)
         \/ \E t \in Transactions : Unmatch(t)
         \/ \E t \in Transactions : \E i \in DOMAIN receipts[t] : CancelReceipt(t, i)
         \/ \E t \in Transactions, amount \in RefundAmounts :
               Refund(t, amount) /\ Elsewhere
         \/ Elsewhere /\ UNCHANGED <<credits, refunds>>
<1>1. ASSUME NEW t \in Transactions, NEW amount \in TransferAmounts,
             NEW o \in Orders \union {NoOrder}, IngestMatched(t, amount, o)
      PROVE  \E q \in Orders, a \in Int : Pays(t, q, a)
  BY <1>1, IngestPays
<1>2. ASSUME NEW t \in Transactions, NEW o \in Orders, Match(t, o)
      PROVE  \E a \in Int : Pays(t, o, a)
  BY <1>2, MatchPays
<1>3. ASSUME NEW r \in Receivables,
             \/ \E amount \in FeeAmounts : CreateReceivable(r, amount)
             \/ \E amount \in DiscountAmounts : Discount(r, amount)
             \/ \E delta \in AdjustmentDeltas : Adjust(r, delta)
      PROVE  Elsewhere /\ UNCHANGED <<credits, refunds>>
  BY <1>3 DEF Elsewhere, CreateReceivable, Discount, Adjust
<1>4. ASSUME NEW o \in Orders,
             (\E items \in ItemLists : CreateOrder(o, items)) \/ GetQr(o)
      PROVE  Elsewhere /\ UNCHANGED <<credits, refunds>>
  BY <1>4 DEF Elsewhere, CreateOrder, GetQr
<1>5. ASSUME NEW t \in Transactions, NEW amount \in RefundAmounts, Refund(t, amount)
      PROVE  Elsewhere
  BY <1>5 DEF Elsewhere, Refund
<1>6. UNCHANGED vars => Elsewhere /\ UNCHANGED <<credits, refunds>>
  BY DEF Elsewhere, vars
<1>7. QED BY <1>1, <1>2, <1>3, <1>4, <1>5, <1>6 DEF Next

(* What a step may do to an order. *)
LEMMA OrderStep ==
  ASSUME TypeInv, [Next]_vars, NEW o \in Orders
  PROVE  /\ orders[o].status # "NONE" => orders'[o].items = orders[o].items
         /\ orders[o].status \in {"PARTIALLY_PAID", "PAID"} =>
              orders'[o].status \in {"PARTIALLY_PAID", "PAID"}
         /\ orders[o].status \in {"PAID", "EXPIRED"} => orders'[o] = orders[o]
<1> DEFINE Goal ==
      /\ orders[o].status # "NONE" => orders'[o].items = orders[o].items
      /\ orders[o].status \in {"PARTIALLY_PAID", "PAID"} =>
           orders'[o].status \in {"PARTIALLY_PAID", "PAID"}
      /\ orders[o].status \in {"PAID", "EXPIRED"} => orders'[o] = orders[o]
<1>0. orders \in [Orders -> Order]
  BY DEF TypeInv, TypeOK
<1>1. ASSUME NEW q \in Orders, NEW items \in ItemLists, CreateOrder(q, items)
      PROVE  Goal
  BY <1>0, <1>1 DEF CreateOrder
<1>2. ASSUME NEW q \in Orders, GetQr(q)
      PROVE  Goal
  BY <1>0, <1>2 DEF GetQr, Order
<1>3. ASSUME NEW t \in Transactions, NEW q \in Orders, NEW amount \in Int,
             Pays(t, q, amount)
      PROVE  Goal
  <2>1. PICK st \in {"PAID", "PARTIALLY_PAID"} :
          orders' = [orders EXCEPT ![q].status = st]
    BY <1>3 DEF Pays, AllocateToOrder
  <2>2. QED BY <1>0, <1>3, <2>1 DEF Pays, Payable, Order
<1>4. UNCHANGED orders => Goal
  OBVIOUS
<1>5. ASSUME NEW t \in Transactions, NEW amount \in TransferAmounts,
             NEW q \in Orders \union {NoOrder}, IngestMatched(t, amount, q)
      PROVE  Goal
  BY <1>3, <1>5, IngestPays
<1>6. ASSUME NEW t \in Transactions, NEW q \in Orders, Match(t, q)
      PROVE  Goal
  BY <1>3, <1>6, MatchPays
<1> HIDE DEF Goal
<1>7. Goal
  BY <1>1, <1>2, <1>4, <1>5, <1>6
     DEF Next, CreateReceivable, Discount, Adjust, IngestUnmatched, Unmatch,
         Refund, CancelReceipt, vars
<1>8. QED BY <1>7 DEF Goal

(* A transaction whose rows a step leaves alone. *)
RowsKept(t) ==
  /\ transactions'[t] = transactions[t]
  /\ reconciliations'[t] = reconciliations[t]
  /\ allocations'[t] = allocations[t]

LEMMA OtherTransactions ==
  ASSUME TypeInv, NEW t \in Transactions, NEW u \in Transactions, u # t,
         \/ \E o \in Orders, amount \in Int : Pays(t, o, amount)
         \/ \E amount \in TransferAmounts, o \in Orders \union {NoOrder} :
               IngestUnmatched(t, amount, o)
         \/ Unmatch(t)
  PROVE  /\ RowsKept(u) /\ credits'[u] = credits[u] /\ receipts'[u] = receipts[u]
         /\ refunds' = refunds
<1>0. /\ transactions \in [Transactions -> Transaction]
      /\ reconciliations \in [Transactions -> Reconciliation]
      /\ allocations \in [Transactions -> [Receivables -> Nat]]
      /\ credits \in [Transactions -> Seq(Credit)]
      /\ receipts \in [Transactions -> Seq(Receipt)]
  BY DEF TypeInv, TypeOK
<1>1. ASSUME NEW o \in Orders, NEW amount \in Int, Pays(t, o, amount)
      PROVE  /\ RowsKept(u) /\ credits'[u] = credits[u] /\ receipts'[u] = receipts[u]
             /\ refunds' = refunds
  <2>1. /\ transactions'[u] = transactions[u] /\ allocations'[u] = allocations[u]
    BY <1>0, <1>1 DEF Pays, AllocateToOrder
  <2>2. credits'[u] = credits[u] /\ receipts'[u] = receipts[u]
    BY <1>0, <1>1 DEF Pays, AllocateToOrder
  <2>3. QED BY <1>0, <1>1, <2>1, <2>2 DEF Pays, RowsKept
<1>2. ASSUME NEW amount \in TransferAmounts, NEW o \in Orders \union {NoOrder},
             IngestUnmatched(t, amount, o)
      PROVE  /\ RowsKept(u) /\ credits'[u] = credits[u] /\ receipts'[u] = receipts[u]
             /\ refunds' = refunds
  BY <1>0, <1>2 DEF IngestUnmatched, RowsKept
<1>3. ASSUME Unmatch(t)
      PROVE  /\ RowsKept(u) /\ credits'[u] = credits[u] /\ receipts'[u] = receipts[u]
             /\ refunds' = refunds
  BY <1>0, <1>3 DEF Unmatch, ReverseByTransaction, CancelByTransaction, RowsKept
<1>4. QED BY <1>1, <1>2, <1>3

-----------------------------------------------------------------------------
(* The transaction, its reconciliation and its allocations agree.          *)

Matched(t) == reconciliations[t].status \in {"AUTO_MATCHED", "MANUAL_MATCHED"}

Agrees(t) ==
  LET order == reconciliations[t].order
  IN  /\ Matched(t) <=> transactions[t].status = "ALLOCATED"
      /\ Matched(t) <=> order # NoOrder
      /\ Matched(t) => orders[order].status \in {"PARTIALLY_PAID", "PAID"}
      /\ \A r \in Receivables :
           allocations[t][r] > 0 =>
             Matched(t) /\ \E i \in DOMAIN orders[order].items :
                             orders[order].items[i] = r

LEMMA AgreementByTransaction ==
  ReconciliationAgrees <=> \A t \in Transactions : Agrees(t)
BY Zenon DEF ReconciliationAgrees, Agrees, Matched

LEMMA InitAgrees == Init => ReconciliationAgrees
<1> SUFFICES ASSUME Init, NEW t \in Transactions PROVE Agrees(t)
  BY AgreementByTransaction
<1>1. /\ ~ Matched(t) /\ transactions[t].status # "ALLOCATED"
      /\ reconciliations[t].order = NoOrder
      /\ \A r \in Receivables : allocations[t][r] = 0
  BY DEF Init, Matched, NoAllocation
<1>2. QED BY <1>1 DEF Agrees

(* An order that was told of money stays so, with its items. *)
LEMMA RowsKeptAgree ==
  ASSUME TypeInv, [Next]_vars, NEW t \in Transactions, Agrees(t), RowsKept(t)
  PROVE  Agrees(t)'
<1> DEFINE order == reconciliations[t].order
<1>1. CASE Matched(t)
  <2>1. order \in Orders /\ orders[order].status \in {"PARTIALLY_PAID", "PAID"}
    BY <1>1 DEF Agrees, TypeInv, TypeOK, Reconciliation
  <2> HIDE DEF order
  <2>2. /\ orders'[order].status \in {"PARTIALLY_PAID", "PAID"}
        /\ orders'[order].items = orders[order].items
    BY <2>1, OrderStep
  <2>3. QED BY <1>1, <2>2 DEF Agrees, Matched, RowsKept, order
<1>2. CASE ~ Matched(t)
  BY <1>2 DEF Agrees, Matched, RowsKept
<1>3. QED BY <1>1, <1>2

(* Nothing of a transaction that is not allocated is on a receivable. *)
LEMMA UnallocatedHasNothing ==
  ASSUME TypeInv, NEW t \in Transactions, Agrees(t), Unallocated(t)
  PROVE  /\ ~ Matched(t) /\ transactions[t].status # "ALLOCATED"
         /\ allocations[t] \in [Receivables -> Nat]
         /\ \A r \in Receivables : allocations[t][r] = 0
<1>1. ~ Matched(t) /\ transactions[t].status # "ALLOCATED"
  BY DEF Unallocated, Agrees, Matched
<1>2. allocations[t] \in [Receivables -> Nat]
  BY DEF TypeInv, TypeOK
<1>3. QED BY <1>1, <1>2 DEF Agrees

LEMMA PaysAgrees ==
  ASSUME TypeInv, RowsInv, NEW t \in Transactions, NEW o \in Orders,
         NEW amount \in Int, Pays(t, o, amount), Agrees(t)
  PROVE  Agrees(t)'
<1>1. PICK done \in Run, surplus \in Nat : Allocated(t, o, amount, done, surplus)
  BY PaysEffect
<1>2. PICK status \in {"AUTO_MATCHED", "MANUAL_MATCHED"} :
        reconciliations' = [reconciliations EXCEPT
          ![t] = [status |-> status, order |-> o]]
  BY DEF Pays
<1>3. /\ reconciliations'[t] = [status |-> status, order |-> o]
      /\ transactions'[t].status = "ALLOCATED"
      /\ o # NoOrder
  BY <1>1, <1>2 DEF Allocated, TypeInv, TypeOK, Pays, Payable
<1>4. /\ orders'[o].status \in {"PARTIALLY_PAID", "PAID"}
      /\ orders'[o].items = orders[o].items
  BY <1>1 DEF Allocated, TypeInv, TypeOK, Order
<1>5. ASSUME NEW r \in Receivables, allocations'[t][r] > 0
      PROVE  \E i \in DOMAIN orders[o].items : orders[o].items[i] = r
  <2>1. allocations'[t][r] = allocations[t][r] + done.allocated[r]
    BY <1>1 DEF Allocated, TypeInv, TypeOK
  <2>2. allocations[t][r] = 0
    BY UnallocatedHasNothing DEF Pays
  <2>3. done.allocated[r] > 0
    BY <1>5, <2>1, <2>2 DEF Run
  <2>4. QED BY <1>1, <2>3 DEF Allocated, RunSound
<1>6. QED BY <1>3, <1>4, <1>5 DEF Agrees, Matched

LEMMA NextAgrees ==
  TypeInv /\ RowsInv /\ ReconciliationAgrees /\ [Next]_vars => ReconciliationAgrees'
<1> SUFFICES ASSUME TypeInv, RowsInv, ReconciliationAgrees, [Next]_vars,
                    NEW u \in Transactions
             PROVE  Agrees(u)'
  BY AgreementByTransaction, Zenon
               DEF ReconciliationAgrees, Agrees, Matched
<1>0. Agrees(u)
  BY AgreementByTransaction
<1>1. ASSUME NEW t \in Transactions, NEW o \in Orders, NEW amount \in Int,
             Pays(t, o, amount)
      PROVE  Agrees(u)'
  <2>1. CASE u = t
    BY <1>0, <1>1, <2>1, PaysAgrees
  <2>2. CASE u # t
    BY <1>0, <1>1, <2>2, OtherTransactions, RowsKeptAgree
  <2>3. QED BY <2>1, <2>2
<1>2. ASSUME NEW t \in Transactions, NEW amount \in TransferAmounts,
             NEW o \in Orders \union {NoOrder}, IngestUnmatched(t, amount, o)
      PROVE  Agrees(u)'
  <2>1. CASE u = t
    <3>1. /\ transactions'[t].status = "UNMATCHED"
          /\ reconciliations'[t] = [status |-> "UNMATCHED", order |-> NoOrder]
          /\ allocations'[t] = allocations[t]
      BY <1>2 DEF IngestUnmatched, TypeInv, TypeOK
    <3>2. \A r \in Receivables : allocations[t][r] = 0
      BY <1>0, <1>2, <2>1, UnallocatedHasNothing DEF IngestUnmatched, Unallocated
    <3>3. QED BY <2>1, <3>1, <3>2 DEF Agrees, Matched
  <2>2. CASE u # t
    BY <1>0, <1>2, <2>2, OtherTransactions, RowsKeptAgree
  <2>3. QED BY <2>1, <2>2
<1>3. ASSUME NEW t \in Transactions, Unmatch(t)
      PROVE  Agrees(u)'
  <2>1. CASE u = t
    <3>1. /\ transactions'[t].status = "UNMATCHED"
          /\ reconciliations'[t] = [status |-> "UNMATCHED", order |-> NoOrder]
          /\ allocations'[t] = NoAllocation
      BY <1>3 DEF Unmatch, ReverseByTransaction, TypeInv, TypeOK
    <3>2. QED BY <2>1, <3>1 DEF Agrees, Matched, NoAllocation
  <2>2. CASE u # t
    BY <1>0, <1>3, <2>2, OtherTransactions, RowsKeptAgree
  <2>3. QED BY <2>1, <2>2
<1>4. ASSUME UNCHANGED <<transactions, reconciliations, allocations>>
      PROVE  Agrees(u)'
  BY <1>0, <1>4, RowsKeptAgree DEF RowsKept
<1>5. QED
  BY <1>1, <1>2, <1>3, <1>4, StepKinds DEF Elsewhere, CancelReceipt

(* In every reachable state the three records of what became of a          *)
(* transaction agree: its status, its reconciliation row and its           *)
(* allocations, all of them on items of the matched order, which has been  *)
(* told of the money; whatever is matched, reversed and matched again.     *)
THEOREM ReconciliationAgreesAlways == Spec => []ReconciliationAgrees
<1>1. QED
  BY TypeInvariance, RowsInvariance, InitAgrees, NextAgrees, PTL DEF Spec

-----------------------------------------------------------------------------
(* No payment is lost: what the receivables do not take becomes credit.    *)

SurplusKept(t) ==
  LET surplus == Received(t) - AllocatedFrom(t) IN
  /\ transactions[t].status = "ALLOCATED" =>
       /\ surplus >= 0
       /\ surplus > 0 =>
            /\ credits[t] # <<>>
            /\ credits[t][Len(credits[t])].amount = surplus
  /\ transactions[t].status # "ALLOCATED" => AllocatedFrom(t) = 0

LEMMA SurplusByTransaction ==
  SurplusBecomesCredit <=> \A t \in Transactions : SurplusKept(t)
BY Zenon DEF SurplusBecomesCredit, SurplusKept

LEMMA NothingAllocated ==
  ASSUME NEW row \in [Receivables -> Nat], \A r \in Receivables : row[r] = 0
  PROVE  Total(row, NumReceivables) = 0
<1>1. row \in [1..NumReceivables -> Int] /\ \A r \in 1..NumReceivables : row[r] = 0
  BY DEF Receivables
<1>2. QED BY <1>1, SizesAssumption, TotalOfZeros

LEMMA InitSurplus == Init => SurplusBecomesCredit
<1> SUFFICES ASSUME Init, NEW t \in Transactions PROVE SurplusKept(t)
  BY SurplusByTransaction
<1>1. /\ transactions[t].status # "ALLOCATED"
      /\ allocations[t] \in [Receivables -> Nat]
      /\ \A r \in Receivables : allocations[t][r] = 0
  BY DEF Init, NoAllocation
<1>2. AllocatedFrom(t) = 0
  BY <1>1, NothingAllocated DEF AllocatedFrom
<1>3. QED BY <1>1, <1>2 DEF SurplusKept

(* Drawing from credits and voiding them leaves their amounts. *)
AmountsKept(t) ==
  /\ credits[t] # <<>> => credits'[t] # <<>>
  /\ Len(credits'[t]) = Len(credits[t])
  /\ \A i \in DOMAIN credits[t] : credits'[t][i].amount = credits[t][i].amount

LEMMA RowsKeptSurplus ==
  ASSUME TypeInv, NEW t \in Transactions, SurplusKept(t), RowsKept(t),
         credits'[t] = credits[t] \/ AmountsKept(t)
  PROVE  SurplusKept(t)'
<1>1. /\ Received(t)' = Received(t) /\ AllocatedFrom(t)' = AllocatedFrom(t)
      /\ transactions'[t].status = transactions[t].status
  BY DEF Received, AllocatedFrom, RowsKept
<1>2. credits[t] # <<>> =>
        /\ credits'[t] # <<>>
        /\ credits'[t][Len(credits'[t])].amount = credits[t][Len(credits[t])].amount
  <2>1. credits[t] \in Seq(Credit)
    BY DEF TypeInv, TypeOK
  <2>2. credits[t] # <<>> => Len(credits[t]) \in DOMAIN credits[t]
    BY <2>1, EmptySeq
  <2>3. QED BY <2>2 DEF AmountsKept
<1>3. QED BY <1>1, <1>2 DEF SurplusKept

LEMMA DrawnKeepsAmount ==
  ASSUME NEW credit \in Credit, NEW toDraw
  PROVE  Drawn(credit, toDraw).amount = credit.amount
BY DEF Drawn, Credit

LEMMA RefundKeepsAmounts ==
  ASSUME TypeInv, NEW t \in Transactions, NEW amount \in RefundAmounts,
         Refund(t, amount), NEW u \in Transactions
  PROVE  credits'[u] = credits[u] \/ AmountsKept(u)
<1>1. CASE u # t
  BY <1>1 DEF Refund, TypeInv, TypeOK
<1>2. CASE u = t
  <2> DEFINE toDraw(i) == StillToDraw(t, amount, i - 1)
             row == [i \in DOMAIN credits[t] |-> Drawn(credits[t][i], toDraw(i))]
  <2>1. /\ credits'[t] = row
        /\ credits[t] \in Seq(Credit) /\ Len(credits[t]) \in Nat
        /\ DOMAIN credits[t] = 1..Len(credits[t])
    BY DEF Refund, TypeInv, TypeOK
  <2> HIDE DEF toDraw
  <2>2. row \in [1..Len(credits[t]) -> {row[i] : i \in 1..Len(credits[t])}]
    BY <2>1
  <2>3. Len(row) = Len(credits[t])
    <3> HIDE DEF row
    <3>1. QED BY <2>1, <2>2, FunctionIsSeq
  <2>4. \A i \in DOMAIN credits[t] : row[i].amount = credits[t][i].amount
    BY CreditType, DrawnKeepsAmount
  <2> HIDE DEF row
  <2>5. credits[t] # <<>> => row # <<>>
    BY <2>1, <2>3, EmptySeq
  <2>6. QED BY <1>2, <2>1, <2>3, <2>4, <2>5 DEF AmountsKept
<1>3. QED BY <1>1, <1>2

(* All of the money is on receivables or in the credit made for it. *)
LEMMA PaysSurplus ==
  ASSUME TypeInv, RowsInv, NEW t \in Transactions, NEW o \in Orders,
         NEW amount \in Int, Pays(t, o, amount), Agrees(t)
  PROVE  SurplusKept(t)'
<1>1. PICK done \in Run, surplus \in Nat : Allocated(t, o, amount, done, surplus)
  BY PaysEffect
<1>2. AllocatedFrom(t)' = done.allocatedTotal
  <2>1. /\ allocations[t] \in [Receivables -> Nat]
        /\ \A r \in Receivables : allocations[t][r] = 0
    BY UnallocatedHasNothing DEF Pays
  <2>2. done.allocated \in [Receivables -> Nat]
    BY DEF Run
  <2>3. allocations'[t] = [r \in Receivables |-> allocations[t][r] + done.allocated[r]]
    BY <1>1 DEF Allocated, TypeInv, TypeOK
  <2>4. allocations'[t] = done.allocated
    BY <2>1, <2>2, <2>3
  <2>5. done.allocatedTotal = Total(done.allocated, NumReceivables)
    BY <1>1 DEF Allocated, RunOK
  <2>6. QED BY <2>4, <2>5 DEF AllocatedFrom
<1>3. /\ transactions'[t] = [status |-> "ALLOCATED", amount |-> amount]
      /\ done.allocatedTotal + surplus = IF amount > 0 THEN amount ELSE 0
  BY <1>1 DEF Allocated, TypeInv, TypeOK
<1>4. Received(t)' - AllocatedFrom(t)' = surplus
  <2>1. done.allocatedTotal \in Nat
    BY DEF Run
  <2>2. Received(t)' = IF amount > 0 THEN amount ELSE 0
    BY <1>3 DEF Received
  <2>3. QED BY <1>2, <1>3, <2>1, <2>2
<1>5. surplus > 0 =>
        /\ credits'[t] # <<>>
        /\ credits'[t][Len(credits'[t])].amount = surplus
  <2> SUFFICES ASSUME surplus > 0
               PROVE  /\ credits'[t] # <<>>
                      /\ credits'[t][Len(credits'[t])].amount = surplus
    OBVIOUS
  <2> DEFINE credit == [student |-> StudentOf[orders[o].items[1]], amount |-> surplus,
                        remaining |-> surplus, status |-> "AVAILABLE"]
  <2>1. credits[t] \in Seq(Credit) /\ credits \in [Transactions -> Seq(Credit)]
    BY DEF TypeInv, TypeOK
  <2>2. credits'[t] = Append(credits[t], credit)
    <3>1. credits' = [credits EXCEPT ![t] = Append(@, credit)]
      BY <1>1 DEF Allocated
    <3>2. QED BY <2>1, <3>1
  <2>3. credit.amount = surplus
    OBVIOUS
  <2> HIDE DEF credit
  <2>4. /\ Len(Append(credits[t], credit)) = Len(credits[t]) + 1
        /\ Append(credits[t], credit)[Len(credits[t]) + 1] = credit
        /\ Append(credits[t], credit) # <<>>
    BY <2>1
  <2>5. QED BY <2>2, <2>3, <2>4
<1>6. QED BY <1>3, <1>4, <1>5 DEF SurplusKept

LEMMA NextSurplus ==
  /\ TypeInv /\ RowsInv /\ ReconciliationAgrees /\ SurplusBecomesCredit
  /\ [Next]_vars
  => SurplusBecomesCredit'
<1> SUFFICES ASSUME TypeInv, RowsInv, ReconciliationAgrees, SurplusBecomesCredit,
                    [Next]_vars, NEW u \in Transactions
             PROVE  SurplusKept(u)'
  BY Zenon DEF SurplusBecomesCredit, SurplusKept
<1>0. Agrees(u) /\ SurplusKept(u)
  BY AgreementByTransaction, SurplusByTransaction
<1>1. ASSUME NEW t \in Transactions, NEW o \in Orders, NEW amount \in Int,
             Pays(t, o, amount)
      PROVE  SurplusKept(u)'
  <2>1. CASE u = t
    BY <1>0, <1>1, <2>1, PaysSurplus
  <2>2. CASE u # t
    BY <1>0, <1>1, <2>2, OtherTransactions, RowsKeptSurplus
  <2>3. QED BY <2>1, <2>2
<1>2. ASSUME NEW t \in Transactions, NEW amount \in TransferAmounts,
             NEW o \in Orders \union {NoOrder}, IngestUnmatched(t, amount, o)
      PROVE  SurplusKept(u)'
  <2>1. CASE u = t
    <3>1. transactions[t].status # "ALLOCATED" /\ transactions'[t].status = "UNMATCHED"
          /\ allocations' = allocations
      BY <1>2 DEF IngestUnmatched, TypeInv, TypeOK
    <3>2. QED BY <1>0, <2>1, <3>1 DEF SurplusKept, AllocatedFrom
  <2>2. CASE u # t
    BY <1>0, <1>2, <2>2, OtherTransactions, RowsKeptSurplus
  <2>3. QED BY <2>1, <2>2
<1>3. ASSUME NEW t \in Transactions, Unmatch(t)
      PROVE  SurplusKept(u)'
  <2>1. CASE u = t
    <3>1. transactions'[t].status = "UNMATCHED" /\ allocations'[t] = NoAllocation
      BY <1>3 DEF Unmatch, ReverseByTransaction, TypeInv, TypeOK
    <3>2. AllocatedFrom(t)' = 0
      BY <3>1, NothingAllocated DEF AllocatedFrom, NoAllocation
    <3>3. QED BY <2>1, <3>1, <3>2 DEF SurplusKept
  <2>2. CASE u # t
    BY <1>0, <1>3, <2>2, OtherTransactions, RowsKeptSurplus
  <2>3. QED BY <2>1, <2>2
<1>4. ASSUME NEW t \in Transactions, NEW amount \in RefundAmounts,
             Refund(t, amount), Elsewhere
      PROVE  SurplusKept(u)'
  BY <1>0, <1>4, RefundKeepsAmounts, RowsKeptSurplus DEF Elsewhere, RowsKept
<1>5. ASSUME UNCHANGED <<transactions, reconciliations, allocations, credits>>
      PROVE  SurplusKept(u)'
  BY <1>0, <1>5, RowsKeptSurplus DEF RowsKept
<1>6. QED
  BY <1>1, <1>2, <1>3, <1>4, <1>5, StepKinds DEF Elsewhere, CancelReceipt

(* In every reachable state all the money of an allocated transaction is   *)
(* on receivables, except a surplus for which its latest credit was made,  *)
(* and nothing of a transaction that is not allocated is: no payment is    *)
(* lost, none counts after its reversal.                                   *)
THEOREM SurplusBecomesCreditAlways == Spec => []SurplusBecomesCredit
<1>1. QED
  BY TypeInvariance, RowsInvariance, ReconciliationAgreesAlways, InitSurplus,
     NextSurplus, PTL DEF Spec

-----------------------------------------------------------------------------
(* The receipt in force.                                                   *)

ReceiptsMatch(t) ==
  \A i \in DOMAIN receipts[t] :
    receipts[t][i].status = "ISSUED" =>
      /\ transactions[t].status = "ALLOCATED"
      /\ receipts[t][i].total = transactions[t].amount
      /\ \A j \in DOMAIN receipts[t] :
           receipts[t][j].status = "ISSUED" => j = i

LEMMA ReceiptsByTransaction ==
  ReceiptsMatchPayments <=> \A t \in Transactions : ReceiptsMatch(t)
BY Zenon DEF ReceiptsMatchPayments, ReceiptsMatch

LEMMA ReceiptFacts ==
  ASSUME TypeInv, NEW t \in Transactions
  PROVE  /\ receipts[t] \in Seq(Receipt) /\ Len(receipts[t]) \in Nat
         /\ DOMAIN receipts[t] = 1..Len(receipts[t])
         /\ receipts \in [Transactions -> Seq(Receipt)]
         /\ \A i \in DOMAIN receipts[t] : receipts[t][i] \in Receipt
<1>1. receipts[t] \in Seq(Receipt) /\ receipts \in [Transactions -> Seq(Receipt)]
  BY DEF TypeInv, TypeOK
<1>2. QED BY <1>1, ElementOfSeq

(* Cancelling the k-th receipt of t. *)
Cancels(t, k) == receipts' = [receipts EXCEPT ![t][k].status = "CANCELLED"]

LEMMA CancelledReceipt ==
  ASSUME TypeInv, NEW t \in Transactions, NEW k \in DOMAIN receipts[t],
         Cancels(t, k), NEW u \in Transactions
  PROVE  /\ DOMAIN receipts'[u] = DOMAIN receipts[u]
         /\ \A i \in DOMAIN receipts[u] :
              receipts'[u][i] =
                IF u = t /\ i = k THEN [receipts[u][i] EXCEPT !.status = "CANCELLED"]
                ELSE receipts[u][i]
BY ReceiptFacts DEF Cancels

LEMMA RowsKeptReceipts ==
  ASSUME NEW t \in Transactions, RowsKept(t), ReceiptsMatch(t),
         DOMAIN receipts'[t] = DOMAIN receipts[t],
         \A i \in DOMAIN receipts[t] :
           receipts'[t][i].status = "ISSUED" => receipts'[t][i] = receipts[t][i]
  PROVE  ReceiptsMatch(t)'
BY DEF RowsKept, ReceiptsMatch

(* A reversal finds the only receipt in force, and cancels it. *)
LEMMA UnmatchReceipts ==
  ASSUME TypeInv, NEW t \in Transactions, Unmatch(t), ReceiptsMatch(t)
  PROVE  ReceiptsMatch(t)'
<1> DEFINE issued == {i \in DOMAIN receipts[t] : receipts[t][i].status = "ISSUED"}
<1>0. CancelByTransaction(t)
  BY DEF Unmatch
<1>1. CASE issued = {}
  <2>1. receipts' = receipts
    BY <1>0, <1>1, Zenon DEF CancelByTransaction
  <2>2. QED BY <1>1, <2>1 DEF ReceiptsMatch
<1>2. CASE issued # {}
  <2>1. PICK k \in issued : Cancels(t, k)
    BY <1>0, <1>2, Zenon DEF CancelByTransaction, Cancels
  <2>2. /\ DOMAIN receipts'[t] = DOMAIN receipts[t]
        /\ \A i \in DOMAIN receipts[t] :
             receipts'[t][i] =
               IF i = k THEN [receipts[t][i] EXCEPT !.status = "CANCELLED"]
               ELSE receipts[t][i]
    BY <2>1, CancelledReceipt
  <2>3. \A i \in DOMAIN receipts[t] : receipts[t][i].status = "ISSUED" => i = k
    BY DEF ReceiptsMatch
  <2>4. [receipts[t][k] EXCEPT !.status = "CANCELLED"].status = "CANCELLED"
    BY ReceiptFacts DEF Receipt
  <2>5. \A i \in DOMAIN receipts'[t] : receipts'[t][i].status # "ISSUED"
    BY <2>2, <2>3, <2>4
  <2>6. QED BY <2>5 DEF ReceiptsMatch
<1>3. QED BY <1>1, <1>2

(* No receipt of an unallocated transaction is in force when it is paid.   *)
LEMMA PaysReceipts ==
  ASSUME TypeInv, RowsInv, NEW t \in Transactions, NEW o \in Orders,
         NEW amount \in Int, Pays(t, o, amount), Agrees(t), ReceiptsMatch(t)
  PROVE  ReceiptsMatch(t)'
<1>1. PICK done \in Run, surplus \in Nat : Allocated(t, o, amount, done, surplus)
  BY PaysEffect
<1> DEFINE paid == done.allocatedTotal + surplus
           receipt == [total |-> paid, status |-> "ISSUED"]
<1>2. \A i \in DOMAIN receipts[t] : receipts[t][i].status # "ISSUED"
  BY UnallocatedHasNothing DEF Pays, ReceiptsMatch
<1>3. transactions'[t] = [status |-> "ALLOCATED", amount |-> amount]
  BY <1>1 DEF Allocated, TypeInv, TypeOK
<1>4. /\ paid \in Nat /\ paid = IF amount > 0 THEN amount ELSE 0
      /\ receipts' = IF paid = 0 THEN receipts
                     ELSE [receipts EXCEPT ![t] = Append(@, receipt)]
  BY <1>1 DEF Allocated, Run
<1>5. CASE paid = 0
  BY <1>2, <1>4, <1>5 DEF ReceiptsMatch
<1>6. CASE paid # 0
  <2>1. paid = amount
    BY <1>4, <1>6
  <2>2. receipt.total = paid /\ receipt.status = "ISSUED"
    OBVIOUS
  <2> HIDE DEF paid, receipt
  <2>3. receipts'[t] = Append(receipts[t], receipt)
    BY <1>4, <1>6, ReceiptFacts
  <2>4. /\ DOMAIN receipts'[t] = 1..(Len(receipts[t]) + 1)
        /\ receipts'[t][Len(receipts[t]) + 1] = receipt
        /\ \A i \in 1..Len(receipts[t]) : receipts'[t][i] = receipts[t][i]
    BY <2>3, ReceiptFacts
  <2>5. \A i \in DOMAIN receipts'[t] :
          receipts'[t][i].status = "ISSUED" => i = Len(receipts[t]) + 1
    BY <1>2, <2>4, ReceiptFacts
  <2>6. QED BY <1>3, <2>1, <2>2, <2>4, <2>5 DEF ReceiptsMatch
<1>7. QED BY <1>5, <1>6

LEMMA InitReceipts == Init => ReceiptsMatchPayments
BY DEF Init, ReceiptsMatchPayments

LEMMA NextReceipts ==
  /\ TypeInv /\ RowsInv /\ ReconciliationAgrees /\ ReceiptsMatchPayments
  /\ [Next]_vars
  => ReceiptsMatchPayments'
<1> SUFFICES ASSUME TypeInv, RowsInv, ReconciliationAgrees, ReceiptsMatchPayments,
                    [Next]_vars, NEW u \in Transactions
             PROVE  ReceiptsMatch(u)'
  BY Zenon DEF ReceiptsMatchPayments, ReceiptsMatch
<1>0. Agrees(u) /\ ReceiptsMatch(u)
  BY AgreementByTransaction, ReceiptsByTransaction
<1>1. ASSUME NEW t \in Transactions, NEW o \in Orders, NEW amount \in Int,
             Pays(t, o, amount)
      PROVE  ReceiptsMatch(u)'
  <2>1. CASE u = t
    BY <1>0, <1>1, <2>1, PaysReceipts
  <2>2. CASE u # t
    BY <1>0, <1>1, <2>2, OtherTransactions, RowsKeptReceipts
  <2>3. QED BY <2>1, <2>2
<1>2. ASSUME NEW t \in Transactions, NEW amount \in TransferAmounts,
             NEW o \in Orders \union {NoOrder}, IngestUnmatched(t, amount, o)
      PROVE  ReceiptsMatch(u)'
  <2>1. CASE u = t
    <3>1. \A i \in DOMAIN receipts[t] : receipts[t][i].status # "ISSUED"
      BY <1>0, <1>2, <2>1 DEF IngestUnmatched, ReceiptsMatch
    <3>2. receipts' = receipts
      BY <1>2 DEF IngestUnmatched
    <3>3. QED BY <2>1, <3>1, <3>2 DEF ReceiptsMatch
  <2>2. CASE u # t
    BY <1>0, <1>2, <2>2, OtherTransactions, RowsKeptReceipts
  <2>3. QED BY <2>1, <2>2
<1>3. ASSUME NEW t \in Transactions, Unmatch(t)
      PROVE  ReceiptsMatch(u)'
  <2>1. CASE u = t
    BY <1>0, <1>3, <2>1, UnmatchReceipts
  <2>2. CASE u # t
    BY <1>0, <1>3, <2>2, OtherTransactions, RowsKeptReceipts
  <2>3. QED BY <2>1, <2>2
<1>4. ASSUME NEW t \in Transactions, NEW k \in DOMAIN receipts[t], CancelReceipt(t, k)
      PROVE  ReceiptsMatch(u)'
  <2>1. RowsKept(u) /\ Cancels(t, k)
    BY <1>4 DEF CancelReceipt, RowsKept, Cancels
  <2>2. /\ DOMAIN receipts'[u] = DOMAIN receipts[u]
        /\ \A i \in DOMAIN receipts[u] :
             receipts'[u][i] =
               IF u = t /\ i = k THEN [receipts[u][i] EXCEPT !.status = "CANCELLED"]
               ELSE receipts[u][i]
    BY <1>4, <2>1, CancelledReceipt
  <2>3. \A i \in DOMAIN receipts[u] :
          [receipts[u][i] EXCEPT !.status = "CANCELLED"].status = "CANCELLED"
    BY ReceiptFacts DEF Receipt
  <2>4. \A i \in DOMAIN receipts[u] :
          receipts'[u][i].status = "ISSUED" => receipts'[u][i] = receipts[u][i]
    BY <2>2, <2>3
  <2>5. QED BY <1>0, <2>1, <2>2, <2>4, RowsKeptReceipts
<1>5. ASSUME Elsewhere
      PROVE  ReceiptsMatch(u)'
  BY <1>0, <1>5, RowsKeptReceipts DEF Elsewhere, RowsKept
<1>6. QED
  BY <1>1, <1>2, <1>3, <1>4, <1>5, StepKinds

(* In every reachable state a receipt in force is the only one of its      *)
(* transaction, which is allocated, and is for all the money received: no  *)
(* reversal leaves a receipt in force, no new match leaves two.            *)
THEOREM ReceiptsMatchPaymentsAlways == Spec => []ReceiptsMatchPayments
<1>1. QED
  BY TypeInvariance, RowsInvariance, ReconciliationAgreesAlways, InitReceipts,
     NextReceipts, PTL DEF Spec

-----------------------------------------------------------------------------
(* What a step never does.                                                 *)

(* Only an allocation raises what a receivable counts as paid, and it      *)
(* gives no more than is outstanding.                                      *)
LEMMA StepNeverOverpays ==
  ASSUME TypeInv, RowsInv, [Next]_vars, NEW r \in Receivables,
         receivables'[r].amountPaid > receivables[r].amountPaid
  PROVE  receivables'[r].amountOutstanding >= 0
<1> DEFINE Goal == receivables'[r].amountPaid > receivables[r].amountPaid
                     => receivables'[r].amountOutstanding >= 0
<1>0. /\ receivables \in [Receivables -> Receivable]
      /\ \A q \in Receivables :
           /\ receivables[q] \in Receivable /\ receivables[q].amountPaid \in Nat
           /\ IsPastDue(q) \in BOOLEAN
  BY DEF TypeInv, TypeOK, IsPastDue, Receivable
<1>1. ASSUME NEW q \in Receivables, NEW amount \in FeeAmounts,
             CreateReceivable(q, amount)
      PROVE  Goal
  <2>1. NewReceivable(amount).amountPaid = 0
    BY InputsAssumption, NewReceivableType
  <2>2. QED BY <1>0, <1>1, <2>1 DEF CreateReceivable
<1>2. ASSUME NEW q \in Receivables, NEW amount \in DiscountAmounts,
             Discount(q, amount)
      PROVE  Goal
  <2>1. ApplyDiscountDelta(receivables[q], amount, IsPastDue(q)).amountPaid
          = receivables[q].amountPaid
    <3>1. amount \in Int
      BY InputsAssumption
    <3>2. QED BY <1>0, <3>1, DeltaTypes
  <2>2. QED BY <1>0, <1>2, <2>1 DEF Discount
<1>3. ASSUME NEW q \in Receivables, NEW delta \in AdjustmentDeltas,
             Adjust(q, delta)
      PROVE  Goal
  <2>1. ApplyAdjustmentDelta(receivables[q], delta, IsPastDue(q)).amountPaid
          = receivables[q].amountPaid
    <3>1. delta \in Int
      BY InputsAssumption
    <3>2. QED BY <1>0, <3>1, DeltaTypes
  <2>2. QED BY <1>0, <1>3, <2>1 DEF Adjust
<1>4. ASSUME NEW t \in Transactions, NEW o \in Orders, NEW amount \in Int,
             Pays(t, o, amount)
      PROVE  Goal
  <2>1. PICK done \in Run, surplus \in Nat : Allocated(t, o, amount, done, surplus)
    BY <1>4, PaysEffect
  <2>2. /\ receivables'[r] = done.receivables[r]
        /\ done.receivables[r].amountPaid
             = receivables[r].amountPaid + done.allocated[r]
        /\ done.allocated[r] > 0 => done.receivables[r].amountOutstanding >= 0
        /\ done.allocated[r] \in Nat
    BY <2>1 DEF Allocated, RunOK, RunSound, Run
  <2>3. QED BY <1>0, <2>2
<1>5. ASSUME NEW t \in Transactions, Unmatch(t)
      PROVE  Goal
  <2>1. allocations[t][r] \in Nat
    BY DEF TypeInv, TypeOK
  <2> DEFINE reversed == ReversePaymentDelta(receivables[r], allocations[t][r],
                                             IsPastDue(r))
  <2>2. reversed.amountPaid = IF allocations[t][r] <= receivables[r].amountPaid
                              THEN receivables[r].amountPaid - allocations[t][r] ELSE 0
    BY <1>0, <2>1, DeltaTypes
  <2>3. receivables'[r] = reversed \/ receivables'[r] = receivables[r]
    BY <1>5 DEF Unmatch, ReverseByTransaction
  <2> HIDE DEF reversed
  <2>4. receivables'[r].amountPaid <= receivables[r].amountPaid
        /\ receivables'[r].amountPaid \in Int
    BY <1>0, <2>1, <2>2, <2>3
  <2>5. QED BY <1>0, <2>4
<1>6. UNCHANGED receivables => Goal
  BY <1>0
<1>7. ASSUME NEW t \in Transactions, NEW amount \in TransferAmounts,
             NEW o \in Orders \union {NoOrder}, IngestMatched(t, amount, o)
      PROVE  Goal
  BY <1>4, <1>7, IngestPays
<1>8. ASSUME NEW t \in Transactions, NEW o \in Orders, Match(t, o)
      PROVE  Goal
  BY <1>4, <1>8, MatchPays
<1> HIDE DEF Goal
<1>9. Goal
  BY <1>1, <1>2, <1>3, <1>5, <1>6, <1>7, <1>8
     DEF Next, CreateOrder, GetQr, IngestUnmatched, Refund, CancelReceipt, vars
<1>10. QED BY <1>9 DEF Goal

(* Paying never takes more than a receivable lacks, also when discounts    *)
(* and adjustments have taken its outstanding amount below zero.           *)
THEOREM NeverOverpaidEver == Spec => NeverOverpaid
<1>1. TypeInv /\ RowsInv /\ [Next]_vars =>
        [\A r \in Receivables :
           receivables'[r].amountPaid > receivables[r].amountPaid
             => receivables'[r].amountOutstanding >= 0]_vars
  BY StepNeverOverpays
<1>2. QED
  BY <1>1, TypeInvariance, RowsInvariance, PTL DEF Spec, NeverOverpaid

(* An order turns PAID only in a step that pays it, which looks at what    *)
(* its items lack after the money is given out.                            *)
LEMMA StepPaysInFull ==
  ASSUME TypeInv, RowsInv, [Next]_vars, NEW o \in Orders,
         orders[o].status # "PAID", orders'[o].status = "PAID",
         NEW i \in DOMAIN orders'[o].items
  PROVE  receivables'[orders'[o].items[i]].amountOutstanding <= 0
<1> DEFINE Goal == receivables'[orders'[o].items[i]].amountOutstanding <= 0
<1>0. orders \in [Orders -> Order]
  BY DEF TypeInv, TypeOK
<1>1. ASSUME NEW t \in Transactions, NEW q \in Orders, NEW amount \in Int,
             Pays(t, q, amount)
      PROVE  Goal
  <2>1. PICK done \in Run, surplus \in Nat : Allocated(t, q, amount, done, surplus)
    BY <1>1, PaysEffect
  <2>2. q = o /\ FullyPaid(orders[o].items, done.receivables)
    BY <1>0, <2>1 DEF Allocated, Order
  <2>3. orders'[o].items = orders[o].items /\ orders[o].items \in Seq(Receivables)
    BY <1>0, <2>1 DEF Allocated, Order
  <2>4. orders[o].items[i] \in Receivables /\ i \in DOMAIN orders[o].items
    BY <2>3, ElementOfSeq
  <2>5. receivables' = done.receivables /\ RunSound(done, orders[o].items)
    BY <2>1, <2>2 DEF Allocated
  <2>6. done.receivables[orders[o].items[i]].status # "CANCELLED"
    BY <2>4, <2>5 DEF RunSound, Sound
  <2>7. QED BY <2>2, <2>3, <2>4, <2>5, <2>6 DEF FullyPaid
<1>2. ASSUME NEW q \in Orders, NEW items \in ItemLists, CreateOrder(q, items)
      PROVE  Goal
  BY <1>0, <1>2 DEF CreateOrder
<1>3. ASSUME NEW q \in Orders, GetQr(q)
      PROVE  Goal
  BY <1>0, <1>3 DEF GetQr, Order
<1>4. UNCHANGED orders => Goal
  OBVIOUS
<1>5. ASSUME NEW t \in Transactions, NEW amount \in TransferAmounts,
             NEW q \in Orders \union {NoOrder}, IngestMatched(t, amount, q)
      PROVE  Goal
  BY <1>1, <1>5, IngestPays
<1>6. ASSUME NEW t \in Transactions, NEW q \in Orders, Match(t, q)
      PROVE  Goal
  BY <1>1, <1>6, MatchPays
<1> HIDE DEF Goal
<1>7. Goal
  BY <1>2, <1>3, <1>4, <1>5, <1>6
     DEF Next, CreateReceivable, Discount, Adjust, IngestUnmatched, Unmatch,
         Refund, CancelReceipt, vars
<1>8. QED BY <1>7 DEF Goal

(* PAID and EXPIRED are final, and an order turns PAID only when none of   *)
(* its receivables has anything outstanding; money that comes for an       *)
(* expired order is never taken for it.                                    *)
THEOREM OrdersSettleForGoodEver == Spec => OrdersSettleForGood
<1>1. TypeInv /\ RowsInv /\ [Next]_vars =>
        [\A o \in Orders :
           /\ orders[o].status \in {"PAID", "EXPIRED"} => orders'[o] = orders[o]
           /\ orders[o].status # "PAID" /\ orders'[o].status = "PAID" =>
                \A i \in DOMAIN orders'[o].items :
                  receivables'[orders'[o].items[i]].amountOutstanding <= 0]_vars
  BY OrderStep, StepPaysInFull
<1>2. QED
  BY <1>1, TypeInvariance, RowsInvariance, PTL DEF Spec, OrdersSettleForGood

-----------------------------------------------------------------------------
(* The rows the totals of a transaction's credits are made of. *)
AvailableRow(t) == [i \in DOMAIN credits[t] |-> AvailableAmount(credits[t][i])]
AmountRow(t)    == [i \in DOMAIN credits[t] |-> credits[t][i].amount]

LEMMA CreditFacts ==
  ASSUME TypeInv, NEW t \in Transactions
  PROVE  /\ credits \in [Transactions -> Seq(Credit)]
         /\ credits[t] \in Seq(Credit) /\ Len(credits[t]) \in Nat
         /\ DOMAIN credits[t] = 1..Len(credits[t])
         /\ \A i \in DOMAIN credits[t] : credits[t][i] \in Credit
<1>1. credits[t] \in Seq(Credit) /\ credits \in [Transactions -> Seq(Credit)]
  BY DEF TypeInv, TypeOK
<1>2. QED BY <1>1, ElementOfSeq

(* The totals of the credits of every transaction are sums of amounts. *)
CreditsAddUp ==
  \A t \in Transactions :
    /\ AvailableRow(t) \in [1..Len(credits[t]) -> Nat]
    /\ AmountRow(t) \in [1..Len(credits[t]) -> Nat]
    /\ \A i \in 1..Len(credits[t]) :
         /\ AvailableRow(t)[i] = AvailableAmount(credits[t][i])
         /\ AmountRow(t)[i] = credits[t][i].amount
    /\ AvailableCredit(t) = Total(AvailableRow(t), Len(credits[t]))
    /\ CreditTotal(t) = Total(AmountRow(t), Len(credits[t]))
    /\ AvailableCredit(t) \in Nat /\ CreditTotal(t) \in Nat

LEMMA CreditRows == TypeInv => CreditsAddUp
<1> SUFFICES ASSUME TypeInv, NEW t \in Transactions
             PROVE  /\ AvailableRow(t) \in [1..Len(credits[t]) -> Nat]
                    /\ AmountRow(t) \in [1..Len(credits[t]) -> Nat]
                    /\ \A i \in 1..Len(credits[t]) :
                         /\ AvailableRow(t)[i] = AvailableAmount(credits[t][i])
                         /\ AmountRow(t)[i] = credits[t][i].amount
                    /\ AvailableCredit(t) = Total(AvailableRow(t), Len(credits[t]))
                    /\ CreditTotal(t) = Total(AmountRow(t), Len(credits[t]))
                    /\ AvailableCredit(t) \in Nat /\ CreditTotal(t) \in Nat
  BY DEF CreditsAddUp
<1> DEFINE n == Len(credits[t])
<1>0. /\ n \in Nat /\ DOMAIN credits[t] = 1..n
      /\ \A i \in 1..n : credits[t][i] \in Credit
  BY CreditFacts
<1>1. \A i \in 1..n : /\ AvailableAmount(credits[t][i]) \in Nat
                      /\ credits[t][i].amount \in Nat
  BY <1>0, AvailableAmountType DEF Credit
<1>2. /\ AvailableRow(t) \in [1..n -> Nat] /\ AmountRow(t) \in [1..n -> Nat]
      /\ \A i \in 1..n : /\ AvailableRow(t)[i] = AvailableAmount(credits[t][i])
                         /\ AmountRow(t)[i] = credits[t][i].amount
  BY <1>0, <1>1 DEF AvailableRow, AmountRow
<1>3. /\ AvailableCredit(t) = Total(AvailableRow(t), n)
      /\ CreditTotal(t) = Total(AmountRow(t), n)
  BY DEF AvailableCredit, CreditTotal, AvailableRow, AmountRow
<1> HIDE DEF n
<1>4. /\ AvailableRow(t) \in [1..n -> Int] /\ AmountRow(t) \in [1..n -> Int]
      /\ \A i \in 1..n : AvailableRow(t)[i] >= 0 /\ AmountRow(t)[i] >= 0
  BY <1>2
<1>5. Total(AvailableRow(t), n) \in Nat /\ Total(AmountRow(t), n) \in Nat
  BY <1>0, <1>4, TotalType
<1>6. QED BY <1>2, <1>3, <1>5 DEF n

-----------------------------------------------------------------------------
(* Refunds. *)

(* Drawing takes what is asked for, as far as the credit has it. *)
LEMMA DrawnAvailable ==
  ASSUME NEW credit \in Credit, NEW toDraw \in Nat
  PROVE  /\ AvailableAmount(Drawn(credit, toDraw)) =
              AvailableAmount(credit) -
                (IF toDraw <= AvailableAmount(credit) THEN toDraw
                 ELSE AvailableAmount(credit))
         /\ Drawn(credit, toDraw).student = credit.student
         /\ Drawn(credit, toDraw).amount = credit.amount
<1>0. credit.remaining \in Nat
  BY DEF Credit
<1>1. CASE credit.status # "AVAILABLE" \/ toDraw <= 0
  BY <1>0, <1>1 DEF Drawn, AvailableAmount
<1>2. CASE credit.status = "AVAILABLE" /\ toDraw > 0 /\ toDraw >= credit.remaining
  <2>1. Drawn(credit, toDraw)
          = [credit EXCEPT !.remaining = 0, !.status = "REFUNDED"]
    BY <1>2 DEF Drawn
  <2>2. QED BY <1>0, <1>2, <2>1 DEF AvailableAmount, Credit
<1>3. CASE credit.status = "AVAILABLE" /\ toDraw > 0 /\ toDraw < credit.remaining
  <2>1. Drawn(credit, toDraw)
          = [credit EXCEPT !.remaining = credit.remaining - toDraw]
    BY <1>0, <1>3 DEF Drawn
  <2>2. QED BY <1>0, <1>3, <2>1 DEF AvailableAmount, Credit
<1>4. QED BY <1>0, <1>1, <1>2, <1>3

(* A refund takes exactly its amount from what is available. *)
LEMMA RefundDraws ==
  ASSUME TypeInv, TypeInv', NEW t \in Transactions, NEW amount \in RefundAmounts,
         Refund(t, amount)
  PROVE  /\ amount \in Nat \ {0}
         /\ refunds' = [refunds EXCEPT ![t] = @ + amount]
         /\ \A u \in Transactions : u # t => credits'[u] = credits[u]
         /\ Len(credits'[t]) = Len(credits[t])
         /\ \A i \in DOMAIN credits[t] :
              /\ credits'[t][i].student = credits[t][i].student
              /\ credits'[t][i].amount = credits[t][i].amount
         /\ AvailableCredit(t)' = AvailableCredit(t) - amount
<1> DEFINE n == Len(credits[t])
           f == AvailableRow(t)
           toDraw(i) == StillToDraw(t, amount, i - 1)
           row == [i \in DOMAIN credits[t] |-> Drawn(credits[t][i], toDraw(i))]
           d == [i \in 1..n |-> IF toDraw(i) <= f[i] THEN toDraw(i) ELSE f[i]]
<1>1. /\ amount \in Nat \ {0} /\ amount <= AvailableCredit(t)
      /\ refunds' = [refunds EXCEPT ![t] = @ + amount]
      /\ credits' = [credits EXCEPT ![t] = row]
  BY InputsAssumption DEF Refund
<1>2. /\ n \in Nat /\ DOMAIN credits[t] = 1..n
      /\ \A i \in 1..n : credits[t][i] \in Credit
      /\ credits \in [Transactions -> Seq(Credit)]
  BY CreditFacts
<1>3. /\ credits'[t] = row /\ DOMAIN credits'[t] = 1..n
      /\ \A u \in Transactions : u # t => credits'[u] = credits[u]
  BY <1>1, <1>2
<1>4. Len(credits'[t]) = n
  <2>1. DOMAIN credits'[t] = 1..Len(credits'[t]) /\ Len(credits'[t]) \in Nat
    BY DEF TypeInv, TypeOK
  <2>2. QED BY <1>2, <1>3, <2>1
<1>5. /\ f \in [1..n -> Nat] /\ AvailableCredit(t) = Total(f, n)
      /\ \A i \in 1..n : f[i] = AvailableAmount(credits[t][i])
  BY CreditRows DEF CreditsAddUp
<1>6. \A i \in 1..n : toDraw(i) \in Nat
  <2>1. \A i \in 1..n : i - 1 \in 0..Len(credits[t])
    BY <1>2
  <2>2. QED BY <1>1, <2>1, StillToDrawType
<1>7. ASSUME NEW i \in 1..n
      PROVE  LET before == RunningTotal(f, n)[i - 1]
             IN  toDraw(i) = IF before >= amount THEN 0 ELSE amount - before
  BY Zenon DEF StillToDraw, AvailableRow
<1>8. \A i \in DOMAIN credits[t] : credits'[t][i] = Drawn(credits[t][i], toDraw(i))
  BY <1>3
<1> HIDE DEF f, toDraw, n, row
<1>9. d \in [1..n -> Int]
  BY <1>5, <1>6
<1>10. Total(d, n) = amount
  <2>1. \A i \in 1..n :
          LET before == RunningTotal(f, n)[i - 1]
              left   == IF before >= amount THEN 0 ELSE amount - before
          IN  d[i] = IF left <= f[i] THEN left ELSE f[i]
    BY <1>7
  <2> HIDE DEF d
  <2>2. Total(d, n) = IF amount <= Total(f, n) THEN amount ELSE Total(f, n)
    BY <1>1, <1>2, <1>5, <1>9, <2>1, TotalDrawn
  <2>3. QED BY <1>1, <1>5, <2>2
<1>11. \A i \in 1..n :
         /\ AvailableRow(t)'[i] = f[i] - d[i]
         /\ credits'[t][i].student = credits[t][i].student
         /\ credits'[t][i].amount = credits[t][i].amount
  <2> SUFFICES ASSUME NEW i \in 1..n
               PROVE  /\ AvailableRow(t)'[i] = f[i] - d[i]
                      /\ credits'[t][i].student = credits[t][i].student
                      /\ credits'[t][i].amount = credits[t][i].amount
    OBVIOUS
  <2>1. AvailableRow(t)'[i] = AvailableAmount(Drawn(credits[t][i], toDraw(i)))
    BY <1>2, <1>3, <1>8 DEF AvailableRow
  <2>2. QED BY <1>2, <1>5, <1>6, <1>8, <2>1, DrawnAvailable
<1>12. /\ AvailableRow(t)' \in [1..n -> Int] /\ f \in [1..n -> Int]
       /\ AvailableCredit(t)' = Total(AvailableRow(t)', n)
       /\ AvailableCredit(t)' \in Int
  <2>1. /\ AvailableRow(t)' \in [1..Len(credits'[t]) -> Nat]
        /\ AvailableCredit(t)' = Total(AvailableRow(t)', Len(credits'[t]))
        /\ AvailableCredit(t)' \in Nat
    <3>1. CreditsAddUp'
      BY CreditRows, PTL
    <3>2. QED BY <3>1 DEF CreditsAddUp
  <2>2. QED BY <1>4, <1>5, <2>1
<1>13. AvailableCredit(t) = AvailableCredit(t)' + amount
  <2>1. \A i \in 1..n : f[i] = AvailableRow(t)'[i] + d[i]
    BY <1>5, <1>9, <1>11, <1>12
  <2> HIDE DEF d
  <2>2. Total(f, n) = Total(AvailableRow(t)', n) + Total(d, n)
    BY <1>2, <1>9, <1>12, <2>1, TotalAddition
  <2>3. QED BY <1>5, <1>10, <1>12, <2>2
<1>14. QED BY <1>1, <1>2, <1>3, <1>4, <1>11, <1>12, <1>13 DEF n

-----------------------------------------------------------------------------
(* What was refunded and what can still be are never more than was given.  *)

Within(t) == refunds[t] + AvailableCredit(t) <= CreditTotal(t)

LEMMA InitWithin == Init => RefundsWithinCredits
<1> SUFFICES ASSUME Init, NEW t \in Transactions PROVE Within(t)
  BY DEF RefundsWithinCredits, Within
<1>1. TypeInv
  BY InitTypes
<1>2. credits[t] = <<>> /\ refunds[t] = 0
  BY DEF Init
<1>3. /\ AvailableCredit(t) = Total(AvailableRow(t), 0)
      /\ CreditTotal(t) = Total(AmountRow(t), 0)
      /\ AvailableRow(t) \in [1..0 -> Int] /\ AmountRow(t) \in [1..0 -> Int]
  <2>1. Len(credits[t]) = 0
    BY <1>2
  <2>2. QED BY <1>1, <2>1, CreditRows DEF CreditsAddUp
<1>4. \A i \in 1..0 : AvailableRow(t)[i] = 0 /\ AmountRow(t)[i] = 0
  OBVIOUS
<1>5. AvailableCredit(t) = 0 /\ CreditTotal(t) = 0
  BY <1>3, <1>4, TotalOfZeros
<1>6. QED BY <1>2, <1>5 DEF Within

LEMMA CreditsKeptWithin ==
  ASSUME NEW t \in Transactions, Within(t),
         credits'[t] = credits[t], refunds'[t] = refunds[t]
  PROVE  Within(t)'
BY DEF Within, AvailableCredit, CreditTotal

(* A surplus becomes a credit of the transaction's, all of it available. *)
GivesCredit(t, student, surplus) ==
  credits' = [credits EXCEPT
    ![t] = Append(@, [student |-> student, amount |-> surplus,
                      remaining |-> surplus, status |-> "AVAILABLE"])]

LEMMA CreditGiven ==
  ASSUME TypeInv, NEW t \in Transactions, NEW student, NEW surplus \in Nat,
         GivesCredit(t, student, surplus)
  PROVE  /\ Len(credits'[t]) = Len(credits[t]) + 1
         /\ DOMAIN credits'[t] = 1..(Len(credits[t]) + 1)
         /\ \A i \in 1..Len(credits[t]) : credits'[t][i] = credits[t][i]
         /\ LET new == credits'[t][Len(credits[t]) + 1]
            IN  /\ new.student = student /\ new.amount = surplus
                /\ AvailableAmount(new) = surplus
<1> DEFINE credit == [student |-> student, amount |-> surplus,
                      remaining |-> surplus, status |-> "AVAILABLE"]
           n == Len(credits[t])
<1>1. /\ credits'[t] = Append(credits[t], credit)
      /\ credits[t] \in Seq(Credit) /\ n \in Nat
  BY CreditFacts DEF GivesCredit
<1>2. /\ Len(credits'[t]) = n + 1 /\ DOMAIN credits'[t] = 1..(n + 1)
      /\ \A i \in 1..n : credits'[t][i] = credits[t][i]
      /\ credits'[t][n + 1] = credit
  <2> HIDE DEF credit
  <2>1. QED BY <1>1
<1>3. QED BY <1>2 DEF AvailableAmount

LEMMA PaysWithin ==
  ASSUME TypeInv, TypeInv', RowsInv, NEW t \in Transactions, NEW o \in Orders,
         NEW amount \in Int, Pays(t, o, amount), Within(t)
  PROVE  Within(t)'
<1>1. PICK done \in Run, surplus \in Nat : Allocated(t, o, amount, done, surplus)
  BY PaysEffect
<1> DEFINE student == StudentOf[orders[o].items[1]]
           n == Len(credits[t])
<1>2. refunds' = refunds
  BY DEF Pays
<1>3. CASE surplus = 0
  BY <1>1, <1>2, <1>3, CreditsKeptWithin DEF Allocated
<1>4. CASE surplus # 0
  <2>1. GivesCredit(t, student, surplus)
    BY <1>1, <1>4 DEF Allocated, GivesCredit
  <2> HIDE DEF student
  <2>2. /\ Len(credits'[t]) = n + 1
        /\ \A i \in 1..n : credits'[t][i] = credits[t][i]
        /\ credits'[t][n + 1].amount = surplus
        /\ AvailableAmount(credits'[t][n + 1]) = surplus
    BY <2>1, CreditGiven
  <2>3. CreditsAddUp /\ CreditsAddUp'
    <3>1. CreditsAddUp'
      BY CreditRows, PTL
    <3>2. QED BY <3>1, CreditRows
  <2>4. /\ n \in Nat
        /\ AvailableRow(t) \in [1..n -> Int] /\ AmountRow(t) \in [1..n -> Int]
        /\ AvailableRow(t)' \in [1..(n + 1) -> Int]
        /\ AmountRow(t)' \in [1..(n + 1) -> Int]
        /\ \A i \in 1..n : /\ AvailableRow(t)'[i] = AvailableRow(t)[i]
                           /\ AmountRow(t)'[i] = AmountRow(t)[i]
        /\ AvailableRow(t)'[n + 1] = surplus /\ AmountRow(t)'[n + 1] = surplus
    <3>1. n \in Nat
      BY CreditFacts
    <3>2. /\ AvailableRow(t) \in [1..n -> Nat] /\ AmountRow(t) \in [1..n -> Nat]
          /\ \A i \in 1..n : /\ AvailableRow(t)[i] = AvailableAmount(credits[t][i])
                             /\ AmountRow(t)[i] = credits[t][i].amount
      BY <2>3 DEF CreditsAddUp
    <3>3. /\ AvailableRow(t)' \in [1..(n + 1) -> Nat]
          /\ AmountRow(t)' \in [1..(n + 1) -> Nat]
          /\ \A i \in 1..(n + 1) :
               /\ AvailableRow(t)'[i] = AvailableAmount(credits'[t][i])
               /\ AmountRow(t)'[i] = credits'[t][i].amount
      BY <2>2, <2>3 DEF CreditsAddUp
    <3> HIDE DEF n
    <3>4. \A i \in 1..n : i \in 1..(n + 1)
      BY <3>1
    <3>5. n + 1 \in 1..(n + 1)
      BY <3>1
    <3>6. \A i \in 1..n : /\ AvailableRow(t)'[i] = AvailableRow(t)[i]
                           /\ AmountRow(t)'[i] = AmountRow(t)[i]
      BY <2>2, <3>2, <3>3, <3>4
    <3>7. AvailableRow(t)'[n + 1] = surplus /\ AmountRow(t)'[n + 1] = surplus
      BY <2>2, <3>3, <3>5
    <3>8. /\ AvailableRow(t) \in [1..n -> Int] /\ AmountRow(t) \in [1..n -> Int]
          /\ AvailableRow(t)' \in [1..(n + 1) -> Int]
          /\ AmountRow(t)' \in [1..(n + 1) -> Int]
      BY <3>2, <3>3
    <3>9. QED BY <3>1, <3>6, <3>7, <3>8
  <2>5. /\ Total(AvailableRow(t)', n + 1) = Total(AvailableRow(t), n) + surplus
        /\ Total(AmountRow(t)', n + 1) = Total(AmountRow(t), n) + surplus
    BY <2>4, TotalExtended
  <2>6. /\ AvailableCredit(t)' = AvailableCredit(t) + surplus
        /\ CreditTotal(t)' = CreditTotal(t) + surplus
        /\ AvailableCredit(t) \in Nat /\ CreditTotal(t) \in Nat
    BY <2>2, <2>3, <2>5 DEF CreditsAddUp
  <2>7. refunds[t] \in Nat
    BY DEF TypeInv, TypeOK
  <2>8. QED BY <1>2, <2>6, <2>7 DEF Within
<1>5. QED BY <1>3, <1>4

(* Voiding leaves of each credit all that was drawn from, and its amount. *)
LEMMA VoidedAvailable ==
  ASSUME NEW credit \in Credit
  PROVE  /\ AvailableAmount(Voided(credit)) =
              AvailableAmount(credit) -
                (IF Untouched(credit) THEN credit.amount ELSE 0)
         /\ Voided(credit).amount = credit.amount
         /\ Voided(credit).student = credit.student
BY DEF Credit, Voided, Untouched, AvailableAmount

LEMMA UnmatchCredits ==
  ASSUME TypeInv, NEW t \in Transactions, Unmatch(t)
  PROVE  /\ \A u \in Transactions : u # t => credits'[u] = credits[u]
         /\ Len(credits'[t]) = Len(credits[t])
         /\ DOMAIN credits'[t] = 1..Len(credits[t])
         /\ \A i \in 1..Len(credits[t]) : credits'[t][i] = Voided(credits[t][i])
<1> DEFINE n == Len(credits[t])
           row == [i \in DOMAIN credits[t] |-> Voided(credits[t][i])]
<1>1. /\ n \in Nat /\ DOMAIN credits[t] = 1..n
      /\ \A i \in 1..n : credits[t][i] \in Credit
      /\ credits \in [Transactions -> Seq(Credit)]
  BY CreditFacts
<1>2. credits' = [credits EXCEPT ![t] = row]
  BY DEF Unmatch
<1>3. row \in [1..n -> Credit]
  BY <1>1, VoidedType
<1>4. row \in Seq(Credit) /\ Len(row) = n
  BY <1>1, <1>3, FunctionIsSeq
<1>5. QED BY <1>1, <1>2, <1>3, <1>4

LEMMA UnmatchWithin ==
  ASSUME TypeInv, TypeInv', NEW t \in Transactions, Unmatch(t), Within(t)
  PROVE  Within(t)'
<1> DEFINE n == Len(credits[t])
<1>1. /\ n \in Nat /\ Len(credits'[t]) = n
      /\ \A i \in 1..n : /\ credits[t][i] \in Credit
                         /\ credits'[t][i] = Voided(credits[t][i])
  BY CreditFacts, UnmatchCredits
<1>2. CreditsAddUp /\ CreditsAddUp'
  <2>1. CreditsAddUp'
    BY CreditRows, PTL
  <2>2. QED BY <2>1, CreditRows
<1>3. \A i \in 1..n : /\ AvailableRow(t)'[i] <= AvailableRow(t)[i]
                      /\ AmountRow(t)'[i] = AmountRow(t)[i]
  <2> SUFFICES ASSUME NEW i \in 1..n
               PROVE  /\ AvailableRow(t)'[i] <= AvailableRow(t)[i]
                      /\ AmountRow(t)'[i] = AmountRow(t)[i]
    OBVIOUS
  <2>1. /\ AvailableRow(t)[i] = AvailableAmount(credits[t][i])
        /\ AvailableRow(t)'[i] = AvailableAmount(credits'[t][i])
        /\ AmountRow(t)[i] = credits[t][i].amount
        /\ AmountRow(t)'[i] = credits'[t][i].amount
    BY <1>1, <1>2 DEF CreditsAddUp
  <2>2. AvailableAmount(credits[t][i]) \in Nat /\ credits[t][i].amount \in Nat
    BY <1>1, AvailableAmountType DEF Credit
  <2>3. QED BY <1>1, <2>1, <2>2, VoidedAvailable
<1>4. /\ AvailableRow(t) \in [1..n -> Int] /\ AvailableRow(t)' \in [1..n -> Int]
      /\ AmountRow(t) \in [1..n -> Int] /\ AmountRow(t)' \in [1..n -> Int]
  BY <1>1, <1>2 DEF CreditsAddUp
<1>5. /\ Total(AvailableRow(t)', n) <= Total(AvailableRow(t), n)
      /\ Total(AmountRow(t), n) <= Total(AmountRow(t)', n)
  <2>1. \A i \in 1..n : AmountRow(t)[i] <= AmountRow(t)'[i]
    BY <1>3, <1>4
  <2> HIDE DEF n
  <2>2. QED BY <1>1, <1>3, <1>4, <2>1, TotalAtMost
<1>6. /\ AvailableCredit(t)' <= AvailableCredit(t) /\ CreditTotal(t) <= CreditTotal(t)'
      /\ AvailableCredit(t) \in Nat /\ CreditTotal(t) \in Nat
      /\ AvailableCredit(t)' \in Nat /\ CreditTotal(t)' \in Nat
  BY <1>1, <1>2, <1>5 DEF CreditsAddUp
<1>7. refunds' = refunds /\ refunds[t] \in Nat
  BY DEF Unmatch, TypeInv, TypeOK
<1>8. QED BY <1>6, <1>7 DEF Within

LEMMA RefundWithin ==
  ASSUME TypeInv, TypeInv', NEW t \in Transactions, NEW amount \in RefundAmounts,
         Refund(t, amount), Within(t)
  PROVE  Within(t)'
<1>1. /\ amount \in Nat /\ AvailableCredit(t)' = AvailableCredit(t) - amount
      /\ refunds' = [refunds EXCEPT ![t] = @ + amount]
      /\ Len(credits'[t]) = Len(credits[t])
      /\ \A i \in DOMAIN credits[t] : credits'[t][i].amount = credits[t][i].amount
  BY RefundDraws
<1>2. refunds \in [Transactions -> Nat] /\ refunds'[t] = refunds[t] + amount
  BY <1>1 DEF TypeInv, TypeOK
<1>3. CreditTotal(t)' = CreditTotal(t)
  <2>1. /\ DOMAIN credits[t] = 1..Len(credits[t])
        /\ DOMAIN credits'[t] = 1..Len(credits'[t])
    BY DEF TypeInv, TypeOK
  <2>2. AmountRow(t)' = AmountRow(t)
    BY <1>1, <2>1 DEF AmountRow
  <2>3. QED BY <1>1, <2>2 DEF CreditTotal, AmountRow
<1>4. AvailableCredit(t) \in Nat /\ CreditTotal(t) \in Nat
  BY CreditRows DEF CreditsAddUp
<1>5. QED BY <1>1, <1>2, <1>3, <1>4 DEF Within

LEMMA NextWithin ==
  /\ TypeInv /\ TypeInv' /\ RowsInv /\ RefundsWithinCredits /\ [Next]_vars
  => RefundsWithinCredits'
<1> SUFFICES ASSUME TypeInv, TypeInv', RowsInv, RefundsWithinCredits, [Next]_vars,
                    NEW u \in Transactions
             PROVE  Within(u)'
  BY DEF RefundsWithinCredits, Within
<1>0. Within(u)
  BY DEF RefundsWithinCredits, Within
<1>1. ASSUME NEW t \in Transactions, NEW o \in Orders, NEW amount \in Int,
             Pays(t, o, amount)
      PROVE  Within(u)'
  BY <1>0, <1>1, PaysWithin, OtherTransactions, CreditsKeptWithin
<1>2. ASSUME NEW t \in Transactions, NEW amount \in TransferAmounts,
             NEW o \in Orders \union {NoOrder}, IngestUnmatched(t, amount, o)
      PROVE  Within(u)'
  BY <1>0, <1>2, CreditsKeptWithin DEF IngestUnmatched
<1>3. ASSUME NEW t \in Transactions, Unmatch(t) PROVE Within(u)'
  BY <1>0, <1>3, UnmatchWithin, OtherTransactions, CreditsKeptWithin
<1>4. ASSUME NEW t \in Transactions, NEW i \in DOMAIN receipts[t], CancelReceipt(t, i)
      PROVE  Within(u)'
  BY <1>0, <1>4, CreditsKeptWithin DEF CancelReceipt
<1>5. ASSUME NEW t \in Transactions, NEW amount \in RefundAmounts, Refund(t, amount)
      PROVE  Within(u)'
  <2>1. CASE u = t
    BY <1>0, <1>5, <2>1, RefundWithin
  <2>2. CASE u # t
    BY <1>0, <1>5, <2>2, RefundDraws, CreditsKeptWithin DEF TypeInv, TypeOK
  <2>3. QED BY <2>1, <2>2
<1>6. CASE UNCHANGED <<credits, refunds>>
  BY <1>0, <1>6, CreditsKeptWithin
<1>7. QED BY <1>1, <1>2, <1>3, <1>4, <1>5, <1>6, StepKinds

(* Refunds come out of a transaction's own credits: what was refunded and  *)
(* what is still available are never more than the credits it ever gave,   *)
(* through any number of refunds, reversals and new matches.               *)
THEOREM RefundsWithinCreditsAlways == Spec => []RefundsWithinCredits
<1>1. QED
  BY TypeInvariance, RowsInvariance, InitWithin, NextWithin, PTL DEF Spec
=============================================================================
