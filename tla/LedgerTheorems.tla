--------------------------- MODULE LedgerTheorems ---------------------------
(***************************************************************************)
(* Accounting: the student ledger follows the books, whatever the number   *)
(* of rows and the amounts: each request posts for each student what it    *)
(* does to that student's receivables and credits, an unmatch that voids a *)
(* credit excepted, and a refund does so for the school as a whole.        *)
(***************************************************************************)
EXTENDS AccountingTheorems

-----------------------------------------------------------------------------
(* All items of an order are of one student. *)

OneStudent(o) ==
  orders[o].status # "NONE" =>
    \A i \in DOMAIN orders[o].items :
      StudentOf[orders[o].items[i]] = StudentOf[orders[o].items[1]]

OneStudentPerOrder == \A o \in Orders : OneStudent(o)

LEMMA InitOneStudent == Init => OneStudentPerOrder
BY DEF Init, OneStudentPerOrder, OneStudent

LEMMA NextOneStudent ==
  TypeInv /\ RowsInv /\ OneStudentPerOrder /\ [Next]_vars => OneStudentPerOrder'
<1> SUFFICES ASSUME TypeInv, RowsInv, OneStudentPerOrder, [Next]_vars,
                    NEW o \in Orders
             PROVE  OneStudent(o)'
  BY DEF OneStudentPerOrder
<1>0. orders \in [Orders -> Order] /\ OneStudent(o)
  BY DEF TypeInv, TypeOK, OneStudentPerOrder
<1>1. ASSUME NEW q \in Orders, NEW items \in ItemLists, CreateOrder(q, items)
      PROVE  OneStudent(o)'
  BY <1>0, <1>1 DEF CreateOrder, OneStudent
<1>2. ASSUME NEW q \in Orders, GetQr(q)
      PROVE  OneStudent(o)'
  BY <1>0, <1>2 DEF GetQr, OneStudent, Order
<1>3. ASSUME NEW t \in Transactions, NEW q \in Orders, NEW amount \in Int,
             Pays(t, q, amount)
      PROVE  OneStudent(o)'
  <2>1. PICK done \in Run, surplus \in Nat : Allocated(t, q, amount, done, surplus)
    BY <1>3, PaysEffect
  <2>2. orders'[o].items = orders[o].items
        /\ (orders[o].status = "NONE" => orders'[o].status = "NONE")
    BY <1>0, <1>3, <2>1 DEF Allocated, Pays, Payable, Order
  <2>3. QED BY <1>0, <2>2 DEF OneStudent
<1>4. CASE UNCHANGED orders
  BY <1>0, <1>4 DEF OneStudent
<1>5. ASSUME NEW t \in Transactions, NEW amount \in TransferAmounts,
             NEW q \in Orders \union {NoOrder}, IngestMatched(t, amount, q)
      PROVE  OneStudent(o)'
  BY <1>3, <1>5, IngestPays
<1>6. ASSUME NEW t \in Transactions, NEW q \in Orders, Match(t, q)
      PROVE  OneStudent(o)'
  BY <1>3, <1>6, MatchPays
<1>7. QED
  BY <1>1, <1>2, <1>4, <1>5, <1>6
     DEF Next, vars, CreateReceivable, Discount, Adjust, IngestUnmatched, Unmatch,
         Refund, CancelReceipt

(* An order only has items of one student, for ever. *)
LEMMA OneStudentInvariance == Spec => []OneStudentPerOrder
<1>1. QED
  BY TypeInvariance, RowsInvariance, InitOneStudent, NextOneStudent, PTL DEF Spec

-----------------------------------------------------------------------------
(* What the books of a student are made of. *)

OwedRow(s) ==
  [r \in Receivables |->
     IF StudentOf[r] = s THEN receivables[r].amountOutstanding ELSE 0]

Owed(s) == Total(OwedRow(s), NumReceivables)

CreditRow(t, s) ==
  [i \in DOMAIN credits[t] |->
     IF credits[t][i].student = s THEN AvailableAmount(credits[t][i]) ELSE 0]

CreditFrom(t, s) == Total(CreditRow(t, s), Len(credits[t]))

CreditsRow(s) == [t \in Transactions |-> CreditFrom(t, s)]

BooksAddUp ==
  \A s \in Students :
    /\ ledger[s] \in Int /\ Owed(s) \in Int /\ CreditOf(s) \in Int
    /\ Drift(s) = ledger[s] - Owed(s) + CreditOf(s)
    /\ OwedRow(s) \in [1..NumReceivables -> Int]
    /\ CreditsRow(s) \in [1..NumTransactions -> Int]
    /\ CreditOf(s) = Total(CreditsRow(s), NumTransactions)
    /\ \A t \in Transactions :
         /\ CreditRow(t, s) \in [1..Len(credits[t]) -> Int]
         /\ CreditFrom(t, s) \in Int

LEMMA BooksTypes == TypeInv => BooksAddUp
<1> SUFFICES ASSUME TypeInv, NEW s \in Students
             PROVE  /\ ledger[s] \in Int /\ Owed(s) \in Int /\ CreditOf(s) \in Int
                    /\ Drift(s) = ledger[s] - Owed(s) + CreditOf(s)
                    /\ OwedRow(s) \in [1..NumReceivables -> Int]
                    /\ CreditsRow(s) \in [1..NumTransactions -> Int]
                    /\ CreditOf(s) = Total(CreditsRow(s), NumTransactions)
                    /\ \A t \in Transactions :
                         /\ CreditRow(t, s) \in [1..Len(credits[t]) -> Int]
                         /\ CreditFrom(t, s) \in Int
  BY DEF BooksAddUp
<1>1. ledger[s] \in Int
  BY DEF TypeInv, TypeOK
<1>2. OwedRow(s) \in [1..NumReceivables -> Int]
  <2>1. \A r \in Receivables : receivables[r].amountOutstanding \in Int
    BY DEF TypeInv, TypeOK, Receivable
  <2>2. QED BY <2>1 DEF OwedRow, Receivables
<1>3. Owed(s) \in Int
  BY <1>2, SizesAssumption, TotalType DEF Owed
<1>4. ASSUME NEW t \in Transactions
      PROVE  /\ CreditRow(t, s) \in [1..Len(credits[t]) -> Int]
             /\ CreditFrom(t, s) \in Int
  <2>1. /\ Len(credits[t]) \in Nat /\ DOMAIN credits[t] = 1..Len(credits[t])
        /\ \A i \in DOMAIN credits[t] : AvailableAmount(credits[t][i]) \in Int
    BY CreditFacts, AvailableAmountType
  <2>2. CreditRow(t, s) \in [1..Len(credits[t]) -> Int]
    BY <2>1 DEF CreditRow
  <2>3. QED BY <2>1, <2>2, TotalType DEF CreditFrom
<1>5. CreditsRow(s) \in [1..NumTransactions -> Int]
  BY <1>4 DEF CreditsRow, Transactions
<1>6. CreditOf(s) = Total(CreditsRow(s), NumTransactions)
  BY DEF CreditOf, CreditsRow, CreditFrom, CreditRow
<1>7. CreditOf(s) \in Int
  BY <1>5, <1>6, SizesAssumption, TotalType
<1>8. Drift(s) = ledger[s] - Owed(s) + CreditOf(s)
  <2>1. BooksOf(s) = Owed(s) - CreditOf(s)
    BY DEF BooksOf, Owed, OwedRow
  <2>2. QED BY <1>1, <1>3, <1>7, <2>1 DEF Drift
<1>9. QED BY <1>1, <1>2, <1>3, <1>4, <1>5, <1>6, <1>7, <1>8

(* The part of what the receivables gain that student s owes. *)
OwnPart(d, s) == [r \in Receivables |-> IF StudentOf[r] = s THEN d[r] ELSE 0]

LEMMA OwedChange ==
  ASSUME TypeInv, TypeInv', NEW s \in Students, NEW d \in [Receivables -> Int],
         \A r \in Receivables : receivables'[r].amountOutstanding
                                  = receivables[r].amountOutstanding + d[r]
  PROVE  /\ Owed(s)' = Owed(s) + Total(OwnPart(d, s), NumReceivables)
         /\ Total(OwnPart(d, s), NumReceivables) \in Int
<1>1. OwedRow(s) \in [1..NumReceivables -> Int]
  BY BooksTypes DEF BooksAddUp
<1>2. OwedRow(s)' \in [1..NumReceivables -> Int]
  <2>1. BooksAddUp'
    BY BooksTypes, PTL
  <2>2. QED BY <2>1 DEF BooksAddUp
<1>3. OwnPart(d, s) \in [1..NumReceivables -> Int]
  BY DEF OwnPart, Receivables
<1>4. \A r \in 1..NumReceivables : OwedRow(s)'[r] = OwedRow(s)[r] + OwnPart(d, s)[r]
  <2>1. \A r \in Receivables : receivables[r].amountOutstanding \in Int
    BY DEF TypeInv, TypeOK, Receivable
  <2>2. QED BY <2>1 DEF OwedRow, OwnPart, Receivables
<1>5. Total(OwedRow(s)', NumReceivables)
        = Total(OwedRow(s), NumReceivables) + Total(OwnPart(d, s), NumReceivables)
  BY <1>1, <1>2, <1>3, <1>4, SizesAssumption, TotalAddition
<1>6. QED BY <1>3, <1>5, SizesAssumption, TotalType DEF Owed

LEMMA CreditChange ==
  ASSUME TypeInv, TypeInv', NEW s \in Students, NEW t \in Transactions,
         \A u \in Transactions : u # t => credits'[u] = credits[u]
  PROVE  CreditOf(s)' = CreditOf(s) + CreditFrom(t, s)' - CreditFrom(t, s)
<1>1. /\ CreditsRow(s) \in [1..NumTransactions -> Int]
      /\ CreditOf(s) = Total(CreditsRow(s), NumTransactions)
  BY BooksTypes DEF BooksAddUp
<1>2. /\ CreditsRow(s)' \in [1..NumTransactions -> Int]
      /\ CreditOf(s)' = Total(CreditsRow(s)', NumTransactions)
  <2>1. BooksAddUp'
    BY BooksTypes, PTL
  <2>2. QED BY <2>1 DEF BooksAddUp
<1>3. \A u \in 1..NumTransactions : u # t => CreditsRow(s)'[u] = CreditsRow(s)[u]
  BY DEF CreditsRow, CreditFrom, CreditRow, Transactions
<1>4. /\ CreditsRow(s)[t] = CreditFrom(t, s)
      /\ CreditsRow(s)'[t] = CreditFrom(t, s)'
  BY DEF CreditsRow
<1>5. t \in 1..NumTransactions
  BY DEF Transactions
<1>6. Total(CreditsRow(s)', NumTransactions)
        = Total(CreditsRow(s), NumTransactions) + CreditsRow(s)'[t] - CreditsRow(s)[t]
  BY <1>1, <1>2, <1>3, <1>5, SizesAssumption, TotalUpdate
<1>7. QED BY <1>1, <1>2, <1>4, <1>6

LEMMA DriftMoves ==
  ASSUME TypeInv, TypeInv', NEW s \in Students
  PROVE  /\ Drift(s)' = Drift(s) + (ledger'[s] - ledger[s]) - (Owed(s)' - Owed(s))
                          + (CreditOf(s)' - CreditOf(s))
         /\ Drift(s) \in Int /\ Drift(s)' \in Int
         /\ ledger[s] \in Int /\ Owed(s) \in Int /\ CreditOf(s) \in Int
         /\ ledger'[s] \in Int /\ Owed(s)' \in Int /\ CreditOf(s)' \in Int
         /\ \A t \in Transactions : CreditFrom(t, s) \in Int /\ CreditFrom(t, s)' \in Int
<1>1. BooksAddUp /\ BooksAddUp'
  <2>1. BooksAddUp'
    BY BooksTypes, PTL
  <2>2. QED BY <2>1, BooksTypes
<1>2. /\ ledger[s] \in Int /\ Owed(s) \in Int /\ CreditOf(s) \in Int
      /\ Drift(s) = ledger[s] - Owed(s) + CreditOf(s)
      /\ \A t \in Transactions : CreditFrom(t, s) \in Int
  BY <1>1 DEF BooksAddUp
<1>3. /\ ledger'[s] \in Int /\ Owed(s)' \in Int /\ CreditOf(s)' \in Int
      /\ Drift(s)' = ledger'[s] - Owed(s)' + CreditOf(s)'
      /\ \A t \in Transactions : CreditFrom(t, s)' \in Int
  BY <1>1 DEF BooksAddUp
<1>4. QED BY <1>2, <1>3

-----------------------------------------------------------------------------
(* Each request, by what it does to the books and to the ledger. *)

LEMMA NothingMoves ==
  ASSUME UNCHANGED <<receivables, credits, ledger>>, NEW s \in Students
  PROVE  Drift(s)' = Drift(s)
BY DEF Drift, BooksOf, CreditOf, AvailableAmount

(* A charge, a discount, an adjustment: one receivable and one entry. *)
LEMMA ChargeKeepsDrift ==
  ASSUME TypeInv, TypeInv', NEW r \in Receivables, NEW delta \in Int,
         receivables'[r].amountOutstanding = receivables[r].amountOutstanding + delta,
         \A q \in Receivables : q # r => receivables'[q] = receivables[q],
         ledger' = [ledger EXCEPT ![StudentOf[r]] = @ + delta],
         UNCHANGED credits, NEW s \in Students
  PROVE  Drift(s)' = Drift(s)
<1> DEFINE d == [q \in Receivables |-> IF q = r THEN delta ELSE 0]
<1>1. d \in [Receivables -> Int]
  OBVIOUS
<1>2. \A q \in Receivables : receivables'[q].amountOutstanding
                               = receivables[q].amountOutstanding + d[q]
  <2>1. \A q \in Receivables : receivables[q].amountOutstanding \in Int
    BY DEF TypeInv, TypeOK, Receivable
  <2>2. QED BY <2>1
<1>3. /\ OwnPart(d, s) \in [1..NumReceivables -> Int] /\ r \in 1..NumReceivables
      /\ OwnPart(d, s)[r] = IF StudentOf[r] = s THEN delta ELSE 0
      /\ \A q \in 1..NumReceivables : q # r => OwnPart(d, s)[q] = 0
  BY DEF OwnPart, Receivables
<1> HIDE DEF d
<1>4. Total(OwnPart(d, s), NumReceivables) = IF StudentOf[r] = s THEN delta ELSE 0
  BY <1>3, SizesAssumption, TotalOfOneRow
<1>5. Owed(s)' = Owed(s) + (IF StudentOf[r] = s THEN delta ELSE 0)
  BY <1>1, <1>2, <1>4, OwedChange
<1>6. CreditOf(s)' = CreditOf(s)
  BY DEF CreditOf, AvailableAmount
<1>7. ledger'[s] = ledger[s] + (IF StudentOf[r] = s THEN delta ELSE 0)
  BY DEF TypeInv, TypeOK
<1>8. QED BY <1>5, <1>6, <1>7, DriftMoves

(* What one transaction's new credit adds to each student's. *)
LEMMA CreditGivenTo ==
  ASSUME TypeInv, TypeInv', NEW t \in Transactions, NEW student, NEW surplus \in Nat,
         GivesCredit(t, student, surplus), NEW s \in Students
  PROVE  CreditOf(s)' = CreditOf(s) + (IF student = s THEN surplus ELSE 0)
<1> DEFINE n == Len(credits[t])
           f == CreditRow(t, s)
           given == IF student = s THEN surplus ELSE 0
<1>1. /\ n \in Nat /\ Len(credits'[t]) = n + 1
      /\ DOMAIN credits[t] = 1..n /\ DOMAIN credits'[t] = 1..(n + 1)
      /\ \A i \in 1..n : credits'[t][i] = credits[t][i]
      /\ credits'[t][n + 1].student = student
      /\ AvailableAmount(credits'[t][n + 1]) = surplus
  BY CreditFacts, CreditGiven
<1>2. f \in [1..n -> Int]
  BY BooksTypes DEF BooksAddUp
<1>3. CreditRow(t, s)' \in [1..(n + 1) -> Int]
  <2>1. BooksAddUp'
    BY BooksTypes, PTL
  <2>2. CreditRow(t, s)' \in [1..Len(credits'[t]) -> Int]
    BY <2>1 DEF BooksAddUp
  <2>3. QED BY <1>1, <2>2
<1>4. \A i \in 1..n : CreditRow(t, s)'[i] = f[i]
  <2> SUFFICES ASSUME NEW i \in 1..n PROVE CreditRow(t, s)'[i] = f[i]
    OBVIOUS
  <2>1. i \in 1..(n + 1)
    BY <1>1
  <2>2. QED BY <1>1, <2>1 DEF CreditRow
<1>5. CreditRow(t, s)'[n + 1] = given
  <2>1. n + 1 \in 1..(n + 1)
    BY <1>1
  <2>2. QED BY <1>1, <2>1 DEF CreditRow
<1> HIDE DEF f, n, given
<1>6. Total(CreditRow(t, s)', n + 1) = Total(f, n) + given
  BY <1>1, <1>2, <1>3, <1>4, <1>5, TotalExtended
<1>7. CreditFrom(t, s)' = CreditFrom(t, s) + given
  BY <1>1, <1>6 DEF CreditFrom, f, n
<1>8. \A u \in Transactions : u # t => credits'[u] = credits[u]
  BY CreditFacts DEF GivesCredit
<1>9. CreditOf(s)' = CreditOf(s) + CreditFrom(t, s)' - CreditFrom(t, s)
  BY <1>8, CreditChange
<1>10. given \in Int
  BY DEF given
<1>11. QED BY <1>7, <1>9, <1>10, DriftMoves DEF given

(* The money paid leaves the ledger as it leaves the receivables, and the  *)
(* surplus as it joins the credits: all for the student of the order.      *)
LEMMA PaysKeepDrift ==
  ASSUME TypeInv, TypeInv', RowsInv, OneStudentPerOrder,
         NEW t \in Transactions, NEW o \in Orders, NEW amount \in Int,
         Pays(t, o, amount), NEW s \in Students
  PROVE  Drift(s)' = Drift(s)
<1>1. PICK done \in Run, surplus \in Nat : Allocated(t, o, amount, done, surplus)
  BY PaysEffect
<1> DEFINE student == StudentOf[orders[o].items[1]]
           paid == done.allocatedTotal + surplus
           d == [r \in Receivables |-> 0 - done.allocated[r]]
<1>2. /\ done.allocated \in [Receivables -> Nat] /\ done.allocatedTotal \in Nat
      /\ done.allocatedTotal = Total(done.allocated, NumReceivables)
      /\ RunSound(done, orders[o].items)
      /\ receivables' = done.receivables
      /\ ledger' = [ledger EXCEPT ![student] = @ - paid]
  BY <1>1 DEF Allocated, RunOK, Run
<1>3. \A r \in Receivables : done.allocated[r] > 0 => StudentOf[r] = student
  BY <1>2 DEF RunSound, OneStudentPerOrder, OneStudent, Pays, Payable
<1>4. Owed(s)' = Owed(s) - (IF student = s THEN done.allocatedTotal ELSE 0)
  <2>1. d \in [Receivables -> Int]
    BY <1>2
  <2>2. \A r \in Receivables : receivables'[r].amountOutstanding
                                 = receivables[r].amountOutstanding + d[r]
    <3> SUFFICES ASSUME NEW r \in Receivables
                 PROVE  receivables'[r].amountOutstanding
                          = receivables[r].amountOutstanding + d[r]
      OBVIOUS
    <3>1. receivables'[r].amountOutstanding
            = receivables[r].amountOutstanding - done.allocated[r]
      BY <1>2 DEF RunSound
    <3>2. receivables[r].amountOutstanding \in Int /\ done.allocated[r] \in Nat
      BY <1>2 DEF TypeInv, TypeOK, Receivable
    <3>3. QED BY <3>1, <3>2
  <2>3. Owed(s)' = Owed(s) + Total(OwnPart(d, s), NumReceivables)
    BY <2>1, <2>2, OwedChange
  <2> DEFINE g == OwnPart(d, s)
             a == done.allocated
  <2>4. g \in [1..NumReceivables -> Int] /\ a \in [1..NumReceivables -> Int]
    BY <1>2, <2>1 DEF OwnPart, Receivables
  <2>5. Total(g, NumReceivables) = 0 - (IF student = s THEN done.allocatedTotal ELSE 0)
    <3>1. \A r \in 1..NumReceivables :
            g[r] = IF student = s THEN 0 - a[r] ELSE 0
      <4> SUFFICES ASSUME NEW r \in Receivables
                   PROVE  g[r] = IF student = s THEN 0 - a[r] ELSE 0
        BY DEF Receivables
      <4>1. g[r] = IF StudentOf[r] = s THEN 0 - a[r] ELSE 0
        BY DEF OwnPart
      <4>2. a[r] \in Nat /\ (a[r] > 0 => StudentOf[r] = student)
        BY <1>2, <1>3
      <4> HIDE DEF g, a, student
      <4>3. QED BY <4>1, <4>2
    <3>2. CASE student = s
      <4> DEFINE z == [r \in 1..NumReceivables |-> 0]
      <4>1. z \in [1..NumReceivables -> Int]
        OBVIOUS
      <4>2. \A r \in 1..NumReceivables : z[r] = g[r] + a[r] /\ z[r] = 0
        <5> HIDE DEF g, a
        <5>1. QED BY <2>4, <3>1, <3>2
      <4> HIDE DEF z, g, a
      <4>3. Total(z, NumReceivables) = Total(g, NumReceivables) + Total(a, NumReceivables)
        BY <2>4, <4>1, <4>2, SizesAssumption, TotalAddition
      <4>4. Total(z, NumReceivables) = 0
        BY <4>1, <4>2, SizesAssumption, TotalOfZeros
      <4>5. Total(g, NumReceivables) \in Int
        BY <2>4, SizesAssumption, TotalType
      <4>6. QED BY <1>2, <3>2, <4>3, <4>4, <4>5 DEF a
    <3>3. CASE student # s
      <4>1. \A r \in 1..NumReceivables : g[r] = 0
        BY <3>1, <3>3
      <4> HIDE DEF g
      <4>2. QED BY <2>4, <3>3, <4>1, SizesAssumption, TotalOfZeros
    <3>4. QED BY <3>2, <3>3
  <2> HIDE DEF d
  <2>6. QED BY <1>2, <2>3, <2>5, DriftMoves
<1>5. CreditOf(s)' = CreditOf(s) + (IF student = s THEN surplus ELSE 0)
  <2>1. CASE surplus = 0
    <3>1. credits' = credits
      BY <1>1, <2>1 DEF Allocated
    <3>2. CreditOf(s)' = CreditOf(s)
      BY <3>1 DEF CreditOf, AvailableAmount
    <3>3. QED BY <2>1, <3>2, DriftMoves
  <2>2. CASE surplus # 0
    <3>1. GivesCredit(t, student, surplus)
      BY <1>1, <2>2 DEF Allocated, GivesCredit
    <3> HIDE DEF student
    <3>2. QED BY <3>1, CreditGivenTo
  <2>3. QED BY <2>1, <2>2
<1>6. ledger'[s] = ledger[s] - (IF student = s THEN paid ELSE 0)
  BY <1>2 DEF TypeInv, TypeOK
<1> HIDE DEF student
<1>7. QED BY <1>2, <1>4, <1>5, <1>6, DriftMoves

-----------------------------------------------------------------------------
(* An unmatch gives back to the receivables what it posts to the ledger,   *)
(* and voids credits for which it posts nothing.                           *)

LEMMA UnmatchOwes ==
  ASSUME TypeInv, TypeInv', RowsInv, PaidInv, NEW t \in Transactions, Unmatch(t),
         NEW s \in Students
  PROVE  /\ Owed(s)' = Owed(s) + ReversedFrom(t, s)
         /\ ReversedFrom(t, s) \in Int
         /\ ledger'[s] = ledger[s] + ReversedFrom(t, s)
<1>1. allocations[t] \in [Receivables -> Int]
  BY DEF TypeInv, TypeOK
<1>2. \A r \in Receivables : receivables'[r].amountOutstanding
                               = receivables[r].amountOutstanding + allocations[t][r]
  <2> SUFFICES ASSUME NEW r \in Receivables
               PROVE  receivables'[r].amountOutstanding
                        = receivables[r].amountOutstanding + allocations[t][r]
    OBVIOUS
  <2>1. /\ receivables[r] \in Receivable /\ IsPastDue(r) \in BOOLEAN
        /\ allocations[t][r] \in Nat /\ Sound(receivables[r])
        /\ receivables[r].amountOutstanding \in Int
        /\ receivables[r].amountPaid = AllocatedTo(r)
    BY DEF TypeInv, TypeOK, IsPastDue, RowsInv, PaidInv, PaidIsAllocated, Receivable
  <2>2. allocations[t][r] <= receivables[r].amountPaid
    <3>1. \A u \in Transactions : u # t => allocations'[u] = allocations[u]
      BY DEF Unmatch, ReverseByTransaction, TypeInv, TypeOK
    <3>2. QED BY <2>1, <3>1, AllocatedToUpdate
  <2>3. receivables'[r] =
          IF allocations[t][r] > 0
          THEN ReversePaymentDelta(receivables[r], allocations[t][r], IsPastDue(r))
          ELSE receivables[r]
    BY DEF Unmatch, ReverseByTransaction
  <2>4. QED BY <2>1, <2>2, <2>3, DeltaEffects
<1>3. ReversedFrom(t, s) = Total(OwnPart(allocations[t], s), NumReceivables)
  BY DEF ReversedFrom, OwnPart
<1>4. ledger'[s] = ledger[s] + ReversedFrom(t, s)
  BY DEF Unmatch, ReverseByTransaction
<1>5. QED BY <1>1, <1>2, <1>3, <1>4, OwedChange

LEMMA UnmatchVoids ==
  ASSUME TypeInv, TypeInv', NEW t \in Transactions, Unmatch(t), NEW s \in Students
  PROVE  CreditOf(s)' = CreditOf(s) - VoidedBy(t, s) /\ VoidedBy(t, s) \in Int
<1> DEFINE n == Len(credits[t])
           f == CreditRow(t, s)
           v == [i \in DOMAIN credits[t] |->
                   IF Untouched(credits[t][i]) /\ credits[t][i].student = s
                   THEN credits[t][i].amount ELSE 0]
<1>1. /\ n \in Nat /\ DOMAIN credits[t] = 1..n
      /\ DOMAIN credits'[t] = 1..n /\ Len(credits'[t]) = n
      /\ \A i \in 1..n : /\ credits[t][i] \in Credit
                         /\ credits'[t][i] = Voided(credits[t][i])
      /\ \A u \in Transactions : u # t => credits'[u] = credits[u]
  BY CreditFacts, UnmatchCredits
<1>2. f \in [1..n -> Int]
  BY BooksTypes DEF BooksAddUp
<1>3. CreditRow(t, s)' \in [1..n -> Int]
  <2>1. BooksAddUp'
    BY BooksTypes, PTL
  <2>2. CreditRow(t, s)' \in [1..Len(credits'[t]) -> Int]
    BY <2>1 DEF BooksAddUp
  <2>3. QED BY <1>1, <2>2
<1>4. v \in [1..n -> Int]
  <2>1. \A i \in 1..n : credits[t][i].amount \in Int
    BY <1>1 DEF Credit
  <2>2. QED BY <1>1, <2>1
<1>5. VoidedBy(t, s) = Total(v, n)
  BY DEF VoidedBy
<1>6. ASSUME NEW i \in 1..n PROVE f[i] = CreditRow(t, s)'[i] + v[i]
  <2>1. /\ f[i] = IF credits[t][i].student = s
                  THEN AvailableAmount(credits[t][i]) ELSE 0
        /\ CreditRow(t, s)'[i] = IF credits'[t][i].student = s
                                 THEN AvailableAmount(credits'[t][i]) ELSE 0
        /\ v[i] = IF Untouched(credits[t][i]) /\ credits[t][i].student = s
                  THEN credits[t][i].amount ELSE 0
    BY <1>1 DEF CreditRow
  <2>2. /\ AvailableAmount(credits[t][i]) \in Nat /\ credits[t][i].amount \in Nat
        /\ credits'[t][i].student = credits[t][i].student
        /\ AvailableAmount(credits'[t][i]) = AvailableAmount(credits[t][i]) -
             (IF Untouched(credits[t][i]) THEN credits[t][i].amount ELSE 0)
    BY <1>1, AvailableAmountType, VoidedAvailable DEF Credit
  <2> HIDE DEF f, v
  <2>3. QED BY <2>1, <2>2
<1> HIDE DEF f, v, n
<1>7. Total(f, n) = Total(CreditRow(t, s)', n) + Total(v, n)
  BY <1>1, <1>2, <1>3, <1>4, <1>6, TotalAddition
<1>8. CreditFrom(t, s) = CreditFrom(t, s)' + VoidedBy(t, s)
  BY <1>1, <1>5, <1>7 DEF CreditFrom, f, n
<1>9. CreditOf(s)' = CreditOf(s) + CreditFrom(t, s)' - CreditFrom(t, s)
  BY <1>1, CreditChange
<1>10. VoidedBy(t, s) \in Int
  BY <1>1, <1>4, <1>5, TotalType
<1>11. QED BY <1>8, <1>9, <1>10, DriftMoves

(* At most one transaction is unmatched in a step. *)
LEMMA UnmatchesOne ==
  ASSUME TypeInv, NEW t \in Transactions, NEW u \in Transactions,
         Unmatch(t), Unmatch(u)
  PROVE  t = u
BY DEF Unmatch, TypeInv, TypeOK

LEMMA UnmatchDrift ==
  ASSUME TypeInv, TypeInv', RowsInv, PaidInv, NEW t \in Transactions, Unmatch(t),
         NEW s \in Students
  PROVE  Drift(s)' = Drift(s) - VoidedCredit(s)
<1>1. VoidedCredit(s) = VoidedBy(t, s)
  <2>1. /\ (CHOOSE u \in Transactions : Unmatch(u)) \in Transactions
        /\ Unmatch(CHOOSE u \in Transactions : Unmatch(u))
    OBVIOUS
  <2>2. (CHOOSE u \in Transactions : Unmatch(u)) = t
    BY <2>1, UnmatchesOne
  <2>3. QED BY <2>2, Zenon DEF VoidedCredit
<1>2. QED BY <1>1, UnmatchOwes, UnmatchVoids, DriftMoves

(* Requests that leave no reconciliation UNMATCHED that was matched. *)
LEMMA NothingVoided ==
  ASSUME \A t \in Transactions : ~ Unmatch(t), NEW s \in Students
  PROVE  VoidedCredit(s) = 0
BY Zenon DEF VoidedCredit

-----------------------------------------------------------------------------
(* A refund takes from the credits, whoever they are of, what it posts to  *)
(* the student of the oldest.                                              *)

(* The credit of a transaction is that of all the students together. *)
CreditSplits ==
  \A t \in Transactions :
    Total([s \in Students |-> CreditFrom(t, s)], NumStudents) = AvailableCredit(t)

LEMMA CreditByStudent == TypeInv => CreditSplits
<1> SUFFICES ASSUME TypeInv, NEW t \in Transactions
             PROVE  Total([s \in Students |-> CreditFrom(t, s)], NumStudents)
                      = AvailableCredit(t)
  BY DEF CreditSplits
<1> DEFINE n == Len(credits[t])
           f == AvailableRow(t)
           owner == [i \in 1..n |-> credits[t][i].student]
<1>1. /\ n \in Nat /\ DOMAIN credits[t] = 1..n
      /\ \A i \in 1..n : credits[t][i] \in Credit
  BY CreditFacts
<1>2. /\ f \in [1..n -> Int] /\ AvailableCredit(t) = Total(f, n)
      /\ \A i \in 1..n : f[i] = AvailableAmount(credits[t][i])
  BY CreditRows DEF CreditsAddUp
<1>3. owner \in [1..n -> 1..NumStudents]
  BY <1>1 DEF Credit, Students
<1>4. \A s \in Students : CreditRow(t, s) = RowsOf(f, owner, n, s)
  BY <1>1, <1>2 DEF CreditRow, RowsOf
<1>5. [s \in Students |-> CreditFrom(t, s)]
        = [s \in 1..NumStudents |-> Total(RowsOf(f, owner, n, s), n)]
  BY <1>4 DEF CreditFrom, Students
<1> HIDE DEF n, f, owner
<1>6. Total([s \in 1..NumStudents |-> Total(RowsOf(f, owner, n, s), n)], NumStudents)
        = Total(f, n)
  BY <1>1, <1>2, <1>3, SizesAssumption, TotalByOwner
<1>7. QED BY <1>2, <1>5, <1>6

LEMMA RefundOwes ==
  ASSUME TypeInv, NEW t \in Transactions, NEW amount \in RefundAmounts,
         Refund(t, amount), NEW s \in Students
  PROVE  Owed(s)' = Owed(s)
BY DEF Refund, Owed, OwedRow

LEMMA RefundDrift ==
  ASSUME TypeInv, TypeInv', NEW t \in Transactions, NEW amount \in RefundAmounts,
         Refund(t, amount)
  PROVE  SchoolDrift' = SchoolDrift
<1> DEFINE student == credits[t][OldestAvailable(t)].student
           n == NumStudents
           from == [s \in Students |-> CreditFrom(t, s)]
           drift == [s \in Students |-> Drift(s)]
           entry == [s \in Students |-> IF s = student THEN amount ELSE 0]
           left == [s \in Students |-> CreditFrom(t, s)']
           after == [s \in Students |-> Drift(s)']
           both == [s \in Students |-> drift[s] + entry[s]]
           all == [s \in Students |-> after[s] + from[s]]
<1>0. n \in Nat /\ Students = 1..n
  BY SizesAssumption DEF Students
<1>1. /\ amount \in Int /\ student \in Students
      /\ AvailableCredit(t)' = AvailableCredit(t) - amount
      /\ \A u \in Transactions : u # t => credits'[u] = credits[u]
  <2>1. \E i \in DOMAIN credits[t] : credits[t][i].status = "AVAILABLE"
    BY DEF Refund
  <2>2. student \in Students
    BY <2>1, OldestAvailableIsOne
  <2> HIDE DEF student
  <2>3. QED BY <2>2, RefundDraws
<1>2. ledger' = [ledger EXCEPT ![student] = @ + amount]
  BY Zenon DEF Refund, Debit
<1>3. /\ Total(from, n) = AvailableCredit(t) /\ Total(left, n) = AvailableCredit(t)'
      /\ AvailableCredit(t) \in Int
  <2>1. CreditSplits'
    BY CreditByStudent, PTL
  <2>2. Total(left, n) = AvailableCredit(t)'
    BY <2>1 DEF CreditSplits
  <2>3. Total(from, n) = AvailableCredit(t) /\ AvailableCredit(t) \in Int
    BY CreditByStudent, CreditRows DEF CreditSplits, CreditsAddUp
  <2>4. QED BY <2>2, <2>3
<1>4. SchoolDrift = Total(drift, n) /\ SchoolDrift' = Total(after, n)
  BY DEF SchoolDrift
<1>5. /\ from \in [1..n -> Int] /\ drift \in [1..n -> Int] /\ entry \in [1..n -> Int]
      /\ left \in [1..n -> Int] /\ after \in [1..n -> Int]
  <2>1. \A s \in Students :
          /\ CreditFrom(t, s) \in Int /\ CreditFrom(t, s)' \in Int
          /\ Drift(s) \in Int /\ Drift(s)' \in Int
    BY DriftMoves
  <2> HIDE DEF student, n
  <2>2. from \in [1..n -> Int] /\ left \in [1..n -> Int]
    BY <1>0, <2>1
  <2>3. drift \in [1..n -> Int] /\ after \in [1..n -> Int]
    BY <1>0, <2>1
  <2>4. entry \in [1..n -> Int]
    BY <1>0, <1>1
  <2>5. QED BY <2>2, <2>3, <2>4
<1> HIDE DEF student
<1>6. ASSUME NEW s \in Students
      PROVE  /\ both[s] = drift[s] + entry[s]
             /\ all[s] = after[s] + from[s]
             /\ all[s] = both[s] + left[s]
  <2>1. CreditOf(s)' = CreditOf(s) + CreditFrom(t, s)' - CreditFrom(t, s)
    BY <1>1, CreditChange
  <2>2. ledger'[s] = ledger[s] + entry[s]
    BY <1>1, <1>2 DEF TypeInv, TypeOK
  <2>3. Owed(s)' = Owed(s)
    BY RefundOwes
  <2>4. /\ from[s] = CreditFrom(t, s) /\ left[s] = CreditFrom(t, s)'
        /\ drift[s] = Drift(s) /\ after[s] = Drift(s)' /\ entry[s] \in Int
        /\ both[s] = drift[s] + entry[s] /\ all[s] = after[s] + from[s]
    BY <1>0, <1>5
  <2> HIDE DEF from, left, drift, after, entry, both, all
  <2>5. QED BY <2>1, <2>2, <2>3, <2>4, DriftMoves
<1>7. both \in [1..n -> Int] /\ all \in [1..n -> Int]
  <2>1. \A s \in Students : both[s] \in Int /\ all[s] \in Int
    BY <1>0, <1>5
  <2>2. QED BY <1>0, <2>1
<1>8. Total(entry, n) = amount
  <2>1. /\ student \in 1..n /\ entry[student] = amount
        /\ \A s \in 1..n : s # student => entry[s] = 0
    BY <1>0, <1>1
  <2> HIDE DEF entry
  <2>2. QED BY <1>0, <1>5, <2>1, TotalOfOneRow
<1> HIDE DEF from, left, drift, after, entry, both, all, n
<1>9. /\ Total(both, n) = Total(drift, n) + Total(entry, n)
      /\ Total(all, n) = Total(after, n) + Total(from, n)
      /\ Total(all, n) = Total(both, n) + Total(left, n)
  <2>1. \A s \in 1..n : both[s] = drift[s] + entry[s]
    BY <1>0, <1>6
  <2>2. \A s \in 1..n : all[s] = after[s] + from[s]
    BY <1>0, <1>6
  <2>3. \A s \in 1..n : all[s] = both[s] + left[s]
    BY <1>0, <1>6
  <2>4. Total(both, n) = Total(drift, n) + Total(entry, n)
    BY <1>0, <1>5, <1>7, <2>1, TotalAddition
  <2>5. Total(all, n) = Total(after, n) + Total(from, n)
    BY <1>0, <1>5, <1>7, <2>2, TotalAddition
  <2>6. Total(all, n) = Total(both, n) + Total(left, n)
    BY <1>0, <1>5, <1>7, <2>3, TotalAddition
  <2>7. QED BY <2>4, <2>5, <2>6
<1>10. Total(drift, n) \in Int /\ Total(after, n) \in Int
  BY <1>0, <1>5, TotalType
<1>11. /\ Total(from, n) \in Int
       /\ Total(left, n) = Total(from, n) - amount
  BY <1>1, <1>3
<1>12. Total(after, n) = Total(drift, n)
  <2>1. amount \in Int /\ Total(left, n) \in Int
    BY <1>1, <1>11
  <2>2. Total(both, n) = Total(drift, n) + amount
    BY <1>8, <1>9
  <2>3. Total(after, n) + Total(from, n) = Total(both, n) + Total(left, n)
    BY <1>9
  <2> DEFINE x == Total(drift, n)
             y == Total(after, n)
             z == Total(from, n)
  <2>4. x \in Int /\ y \in Int /\ z \in Int /\ amount \in Int
    BY <1>10, <1>11, <2>1
  <2>5. y + z = (x + amount) + (z - amount)
    BY <1>11, <2>2, <2>3
  <2> HIDE DEF x, y, z
  <2>6. y = x
    BY <2>4, <2>5
  <2>7. QED BY <2>6 DEF x, y
<1>13. QED BY <1>4, <1>12

-----------------------------------------------------------------------------
(* A step that is neither an unmatch nor a refund keeps every drift. *)
KeepsDrift ==
  /\ refunds' = refunds
  /\ \A t \in Transactions : ~ Unmatch(t)
  /\ \A s \in Students : Drift(s)' = Drift(s)

Tracks ==
  /\ refunds' = refunds => \A s \in Students : Drift(s)' = Drift(s) - VoidedCredit(s)
  /\ refunds' # refunds => SchoolDrift' = SchoolDrift

LEMMA KeepsDriftTracks ==
  ASSUME TypeInv, TypeInv', KeepsDrift
  PROVE  Tracks
<1>1. \A s \in Students : VoidedCredit(s) = 0 /\ Drift(s) \in Int
  BY NothingVoided, DriftMoves DEF KeepsDrift
<1>2. QED BY <1>1 DEF KeepsDrift, Tracks

LEMMA ReconciledKeepsNoUnmatch ==
  ASSUME TypeInv, UNCHANGED reconciliations
  PROVE  \A t \in Transactions : ~ Unmatch(t)
BY DEF Unmatch, TypeInv, TypeOK

LEMMA ChargesKeepDrift ==
  ASSUME TypeInv, TypeInv', RowsInv, NEW r \in Receivables,
         \/ \E amount \in FeeAmounts : CreateReceivable(r, amount)
         \/ \E amount \in DiscountAmounts : Discount(r, amount)
         \/ \E delta \in AdjustmentDeltas : Adjust(r, delta)
  PROVE  KeepsDrift
<1>0. /\ receivables \in [Receivables -> Receivable] /\ receivables[r] \in Receivable
      /\ Sound(receivables[r]) /\ IsPastDue(r) \in BOOLEAN
      /\ receivables[r].amountOutstanding \in Int
      /\ ledger \in [Students -> Int] /\ StudentOf[r] \in Students
  BY InputsAssumption DEF TypeInv, TypeOK, RowsInv, IsPastDue, Receivable
<1>1. PICK delta \in Int :
        /\ receivables'[r].amountOutstanding = receivables[r].amountOutstanding + delta
        /\ ledger' = [ledger EXCEPT ![StudentOf[r]] = @ + delta]
  <2>1. ASSUME NEW amount \in FeeAmounts, CreateReceivable(r, amount)
        PROVE  /\ amount \in Int
               /\ receivables'[r].amountOutstanding
                    = receivables[r].amountOutstanding + amount
               /\ ledger' = [ledger EXCEPT ![StudentOf[r]] = @ + amount]
    <3>1. amount \in Int
      BY InputsAssumption
    <3>2. /\ NewReceivable(amount).amountOutstanding = amount
          /\ receivables[r].amountOutstanding = 0
      BY <1>0, <2>1, <3>1, NewReceivableSound DEF CreateReceivable, Sound
    <3>3. receivables'[r] = NewReceivable(amount)
      BY <1>0, <2>1 DEF CreateReceivable
    <3>4. QED BY <2>1, <3>1, <3>2, <3>3 DEF CreateReceivable, Debit
  <2>2. ASSUME NEW amount \in DiscountAmounts, Discount(r, amount)
        PROVE  /\ 0 - amount \in Int
               /\ receivables'[r].amountOutstanding
                    = receivables[r].amountOutstanding + (0 - amount)
               /\ ledger' = [ledger EXCEPT ![StudentOf[r]] = @ + (0 - amount)]
    <3>1. amount \in Int
      BY InputsAssumption
    <3>2. receivables'[r] = ApplyDiscountDelta(receivables[r], amount, IsPastDue(r))
      BY <1>0, <2>2 DEF Discount
    <3>3. ApplyDiscountDelta(receivables[r], amount, IsPastDue(r)).amountOutstanding
            = receivables[r].amountOutstanding - amount
      BY <1>0, <3>1, DeltaEffects
    <3>4. ledger' = [ledger EXCEPT ![StudentOf[r]] = @ - amount]
      BY <2>2 DEF Discount, CreditTo
    <3>5. ledger[StudentOf[r]] - amount = ledger[StudentOf[r]] + (0 - amount)
      BY <1>0, <3>1
    <3>6. ledger' = [ledger EXCEPT ![StudentOf[r]] = @ + (0 - amount)]
      BY <3>4, <3>5, Zenon
    <3>7. QED BY <1>0, <3>1, <3>2, <3>3, <3>6
  <2>3. ASSUME NEW delta \in AdjustmentDeltas, Adjust(r, delta)
        PROVE  /\ delta \in Int
               /\ receivables'[r].amountOutstanding
                    = receivables[r].amountOutstanding + delta
               /\ ledger' = [ledger EXCEPT ![StudentOf[r]] = @ + delta]
    <3>1. delta \in Int
      BY InputsAssumption
    <3>2. receivables'[r] = ApplyAdjustmentDelta(receivables[r], delta, IsPastDue(r))
      BY <1>0, <2>3 DEF Adjust
    <3>3. ApplyAdjustmentDelta(receivables[r], delta, IsPastDue(r)).amountOutstanding
            = receivables[r].amountOutstanding + delta
      BY <1>0, <3>1, DeltaEffects
    <3>4. QED BY <2>3, <3>1, <3>2, <3>3 DEF Adjust, Debit
  <2>4. QED BY <2>1, <2>2, <2>3
<1>2. /\ \A q \in Receivables : q # r => receivables'[q] = receivables[q]
      /\ UNCHANGED <<credits, reconciliations, refunds>>
  BY <1>0 DEF CreateReceivable, Discount, Adjust
<1>3. \A s \in Students : Drift(s)' = Drift(s)
  BY <1>1, <1>2, ChargeKeepsDrift
<1>4. QED BY <1>2, <1>3, ReconciledKeepsNoUnmatch DEF KeepsDrift

LEMMA PaysTracks ==
  ASSUME TypeInv, TypeInv', RowsInv, OneStudentPerOrder,
         NEW t \in Transactions, NEW o \in Orders, NEW amount \in Int,
         Pays(t, o, amount)
  PROVE  KeepsDrift
<1>1. \A u \in Transactions : ~ Unmatch(u)
  <2> SUFFICES ASSUME NEW u \in Transactions, Unmatch(u) PROVE FALSE
    OBVIOUS
  <2>1. PICK status \in {"AUTO_MATCHED", "MANUAL_MATCHED"} :
          reconciliations' = [reconciliations EXCEPT
            ![t] = [status |-> status, order |-> o]]
    BY DEF Pays
  <2>2. /\ reconciliations[u].status # "UNMATCHED"
        /\ reconciliations' = [reconciliations EXCEPT
             ![u] = [status |-> "UNMATCHED", order |-> NoOrder]]
    BY DEF Unmatch
  <2>3. reconciliations \in [Transactions -> Reconciliation]
    BY DEF TypeInv, TypeOK
  <2>4. QED BY <2>1, <2>2, <2>3
<1>2. refunds' = refunds
  BY DEF Pays
<1>3. QED BY <1>1, <1>2, PaysKeepDrift DEF KeepsDrift

LEMMA StepTracks ==
  ASSUME TypeInv, TypeInv', RowsInv, PaidInv, OneStudentPerOrder,
         ReconciliationAgrees, Next
  PROVE  Tracks
<1>1. ASSUME NEW r \in Receivables,
             \/ \E amount \in FeeAmounts : CreateReceivable(r, amount)
             \/ \E amount \in DiscountAmounts : Discount(r, amount)
             \/ \E delta \in AdjustmentDeltas : Adjust(r, delta)
      PROVE  Tracks
  BY <1>1, ChargesKeepDrift, KeepsDriftTracks
<1>2. ASSUME NEW o \in Orders,
             \/ \E items \in ItemLists : CreateOrder(o, items)
             \/ GetQr(o)
      PROVE  Tracks
  <2>1. UNCHANGED <<receivables, credits, ledger, reconciliations, refunds>>
    BY <1>2 DEF CreateOrder, GetQr
  <2>2. KeepsDrift
    BY <2>1, NothingMoves, ReconciledKeepsNoUnmatch DEF KeepsDrift
  <2>3. QED BY <2>2, KeepsDriftTracks
<1>3. ASSUME NEW t \in Transactions, NEW amount \in TransferAmounts,
             NEW o \in Orders \union {NoOrder}, IngestMatched(t, amount, o)
      PROVE  Tracks
  BY <1>3, IngestPays, PaysTracks, KeepsDriftTracks
<1>4. ASSUME NEW t \in Transactions, NEW amount \in TransferAmounts,
             NEW o \in Orders \union {NoOrder}, IngestUnmatched(t, amount, o)
      PROVE  Tracks
  <2>1. UNCHANGED <<receivables, credits, ledger, refunds>>
    BY <1>4 DEF IngestUnmatched
  <2>2. ASSUME NEW u \in Transactions PROVE ~ Unmatch(u)
    <3>1. ~ Matched(t)
      BY <1>4, AgreementByTransaction DEF Agrees, IngestUnmatched
    <3>2. CASE u = t
      BY <3>1, <3>2 DEF Matched, Unmatch
    <3>3. CASE u # t
      <4>1. reconciliations'[u] = reconciliations[u]
        BY <1>4, <3>3 DEF IngestUnmatched, TypeInv, TypeOK
      <4>2. QED BY <4>1 DEF Unmatch, TypeInv, TypeOK
    <3>4. QED BY <3>2, <3>3
  <2>3. KeepsDrift
    BY <2>1, <2>2, NothingMoves DEF KeepsDrift
  <2>4. QED BY <2>3, KeepsDriftTracks
<1>5. ASSUME NEW t \in Transactions, NEW o \in Orders, Match(t, o)
      PROVE  Tracks
  BY <1>5, MatchPays, PaysTracks, KeepsDriftTracks
<1>6. ASSUME NEW t \in Transactions, Unmatch(t)
      PROVE  Tracks
  <2>1. refunds' = refunds
    BY <1>6 DEF Unmatch
  <2>2. QED BY <1>6, <2>1, UnmatchDrift DEF Tracks
<1>7. ASSUME NEW t \in Transactions, NEW amount \in RefundAmounts, Refund(t, amount)
      PROVE  Tracks
  <2>1. refunds' # refunds
    BY <1>7, RefundDraws DEF TypeInv, TypeOK
  <2>2. SchoolDrift' = SchoolDrift
    BY <1>7, RefundDrift
  <2>3. QED BY <2>1, <2>2 DEF Tracks
<1>8. ASSUME NEW t \in Transactions, NEW i \in DOMAIN receipts[t], CancelReceipt(t, i)
      PROVE  Tracks
  <2>1. UNCHANGED <<receivables, credits, ledger, reconciliations, refunds>>
    BY <1>8 DEF CancelReceipt
  <2>2. KeepsDrift
    BY <2>1, NothingMoves, ReconciledKeepsNoUnmatch DEF KeepsDrift
  <2>3. QED BY <2>2, KeepsDriftTracks
<1>9. QED
  BY <1>1, <1>2, <1>3, <1>4, <1>5, <1>6, <1>7, <1>8 DEF Next

(* Every request but an unmatch that voids a credit posts to the ledger of *)
(* each student exactly what it does to the student's receivables and      *)
(* credits, for any tables and however far the ledger is from them; a      *)
(* refund, also of another student's credit, does so for the school.       *)
THEOREM LedgerTracksBooksEver == Spec => LedgerTracksBooks
<1>1. /\ TypeInv /\ TypeInv' /\ RowsInv /\ PaidInv /\ OneStudentPerOrder
      /\ ReconciliationAgrees /\ [Next]_vars
      => [/\ refunds' = refunds =>
               \A s \in Students : VoidedCredit(s) = 0 => Drift(s)' = Drift(s)
          /\ refunds' # refunds => SchoolDrift' = SchoolDrift]_vars
  <2>1. SUFFICES ASSUME TypeInv, TypeInv', RowsInv, PaidInv, OneStudentPerOrder,
                        ReconciliationAgrees, Next
                 PROVE  /\ refunds' = refunds =>
                             \A s \in Students :
                               VoidedCredit(s) = 0 => Drift(s)' = Drift(s)
                        /\ refunds' # refunds => SchoolDrift' = SchoolDrift
    OBVIOUS
  <2>2. Tracks
    BY <2>1, StepTracks
  <2>3. \A s \in Students : Drift(s) \in Int
    BY <2>1, DriftMoves
  <2>4. QED BY <2>2, <2>3 DEF Tracks
<1>2. Spec => []PaidInv
  BY TypeInvariance, InitPaid, NextPaid, PTL DEF Spec
<1>3. QED
  BY <1>1, <1>2, TypeInvariance, RowsInvariance, OneStudentInvariance,
     ReconciliationAgreesAlways, PTL DEF Spec, LedgerTracksBooks
=============================================================================
