-------------------------- MODULE GatewayTheorems --------------------------
(***************************************************************************)
(* The collection gateway, for every number of orders, transfers and       *)
(* receivables and every amount: what the bank was answered holds for      *)
(* good, and the money of a bill reaches the order of the bill.            *)
(***************************************************************************)
EXTENDS Gateway, AccountingTheorems

-----------------------------------------------------------------------------
(* What the gateway keeps. *)

Payment == [order : Orders \union {NoOrder}, amount : Int, ofSchool : BOOLEAN]

(* An order whose QR is asked for has items and is not saved yet. *)
Draft(o) ==
  drafts[o] # NoDraft => drafts[o].items \in ItemLists /\ orders[o].status = "NONE"

GatewayTypes ==
  /\ drafts       \in [Orders -> [items : Seq(Receivables), amount : Int]]
  /\ requested    \in [Orders -> Int]
  /\ pastDeadline \subseteq Orders
  /\ told         \in [Orders -> Int]
  /\ payments     \in [Transactions -> Payment]
  /\ heard        \in [Transactions -> Answers \union {"none"}]
  /\ \A o \in Orders : Draft(o)

(* A notified payment has its two rows, of its amount and a known school;  *)
(* what the bank heard of it agrees.                                       *)
Recorded(t) ==
  /\ transactions[t].status = "NONE" <=> reconciliations[t].status = "NONE"
  /\ transactions[t].status # "NONE" =>
       /\ IsSent(t) /\ SchoolIsKnown(payments[t])
       /\ transactions[t].amount = payments[t].amount
  /\ heard[t] \in {"00", "05"} => transactions[t].status # "NONE"
  /\ heard[t] = "01" => IsSent(t) /\ ~ SchoolIsKnown(payments[t])

(* A bill the bank was told of, and one it took money for, is of an order. *)
Told(o) == told[o] > 0 => orders[o].status # "NONE"

PaidBill(t) ==
  LET o == payments[t].order IN
  o # NoOrder =>
    /\ payments[t].amount > 0
    /\ orders[o].status # "NONE"
    /\ reconciliations[t].status = "AUTO_MATCHED" => reconciliations[t].order = o
    /\ reconciliations[t].status \in {"AUTO_MATCHED", "MANUAL_MATCHED"} =>
         receipts[t] # <<>>
    /\ reconciliations[t].status = "UNMATCHED" /\ receipts[t] = <<>> =>
         orders[o].status \in {"PAID", "EXPIRED"}

GatewayInv ==
  /\ \A t \in Transactions : Recorded(t) /\ PaidBill(t)
  /\ \A o \in Orders : Told(o)

gatewayAll == <<vars, gatewayVars>>

-----------------------------------------------------------------------------
(* The steps of the gateway, by what they do to the engine. *)

(* The bank notifies a payment, and may hear the answer. *)
Notified(t, answer) ==
  /\ IsSent(t) /\ Handles(t, answer) /\ answer \in Answers
  /\ UNCHANGED <<drafts, requested, pastDeadline, told, payments>>
  /\ heard' = heard \/ heard' = [heard EXCEPT ![t] = answer]

(* The notification pays its order, or waits to be matched by hand. *)
Settles(t) ==
  LET payment == payments[t] IN
  /\ payment.order \in Orders /\ transactions[t].status = "NONE"
  /\ Pays(t, payment.order, payment.amount)
  /\ reconciliations' = [reconciliations EXCEPT
       ![t] = [status |-> "AUTO_MATCHED", order |-> payment.order]]

Waits(t) ==
  /\ transactions[t].status = "NONE" /\ ~ Payable(payments[t].order)
  /\ transactions' = [transactions EXCEPT
       ![t] = [status |-> "UNMATCHED", amount |-> payments[t].amount]]
  /\ reconciliations' = [reconciliations EXCEPT
       ![t] = [status |-> "UNMATCHED", order |-> NoOrder]]
  /\ UNCHANGED <<receivables, orders, allocations, credits, refunds,
                 receipts, ledger>>

LEMMA HandlesKinds ==
  ASSUME GatewayTypes, NEW t \in Transactions, NEW answer, Handles(t, answer)
  PROVE  \/ /\ EngineStands /\ answer = "01" /\ ~ SchoolIsKnown(payments[t])
         \/ /\ SchoolIsKnown(payments[t])
            /\ \/ EngineStands /\ answer = "00" /\ transactions[t].status # "NONE"
               \/ Settles(t) /\ answer = "00"
               \/ Waits(t) /\ answer = "05"
<1>1. payments[t].order \in Orders \union {NoOrder}
  BY DEF GatewayTypes, Payment
<1>2. IngestMatched(t, payments[t].amount, payments[t].order) => Settles(t)
  BY <1>1 DEF IngestMatched, Settles, Pays, Payable, Unallocated
<1>3. QED
  BY <1>2 DEF Handles, Waits, AnswerToFailure, AnswerToDuplicate, TakesMoneyFor

(* A step of the bank's that leaves the engine alone. *)
BankStep ==
  /\ EngineStands /\ heard' = heard
  /\ \/ \E o \in Orders :
          \/ \E items \in ItemLists :
               \E amount \in PartAmounts \union {OutstandingOf(items)} :
                 AskBankForQr(o, items, amount)
          \/ QrFails(o) \/ DeadlinePasses(o) \/ InqBill(o)
     \/ \E t \in Transactions :
          \/ \E o \in Orders : PayBill(t, o)
          \/ \E amount \in TransferAmounts, ofSchool \in BOOLEAN :
               PayAtCounter(t, amount, ofSchool)

LEMMA GatewayKinds ==
  ASSUME GatewayNext
  PROVE  \/ BankStep
         \/ \E o \in Orders : SaveOrder(o)
         \/ \E t \in Transactions, answer \in Answers : Notified(t, answer)
         \/ OfficeWorks
<1>1. ASSUME NEW t \in Transactions, NotifyBill(t)
      PROVE  \E answer \in Answers : Notified(t, answer)
  BY <1>1 DEF NotifyBill, Notified
<1>2. ASSUME NEW t \in Transactions, NotifyUnheard(t)
      PROVE  \E answer \in Answers : Notified(t, answer)
  BY <1>2 DEF NotifyUnheard, Notified, gatewayVars
<1>3. ASSUME NEW o \in Orders,
             \/ \E items \in ItemLists :
                  \E amount \in PartAmounts \union {OutstandingOf(items)} :
                    AskBankForQr(o, items, amount)
             \/ QrFails(o) \/ DeadlinePasses(o) \/ InqBill(o)
      PROVE  BankStep
  <2>1. EngineStands /\ heard' = heard
    BY <1>3 DEF AskBankForQr, QrFails, DeadlinePasses, InqBill
  <2>2. QED BY <1>3, <2>1 DEF BankStep
<1>4. ASSUME NEW t \in Transactions,
             \/ \E o \in Orders : PayBill(t, o)
             \/ \E amount \in TransferAmounts, ofSchool \in BOOLEAN :
                  PayAtCounter(t, amount, ofSchool)
      PROVE  BankStep
  <2>1. EngineStands /\ heard' = heard
    BY <1>4 DEF PayBill, PayAtCounter
  <2>2. QED BY <1>4, <2>1 DEF BankStep
<1>5. QED BY <1>1, <1>2, <1>3, <1>4 DEF GatewayNext

LEMMA OfficeSteps ==
  ASSUME GatewayTypes, OfficeWorks
  PROVE  Next /\ UNCHANGED gatewayVars
BY DEF OfficeWorks, GatewayTypes, Next

-----------------------------------------------------------------------------
(* The engine keeps its rows sound under the gateway. *)

EngineInv == TypeInv /\ RowsInv

LEMMA EngineStep ==
  ASSUME EngineInv, GatewayTypes, [GatewayNext]_gatewayAll
  PROVE  EngineInv'
<1>1. ASSUME EngineStands \/ Next PROVE EngineInv'
  BY <1>1, NextTypes, NextRows DEF EngineInv, EngineStands
<1>2. ASSUME NEW o \in Orders, SaveOrder(o) PROVE EngineInv'
  <2>1. drafts[o].items \in Seq(Receivables) /\ drafts[o].items # <<>>
    BY <1>2, InputsAssumption DEF SaveOrder, GatewayTypes, Draft
  <2>2. orders' \in [Orders -> Order]
    BY <1>2, <2>1 DEF SaveOrder, EngineInv, TypeInv, TypeOK, Order
  <2>3. OrdersHaveItems'
    BY <1>2, <2>1 DEF SaveOrder, EngineInv, TypeInv, TypeOK, OrdersHaveItems
  <2>4. QED
    BY <1>2, <2>2, <2>3 DEF SaveOrder, EngineInv, TypeInv, TypeOK, RowsInv
<1>3. ASSUME NEW t \in Transactions, Settles(t) PROVE EngineInv'
  <2> DEFINE o == payments[t].order
             amount == payments[t].amount
  <2>1. o \in Orders /\ amount \in Int /\ Pays(t, o, amount)
    BY <1>3 DEF Settles, GatewayTypes, Payment
  <2>2. reconciliations' \in [Transactions -> Reconciliation]
    BY <1>3, <2>1 DEF Settles, EngineInv, TypeInv, TypeOK, Reconciliation
  <2> HIDE DEF o, amount
  <2>3. TypeInv'
    BY <2>1, <2>2, AllocateToOrderTypes DEF Pays, EngineInv
  <2>4. PICK done \in Run, surplus \in Nat : Allocated(t, o, amount, done, surplus)
    BY <2>1, PaysEffect DEF EngineInv
  <2>5. RowsInv'
    BY <2>4 DEF Allocated, RunSound, RowsInv
  <2>6. QED BY <2>3, <2>5 DEF EngineInv
<1>4. ASSUME NEW t \in Transactions, Waits(t) PROVE EngineInv'
  <2>1. payments[t].amount \in Int
    BY DEF GatewayTypes, Payment
  <2>2. /\ transactions' \in [Transactions -> Transaction]
        /\ reconciliations' \in [Transactions -> Reconciliation]
    BY <1>4, <2>1
       DEF Waits, EngineInv, TypeInv, TypeOK, Transaction, Reconciliation
  <2>3. QED
    BY <1>4, <2>2 DEF Waits, EngineInv, TypeInv, TypeOK, OrdersHaveItems, RowsInv
<1>5. ASSUME NEW t \in Transactions, NEW answer \in Answers, Notified(t, answer)
      PROVE  EngineInv'
  BY <1>1, <1>3, <1>4, <1>5, HandlesKinds DEF Notified
<1>6. CASE OfficeWorks
  BY <1>1, <1>6, OfficeSteps
<1>7. CASE BankStep
  BY <1>1, <1>7 DEF BankStep
<1>8. CASE UNCHANGED gatewayAll
  BY <1>1, <1>8 DEF gatewayAll, EngineStands
<1>9. QED BY <1>2, <1>5, <1>6, <1>7, <1>8, GatewayKinds

-----------------------------------------------------------------------------
(* What becomes of an order. *)

OrderKept(o) ==
  /\ orders[o].status = "NONE" => orders'[o] = orders[o] \/ drafts'[o] = NoDraft
  /\ orders[o].status # "NONE" => orders'[o].status # "NONE"
  /\ orders[o].status \in {"PAID", "EXPIRED"} => orders'[o] = orders[o]

LEMMA GatewayOrders ==
  ASSUME EngineInv, GatewayTypes, [GatewayNext]_gatewayAll, NEW o \in Orders
  PROVE  OrderKept(o)
<1>0. /\ orders \in [Orders -> Order] /\ orders[o] \in Order
      /\ drafts \in [Orders -> [items : Seq(Receivables), amount : Int]] /\ Draft(o)
  BY DEF EngineInv, TypeInv, TypeOK, GatewayTypes
<1>1. ASSUME orders' = orders PROVE OrderKept(o)
  BY <1>1 DEF OrderKept
<1>2. ASSUME NEW q \in Orders, SaveOrder(q) PROVE OrderKept(o)
  BY <1>0, <1>2 DEF SaveOrder, OrderKept, GatewayTypes, Draft, NoDraft
<1>3. ASSUME NEW t \in Transactions, NEW q \in Orders, NEW amount \in Int,
             Pays(t, q, amount)
      PROVE  OrderKept(o)
  <2>1. PICK done \in Run, surplus \in Nat : Allocated(t, q, amount, done, surplus)
    BY <1>3, PaysEffect DEF EngineInv
  <2>2. orders[q].status \in {"PENDING", "PARTIALLY_PAID"}
    BY <1>3 DEF Pays, Payable
  <2>3. /\ q # o => orders'[o] = orders[o]
        /\ q = o => orders'[o].status \in {"PAID", "PARTIALLY_PAID"}
    BY <1>0, <2>1 DEF Allocated, Order
  <2>4. QED BY <2>2, <2>3 DEF OrderKept
<1>4. ASSUME NEW q \in Orders, GetQr(q) PROVE OrderKept(o)
  BY <1>0, <1>4 DEF GetQr, OrderKept, Order
<1>5. ASSUME NEW t \in Transactions, NEW q \in Orders, Match(t, q) PROVE OrderKept(o)
  BY <1>3, <1>5, MatchPays DEF EngineInv
<1>6. CASE OfficeWorks
  BY <1>1, <1>4, <1>5, <1>6
     DEF OfficeWorks, CreateReceivable, Discount, Unmatch, GatewayTypes
<1>7. ASSUME NEW t \in Transactions, NEW answer \in Answers, Notified(t, answer)
      PROVE  OrderKept(o)
  <2>1. Settles(t) \/ orders' = orders
    BY <1>7, HandlesKinds DEF Notified, Waits, EngineStands, vars
  <2>2. payments[t].amount \in Int
    BY DEF GatewayTypes, Payment
  <2>3. QED BY <1>1, <1>3, <2>1, <2>2 DEF Settles
<1>8. CASE BankStep
  BY <1>1, <1>8 DEF BankStep, EngineStands, vars
<1>9. CASE UNCHANGED gatewayAll
  BY <1>1, <1>9 DEF gatewayAll, vars
<1>10. QED BY <1>2, <1>6, <1>7, <1>8, <1>9, GatewayKinds

-----------------------------------------------------------------------------
(* The gateway keeps its own types. *)

LEMMA AskedIsInt ==
  ASSUME TypeInv, NEW items \in ItemLists,
         NEW amount \in PartAmounts \union {OutstandingOf(items)}
  PROVE  amount \in Int
<1>1. items \in Seq(Receivables)
  BY InputsAssumption
<1>2. /\ Len(items) \in Nat /\ DOMAIN items = 1..Len(items)
      /\ \A i \in DOMAIN items : items[i] \in Receivables
  BY <1>1, ElementOfSeq
<1> DEFINE row == [i \in DOMAIN items |-> receivables[items[i]].amountOutstanding]
<1>3. row \in [1..Len(items) -> Int]
  BY <1>2 DEF TypeInv, TypeOK, Receivable
<1>4. Total(row, Len(items)) \in Int
  <2> HIDE DEF row
  <2>1. QED BY <1>2, <1>3, TotalType
<1>5. QED BY <1>4, UnitsAssumption DEF OutstandingOf

LEMMA RoundedIsInt ==
  ASSUME NEW amount \in Int
  PROVE  RoundedToDong(amount) \in Int
BY UnitsAssumption DEF RoundedToDong

LEMMA BankStepTypes ==
  ASSUME EngineInv, GatewayTypes, BankStep
  PROVE  GatewayTypes'
<1>0. orders' = orders /\ heard' = heard
  BY DEF BankStep, EngineStands, vars
<1>1. ASSUME NEW o \in Orders, NEW items \in ItemLists,
             NEW amount \in PartAmounts \union {OutstandingOf(items)},
             AskBankForQr(o, items, amount)
      PROVE  GatewayTypes'
  <2>1. amount \in Int /\ items \in Seq(Receivables)
    BY AskedIsInt, InputsAssumption DEF EngineInv
  <2>2. QED BY <1>0, <1>1, <2>1 DEF AskBankForQr, GatewayTypes, Draft, NoDraft
<1>2. ASSUME NEW o \in Orders, QrFails(o) PROVE GatewayTypes'
  <2>1. NoDraft \in [items : Seq(Receivables), amount : Int]
    BY EmptySeq DEF NoDraft
  <2>2. QED BY <1>0, <1>2, <2>1 DEF QrFails, GatewayTypes, Draft
<1>3. ASSUME NEW o \in Orders, DeadlinePasses(o) PROVE GatewayTypes'
  BY <1>0, <1>3 DEF DeadlinePasses, GatewayTypes, Draft
<1>4. ASSUME NEW o \in Orders, InqBill(o) PROVE GatewayTypes'
  <2>1. BillAnswer(o) \in Int
    BY RoundedIsInt DEF BillAnswer, GatewayTypes
  <2>2. QED BY <1>0, <1>4, <2>1 DEF InqBill, GatewayTypes, Draft
<1>5. ASSUME NEW t \in Transactions, NEW o \in Orders, PayBill(t, o)
      PROVE  GatewayTypes'
  BY <1>0, <1>5 DEF PayBill, GatewayTypes, Draft, Payment
<1>6. ASSUME NEW t \in Transactions, NEW amount \in TransferAmounts,
             NEW ofSchool \in BOOLEAN, PayAtCounter(t, amount, ofSchool)
      PROVE  GatewayTypes'
  BY <1>0, <1>6, InputsAssumption DEF PayAtCounter, GatewayTypes, Draft, Payment
<1>7. QED BY <1>1, <1>2, <1>3, <1>4, <1>5, <1>6 DEF BankStep

LEMMA GatewayTypesStep ==
  ASSUME EngineInv, GatewayTypes, [GatewayNext]_gatewayAll
  PROVE  GatewayTypes'
<1>1. ASSUME UNCHANGED <<drafts, requested, pastDeadline, told, payments>>,
             heard' \in [Transactions -> Answers \union {"none"}]
      PROVE  GatewayTypes'
  <2>1. \A o \in Orders : Draft(o)'
    BY <1>1, GatewayOrders DEF GatewayTypes, Draft, OrderKept
  <2>2. QED BY <1>1, <2>1 DEF GatewayTypes
<1>2. ASSUME NEW o \in Orders, SaveOrder(o) PROVE GatewayTypes'
  <2>1. \A q \in Orders : Draft(q)'
    BY <1>2, GatewayOrders DEF SaveOrder, GatewayTypes, Draft, OrderKept
  <2>2. NoDraft \in [items : Seq(Receivables), amount : Int]
    BY EmptySeq DEF NoDraft
  <2>3. QED BY <1>2, <2>1, <2>2 DEF SaveOrder, GatewayTypes
<1>3. ASSUME NEW t \in Transactions, NEW answer \in Answers, Notified(t, answer)
      PROVE  GatewayTypes'
  BY <1>1, <1>3 DEF Notified, GatewayTypes
<1>4. CASE OfficeWorks
  BY <1>1, <1>4 DEF OfficeWorks, GatewayTypes, gatewayVars
<1>5. CASE UNCHANGED gatewayAll
  BY <1>1, <1>5 DEF gatewayAll, gatewayVars, GatewayTypes
<1>6. QED BY <1>2, <1>3, <1>4, <1>5, BankStepTypes, GatewayKinds

-----------------------------------------------------------------------------
(* What a step does to the rows of one payment. *)

(* Payments are made once and for all. *)
PaymentKept(t) == IsSent(t) => payments'[t] = payments[t] /\ IsSent(t)'

LEMMA PaymentsKept ==
  ASSUME GatewayTypes, [GatewayNext]_gatewayAll, NEW t \in Transactions
  PROVE  PaymentKept(t)
<1>1. ASSUME payments' = payments PROVE PaymentKept(t)
  BY <1>1 DEF PaymentKept, IsSent
<1>2. CASE BankStep
  BY <1>1, <1>2 DEF BankStep, AskBankForQr, QrFails, DeadlinePasses, InqBill,
     PayBill, PayAtCounter, PaymentKept, IsSent, GatewayTypes
<1>3. CASE ~ BankStep
  <2>1. payments' = payments
    BY <1>3, GatewayKinds
       DEF SaveOrder, Notified, OfficeWorks, gatewayVars, gatewayAll
  <2>2. QED BY <1>1, <2>1
<1>4. QED BY <1>2, <1>3

RecordKept(t) ==
  /\ transactions'[t] = transactions[t]
  /\ reconciliations'[t] = reconciliations[t]
  /\ receipts'[t] = receipts[t]

(* Paying more than nothing leaves a receipt, and a reversal keeps it. *)
LEMMA PayingLeavesReceipt ==
  ASSUME EngineInv, NEW t \in Transactions, NEW o \in Orders, NEW amount \in Int,
         Pays(t, o, amount), amount > 0
  PROVE  receipts'[t] # <<>>
<1>1. PICK done \in Run, surplus \in Nat : Allocated(t, o, amount, done, surplus)
  BY PaysEffect DEF EngineInv
<1> DEFINE paid == done.allocatedTotal + surplus
           receipt == [total |-> paid, status |-> "ISSUED"]
<1>2. paid # 0 /\ receipts' = [receipts EXCEPT ![t] = Append(@, receipt)]
  BY <1>1 DEF Allocated, Run
<1>3. /\ receipts[t] \in Seq(Receipt) /\ Len(receipts[t]) \in Nat
      /\ receipts \in [Transactions -> Seq(Receipt)]
  BY ReceiptFacts DEF EngineInv
<1> HIDE DEF receipt
<1>4. receipts'[t] = Append(receipts[t], receipt)
  BY <1>2, <1>3
<1>5. Len(receipts'[t]) = Len(receipts[t]) + 1
  BY <1>3, <1>4
<1>6. QED BY <1>3, <1>5

LEMMA ReversingKeepsReceipts ==
  ASSUME EngineInv, NEW t \in Transactions, Unmatch(t), receipts[t] # <<>>
  PROVE  receipts'[t] # <<>>
<1> DEFINE issued == {i \in DOMAIN receipts[t] : receipts[t][i].status = "ISSUED"}
<1>0. CancelByTransaction(t)
  BY DEF Unmatch
<1>1. CASE issued = {}
  BY <1>0, <1>1, Zenon DEF CancelByTransaction
<1>2. CASE issued # {}
  <2>1. PICK k \in issued : Cancels(t, k)
    BY <1>0, <1>2, Zenon DEF CancelByTransaction, Cancels
  <2>2. DOMAIN receipts'[t] = DOMAIN receipts[t]
    BY <2>1, CancelledReceipt DEF EngineInv
  <2>3. k \in DOMAIN receipts'[t]
    BY <2>1, <2>2
  <2>4. QED BY <2>3
<1>3. QED BY <1>1, <1>2

(* What the bank knows of a payment whose rows a step leaves alone. *)
LEMMA RecordKeptHolds ==
  ASSUME GatewayTypes, NEW t \in Transactions, Recorded(t), PaidBill(t),
         RecordKept(t), heard'[t] = heard[t], payments'[t] = payments[t],
         \A o \in Orders : OrderKept(o)
  PROVE  Recorded(t)' /\ PaidBill(t)'
<1>1. Recorded(t)'
  BY DEF Recorded, RecordKept, IsSent
<1>2. payments[t].order \in Orders \union {NoOrder}
  BY DEF GatewayTypes, Payment
<1>3. PaidBill(t)'
  BY <1>2 DEF PaidBill, RecordKept, OrderKept
<1>4. QED BY <1>1, <1>3

-----------------------------------------------------------------------------
(* One step per kind of request. *)

LEMMA InitGateway == GatewayInit => EngineInv /\ GatewayTypes /\ GatewayInv
<1> SUFFICES ASSUME GatewayInit PROVE EngineInv /\ GatewayTypes /\ GatewayInv
  OBVIOUS
<1>1. EngineInv
  BY InitTypes, InitRows DEF GatewayInit, EngineInv
<1>2. GatewayTypes
  <2>1. NoDraft \in [items : Seq(Receivables), amount : Int]
    BY EmptySeq DEF NoDraft
  <2>2. QED BY <2>1 DEF GatewayInit, GatewayTypes, Draft, Payment, NoPayment
<1>3. GatewayInv
  BY DEF GatewayInit, Init, GatewayInv, Recorded, PaidBill, Told, NoPayment
<1>4. QED BY <1>1, <1>2, <1>3

LEMMA BankStepHolds ==
  ASSUME EngineInv, GatewayTypes, GatewayInv, BankStep, NEW t \in Transactions,
         \A o \in Orders : OrderKept(o)
  PROVE  Recorded(t)' /\ PaidBill(t)'
<1>0. /\ RecordKept(t) /\ heard' = heard /\ orders' = orders
      /\ Recorded(t) /\ PaidBill(t)
  BY DEF BankStep, EngineStands, vars, RecordKept, GatewayInv
<1>1. CASE payments'[t] = payments[t]
  BY <1>0, <1>1, RecordKeptHolds
<1>2. CASE payments'[t] # payments[t]
  <2>1. \/ \E o \in Orders : PayBill(t, o)
        \/ \E amount \in TransferAmounts, ofSchool \in BOOLEAN :
             PayAtCounter(t, amount, ofSchool)
    BY <1>2 DEF BankStep, AskBankForQr, QrFails, DeadlinePasses, InqBill, PayBill,
       PayAtCounter, GatewayTypes
  <2>2. ~ IsSent(t)
    BY <2>1 DEF PayBill, PayAtCounter
  <2>3. /\ transactions[t].status = "NONE" /\ reconciliations[t].status = "NONE"
        /\ heard[t] \notin {"00", "01", "05"}
    BY <1>0, <2>2 DEF Recorded
  <2>4. Recorded(t)'
    BY <1>0, <2>3 DEF Recorded, RecordKept
  <2>5. ASSUME NEW o \in Orders, PayBill(t, o) PROVE PaidBill(t)'
    <3>1. /\ payments'[t].order = o /\ payments'[t].amount > 0
          /\ orders[o].status # "NONE"
      BY <2>5 DEF PayBill, GatewayTypes, GatewayInv, Told
    <3>2. QED BY <1>0, <2>3, <3>1 DEF PaidBill, RecordKept
  <2>6. ASSUME NEW amount \in TransferAmounts, NEW ofSchool \in BOOLEAN,
               PayAtCounter(t, amount, ofSchool)
        PROVE  PaidBill(t)'
    <3>1. payments'[t].order = NoOrder
      BY <2>6 DEF PayAtCounter, GatewayTypes
    <3>2. QED BY <3>1 DEF PaidBill
  <2>7. QED BY <2>1, <2>4, <2>5, <2>6
<1>3. QED BY <1>1, <1>2

LEMMA NotifiedHolds ==
  ASSUME EngineInv, GatewayTypes, GatewayInv, NEW t \in Transactions,
         NEW answer \in Answers, Notified(t, answer), NEW u \in Transactions,
         \A o \in Orders : OrderKept(o)
  PROVE  Recorded(u)' /\ PaidBill(u)'
<1>0. /\ Recorded(u) /\ PaidBill(u) /\ payments' = payments
      /\ heard'[u] = heard[u] \/ (u = t /\ heard'[u] = answer)
      /\ payments[t].order \in Orders \union {NoOrder} /\ payments[t].amount \in Int
      /\ TypeInv /\ IsSent(t)
  BY DEF GatewayInv, Notified, GatewayTypes, EngineInv, Payment
<1>1. CASE u # t
  <2>1. RecordKept(u)
    <3>1. CASE EngineStands
      BY <3>1 DEF EngineStands, vars, RecordKept
    <3>2. CASE Settles(t)
      BY <1>0, <1>1, <3>2, OtherTransactions DEF Settles, RowsKept, RecordKept
    <3>3. CASE Waits(t)
      BY <1>0, <1>1, <3>3 DEF Waits, TypeInv, TypeOK, RecordKept
    <3>4. QED BY <3>1, <3>2, <3>3, HandlesKinds DEF Notified
  <2>2. QED BY <1>0, <1>1, <2>1, RecordKeptHolds
<1>2. CASE u = t
  <2>1. CASE EngineStands
    <3>1. RecordKept(t)
      BY <2>1 DEF EngineStands, vars, RecordKept
    <3>2. PaidBill(t)'
      BY <1>0, <1>2, <3>1 DEF PaidBill, RecordKept, OrderKept
    <3>3. \/ answer = "01" /\ ~ SchoolIsKnown(payments[t])
          \/ answer = "00" /\ transactions[t].status # "NONE"
      <4>1. Settles(t) => transactions'[t] # transactions[t]
        <5>1. ASSUME Settles(t) PROVE transactions'[t].status = "ALLOCATED"
          BY <5>1 DEF Settles, Pays, AllocateToOrder, EngineInv, TypeInv, TypeOK
        <5>2. QED BY <5>1 DEF Settles
      <4>2. Waits(t) => transactions'[t] # transactions[t]
        BY <1>0 DEF Waits, TypeInv, TypeOK
      <4>3. QED BY <2>1, <3>1, <4>1, <4>2, HandlesKinds DEF Notified, RecordKept
    <3>4. Recorded(t)'
      BY <1>0, <1>2, <3>1, <3>3 DEF Recorded, RecordKept, IsSent
    <3>5. QED BY <1>2, <3>2, <3>4
  <2>2. CASE Settles(t) /\ answer = "00" /\ SchoolIsKnown(payments[t])
    <3> DEFINE o == payments[t].order
               amount == payments[t].amount
    <3>1. /\ o \in Orders /\ Pays(t, o, amount)
          /\ reconciliations'[t] = [status |-> "AUTO_MATCHED", order |-> o]
          /\ heard[t] # "01"
      BY <1>0, <1>2, <2>2 DEF Settles, TypeInv, TypeOK, Recorded
    <3>2. transactions'[t] = [status |-> "ALLOCATED", amount |-> amount]
      BY <1>0, <3>1 DEF Pays, AllocateToOrder, TypeInv, TypeOK
    <3>3. Recorded(t)'
      BY <1>0, <1>2, <2>2, <3>1, <3>2 DEF Recorded, IsSent
    <3>4. amount > 0 /\ orders[o].status # "NONE"
      BY <1>0, <1>2, <3>1 DEF PaidBill, NoOrder, Orders
    <3>5. receipts'[t] # <<>>
      BY <1>0, <3>1, <3>4, PayingLeavesReceipt
    <3>6. PaidBill(t)'
      BY <1>0, <3>1, <3>4, <3>5 DEF PaidBill, OrderKept
    <3>7. QED BY <1>2, <3>3, <3>6
  <2>3. CASE Waits(t) /\ answer = "05" /\ SchoolIsKnown(payments[t])
    <3> DEFINE o == payments[t].order
    <3>1. /\ reconciliations'[t] = [status |-> "UNMATCHED", order |-> NoOrder]
          /\ transactions'[t] = [status |-> "UNMATCHED", amount |-> payments[t].amount]
          /\ orders' = orders /\ heard[t] # "01"
      BY <1>0, <1>2, <2>3 DEF Waits, TypeInv, TypeOK, Recorded
    <3>2. Recorded(t)'
      BY <1>0, <1>2, <2>3, <3>1 DEF Recorded, IsSent
    <3>3. o # NoOrder => orders[o].status \in {"PAID", "EXPIRED"}
      BY <1>0, <1>2, <2>3 DEF Waits, Payable, PaidBill, TypeInv, TypeOK, Order
    <3>4. PaidBill(t)'
      BY <1>0, <1>2, <3>1, <3>3 DEF PaidBill
    <3>5. QED BY <1>2, <3>2, <3>4
  <2>4. QED BY <1>2, <2>1, <2>2, <2>3, HandlesKinds DEF Notified
<1>3. QED BY <1>1, <1>2

LEMMA OfficeHolds ==
  ASSUME EngineInv, GatewayTypes, GatewayInv, OfficeWorks, NEW u \in Transactions,
         \A o \in Orders : OrderKept(o)
  PROVE  Recorded(u)' /\ PaidBill(u)'
<1>0. /\ Recorded(u) /\ PaidBill(u) /\ UNCHANGED <<payments, heard>> /\ TypeInv
  BY DEF GatewayInv, OfficeWorks, gatewayVars, EngineInv
<1>1. ASSUME RecordKept(u) PROVE Recorded(u)' /\ PaidBill(u)'
  BY <1>0, <1>1, RecordKeptHolds
<1>2. ASSUME NEW o \in Orders, Match(u, o) PROVE Recorded(u)' /\ PaidBill(u)'
  <2> DEFINE amount == transactions[u].amount
  <2>1. /\ Pays(u, o, amount) /\ amount \in Int
        /\ transactions'[u] = [status |-> "ALLOCATED", amount |-> amount]
        /\ reconciliations'[u] = [status |-> "MANUAL_MATCHED", order |-> o]
    BY <1>0, <1>2, MatchPays DEF Match, AllocateToOrder, TypeInv, TypeOK
  <2>2. transactions[u].status # "NONE"
    BY <1>0, <1>2 DEF Recorded, Match
  <2>3. Recorded(u)'
    BY <1>0, <2>1, <2>2 DEF Recorded, IsSent
  <2>4. payments[u].order # NoOrder => amount > 0
    BY <1>0, <2>2 DEF Recorded, PaidBill
  <2>5. payments[u].order # NoOrder => receipts'[u] # <<>>
    BY <2>1, <2>4, PayingLeavesReceipt
  <2>6. payments[u].order \in Orders \union {NoOrder}
    BY DEF GatewayTypes, Payment
  <2>7. PaidBill(u)'
    BY <1>0, <2>1, <2>5, <2>6 DEF PaidBill, OrderKept
  <2>8. QED BY <2>3, <2>7
<1>3. ASSUME NEW t \in Transactions, NEW o \in Orders, Match(t, o), t # u
      PROVE  RecordKept(u)
  BY <1>0, <1>3, MatchPays, OtherTransactions DEF RowsKept, RecordKept
<1>4. ASSUME Unmatch(u) PROVE Recorded(u)' /\ PaidBill(u)'
  <2>1. /\ transactions'[u].status = "UNMATCHED"
        /\ transactions'[u].amount = transactions[u].amount
        /\ reconciliations'[u] = [status |-> "UNMATCHED", order |-> NoOrder]
        /\ reconciliations[u].status \in {"AUTO_MATCHED", "MANUAL_MATCHED"}
    BY <1>0, <1>4 DEF Unmatch, TypeInv, TypeOK, Transaction
  <2>2. Recorded(u)'
    BY <1>0, <2>1 DEF Recorded, IsSent
  <2>3. payments[u].order # NoOrder => receipts'[u] # <<>>
    BY <1>0, <1>4, <2>1, ReversingKeepsReceipts DEF PaidBill
  <2>4. payments[u].order \in Orders \union {NoOrder}
    BY DEF GatewayTypes, Payment
  <2>5. PaidBill(u)'
    BY <1>0, <2>1, <2>3, <2>4 DEF PaidBill, OrderKept
  <2>6. QED BY <2>2, <2>5
<1>5. ASSUME NEW t \in Transactions, Unmatch(t), t # u PROVE RecordKept(u)
  BY <1>0, <1>5, OtherTransactions DEF RowsKept, RecordKept
<1>6. ASSUME \/ \E r \in Receivables, amount \in FeeAmounts : CreateReceivable(r, amount)
             \/ \E r \in Receivables, amount \in DiscountAmounts : Discount(r, amount)
             \/ \E o \in pastDeadline : GetQr(o)
      PROVE  RecordKept(u)
  BY <1>6 DEF CreateReceivable, Discount, GetQr, RecordKept
<1>7. QED BY <1>1, <1>2, <1>3, <1>4, <1>5, <1>6 DEF OfficeWorks

LEMMA ToldStep ==
  ASSUME GatewayTypes, GatewayInv, [GatewayNext]_gatewayAll, NEW o \in Orders,
         OrderKept(o)
  PROVE  Told(o)'
<1>0. Told(o)
  BY DEF GatewayInv
<1>1. ASSUME told'[o] = told[o] PROVE Told(o)'
  BY <1>0, <1>1 DEF Told, OrderKept
<1>2. CASE BankStep
  <2>0. orders' = orders
    BY <1>2 DEF BankStep, EngineStands, vars
  <2>1. ASSUME InqBill(o) PROVE Told(o)'
    BY <2>0, <2>1 DEF InqBill, BillAnswer, Payable, Told, GatewayTypes
  <2>2. ASSUME NEW t \in Transactions, PayBill(t, o) PROVE Told(o)'
    BY <2>2 DEF PayBill, Told, GatewayTypes
  <2>3. QED
    BY <1>1, <1>2, <2>1, <2>2
       DEF BankStep, AskBankForQr, QrFails, DeadlinePasses, InqBill, PayBill,
           PayAtCounter, GatewayTypes
<1>3. CASE ~ BankStep
  <2>1. told' = told
    BY <1>3, GatewayKinds DEF SaveOrder, Notified, OfficeWorks, gatewayVars, gatewayAll
  <2>2. QED BY <1>1, <2>1
<1>4. QED BY <1>2, <1>3

LEMMA GatewayInvStep ==
  EngineInv /\ GatewayTypes /\ GatewayInv /\ [GatewayNext]_gatewayAll => GatewayInv'
<1> SUFFICES ASSUME EngineInv, GatewayTypes, GatewayInv, [GatewayNext]_gatewayAll
             PROVE  GatewayInv'
  OBVIOUS
<1>0. \A o \in Orders : OrderKept(o)
  BY GatewayOrders
<1>1. ASSUME NEW t \in Transactions PROVE Recorded(t)' /\ PaidBill(t)'
  <2>1. ASSUME RecordKept(t), UNCHANGED <<payments, heard>>
        PROVE  Recorded(t)' /\ PaidBill(t)'
    BY <1>0, <2>1, RecordKeptHolds DEF GatewayInv
  <2>2. ASSUME NEW o \in Orders, SaveOrder(o) PROVE Recorded(t)' /\ PaidBill(t)'
    BY <2>1, <2>2 DEF SaveOrder, RecordKept
  <2>3. CASE UNCHANGED gatewayAll
    BY <2>1, <2>3 DEF gatewayAll, vars, gatewayVars, RecordKept
  <2>4. QED
    BY <1>0, <2>2, <2>3, GatewayKinds, BankStepHolds, NotifiedHolds, OfficeHolds
<1>2. \A o \in Orders : Told(o)'
  BY <1>0, ToldStep
<1>3. QED BY <1>1, <1>2 DEF GatewayInv

LEMMA GatewayInvariance == GatewaySpec => [](EngineInv /\ GatewayTypes /\ GatewayInv)
<1>1. EngineInv /\ GatewayTypes /\ GatewayInv /\ [GatewayNext]_<<vars, gatewayVars>>
      => EngineInv' /\ GatewayTypes' /\ GatewayInv'
  BY EngineStep, GatewayTypesStep, GatewayInvStep DEF gatewayAll
<1>2. QED
  BY <1>1, InitGateway, PTL DEF GatewaySpec

(* What the bank was answered holds for good: money acknowledged with "00" *)
(* or "05" is recorded in the amount paid and stays so, what was answered  *)
(* "01" is not, and nothing is recorded that the bank did not make, through *)
(* lost answers, late duplicates, matches and reversals.                   *)
THEOREM AnswersHoldAlways == GatewaySpec => []AnswersHold
<1>1. GatewayInv => AnswersHold
  BY DEF GatewayInv, Recorded, AnswersHold
<1>2. QED BY <1>1, GatewayInvariance, PTL

(* Money the bank took for a bill goes to the order of the bill unless the *)
(* office moves it, and waits unmatched from the start only when the order *)
(* was settled or closed in the meantime.                                  *)
THEOREM BillMoneyReachesItsOrderAlways == GatewaySpec => []BillMoneyReachesItsOrder
<1>1. GatewayInv => BillMoneyReachesItsOrder
  BY DEF GatewayInv, PaidBill, BillMoneyReachesItsOrder
<1>2. QED BY <1>1, GatewayInvariance, PTL

-----------------------------------------------------------------------------
(* A bill paid in the amount the bank was told settles its order.          *)

(* What the receivables of a list lack, in one state of the loop. *)
Lack(rec) == IF rec.amountOutstanding > 0 THEN rec.amountOutstanding ELSE 0

LackRow(recs, items) == [i \in DOMAIN items |-> Lack(recs[items[i]])]

LackIn(recs, items) == Total(LackRow(recs, items), Len(items))

LEMMA LackTypes ==
  ASSUME NEW recs \in [Receivables -> Receivable], NEW items \in Seq(Receivables)
  PROVE  /\ LackRow(recs, items) \in [1..Len(items) -> Nat]
         /\ LackIn(recs, items) \in Nat
         /\ Len(items) \in Nat /\ DOMAIN items = 1..Len(items)
<1>1. /\ Len(items) \in Nat /\ DOMAIN items = 1..Len(items)
      /\ \A i \in DOMAIN items : items[i] \in Receivables
  BY ElementOfSeq
<1>2. LackRow(recs, items) \in [1..Len(items) -> Nat]
  <2>1. \A i \in DOMAIN items : Lack(recs[items[i]]) \in Nat
    BY <1>1 DEF Lack, Receivable
  <2>2. QED BY <1>1, <2>1 DEF LackRow
<1>3. LackIn(recs, items) \in Nat
  <2>1. /\ LackRow(recs, items) \in [1..Len(items) -> Int]
        /\ \A i \in 1..Len(items) : LackRow(recs, items)[i] >= 0
    BY <1>2
  <2>2. QED BY <1>1, <2>1, TotalType DEF LackIn
<1>4. QED BY <1>1, <1>2, <1>3

(* One turn of the loop lowers what is lacking by what it gives, or by     *)
(* more when the receivable is on the list twice; and it leaves money only *)
(* when the receivable lacks nothing.                                      *)
LEMMA AllocateItemSettles ==
  ASSUME NEW run \in Run, NEW items \in Seq(Receivables), NEW k \in DOMAIN items,
         RunSound(run, items), AllocateItem(run, items[k]) \in Run
  PROVE  LET next == AllocateItem(run, items[k]) IN
         /\ LackIn(next.receivables, items) + next.allocatedTotal
              <= LackIn(run.receivables, items) + run.allocatedTotal
         /\ next.available > 0 =>
              /\ run.available > 0
              /\ next.receivables[items[k]].amountOutstanding <= 0
         /\ \A r \in Receivables :
              run.receivables[r].amountOutstanding <= 0 =>
                next.receivables[r].amountOutstanding <= 0
<1> DEFINE r == items[k]
           take == ToAllocate(run, r)
           next == AllocateItem(run, r)
           n == Len(items)
           d == [i \in 1..n |-> IF items[i] = r THEN take ELSE 0]
<1>1. /\ run.available \in Int /\ run.allocatedTotal \in Nat
      /\ run.receivables \in [Receivables -> Receivable]
      /\ \A q \in Receivables : run.receivables[q] \in Receivable
      /\ \A q \in Receivables : run.receivables[q].amountOutstanding \in Int
  BY DEF Run, Receivable
<1>2. /\ r \in Receivables /\ Sound(run.receivables[r])
      /\ run.receivables[r].status # "CANCELLED"
      /\ n \in Nat /\ DOMAIN items = 1..n
      /\ \A i \in 1..n : items[i] \in Receivables
  BY ElementOfSeq DEF RunSound, Sound
<1>3. take = IF run.available <= run.receivables[r].amountOutstanding
             THEN run.available ELSE run.receivables[r].amountOutstanding
  BY DEF ToAllocate
<1>4. LackIn(run.receivables, items) \in Nat
  BY <1>1, LackTypes
<1>5. CASE take <= 0
  <2>1. next = run
    BY <1>5 DEF AllocateItem
  <2> HIDE DEF next, take, r
  <2>2. run.available > 0 => run.receivables[r].amountOutstanding <= 0
    BY <1>1, <1>2, <1>3, <1>5
  <2>3. QED BY <1>1, <1>4, <2>1, <2>2 DEF next, r
<1>6. CASE take > 0
  <2>0. next = [available      |-> run.available - take,
                allocatedTotal |-> run.allocatedTotal + take,
                allocated      |-> [run.allocated EXCEPT ![r] = @ + take],
                receivables    |-> [run.receivables EXCEPT
                  ![r] = ApplyPaymentDelta(@, take, IsPastDue(r))]]
    <3>1. ~ (run.receivables[r].status = "CANCELLED" \/ take <= 0)
      BY <1>1, <1>2, <1>3, <1>6
    <3> HIDE DEF r
    <3>2. QED BY <3>1, Zenon DEF AllocateItem
  <2>1. /\ next.available = run.available - take
        /\ next.allocatedTotal = run.allocatedTotal + take
        /\ next.receivables = [run.receivables EXCEPT
             ![r] = ApplyPaymentDelta(@, take, IsPastDue(r))]
    <3> HIDE DEF next, take, r
    <3>1. QED BY <2>0
  <2>2. take \in Nat /\ IsPastDue(r) \in BOOLEAN
    BY <1>1, <1>2, <1>3, <1>6 DEF IsPastDue
  <2> HIDE DEF take
  <2>3. next.receivables[r].amountOutstanding
          = run.receivables[r].amountOutstanding - take
    <3>1. ApplyPaymentDelta(run.receivables[r], take, IsPastDue(r)).amountOutstanding
            = run.receivables[r].amountOutstanding - take
      BY <1>1, <1>2, <2>2, DeltaEffects
    <3> HIDE DEF next, r
    <3>2. next.receivables[r]
            = ApplyPaymentDelta(run.receivables[r], take, IsPastDue(r))
      BY <1>1, <1>2, <2>1
    <3>3. QED BY <3>1, <3>2
  <2>4. \A q \in Receivables : q # r => next.receivables[q] = run.receivables[q]
    BY <1>1, <2>1
  <2>5. next.receivables \in [Receivables -> Receivable] /\ next.available \in Int
    BY DEF Run
  <2> DEFINE f == LackRow(run.receivables, items)
             g == LackRow(next.receivables, items)
  <2>6. f \in [1..n -> Nat] /\ g \in [1..n -> Nat]
    BY <1>1, <2>5, LackTypes
  <2>7. d \in [1..n -> Nat]
    BY <2>2
  <2> HIDE DEF next
  <2>8. ASSUME NEW i \in 1..n PROVE f[i] = g[i] + d[i]
    <3>1. /\ f[i] = Lack(run.receivables[items[i]])
          /\ g[i] = Lack(next.receivables[items[i]])
          /\ d[i] = IF items[i] = r THEN take ELSE 0
      BY <1>2 DEF LackRow
    <3>2. CASE items[i] = r
      <4>1. run.receivables[r].amountOutstanding >= take
        BY <1>1, <1>2, <1>3, <2>2
      <4>2. /\ f[i] = Lack(run.receivables[r]) /\ g[i] = Lack(next.receivables[r])
            /\ d[i] = take
        BY <3>1, <3>2
      <4>3. run.receivables[r].amountOutstanding \in Int
        BY <1>1, <1>2
      <4> HIDE DEF f, g, d, r, n
      <4>4. QED BY <1>6, <2>2, <2>3, <4>1, <4>2, <4>3 DEF Lack
    <3>3. CASE items[i] # r
      <4>1. next.receivables[items[i]] = run.receivables[items[i]]
        BY <1>2, <2>4, <3>3
      <4>2. g[i] \in Int
        BY <2>6
      <4>3. f[i] = g[i] /\ d[i] = 0
        BY <3>1, <3>3, <4>1
      <4>4. QED BY <4>2, <4>3
    <3>4. QED BY <3>2, <3>3
  <2>9. d[k] = take /\ k \in 1..n
    BY <1>2
  <2> HIDE DEF f, g, d, n, r
  <2>10. /\ f \in [1..n -> Int] /\ g \in [1..n -> Int] /\ d \in [1..n -> Int]
    BY <2>6, <2>7
  <2>11. Total(f, n) = Total(g, n) + Total(d, n)
    BY <1>2, <2>8, <2>10, TotalAddition
  <2>12. take <= Total(d, n)
    BY <1>2, <2>7, <2>9, TotalAtLeastRow
  <2>13. Total(g, n) \in Int /\ Total(d, n) \in Int
    BY <1>2, <2>10, TotalType
  <2>14. LackIn(next.receivables, items) <= LackIn(run.receivables, items) - take
    BY <2>2, <2>11, <2>12, <2>13 DEF LackIn, f, g, n
  <2>15. LackIn(next.receivables, items) \in Nat
    BY <2>5, LackTypes
  <2>16. next.available > 0 =>
           /\ run.available > 0
           /\ next.receivables[r].amountOutstanding <= 0
    BY <1>1, <1>2, <1>3, <2>1, <2>2, <2>3, <2>5
  <2>17. \A q \in Receivables :
           run.receivables[q].amountOutstanding <= 0 =>
             next.receivables[q].amountOutstanding <= 0
    <3>1. run.receivables[r].amountOutstanding > 0
      BY <1>1, <1>2, <1>3, <1>6
    <3>2. QED BY <1>1, <1>2, <2>4, <3>1
  <2>18. LackIn(next.receivables, items) + next.allocatedTotal
           <= LackIn(run.receivables, items) + run.allocatedTotal
    BY <1>1, <1>4, <2>1, <2>2, <2>14, <2>15
  <2>19. QED BY <2>16, <2>17, <2>18 DEF next, r
<1>7. QED BY <1>1, <1>2, <1>3, <1>5, <1>6

(* The whole loop settles the list or lowers what it lacks by the amount. *)
LEMMA AllocationSettles ==
  ASSUME EngineInv, NEW amount \in Int, NEW items \in Seq(Receivables)
  PROVE  LET done == AllocationRun(items, amount)[Len(items)] IN
         \/ LackIn(done.receivables, items) = 0
         \/ LackIn(done.receivables, items) <= LackIn(receivables, items) - amount
<1> DEFINE run == AllocationRun(items, amount)
           n == Len(items)
           Good == {i \in 0..n :
             /\ LackIn(run[i].receivables, items) + run[i].allocatedTotal
                  <= LackIn(receivables, items)
             /\ run[i].available > 0 =>
                  \A j \in 1..i : run[i].receivables[items[j]].amountOutstanding <= 0}
<1>1. /\ n \in Nat /\ DOMAIN items = 1..n
      /\ \A i \in 1..n : items[i] \in Receivables
      /\ receivables \in [Receivables -> Receivable] /\ RowsInv
  BY ElementOfSeq DEF EngineInv, TypeInv, TypeOK
<1>2. /\ IsRun(run, items, amount, n)
      /\ \A i \in 0..n : /\ RunOK(run[i], amount) /\ run[i] \in Run
                         /\ RunSound(run[i], items)
  BY <1>1, AllocationRunIsRun, AllocationRunOK, AllocationRunSound DEF RunOK
<1>3. /\ LackIn(receivables, items) \in Nat
      /\ \A i \in 0..n : /\ LackIn(run[i].receivables, items) \in Nat
                         /\ run[i].allocatedTotal \in Nat /\ run[i].available \in Int
                         /\ run[i].receivables \in [Receivables -> Receivable]
  BY <1>1, <1>2, LackTypes DEF Run
<1> HIDE DEF run
<1>4. 0 \in Good
  <2>1. run[0].receivables = receivables /\ run[0].allocatedTotal = 0
    BY <1>2 DEF IsRun, StartOfRun
  <2>2. QED BY <1>1, <1>3, <2>1
<1>5. ASSUME NEW i \in 1..n, i - 1 \in Good PROVE i \in Good
  <2> DEFINE before == run[i - 1]
             next == AllocateItem(before, items[i])
  <2>1. /\ i \in 0..n /\ i - 1 \in 0..n /\ i \in DOMAIN items
        /\ run[i] = next
    BY <1>1, <1>2 DEF IsRun
  <2>2. /\ LackIn(next.receivables, items) + next.allocatedTotal
             <= LackIn(before.receivables, items) + before.allocatedTotal
        /\ next.available > 0 =>
             before.available > 0 /\ next.receivables[items[i]].amountOutstanding <= 0
        /\ \A r \in Receivables :
             before.receivables[r].amountOutstanding <= 0 =>
               next.receivables[r].amountOutstanding <= 0
    <3>1. before \in Run /\ next \in Run /\ RunSound(before, items)
      BY <1>2, <2>1
    <3>2. QED BY <2>1, <3>1, AllocateItemSettles
  <2>3. /\ LackIn(before.receivables, items) + before.allocatedTotal
             <= LackIn(receivables, items)
        /\ before.available > 0 =>
             \A j \in 1..(i - 1) : before.receivables[items[j]].amountOutstanding <= 0
    BY <1>5
  <2> HIDE DEF next
  <2>4. LackIn(next.receivables, items) + next.allocatedTotal <= LackIn(receivables, items)
    <3>1. /\ LackIn(next.receivables, items) \in Nat /\ next.allocatedTotal \in Nat
          /\ LackIn(before.receivables, items) \in Nat /\ before.allocatedTotal \in Nat
      BY <1>3, <2>1
    <3> HIDE DEF before
    <3>2. QED BY <1>3, <2>2, <2>3, <3>1
  <2>5. ASSUME next.available > 0, NEW j \in 1..i
        PROVE  next.receivables[items[j]].amountOutstanding <= 0
    <3>1. j = i \/ j \in 1..(i - 1)
      OBVIOUS
    <3>2. items[j] \in Receivables
      BY <1>1
    <3>3. QED BY <2>2, <2>3, <2>5, <3>1, <3>2
  <2>6. QED BY <2>1, <2>4, <2>5
<1>6. n \in Good
  <2> HIDE DEF Good
  <2>1. \A i \in 0..n : i \in Good
    BY <1>1, <1>4, <1>5, RowInduction
  <2>2. QED BY <1>1, <2>1
<1> DEFINE done == run[n]
<1>7. /\ LackIn(done.receivables, items) + done.allocatedTotal <= LackIn(receivables, items)
      /\ done.available > 0 =>
           \A j \in 1..n : done.receivables[items[j]].amountOutstanding <= 0
      /\ done.available + done.allocatedTotal = amount
      /\ LackIn(done.receivables, items) \in Nat
      /\ done.allocatedTotal \in Nat /\ done.available \in Int
  BY <1>1, <1>2, <1>3, <1>6 DEF RunOK
<1>8. CASE done.available > 0
  <2> DEFINE g == LackRow(done.receivables, items)
  <2>0. done.receivables \in [Receivables -> Receivable]
    BY <1>1, <1>3
  <2>1. g \in [1..n -> Int]
    <3> HIDE DEF done
    <3>1. g \in [1..n -> Nat]
      BY <2>0, LackTypes
    <3>2. QED BY <3>1
  <2>2. ASSUME NEW i \in 1..n PROVE g[i] = 0
    <3> HIDE DEF done
    <3>1. /\ items[i] \in Receivables /\ i \in DOMAIN items
          /\ done.receivables[items[i]].amountOutstanding <= 0
      BY <1>1, <1>7, <1>8
    <3>2. done.receivables[items[i]].amountOutstanding \in Int
      BY <2>0, <3>1 DEF Receivable
    <3>3. g[i] = Lack(done.receivables[items[i]])
      BY <3>1 DEF LackRow
    <3> HIDE DEF g
    <3>4. QED BY <3>1, <3>2, <3>3 DEF Lack
  <2> HIDE DEF g
  <2>3. Total(g, n) = 0
    BY <1>1, <2>1, <2>2, TotalOfZeros
  <2>4. QED BY <2>3 DEF g, LackIn, run
<1>9. CASE ~ (done.available > 0)
  <2> HIDE DEF done, n
  <2>1. LackIn(done.receivables, items) <= LackIn(receivables, items) - amount
    BY <1>3, <1>7, <1>9
  <2>2. QED BY <2>1 DEF done, run, n
<1>10. QED BY <1>8, <1>9

LEMMA PaysSettles ==
  ASSUME EngineInv, NEW t \in Transactions, NEW o \in Orders, NEW amount \in Int,
         Pays(t, o, amount)
  PROVE  /\ Lacked(o) \in Nat /\ Lacked(o)' \in Nat
         /\ Lacked(o)' = 0 \/ Lacked(o)' <= Lacked(o) - amount
<1> DEFINE items == orders[o].items
           done == AllocationRun(items, amount)[Len(items)]
<1>1. items \in Seq(Receivables) /\ receivables \in [Receivables -> Receivable]
  BY DEF EngineInv, TypeInv, TypeOK, Order
<1>2. /\ receivables' = done.receivables /\ orders'[o].items = items
  BY DEF Pays, AllocateToOrder, EngineInv, TypeInv, TypeOK, Order
<1>3. Lacked(o) = LackIn(receivables, items)
  BY Zenon DEF Lacked, LackIn, LackRow, Lack
<1>4. Lacked(o)' = LackIn(receivables', orders'[o].items)
  BY Zenon DEF Lacked, LackIn, LackRow, Lack
<1>5. \/ LackIn(done.receivables, items) = 0
      \/ LackIn(done.receivables, items) <= LackIn(receivables, items) - amount
  BY <1>1, AllocationSettles
<1>6. done.receivables \in [Receivables -> Receivable]
  <2>1. RunOK(done, amount)
    BY <1>1, AllocationRunOK
  <2> HIDE DEF done
  <2>2. QED BY <2>1 DEF RunOK, Run
<1>7. LackIn(receivables, items) \in Nat /\ LackIn(done.receivables, items) \in Nat
  BY <1>1, <1>6, LackTypes
<1> HIDE DEF items, done
<1>8. QED BY <1>2, <1>3, <1>4, <1>5, <1>7

(* Rounding to whole dongs leaves off half a dong at most. *)
LEMMA RoundingError ==
  ASSUME NEW amount \in Int
  PROVE  2 * (amount - RoundedToDong(amount)) <= UnitsPerDong
<1> DEFINE half == UnitsPerDong \div 2
           dongs == (amount + half) \div UnitsPerDong
<1>0. UnitsPerDong \in Nat \ {0}
  BY UnitsAssumption
<1>1. /\ half \in Int /\ dongs \in Int
      /\ 2 * half <= UnitsPerDong /\ UnitsPerDong <= 2 * half + 1
  BY <1>0
<1>2. amount + half < (dongs + 1) * UnitsPerDong
  BY <1>0
<1>3. RoundedToDong(amount) = dongs * UnitsPerDong
  BY DEF RoundedToDong
<1> HIDE DEF half, dongs
<1>4. (dongs + 1) * UnitsPerDong = dongs * UnitsPerDong + UnitsPerDong
      /\ dongs * UnitsPerDong \in Int
  BY <1>0, <1>1
<1>5. QED BY <1>0, <1>1, <1>2, <1>3, <1>4

(* Only the notification of a payment allocates it for the first time. *)
LEMMA FirstAllocation ==
  ASSUME EngineInv, GatewayTypes, GatewayInv, [GatewayNext]_gatewayAll,
         NEW t \in Transactions,
         transactions[t].status = "NONE", transactions'[t].status = "ALLOCATED"
  PROVE  Settles(t)
<1>0. TypeInv /\ reconciliations[t].status = "NONE"
  BY DEF EngineInv, GatewayInv, Recorded
<1>1. CASE transactions' = transactions
  BY <1>1
<1>2. ASSUME NEW u \in Transactions, NEW answer \in Answers, Notified(u, answer)
      PROVE  Settles(t)
  <2>1. CASE EngineStands
    BY <1>1, <2>1 DEF EngineStands, vars
  <2>2. CASE Waits(u)
    BY <1>0, <2>2 DEF Waits, TypeInv, TypeOK
  <2>3. ASSUME Settles(u), u # t PROVE FALSE
    <3>1. payments[u].amount \in Int
      BY DEF GatewayTypes, Payment
    <3>2. RowsKept(t)
      BY <1>0, <2>3, <3>1, OtherTransactions DEF Settles
    <3>3. QED BY <3>2 DEF RowsKept
  <2>4. QED BY <1>2, <2>1, <2>2, <2>3, HandlesKinds DEF Notified
<1>3. ASSUME NEW u \in Transactions, NEW o \in Orders, Match(u, o) PROVE FALSE
  <2>1. u # t
    BY <1>0, <1>3 DEF Match
  <2>2. RowsKept(t)
    BY <1>0, <1>3, <2>1, MatchPays, OtherTransactions
  <2>3. QED BY <2>2 DEF RowsKept
<1>4. ASSUME NEW u \in Transactions, Unmatch(u) PROVE FALSE
  BY <1>0, <1>4 DEF Unmatch, TypeInv, TypeOK, Transaction
<1>5. CASE OfficeWorks
  BY <1>1, <1>3, <1>4, <1>5 DEF OfficeWorks, CreateReceivable, Discount, GetQr
<1>6. QED
  BY <1>1, <1>2, <1>5, GatewayKinds
     DEF BankStep, EngineStands, vars, SaveOrder, gatewayAll

(* An order paid in the amount the bank was told, rounded to whole dongs,  *)
(* lacks half a dong at most, if its receivables did not ask for more in   *)
(* the meantime: whatever other money they were paid with before.          *)
THEOREM BillAmountSettlesEver == GatewaySpec => BillAmountSettles
<1>1. ASSUME EngineInv, GatewayTypes, GatewayInv, [GatewayNext]_gatewayAll,
             NEW t \in Transactions,
             transactions[t].status = "NONE", transactions'[t].status = "ALLOCATED",
             payments[t].amount = RoundedToDong(requested[payments[t].order]),
             Lacked(payments[t].order) <= requested[payments[t].order]
      PROVE  2 * Lacked(payments[t].order)' <= UnitsPerDong
  <2>1. /\ payments[t].order \in Orders /\ payments[t].amount \in Int
        /\ Pays(t, payments[t].order, payments[t].amount)
        /\ requested[payments[t].order] \in Int
    BY <1>1, FirstAllocation DEF Settles, GatewayTypes, Payment
  <2>2. PICK o \in Orders, amount \in Int :
             o = payments[t].order /\ amount = payments[t].amount
    BY <2>1
  <2>3. /\ Lacked(o) \in Nat /\ Lacked(o)' \in Nat
        /\ Lacked(o)' = 0 \/ Lacked(o)' <= Lacked(o) - amount
    <3>1. EngineInv /\ Pays(t, o, amount)
      BY <1>1, <2>1, <2>2
    <3>2. QED BY <3>1, PaysSettles
  <2>4. 2 * (requested[o] - amount) <= UnitsPerDong
    BY <1>1, <2>1, <2>2, RoundingError
  <2>5. payments' = payments
    <3>1. Settles(t)
      BY <1>1, FirstAllocation
    <3>2. transactions' # transactions
      BY <1>1
    <3>3. QED
      BY <1>1, <3>2, GatewayKinds
         DEF BankStep, EngineStands, vars, SaveOrder, Notified, OfficeWorks,
             gatewayVars, gatewayAll
  <2>6. /\ UnitsPerDong \in Nat /\ requested[o] \in Int
        /\ Lacked(o) <= requested[o]
    BY <1>1, <2>1, <2>2, UnitsAssumption
  <2>7. Lacked(payments[t].order)' = Lacked(o)'
    BY <2>2, <2>5
  <2>8. QED BY <2>3, <2>4, <2>6, <2>7
<1>2. EngineInv /\ GatewayTypes /\ GatewayInv /\ [GatewayNext]_<<vars, gatewayVars>>
      => [\A t \in Transactions :
            LET o == payments[t].order IN
            /\ transactions[t].status = "NONE" /\ transactions'[t].status = "ALLOCATED"
            /\ payments[t].amount = RoundedToDong(requested[o])
            /\ Lacked(o) <= requested[o]
            => 2 * Lacked(o)' <= UnitsPerDong]_<<vars, gatewayVars>>
  BY <1>1 DEF gatewayAll
<1>3. QED
  BY <1>2, GatewayInvariance, PTL DEF GatewaySpec, BillAmountSettles
=============================================================================
