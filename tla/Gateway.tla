------------------------------ MODULE Gateway ------------------------------
(***************************************************************************)
(* VietinBank's collection gateway around the accounting engine: the QR of *)
(* a new order is asked of the bank before the order is saved, the bank    *)
(* asks for a bill before it takes a payer's money (inq-bill) and notifies *)
(* it after (notify-bill), again and again until it hears "00".  Answers   *)
(* get lost, notifications arrive twice and late, deadlines pass and the   *)
(* office goes on working in between.                                      *)
(*                                                                         *)
(* Requests with a bad signature or missing fields are answered with an    *)
(* error and change nothing; the signatures themselves are left out.       *)
(***************************************************************************)
EXTENDS Accounting, FiniteSets

CONSTANTS
  PartAmounts,      \* amounts asked for that are less than what is owed
  UnitsPerDong,     \* the bank is told whole dongs, the columns keep fractions
  MaxInPlay         \* bound: orders and transfers made

ASSUME UnitsAssumption ==
  UnitsPerDong \in Nat \ {0} /\ MaxInPlay \in Nat /\ PartAmounts \subseteq Nat \ {0}

VARIABLES
  drafts,        \* orders whose QR was asked for and that are not saved yet
  requested,     \* requestedAmount of each order
  pastDeadline,  \* the orders whose expiresAt has passed
  told,          \* of each bill, the amount the bank was told; 0 is refused
  payments,      \* the transfers the bank has made
  heard          \* the last answer the bank heard to each notification

gatewayVars == <<drafts, requested, pastDeadline, told, payments, heard>>

NoDraft   == [items |-> <<>>, amount |-> 0]
NoPayment == [order |-> NoOrder, amount |-> 0, ofSchool |-> FALSE]

GatewayInit ==
  /\ Init
  /\ drafts       = [o \in Orders |-> NoDraft]
  /\ requested    = [o \in Orders |-> 0]
  /\ pastDeadline = {}
  /\ told         = [o \in Orders |-> 0]
  /\ payments     = [t \in Transactions |-> NoPayment]
  /\ heard        = [t \in Transactions |-> "none"]

EngineStands == UNCHANGED vars

IsSent(t) == payments[t] # NoPayment

MayPlay ==
  Cardinality({o \in Orders : orders[o].status # "NONE" \/ drafts[o] # NoDraft})
    + Cardinality({t \in Transactions : IsSent(t)}) < MaxInPlay

-----------------------------------------------------------------------------
(* PaymentOrdersService.create with paymentMethod VIETINBANK. *)

OutstandingOf(items) ==
  Total([i \in DOMAIN items |-> receivables[items[i]].amountOutstanding], Len(items))

(* The receivables are read and checked, the amount is settled (what is    *)
(* owed, if the request names no part of it), and the bank is asked for a  *)
(* QR: all of it before the transaction.                                   *)
AskBankForQr(o, items, amount) ==
  /\ orders[o].status = "NONE" /\ drafts[o] = NoDraft /\ MayPlay
  /\ \A i \in DOMAIN items :
       CanBeOrdered(items[i]) /\ StudentOf[items[i]] = StudentOf[items[1]]
  /\ amount <= OutstandingOf(items)
  /\ drafts' = [drafts EXCEPT ![o] = [items |-> items, amount |-> amount]]
  /\ EngineStands
  /\ UNCHANGED <<requested, pastDeadline, told, payments, heard>>

(* The order is saved as it was asked for, whatever became of its          *)
(* receivables since.                                                      *)
SaveOrder(o) ==
  /\ drafts[o] # NoDraft
  /\ orders' = [orders EXCEPT ![o] = [status |-> "PENDING", items |-> drafts[o].items]]
  /\ requested' = [requested EXCEPT ![o] = drafts[o].amount]
  /\ drafts' = [drafts EXCEPT ![o] = NoDraft]
  /\ UNCHANGED <<receivables, transactions, reconciliations, allocations,
                 credits, refunds, receipts, ledger>>
  /\ UNCHANGED <<pastDeadline, told, payments, heard>>

(* The bank does not answer in time or refuses; the order is not made. *)
QrFails(o) ==
  /\ drafts[o] # NoDraft
  /\ drafts' = [drafts EXCEPT ![o] = NoDraft]
  /\ EngineStands
  /\ UNCHANGED <<requested, pastDeadline, told, payments, heard>>

(* The deadline of an order that is settled or closed matters to nothing. *)
DeadlinePasses(o) ==
  /\ Payable(o) /\ o \notin pastDeadline
  /\ pastDeadline' = pastDeadline \union {o}
  /\ EngineStands
  /\ UNCHANGED <<drafts, requested, told, payments, heard>>

-----------------------------------------------------------------------------
(* inq-bill. *)

(* Mutation: the fraction is cut off. *)
CutToDong(amount) == (amount \div UnitsPerDong) * UnitsPerDong

(* toFixed(0): half a dong or more is rounded up. *)
RoundedToDong(amount) ==
  ((amount + UnitsPerDong \div 2) \div UnitsPerDong) * UnitsPerDong

BillAnswer(o) ==
  IF Payable(o) /\ o \notin pastDeadline THEN RoundedToDong(requested[o]) ELSE 0

(* "00" with the amount, or "02". *)
InqBill(o) ==
  /\ told' = [told EXCEPT ![o] = BillAnswer(o)]
  /\ EngineStands
  /\ UNCHANGED <<drafts, requested, pastDeadline, payments, heard>>

(* The bank takes the payer's money for the bill it was told of. *)
PayBill(t, o) ==
  /\ ~IsSent(t) /\ MayPlay
  /\ told[o] > 0
  /\ payments' = [payments EXCEPT
       ![t] = [order |-> o, amount |-> told[o], ofSchool |-> TRUE]]
  /\ told' = [told EXCEPT ![o] = 0]
  /\ EngineStands
  /\ UNCHANGED <<drafts, requested, pastDeadline, heard>>

(* A transfer at the counter: any amount, no bill, perhaps to an account   *)
(* that no school has given.                                               *)
PayAtCounter(t, amount, ofSchool) ==
  /\ ~IsSent(t) /\ MayPlay
  /\ payments' = [payments EXCEPT
       ![t] = [order |-> NoOrder, amount |-> amount, ofSchool |-> ofSchool]]
  /\ EngineStands
  /\ UNCHANGED <<drafts, requested, pastDeadline, told, heard>>

-----------------------------------------------------------------------------
(* notify-bill. *)

(* The school is that of the order named, or of the receiving account. *)
SchoolIsKnown(payment) ==
  payment.order # NoOrder \/ payment.ofSchool

(* Mutations: a notification that was recorded before is answered as if it *)
(* matched nothing; one that failed is answered as a success.              *)
UnmatchedAgain == "05"
AlwaysSuccess == "00"

AnswerToDuplicate == "00"

AnswerToFailure == "01"

(* Mutation: an order past its deadline is no longer paid. *)
PaysUntilDeadline(o) == Payable(o) /\ o \notin pastDeadline

(* The order is looked up by its content; the deadline does not matter. *)
TakesMoneyFor(o) == Payable(o)

(* What the handler does to the tables, and its answer. *)
Handles(t, answer) ==
  LET payment == payments[t] IN
  \/ /\ ~SchoolIsKnown(payment)
     /\ EngineStands
     /\ answer = AnswerToFailure
  \/ /\ SchoolIsKnown(payment) /\ transactions[t].status # "NONE"
     /\ EngineStands
     /\ answer = AnswerToDuplicate
  \/ /\ SchoolIsKnown(payment) /\ TakesMoneyFor(payment.order)
     /\ IngestMatched(t, payment.amount, payment.order)
     /\ answer = "00"
  \/ /\ SchoolIsKnown(payment) /\ ~TakesMoneyFor(payment.order)
     /\ transactions[t].status = "NONE"
     /\ transactions' = [transactions EXCEPT
          ![t] = [status |-> "UNMATCHED", amount |-> payment.amount]]
     /\ reconciliations' = [reconciliations EXCEPT
          ![t] = [status |-> "UNMATCHED", order |-> NoOrder]]
     /\ UNCHANGED <<receivables, orders, allocations, credits, refunds,
                    receipts, ledger>>
     /\ answer = "05"

Answers == {"00", "01", "05"}

(* The answer reaches the bank, which repeats until it hears "00". *)
NotifyBill(t) ==
  /\ IsSent(t) /\ heard[t] # "00"
  /\ UNCHANGED <<drafts, requested, pastDeadline, told, payments>>
  /\ \E answer \in Answers :
       heard' = [heard EXCEPT ![t] = answer] /\ Handles(t, answer)

(* The answer is lost, or the notification was one too many. *)
NotifyUnheard(t) ==
  /\ IsSent(t)
  /\ \E answer \in Answers : Handles(t, answer)
  /\ UNCHANGED gatewayVars

-----------------------------------------------------------------------------
(* What the office does in the meantime. *)

OfficeWorks ==
  /\ \/ \E r \in Receivables, amount \in FeeAmounts : CreateReceivable(r, amount)
     \/ \E r \in Receivables, amount \in DiscountAmounts : Discount(r, amount)
     \/ \E o \in pastDeadline : GetQr(o)
     \/ \E t \in Transactions, o \in Orders : Match(t, o)
     \/ \E t \in Transactions : Unmatch(t)
  /\ UNCHANGED gatewayVars

GatewayNext ==
  \/ \E o \in Orders :
       \/ \E items \in ItemLists :
            \E amount \in PartAmounts \union {OutstandingOf(items)} :
              AskBankForQr(o, items, amount)
       \/ SaveOrder(o) \/ QrFails(o) \/ DeadlinePasses(o) \/ InqBill(o)
  \/ \E t \in Transactions :
       \/ \E o \in Orders : PayBill(t, o)
       \/ \E amount \in TransferAmounts, ofSchool \in BOOLEAN :
            PayAtCounter(t, amount, ofSchool)
       \/ NotifyBill(t) \/ NotifyUnheard(t)
  \/ OfficeWorks

GatewaySpec == GatewayInit /\ [][GatewayNext]_<<vars, gatewayVars>>

(* The bank goes on notifying, and not all of the answers are lost. *)
GatewayFairSpec ==
  GatewaySpec /\ \A t \in Transactions : WF_<<vars, gatewayVars>>(NotifyBill(t))

-----------------------------------------------------------------------------
(* Properties. *)

(* What the bank was answered holds for good: money acknowledged with "00" *)
(* or "05" is recorded with the amount it was paid in, and stays so        *)
(* through late duplicates, matches and reversals; what was answered "01"  *)
(* is not; and no transaction is recorded that the bank did not make.      *)
AnswersHold ==
  \A t \in Transactions :
    /\ heard[t] \in {"00", "05"} => transactions[t].status # "NONE"
    /\ heard[t] = "01" => transactions[t].status = "NONE"
    /\ transactions[t].status # "NONE" =>
         IsSent(t) /\ transactions[t].amount = payments[t].amount

(* Money the bank took for a bill goes to the order of that bill, and to   *)
(* another only by hand.  It waits unmatched, never having been matched,   *)
(* only when that order was settled or closed in the meantime: not because *)
(* the deadline passed between the inquiry and the notification.           *)
BillMoneyReachesItsOrder ==
  \A t \in Transactions :
    LET o == payments[t].order IN
    o # NoOrder =>
      /\ reconciliations[t].status = "AUTO_MATCHED" => reconciliations[t].order = o
      /\ reconciliations[t].status = "UNMATCHED" /\ receipts[t] = <<>> =>
           orders[o].status \in {"PAID", "EXPIRED"}

Lacked(o) ==
  LET lacking(r) == IF receivables[r].amountOutstanding > 0
                    THEN receivables[r].amountOutstanding ELSE 0
      items == orders[o].items
  IN  Total([i \in DOMAIN items |-> lacking(items[i])], Len(items))

(* An order paid in the amount the bank was told, rounded to whole dongs,  *)
(* lacks half a dong at most, if its receivables did not ask for more in   *)
(* the meantime.                                                           *)
BillAmountSettles ==
  [][\A t \in Transactions :
       LET o == payments[t].order IN
       /\ transactions[t].status = "NONE" /\ transactions'[t].status = "ALLOCATED"
       /\ payments[t].amount = RoundedToDong(requested[o])
       /\ Lacked(o) <= requested[o]
       => 2 * Lacked(o)' <= UnitsPerDong]_<<vars, gatewayVars>>

(* Every transfer to a school the bank can be answered for is acknowledged *)
(* in the end, also one that matched no order and was answered "05" first. *)
EveryPaymentAcknowledged ==
  \A t \in Transactions :
    IsSent(t) /\ SchoolIsKnown(payments[t]) ~> heard[t] = "00"
=============================================================================
