----------------------- MODULE MCConcurrentPayments ------------------------
(***************************************************************************)
(* Small workloads of ConcurrentPayments: which requests run at once.      *)
(***************************************************************************)
EXTENDS ConcurrentPayments

Report(t, o)   == [kind |-> "ingest", transaction |-> t, order |-> o]
MatchTo(t, o)  == [kind |-> "match", transaction |-> t, order |-> o]
UnmatchOf(t)   == [kind |-> "unmatch", transaction |-> t, order |-> NoOrder]
AskQr(o)       == [kind |-> "getQr", transaction |-> 1, order |-> o]
DiscountOn(r, amount) ==
  [kind |-> "discount", transaction |-> 1, order |-> NoOrder,
   receivable |-> r, amount |-> amount]

Idle == [kind |-> "done", transaction |-> 1, order |-> NoOrder]

(* Transfer 1 is reported twice, transfer 2 pays into the same receivables *)
(* by another order, while transfer 3 is matched by hand.                  *)
Payments == <<Report(1, 1), Report(1, 1), Report(2, 2), MatchTo(3, 1)>>

(* A transfer is reported, unmatched and matched to another order, while a *)
(* second transfer is matched to that order too.                           *)
Corrections == <<Report(1, 1), UnmatchOf(1), MatchTo(1, 2), MatchTo(2, 2)>>

(* Payments and discounts of one receivable, and the QR of a second order. *)
Charges == <<Report(1, 1), DiscountOn(1, 1), DiscountOn(1, 1), AskQr(2)>>

(* The notifications of Payments alone; a gateway that waits. *)
Notifications == <<Report(1, 1), Report(1, 1), Report(2, 2), Idle>>

AtOnce   == FALSE
Patient  == TRUE
PaymentWorkloads ==
  ({Payments, Corrections} \X {AtOnce})
    \union ({Notifications, Corrections, Charges} \X {Patient})

TwoMatches == {<<<<MatchTo(1, 1), MatchTo(1, 2)>>, AtOnce>>}
Deadline   == {<<<<Report(1, 1), AskQr(1)>>, AtOnce>>}

AmountsPaid    == <<3, 2, 1>>
FeesCharged    == <<2, 2>>
SeparateItems  == <<<<1>>, <<2>>>>
SharedItems    == <<<<1, 2>>, <<2, 1>>>>
=============================================================================
