---------------------------- MODULE Receivables ----------------------------
(***************************************************************************)
(* One row of student_receivables and the only five ways the code changes  *)
(* it (ReceivablesService).  Money is a whole number of the smallest unit: *)
(* the columns are numeric(18,2) and every operation here is exact.        *)
(***************************************************************************)
EXTENDS Integers

(* ReceivableStatus as the payment code tells them apart.  "NONE" is a     *)
(* receivable that does not exist yet.  Nothing in the program sets DRAFT  *)
(* or CANCELLED; the guards on CANCELLED are kept all the same.            *)
ReceivableStatus ==
  {"NONE", "UNPAID", "PARTIALLY_PAID", "PAID", "OVERDUE", "CANCELLED"}

Receivable ==
  [originalAmount : Int, discountAmount : Int, adjustmentAmount : Int,
   amountDue : Int, amountPaid : Nat, amountOutstanding : Int,
   status : ReceivableStatus]

NewReceivable(original) ==
  [originalAmount |-> original, discountAmount |-> 0, adjustmentAmount |-> 0,
   amountDue |-> original, amountPaid |-> 0, amountOutstanding |-> original,
   status |-> "UNPAID"]

NoReceivable == [NewReceivable(0) EXCEPT !.status = "NONE"]

Exists(rec) == rec.status # "NONE"
Mutable(rec) == Exists(rec) /\ rec.status # "CANCELLED"

RecomputeStatus(rec, pastDue) ==
  IF rec.status = "CANCELLED"        THEN "CANCELLED"
  ELSE IF rec.amountOutstanding <= 0 THEN "PAID"
  ELSE IF rec.amountPaid > 0         THEN "PARTIALLY_PAID"
  ELSE IF pastDue                    THEN "OVERDUE"
  ELSE "UNPAID"

RecomputeAmounts(rec) ==
  LET due == rec.originalAmount - rec.discountAmount + rec.adjustmentAmount
  IN  [rec EXCEPT !.amountDue = due, !.amountOutstanding = due - rec.amountPaid]

(* What every delta ends with: amounts, then status, then the save. *)
Refreshed(rec, pastDue) ==
  LET amounts == RecomputeAmounts(rec)
  IN  [amounts EXCEPT !.status = RecomputeStatus(amounts, pastDue)]

ApplyDiscountDelta(rec, delta, pastDue) ==
  Refreshed([rec EXCEPT !.discountAmount = @ + delta], pastDue)

ApplyAdjustmentDelta(rec, signedDelta, pastDue) ==
  Refreshed([rec EXCEPT !.adjustmentAmount = @ + signedDelta], pastDue)

ApplyPaymentDelta(rec, amount, pastDue) ==
  Refreshed([rec EXCEPT !.amountPaid = @ + amount], pastDue)

(* Mutation: a reversal takes off every payment, not only the reversed one. *)
ReverseEveryPayment(rec, amount, pastDue) ==
  Refreshed([rec EXCEPT !.amountPaid = 0], pastDue)

ReversePaymentDelta(rec, amount, pastDue) ==
  Refreshed([rec EXCEPT !.amountPaid = IF amount <= @ THEN @ - amount ELSE 0],
            pastDue)
=============================================================================
