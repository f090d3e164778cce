--------------------------- MODULE TransferBooks ---------------------------
(***************************************************************************)
(* What the accounting principles of the README promise of the transfers a *)
(* bank reports (principles 3 to 5), with no word of requests, database    *)
(* transactions or locks: a transfer is recorded once, all of its money at *)
(* once, and what the receivables it pays do not need becomes credit.      *)
(***************************************************************************)
EXTENDS Integers, FiniteSetsExt

CONSTANTS
  Transfers,
  Receivables,
  AmountOf,      \* what the bank reports of each transfer
  Due,           \* what each receivable asks for
  ItemSets       \* the sets of receivables that the orders are made for

VARIABLES
  state,   \* of each transfer: "unknown", "unmatched" or "allocated"
  given,   \* how much of each transfer is on each receivable
  kept     \* how much of each transfer is kept as credit

books == <<state, given, kept>>

PaidOn(r) == MapThenSumSet(LAMBDA t : given[t][r], Transfers)

Init ==
  /\ state \in [Transfers -> {"unknown", "unmatched"}]
  /\ given = [t \in Transfers |-> [r \in Receivables |-> 0]]
  /\ kept  = [t \in Transfers |-> 0]

(* No order has the transfer's content: it waits to be matched by hand. *)
RecordUnmatched(t) ==
  /\ state[t] = "unknown"
  /\ state' = [state EXCEPT ![t] = "unmatched"]
  /\ UNCHANGED <<given, kept>>

(* The money goes to the receivables `on' of one order, never more to one  *)
(* than it lacks, and is only kept when none of them lacks anything more.  *)
Allocate(t) ==
  /\ state[t] # "allocated"
  /\ state' = [state EXCEPT ![t] = "allocated"]
  /\ \E on \in ItemSets :
     \E shares \in [on -> 0..AmountOf[t]] :
       LET shared == MapThenSumSet(LAMBDA r : shares[r], on)
       IN  /\ shared <= AmountOf[t]
           /\ \A r \in on : PaidOn(r) + shares[r] <= Due[r]
           /\ shared < AmountOf[t] =>
                \A r \in on : PaidOn(r) + shares[r] = Due[r]
           /\ given' = [given EXCEPT ![t] =
                [r \in Receivables |-> IF r \in on THEN shares[r] ELSE 0]]
           /\ kept'  = [kept EXCEPT ![t] = AmountOf[t] - shared]

Next == \E t \in Transfers : RecordUnmatched(t) \/ Allocate(t)

Spec == Init /\ [][Next]_books
=============================================================================
