-------------------------------- MODULE Sums --------------------------------
(***************************************************************************)
(* Totals of the rows of a table: the Decimal reduce(...) calls of the     *)
(* services.  A table's rows are numbered from 1; a total is the last of   *)
(* its running totals, so that what it is can be proved by looking at the  *)
(* first row where a claim about the running total would fail.             *)
(***************************************************************************)
EXTENDS Integers

(* The running totals of the rows 1..n of f. *)
RunningTotal(f, n) ==
  LET total[i \in 0..n] == IF i = 0 THEN 0 ELSE total[i - 1] + f[i]
  IN  total

Total(f, n) == RunningTotal(f, n)[n]
=============================================================================
