---------------------------- MODULE MCAccounting ----------------------------
(***************************************************************************)
(* Small instances of Accounting: one receivable or two, of one student or *)
(* each of its own, and the lists of receivables that orders are made for. *)
(***************************************************************************)
EXTENDS Accounting

OneStudent  == <<1>>
SameStudent == <<1, 1>>
TwoStudents == <<1, 2>>

ItemChoices == {<<1>>, <<1, 2>>, <<2, 1>>, <<1, 1>>}
SingleItems == {<<1>>, <<2>>}
FirstOnly   == {<<1>>}
Adjustments == {-1, 1}
=============================================================================
