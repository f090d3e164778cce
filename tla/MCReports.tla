----------------------------- MODULE MCReports -----------------------------
(***************************************************************************)
(* A small instance of Reports: two schools of one company, a student with *)
(* a receivable in each; the first student is in no class any more, the    *)
(* second in a class of this year and still in one of the last.  One user  *)
(* of every kind of scope.                                                 *)
(***************************************************************************)
EXTENDS Reports

TwoStudents == <<1, 2>>
OwnSchool   == <<1, 2>>
OneCompany  == <<1, 1>>
InClasses   == <<{}, {1, 2}>>
SchoolsOfClasses == <<2, 2>>
OwnCategory == <<1, 2>>
OwnPlan     == <<1, 2>>
OwnDay      == <<1, 2>>
OwnAccount  == <<1, 2>>
SchoolsOfCategories == <<1, 2>>
SingleItems == {<<1>>, <<2>>}
Adjustments == {-1, 1}

User(role, company, school) ==
  [role |-> role, company |-> company, school |-> school]
EveryKindOfUser ==
  {User("SUPER_ADMIN", 0, 0), User("ADMIN", 0, 0), User("ACCOUNTANT", 1, 0),
   User("CASHIER", 0, 2), User("ACCOUNTANT", 0, 0)}
CashiersReport ==
  {[user |-> User("CASHIER", 0, 2), filter |-> NoFilter]}
=============================================================================
