---------------------------- MODULE FeeCharging ----------------------------
(***************************************************************************)
(* Fee plans and how they become receivables: a plan is assigned to        *)
(* students, and each is charged for the year, or for its two semesters.   *)
(* Quantities and prices are in hundredths, as their columns keep them.    *)
(***************************************************************************)
EXTENDS SchoolYears

CONSTANTS
  Students,    \* by their codes
  Plans

WholeYear == "YEAR"      \* semester_id is NULL
Slots == Semesters \union {WholeYear}

PlanRow(pl)      == <<"fee_plans (terms)", pl>>   \* what it charges, and to whom
EnrolmentRow(s)  == <<"student_classes", s>>       \* in the plan's year
ReceivableRow(s, pl, slot) == <<"student_receivables", <<s, pl, slot>>>>

NoClass      == 0
NoCharge == [number |-> 0, amount |-> 0, by |-> 0]

ReceivableCounter == <<"receivables", 0>>

-----------------------------------------------------------------------------
(* Amounts: a product of hundredths, rounded half up to hundredths. *)

Rounded(n, d) == (2 * n + d) \div (2 * d)

DefaultAmount(quantity, unitPrice) == Rounded(quantity * unitPrice, 100)

(* The half of a quantity is not rounded before it is multiplied. *)
HalfAmount(quantity, unitPrice) == Rounded(quantity * unitPrice, 200)

-----------------------------------------------------------------------------
(* FeePlansService.update: neither the way of billing nor what was charged *)
(* follows the new quantity, price, semester or status.                    *)

UpdatePlan(p) ==
  /\ At(p, "updatePlan")
  /\ OnlyReads
  /\ Proceeds(p, "savePlan", {PlanRow(work[p].plan)},
              [local[p] EXCEPT !.record = work[p].changes
                                            \uplus Sees(p, PlanRow(work[p].plan))])

SavePlan(p) ==
  LET plan == local[p].record IN
  /\ At(p, "savePlan")
  /\ WritesAtOnce(NewVersion(PlanRow(work[p].plan), plan))
  /\ Answers(p, "done")

-----------------------------------------------------------------------------
(* ReceivablesService.createIfNotExists, in the transaction of its caller, *)
(* which goes on where local.then says.                                    *)

Charge(s, pl, slot, amount) ==
  [student |-> s, plan |-> pl, slot |-> slot, amount |-> amount]

ChargeRow(p) ==
  LET c == local[p].record IN ReceivableRow(c.student, c.plan, c.slot)

IsCharged(p) == Sees(p, ChargeRow(p)) # NoCharge

CreateIfNotExists(p) ==
  /\ At(p, "createIfNotExists")
  /\ OnlyReads
  /\ IF IsCharged(p)
     THEN Proceeds(p, local[p].then, {},
                   [local[p] EXCEPT !.counts.skipped = @ + 1])
     ELSE Proceeds(p, "drawReceivableCode", {SequenceRow(ReceivableCounter)}, local[p])

DrawReceivableCode(p) ==
  /\ At(p, "drawReceivableCode")
  /\ DrawsInside(p, ReceivableCounter)
  /\ Proceeds(p, "insertReceivable", {ChargeRow(p)},
              [local[p] EXCEPT !.code = NextNumber(p, ReceivableCounter)])

(* Mutation: the index of student, plan and semester is not unique. *)
NoUniqueCharge(p) == FALSE

ViolatesUniqueCharge(p) == Sees(p, ChargeRow(p)) # NoCharge

(* The unique index has the last word; its refusal fails the whole request. *)
InsertReceivable(p) ==
  /\ At(p, "insertReceivable")
  /\ \/ ViolatesUniqueCharge(p) /\ Fails(p, "failed")
     \/ /\ ~ViolatesUniqueCharge(p)
        /\ Writes(p, NewVersion(ChargeRow(p), [number |-> local[p].code,
                                   amount |-> local[p].record.amount, by |-> p]))
        /\ Proceeds(p, local[p].then, {},
                    [local[p] EXCEPT !.counts.charged = @ + 1])

-----------------------------------------------------------------------------
(* FeeAssignmentsService.assign. *)

SlotsOf(plan) ==
  IF plan.billing = "ONE_TIME"
  THEN <<<<plan.semester, DefaultAmount(plan.quantity, plan.unitPrice)>>>>
  ELSE LET half == HalfAmount(plan.quantity, plan.unitPrice)
       IN  <<<<"HK1", half>>, <<"HK2", half>>>>

(* The plan and the semesters are read before the transaction. *)
Assign(p) ==
  LET plan == Sees(p, PlanRow(work[p].plan)) IN
  /\ At(p, "assign")
  /\ \/ plan.status # "ACTIVE" /\ Refuses(p, "refused")
     \/ /\ plan.status = "ACTIVE"
        /\ OnlyReads
        /\ Proceeds(p, "findStudents", {}, [local[p] EXCEPT !.plan = plan])

(* The students of the school, a grade or some classes are those enrolled; *)
(* students named one by one are taken as they are.                        *)
Targeted(p) ==
  IF work[p].target = "STUDENT" THEN work[p].students
  ELSE {s \in Students : Sees(p, EnrolmentRow(s)) \in work[p].classes}

(* The query has no ORDER BY. *)
InAnyOrder(S) ==
  {order \in [1..Cardinality(S) -> S] : \A s \in S : \E i \in DOMAIN order : order[i] = s}

(* A loop over the slots in a loop over the students. *)
ChargesFor(students, pl, slots) ==
  [n \in 1..(Len(students) * Len(slots)) |->
     LET slot == slots[1 + ((n - 1) % Len(slots))]
     IN  Charge(students[1 + (n - 1) \div Len(slots)], pl, slot[1], slot[2])]

FindStudents(p) ==
  /\ At(p, "findStudents")
  /\ OnlyReads
  /\ \E students \in InAnyOrder(Targeted(p)) :
       Proceeds(p, "assignNext", {},
                [local[p] EXCEPT !.then = "assignNext",
                   !.todo = ChargesFor(students, work[p].plan, SlotsOf(local[p].plan))])

AssignNext(p) ==
  /\ At(p, "assignNext")
  /\ \/ local[p].todo = <<>> /\ Ends(p)
     \/ /\ local[p].todo # <<>>
        /\ OnlyReads
        /\ Proceeds(p, "createIfNotExists", {},
                    [local[p] EXCEPT !.record = Head(local[p].todo),
                                     !.todo = Tail(@)])

ChargeStatement(p) ==
  \/ UpdatePlan(p) \/ SavePlan(p)
  \/ CreateIfNotExists(p) \/ DrawReceivableCode(p) \/ InsertReceivable(p)
  \/ Assign(p) \/ FindStudents(p) \/ AssignNext(p)
=============================================================================
