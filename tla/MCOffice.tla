------------------------------ MODULE MCOffice ------------------------------
(***************************************************************************)
(* Small workloads of Office: two or three requests at once, and the rows  *)
(* they find.                                                              *)
(***************************************************************************)
EXTENDS Office

-----------------------------------------------------------------------------
(* The requests. *)

ReadYear(after) == [kind |-> "getCurrent", after |-> after, entity |-> "academic_years"]

(* Without a code to ask for, code = NoCode. *)
Create(entity, code) ==
  [kind |-> "createRecord", after |-> {}, entity |-> entity, code |-> code]
CreateThisYear(entity, code) ==
  [kind |-> "getCurrent", after |-> {}, entity |-> entity, code |-> code]
Update(entity, code, newCode) ==
  [kind |-> "updateRecord", after |-> {}, entity |-> entity, code |-> code,
   newCode |-> newCode]
Delete(entity, code) ==
  [kind |-> "deleteRecord", after |-> {}, entity |-> entity, code |-> code,
   charged |-> FALSE]
DeleteCharged(code) == [Delete("fee_plans", code) EXCEPT !.charged = TRUE]

ChangePlan(changes) ==
  [kind |-> "updatePlan", after |-> {}, plan |-> 1, changes |-> changes]
AssignToClasses(classes, after) ==
  [kind |-> "assign", after |-> after, plan |-> 1, target |-> "CLASS", classes |-> classes]
AssignToStudents(students, after) ==
  [kind |-> "assign", after |-> after, plan |-> 1, target |-> "STUDENT",
   students |-> students]

FileRow(code, identifier) ==
  [named |-> TRUE, class |-> 1, code |-> code, identifier |-> identifier,
   quantity |-> 100, unitPrice |-> 3]
PreviewOf(i, type, file) ==
  [kind |-> "preview", after |-> {}, session |-> i, type |-> type, file |-> file,
   plan |-> 1]
ConfirmationOf(i, after) ==
  [kind |-> "confirm", after |-> after, session |-> i, plan |-> 1]

(* What is not there: "phone", "template", "account" with Zalo, "nothing". *)
Notification(missing) == [kind |-> "notify", after |-> {}, lacks |-> missing]

-----------------------------------------------------------------------------
(* The rows: a school year in progress, two classes, students 1 and 2 (of  *)
(* whom 2 was deleted), one fee plan, no receivable.                       *)

Plan(billing, quantity) ==
  [status |-> "ACTIVE", billing |-> billing, semester |-> WholeYear,
   quantity |-> quantity, unitPrice |-> 3]

YearRows(y, year, firstEnd) ==
     YearRow(y) :> year
  @@ SemesterRow(y, "HK1") :> [year EXCEPT !.end = firstEnd]
  @@ SemesterRow(y, "HK2") :> [year EXCEPT !.start = firstEnd + 1]

Table(name, keys, Version(_)) == [row \in {name} \X keys |-> Version(row[2])]

Records(entity, years, codes) ==
  Table(entity, years \X codes, LAMBDA key : NoRecord)

Counters == ({"classes", "fee_plans"} \X Years) \union
            {<<"schools", 0>>, <<"students", 0>>, ReceivableCounter}

BaseRows ==
     Table("academic_years", Years, LAMBDA y : NoYear)
  @@ Table("semesters", Years \X Semesters, LAMBDA key : NoSemester)
  @@ CodeRow("classes", 0, 1) :> Legacy(1)
  @@ CodeRow("students", 0, 1) :> Legacy(1)
  @@ CodeRow("students", 0, 2) :> [Legacy(2) EXCEPT !.deleted = TRUE]
  @@ Records("students", {0}, Codes \ {BaseCode})
  @@ Records("classes", Years, {1, 2, 3}) @@ Records("fee_plans", Years, {0, 1, 2, 3})
  @@ Records("schools", {0}, {1, 2, 3, 4}) @@ Records("companies", {0}, {1, 2})
  @@ Records("users", {0}, {1}) @@ Records("fee_categories", {0}, {1, 2})
  @@ Table("number_sequences", Counters, LAMBDA key : 0)
  @@ PlanRow(1) :> Plan("ONE_TIME", 100)
  @@ EnrolmentRow(1) :> 1
  @@ Table("student_classes", Students, LAMBDA s : NoClass)
  @@ Table("student_receivables", Students \X Plans \X Slots,
           LAMBDA key : NoCharge)
  @@ Table("import_sessions", Sessions, LAMBDA i : NoSession)
  @@ Table("students.identifier_code", Identifiers, LAMBDA n : NoCode)
  @@ TokenRow :> NoToken
  @@ ZaloToken :> InitialToken
  @@ Table("notification_logs", Requests, LAMBDA p : "none")
  @@ Table("zalo message", Requests, LAMBDA p : "none")

Workload(requests, rows, last) ==
  [work |-> requests, rows |-> rows @@ BaseRows, until |-> last]

-----------------------------------------------------------------------------
(* School years around the first of September, in a school that has one    *)
(* and in a school that has none.  One year came from the example data,    *)
(* with dates of its own.                                                  *)

ExampleYear == [status |-> "ACTIVE", start |-> 4, end |-> 272]

YearWorkloads == {
  Workload(<<ReadYear({}), ReadYear({}), ReadYear({1, 2})>>,
           YearRows(0, YearOf(0, "ACTIVE"), 181), 1),
  Workload(<<ReadYear({}), CreateThisYear("fee_plans", NoCode),
             CreateThisYear("classes", NoCode)>>,
           YearRows(0, ExampleYear, 137), 1),
  Workload(<<ReadYear({}), ReadYear({})>>, YearRow(0) :> NoYear, 1)}

(* Codes asked for and generated, some of them taken by older records.     *)
CodeWorkloads == {
  Workload(<<Create("schools", NoCode), Create("schools", NoCode), Create("schools", 2)>>,
           CodeRow("schools", 0, 1) :> Legacy(1), 0),
  Workload(<<CreateThisYear("fee_plans", NoCode), CreateThisYear("fee_plans", NoCode),
             Delete("fee_plans", 0)>>,
           CodeRow("fee_plans", 0, 0) :> Legacy(0)
             @@ CodeRow("fee_plans", 0, 1) :> Legacy(1), 0),
  Workload(<<CreateThisYear("fee_plans", NoCode), DeleteCharged(0)>>,
           CodeRow("fee_plans", 0, 0) :> Legacy(0), 0),
  Workload(<<Create("classes", NoCode), Create("classes", 1), Update("classes", 1, 2)>>,
           YearRow(0) :> NoYear, 0),
  Workload(<<Create("students", NoCode), Create("students", 3), Delete("students", 1)>>,
           YearRow(0) :> NoYear, 0),
  Workload(<<Update("students", 1, 3), Delete("students", 1), Create("students", 3)>>,
           YearRow(0) :> NoYear, 0),
  Workload(<<Update("companies", 1, 2), Delete("companies", 1), Create("companies", 2)>>,
           CodeRow("companies", 0, 1) :> Legacy(1), 0),
  Workload(<<Update("classes", 1, 2), Delete("classes", 1), Create("fee_categories", 1)>>,
           CodeRow("fee_categories", 0, 1) :> Legacy(1), 0),
  Workload(<<Update("fee_categories", 1, 2), Delete("fee_categories", 1),
             Create("fee_categories", 2)>>,
           CodeRow("fee_categories", 0, 1) :> Legacy(1), 0),
  Workload(<<Create("users", 1), Create("users", 1), Update("companies", 1, 2)>>,
           CodeRow("companies", 0, 1) :> Legacy(1)
             @@ CodeRow("companies", 0, 2) :> Legacy(2), 0)}

(* Files of known, new and code-less students, confirmed next to each      *)
(* other, to the creation of a student and to the assignment of the plan.  *)
Known(file, type) == [NoSession EXCEPT !.status = "PENDING_CONFIRMATION",
                                       !.type = type, !.rows = file]

ImportWorkloads == {
  Workload(<<PreviewOf(1, "COMBINED",
               <<FileRow(1, 0), FileRow(3, 1), FileRow(3, 2), FileRow(NoCode, 1),
                 FileRow(NoCode, 0), FileRow(4, 2)>>),
             ConfirmationOf(1, {1}), Create("students", NoCode)>>,
           IdentifierRow(2) :> 1, 0),
  Workload(<<ConfirmationOf(1, {}), ConfirmationOf(2, {}), ConfirmationOf(1, {})>>,
           SessionRow(1) :> Known(<<FileRow(3, 1), FileRow(4, 0)>>, "STUDENTS")
             @@ SessionRow(2) :> Known(<<FileRow(4, 0), FileRow(3, 0)>>, "COMBINED"), 0),
  Workload(<<ConfirmationOf(1, {}), ConfirmationOf(2, {}), AssignToClasses({1}, {})>>,
           SessionRow(1) :> Known(<<FileRow(1, 0), FileRow(NoCode, 0)>>, "RECEIVABLES")
             @@ SessionRow(2) :> Known(<<FileRow(2, 0)>>, "STUDENTS"), 0),
  Workload(<<ConfirmationOf(1, {}), ConfirmationOf(2, {})>>,
           SessionRow(1) :> Known(<<FileRow(3, 1)>>, "STUDENTS")
             @@ SessionRow(2) :> Known(<<FileRow(4, 1)>>, "STUDENTS"), 0),
  Workload(<<ConfirmationOf(1, {}), ConfirmationOf(2, {})>>,
           SessionRow(1) :> Known(<<FileRow(1, 0)>>, "STUDENTS")
             @@ EnrolmentRow(1) :> NoClass
             @@ SessionRow(2) :> Known(<<FileRow(1, 0), FileRow(4, 0)>>, "STUDENTS"), 0),
  Workload(<<ConfirmationOf(1, {}), Update("classes", 1, 2)>>,
           SessionRow(1) :> Known(<<FileRow(1, 0), FileRow(3, 0)>>, "COMBINED"), 0)}

(* A plan of nine months in two halves, assigned twice at once while its   *)
(* price changes, and a plan that is not active any more.                  *)
ChargeWorkloads == {
  Workload(<<AssignToClasses({1}, {}), AssignToStudents({1, 3}, {}),
             ChangePlan([quantity |-> 700])>>,
           PlanRow(1) :> Plan("MONTHLY", 900), 0),
  Workload(<<AssignToStudents({1}, {}), ChangePlan([status |-> "INACTIVE"]),
             AssignToStudents({3}, {})>>,
           PlanRow(1) :> Plan("ONE_TIME", 100), 0)}

(* Parents are notified while the tokens are new, expired or not there, and *)
(* with the template or the account missing in the settings.               *)
NotifyWorkloads == {
  Workload([p \in 1..3 |-> Notification("nothing")],
           TokenRow :> [refresh |-> 0, expires |-> 0], 1),
  Workload(<<Notification("nothing"), Notification("nothing"), Notification("phone")>>,
           TokenRow :> NoToken, 1),
  Workload(<<Notification("template"), Notification("template")>>,
           TokenRow :> NoToken, 0),
  Workload(<<Notification("account"), Notification("account")>>,
           TokenRow :> [refresh |-> 0, expires |-> 0], 0)}

OfficeWorkloads ==
  YearWorkloads \union CodeWorkloads \union ImportWorkloads \union ChargeWorkloads
    \union NotifyWorkloads

(* A plan of the whole year is assigned, then billed by the month, then    *)
(* assigned again.                                                         *)
ChangedBilling == {
  Workload(<<AssignToClasses({1}, {}), ChangePlan([billing |-> "MONTHLY"]),
             AssignToClasses({1}, {1})>>,
           PlanRow(1) :> Plan("ONE_TIME", 900), 0)}

(* A session without student codes, confirmed twice at once.               *)
TwoConfirmations == {
  Workload(<<ConfirmationOf(1, {}), ConfirmationOf(1, {})>>,
           SessionRow(1) :> Known(<<FileRow(NoCode, 0)>>, "STUDENTS"), 0)}

DaysOfYears == [y \in 0..2 |-> 365 * y]
=============================================================================
