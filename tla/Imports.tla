------------------------------ MODULE Imports ------------------------------
(***************************************************************************)
(* Students and receivables from an Excel file: a preview checks the rows  *)
(* and keeps the valid ones as a session, a confirmation writes them, all  *)
(* or none, in one transaction.                                            *)
(***************************************************************************)
EXTENDS FeeCharging

CONSTANTS
  Sessions,
  Identifiers     \* national identifiers of students

NoIdentifier == 0

SessionRow(i)    == <<"import_sessions", i>>
StudentRow(code) == CodeRow("students", 0, code)
IdentifierRow(n) == <<"students.identifier_code", n>>    \* who has it

NoSession == [status |-> "NONE", type |-> "", rows |-> <<>>,
              result |-> NoCounts, by |-> 0]

StudentIsKnown(p, code) == Sees(p, StudentRow(code)) # NoRecord
StudentIsLive(p, code)  ==
  StudentIsKnown(p, code) /\ ~Sees(p, StudentRow(code)).deleted

-----------------------------------------------------------------------------
(* ImportValidationService.validate.  A row is a record [named, class,     *)
(* code, identifier, quantity, unitPrice].                                 *)

RepeatsIn(file, i, field, none) ==
  /\ file[i][field] # none
  /\ \E j \in 1..(i - 1) : file[j][field] = file[i][field]

IdentifierIsOther(p, row) ==
  /\ row.identifier # NoIdentifier
  /\ Sees(p, IdentifierRow(row.identifier)) \notin {NoCode, row.code}

ChargedAlready(p, s, pl) ==
  \E slot \in Slots : Sees(p, ReceivableRow(s, pl, slot)) # NoCharge

(* A student who was deleted counts as one who exists. *)
BadCharge(p, row, type, pl) ==
  /\ type # "STUDENTS"
  /\ \/ row.quantity <= 0
     \/ row.unitPrice <= 0
     \/ /\ row.code # NoCode
        /\ StudentIsKnown(p, row.code)
        /\ ChargedAlready(p, row.code, pl)

IsValid(p, file, i, type, pl) ==
  LET row == file[i] IN
  /\ row.named
  /\ Sees(p, CodeRow("classes", 0, row.class)) # NoRecord
  /\ ~RepeatsIn(file, i, "code", NoCode)
  /\ ~RepeatsIn(file, i, "identifier", NoIdentifier)
  /\ ~IdentifierIsOther(p, row)
  /\ type = "RECEIVABLES" /\ row.code # NoCode => StudentIsKnown(p, row.code)
  /\ ~BadCharge(p, row, type, pl)

ValidRows(p, file, type, pl) ==
  LET valid == {i \in DOMAIN file : IsValid(p, file, i, type, pl)}
  IN  [n \in 1..Cardinality(valid) |-> file[SetToSortSeq(valid, <)[n]]]

Preview(p) ==
  LET w == work[p] IN
  /\ At(p, "preview")
  /\ WritesAtOnce(NewVersion(SessionRow(w.session),
       [NoSession EXCEPT !.status = "PENDING_CONFIRMATION", !.type = w.type,
                         !.rows = ValidRows(p, w.file, w.type, w.plan)]))
  /\ Answers(p, "done")

-----------------------------------------------------------------------------
(* ImportsService.confirm. *)

SessionOf(p) == Sees(p, SessionRow(work[p].session))

IsPending(p) == SessionOf(p).status = "PENDING_CONFIRMATION"

(* A class that was renamed or removed since the preview is not found. *)
WithClasses(p, rows) ==
  [i \in DOMAIN rows |->
     IF Sees(p, CodeRow("classes", 0, rows[i].class)) # NoRecord THEN rows[i]
     ELSE [rows[i] EXCEPT !.class = NoClass]]

Confirm(p) ==
  /\ At(p, "confirm")
  /\ \/ /\ ~IsPending(p) \/ SessionOf(p).rows = <<>>
        /\ Refuses(p, "refused")
     \/ /\ IsPending(p) /\ SessionOf(p).rows # <<>>
        /\ OnlyReads
        /\ Proceeds(p, "importNext", {},
                    [local[p] EXCEPT !.todo = WithClasses(p, SessionOf(p).rows),
                                     !.then = "importNext",
                                     !.plan = Sees(p, PlanRow(work[p].plan))])

Row(p) == Head(local[p].todo)

(* Mutation: an import of both creates no students either. *)
OnlyStudentsCreates(p) == SessionOf(p).type # "STUDENTS"

(* Rows of unknown students are skipped, without being counted. *)
CreatesNoStudents(p) == SessionOf(p).type = "RECEIVABLES"

ImportNext(p) ==
  LET row == Row(p) IN
  /\ At(p, "importNext")
  /\ OnlyReads
  /\ \/ /\ local[p].todo = <<>>
        /\ Proceeds(p, "saveSession", {SessionRow(work[p].session)}, local[p])
     \/ /\ local[p].todo # <<>>
        /\ row.code # NoCode /\ StudentIsLive(p, row.code)
        /\ Proceeds(p, "findEnrolment", {},
                    [local[p] EXCEPT !.code = row.code, !.counts.matched = @ + 1])
     \/ /\ local[p].todo # <<>>
        /\ ~(row.code # NoCode /\ StudentIsLive(p, row.code))
        /\ IF CreatesNoStudents(p)
           THEN Proceeds(p, "importNext", {}, [local[p] EXCEPT !.todo = Tail(@)])
           ELSE Proceeds(p, "createStudent", {}, local[p])

(* StudentsService.create, in the transaction of the import. *)
NewStudentRows(p, code) ==
  {StudentRow(code)} \union
    (IF Row(p).identifier = NoIdentifier THEN {} ELSE {IdentifierRow(Row(p).identifier)})

InsertsStudent(p, code) ==
  Proceeds(p, "insertStudent", NewStudentRows(p, code), [local[p] EXCEPT !.code = code])

DrawsStudentCode(p) ==
  Proceeds(p, "drawStudentCode", {SequenceRow(<<"students", 0>>)}, local[p])

(* An identifier in use by a live student, or a code, is a conflict. *)
IdentifierInUse(p) ==
  LET n == Row(p).identifier IN
  /\ n # NoIdentifier
  /\ Sees(p, IdentifierRow(n)) # NoCode
  /\ StudentIsLive(p, Sees(p, IdentifierRow(n)))

CreateStudent(p) ==
  /\ At(p, "createStudent")
  /\ \/ IdentifierInUse(p) /\ Fails(p, "conflict")
     \/ /\ ~IdentifierInUse(p)
        /\ OnlyReads
        /\ IF Row(p).code # NoCode THEN InsertsStudent(p, Row(p).code)
           ELSE DrawsStudentCode(p)

DrawStudentCode(p) ==
  LET code == NextNumber(p, <<"students", 0>>) IN
  /\ At(p, "drawStudentCode")
  /\ DrawsInside(p, <<"students", 0>>)
  /\ IF StudentIsKnown(p, code) THEN DrawsStudentCode(p) ELSE InsertsStudent(p, code)

(* Mutation: the student is inserted on a connection of its own. *)
WritesOutside(p, versions) == WritesAtOnce(versions)

WritesNewStudent(p, versions) == Writes(p, versions)

(* The refusal of either unique index ends the whole confirmation. *)
InsertStudent(p) ==
  LET code  == local[p].code
      taken == \/ StudentIsKnown(p, code)
               \/ /\ Row(p).identifier # NoIdentifier
                  /\ Sees(p, IdentifierRow(Row(p).identifier)) # NoCode
      row   == NewVersion(StudentRow(code), [id |-> <<p, code>>, deleted |-> FALSE])
      index == [r \in NewStudentRows(p, code) \ {StudentRow(code)} |-> code]
  IN
  /\ At(p, "insertStudent")
  /\ \/ taken /\ Fails(p, "conflict")
     \/ /\ ~taken
        /\ WritesNewStudent(p, row \uplus index)
        /\ Proceeds(p, "findEnrolment", {}, [local[p] EXCEPT !.counts.created = @ + 1])

(* The charge is that of the plan's semester, in the amount of the row. *)
ChargesOrGoesOn(p) ==
  LET amount == DefaultAmount(Row(p).quantity, Row(p).unitPrice)
      charge == Charge(local[p].code, work[p].plan, local[p].plan.semester, amount)
  IN  IF SessionOf(p).type = "STUDENTS"
      THEN Proceeds(p, "importNext", {}, [local[p] EXCEPT !.todo = Tail(@)])
      ELSE Proceeds(p, "createIfNotExists", {},
                    [local[p] EXCEPT !.todo = Tail(@), !.record = charge])

(* StudentClassesService.assign: one class per student and year.  Whose    *)
(* class is not found is charged all the same.                             *)
FindEnrolment(p) ==
  /\ At(p, "findEnrolment")
  /\ OnlyReads
  /\ IF Row(p).class = NoClass THEN ChargesOrGoesOn(p)
     ELSE Proceeds(p, IF Sees(p, EnrolmentRow(local[p].code)) = NoClass
                      THEN "insertEnrolment" ELSE "saveEnrolment",
                   {EnrolmentRow(local[p].code)}, local[p])

SaveEnrolment(p) ==
  LET enrolment == EnrolmentRow(local[p].code) IN
  \/ /\ At(p, "insertEnrolment")
     /\ Sees(p, enrolment) # NoClass
     /\ Fails(p, "failed")
  \/ /\ \/ At(p, "insertEnrolment") /\ Sees(p, enrolment) = NoClass
        \/ At(p, "saveEnrolment")
     /\ Writes(p, NewVersion(enrolment, Row(p).class))
     /\ ChargesOrGoesOn(p)

(* The session read at the start is saved with its new status, whatever    *)
(* became of it meanwhile.                                                 *)
SaveSession(p) ==
  LET session == SessionOf(p) IN
  /\ At(p, "saveSession")
  /\ Writes(p, NewVersion(SessionRow(work[p].session),
                 [session EXCEPT !.status = "CONFIRMED", !.result = local[p].counts,
                                 !.by = p]))
  /\ Proceeds(p, "commitImport", {}, local[p])

CommitImport(p) == At(p, "commitImport") /\ Ends(p)

ImportStatement(p) ==
  \/ Preview(p) \/ Confirm(p) \/ ImportNext(p)
  \/ CreateStudent(p) \/ DrawStudentCode(p) \/ InsertStudent(p)
  \/ FindEnrolment(p) \/ SaveEnrolment(p) \/ SaveSession(p) \/ CommitImport(p)
=============================================================================
